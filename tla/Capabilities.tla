---------------------------- MODULE Capabilities ----------------------------
(***************************************************************************)
(* IPC capabilities: the set each task holds (kernel/src/ipc/capability.rs,*)
(* task/table.rs) and the system calls that create a channel, delegate     *)
(* bits of it and revoke them (kernel/src/syscall/mod.rs).                 *)
(*                                                                         *)
(* Every access to a set takes the task table's lock on its own, so a call *)
(* is a series of steps, named by where the caller is in op.  The steps of *)
(* several calls interleave, because application processors run tasks too  *)
(* (sched::run_on_ap) and the interrupts a call disables are its own CPU's.*)
(* Between two of them the target may die and its slot go to another task; *)
(* a task does not die inside a call.                                      *)
(*                                                                         *)
(* ever, made and cuts are history: the bits a task has held, the channels *)
(* it made, and the revocations that were completed.                       *)
(***************************************************************************)
EXTENDS Integers, Sequences, FiniteSets, SequencesExt

CONSTANTS
    NSlots,     \* task slots; slot 0 is the kernel's
    Channels,   \* names a channel can have; MAX_CHANNELS of them
    MaxCaps,    \* CAPABILITY_SET_CAPACITY
    MaxQuota,   \* MAX_USER_TASK_CHANNELS
    MaxId,      \* bound: task ids given out
    Manage,     \* CAP_MANAGE
    Uses,       \* the other bits: CAP_SEND, CAP_RECV
    Asked,      \* bound: the sets of bits a grant or a revocation names
    NoTask      \* an empty slot

Slots == 0 .. NSlots - 1
Perms == Uses \cup {Manage}
Ids == 1 .. MaxId

(* An entry of a capability set; a task by what these calls see of it.     *)
Entry == [channel : Channels, perms : SUBSET Perms]
Task == [id : Nat, caps : Seq(Entry), created : Nat]

ASSUME CapabilitiesAssumption ==
    /\ NSlots \in Nat \ {0} /\ MaxCaps \in Nat \ {0}
    /\ MaxQuota \in Nat /\ MaxId \in Nat
    /\ Manage \notin Uses
    /\ Asked \subseteq (SUBSET Perms) \ {{}}
    /\ NoTask \notin Task

VARIABLES
    tasks,   \* per slot: id, capability entries, channels_created
    active,  \* channels that exist
    op,      \* per slot: the call in progress
    nextId,  \* the id the next task gets
    ever,    \* history: per slot, the <<channel, bit>> pairs its task has held
    made,    \* history: per slot, the number of channels its task made
    cuts     \* history: the last completed revocation of a bit, until it is granted anew

vars == <<tasks, active, op, nextId, ever, made, cuts>>

-----------------------------------------------------------------------------
(* CapabilitySet: entries of a channel and its bits, one per channel.      *)
EntryOf(caps, c) == {k \in DOMAIN caps : caps[k].channel = c}

Granted(caps, c, perms) ==
    IF EntryOf(caps, c) # {}
    THEN [caps EXCEPT ![CHOOSE k \in EntryOf(caps, c) : TRUE].perms = @ \cup perms]
    ELSE Append(caps, [channel |-> c, perms |-> perms])

CanGrant(caps, c) == EntryOf(caps, c) # {} \/ Len(caps) < MaxCaps

(* The last entry takes the place of one that is left without bits.        *)
SwapRemoved(caps, k) == Front([caps EXCEPT ![k] = Last(caps)])

MutRevoked(caps, c, perms) ==    \* faulty: the entry stays when no bit is left
    [k \in DOMAIN caps |-> IF caps[k].channel = c THEN [caps[k] EXCEPT !.perms = @ \ perms]
                            ELSE caps[k]]
Revoked(caps, c, perms) ==
    IF EntryOf(caps, c) = {} THEN caps
    ELSE LET k == CHOOSE k \in EntryOf(caps, c) : TRUE
         IN  IF caps[k].perms \subseteq perms
             THEN SwapRemoved(caps, k)
             ELSE [caps EXCEPT ![k].perms = @ \ perms]

Has(caps, c, perms) == \E k \in EntryOf(caps, c) : perms \subseteq caps[k].perms

-----------------------------------------------------------------------------
Live == {i \in Slots : tasks[i] # NoTask}
Idle == [at |-> "idle"]
Done(i) == op' = [op EXCEPT ![i] = Idle]
Goto(i, at) == op' = [op EXCEPT ![i].at = at]
InSlot(i, c, perms) == i \in Live /\ Has(tasks[i].caps, c, perms)

Pairs(caps) == UNION {{caps[k].channel} \X caps[k].perms : k \in DOMAIN caps}
Record == ever' = [i \in Slots |-> IF i \in Live THEN ever[i] \cup Pairs(tasks'[i].caps)
                                   ELSE {}]

Bookkeeping == <<ever, made, cuts>>

(* A new task in an empty slot, and the end of one that is in no call.     *)
Spawn(i) ==
    /\ tasks[i] = NoTask
    /\ nextId <= MaxId
    /\ tasks' = [tasks EXCEPT ![i] = [id |-> nextId, caps |-> <<>>, created |-> 0]]
    /\ nextId' = nextId + 1
    /\ UNCHANGED <<active, op, Bookkeeping>>

Exit(i) ==
    /\ i \in Live \ {0}
    /\ op[i] = Idle
    /\ tasks' = [tasks EXCEPT ![i] = NoTask]
    /\ ever' = [ever EXCEPT ![i] = {}]
    /\ made' = [made EXCEPT ![i] = 0]
    /\ UNCHANGED <<active, op, nextId, cuts>>

-----------------------------------------------------------------------------
(* sys_channel_create: a user task is charged for the channel first; then  *)
(* the channel is made, which fails when the table is full and does not    *)
(* give the charge back; then its maker gets every bit.                    *)
MutOverQuota(created) == created > MaxQuota    \* faulty: one channel too many
OverQuota(created) == created >= MaxQuota

ChargeQuota(i) ==
    /\ i \in Live \ {0}
    /\ op[i] = Idle
    /\ ~OverQuota(tasks[i].created)
    /\ tasks' = [tasks EXCEPT ![i].created = @ + 1]
    /\ op' = [op EXCEPT ![i] = [at |-> "create"]]
    /\ UNCHANGED <<active, nextId, Bookkeeping>>

MakeChannel(i) ==
    /\ op[i].at = "create"
    /\ \/ /\ active = Channels
          /\ Done(i)
          /\ UNCHANGED <<active, made>>
       \/ \E c \in Channels \ active :
             /\ active' = active \cup {c}
             /\ made' = [made EXCEPT ![i] = @ + 1]
             /\ op' = [op EXCEPT ![i] = [at |-> "own", channel |-> c]]
    /\ UNCHANGED <<tasks, nextId, ever, cuts>>

(* The result of the grant is not looked at: with a full set the maker is  *)
(* left without a capability.                                              *)
OwnChannel(i) ==
    /\ op[i].at = "own"
    /\ tasks' = IF CanGrant(tasks[i].caps, op[i].channel)
                THEN [tasks EXCEPT ![i].caps = Granted(@, op[i].channel, Perms)]
                ELSE tasks
    /\ Record
    /\ Done(i)
    /\ UNCHANGED <<active, nextId, made, cuts>>

-----------------------------------------------------------------------------
(* sys_ipc_cap_grant and sys_ipc_cap_revoke: the channel must exist; then  *)
(* delegate and revoke look for the target's slot and check that the       *)
(* caller may manage.  A step of another call between these is the same as *)
(* one before or after them, so they are one.                              *)
MutMayManage(i, c) == i \in Live    \* faulty: any task may delegate and revoke
MayManage(i, c) == InSlot(i, c, {Manage})
Lookup(id) == {j \in Live : tasks[j].id = id}

Call(i, kind, id, c, perms) ==
    /\ i # 0
    /\ op[i] = Idle
    /\ c \in active
    /\ MayManage(i, c)
    /\ \E j \in Lookup(id) :
          op' = [op EXCEPT ![i] = [at |-> kind, target |-> j, channel |-> c,
                                   perms |-> perms]]
    /\ UNCHANGED <<tasks, active, nextId, Bookkeeping>>

(* delegate: the granter holds every bit it gives. *)
MayDelegate(i, c, perms) == InSlot(i, c, perms)

(* A grant that gets this far is under way: the revocations it may follow  *)
(* are no longer the last word, if the revoker or the kernel makes it.     *)
Outlived(i, c, perms) ==
    {x \in cuts : x.channel = c /\ x.perm \in perms /\ (i = 0 \/ x.by = tasks[i].id)}

CheckHeld(i) ==
    /\ op[i].at = "delegate"
    /\ IF MayDelegate(i, op[i].channel, op[i].perms)
       THEN /\ Goto(i, "grant")
            /\ cuts' = cuts \ Outlived(i, op[i].channel, op[i].perms)
       ELSE Done(i) /\ UNCHANGED cuts
    /\ UNCHANGED <<tasks, active, nextId, ever, made>>

(* ipc_cap_grant_by_task_id, with which the kernel gives a service its     *)
(* bits: a lookup and a grant, without the checks.                         *)
KernelGrant(id, c, perms) ==
    /\ op[0] = Idle
    /\ \E j \in Lookup(id) \ {0} :
          op' = [op EXCEPT ![0] = [at |-> "grant", target |-> j, channel |-> c,
                                   perms |-> perms]]
    /\ cuts' = cuts \ Outlived(0, c, perms)
    /\ UNCHANGED <<tasks, active, nextId, ever, made>>

(* ipc_cap_grant: whoever is in the slot that was looked up gets the bits. *)
Grant(i) ==
    /\ op[i].at = "grant"
    /\ LET j == op[i].target
       IN  tasks' = IF j \in Live /\ CanGrant(tasks[j].caps, op[i].channel)
                    THEN [tasks EXCEPT ![j].caps = Granted(@, op[i].channel, op[i].perms)]
                    ELSE tasks
    /\ Record
    /\ Done(i)
    /\ UNCHANGED <<active, nextId, made, cuts>>

(* ipc_cap_revoke: nothing more is done when the target lost nothing.      *)
RevokeTarget(i) ==
    /\ op[i].at = "revoke"
    /\ LET j == op[i].target
           caps == IF j \in Live THEN Revoked(tasks[j].caps, op[i].channel, op[i].perms)
                   ELSE <<>>
       IN  IF j \in Live /\ caps # tasks[j].caps
           THEN tasks' = [tasks EXCEPT ![j].caps = caps] /\ Goto(i, "cascade")
           ELSE Done(i) /\ UNCHANGED tasks
    /\ UNCHANGED <<active, nextId, Bookkeeping>>

(* ipc_cap_revoke_all_except: every task but the revoker loses the bits.   *)
MutSpared(i, j) == j = i \/ j = op[i].target    \* faulty: the target is skipped as done
Spared(i, j) == j = i

InFlight(c) ==
    \E j \in Slots : \/ op[j].at = "grant" /\ op[j].channel = c
                     \/ op[j].at = "own" /\ op[j].channel = c

Cascade(i) ==
    /\ op[i].at = "cascade"
    /\ LET c == op[i].channel
           perms == op[i].perms
       IN  /\ tasks' = [j \in Slots |-> IF j \in Live /\ ~Spared(i, j)
                                        THEN [tasks[j] EXCEPT !.caps = Revoked(@, c, perms)]
                                        ELSE tasks[j]]
           /\ cuts' = {x \in cuts : x.channel # c \/ x.perm \notin perms} \cup
                      (IF InFlight(c) THEN {}
                       ELSE [channel : {c}, perm : perms, by : {tasks[i].id}])
    /\ Done(i)
    /\ UNCHANGED <<active, nextId, ever, made>>

-----------------------------------------------------------------------------
Init ==
    /\ tasks = [i \in Slots |-> IF i = 0 THEN [id |-> 0, caps |-> <<>>, created |-> 0]
                                ELSE NoTask]
    /\ active = {}
    /\ op = [i \in Slots |-> Idle]
    /\ nextId = 1
    /\ ever = [i \in Slots |-> {}]
    /\ made = [i \in Slots |-> 0]
    /\ cuts = {}

Next ==
    \E i \in Slots :
        \/ Spawn(i) \/ Exit(i)
        \/ ChargeQuota(i) \/ MakeChannel(i) \/ OwnChannel(i)
        \/ \E kind \in {"delegate", "revoke"}, id \in Ids, c \in Channels,
              perms \in Asked : Call(i, kind, id, c, perms)
        \/ \E id \in Ids, c \in Channels, perms \in Asked :
              i = 0 /\ KernelGrant(id, c, perms)
        \/ CheckHeld(i) \/ Grant(i)
        \/ RevokeTarget(i) \/ Cascade(i)

Spec == Init /\ [][Next]_vars

-----------------------------------------------------------------------------
Busy == {"idle", "create", "own", "delegate", "grant", "revoke", "cascade"}

(* A set has at most one entry for a channel, none without bits and no     *)
(* more than its array holds: what grant and the swap-removal of revoke    *)
(* keep, and has relies on when it stops at the first match.               *)
SetsWellFormed ==
    /\ active \subseteq Channels
    /\ \A i \in Slots : op[i].at \in Busy
    /\ \A i \in Live :
          LET caps == tasks[i].caps
          IN  /\ Len(caps) <= MaxCaps
              /\ \A k \in DOMAIN caps : caps[k].channel \in Channels
                                        /\ caps[k].perms \in (SUBSET Perms) \ {{}}
              /\ \A k, l \in DOMAIN caps : caps[k].channel = caps[l].channel => k = l

(* No task's bits come from nowhere: a task gains a bit only as the maker  *)
(* of the channel, or from the kernel, or from a task that has itself held *)
(* that bit and the right to manage, wherever the checks and the grant are *)
(* torn apart.                                                             *)
Gains(i) ==
    Pairs(tasks'[i].caps) \ (IF tasks[i] = NoTask THEN {} ELSE Pairs(tasks[i].caps))

NoAmplification ==
    [][\A i \in Slots : tasks'[i] # NoTask =>
          \A g \in Gains(i) :
             \/ op[i].at = "own" /\ op[i].channel = g[1]
             \/ \E j \in Live : /\ op[j].at = "grant" /\ op[j].target = i
                                /\ \/ j = 0
                                   \/ {g, <<g[1], Manage>>} \subseteq ever[j]]_vars

HeldByOther(x) ==
    \E i \in Live : tasks[i].id # x.by /\ <<x.channel, x.perm>> \in Pairs(tasks[i].caps)

(* A revocation that completes while no grant of the channel is between    *)
(* its checks and its effect is final: until the revoker or the kernel     *)
(* delegates the bit again, no one else holds it.                          *)
RevocationFinal == \A x \in cuts : ~HeldByOther(x)

(* The comment on the cascade, "Cascade revocation to all descendant       *)
(* holders", asks that a grant takes effect only while its granter still   *)
(* has what the checks saw.                                                *)
GrantStillBacked ==
    [][\A i \in Slots \ {0} :
          op[i].at = "grant" /\ op'[i].at = "idle" =>
             InSlot(i, op[i].channel, op[i].perms \cup {Manage})]_vars

(* The charge a task carries covers every channel it made and the one it   *)
(* is making, and never passes the limit, however many creations failed.   *)
QuotaCovers ==
    \A i \in Live \ {0} :
        /\ tasks[i].created <= MaxQuota
        /\ made[i] + (IF op[i].at = "create" THEN 1 ELSE 0) <= tasks[i].created
=============================================================================
