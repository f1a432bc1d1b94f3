----------------------------- MODULE Scheduler -----------------------------
(***************************************************************************)
(* The life of kernel threads on one CPU: creation, dispatch, preemption,  *)
(* blocking, join, exit and reaping (kernel/src/sched/mod.rs, the BSP part *)
(* of sched/percpu.rs, task/reaper.rs, task/stack_pool.rs and the create   *)
(* functions of task/table.rs).                                            *)
(*                                                                         *)
(* A thread is named by its task id; id 1 is the init task in slot 0, id 2 *)
(* the reaper in slot 1, and 0 is the boot thread, which has no slot.  pc  *)
(* says where in the kernel each thread is.  Only the executing thread,    *)
(* thr, takes steps of its own.  A step is the code between two points at  *)
(* which the timer interrupt can preempt it: schedule(), preempt() and     *)
(* terminate_current_task() run with interrupts off, so a switch and what  *)
(* the resumed side does before it turns them on again is one step.        *)
(* CONTEXTS and the CURRENT_INDEX variable are modelled as they are, so    *)
(* which thread runs (thr) and which slot the scheduler believes it is in  *)
(* (current) can differ.                                                   *)
(***************************************************************************)
EXTENDS TaskTable, FiniteSetsExt

CONSTANTS
  MaxId,        \* bound of the model: the highest task id handed out
  ReapCap,      \* REAP_QUEUE_SIZE
  RunqCap,      \* QUEUE_CAPACITY of the per-CPU run queue
  PerCpu,       \* PERCPU_ACTIVE: whether init_percpu has run
  InitReturns,  \* whether init may return (display task not spawned)
  Watchdog      \* whether the watchdog may expire a task

ASSUME SchedulerAssumption ==
  /\ NSlots >= 2
  /\ MaxId \in Nat /\ MaxId >= 2
  /\ ReapCap \in Nat \ {0}
  /\ RunqCap \in Nat \ {0}
  /\ {PerCpu, InitReturns, Watchdog} \subseteq BOOLEAN
  /\ Cardinality(Stacks) >= 2 /\ IsFiniteSet(Stacks)

Boot     == 0
InitId   == 1
ReaperId == 2
Ids      == 1 .. MaxId
Threads  == 0 .. MaxId
ReaperSlot == 1         \* REAPER_TASK_INDEX
NoThread == MaxId + 1   \* a zeroed CpuContext

NoEntry == [slot |-> NoSlot, stack |-> 0]
Entries == [slot : Slots, stack : Stacks \cup {0}]

VARIABLES
  tasks,     \* the task table
  count,     \* TaskTable.count
  nextId,    \* NEXT_ID
  current,   \* CURRENT_INDEX
  runq,      \* the BSP's run queue of slot indices
  ctx,       \* CONTEXTS: whose saved state each slot's context holds
  thr,       \* the thread that is executing
  pc,        \* where each thread is
  pend,      \* PENDING_REAP, NoEntry when not valid
  rq,        \* the reap queue
  sleeping,  \* REAPER_SLEEPING
  inUse,     \* the stacks marked in_use in the pool
  held,      \* the stack a thread has allocated for a task it is creating
  hand       \* the reap entry a thread has dequeued and not finished

vars == <<tasks, count, nextId, current, runq, ctx, thr, pc, pend, rq,
          sleeping, inUse, held, hand>>

PCs == {"fresh",   \* created, never dispatched: no schedule() to return from
        "run",     \* in its own code
        "sched",   \* has marked itself Blocked and is about to call schedule()
        "join", "joined",           \* the same in sys_thread_join, and after
        "reap", "free", "clear",    \* reap_pending: dequeue, free, clear slot
        "place",                    \* create: about to look for a slot
        "chk1", "flag", "chk2", "block", "rsched", "woken",  \* reaper loop
        "halt",    \* boot thread's halt loop
        "none", "gone"}             \* id not handed out; thread has exited

-----------------------------------------------------------------------------
(* The run queue.  enqueue_current_cpu of each slot that becomes Ready, in *)
(* index order; a full queue drops the entry and nothing is queued before  *)
(* the per-CPU queues are active.                                          *)
InOrder(S) ==
  LET below[n \in 0 .. NSlots] ==    \* the members of S that are less than n
        IF n = 0 THEN <<>>
        ELSE IF n - 1 \in S THEN Append(below[n - 1], n - 1)
        ELSE below[n - 1]
  IN  below[NSlots]
MutEnqueueUnbounded(q, S) == IF PerCpu THEN q \o InOrder(S) ELSE q  \* faulty: no capacity test
Enqueue(q, S) ==
  IF PerCpu THEN LET r == q \o InOrder(S)
                 IN  SubSeq(r, 1, Min({Len(r), RunqCap}))
  ELSE q

(* dequeue_ready_local drops entries that are not Ready until it finds one *)
(* that is; with none left the choice falls back to the table scan.        *)
ReadyInQueue == {i \in DOMAIN runq : runq[i] \in ReadySet(tasks)}
NextReady ==
  IF ReadyInQueue = {} THEN FindNextReady(tasks, current) ELSE runq[Min(ReadyInQueue)]
QueueAfterPick ==
  IF ReadyInQueue = {} THEN <<>> ELSE SubSeq(runq, Min(ReadyInQueue) + 1, Len(runq))

-----------------------------------------------------------------------------
(* Context switches.  The table, run queue and pcs the switch starts from  *)
(* are arguments because the caller has already updated them in this step. *)

(* process_pending_reap, queue_for_reap and wake_reaper, on the resumed    *)
(* side of a switch.  A full reap queue drops the entry.                   *)
MutKeepPendingReap(T, q, p) ==    \* faulty: PENDING_REAP stays valid
  LET queued == p # NoEntry /\ Len(rq) < ReapCap
  IN  /\ pend' = p
      /\ rq' = IF queued THEN Append(rq, p) ELSE rq
      /\ sleeping' = (sleeping /\ ~queued)
      /\ tasks' = IF queued /\ sleeping THEN WakeTask(T, ReaperSlot) ELSE T
      /\ runq' = IF queued /\ sleeping /\ T[ReaperSlot].st = "Blocked"
                 THEN Enqueue(q, {ReaperSlot}) ELSE q
ProcessPendingReap(T, q, p) ==
  LET queued == p # NoEntry /\ Len(rq) < ReapCap
  IN  /\ pend' = NoEntry
      /\ rq' = IF queued THEN Append(rq, p) ELSE rq
      /\ sleeping' = (sleeping /\ ~queued)
      /\ tasks' = IF queued /\ sleeping THEN WakeTask(T, ReaperSlot) ELSE T
      /\ runq' = IF queued /\ sleeping /\ T[ReaperSlot].st = "Blocked"
                 THEN Enqueue(q, {ReaperSlot}) ELSE q

(* Resume thread t.  One that was never dispatched starts at its entry     *)
(* point and does not look at PENDING_REAP.                                *)
Resume(t, T, q, pcs, p) ==
  /\ thr' = t
  /\ IF pcs[t] = "fresh"
     THEN /\ pc' = [pcs EXCEPT ![t] = IF t = ReaperId THEN "reap" ELSE "run"]
          /\ tasks' = T /\ runq' = q /\ pend' = p
          /\ UNCHANGED <<rq, sleeping>>
     ELSE /\ pc' = pcs
          /\ ProcessPendingReap(T, q, p)

(* switch_context saves the executing thread in the context of the slot    *)
(* that CURRENT_INDEX names and loads that of slot n.                      *)
MutSwitchSavesIntoNext(n, T, q, pcs, p) ==    \* faulty: CURRENT_INDEX stored too early
  /\ ctx' = [ctx EXCEPT ![n] = thr]
  /\ current' = n
  /\ Resume(ctx[n], MarkRunning(T, n), q, pcs, p)
Switch(n, T, q, pcs, p) ==
  /\ ctx' = [ctx EXCEPT ![current] = thr]
  /\ current' = n
  /\ Resume(ctx[n], MarkRunning(T, n), q, pcs, p)

(* The body shared by schedule() and preempt(): nothing to switch to, or   *)
(* the choice falls on the current slot itself, and the caller goes on in  *)
(* whatever state the table has it.                                        *)
Reschedule(pcs) ==
  /\ UNCHANGED <<count, nextId, inUse, held, hand>>
  /\ IF NextReady \in {NoSlot, current}
     THEN /\ runq' = QueueAfterPick /\ pc' = pcs
          /\ UNCHANGED <<tasks, current, ctx, thr, pend, rq, sleeping>>
     ELSE Switch(NextReady, MarkReady(tasks, current), QueueAfterPick, pcs, pend)

(* The timer interrupt ends the time slice of whatever executes.           *)
Preempt == Reschedule(pc)

-----------------------------------------------------------------------------
(* Steps of the executing thread.                                          *)
At(p) == pc[thr] = p
Goto(p) == [pc EXCEPT ![thr] = p]
IsWorker == thr \notin {Boot, InitId, ReaperId}

SameCpu == UNCHANGED <<current, ctx, thr, pend>>
SameReaper == UNCHANGED <<rq, sleeping, hand>>
SameCreation == UNCHANGED <<count, nextId, inUse, held>>

Yield == IsWorker /\ At("run") /\ Reschedule(pc)

(* The second half of every blocking call.                                 *)
CallSchedule ==
  \/ At("sched") /\ Reschedule(Goto("run"))
  \/ At("join") /\ Reschedule(Goto("joined"))
  \/ At("rsched") /\ Reschedule(Goto("woken"))

(* A receive on an empty channel: mark_blocked, unless the table does not  *)
(* have the caller Running or it is in slot 0.                             *)
BlockOn(c) ==
  /\ IsWorker /\ At("run") /\ current # 0
  /\ tasks' = MarkBlocked(tasks, current, c)
  /\ pc' = IF CanBlock(tasks, current) THEN Goto("sched") ELSE pc
  /\ UNCHANGED runq /\ SameCpu /\ SameReaper /\ SameCreation

WakeChannel(c) ==
  /\ At("run")
  /\ tasks' = WakeBlockedOn(tasks, c)
  /\ runq' = Enqueue(runq, WaitersOn(tasks, c))
  /\ UNCHANGED pc /\ SameCpu /\ SameReaper /\ SameCreation

(* sys_thread_join on an id that has been handed out.                      *)
Join(id) ==
  /\ IsWorker /\ At("run")
  /\ tasks' = BlockForJoin(tasks, current, id)
  /\ pc' = IF Alive(tasks, id) /\ CanBlock(tasks, current) THEN Goto("join") ELSE pc
  /\ UNCHANGED runq /\ SameCpu /\ SameReaper /\ SameCreation

JoinReturn ==
  /\ At("joined")
  /\ pc' = Goto("run")
  /\ UNCHANGED <<tasks, runq>> /\ SameCpu /\ SameReaper /\ SameCreation

-----------------------------------------------------------------------------
(* Exit: sys_exit, or the return of the entry function.                    *)
MayExit == IsWorker \/ (InitReturns /\ thr = InitId)

(* terminate_current_task overwrites PENDING_REAP, picks the successor by  *)
(* the table scan alone, and without one resumes the boot thread, saved at *)
(* the first dispatch, with CURRENT_INDEX 0.                               *)
Exit ==
  /\ MayExit /\ At("run")
  /\ LET T    == MarkDead(tasks, current)
         n    == FindNextReady(T, current)
         q    == Enqueue(runq, JoinersOf(tasks, tasks[current].id) \ {current})
         gone == Goto("gone")
         p    == [slot |-> current, stack |-> tasks[current].stack]
     IN  IF n # NoSlot
         THEN Switch(n, T, q, gone, p)
         ELSE /\ ctx' = [ctx EXCEPT ![current] = thr]
              /\ current' = 0
              /\ Resume(Boot, T, q, gone, p)
  /\ UNCHANGED <<hand>> /\ SameCreation

-----------------------------------------------------------------------------
(* Creation.  A kernel task is placed at once; a user task or thread first *)
(* drains the reap queue.                                                  *)
MutFreeStacksUntested == Stacks \ {tasks[current].stack}    \* faulty: in_use ignored
FreeStacks == Stacks \ (inUse \cup {tasks[current].stack})
Creating == {t \in Threads : held[t] # 0}

(* alloc_stack takes the first free stack of the pool.                     *)
CreateAlloc ==
  /\ thr \notin {Boot, ReaperId} /\ At("run")
  /\ nextId + Cardinality(Creating) <= MaxId    \* bound of the model
  /\ FreeStacks # {}
  /\ inUse' = inUse \cup {Min(FreeStacks)}
  /\ held' = [held EXCEPT ![thr] = Min(FreeStacks)]
  /\ \E userTask \in BOOLEAN : pc' = Goto(IF userTask THEN "reap" ELSE "place")
  /\ UNCHANGED <<tasks, runq, count, nextId>> /\ SameCpu /\ SameReaper

CreatePlace ==
  /\ At("place")
  /\ held' = [held EXCEPT ![thr] = 0]
  /\ nextId' = nextId + 1
  /\ LET free == Slots \ Occupied(tasks)
         s    == Min(free)
     IN  IF count >= NSlots \/ free = {}
         THEN /\ inUse' = inUse \ {held[thr]}
              /\ pc' = Goto("run")
              /\ UNCHANGED <<tasks, runq, count, ctx>>
         ELSE /\ tasks' = [tasks EXCEPT ![s] = NewTask(nextId, held[thr], 0)]
              /\ ctx' = [ctx EXCEPT ![s] = nextId]
              /\ pc' = [Goto("run") EXCEPT ![nextId] = "fresh"]
              /\ count' = count + 1
              /\ runq' = Enqueue(runq, {s})
              /\ UNCHANGED inUse
  /\ UNCHANGED <<current, thr, pend>> /\ SameReaper

-----------------------------------------------------------------------------
(* reap_pending, called by the reaper and by creators: one entry at a      *)
(* time, with the queue unlocked between the steps.                        *)
ReapDequeue ==
  /\ At("reap")
  /\ IF rq = <<>>
     THEN /\ pc' = Goto(IF thr = ReaperId THEN "chk1" ELSE "place")
          /\ UNCHANGED <<rq, hand>>
     ELSE /\ pc' = Goto("free")
          /\ hand' = [hand EXCEPT ![thr] = Head(rq)]
          /\ rq' = Tail(rq)
  /\ UNCHANGED <<tasks, runq, sleeping>> /\ SameCpu /\ SameCreation

ReapFreeStack ==
  /\ At("free")
  /\ inUse' = inUse \ {hand[thr].stack}
  /\ pc' = Goto("clear")
  /\ UNCHANGED <<tasks, runq, count, nextId, held>> /\ SameCpu /\ SameReaper

ReapClearSlot ==
  /\ At("clear")
  /\ LET s == hand[thr].slot
     IN  /\ tasks' = ClearSlot(tasks, s)
         /\ IF Clearable(tasks, s)
            THEN /\ count' = IF count > 0 THEN count - 1 ELSE count
                 /\ ctx' = [ctx EXCEPT ![s] = NoThread]
            ELSE UNCHANGED <<count, ctx>>
  /\ hand' = [hand EXCEPT ![thr] = NoEntry]
  /\ pc' = Goto("reap")
  /\ UNCHANGED <<runq, current, thr, pend, rq, sleeping, nextId, inUse, held>>

(* The reaper's decision to sleep: check, raise the flag, check again,     *)
(* block, call schedule, and lower the flag on waking.                     *)
ReaperStep ==
  /\ thr = ReaperId
  /\ \/ /\ At("chk1") /\ pc' = Goto(IF rq # <<>> THEN "reap" ELSE "flag")
        /\ UNCHANGED <<tasks, sleeping>>
     \/ /\ At("flag") /\ pc' = Goto("chk2")
        /\ sleeping' = TRUE
        /\ UNCHANGED tasks
     \/ /\ At("chk2") /\ pc' = Goto(IF rq # <<>> THEN "reap" ELSE "block")
        /\ sleeping' = (sleeping /\ rq = <<>>)
        /\ UNCHANGED tasks
     \/ /\ At("block") /\ pc' = Goto("rsched")
        /\ tasks' = MarkBlocked(tasks, ReaperSlot, Nil)
        /\ UNCHANGED sleeping
     \/ /\ At("woken") /\ pc' = Goto("reap")
        /\ sleeping' = FALSE
        /\ UNCHANGED tasks
  /\ UNCHANGED <<runq, rq, hand>> /\ SameCpu /\ SameCreation

-----------------------------------------------------------------------------
(* The watchdog callback of the timer interrupt marks an expired task Dead *)
(* by its index, whatever it is doing, and does nothing else to it.        *)
WatchdogKill(s) ==
  /\ Watchdog
  /\ s \in Live(tasks) \ {0, ReaperSlot}
  /\ tasks' = MarkDead(tasks, s)
  /\ runq' = Enqueue(runq, JoinersOf(tasks, tasks[s].id) \ {s})
  /\ UNCHANGED pc /\ SameCpu /\ SameReaper /\ SameCreation

-----------------------------------------------------------------------------
(* The state after dispatch_first has switched to init and init has        *)
(* spawned the reaper.                                                     *)
InitStacks == <<Min(Stacks), Min(Stacks \ {Min(Stacks)})>>
Init ==
  /\ tasks = [s \in Slots |->
                CASE s = 0 -> [NewTask(InitId, InitStacks[1], 0) EXCEPT !.st = "Running"]
                  [] s = ReaperSlot -> NewTask(ReaperId, InitStacks[2], 0)
                  [] OTHER -> EmptySlot]
  /\ count = 2
  /\ nextId = 3
  /\ current = 0
  /\ runq = Enqueue(<<>>, {ReaperSlot})
  /\ ctx = [s \in Slots |-> IF s = ReaperSlot THEN ReaperId ELSE NoThread]
  /\ thr = InitId
  /\ pc = [t \in Threads |-> CASE t = Boot -> "halt" [] t = InitId -> "run"
                               [] t = ReaperId -> "fresh" [] OTHER -> "none"]
  /\ pend = NoEntry
  /\ rq = <<>>
  /\ sleeping = FALSE
  /\ inUse = {InitStacks[1], InitStacks[2]}
  /\ held = [t \in Threads |-> 0]
  /\ hand = [t \in Threads |-> NoEntry]

ThreadStep ==
  \/ Yield \/ CallSchedule \/ JoinReturn \/ Exit
  \/ CreateAlloc \/ CreatePlace
  \/ ReapDequeue \/ ReapFreeStack \/ ReapClearSlot \/ ReaperStep
  \/ \E c \in Chans : BlockOn(c) \/ WakeChannel(c)
  \/ \E id \in 1 .. nextId - 1 : Join(id)

Next == ThreadStep \/ Preempt \/ \E s \in Slots : WatchdogKill(s)

Spec == Init /\ [][Next]_vars

(* The timer keeps firing, and a thread that executes keeps going.  A      *)
(* thread in its own code may stay there for ever.                         *)
FairSpec ==
  /\ Spec
  /\ WF_vars(Preempt)
  /\ WF_vars(CallSchedule \/ JoinReturn \/ CreatePlace \/ ReapDequeue
             \/ ReapFreeStack \/ ReapClearSlot \/ ReaperStep)

-----------------------------------------------------------------------------
(* Properties.                                                             *)

(* Every variable has its type; the run queue is within its capacity.      *)
TypeOK ==
  /\ tasks \in [Slots -> Task]
  /\ count \in Nat
  /\ nextId \in 3 .. MaxId + 1
  /\ current \in Slots
  /\ runq \in Seq(Slots) /\ Len(runq) <= RunqCap
  /\ ctx \in [Slots -> Threads \cup {NoThread}]
  /\ thr \in Threads
  /\ pc \in [Threads -> PCs]
  /\ pend \in Entries \cup {NoEntry}
  /\ rq \in Seq(Entries) /\ Len(rq) <= ReapCap
  /\ sleeping \in BOOLEAN
  /\ inUse \subseteq Stacks
  /\ held \in [Threads -> Stacks \cup {0}]
  /\ hand \in [Threads -> Entries \cup {NoEntry}]

(* The table and the CPU agree (mark_running, mark_ready, store_current):  *)
(* only the slot CURRENT_INDEX names is Running, and what executes is the  *)
(* task of that slot, whose kernel stack is still its own.                 *)
RunningIsCurrent ==
  /\ \A s \in Slots : tasks[s].st = "Running" => s = current
  /\ thr = tasks[current].id
  /\ tasks[current].stack \in inUse

(* "Save the boot thread into a dedicated context, never into a task       *)
(* slot": the context of every live task that is not executing holds that  *)
(* task's own state, so dispatching it resumes it where it left off.       *)
ContextOwnership ==
  \A s \in Live(tasks) : s # current => ctx[s] = tasks[s].id

(* The CPU, the table and the saved contexts agree at every point an       *)
(* interrupt can come in: one task runs, on its own stack, and every other *)
(* can be resumed where it left off (schedule, preempt, switch_to).        *)
CpuAgrees == RunningIsCurrent /\ ContextOwnership

(* A kernel stack is never shared: each live task and each creation in     *)
(* progress has a stack of its own that the pool has marked in use, across *)
(* exits, deferred frees and reuse of the slot (alloc_stack, free_stack).  *)
StackOwners ==
  {<<"slot", s>> : s \in Live(tasks)} \cup {<<"create", t>> : t \in Creating}
StackOf(o) == IF o[1] = "slot" THEN tasks[o[2]].stack ELSE held[o[2]]
StacksExclusive ==
  \A o \in StackOwners :
    /\ StackOf(o) \in inUse
    /\ \A p \in StackOwners : StackOf(o) = StackOf(p) => o = p

(* Each exited task is on its way to the reaper at most once, from         *)
(* PENDING_REAP through the queue to the thread that reaps it, and never   *)
(* while it executes: until clear_dead_slot its slot stays Dead and is not *)
(* reused, so nothing alive is freed.                                      *)
QueuedSlots == {rq[i].slot : i \in DOMAIN rq}
HandedSlots == {hand[t].slot : t \in {u \in Threads : hand[u] # NoEntry}}
PendSlots == IF pend = NoEntry THEN {} ELSE {pend.slot}
ReapExactlyOnce ==
  /\ \A s \in PendSlots \cup QueuedSlots \cup HandedSlots :
       tasks[s].st = "Dead" /\ s # current
  /\ PendSlots \cap (QueuedSlots \cup HandedSlots) = {}
  /\ QueuedSlots \cap HandedSlots = {}
  /\ Cardinality(QueuedSlots) = Len(rq)
  /\ \A t, u \in Threads : hand[t] # NoEntry /\ hand[t].slot = hand[u].slot => t = u

(* TaskTable.count is the number of occupied slots: a slot is never        *)
(* cleared twice (clear_dead_slot would decrement for an empty one).       *)
CountMatches == count = Cardinality(Occupied(tasks))

(* REAPER_SLEEPING is only left up by a reaper that has found the queue    *)
(* empty and has not been given work since (queue_for_reap, wake_reaper).  *)
FlagMeansNoWork ==
  sleeping /\ pc[ReaperId] \in {"block", "rsched", "woken"} => rq = <<>>

(* The way of a dead task, from its exit to the clearing of its slot: taken *)
(* once, counted once, and the reaper's flag tells those who queue it       *)
(* whether to wake it (process_pending_reap, reap_pending, queue_for_reap). *)
TeardownSound == ReapExactlyOnce /\ CountMatches /\ FlagMeansNoWork

(* sys_thread_join: a task blocked in a join waits for a task that is      *)
(* still alive, so the wake-up of mark_dead is not lost, and join returns  *)
(* to its caller only after the target has died.                           *)
JoinWaitsForDeath ==
  /\ \A s \in Slots : tasks[s].st = "Blocked" /\ tasks[s].joining # 0
                        => Alive(tasks, tasks[s].joining)
  /\ At("joined") => ~ Alive(tasks, tasks[current].joining)

(* A task that has died never runs again: from Dead its slot can only be   *)
(* cleared, and a thread that has exited is never resumed.                 *)
DeathIsFinal ==
  [][/\ \A s \in Slots : tasks[s].st = "Dead" => tasks'[s] \in {EmptySlot, tasks[s]}
     /\ pc'[thr'] # "gone"]_vars

(* "The next task to run (or the boot thread) checks this and queues the   *)
(* task for reaping": an exited task stays on its way to the reaper until  *)
(* its slot is cleared (PENDING_REAP, queue_for_reap).                     *)
ExitedIsReaped ==
  \A s \in Slots : tasks[s].st = "Dead" /\ pc[tasks[s].id] = "gone"
                    => s \in PendSlots \cup QueuedSlots \cup HandedSlots

(* "to avoid a race where work arrives between check and sleep": the       *)
(* reaper is not blocked while there is work in its queue.                 *)
ReaperAwakeForWork == tasks[ReaperSlot].st = "Blocked" => rq = <<>>

(* mark_dead: "The scheduler trampoline will call queue_for_reap() after   *)
(* switching away from this task", whatever made it Dead.                  *)
KilledIsReaped ==
  \A s \in Slots : tasks[s].st = "Dead" /\ s # current
                    => s \in PendSlots \cup QueuedSlots \cup HandedSlots

(* "Tasks are dispatched in round-robin order": a Ready task gets the CPU, *)
(* unless it dies first (find_next_ready, find_next_ready_percpu).         *)
NoStarvation ==
  \A s \in Slots : tasks[s].st = "Ready" ~> current = s \/ tasks[s].st # "Ready"
=============================================================================
