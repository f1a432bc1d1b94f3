------------------------ MODULE Capabilities_proofs ------------------------
(***************************************************************************)
(* Theorems about the IPC capabilities, for every number of slots, set of  *)
(* channels and of bits, capacity and quota.                               *)
(***************************************************************************)
EXTENDS Capabilities, SequenceTheorems, TLAPS

BitSets == (SUBSET Perms) \ {{}}

(* What grant and revoke keep of a set.                                    *)
WellFormed(caps) ==
    /\ caps \in Seq(Entry)
    /\ Len(caps) <= MaxCaps
    /\ \A k \in 1 .. Len(caps) : caps[k].perms # {}
    /\ \A k, l \in 1 .. Len(caps) : caps[k].channel = caps[l].channel => k = l

Sets == {caps \in Seq(Entry) : WellFormed(caps)}
Tasks == [id : Nat, caps : Sets, created : Nat]

Owning == [at : {"own"}, channel : Channels]
Calling == [at : {"delegate", "grant", "revoke", "cascade"}, target : Slots,
            channel : Channels, perms : BitSets]
Ops == {Idle, [at |-> "create"]} \cup Owning \cup Calling

Types ==
    /\ tasks \in [Slots -> Tasks \cup {NoTask}]
    /\ active \subseteq Channels
    /\ op \in [Slots -> Ops]
    /\ nextId \in Nat
    /\ ever \in [Slots -> SUBSET (Channels \X Perms)]
    /\ made \in [Slots -> Nat]
    /\ cuts \subseteq [channel : Channels, perm : Perms, by : Nat]

(* A slot does not change hands while its task is in a call.               *)
BusyIsLive == 0 \in Live /\ \A i \in Slots : op[i] # Idle => i \in Live

(* QuotaCovers needs that the next task of a slot starts from nothing.     *)
Quota == QuotaCovers /\ \A i \in Slots : i \notin Live => made[i] = 0

(* What the checks of a call saw, its task has held ever since, though it  *)
(* may hold it no longer.                                                  *)
Seen(o, pairs) ==
    /\ o.at = "delegate" => <<o.channel, Manage>> \in pairs
    /\ o.at = "grant" => {o.channel} \X (o.perms \cup {Manage}) \subseteq pairs
SeenHeld ==
    /\ \A i \in Live : Pairs(tasks[i].caps) \subseteq ever[i]
    /\ \A i \in Slots \ {0} : Seen(op[i], ever[i])

(* No grant of a revoked bit is under way, and none can come about: a      *)
(* channel is created once.                                                *)
NotUnderWay(x) ==
    /\ x.channel \in active
    /\ \A j \in Slots : /\ ~(op[j].at = "own" /\ op[j].channel = x.channel)
                        /\ ~(op[j].at = "grant" /\ op[j].channel = x.channel
                                                /\ x.perm \in op[j].perms)
Final ==
    /\ \A i \in Slots : op[i].at \in {"revoke", "cascade"} => op[i].channel \in active
    /\ \A x \in cuts : ~HeldByOther(x) /\ NotUnderWay(x)

IInv == Types /\ BusyIsLive /\ Quota /\ SeenHeld /\ Final
-----------------------------------------------------------------------------
(* The operations on a set.  The first two lemmas say what Pairs and       *)
(* EntryOf are of a well-formed one.                                       *)
LEMMA PairOf ==
  ASSUME NEW caps \in Seq(Entry), NEW c, NEW p
  PROVE  <<c, p>> \in Pairs(caps) <=>
           \E k \in 1 .. Len(caps) : caps[k].channel = c /\ p \in caps[k].perms
BY DEF Pairs

LEMMA PairsInRange ==
  ASSUME NEW caps \in Seq(Entry)
  PROVE  Pairs(caps) \subseteq Channels \X Perms
<1>1. \A k \in DOMAIN caps : caps[k] \in Entry
  OBVIOUS
<1> QED BY <1>1 DEF Pairs, Entry

LEMMA TheEntry ==
  ASSUME NEW caps, WellFormed(caps), NEW c, EntryOf(caps, c) # {}
  PROVE  LET k == CHOOSE k \in EntryOf(caps, c) : TRUE
         IN  /\ k \in 1 .. Len(caps) /\ caps[k] \in Entry
             /\ caps[k].channel = c /\ caps[k].perms # {}
             /\ \A l \in 1 .. Len(caps) : caps[l].channel = c => l = k
<1>1. DOMAIN caps = 1 .. Len(caps)
  BY DEF WellFormed
<1>2. (CHOOSE k \in EntryOf(caps, c) : TRUE) \in EntryOf(caps, c)
  OBVIOUS
<1>3. \A l \in EntryOf(caps, c) :
         /\ l \in 1 .. Len(caps) /\ caps[l] \in Entry
         /\ caps[l].channel = c /\ caps[l].perms # {}
         /\ \A m \in 1 .. Len(caps) : caps[m].channel = c => m = l
  BY <1>1 DEF WellFormed, EntryOf
<1> QED BY <1>2, <1>3

LEMMA SamePairs ==
  ASSUME NEW S \in SUBSET (Channels \X Perms), NEW T \in SUBSET (Channels \X Perms),
         \A c \in Channels, p \in Perms : <<c, p>> \in S <=> <<c, p>> \in T
  PROVE  S = T
OBVIOUS

(* A grant that has room keeps the set well-formed, and gives exactly the  *)
(* bits it names.                                                          *)
LEMMA GrantedIsSound ==
  ASSUME NEW caps, WellFormed(caps), NEW c \in Channels, NEW perms \in BitSets,
         CanGrant(caps, c)
  PROVE  /\ WellFormed(Granted(caps, c, perms))
         /\ Pairs(Granted(caps, c, perms)) = Pairs(caps) \cup ({c} \X perms)
<1> DEFINE new == Granted(caps, c, perms)
<1>0. caps \in Seq(Entry) /\ perms \in SUBSET Perms /\ perms # {}
  BY DEF WellFormed, BitSets
<1>1. ASSUME WellFormed(new),
             \A d \in Channels, p \in Perms :
                (\E k \in 1 .. Len(new) : new[k].channel = d /\ p \in new[k].perms) <=>
                \/ \E k \in 1 .. Len(caps) : caps[k].channel = d /\ p \in caps[k].perms
                \/ d = c /\ p \in perms
      PROVE  WellFormed(new) /\ Pairs(new) = Pairs(caps) \cup ({c} \X perms)
  <2> HIDE DEF new
  <2>1. new \in Seq(Entry)
    BY <1>1 DEF WellFormed
  <2>2. Pairs(new) \in SUBSET (Channels \X Perms)
        /\ Pairs(caps) \cup ({c} \X perms) \in SUBSET (Channels \X Perms)
    BY <1>0, <2>1, PairsInRange
  <2>3. ASSUME NEW d \in Channels, NEW p \in Perms
        PROVE  <<d, p>> \in Pairs(new) <=> <<d, p>> \in Pairs(caps) \cup ({c} \X perms)
    <3>1. <<d, p>> \in Pairs(new) <=>
            \E k \in 1 .. Len(new) : new[k].channel = d /\ p \in new[k].perms
      BY <2>1, PairOf
    <3>2. <<d, p>> \in Pairs(caps) <=>
            \E k \in 1 .. Len(caps) : caps[k].channel = d /\ p \in caps[k].perms
      BY <1>0, PairOf
    <3>3. <<d, p>> \in {c} \X perms <=> d = c /\ p \in perms
      OBVIOUS
    <3> QED BY <3>1, <3>2, <3>3, <1>1
  <2> QED BY <1>1, <2>2, <2>3, SamePairs
<1>2. CASE EntryOf(caps, c) # {}
  <2> DEFINE k == CHOOSE k \in EntryOf(caps, c) : TRUE
             e == [caps[k] EXCEPT !.perms = @ \cup perms]
  <2>1. /\ k \in 1 .. Len(caps) /\ caps[k] \in Entry
        /\ caps[k].channel = c
        /\ \A l \in 1 .. Len(caps) : caps[l].channel = c => l = k
    BY <1>2, TheEntry
  <2>2. new = [caps EXCEPT ![k] = e]
    BY <1>2 DEF Granted
  <2> HIDE DEF k, new
  <2>3. e \in Entry /\ e.channel = c /\ e.perms = caps[k].perms \cup perms
    BY <1>0, <2>1 DEF Entry
  <2> HIDE DEF e
  <2>4. new \in Seq(Entry) /\ Len(new) = Len(caps)
        /\ \A l \in 1 .. Len(caps) : new[l] = IF l = k THEN e ELSE caps[l]
    BY <1>0, <2>1, <2>2, <2>3, ExceptSeq
  <2>5. WellFormed(new)
    BY <1>0, <2>1, <2>3, <2>4 DEF WellFormed
  <2>6. ASSUME NEW d \in Channels, NEW p \in Perms
        PROVE  (\E l \in 1 .. Len(new) : new[l].channel = d /\ p \in new[l].perms) <=>
                \/ \E l \in 1 .. Len(caps) : caps[l].channel = d /\ p \in caps[l].perms
                \/ d = c /\ p \in perms
    BY <2>1, <2>3, <2>4
  <2> QED BY <1>1, <2>5, <2>6 DEF new
<1>3. CASE EntryOf(caps, c) = {}
  <2> DEFINE e == [channel |-> c, perms |-> perms]
  <2>1. new = Append(caps, e) /\ Len(caps) < MaxCaps
    BY <1>3 DEF Granted, CanGrant
  <2>2. \A l \in 1 .. Len(caps) : caps[l].channel # c
    BY <1>0, <1>3 DEF EntryOf
  <2>3. e \in Entry /\ e.channel = c /\ e.perms = perms
    BY <1>0 DEF Entry
  <2> HIDE DEF e, new
  <2>4. new \in Seq(Entry) /\ Len(new) = Len(caps) + 1 /\ Len(caps) \in Nat
        /\ new[Len(caps) + 1] = e
        /\ \A l \in 1 .. Len(caps) : new[l] = caps[l]
    BY <1>0, <2>1, <2>3, AppendProperties, LenProperties
  <2>5. MaxCaps \in Nat
    BY CapabilitiesAssumption
  <2>6. WellFormed(new)
    BY <1>0, <2>1, <2>2, <2>3, <2>4, <2>5 DEF WellFormed
  <2>7. ASSUME NEW d \in Channels, NEW p \in Perms
        PROVE  (\E l \in 1 .. Len(new) : new[l].channel = d /\ p \in new[l].perms) <=>
                \/ \E l \in 1 .. Len(caps) : caps[l].channel = d /\ p \in caps[l].perms
                \/ d = c /\ p \in perms
    BY <2>3, <2>4
  <2> QED BY <1>1, <2>6, <2>7 DEF new
<1> QED BY <1>2, <1>3

(* A revocation keeps the set well-formed, the swap-removal included, and  *)
(* takes exactly the bits it names.                                        *)
LEMMA RevokedIsSound ==
  ASSUME NEW caps, WellFormed(caps), NEW c \in Channels, NEW perms \in BitSets
  PROVE  /\ WellFormed(Revoked(caps, c, perms))
         /\ Pairs(Revoked(caps, c, perms)) = Pairs(caps) \ ({c} \X perms)
<1> DEFINE new == Revoked(caps, c, perms)
<1>0. caps \in Seq(Entry) /\ Len(caps) \in Nat /\ MaxCaps \in Nat
  BY CapabilitiesAssumption, LenProperties DEF WellFormed
<1>1. ASSUME WellFormed(new),
             \A d \in Channels, p \in Perms :
                (\E k \in 1 .. Len(new) : new[k].channel = d /\ p \in new[k].perms) <=>
                /\ \E k \in 1 .. Len(caps) : caps[k].channel = d /\ p \in caps[k].perms
                /\ ~(d = c /\ p \in perms)
      PROVE  WellFormed(new) /\ Pairs(new) = Pairs(caps) \ ({c} \X perms)
  <2> HIDE DEF new
  <2>1. new \in Seq(Entry)
    BY <1>1 DEF WellFormed
  <2>2. Pairs(new) \in SUBSET (Channels \X Perms)
        /\ Pairs(caps) \ ({c} \X perms) \in SUBSET (Channels \X Perms)
    BY <1>0, <2>1, PairsInRange
  <2>3. ASSUME NEW d \in Channels, NEW p \in Perms
        PROVE  <<d, p>> \in Pairs(new) <=> <<d, p>> \in Pairs(caps) \ ({c} \X perms)
    <3>1. <<d, p>> \in Pairs(new) <=>
            \E k \in 1 .. Len(new) : new[k].channel = d /\ p \in new[k].perms
      BY <2>1, PairOf
    <3>2. <<d, p>> \in Pairs(caps) <=>
            \E k \in 1 .. Len(caps) : caps[k].channel = d /\ p \in caps[k].perms
      BY <1>0, PairOf
    <3>3. <<d, p>> \in {c} \X perms <=> d = c /\ p \in perms
      OBVIOUS
    <3> QED BY <3>1, <3>2, <3>3, <1>1
  <2> QED BY <1>1, <2>2, <2>3, SamePairs
<1>2. CASE EntryOf(caps, c) = {}
  <2>1. new = caps
    BY <1>2 DEF Revoked
  <2>2. \A l \in 1 .. Len(caps) : caps[l].channel # c
    BY <1>0, <1>2 DEF EntryOf
  <2> HIDE DEF new
  <2> QED BY <1>1, <2>1, <2>2 DEF new
<1>3. CASE EntryOf(caps, c) # {}
  <2> DEFINE k == CHOOSE k \in EntryOf(caps, c) : TRUE
             n == Len(caps)
  <2>1. /\ k \in 1 .. n /\ caps[k] \in Entry
        /\ caps[k].channel = c
        /\ \A l \in 1 .. n : caps[l].channel = c => l = k
    BY <1>3, TheEntry
  <2>2. CASE ~(caps[k].perms \subseteq perms)
    <3> DEFINE e == [caps[k] EXCEPT !.perms = @ \ perms]
    <3>1. new = [caps EXCEPT ![k] = e]
      BY <1>3, <2>2 DEF Revoked
    <3> HIDE DEF k, new
    <3>2. e \in Entry /\ e.channel = c /\ e.perms = caps[k].perms \ perms /\ e.perms # {}
      BY <2>1, <2>2 DEF Entry
    <3> HIDE DEF e
    <3>3. new \in Seq(Entry) /\ Len(new) = n
          /\ \A l \in 1 .. n : new[l] = IF l = k THEN e ELSE caps[l]
      BY <1>0, <2>1, <3>1, <3>2, ExceptSeq
    <3>4. WellFormed(new)
      BY <1>0, <2>1, <3>2, <3>3 DEF WellFormed
    <3>5. ASSUME NEW d \in Channels, NEW p \in Perms
          PROVE  (\E l \in 1 .. Len(new) : new[l].channel = d /\ p \in new[l].perms) <=>
                /\ \E l \in 1 .. Len(caps) : caps[l].channel = d /\ p \in caps[l].perms
                /\ ~(d = c /\ p \in perms)
      BY <2>1, <3>2, <3>3
    <3> QED BY <1>1, <3>4, <3>5 DEF new
  <2>3. CASE caps[k].perms \subseteq perms
    <3> DEFINE moved == [caps EXCEPT ![k] = caps[n]]
    <3>1. new = SubSeq(moved, 1, Len(moved) - 1)
      BY <1>3, <2>3 DEF Revoked, SwapRemoved, Front, Last
    <3> HIDE DEF k, new
    <3>2. moved \in Seq(Entry) /\ Len(moved) = n
          /\ \A l \in 1 .. n : moved[l] = IF l = k THEN caps[n] ELSE caps[l]
      BY <1>0, <2>1, ExceptSeq
    <3> HIDE DEF moved
    <3>3. new \in Seq(Entry) /\ Len(new) = n - 1
          /\ \A l \in 1 .. n - 1 : new[l] = IF l = k THEN caps[n] ELSE caps[l]
      BY <1>0, <2>1, <3>1, <3>2, SubSeqProperties
    <3> HIDE DEF n
    <3>4. n \in Nat \ {0} /\ n = Len(caps) /\ k \in 1 .. n
      BY <1>0, <2>1 DEF n
    <3>5. \A l \in 1 .. n - 1 : l \in 1 .. n /\ n \in 1 .. n
      BY <3>4
    <3>6. WellFormed(new)
      <4>1. \A l \in 1 .. Len(new) : new[l].perms # {}
        BY <3>3, <3>4, <3>5 DEF WellFormed
      <4>2. ASSUME NEW l \in 1 .. n - 1, NEW m \in 1 .. n - 1,
                   new[l].channel = new[m].channel
            PROVE  l = m
        BY <4>2, <3>3, <3>4, <3>5 DEF WellFormed
      <4>3. Len(new) <= MaxCaps
        BY <1>0, <3>3, <3>4 DEF WellFormed
      <4>4. Len(new) = n - 1 /\ new \in Seq(Entry)
        BY <3>3
      <4> QED BY <4>1, <4>2, <4>3, <4>4 DEF WellFormed
    <3>7. ASSUME NEW d \in Channels, NEW p \in Perms
          PROVE  (\E l \in 1 .. Len(new) : new[l].channel = d /\ p \in new[l].perms) <=>
                /\ \E l \in 1 .. Len(caps) : caps[l].channel = d /\ p \in caps[l].perms
                /\ ~(d = c /\ p \in perms)
      <4>1. ASSUME NEW l \in 1 .. Len(new), new[l].channel = d, p \in new[l].perms
            PROVE  /\ \E m \in 1 .. Len(caps) : caps[m].channel = d /\ p \in caps[m].perms
                   /\ ~(d = c /\ p \in perms)
        BY <4>1, <2>1, <3>3, <3>4, <3>5
      <4>2. ASSUME NEW m \in 1 .. Len(caps), caps[m].channel = d, p \in caps[m].perms,
                   ~(d = c /\ p \in perms)
            PROVE  \E l \in 1 .. Len(new) : new[l].channel = d /\ p \in new[l].perms
        <5>1. m # k
          BY <4>2, <2>1, <2>3
        <5>2. CASE m = n
          BY <5>1, <5>2, <4>2, <3>3, <3>4
        <5>3. CASE m # n
          BY <5>1, <5>3, <4>2, <3>3, <3>4
        <5> QED BY <5>2, <5>3
      <4> QED BY <4>1, <4>2
    <3> QED BY <1>1, <3>6, <3>7 DEF new
  <2> QED BY <2>2, <2>3
<1> QED BY <1>2, <1>3
-----------------------------------------------------------------------------
(* The records.                                                            *)
LEMMA TaskFacts ==
  /\ NoTask \notin Tasks
  /\ \A t \in Tasks : t.id \in Nat /\ WellFormed(t.caps) /\ t.created \in Nat
<1>1. Tasks \subseteq Task
  BY DEF Tasks, Task, Sets
<1> QED BY <1>1, CapabilitiesAssumption DEF Tasks, Sets

LEMMA NewSet ==
  ASSUME NEW t \in Tasks, NEW caps, WellFormed(caps)
  PROVE  LET u == [t EXCEPT !.caps = caps]
         IN  u \in Tasks /\ u.id = t.id /\ u.caps = caps /\ u.created = t.created
<1>1. caps \in Sets
  BY DEF WellFormed, Sets
<1> QED BY <1>1 DEF Tasks

LEMMA OpFacts ==
  ASSUME NEW o \in Ops
  PROVE  /\ o.at \in Busy
         /\ o = Idle <=> o.at = "idle"
         /\ o.at = "own" => o.channel \in Channels
         /\ o.at \in {"delegate", "grant", "revoke", "cascade"} =>
               /\ o \in Calling
               /\ o.target \in Slots /\ o.channel \in Channels /\ o.perms \in BitSets
BY DEF Ops, Idle, Owning, Calling, Busy

LEMMA HasPairs ==
  ASSUME NEW caps \in Seq(Entry), NEW c, NEW perms, Has(caps, c, perms)
  PROVE  {c} \X perms \subseteq Pairs(caps)
<1>1. PICK k \in EntryOf(caps, c) : perms \subseteq caps[k].perms
  BY DEF Has
<1>2. k \in DOMAIN caps /\ caps[k].channel = c
  BY DEF EntryOf
<1> QED BY <1>1, <1>2 DEF Pairs

LEMMA LiveTasks ==
  ASSUME Types, NEW i \in Live
  PROVE  i \in Slots /\ tasks[i] \in Tasks /\ WellFormed(tasks[i].caps)
         /\ tasks[i].caps \in Seq(Entry)
         /\ tasks[i].id \in Nat /\ tasks[i].created \in Nat
<1>1. i \in Slots /\ tasks[i] \in Tasks
  BY DEF Types, Live
<1> QED BY <1>1, TaskFacts DEF WellFormed

(* What a step does to the sets when it takes nothing else from the tasks: *)
(* slot j may gain the bits of c it names, and every set may lose some.    *)
OnlySets(j, c, perms) ==
    /\ tasks' \in [Slots -> Tasks \cup {NoTask}]
    /\ Live' = Live
    /\ \A k \in Live :
          /\ tasks'[k].id = tasks[k].id /\ tasks'[k].created = tasks[k].created
          /\ Pairs(tasks'[k].caps) \subseteq
                Pairs(tasks[k].caps) \cup (IF k = j THEN {c} \X perms ELSE {})

LEMMA GrantsOnly ==
  ASSUME Types, NEW j \in Slots, NEW c \in Channels, NEW perms \in BitSets,
         tasks' = IF j \in Live /\ CanGrant(tasks[j].caps, c)
                  THEN [tasks EXCEPT ![j].caps = Granted(@, c, perms)]
                  ELSE tasks
  PROVE  OnlySets(j, c, perms)
<1>1. CASE j \in Live /\ CanGrant(tasks[j].caps, c)
  <2> DEFINE t == [tasks[j] EXCEPT !.caps = Granted(tasks[j].caps, c, perms)]
  <2>1. tasks[j] \in Tasks /\ WellFormed(tasks[j].caps)
    BY <1>1, LiveTasks
  <2>2. WellFormed(Granted(tasks[j].caps, c, perms))
        /\ Pairs(Granted(tasks[j].caps, c, perms)) = Pairs(tasks[j].caps) \cup ({c} \X perms)
    BY <1>1, <2>1, GrantedIsSound
  <2>3. t \in Tasks /\ t.id = tasks[j].id /\ t.created = tasks[j].created
        /\ t.caps = Granted(tasks[j].caps, c, perms)
    BY <2>1, <2>2, NewSet
  <2>4. tasks' = [tasks EXCEPT ![j] = t]
    BY <1>1
  <2> HIDE DEF t
  <2>5. tasks' \in [Slots -> Tasks \cup {NoTask}]
        /\ \A k \in Slots : tasks'[k] = IF k = j THEN t ELSE tasks[k]
    BY <2>3, <2>4 DEF Types
  <2>6. Live' = Live
    BY <1>1, <2>3, <2>5, TaskFacts DEF Live
  <2>7. Pairs(t.caps) = Pairs(tasks[j].caps) \cup ({c} \X perms)
    BY <2>2, <2>3
  <2> QED BY <2>3, <2>5, <2>6, <2>7 DEF OnlySets, Live
<1>2. CASE ~(j \in Live /\ CanGrant(tasks[j].caps, c))
  BY <1>2 DEF OnlySets, Types, Live
<1> QED BY <1>1, <1>2

(* The tasks when those in S lose the bits of c.                           *)
Without(S, c, perms) ==
    [k \in Slots |-> IF k \in S THEN [tasks[k] EXCEPT !.caps = Revoked(@, c, perms)]
                     ELSE tasks[k]]

LEMMA RevokesOnly ==
  ASSUME Types, NEW c \in Channels, NEW perms \in BitSets, NEW S \in SUBSET Live,
         tasks' = Without(S, c, perms)
  PROVE  /\ tasks' \in [Slots -> Tasks \cup {NoTask}]
         /\ Live' = Live
         /\ \A k \in Live :
               /\ tasks'[k].id = tasks[k].id /\ tasks'[k].created = tasks[k].created
               /\ Pairs(tasks'[k].caps) = Pairs(tasks[k].caps)
                                           \ (IF k \in S THEN {c} \X perms ELSE {})
<1> DEFINE t(k) == [tasks[k] EXCEPT !.caps = Revoked(tasks[k].caps, c, perms)]
<1>1. ASSUME NEW k \in S
      PROVE  /\ t(k) \in Tasks /\ t(k) # NoTask
             /\ t(k).id = tasks[k].id /\ t(k).created = tasks[k].created
             /\ Pairs(t(k).caps) = Pairs(tasks[k].caps) \ ({c} \X perms)
  <2>1. tasks[k] \in Tasks /\ WellFormed(tasks[k].caps)
    BY LiveTasks
  <2>2. WellFormed(Revoked(tasks[k].caps, c, perms))
        /\ Pairs(Revoked(tasks[k].caps, c, perms)) = Pairs(tasks[k].caps) \ ({c} \X perms)
    BY <2>1, RevokedIsSound
  <2>3. t(k) \in Tasks /\ t(k).id = tasks[k].id /\ t(k).created = tasks[k].created
        /\ t(k).caps = Revoked(tasks[k].caps, c, perms)
    BY <2>1, <2>2, NewSet
  <2> QED BY <2>2, <2>3, TaskFacts
<1>2. tasks' = [k \in Slots |-> IF k \in S THEN t(k) ELSE tasks[k]]
  BY DEF Without
<1> HIDE DEF t
<1>3. tasks' \in [Slots -> Tasks \cup {NoTask}]
  BY <1>1, <1>2 DEF Types
<1>4. Live' = Live
  BY <1>1, <1>2 DEF Live
<1>5. \A k \in Live : tasks'[k] = IF k \in S THEN t(k) ELSE tasks[k]
  BY <1>2 DEF Live
<1> QED BY <1>1, <1>3, <1>4, <1>5

(* A bit that is gone from the others stays gone where no one gains it.    *)
LEMMA StaysGone ==
  ASSUME NEW x, ~HeldByOther(x),
         \A k \in Live' :
            /\ k \in Live /\ tasks'[k].id = tasks[k].id
            /\ <<x.channel, x.perm>> \in Pairs(tasks'[k].caps) =>
                  <<x.channel, x.perm>> \in Pairs(tasks[k].caps)
  PROVE  ~HeldByOther(x)'
BY DEF HeldByOther
-----------------------------------------------------------------------------
LEMMA InitInv == Init => IInv
<1> SUFFICES ASSUME Init PROVE IInv
  OBVIOUS
<1> DEFINE first == [id |-> 0, caps |-> <<>>, created |-> 0]
<1>1. 0 \in Slots
  BY CapabilitiesAssumption DEF Slots
<1>2. WellFormed(<<>>) /\ <<>> \in Sets
  BY CapabilitiesAssumption, EmptySeq DEF WellFormed, Sets
<1>3. first \in Tasks /\ first # NoTask
  BY <1>2, TaskFacts DEF Tasks
<1>4. Live = {0}
  BY <1>1, <1>3 DEF Init, Live
<1>5. tasks[0].caps = <<>> /\ tasks[0] = first
  BY <1>1 DEF Init
<1>6. Types
  BY <1>3 DEF Init, Types, Ops
<1>7. Pairs(<<>>) = {}
  BY DEF Pairs
<1>8. BusyIsLive /\ Quota
  BY <1>4 DEF Init, BusyIsLive, Quota, QuotaCovers
<1>9. SeenHeld /\ Final
  BY <1>4, <1>5, <1>7 DEF Init, SeenHeld, Seen, Final, Idle
<1> QED BY <1>6, <1>8, <1>9 DEF IInv

LEMMA SpawnPreserves ==
  ASSUME IInv, NEW i \in Slots, Spawn(i)
  PROVE  IInv'
<1> DEFINE t == [id |-> nextId, caps |-> <<>>, created |-> 0]
<1>1. Types /\ i \notin Live /\ op[i] = Idle /\ op[i].at = "idle" /\ made[i] = 0 /\ i # 0
  BY DEF Spawn, IInv, Live, BusyIsLive, Quota, Idle
<1>2. WellFormed(<<>>) /\ <<>> \in Sets /\ Pairs(<<>>) = {}
  BY CapabilitiesAssumption, EmptySeq DEF WellFormed, Sets, Pairs
<1>3. t \in Tasks /\ t # NoTask /\ t.caps = <<>> /\ t.created = 0
  BY <1>1, <1>2, TaskFacts DEF Tasks, Types
<1>4. tasks' = [tasks EXCEPT ![i] = t]
      /\ UNCHANGED <<active, op, ever, made, cuts>> /\ nextId' = nextId + 1
  BY DEF Spawn, Bookkeeping
<1> HIDE DEF t
<1>5. tasks' \in [Slots -> Tasks \cup {NoTask}]
      /\ \A k \in Slots : tasks'[k] = IF k = i THEN t ELSE tasks[k]
  BY <1>1, <1>3, <1>4 DEF Types
<1>6. Live' = Live \cup {i}
  BY <1>3, <1>5 DEF Live
<1>7. \A k \in Live : k # i /\ tasks'[k] = tasks[k]
  BY <1>1, <1>5 DEF Live
<1>8. tasks'[i] = t
  BY <1>5
<1>9. Types'
  BY <1>1, <1>4, <1>5 DEF Types
<1>10. BusyIsLive' /\ Quota'
  <2>1. BusyIsLive'
    BY <1>4, <1>6 DEF IInv, BusyIsLive
  <2>2. QuotaCovers'
    <3> SUFFICES ASSUME NEW k \in Live' \ {0}
                 PROVE  /\ tasks'[k].created <= MaxQuota
                        /\ made[k] + (IF op[k].at = "create" THEN 1 ELSE 0) <= tasks'[k].created
      BY <1>4 DEF QuotaCovers
    <3>1. CASE k = i
      BY <1>1, <1>3, <1>8, <3>1, CapabilitiesAssumption
    <3>2. CASE k # i
      BY <1>6, <1>7, <3>2 DEF IInv, Quota, QuotaCovers
    <3> QED BY <3>1, <3>2
  <2> QED BY <1>4, <1>6, <2>1, <2>2 DEF IInv, Quota
<1>11. SeenHeld'
  <2>1. \A k \in Live' : Pairs(tasks'[k].caps) \subseteq ever[k]
    BY <1>2, <1>3, <1>6, <1>7, <1>8 DEF IInv, SeenHeld
  <2> QED BY <1>4, <2>1 DEF IInv, SeenHeld
<1>12. Final'
  <2>1. ASSUME NEW x \in cuts PROVE ~HeldByOther(x)'
    <3>1. ~HeldByOther(x)
      BY DEF IInv, Final
    <3>2. \A k \in Live' : <<x.channel, x.perm>> \in Pairs(tasks'[k].caps) => k \in Live
      BY <1>2, <1>3, <1>6, <1>8
    <3> QED BY <1>7, <3>1, <3>2 DEF HeldByOther
  <2> QED BY <1>4, <2>1 DEF IInv, Final, NotUnderWay
<1> QED BY <1>9, <1>10, <1>11, <1>12 DEF IInv

LEMMA ExitPreserves ==
  ASSUME IInv, NEW i \in Slots, Exit(i)
  PROVE  IInv'
<1>1. Types /\ i \in Live \ {0} /\ op[i] = Idle /\ op[i].at = "idle"
      /\ tasks' = [tasks EXCEPT ![i] = NoTask]
      /\ ever' = [ever EXCEPT ![i] = {}] /\ made' = [made EXCEPT ![i] = 0]
      /\ UNCHANGED <<active, op, nextId, cuts>>
  BY DEF Exit, IInv, Idle
<1>2. tasks' \in [Slots -> Tasks \cup {NoTask}]
      /\ \A k \in Slots : tasks'[k] = IF k = i THEN NoTask ELSE tasks[k]
  BY <1>1 DEF Types
<1>3. Live' = Live \ {i} /\ \A k \in Live' : tasks'[k] = tasks[k]
  BY <1>2 DEF Live
<1>4. \A k \in Slots \ {i} : ever'[k] = ever[k] /\ made'[k] = made[k]
  BY <1>1 DEF Types
<1>5. Types'
  BY <1>1, <1>2 DEF Types
<1>6. BusyIsLive' /\ Quota'
  <2>1. BusyIsLive'
    BY <1>1, <1>3 DEF IInv, BusyIsLive
  <2>2. \A k \in Slots : k \notin Live' => made'[k] = 0
    BY <1>1, <1>3, <1>4 DEF IInv, Quota, Types
  <2>3. QuotaCovers'
    BY <1>1, <1>3, <1>4 DEF IInv, Quota, QuotaCovers, Live
  <2> QED BY <2>1, <2>2, <2>3 DEF Quota
<1>7. SeenHeld'
  BY <1>1, <1>3, <1>4 DEF IInv, SeenHeld, Seen, Live
<1>8. Final'
  <2>1. ASSUME NEW x \in cuts PROVE ~HeldByOther(x)'
    BY <1>3, StaysGone DEF IInv, Final
  <2> QED BY <1>1, <2>1 DEF IInv, Final, NotUnderWay
<1> QED BY <1>5, <1>6, <1>7, <1>8 DEF IInv
-----------------------------------------------------------------------------
LEMMA ChargePreserves ==
  ASSUME IInv, NEW i \in Slots, ChargeQuota(i)
  PROVE  IInv'
<1> DEFINE t == [tasks[i] EXCEPT !.created = @ + 1]
           o == [at |-> "create"]
<1>1. Types /\ i \in Live \ {0} /\ op[i].at = "idle" /\ tasks[i].created < MaxQuota
      /\ tasks' = [tasks EXCEPT ![i] = t] /\ op' = [op EXCEPT ![i] = o]
      /\ UNCHANGED <<active, nextId, ever, made, cuts>>
  <2>1. i \in Live \ {0} /\ ~(tasks[i].created >= MaxQuota)
    BY DEF ChargeQuota, OverQuota
  <2>2. Types
    BY DEF IInv
  <2>3. tasks[i].created \in Nat /\ MaxQuota \in Nat
    BY <2>1, <2>2, LiveTasks, CapabilitiesAssumption
  <2> QED BY <2>1, <2>2, <2>3 DEF ChargeQuota, Bookkeeping, Idle
<1>2. tasks[i] \in Tasks /\ t \in Tasks /\ t # NoTask /\ t.id = tasks[i].id
      /\ t.caps = tasks[i].caps /\ t.created = tasks[i].created + 1
  <2>1. tasks[i] \in Tasks
    BY <1>1, LiveTasks
  <2>2. t \in Tasks /\ t.id = tasks[i].id
        /\ t.caps = tasks[i].caps /\ t.created = tasks[i].created + 1
    BY <2>1 DEF Tasks
  <2> QED BY <2>1, <2>2, TaskFacts
<1>3. o \in Ops /\ o.at = "create"
  BY DEF Ops
<1> HIDE DEF t, o
<1>4. tasks' \in [Slots -> Tasks \cup {NoTask}]
      /\ \A k \in Slots : tasks'[k] = IF k = i THEN t ELSE tasks[k]
  BY <1>1, <1>2 DEF Types
<1>5. op' \in [Slots -> Ops] /\ \A k \in Slots : op'[k] = IF k = i THEN o ELSE op[k]
  BY <1>1, <1>3 DEF Types
<1>6. Live' = Live
  BY <1>1, <1>2, <1>4 DEF Live
<1>7. Types'
  BY <1>1, <1>4, <1>5 DEF Types
<1>8. BusyIsLive'
  BY <1>1, <1>5, <1>6 DEF IInv, BusyIsLive
<1>9. Quota'
  <2>1. ASSUME NEW k \in Live \ {0}
        PROVE  /\ tasks'[k].created <= MaxQuota
               /\ made[k] + (IF op'[k].at = "create" THEN 1 ELSE 0) <= tasks'[k].created
    <3>1. k \in Slots
      BY DEF Live
    <3>2. tasks[k].created <= MaxQuota
          /\ made[k] + (IF op[k].at = "create" THEN 1 ELSE 0) <= tasks[k].created
      BY DEF IInv, Quota, QuotaCovers
    <3>3. CASE k = i
      <4>1. tasks'[k].created = tasks[k].created + 1 /\ op'[k].at = "create"
            /\ op[k].at # "create"
        BY <1>1, <1>2, <1>3, <1>4, <1>5, <3>1, <3>3
      <4>2. tasks[k].created \in Nat /\ MaxQuota \in Nat /\ made[k] \in Nat
            /\ tasks[k].created < MaxQuota
        BY <1>1, <3>1, <3>3, LiveTasks, CapabilitiesAssumption DEF Types
      <4> QED BY <3>2, <4>1, <4>2
    <3>4. CASE k # i
      BY <1>4, <1>5, <3>1, <3>2, <3>4
    <3> QED BY <3>3, <3>4
  <2> QED BY <1>1, <1>6, <2>1 DEF IInv, Quota, QuotaCovers
<1>10. SeenHeld'
  BY <1>1, <1>2, <1>3, <1>4, <1>5, <1>6 DEF IInv, SeenHeld, Seen, Live
<1>11. Final'
  <2>1. \A k \in Live : tasks'[k].id = tasks[k].id /\ tasks'[k].caps = tasks[k].caps
    BY <1>2, <1>4 DEF Live
  <2>2. ASSUME NEW x \in cuts PROVE ~HeldByOther(x)' /\ NotUnderWay(x)'
    <3>1. ~HeldByOther(x)'
      BY <1>6, <2>1, StaysGone DEF IInv, Final
    <3>2. NotUnderWay(x)'
      BY <1>1, <1>3, <1>5 DEF IInv, Final, NotUnderWay
    <3> QED BY <3>1, <3>2
  <2>3. \A k \in Slots : op'[k].at \in {"revoke", "cascade"} => op'[k].channel \in active
    BY <1>3, <1>5 DEF IInv, Final
  <2> QED BY <1>1, <2>2, <2>3 DEF Final
<1> QED BY <1>7, <1>8, <1>9, <1>10, <1>11 DEF IInv

(* The steps that leave every task as it is: what they owe the invariant.  *)
LEMMA OpStep ==
  ASSUME IInv, NEW i \in Slots, NEW o \in Ops,
         op' = [op EXCEPT ![i] = o],
         tasks' = tasks, nextId' = nextId, ever' = ever,
         o # Idle => i \in Live,
         o.at # "create",
         active \subseteq active', active' \subseteq Channels,
         made' \in [Slots -> Nat],
         \A k \in Slots \ {i} : made'[k] = made[k],
         made'[i] = made[i] \/ (op[i].at = "create" /\ made'[i] = made[i] + 1),
         i # 0 => Seen(o, ever[i]),
         o.at \in {"revoke", "cascade"} => o.channel \in active,
         cuts' \subseteq cuts,
         \A x \in cuts' : /\ ~(o.at = "own" /\ o.channel = x.channel)
                          /\ ~(o.at = "grant" /\ o.channel = x.channel /\ x.perm \in o.perms)
  PROVE  IInv'
<1>1. Types /\ Live' = Live
  BY DEF IInv, Live
<1>2. op' \in [Slots -> Ops] /\ \A k \in Slots : op'[k] = IF k = i THEN o ELSE op[k]
  BY <1>1 DEF Types
<1>3. Types'
  BY <1>1, <1>2 DEF Types
<1>4. BusyIsLive'
  BY <1>1, <1>2 DEF IInv, BusyIsLive
<1>5. Quota'
  <2>1. \A k \in Slots : k \notin Live => made'[k] = 0
    <3>1. op[i].at = "create" => op[i] # Idle
      BY DEF Idle
    <3> QED BY <3>1 DEF IInv, Quota, BusyIsLive
  <2>2. ASSUME NEW k \in Live \ {0}
        PROVE  /\ tasks[k].created <= MaxQuota
               /\ made'[k] + (IF op'[k].at = "create" THEN 1 ELSE 0) <= tasks[k].created
    <3>1. k \in Slots /\ made[k] \in Nat /\ made'[k] \in Nat /\ tasks[k].created \in Nat
      BY <1>1, LiveTasks DEF Live, Types
    <3>2. tasks[k].created <= MaxQuota
          /\ made[k] + (IF op[k].at = "create" THEN 1 ELSE 0) <= tasks[k].created
      BY DEF IInv, Quota, QuotaCovers
    <3>3. CASE k = i
      BY <1>2, <3>1, <3>2, <3>3
    <3>4. CASE k # i
      BY <1>2, <3>1, <3>2, <3>4
    <3> QED BY <3>3, <3>4
  <2> QED BY <1>1, <2>1, <2>2 DEF Quota, QuotaCovers
<1>6. SeenHeld'
  <2>1. \A k \in Live' : Pairs(tasks'[k].caps) \subseteq ever'[k]
    BY <1>1 DEF IInv, SeenHeld
  <2>2. ASSUME NEW k \in Slots \ {0}
        PROVE  Seen(op'[k], ever'[k])
    BY <1>2 DEF IInv, SeenHeld
  <2> QED BY <2>1, <2>2 DEF SeenHeld
<1>7. Final'
  <2>1. ASSUME NEW x \in cuts' PROVE ~HeldByOther(x)' /\ NotUnderWay(x)'
    <3>1. ~HeldByOther(x) /\ NotUnderWay(x)
      BY DEF IInv, Final
    <3>2. ~HeldByOther(x)'
      BY <1>1, <3>1 DEF HeldByOther
    <3>3. NotUnderWay(x)'
      BY <1>2, <3>1 DEF NotUnderWay
    <3> QED BY <3>2, <3>3
  <2>2. \A k \in Slots : op'[k].at \in {"revoke", "cascade"} => op'[k].channel \in active'
    BY <1>2 DEF IInv, Final
  <2> QED BY <2>1, <2>2 DEF Final
<1> QED BY <1>3, <1>4, <1>5, <1>6, <1>7 DEF IInv

LEMMA OpOnly ==
  ASSUME IInv, NEW i \in Slots, NEW o \in Ops,
         op' = [op EXCEPT ![i] = o],
         UNCHANGED <<tasks, active, nextId, ever, made>>,
         o # Idle => i \in Live,
         o.at \notin {"create", "own"},
         i # 0 => Seen(o, ever[i]),
         o.at \in {"revoke", "cascade"} => o.channel \in active,
         cuts' \subseteq cuts,
         \A x \in cuts' : ~(o.at = "grant" /\ o.channel = x.channel /\ x.perm \in o.perms)
  PROVE  IInv'
<1>1. made' \in [Slots -> Nat] /\ \A k \in Slots : made'[k] = made[k]
  BY DEF IInv, Types
<1>2. active' = active /\ active' \subseteq Channels
  BY DEF IInv, Types
<1>3. tasks' = tasks /\ nextId' = nextId /\ ever' = ever
  OBVIOUS
<1>4. o.at # "create" /\ made'[i] = made[i]
  BY <1>1
<1>5. \A x \in cuts' : ~(o.at = "own" /\ o.channel = x.channel)
  OBVIOUS
<1> QED BY <1>1, <1>2, <1>3, <1>4, <1>5, OpStep

LEMMA IdleOp == Idle \in Ops /\ Idle.at = "idle" /\ \A S : Seen(Idle, S)
BY DEF Ops, Idle, Seen

LEMMA MakePreserves ==
  ASSUME IInv, NEW i \in Slots, MakeChannel(i)
  PROVE  IInv'
<1>1. op[i].at = "create" /\ i \in Live /\ UNCHANGED <<tasks, nextId, ever, cuts>>
      /\ active \subseteq Channels /\ made \in [Slots -> Nat]
  BY DEF MakeChannel, IInv, BusyIsLive, Idle, Types
<1>2. CASE Done(i) /\ UNCHANGED <<active, made>>
  BY <1>1, <1>2, IdleOp, OpOnly DEF Done
<1>3. ASSUME NEW c \in Channels \ active,
             active' = active \cup {c},
             made' = [made EXCEPT ![i] = @ + 1],
             op' = [op EXCEPT ![i] = [at |-> "own", channel |-> c]]
      PROVE  IInv'
  <2> DEFINE o == [at |-> "own", channel |-> c]
  <2>1. o \in Ops /\ o.at = "own" /\ o.channel = c /\ Seen(o, ever[i])
    BY DEF Ops, Owning, Seen
  <2>2. \A x \in cuts' : o.channel # x.channel
    BY <1>1, <2>1 DEF IInv, Final, NotUnderWay
  <2>3. op' = [op EXCEPT ![i] = o]
    BY <1>3
  <2> HIDE DEF o
  <2>4. made' \in [Slots -> Nat] /\ made'[i] = made[i] + 1
        /\ \A k \in Slots \ {i} : made'[k] = made[k]
    BY <1>1, <1>3
  <2> QED BY <1>1, <1>3, <2>1, <2>2, <2>3, <2>4, OpStep
<1> QED BY <1>2, <1>3 DEF MakeChannel

LEMMA CallPreserves ==
  ASSUME IInv, NEW i \in Slots, NEW kind \in {"delegate", "revoke"}, NEW id \in Ids,
         NEW c \in Channels, NEW perms \in Asked, Call(i, kind, id, c, perms)
  PROVE  IInv'
<1>1. PICK j \in Lookup(id) :
         op' = [op EXCEPT ![i] = [at |-> kind, target |-> j, channel |-> c, perms |-> perms]]
  BY DEF Call
<1> DEFINE o == [at |-> kind, target |-> j, channel |-> c, perms |-> perms]
<1>2. i \in Live /\ c \in active /\ <<c, Manage>> \in ever[i]
      /\ UNCHANGED <<tasks, active, nextId, ever, made, cuts>> /\ Types
  <2>1. i \in Live /\ Has(tasks[i].caps, c, {Manage}) /\ c \in active /\ Types
    BY DEF Call, MayManage, InSlot, IInv
  <2>2. {c} \X {Manage} \subseteq Pairs(tasks[i].caps)
    BY <2>1, LiveTasks, HasPairs
  <2>3. <<c, Manage>> \in ever[i]
    BY <2>1, <2>2 DEF IInv, SeenHeld
  <2> QED BY <2>1, <2>3 DEF Call, Bookkeeping
<1>3. o \in Ops /\ o.at = kind /\ o.channel = c
  BY CapabilitiesAssumption DEF Ops, Calling, BitSets, Lookup, Live
<1>4. op' = [op EXCEPT ![i] = o]
  BY <1>1
<1>5. Seen(o, ever[i])
  BY <1>2, <1>3 DEF Seen
<1> HIDE DEF o
<1> QED BY <1>2, <1>3, <1>4, <1>5, OpOnly

LEMMA CheckPreserves ==
  ASSUME IInv, NEW i \in Slots, CheckHeld(i)
  PROVE  IInv'
<1> DEFINE c == op[i].channel  perms == op[i].perms
<1>1. Types /\ op[i].at = "delegate" /\ i \in Live /\ op[i] \in Calling
      /\ UNCHANGED <<tasks, active, nextId, ever, made>>
  <2>1. op[i].at = "delegate" /\ op[i] \in Ops
    BY DEF CheckHeld, IInv, Types
  <2>2. op[i] # Idle /\ op[i] \in Calling
    BY <2>1, OpFacts
  <2> QED BY <2>1, <2>2 DEF CheckHeld, IInv, BusyIsLive
<1>2. CASE MayDelegate(i, c, perms)
  <2> DEFINE o == [op[i] EXCEPT !.at = "grant"]
  <2>1. op' = [op EXCEPT ![i] = o] /\ cuts' = cuts \ Outlived(i, c, perms)
    BY <1>2 DEF CheckHeld, Goto
  <2>2. o \in Ops /\ o.at = "grant" /\ o.channel = c /\ o.perms = perms
    BY <1>1 DEF Ops, Calling
  <2> HIDE DEF o
  <2>3. {c} \X perms \subseteq Pairs(tasks[i].caps)
    BY <1>1, <1>2, LiveTasks, HasPairs DEF MayDelegate, InSlot
  <2>4. i # 0 => Seen(o, ever[i])
    <3>1. i # 0 => <<c, Manage>> \in ever[i]
      BY <1>1 DEF IInv, SeenHeld, Seen
    <3>2. Pairs(tasks[i].caps) \subseteq ever[i]
      BY <1>1 DEF IInv, SeenHeld
    <3> QED BY <2>2, <2>3, <3>1, <3>2 DEF Seen
  <2>5. ASSUME NEW x \in cuts', o.channel = x.channel, x.perm \in o.perms
        PROVE  FALSE
    <3>1. x \in cuts /\ x \notin Outlived(i, c, perms)
      BY <2>1
    <3>2. x.channel = c /\ x.perm \in perms
      BY <2>2, <2>5
    <3>3. tasks[i].id # x.by
      BY <3>1, <3>2 DEF Outlived
    <3>4. <<x.channel, x.perm>> \in Pairs(tasks[i].caps)
      BY <2>3, <3>2
    <3> QED BY <1>1, <3>1, <3>3, <3>4 DEF IInv, Final, HeldByOther
  <2> QED BY <1>1, <2>1, <2>2, <2>4, <2>5, OpOnly
<1>3. CASE ~MayDelegate(i, c, perms)
  BY <1>1, <1>3, IdleOp, OpOnly DEF CheckHeld, Done, Types
<1> QED BY <1>2, <1>3

LEMMA KernelGrantPreserves ==
  ASSUME IInv, 0 \in Slots, NEW id \in Ids, NEW c \in Channels, NEW perms \in Asked,
         KernelGrant(id, c, perms)
  PROVE  IInv'
<1>1. PICK j \in Lookup(id) \ {0} :
         op' = [op EXCEPT ![0] = [at |-> "grant", target |-> j, channel |-> c, perms |-> perms]]
  BY DEF KernelGrant
<1> DEFINE o == [at |-> "grant", target |-> j, channel |-> c, perms |-> perms]
<1>2. o \in Ops /\ o.at = "grant" /\ o.channel = c /\ o.perms = perms
  BY CapabilitiesAssumption DEF Ops, Calling, BitSets, Lookup, Live
<1>3. op' = [op EXCEPT ![0] = o]
  BY <1>1
<1> HIDE DEF o
<1>4. Types /\ 0 \in Live /\ UNCHANGED <<tasks, active, nextId, ever, made>>
      /\ cuts' = cuts \ Outlived(0, c, perms)
  BY DEF KernelGrant, IInv, BusyIsLive
<1>5. \A x \in cuts' : ~(o.channel = x.channel /\ x.perm \in o.perms)
  BY <1>2, <1>4 DEF Outlived
<1> QED BY <1>2, <1>3, <1>4, <1>5, OpOnly
-----------------------------------------------------------------------------
(* The steps that change sets: what they owe the invariant.                *)
LEMMA SetsStep ==
  ASSUME IInv, NEW i \in Slots, NEW o \in Ops, NEW j, NEW c, NEW perms,
         op' = [op EXCEPT ![i] = o],
         OnlySets(j, c, perms),
         active' = active, nextId' = nextId, made' = made,
         ever' \in [Slots -> SUBSET (Channels \X Perms)],
         \A k \in Live : ever[k] \subseteq ever'[k] /\ Pairs(tasks'[k].caps) \subseteq ever'[k],
         o # Idle => i \in Live,
         o.at \in {"idle", "cascade"},
         o.at = "cascade" => o.channel \in active,
         cuts' \subseteq [channel : Channels, perm : Perms, by : Nat],
         \A x \in cuts' : ~HeldByOther(x)' /\ NotUnderWay(x)
  PROVE  IInv'
<1>1. Types /\ Live' = Live /\ tasks' \in [Slots -> Tasks \cup {NoTask}]
  BY DEF IInv, OnlySets
<1>2. op' \in [Slots -> Ops] /\ \A k \in Slots : op'[k] = IF k = i THEN o ELSE op[k]
  BY <1>1 DEF Types
<1>3. Types'
  BY <1>1, <1>2 DEF Types
<1>4. BusyIsLive'
  BY <1>1, <1>2 DEF IInv, BusyIsLive
<1>5. Quota'
  <2>1. ASSUME NEW k \in Live \ {0}
        PROVE  /\ tasks'[k].created <= MaxQuota
               /\ made[k] + (IF op'[k].at = "create" THEN 1 ELSE 0) <= tasks'[k].created
    <3>1. k \in Slots /\ made[k] \in Nat /\ tasks[k].created \in Nat
          /\ tasks'[k].created = tasks[k].created
      BY <1>1, LiveTasks DEF Types, OnlySets
    <3>2. tasks[k].created <= MaxQuota
          /\ made[k] + (IF op[k].at = "create" THEN 1 ELSE 0) <= tasks[k].created
      BY DEF IInv, Quota, QuotaCovers
    <3>3. CASE k = i
      BY <1>2, <3>1, <3>2, <3>3
    <3>4. CASE k # i
      BY <1>2, <3>1, <3>2, <3>4
    <3> QED BY <3>3, <3>4
  <2> QED BY <1>1, <2>1 DEF IInv, Quota, QuotaCovers
<1>6. SeenHeld'
  <2>1. ASSUME NEW k \in Slots \ {0}
        PROVE  Seen(op'[k], ever'[k])
    <3>1. CASE k = i
      BY <1>2, <3>1 DEF Seen
    <3>2. CASE k # i
      <4>1. op'[k] = op[k] /\ Seen(op[k], ever[k])
        BY <1>2, <3>2 DEF IInv, SeenHeld
      <4>2. CASE k \in Live
        BY <4>1, <4>2 DEF Seen
      <4>3. CASE k \notin Live
        BY <4>1, <4>3 DEF IInv, BusyIsLive, Idle, Seen
      <4> QED BY <4>2, <4>3
    <3> QED BY <3>1, <3>2
  <2> QED BY <1>1, <2>1 DEF SeenHeld
<1>7. Final'
  <2>1. ASSUME NEW x \in cuts' PROVE NotUnderWay(x)'
    BY <1>2 DEF NotUnderWay
  <2>2. \A k \in Slots : op'[k].at \in {"revoke", "cascade"} => op'[k].channel \in active
    BY <1>2 DEF IInv, Final
  <2> QED BY <2>1, <2>2 DEF Final
<1> QED BY <1>3, <1>4, <1>5, <1>6, <1>7 DEF IInv

LEMMA RecordKeeps ==
  ASSUME IInv, Live' = Live, tasks' \in [Slots -> Tasks \cup {NoTask}], Record
  PROVE  /\ ever' \in [Slots -> SUBSET (Channels \X Perms)]
         /\ \A k \in Live : ever[k] \subseteq ever'[k] /\ Pairs(tasks'[k].caps) \subseteq ever'[k]
<1>1. ASSUME NEW k \in Live PROVE Pairs(tasks'[k].caps) \subseteq Channels \X Perms
  <2>1. k \in Slots /\ tasks'[k] # NoTask
    BY DEF Live
  <2>2. tasks'[k] \in Tasks
    BY <2>1
  <2> QED BY <2>2, TaskFacts, PairsInRange DEF WellFormed
<1>2. ever \in [Slots -> SUBSET (Channels \X Perms)]
  BY DEF IInv, Types
<1>3. ever' = [k \in Slots |-> IF k \in Live THEN ever[k] \cup Pairs(tasks'[k].caps) ELSE {}]
  BY DEF Record
<1>4. \A k \in Live : k \in Slots
  BY DEF Live
<1> QED BY <1>1, <1>2, <1>3, <1>4

(* A grant in effect: no revocation that counts is of a bit it gives.      *)
LEMMA GivePreserves ==
  ASSUME IInv, NEW i \in Slots, NEW j \in Slots, NEW c \in Channels, NEW perms \in BitSets,
         OnlySets(j, c, perms), Record, Done(i),
         UNCHANGED <<active, nextId, made, cuts>>,
         \A x \in cuts : ~(x.channel = c /\ x.perm \in perms)
  PROVE  IInv'
<1>1. ASSUME NEW x \in cuts PROVE ~HeldByOther(x)' /\ NotUnderWay(x)
  <2>1. ~HeldByOther(x) /\ NotUnderWay(x)
    BY DEF IInv, Final
  <2>2. \A k \in Live : <<x.channel, x.perm>> \in Pairs(tasks'[k].caps) =>
                            <<x.channel, x.perm>> \in Pairs(tasks[k].caps)
    BY DEF OnlySets
  <2>3. ~HeldByOther(x)'
    BY <2>1, <2>2, StaysGone DEF OnlySets
  <2> QED BY <2>1, <2>3
<1>2. op' = [op EXCEPT ![i] = Idle] /\ Idle \in Ops /\ Idle.at = "idle"
  BY IdleOp DEF Done
<1>3. /\ ever' \in [Slots -> SUBSET (Channels \X Perms)]
      /\ \A k \in Live : ever[k] \subseteq ever'[k] /\ Pairs(tasks'[k].caps) \subseteq ever'[k]
  BY RecordKeeps DEF OnlySets
<1>4. cuts' \subseteq [channel : Channels, perm : Perms, by : Nat] /\ cuts' = cuts
  BY DEF IInv, Types
<1>5. active' = active /\ nextId' = nextId /\ made' = made
  OBVIOUS
<1> QED BY <1>1, <1>2, <1>3, <1>4, <1>5, SetsStep

LEMMA OwnPreserves ==
  ASSUME IInv, NEW i \in Slots, OwnChannel(i)
  PROVE  IInv' /\ OnlySets(i, op[i].channel, Perms)
<1> DEFINE c == op[i].channel
<1>1. op[i].at = "own" /\ c \in Channels /\ i \in Live /\ Types
  <2>1. op[i] \in Ops /\ op[i].at = "own"
    BY DEF IInv, Types, OwnChannel
  <2>2. c \in Channels /\ op[i] # Idle
    BY <2>1, OpFacts
  <2> QED BY <2>1, <2>2 DEF IInv, BusyIsLive
<1>2. Perms \in BitSets
  BY DEF BitSets, Perms
<1>3. tasks' = IF i \in Live /\ CanGrant(tasks[i].caps, c)
               THEN [tasks EXCEPT ![i].caps = Granted(@, c, Perms)] ELSE tasks
  BY <1>1 DEF OwnChannel
<1>4. \A x \in cuts : ~(x.channel = c /\ x.perm \in Perms)
  BY <1>1 DEF IInv, Final, NotUnderWay
<1>5. Record /\ Done(i) /\ UNCHANGED <<active, nextId, made, cuts>>
  BY DEF OwnChannel
<1> HIDE DEF c
<1>6. OnlySets(i, c, Perms)
  BY <1>1, <1>2, <1>3, GrantsOnly
<1> QED BY <1>1, <1>2, <1>4, <1>5, <1>6, GivePreserves DEF c

LEMMA GrantPreserves ==
  ASSUME IInv, NEW i \in Slots, Grant(i)
  PROVE  IInv' /\ OnlySets(op[i].target, op[i].channel, op[i].perms)
<1> DEFINE c == op[i].channel  perms == op[i].perms  j == op[i].target
<1>1. op[i].at = "grant" /\ c \in Channels /\ perms \in BitSets /\ j \in Slots /\ Types
  <2>1. op[i] \in Ops /\ op[i].at = "grant" /\ Types
    BY DEF IInv, Types, Grant
  <2> QED BY <2>1, OpFacts
<1>2. tasks' = IF j \in Live /\ CanGrant(tasks[j].caps, c)
               THEN [tasks EXCEPT ![j].caps = Granted(@, c, perms)] ELSE tasks
  BY DEF Grant
<1>3. \A x \in cuts : ~(x.channel = c /\ x.perm \in perms)
  BY <1>1 DEF IInv, Final, NotUnderWay
<1>4. Record /\ Done(i) /\ UNCHANGED <<active, nextId, made, cuts>>
  BY DEF Grant
<1> HIDE DEF c, perms, j
<1>5. OnlySets(j, c, perms)
  BY <1>1, <1>2, GrantsOnly
<1> QED BY <1>1, <1>3, <1>4, <1>5, GivePreserves DEF c, perms, j
LEMMA RevokePreserves ==
  ASSUME IInv, NEW i \in Slots, RevokeTarget(i)
  PROVE  IInv' /\ OnlySets(i, op[i].channel, {})
<1> DEFINE c == op[i].channel  perms == op[i].perms  j == op[i].target
<1>1. /\ op[i].at = "revoke" /\ c \in Channels /\ perms \in BitSets /\ j \in Slots
      /\ Types /\ op[i] \in Calling /\ i \in Live /\ c \in active
  <2>1. op[i] \in Ops /\ op[i].at = "revoke" /\ Types
    BY DEF IInv, Types, RevokeTarget
  <2>2. op[i] \in Calling /\ c \in Channels /\ perms \in BitSets /\ j \in Slots /\ op[i] # Idle
    BY <2>1, OpFacts
  <2> QED BY <2>1, <2>2 DEF IInv, BusyIsLive, Final
<1>2. UNCHANGED <<active, nextId, ever, made, cuts>>
  BY DEF RevokeTarget, Bookkeeping
<1>3. CASE Done(i) /\ UNCHANGED tasks
  <2>1. OnlySets(i, c, {})
    BY <1>1, <1>3 DEF OnlySets, Types, Live
  <2>2. IInv'
    BY <1>2, <1>3, IdleOp, OpOnly DEF Done
  <2> QED BY <2>1, <2>2
<1>4. CASE /\ j \in Live /\ Goto(i, "cascade")
           /\ tasks' = [tasks EXCEPT ![j].caps = Revoked(tasks[j].caps, c, perms)]
  <2> DEFINE o == [op[i] EXCEPT !.at = "cascade"]
  <2>1. op' = [op EXCEPT ![i] = o]
    BY <1>4 DEF Goto
  <2>2. o \in Ops /\ o.at = "cascade" /\ o.channel = c
    BY <1>1 DEF Ops, Calling
  <2>3. tasks' = Without({j}, c, perms)
    BY <1>1, <1>4 DEF Types, Without
  <2> HIDE DEF c, perms, j, o
  <2>4. /\ tasks' \in [Slots -> Tasks \cup {NoTask}] /\ Live' = Live
        /\ \A k \in Live :
              /\ tasks'[k].id = tasks[k].id /\ tasks'[k].created = tasks[k].created
              /\ Pairs(tasks'[k].caps) \subseteq Pairs(tasks[k].caps)
    <3>1. {j} \in SUBSET Live
      BY <1>4
    <3>2. /\ tasks' \in [Slots -> Tasks \cup {NoTask}] /\ Live' = Live
          /\ \A k \in Live :
                /\ tasks'[k].id = tasks[k].id /\ tasks'[k].created = tasks[k].created
                /\ Pairs(tasks'[k].caps) = Pairs(tasks[k].caps)
                                            \ (IF k \in {j} THEN {c} \X perms ELSE {})
      <4> DEFINE T == {j}
      <4>1. T \in SUBSET Live /\ tasks' = Without(T, c, perms)
        BY <2>3, <3>1
      <4> HIDE DEF T
      <4>2. /\ tasks' \in [Slots -> Tasks \cup {NoTask}] /\ Live' = Live
            /\ \A k \in Live :
                  /\ tasks'[k].id = tasks[k].id /\ tasks'[k].created = tasks[k].created
                  /\ Pairs(tasks'[k].caps) = Pairs(tasks[k].caps)
                                              \ (IF k \in T THEN {c} \X perms ELSE {})
        BY <1>1, <4>1, RevokesOnly
      <4> QED BY <4>2 DEF T
    <3> QED BY <3>2
  <2>5. OnlySets(i, c, {})
    BY <2>4 DEF OnlySets
  <2>6. ASSUME NEW x \in cuts PROVE ~HeldByOther(x)' /\ NotUnderWay(x)
    BY <2>4, StaysGone DEF IInv, Final
  <2>7. /\ ever \in [Slots -> SUBSET (Channels \X Perms)]
        /\ \A k \in Live : Pairs(tasks'[k].caps) \subseteq ever[k]
        /\ cuts \subseteq [channel : Channels, perm : Perms, by : Nat]
    BY <2>4 DEF IInv, SeenHeld, Types
  <2>8. active' = active /\ nextId' = nextId /\ made' = made /\ ever' = ever /\ cuts' = cuts
    BY <1>2
  <2>9. IInv'
    BY <1>1, <2>1, <2>2, <2>5, <2>6, <2>7, <2>8, SetsStep
  <2> QED BY <2>5, <2>9 DEF c
<1> QED BY <1>3, <1>4 DEF RevokeTarget

(* The cascade leaves the bits with the revoker alone, and with no grant   *)
(* of the channel under way there is none to follow.                       *)
LEMMA CascadePreserves ==
  ASSUME IInv, NEW i \in Slots, Cascade(i)
  PROVE  IInv' /\ OnlySets(i, op[i].channel, {})
<1> DEFINE c == op[i].channel  perms == op[i].perms  S == {k \in Live : ~Spared(i, k)}
<1>1. /\ op[i].at = "cascade" /\ c \in Channels /\ perms \in BitSets
      /\ Types /\ i \in Live /\ c \in active
  <2>1. op[i] \in Ops /\ op[i].at = "cascade" /\ Types
    BY DEF IInv, Types, Cascade
  <2>2. c \in Channels /\ perms \in BitSets /\ op[i] # Idle
    BY <2>1, OpFacts
  <2> QED BY <2>1, <2>2 DEF IInv, BusyIsLive, Final
<1>2. /\ Done(i) /\ UNCHANGED <<active, nextId, ever, made>>
      /\ tasks' = Without(S, c, perms)
      /\ cuts' = {x \in cuts : x.channel # c \/ x.perm \notin perms} \cup
                  (IF InFlight(c) THEN {}
                   ELSE [channel : {c}, perm : perms, by : {tasks[i].id}])
  BY DEF Cascade, Without
<1>3. S \in SUBSET Live /\ \A k \in Live : k \in S <=> k # i
  BY DEF Spared
<1> HIDE DEF c, perms, S
<1>4. /\ tasks' \in [Slots -> Tasks \cup {NoTask}] /\ Live' = Live
      /\ \A k \in Live :
            /\ tasks'[k].id = tasks[k].id /\ tasks'[k].created = tasks[k].created
            /\ Pairs(tasks'[k].caps) = Pairs(tasks[k].caps) \ (IF k \in S THEN {c} \X perms ELSE {})
  BY <1>1, <1>2, <1>3, RevokesOnly
<1>5. OnlySets(i, c, {})
  BY <1>4 DEF OnlySets
<1>6. ASSUME NEW x \in cuts' PROVE ~HeldByOther(x)' /\ NotUnderWay(x)
  <2>1. CASE x \in cuts
    BY <1>4, <2>1, StaysGone DEF IInv, Final
  <2>2. CASE x \notin cuts
    <3>1. ~InFlight(c) /\ x.channel = c /\ x.perm \in perms /\ x.by = tasks[i].id
      BY <1>2, <2>2
    <3>2. ASSUME NEW k \in Live, tasks'[k].id # x.by
          PROVE  <<x.channel, x.perm>> \notin Pairs(tasks'[k].caps)
      <4>1. k # i
        BY <1>1, <1>4, <3>1, <3>2
      <4> QED BY <1>3, <1>4, <3>1, <4>1
    <3>3. ~HeldByOther(x)'
      BY <1>4, <3>2 DEF HeldByOther
    <3>4. NotUnderWay(x)
      BY <1>1, <3>1 DEF NotUnderWay, InFlight
    <3> QED BY <3>3, <3>4
  <2> QED BY <2>1, <2>2
<1>7. cuts' \subseteq [channel : Channels, perm : Perms, by : Nat]
  <2>1. tasks[i].id \in Nat
    BY <1>1, LiveTasks
  <2> QED BY <1>1, <1>2, <2>1 DEF Types, BitSets
<1>8. /\ ever \in [Slots -> SUBSET (Channels \X Perms)]
      /\ \A k \in Live : Pairs(tasks'[k].caps) \subseteq ever[k]
  BY <1>4 DEF IInv, SeenHeld, Types
<1>9. active' = active /\ nextId' = nextId /\ made' = made /\ ever' = ever
  BY <1>2
<1>10. op' = [op EXCEPT ![i] = Idle] /\ Idle \in Ops /\ Idle.at = "idle"
  BY <1>2, IdleOp DEF Done
<1>11. IInv'
  BY <1>1, <1>5, <1>6, <1>7, <1>8, <1>9, <1>10, SetsStep
<1> QED BY <1>5, <1>11 DEF c

-----------------------------------------------------------------------------
LEMMA StutterPreserves == IInv /\ UNCHANGED vars => IInv'
BY DEF IInv, vars, Types, BusyIsLive, Quota, QuotaCovers, SeenHeld, Seen, Final, NotUnderWay,
       HeldByOther, Live

LEMMA NextPreserves == IInv /\ [Next]_vars => IInv'
<1> SUFFICES ASSUME IInv, [Next]_vars PROVE IInv'
  OBVIOUS
<1>1. CASE UNCHANGED vars
  BY <1>1, StutterPreserves
<1>2. ASSUME NEW i \in Slots, Spawn(i) \/ Exit(i) PROVE IInv'
  BY <1>2, SpawnPreserves, ExitPreserves
<1>3. ASSUME NEW i \in Slots, ChargeQuota(i) \/ MakeChannel(i) \/ OwnChannel(i) PROVE IInv'
  BY <1>3, ChargePreserves, MakePreserves, OwnPreserves
<1>4. ASSUME NEW i \in Slots, NEW kind \in {"delegate", "revoke"}, NEW id \in Ids,
             NEW c \in Channels, NEW perms \in Asked, Call(i, kind, id, c, perms)
      PROVE  IInv'
  BY <1>4, CallPreserves
<1>5. ASSUME NEW i \in Slots, NEW id \in Ids, NEW c \in Channels, NEW perms \in Asked,
             i = 0, KernelGrant(id, c, perms)
      PROVE  IInv'
  BY <1>5, KernelGrantPreserves
<1>6. ASSUME NEW i \in Slots, CheckHeld(i) \/ Grant(i) PROVE IInv'
  BY <1>6, CheckPreserves, GrantPreserves
<1>7. ASSUME NEW i \in Slots, RevokeTarget(i) \/ Cascade(i) PROVE IInv'
  BY <1>7, RevokePreserves, CascadePreserves
<1> QED BY <1>1, <1>2, <1>3, <1>4, <1>5, <1>6, <1>7 DEF Next

(* The invariant holds in every reachable state.                           *)
THEOREM Invariance == Spec => []IInv
<1> QED BY InitInv, NextPreserves, PTL DEF Spec

(* However the steps of the calls interleave, every set stays well-formed: *)
(* one entry for a channel, none without bits, none too many.              *)
THEOREM SetsStayWellFormed == Spec => []SetsWellFormed
<1>1. ASSUME IInv PROVE SetsWellFormed
  <2>1. \A i \in Slots : op[i].at \in Busy
    BY <1>1, OpFacts DEF IInv, Types
  <2>2. ASSUME NEW i \in Live
        PROVE  LET caps == tasks[i].caps
               IN  /\ Len(caps) <= MaxCaps
                   /\ \A k \in DOMAIN caps : caps[k].channel \in Channels
                                             /\ caps[k].perms \in (SUBSET Perms) \ {{}}
                   /\ \A k, l \in DOMAIN caps : caps[k].channel = caps[l].channel => k = l
    <3> DEFINE caps == tasks[i].caps
    <3>1. WellFormed(caps)
      BY <1>1, LiveTasks DEF IInv
    <3> HIDE DEF caps
    <3>2. DOMAIN caps = 1 .. Len(caps) /\ \A k \in 1 .. Len(caps) : caps[k] \in Entry
      BY <3>1 DEF WellFormed
    <3> QED BY <3>1, <3>2 DEF WellFormed, Entry, caps
  <2> QED BY <1>1, <2>1, <2>2 DEF IInv, Types, SetsWellFormed
<1> QED BY <1>1, Invariance, PTL

(* A completed revocation is the last word: no one else holds the bit      *)
(* until the revoker or the kernel gives it anew.                          *)
THEOREM RevocationsFinal == Spec => []RevocationFinal
<1>1. IInv => RevocationFinal
  BY DEF IInv, Final, RevocationFinal
<1> QED BY <1>1, Invariance, PTL

(* No task ever has more channels than it was charged for, nor is charged  *)
(* for more than the limit.                                                *)
THEOREM QuotaHolds == Spec => []QuotaCovers
<1>1. IInv => QuotaCovers
  BY DEF IInv, Quota
<1> QED BY <1>1, Invariance, PTL

(* A step by which the sets change as OnlySets says gives slot j no bit    *)
(* but those of c it names.                                                *)
LEMMA GainsOnly ==
  ASSUME IInv, NEW j, NEW c, NEW perms, OnlySets(j, c, perms),
         NEW i \in Slots, tasks'[i] # NoTask, NEW g \in Gains(i)
  PROVE  i = j /\ g \in {c} \X perms
<1>1. i \in Live
  BY DEF OnlySets, Live
<1>2. Pairs(tasks'[i].caps) \subseteq
         Pairs(tasks[i].caps) \cup (IF i = j THEN {c} \X perms ELSE {})
  BY <1>1 DEF OnlySets
<1> QED BY <1>1, <1>2 DEF Gains, Live

(* Rights are never amplified: a task gains a bit as the maker of the      *)
(* channel, from the kernel, or from one that held it and could manage.    *)
THEOREM NeverAmplified == Spec => NoAmplification
<1> DEFINE Earned(i, g) == \/ op[i].at = "own" /\ op[i].channel = g[1]
                           \/ \E j \in Live : /\ op[j].at = "grant" /\ op[j].target = i
                                              /\ \/ j = 0
                                                 \/ {g, <<g[1], Manage>>} \subseteq ever[j]
           Step == \A i \in Slots : tasks'[i] # NoTask => \A g \in Gains(i) : Earned(i, g)
<1>1. ASSUME IInv, Next PROVE Step
  <2> SUFFICES ASSUME NEW i \in Slots, tasks'[i] # NoTask, NEW g \in Gains(i)
               PROVE  Earned(i, g)
    OBVIOUS
  <2>1. ASSUME NEW k \in Slots, OnlySets(k, op[k].channel, {}) PROVE FALSE
    BY <1>1, <2>1, GainsOnly
  <2>2. ASSUME tasks' = tasks PROVE FALSE
    BY <2>2 DEF Gains
  <2>3. ASSUME NEW k \in Slots, Spawn(k) PROVE FALSE
    <3>1. tasks' = [tasks EXCEPT ![k] = [id |-> nextId, caps |-> <<>>, created |-> 0]]
          /\ tasks[k] = NoTask /\ Types
      BY <1>1, <2>3 DEF Spawn, IInv
    <3>2. CASE i = k
      <4>1. tasks'[i].caps = <<>>
        BY <3>1, <3>2 DEF Types
      <4> QED BY <4>1 DEF Gains, Pairs
    <3>3. CASE i # k
      BY <3>1, <3>3 DEF Types, Gains
    <3> QED BY <3>2, <3>3
  <2>4. ASSUME NEW k \in Slots, Exit(k) PROVE FALSE
    BY <1>1, <2>4 DEF Exit, IInv, Types, Gains
  <2>5. ASSUME NEW k \in Slots, ChargeQuota(k) PROVE FALSE
    <3>1. tasks[k] \in Tasks /\ tasks \in [Slots -> Tasks \cup {NoTask}]
      BY <1>1, <2>5, LiveTasks DEF ChargeQuota, IInv, Types
    <3>2. tasks' = [tasks EXCEPT ![k] = [tasks[k] EXCEPT !.created = @ + 1]]
      BY <2>5 DEF ChargeQuota
    <3>3. [tasks[k] EXCEPT !.created = @ + 1].caps = tasks[k].caps
      BY <3>1 DEF Tasks
    <3>4. tasks'[i].caps = tasks[i].caps /\ tasks[i] # NoTask
      <4>1. tasks[k] # NoTask
        BY <3>1, TaskFacts
      <4> QED BY <3>1, <3>2, <3>3, <4>1
    <3> QED BY <3>4 DEF Gains
  <2>6. ASSUME NEW k \in Slots, OwnChannel(k) PROVE Earned(i, g)
    <3>1. i = k /\ g[1] = op[k].channel
      BY <1>1, <2>6, OwnPreserves, GainsOnly
    <3> QED BY <2>6, <3>1 DEF OwnChannel
  <2>7. ASSUME NEW k \in Slots, Grant(k) PROVE Earned(i, g)
    <3>1. i = op[k].target /\ g \in {op[k].channel} \X op[k].perms
      BY <1>1, <2>7, GrantPreserves, GainsOnly
    <3>2. op[k].at = "grant" /\ k \in Live
      BY <1>1, <2>7 DEF Grant, IInv, BusyIsLive, Idle
    <3>3. CASE k # 0
      <4>1. {op[k].channel} \X (op[k].perms \cup {Manage}) \subseteq ever[k]
        BY <1>1, <3>2, <3>3 DEF IInv, SeenHeld, Seen
      <4>2. {g, <<g[1], Manage>>} \subseteq ever[k]
        BY <3>1, <4>1
      <4> QED BY <3>1, <3>2, <4>2
    <3> QED BY <3>1, <3>2, <3>3
  <2>8. ASSUME NEW k \in Slots, RevokeTarget(k) \/ Cascade(k) PROVE FALSE
    BY <1>1, <2>1, <2>8, RevokePreserves, CascadePreserves
  <2>9. ASSUME NEW k \in Slots, MakeChannel(k) \/ CheckHeld(k) PROVE FALSE
    BY <2>2, <2>9 DEF MakeChannel, CheckHeld
  <2>10. ASSUME NEW k \in Slots, NEW kind, NEW id, NEW c, NEW perms,
                Call(k, kind, id, c, perms) \/ KernelGrant(id, c, perms)
         PROVE  FALSE
    BY <2>2, <2>10 DEF Call, KernelGrant
  <2> QED BY <1>1, <2>3, <2>4, <2>5, <2>6, <2>7, <2>8, <2>9, <2>10 DEF Next
<1>2. IInv /\ [Next]_vars => [Step]_vars
  BY <1>1
<1> QED BY <1>2, Invariance, PTL DEF Spec, NoAmplification
=============================================================================
