-------------------------- MODULE Blocking_proofs --------------------------
(***************************************************************************)
(* Theorems about sleeping and waking, for every number of tasks, channels *)
(* and sleep entries.                                                      *)
(***************************************************************************)
EXTENDS Blocking, FiniteSetTheorems, TLAPS

-----------------------------------------------------------------------------
(* Least and greatest elements.                                            *)

(* Every set of naturals that is not empty has a least element.  The       *)
(* intervals below its elements are ordered by strict inclusion, which is  *)
(* well-founded, as the elements are by <.                                 *)
LEMMA LeastNatural ==
  ASSUME NEW S, S \subseteq Nat, S # {}
  PROVE  \E x \in S : \A y \in S : x <= y
<1> DEFINE Below == {0 .. x : x \in S}
<1>1. Below # {}
  OBVIOUS
<1>2. Below \subseteq FiniteSubsetsOf(Nat)
  <2>1. \A x \in S : IsFiniteSet(0 .. x)
    BY FS_Interval
  <2>2. \A x \in S : 0 .. x \in SUBSET Nat
    OBVIOUS
  <2> QED BY <2>1, <2>2 DEF FiniteSubsetsOf
<1>3. PICK B \in Below : \A C \in Below : <<C, B>> \notin StrictSubsetOrdering(Nat)
  <2> HIDE DEF Below
  <2> QED BY <1>1, <1>2, FS_StrictSubsetOrderingWellFounded, WFMin
<1>4. PICK x \in S : B = 0 .. x
  OBVIOUS
<1>5. ASSUME NEW y \in S, y < x PROVE FALSE
  <2>1. 0 .. y \in Below
    OBVIOUS
  <2>2. 0 .. y \subseteq 0 .. x
    BY <1>5
  <2>3. x \in 0 .. x /\ x \notin 0 .. y
    BY <1>5
  <2>4. 0 .. y \in SUBSET Nat /\ 0 .. x \in SUBSET Nat
    OBVIOUS
  <2>5. <<0 .. y, 0 .. x>> \in StrictSubsetOrdering(Nat)
    BY <2>2, <2>3, <2>4 DEF StrictSubsetOrdering
  <2> QED BY <2>1, <2>5, <1>3, <1>4
<1> QED BY <1>5

(* Min of a set of naturals is what its name says.                         *)
LEMMA MinIsLeast ==
  ASSUME NEW S, S \subseteq Nat, S # {}
  PROVE  Min(S) \in S /\ \A y \in S : Min(S) <= y
BY LeastNatural DEF Min

(* So is there a greatest element when the set has a bound.                *)
LEMMA GreatestNatural ==
  ASSUME NEW n \in Nat, NEW S, S \subseteq 0 .. n, S # {}
  PROVE  \E x \in S : \A y \in S : y <= x
<1> DEFINE D == {n - x : x \in S}
<1>1. D \subseteq Nat /\ D # {}
  OBVIOUS
<1>2. PICK d \in D : \A e \in D : d <= e
  <2> HIDE DEF D
  <2> QED BY <1>1, LeastNatural
<1>3. PICK x \in S : d = n - x
  OBVIOUS
<1>4. ASSUME NEW y \in S PROVE y <= x
  <2>1. n - y \in D
    OBVIOUS
  <2>2. n - x <= n - y
    BY <1>2, <1>3, <2>1
  <2> QED BY <2>2
<1> QED BY <1>4

-----------------------------------------------------------------------------
(* The operations of the task table.                                       *)
Tables == [Slots -> Task]

LEMMA SlotFacts ==
  /\ Slots \subseteq Nat /\ 0 \in Slots /\ NoSlot \in Nat /\ NoSlot \notin Slots
BY TableAssumption DEF Slots, NoSlot

LEMMA TopReadyExists ==
  ASSUME NEW T \in Tables, ReadySet(T) # {}
  PROVE  TopReady(T) # {}
<1> DEFINE P == {T[s].prio : s \in ReadySet(T)}
<1>1. P \subseteq 0 .. 255 /\ P # {}
  <2>1. \A s \in Slots : T[s].prio \in 0 .. 255
    BY DEF Tables, Task
  <2> QED BY <2>1 DEF ReadySet
<1>2. PICK p \in P : \A q \in P : q <= p
  <2> HIDE DEF P
  <2>1. 255 \in Nat
    OBVIOUS
  <2> QED BY <1>1, <2>1, GreatestNatural
<1>3. PICK s \in ReadySet(T) : T[s].prio = p
  OBVIOUS
<1>4. \A r \in ReadySet(T) : T[r].prio <= T[s].prio
  BY <1>2, <1>3
<1> QED BY <1>3, <1>4 DEF TopReady

(* find_next_ready finds a task whenever one is Ready; it is one of the    *)
(* highest priority and the first of those after the current index.        *)
LEMMA ScanPicks ==
  ASSUME NEW T \in Tables, NEW after \in Slots
  PROVE  /\ ReadySet(T) = {} => FindNextReady(T, after) = NoSlot
         /\ ReadySet(T) # {} =>
              /\ FindNextReady(T, after) \in TopReady(T)
              /\ \A r \in TopReady(T) :
                   ScanDistance(after, FindNextReady(T, after)) <= ScanDistance(after, r)
<1> SUFFICES ASSUME ReadySet(T) # {}
             PROVE  \E s \in TopReady(T) :
                      \A r \in TopReady(T) : ScanDistance(after, s) <= ScanDistance(after, r)
  BY DEF FindNextReady
<1> DEFINE D == {ScanDistance(after, s) : s \in TopReady(T)}
<1>1. TopReady(T) \subseteq Slots /\ TopReady(T) # {}
  BY TopReadyExists DEF TopReady, ReadySet
<1>2. D \subseteq Nat /\ D # {}
  BY <1>1, TableAssumption DEF ScanDistance, Slots
<1>3. PICK d \in D : \A e \in D : d <= e
  <2> HIDE DEF D
  <2> QED BY <1>2, LeastNatural
<1> QED BY <1>3

LEMMA ScanType ==
  ASSUME NEW T \in Tables, NEW after \in Slots, FindNextReady(T, after) # NoSlot
  PROVE  FindNextReady(T, after) \in Slots /\ T[FindNextReady(T, after)].st = "Ready"
BY ScanPicks DEF TopReady, ReadySet

-----------------------------------------------------------------------------
(* Every operation yields a table: it changes fields of tasks, to values   *)
(* those fields can have.                                                  *)
LEMMA FieldUpdates ==
  ASSUME NEW t \in Task, NEW c \in Chans \cup {Nil}
  PROVE  /\ [t EXCEPT !.st = "Running"] \in Task
         /\ [t EXCEPT !.st = "Ready"] \in Task
         /\ [t EXCEPT !.st = "Blocked", !.wait = c, !.token = FALSE] \in Task
         /\ [t EXCEPT !.st = "Ready", !.wait = Nil, !.token = TRUE] \in Task
         /\ [t EXCEPT !.st = "Ready", !.wait = Nil, !.token = FALSE] \in Task
         /\ [t EXCEPT !.token = FALSE] \in Task
<1>1. /\ [t EXCEPT !.st = "Running"] \in Task
      /\ [t EXCEPT !.st = "Ready"] \in Task
  BY DEF Task, TaskStates
<1>2. [t EXCEPT !.st = "Blocked", !.wait = c, !.token = FALSE] \in Task
  BY DEF Task, TaskStates
<1>3. [t EXCEPT !.st = "Ready", !.wait = Nil, !.token = TRUE] \in Task
  BY DEF Task, TaskStates
<1>4. [t EXCEPT !.st = "Ready", !.wait = Nil, !.token = FALSE] \in Task
  BY DEF Task, TaskStates
<1>5. [t EXCEPT !.token = FALSE] \in Task
  BY DEF Task
<1> QED BY <1>1, <1>2, <1>3, <1>4, <1>5

LEMMA NewTaskType ==
  ASSUME NEW id \in Nat, NEW stack \in Stacks \cup {0}, NEW prio \in 0 .. 255
  PROVE  NewTask(id, stack, prio) \in Task
<1>1. EmptySlot \in Task
  BY DEF EmptySlot, Task, TaskStates
<1>2. ASSUME NEW e \in Task
      PROVE  [e EXCEPT !.st = "Ready", !.id = id, !.stack = stack, !.prio = prio] \in Task
  BY DEF Task, TaskStates
<1> QED BY <1>1, <1>2 DEF NewTask

LEMMA TableUpdate ==
  ASSUME NEW T \in Tables, NEW s \in Slots, NEW t \in Task
  PROVE  [T EXCEPT ![s] = t] \in Tables
BY DEF Tables

LEMMA OperationTypes ==
  ASSUME NEW T \in Tables, NEW s \in Slots, NEW c \in Chans \cup {Nil}
  PROVE  /\ MarkRunning(T, s) \in Tables
         /\ MarkReady(T, s) \in Tables
         /\ MarkBlocked(T, s, c) \in Tables
         /\ WakeTask(T, s) \in Tables
         /\ WakeBlockedOn(T, c) \in Tables
         /\ TakeToken(T, s) \in Tables
<1>1. \A r \in Slots : T[r] \in Task
  BY DEF Tables
<1>2. MarkRunning(T, s) \in Tables
  BY <1>1, FieldUpdates, TableUpdate DEF MarkRunning
<1>3. MarkReady(T, s) \in Tables
  BY <1>1, FieldUpdates, TableUpdate DEF MarkReady
<1>4. MarkBlocked(T, s, c) \in Tables
  BY <1>1, FieldUpdates, TableUpdate DEF MarkBlocked
<1>5. WakeTask(T, s) \in Tables
  BY <1>1, FieldUpdates, TableUpdate DEF WakeTask
<1>6. WakeBlockedOn(T, c) \in Tables
  BY <1>1, FieldUpdates DEF WakeBlockedOn, Tables
<1>7. TakeToken(T, s) \in Tables
  BY <1>1, FieldUpdates, TableUpdate DEF TakeToken
<1> QED BY <1>2, <1>3, <1>4, <1>5, <1>6, <1>7

-----------------------------------------------------------------------------
(* The inductive invariant.                                                *)

(* EntriesOf(s) # {}, without the pairs.                                   *)
HasEntry(s) ==
  (\E i \in 1 .. SleepCap : main[i].slot = s) \/ (\E i \in 1 .. OvfCap : ovf[i].slot = s)

(* Only the thread that executes can have interrupts off: every switch     *)
(* leaves them on.                                                         *)
MaskedExecutes == \A s \in Slots : irq[s] = FALSE => s = current

(* A sleep is entered with interrupts off and stays so until schedule().   *)
SleepMasked == \A s \in Slots : pc[s] \in {"insert", "slblock"} => irq[s] = FALSE

(* ... so no tick comes between taking an entry and blocking.              *)
InsertedHasEntry == \A s \in Slots : pc[s] = "slblock" => HasEntry(s)

AsleepHasEntry ==
  \A s \in Slots : tasks[s].st = "Blocked" /\ tasks[s].wait = Sleep => HasEntry(s)

IInv == TypeOK /\ MaskedExecutes /\ SleepMasked /\ InsertedHasEntry /\ AsleepHasEntry

-----------------------------------------------------------------------------
LEMMA BlockingFacts ==
  /\ Slots \subseteq Nat /\ 0 \in Slots /\ NoSlot \notin Slots
  /\ SleepCap \in Nat \ {0} /\ OvfCap \in Nat \ {0} /\ MaxSleep \in Nat \ {0}
  /\ QueueCap \in Nat \ {0}
  /\ Sleep \in Chans /\ Nil # Sleep /\ Nil \notin Chans
  /\ Channels \subseteq Chans /\ Sleep \notin Channels /\ IrqChans \subseteq Channels
  /\ Sleepers \subseteq Slots /\ Display \in Slots \cup {NoSlot}
BY BlockingAssumption, TableAssumption, SlotFacts DEF Channels

LEMMA MaxOfTwo ==
  ASSUME NEW a \in Int, NEW b \in Int
  PROVE  Max({a, b}) = IF a >= b THEN a ELSE b
BY DEF Max

(* What a dispatch does to the table: it is one, and nobody becomes        *)
(* Blocked.                                                                *)
LEMMA DispatchEffect ==
  ASSUME NEW T \in Tables, current \in Slots, Dispatch(T)
  PROVE  /\ tasks' \in Tables /\ current' \in Slots
         /\ \A s \in Slots : tasks'[s].st = "Blocked" =>
              T[s].st = "Blocked" /\ tasks'[s].wait = T[s].wait
<1> DEFINE n == FindNextReady(T, current)
<1>1. CASE n \in {NoSlot, current}
  BY <1>1 DEF Dispatch
<1>2. CASE n \notin {NoSlot, current}
  <2>1. n \in Slots
    BY <1>2, ScanType
  <2>2. tasks' = MarkRunning(MarkReady(T, current), n) /\ current' = n
    BY <1>2 DEF Dispatch
  <2> HIDE DEF n
  <2>3. MarkReady(T, current) \in Tables
    BY BlockingFacts, OperationTypes
  <2>4. tasks' \in Tables
    BY <2>1, <2>2, <2>3, OperationTypes
  <2>5. \A s \in Slots : MarkReady(T, current)[s] = T[s]
                         \/ MarkReady(T, current)[s].st = "Ready"
    BY DEF MarkReady, Tables, Task
  <2>6. \A s \in Slots : tasks'[s] = MarkReady(T, current)[s] \/ tasks'[s].st = "Running"
    BY <2>1, <2>2, <2>3 DEF MarkRunning, Tables, Task
  <2>7. ASSUME NEW s \in Slots, tasks'[s].st = "Blocked"
        PROVE  T[s].st = "Blocked" /\ tasks'[s].wait = T[s].wait
    <3>1. tasks'[s] = MarkReady(T, current)[s]
      BY <2>6, <2>7
    <3>2. MarkReady(T, current)[s] = T[s]
      BY <2>5, <2>7, <3>1
    <3> QED BY <2>7, <3>1, <3>2
  <2> QED BY <2>1, <2>2, <2>4, <2>7
<1> QED BY <1>1, <1>2

-----------------------------------------------------------------------------
(* The sleep tables.                                                       *)
Rows(n) == [1 .. n -> SleepEntries \cup {NoSleep}]

LEMMA PutEffect ==
  ASSUME NEW m \in Nat, NEW tbl \in Rows(m), FreeEntries(tbl) # {},
         current \in Slots, NEW k \in 1 .. MaxSleep
  PROVE  /\ Put(tbl, k) \in Rows(m)
         /\ \E i \in 1 .. m : Put(tbl, k)[i].slot = current
         /\ \A i \in 1 .. m : tbl[i].slot \in Slots => Put(tbl, k)[i] = tbl[i]
<1> DEFINE j == Min(FreeEntries(tbl))
           e == [slot |-> current, left |-> k]
<1>1. FreeEntries(tbl) \subseteq 1 .. m
  BY DEF FreeEntries, Rows
<1>2. j \in 1 .. m /\ tbl[j] = NoSleep
  <2>1. j \in FreeEntries(tbl)
    BY <1>1, MinIsLeast
  <2> QED BY <1>1, <2>1 DEF FreeEntries
<1>3. e \in SleepEntries
  BY DEF SleepEntries
<1>4. Put(tbl, k) = [tbl EXCEPT ![j] = e]
  BY DEF Put
<1>5. e.slot = current /\ NoSleep.slot = NoSlot
  BY DEF NoSleep
<1> HIDE DEF j, e
<1>6. Put(tbl, k) \in Rows(m) /\ Put(tbl, k)[j] = e
      /\ \A i \in 1 .. m : i # j => Put(tbl, k)[i] = tbl[i]
  BY <1>2, <1>3, <1>4 DEF Rows
<1> QED BY <1>2, <1>5, <1>6, BlockingFacts

LEMMA AdvanceEffect ==
  ASSUME NEW m \in Nat, NEW tbl \in Rows(m)
  PROVE  /\ Advance(tbl) \in Rows(m)
         /\ Due(tbl) \subseteq Slots
         /\ \A i \in 1 .. m : tbl[i].slot \in Slots \ Due(tbl)
                                => Advance(tbl)[i].slot = tbl[i].slot
<1>1. ASSUME NEW i \in 1 .. m, tbl[i] \in SleepEntries
      PROVE  /\ tbl[i].slot \in Slots /\ tbl[i].left \in 1 .. MaxSleep /\ tbl[i] # NoSleep
             /\ tbl[i].left > 1 => [tbl[i] EXCEPT !.left = @ - 1] \in SleepEntries
             /\ [tbl[i] EXCEPT !.left = @ - 1].slot = tbl[i].slot
  BY <1>1, BlockingFacts DEF SleepEntries, NoSleep
<1>2. NoSleep.left = 0 /\ NoSleep.slot = NoSlot
  BY DEF NoSleep
<1>3. DOMAIN tbl = 1 .. m /\ \A i \in 1 .. m : tbl[i] \in SleepEntries \/ tbl[i] = NoSleep
  BY DEF Rows
<1>4. Advance(tbl) \in Rows(m)
  BY <1>1, <1>2, <1>3 DEF Advance, Rows
<1>5. Due(tbl) \subseteq Slots
  BY <1>1, <1>3 DEF Due
<1>6. ASSUME NEW i \in 1 .. m, tbl[i].slot \in Slots \ Due(tbl)
      PROVE  Advance(tbl)[i].slot = tbl[i].slot
  <2>1. tbl[i] \in SleepEntries
    BY <1>2, <1>3, <1>6, BlockingFacts
  <2>2. tbl[i].left # 1
    BY <1>1, <1>3, <1>6, <2>1 DEF Due
  <2>3. tbl[i].left \in 1 .. MaxSleep /\ [tbl[i] EXCEPT !.left = @ - 1].slot = tbl[i].slot
    BY <1>1, <2>1
  <2>4. ~ (tbl[i].left <= 1)
    BY <2>2, <2>3, BlockingFacts
  <2>5. Advance(tbl)[i] = [tbl[i] EXCEPT !.left = @ - 1]
    BY <1>3, <2>4 DEF Advance
  <2> QED BY <2>3, <2>5
<1> QED BY <1>4, <1>5, <1>6

-----------------------------------------------------------------------------
LEMMA InitInv == Init => IInv
<1> SUFFICES ASSUME Init PROVE IInv
  OBVIOUS
<1> USE BlockingFacts
<1>1. tasks \in Tables
  <2>1. ASSUME NEW s \in Slots
        PROVE  [NewTask(s + 1, 0, IF s \in Urgent THEN 3 ELSE 0) EXCEPT
                  !.st = IF s = 0 THEN "Running" ELSE "Ready"] \in Task
    <3> DEFINE t == NewTask(s + 1, 0, IF s \in Urgent THEN 3 ELSE 0)
    <3>1. s + 1 \in Nat /\ (IF s \in Urgent THEN 3 ELSE 0) \in 0 .. 255
      OBVIOUS
    <3>2. t \in Task
      BY <3>1, NewTaskType
    <3> HIDE DEF t
    <3>3. [t EXCEPT !.st = "Running"] \in Task /\ [t EXCEPT !.st = "Ready"] \in Task
      BY <3>2, FieldUpdates
    <3>4. CASE s = 0
      BY <3>3, <3>4 DEF t
    <3>5. CASE s # 0
      BY <3>3, <3>5 DEF t
    <3> QED BY <3>4, <3>5
  <2> QED BY <2>1 DEF Init, Tables
<1>2. main \in Rows(SleepCap) /\ ovf \in Rows(OvfCap)
  BY DEF Init, Rows
<1>3. TypeOK
  BY <1>1, <1>2 DEF Init, TypeOK, Tables, Rows, PCs
<1>4. MaskedExecutes /\ SleepMasked /\ InsertedHasEntry
  BY DEF Init, MaskedExecutes, SleepMasked, InsertedHasEntry
<1>5. AsleepHasEntry
  BY DEF Init, AsleepHasEntry, NewTask, EmptySlot
<1> QED BY <1>3, <1>4, <1>5 DEF IInv

(* What the steps have in common: the invariant is about six variables.    *)
LEMMA HasEntrySame ==
  ASSUME UNCHANGED <<main, ovf>>, NEW s
  PROVE  HasEntry(s)' <=> HasEntry(s)
BY DEF HasEntry

(* schedule(), called from anywhere but between a sleep's entry and its    *)
(* mark_blocked.                                                           *)
LEMMA SchedulePreserves ==
  ASSUME IInv, NEW p \in PCs \ {"insert", "slblock"}, Schedule(p)
  PROVE  IInv'
<1> USE DEF IInv
<1>1. tasks \in Tables /\ current \in Slots
  BY DEF TypeOK, Tables
<1>2. /\ tasks' \in Tables /\ current' \in Slots
      /\ \A s \in Slots : tasks'[s].st = "Blocked" =>
           tasks[s].st = "Blocked" /\ tasks'[s].wait = tasks[s].wait
  BY <1>1, DispatchEffect DEF Schedule
<1>3. /\ pc' = [pc EXCEPT ![current] = p]
      /\ irq' = [irq EXCEPT ![current] = TRUE]
      /\ UNCHANGED <<arg, queue, left, main, ovf>>
  BY DEF Schedule, SameSleeps, Goto
<1>4. TypeOK'
  BY <1>1, <1>2, <1>3 DEF TypeOK, Tables
<1>5. \A s \in Slots : irq'[s] # FALSE
  BY <1>1, <1>3 DEF TypeOK, MaskedExecutes
<1>6. \A s \in Slots : pc'[s] \notin {"insert", "slblock"}
  BY <1>1, <1>3 DEF TypeOK, MaskedExecutes, SleepMasked
<1>7. AsleepHasEntry'
  BY <1>2, <1>3, HasEntrySame DEF AsleepHasEntry
<1> QED BY <1>4, <1>5, <1>6, <1>7 DEF MaskedExecutes, SleepMasked, InsertedHasEntry

LEMMA StartSleepPreserves ==
  ASSUME Sleepers \subseteq Users, IInv, NEW n \in 1 .. MaxSleep, StartSleep(n)
  PROVE  IInv'
<1> USE BlockingFacts DEF IInv
<1>1. /\ pc' = [pc EXCEPT ![current] = "insert"] /\ irq' = [irq EXCEPT ![current] = FALSE]
      /\ UNCHANGED <<tasks, current, arg, queue, main, ovf>>
      /\ left' = [left EXCEPT ![current] = n]
  BY DEF StartSleep, Enter, Goto
<1>2. TypeOK'
  BY <1>1 DEF TypeOK, PCs
<1>3. MaskedExecutes' /\ SleepMasked'
  BY <1>1 DEF TypeOK, MaskedExecutes, SleepMasked
<1>4. InsertedHasEntry' /\ AsleepHasEntry'
  BY <1>1, HasEntrySame DEF TypeOK, InsertedHasEntry, AsleepHasEntry
<1> QED BY <1>2, <1>3, <1>4

(* Taking an entry of a sleep table leaves the others where they are.      *)
LEMMA TakeEntryEffect ==
  ASSUME TypeOK, NEW k \in 1 .. MaxSleep, TakeEntry(k), UNCHANGED current
  PROVE  /\ main' \in Rows(SleepCap) /\ ovf' \in Rows(OvfCap)
         /\ \A s \in Slots : HasEntry(s) => HasEntry(s)'
         /\ \/ pc' = [pc EXCEPT ![current] = "slblock"] /\ HasEntry(current)'
            \/ pc' = [pc EXCEPT ![current] = "slsched"]
<1> USE BlockingFacts DEF Goto
<1>1. main \in Rows(SleepCap) /\ ovf \in Rows(OvfCap) /\ current \in Slots
  BY DEF TypeOK, Rows
<1>2. CASE FreeEntries(main) # {}
  <2>1. main' = Put(main, k) /\ ovf' = ovf /\ pc' = [pc EXCEPT ![current] = "slblock"]
    BY <1>2 DEF TakeEntry
  <2>2. /\ main' \in Rows(SleepCap)
        /\ \E i \in 1 .. SleepCap : main'[i].slot = current
        /\ \A i \in 1 .. SleepCap : main[i].slot \in Slots => main'[i] = main[i]
    BY <1>1, <1>2, <2>1, PutEffect
  <2> QED BY <1>1, <2>1, <2>2 DEF HasEntry
<1>3. CASE FreeEntries(main) = {} /\ FreeEntries(ovf) # {}
  <2>1. ovf' = Put(ovf, k) /\ main' = main /\ pc' = [pc EXCEPT ![current] = "slblock"]
    BY <1>3 DEF TakeEntry
  <2>2. /\ ovf' \in Rows(OvfCap)
        /\ \E i \in 1 .. OvfCap : ovf'[i].slot = current
        /\ \A i \in 1 .. OvfCap : ovf[i].slot \in Slots => ovf'[i] = ovf[i]
    BY <1>1, <1>3, <2>1, PutEffect
  <2> QED BY <1>1, <2>1, <2>2 DEF HasEntry
<1>4. CASE FreeEntries(main) = {} /\ FreeEntries(ovf) = {}
  BY <1>1, <1>4 DEF TakeEntry, HasEntry
<1> QED BY <1>2, <1>3, <1>4

LEMMA InsertSleepPreserves ==
  ASSUME IInv, InsertSleep
  PROVE  IInv'
<1> USE BlockingFacts DEF IInv
<1>1. /\ pc[current] = "insert" /\ TakeEntry(Max({left[current], 1}))
      /\ UNCHANGED <<tasks, current, irq, arg, left, queue>>
  BY DEF InsertSleep, At
<1>2. left[current] \in 0 .. MaxSleep /\ current \in Slots
  BY DEF TypeOK
<1>3. Max({left[current], 1}) \in 1 .. MaxSleep
  BY <1>2, MaxOfTwo
<1>4. /\ main' \in Rows(SleepCap) /\ ovf' \in Rows(OvfCap)
      /\ \A s \in Slots : HasEntry(s) => HasEntry(s)'
      /\ \/ pc' = [pc EXCEPT ![current] = "slblock"] /\ HasEntry(current)'
         \/ pc' = [pc EXCEPT ![current] = "slsched"]
  BY <1>1, <1>3, TakeEntryEffect
<1>5. TypeOK'
  BY <1>1, <1>4 DEF TypeOK, PCs, Rows
<1>6. MaskedExecutes' /\ SleepMasked'
  BY <1>1, <1>2, <1>4 DEF TypeOK, MaskedExecutes, SleepMasked
<1>7. InsertedHasEntry'
  BY <1>1, <1>2, <1>4 DEF TypeOK, InsertedHasEntry
<1>8. AsleepHasEntry'
  BY <1>1, <1>4 DEF AsleepHasEntry
<1> QED BY <1>5, <1>6, <1>7, <1>8

(* mark_blocked, seen from outside.                                        *)
LEMMA BlockEffect ==
  ASSUME NEW T \in Tables, NEW s \in Slots, NEW c \in Chans \cup {Nil}, NEW r \in Slots,
         MarkBlocked(T, s, c)[r].st = "Blocked"
  PROVE  \/ T[r].st = "Blocked" /\ MarkBlocked(T, s, c)[r].wait = T[r].wait
         \/ r = s /\ MarkBlocked(T, s, c)[r].wait = c
BY DEF MarkBlocked, Tables, Task

LEMMA BlockSleepPreserves ==
  ASSUME IInv, BlockSleep
  PROVE  IInv'
<1> USE BlockingFacts DEF IInv
<1>1. /\ pc[current] = "slblock" /\ tasks' = MarkBlocked(tasks, current, Sleep)
      /\ \E p \in {"slsched", "slept"} : pc' = [pc EXCEPT ![current] = p]
      /\ UNCHANGED <<current, irq, arg, queue, left, main, ovf>>
  BY DEF BlockSleep, At, Goto, SameSleeps
<1>2. tasks \in Tables /\ current \in Slots
  BY DEF TypeOK, Tables
<1>3. tasks' \in Tables
  BY <1>1, <1>2, OperationTypes
<1>4. TypeOK'
  BY <1>1, <1>3 DEF TypeOK, PCs, Tables
<1>5. MaskedExecutes' /\ SleepMasked'
  BY <1>1, <1>2 DEF TypeOK, MaskedExecutes, SleepMasked
<1>6. InsertedHasEntry'
  BY <1>1, <1>2, HasEntrySame DEF TypeOK, InsertedHasEntry
<1>7. HasEntry(current)
  BY <1>1, <1>2 DEF InsertedHasEntry
<1>8. ASSUME NEW s \in Slots, tasks'[s].st = "Blocked"
      PROVE  \/ tasks[s].st = "Blocked" /\ tasks'[s].wait = tasks[s].wait
             \/ s = current
  <2>1. Sleep \in Chans \cup {Nil} /\ MarkBlocked(tasks, current, Sleep)[s].st = "Blocked"
    BY <1>1, <1>8
  <2>2. \/ tasks[s].st = "Blocked"
           /\ MarkBlocked(tasks, current, Sleep)[s].wait = tasks[s].wait
        \/ s = current
    BY <1>2, <2>1, BlockEffect
  <2> QED BY <1>1, <2>2
<1>9. AsleepHasEntry'
  BY <1>1, <1>7, <1>8, HasEntrySame DEF AsleepHasEntry
<1> QED BY <1>4, <1>5, <1>6, <1>9

(* A step of a thread in another call: it puts nobody to sleep, leaves the *)
(* sleep tables alone, and starts or continues no sleep; interrupts stay   *)
(* as they are or are set for the executing thread.                        *)
LEMMA OtherPreserves ==
  ASSUME IInv, TypeOK', UNCHANGED <<current, main, ovf>>,
         NEW p \in PCs \ {"insert", "slblock"},
         pc' = [pc EXCEPT ![current] = p],
         NEW b \in BOOLEAN, irq' = [irq EXCEPT ![current] = b],
         \A s \in Slots : tasks'[s].st = "Blocked" /\ tasks'[s].wait = Sleep =>
                             tasks[s].st = "Blocked" /\ tasks[s].wait = Sleep
  PROVE  IInv'
<1> USE DEF IInv
<1>1. current \in Slots
  BY DEF TypeOK
<1>2. MaskedExecutes' /\ SleepMasked'
  BY <1>1 DEF TypeOK, MaskedExecutes, SleepMasked
<1>3. InsertedHasEntry' /\ AsleepHasEntry'
  BY <1>1, HasEntrySame DEF TypeOK, InsertedHasEntry, AsleepHasEntry
<1> QED BY <1>2, <1>3

(* The wake-ups block nobody, and leave the other tasks as they are.       *)
LEMMA WakeEffect ==
  ASSUME NEW T \in Tables, NEW s \in Slots, NEW c \in Chans \cup {Nil}, NEW r \in Slots
  PROVE  /\ WakeTask(T, s)[r] = T[r] \/ WakeTask(T, s)[r].st = "Ready"
         /\ WakeTask(T, s)[s].st # "Blocked"
         /\ WakeBlockedOn(T, c)[r] = T[r] \/ WakeBlockedOn(T, c)[r].st = "Ready"
         /\ TakeToken(T, s)[r].st = T[r].st /\ TakeToken(T, s)[r].wait = T[r].wait
<1>1. WakeTask(T, s)[r] = T[r] \/ WakeTask(T, s)[r].st = "Ready"
  BY DEF WakeTask, Tables, Task
<1>2. WakeTask(T, s)[s].st # "Blocked"
  BY DEF WakeTask, Tables, Task
<1>3. WakeBlockedOn(T, c)[r] = T[r] \/ WakeBlockedOn(T, c)[r].st = "Ready"
  BY DEF WakeBlockedOn, Tables, Task
<1>4. TakeToken(T, s)[r].st = T[r].st /\ TakeToken(T, s)[r].wait = T[r].wait
  BY DEF TakeToken, Tables, Task
<1> QED BY <1>1, <1>2, <1>3, <1>4

LEMMA EndSleepPreserves ==
  ASSUME IInv, EndSleep
  PROVE  IInv'
<1>1. /\ pc' = [pc EXCEPT ![current] = "run"] /\ irq' = [irq EXCEPT ![current] = TRUE]
      /\ UNCHANGED <<tasks, current, arg, queue, left, main, ovf>>
  BY DEF EndSleep, Return, Goto, SameSleeps
<1>2. TypeOK'
  BY <1>1 DEF IInv, TypeOK, PCs
<1>3. "run" \in PCs \ {"insert", "slblock"}
  BY DEF PCs
<1> QED BY <1>1, <1>2, <1>3, OtherPreserves

LEMMA StartRecvPreserves ==
  ASSUME IInv, NEW c \in Channels, StartRecv(c)
  PROVE  IInv'
<1> DEFINE b == current \notin Users
<1>1. /\ pc' = [pc EXCEPT ![current] = "recv"] /\ irq' = [irq EXCEPT ![current] = b]
      /\ arg' = [arg EXCEPT ![current] = c]
      /\ UNCHANGED <<tasks, current, queue, left, main, ovf>>
  BY DEF StartRecv, Enter, Goto, SameSleeps
<1>2. b \in BOOLEAN
  OBVIOUS
<1> HIDE DEF b
<1>3. TypeOK'
  BY <1>1, <1>2 DEF IInv, TypeOK, PCs
<1>4. "recv" \in PCs \ {"insert", "slblock"}
  BY DEF PCs
<1> QED BY <1>1, <1>2, <1>3, <1>4, OtherPreserves

LEMMA SendPreserves ==
  ASSUME IInv, NEW c \in Channels, Send(c)
  PROVE  IInv'
<1> DEFINE b == current \notin Users
<1>1. /\ pc' = [pc EXCEPT ![current] = "wake"] /\ irq' = [irq EXCEPT ![current] = b]
      /\ arg' = [arg EXCEPT ![current] = c]
      /\ queue[c] < QueueCap /\ queue' = [queue EXCEPT ![c] = @ + 1]
      /\ UNCHANGED <<tasks, current, left, main, ovf>>
  BY DEF Send, Enter, Goto, SameSleeps
<1>2. b \in BOOLEAN
  OBVIOUS
<1> HIDE DEF b
<1>3. TypeOK'
  BY <1>1, <1>2, BlockingFacts DEF IInv, TypeOK, PCs
<1>4. "wake" \in PCs \ {"insert", "slblock"}
  BY DEF PCs
<1> QED BY <1>1, <1>2, <1>3, <1>4, OtherPreserves

(* A step that leaves the interrupt flag as it is.                         *)
LEMMA SameFlag ==
  ASSUME IInv
  PROVE  irq = [irq EXCEPT ![current] = irq[current]] /\ irq[current] \in BOOLEAN
BY DEF IInv, TypeOK

LEMMA TryRecvPreserves ==
  ASSUME IInv, TryRecv
  PROVE  IInv'
<1> USE BlockingFacts DEF Goto, SameSleeps
<1>1. UNCHANGED <<tasks, current, arg, left, main, ovf>>
  BY DEF TryRecv
<1>2. CASE queue[arg[current]] > 0
  <2>1. /\ pc' = [pc EXCEPT ![current] = "run"] /\ irq' = [irq EXCEPT ![current] = TRUE]
        /\ queue' = [queue EXCEPT ![arg[current]] = @ - 1]
    BY <1>2 DEF TryRecv, Return
  <2>4. queue' \in [Channels -> 0 .. QueueCap]
    <3>1. queue \in [Channels -> 0 .. QueueCap]
      BY DEF IInv, TypeOK
    <3>2. CASE arg[current] \in Channels
      BY <1>2, <2>1, <3>1, <3>2
    <3>3. CASE arg[current] \notin Channels
      BY <2>1, <3>1, <3>3
    <3> QED BY <3>2, <3>3
  <2>2. TypeOK'
    BY <1>1, <2>1, <2>4 DEF IInv, TypeOK, PCs
  <2>3. "run" \in PCs \ {"insert", "slblock"}
    BY DEF PCs
  <2> QED BY <1>1, <2>1, <2>2, <2>3, OtherPreserves
<1>3. CASE ~ (queue[arg[current]] > 0)
  <2>1. /\ pc' = [pc EXCEPT ![current] = "rblock"] /\ UNCHANGED <<queue, irq>>
    BY <1>3 DEF TryRecv
  <2>2. TypeOK'
    BY <1>1, <2>1 DEF IInv, TypeOK, PCs
  <2>3. "rblock" \in PCs \ {"insert", "slblock"}
    BY DEF PCs
  <2> QED BY <1>1, <2>1, <2>2, <2>3, SameFlag, OtherPreserves
<1> QED BY <1>2, <1>3

LEMMA BlockRecvPreserves ==
  ASSUME IInv, BlockRecv
  PROVE  IInv'
<1> USE BlockingFacts
<1>1. /\ tasks' = MarkBlocked(tasks, current, arg[current])
      /\ UNCHANGED <<current, arg, queue, left, main, ovf>>
      /\ \E p \in {"rsched", "run"} : pc' = [pc EXCEPT ![current] = p]
      /\ irq' \in {irq, [irq EXCEPT ![current] = TRUE]}
  BY DEF BlockRecv, Return, Goto, SameSleeps
<1>2. tasks \in Tables /\ current \in Slots /\ arg[current] \in Channels \cup {Nil}
  BY DEF IInv, TypeOK, Tables
<1>3. tasks' \in Tables /\ arg[current] # Sleep
  BY <1>1, <1>2, OperationTypes
<1>4. PICK p \in {"rsched", "run"} : pc' = [pc EXCEPT ![current] = p]
  BY <1>1
<1>5. p \in PCs \ {"insert", "slblock"}
  BY DEF PCs
<1>6. PICK b \in BOOLEAN : irq' = [irq EXCEPT ![current] = b]
  BY <1>1, SameFlag
<1>7. TypeOK'
  BY <1>1, <1>3, <1>4, <1>5, <1>6 DEF IInv, TypeOK, Tables
<1>8. ASSUME NEW s \in Slots, tasks'[s].st = "Blocked", tasks'[s].wait = Sleep
      PROVE  tasks[s].st = "Blocked" /\ tasks[s].wait = Sleep
  <2>1. arg[current] \in Chans \cup {Nil}
    BY <1>2
  <2>2. \/ tasks[s].st = "Blocked" /\ tasks'[s].wait = tasks[s].wait
        \/ tasks'[s].wait = arg[current]
    BY <1>1, <1>2, <1>8, <2>1, BlockEffect
  <2> QED BY <1>3, <1>8, <2>2
<1> QED BY <1>1, <1>4, <1>5, <1>6, <1>7, <1>8, OtherPreserves

LEMMA EndRecvPreserves ==
  ASSUME IInv, EndRecv
  PROVE  IInv'
<1> USE BlockingFacts
<1>1. /\ tasks' \in {tasks, TakeToken(tasks, current)}
      /\ UNCHANGED <<current, arg, queue, left, main, ovf>>
      /\ \E p \in {"recv", "run"} : pc' = [pc EXCEPT ![current] = p]
      /\ irq' \in {irq, [irq EXCEPT ![current] = TRUE]}
  BY DEF EndRecv, Return, Goto, SameSleeps
<1>2. tasks \in Tables /\ current \in Slots
  BY DEF IInv, TypeOK, Tables
<1>3. tasks' \in Tables
  BY <1>1, <1>2, OperationTypes
<1>4. PICK p \in {"recv", "run"} : pc' = [pc EXCEPT ![current] = p]
  BY <1>1
<1>5. p \in PCs \ {"insert", "slblock"}
  BY DEF PCs
<1>6. PICK b \in BOOLEAN : irq' = [irq EXCEPT ![current] = b]
  BY <1>1, SameFlag
<1>7. TypeOK'
  BY <1>1, <1>3, <1>4, <1>5, <1>6 DEF IInv, TypeOK, Tables
<1>8. \A s \in Slots : tasks'[s].st = tasks[s].st /\ tasks'[s].wait = tasks[s].wait
  BY <1>1, <1>2, WakeEffect
<1> QED BY <1>1, <1>4, <1>5, <1>6, <1>7, <1>8, OtherPreserves

LEMMA WakePreserves ==
  ASSUME IInv, Wake
  PROVE  IInv'
<1> USE BlockingFacts
<1>1. /\ tasks' = WakeBlockedOn(tasks, arg[current])
      /\ UNCHANGED <<current, arg, queue, left, main, ovf>>
      /\ pc' = [pc EXCEPT ![current] = "run"] /\ irq' = [irq EXCEPT ![current] = TRUE]
  BY DEF Wake, Return, Goto, SameSleeps
<1>2. tasks \in Tables /\ current \in Slots /\ arg[current] \in Chans \cup {Nil}
  BY DEF IInv, TypeOK, Tables
<1>3. tasks' \in Tables
  BY <1>1, <1>2, OperationTypes
<1>4. TypeOK'
  BY <1>1, <1>3 DEF IInv, TypeOK, PCs, Tables
<1>5. \A s \in Slots : tasks'[s] = tasks[s] \/ tasks'[s].st = "Ready"
  BY <1>1, <1>2, WakeEffect
<1>6. "run" \in PCs \ {"insert", "slblock"}
  BY DEF PCs
<1> QED BY <1>1, <1>4, <1>5, <1>6, OtherPreserves

(* An interrupt that wakes tasks and does nothing else to the invariant's  *)
(* variables.                                                              *)
LEMMA InterruptPreserves ==
  ASSUME IInv, tasks' \in Tables, queue' \in [Channels -> 0 .. QueueCap],
         \A s \in Slots : tasks'[s] = tasks[s] \/ tasks'[s].st # "Blocked",
         UNCHANGED <<current, pc, irq, arg, left, main, ovf>>
  PROVE  IInv'
<1>1. TypeOK'
  BY DEF IInv, TypeOK, Tables
<1>2. MaskedExecutes' /\ SleepMasked'
  BY DEF IInv, MaskedExecutes, SleepMasked
<1>3. InsertedHasEntry' /\ AsleepHasEntry'
  BY HasEntrySame DEF IInv, InsertedHasEntry, AsleepHasEntry
<1> QED BY <1>1, <1>2, <1>3 DEF IInv

LEMMA FrameTickPreserves ==
  ASSUME IInv, NEW c \in IrqChans, FrameTick(c)
  PROVE  IInv'
<1> USE BlockingFacts
<1>1. tasks \in Tables /\ 0 \in Slots /\ c \in Channels
  BY DEF IInv, TypeOK, Tables
<1>2. tasks' = WakeBlockedOn(tasks, c) /\ c \in Chans \cup {Nil}
  BY <1>1 DEF FrameTick
<1>3. tasks' \in Tables
  BY <1>1, <1>2, OperationTypes
<1>6. \A s \in Slots : tasks'[s] = tasks[s] \/ tasks'[s].st = "Ready"
  BY <1>1, <1>2, WakeEffect
<1>4. queue' \in [Channels -> 0 .. QueueCap]
  BY <1>1 DEF FrameTick, IInv, TypeOK
<1>5. UNCHANGED <<current, pc, irq, arg, left, main, ovf>>
  BY DEF FrameTick, SameSleeps
<1> QED BY <1>3, <1>4, <1>5, <1>6, InterruptPreserves

LEMMA WakeDisplayPreserves ==
  ASSUME IInv, WakeDisplay
  PROVE  IInv'
<1> USE BlockingFacts
<1>1. tasks \in Tables /\ Display \in Slots /\ Nil \in Chans \cup {Nil}
  BY DEF IInv, TypeOK, Tables, WakeDisplay
<1>2. tasks' = WakeTask(tasks, Display)
  BY DEF WakeDisplay
<1>3. tasks' \in Tables
  BY <1>1, <1>2, OperationTypes
<1>6. \A s \in Slots : tasks'[s] = tasks[s] \/ tasks'[s].st = "Ready"
  BY <1>1, <1>2, WakeEffect
<1>4. queue' \in [Channels -> 0 .. QueueCap]
  BY DEF WakeDisplay, IInv, TypeOK
<1>5. UNCHANGED <<current, pc, irq, arg, left, main, ovf>>
  BY DEF WakeDisplay, SameSleeps
<1> QED BY <1>3, <1>4, <1>5, <1>6, InterruptPreserves

(* The timer interrupt wakes exactly the tasks whose entries it takes away. *)
LEMMA WakeAllEffect ==
  ASSUME NEW T \in Tables, NEW D
  PROVE  /\ WakeAll(T, D) \in Tables
         /\ \A s \in Slots : WakeAll(T, D)[s].st = "Blocked" =>
              s \notin D /\ WakeAll(T, D)[s] = T[s]
<1>1. ASSUME NEW s \in Slots
      PROVE  WakeTask(T, s)[s] \in Task /\ T[s] \in Task /\ WakeTask(T, s)[s].st # "Blocked"
  <2>1. Nil \in Chans \cup {Nil}
    OBVIOUS
  <2>2. WakeTask(T, s) \in Tables
    BY <2>1, OperationTypes
  <2>3. WakeTask(T, s)[s].st # "Blocked"
    BY <2>1, WakeEffect
  <2> QED BY <2>2, <2>3 DEF Tables
<1>2. WakeAll(T, D) \in Tables
  BY <1>1 DEF WakeAll, Tables
<1>3. ASSUME NEW s \in Slots, WakeAll(T, D)[s].st = "Blocked"
      PROVE  s \notin D /\ WakeAll(T, D)[s] = T[s]
  BY <1>1, <1>3 DEF WakeAll
<1> QED BY <1>2, <1>3

LEMMA TickPreserves ==
  ASSUME IInv, NEW sliceEnds \in BOOLEAN, Tick(sliceEnds)
  PROVE  IInv'
<1> USE BlockingFacts
<1> DEFINE D == Due(main) \cup Due(ovf)
           T == WakeAll(tasks, D)
<1>1. /\ irq[current] /\ main' = Advance(main) /\ ovf' = Advance(ovf)
      /\ left' = [s \in Slots |-> Max({left[s] - 1, 0})]
      /\ Dispatch(T) \/ (tasks' = T /\ current' = current)
      /\ UNCHANGED <<pc, irq, arg, queue>>
  BY DEF Tick
<1>2. /\ tasks \in Tables /\ current \in Slots
      /\ main \in Rows(SleepCap) /\ ovf \in Rows(OvfCap)
  BY DEF IInv, TypeOK, Tables, Rows
<1>3. /\ T \in Tables
      /\ \A s \in Slots : T[s].st = "Blocked" => s \notin D /\ T[s] = tasks[s]
  BY <1>2, WakeAllEffect
<1>4. /\ tasks' \in Tables /\ current' \in Slots
      /\ \A s \in Slots : tasks'[s].st = "Blocked" =>
           T[s].st = "Blocked" /\ tasks'[s].wait = T[s].wait
  <2> HIDE DEF T
  <2>1. CASE Dispatch(T)
    BY <1>2, <1>3, <2>1, DispatchEffect
  <2>2. CASE tasks' = T /\ current' = current
    BY <1>2, <1>3, <2>2
  <2> QED BY <1>1, <2>1, <2>2
<1>5. /\ main' \in Rows(SleepCap) /\ ovf' \in Rows(OvfCap)
      /\ \A s \in Slots \ D : HasEntry(s) => HasEntry(s)'
  <2>1. /\ main' \in Rows(SleepCap)
        /\ \A i \in 1 .. SleepCap : main[i].slot \in Slots \ Due(main)
                                         => main'[i].slot = main[i].slot
    BY <1>1, <1>2, AdvanceEffect
  <2>2. /\ ovf' \in Rows(OvfCap)
        /\ \A i \in 1 .. OvfCap : ovf[i].slot \in Slots \ Due(ovf)
                                        => ovf'[i].slot = ovf[i].slot
    BY <1>1, <1>2, AdvanceEffect
  <2> QED BY <2>1, <2>2 DEF HasEntry
<1>6. left' \in [Slots -> 0 .. MaxSleep]
  <2>1. ASSUME NEW s \in Slots
        PROVE  Max({left[s] - 1, 0}) \in 0 .. MaxSleep
    <3>1. left[s] \in 0 .. MaxSleep
      BY DEF IInv, TypeOK
    <3> QED BY <3>1, MaxOfTwo
  <2> QED BY <1>1, <2>1
<1> HIDE DEF T, D
<1>7. TypeOK'
  BY <1>1, <1>4, <1>5, <1>6 DEF IInv, TypeOK, Tables, Rows
<1>8. \A s \in Slots : irq[s] # FALSE
  BY <1>1 DEF IInv, TypeOK, MaskedExecutes
<1>9. MaskedExecutes' /\ SleepMasked' /\ InsertedHasEntry'
  BY <1>1, <1>8 DEF IInv, MaskedExecutes, SleepMasked, InsertedHasEntry
<1>10. AsleepHasEntry'
  BY <1>3, <1>4, <1>5 DEF IInv, AsleepHasEntry
<1> QED BY <1>7, <1>9, <1>10 DEF IInv

-----------------------------------------------------------------------------
(* The theorems, for a system in which only user tasks sleep.  A kernel    *)
(* task sleeps with interrupts on, and a tick between its taking an entry  *)
(* and its mark_blocked leaves it asleep without one: the assumption is    *)
(* needed, and the code does not enforce it.                               *)
LEMMA NextPreserves ==
  ASSUME Sleepers \subseteq Users, IInv, [Next]_vars
  PROVE  IInv'
<1> USE DEF PCs
<1>1. CASE Yield
  BY <1>1, SchedulePreserves DEF Yield
<1>2. CASE InsertSleep
  BY <1>2, InsertSleepPreserves
<1>3. CASE BlockSleep
  BY <1>3, BlockSleepPreserves
<1>4. CASE ScheduleSleep
  BY <1>4, SchedulePreserves DEF ScheduleSleep
<1>5. CASE EndSleep
  BY <1>5, EndSleepPreserves
<1>6. CASE TryRecv
  BY <1>6, TryRecvPreserves
<1>7. CASE BlockRecv
  BY <1>7, BlockRecvPreserves
<1>8. CASE ScheduleRecv
  BY <1>8, SchedulePreserves DEF ScheduleRecv
<1>9. CASE EndRecv
  BY <1>9, EndRecvPreserves
<1>10. CASE Wake
  BY <1>10, WakePreserves
<1>11. CASE Tick(TRUE) \/ Tick(FALSE)
  BY <1>11, TickPreserves
<1>12. CASE WakeDisplay
  BY <1>12, WakeDisplayPreserves
<1>13. CASE \E c \in IrqChans : FrameTick(c)
  BY <1>13, FrameTickPreserves
<1>14. CASE \E n \in 1 .. MaxSleep : StartSleep(n)
  BY <1>14, StartSleepPreserves
<1>15. CASE \E c \in Channels : StartRecv(c) \/ Send(c)
  BY <1>15, StartRecvPreserves, SendPreserves
<1>16. CASE UNCHANGED vars
  BY <1>16, HasEntrySame DEF vars, IInv, TypeOK, MaskedExecutes, SleepMasked,
                             InsertedHasEntry, AsleepHasEntry
<1> QED BY <1>1, <1>2, <1>3, <1>4, <1>5, <1>6, <1>7, <1>8, <1>9, <1>10, <1>11, <1>12,
           <1>13, <1>14, <1>15, <1>16 DEF Next, Continue, Interrupt

LEMMA InvariantHolds == ASSUME Sleepers \subseteq Users PROVE Spec => []IInv
<1>1. Init => IInv
  BY InitInv
<1>2. IInv /\ [Next]_vars => IInv'
  BY NextPreserves
<1> QED BY <1>1, <1>2, PTL DEF Spec

LEMMA ServedByInvariant == IInv => SleepersHaveSlot
<1> SUFFICES ASSUME IInv, NEW s \in Asleep PROVE EntriesOf(s) # {}
  BY DEF SleepersHaveSlot
<1>1. HasEntry(s)
  BY DEF IInv, AsleepHasEntry, Asleep
<1>2. DOMAIN main = 1 .. SleepCap /\ DOMAIN ovf = 1 .. OvfCap
  BY DEF IInv, TypeOK
<1> QED BY <1>1, <1>2 DEF HasEntry, EntriesOf

(* No channel and no sleep table overflows, and every variable keeps its   *)
(* type, whatever the number of tasks, channels and entries (channel_send, *)
(* sleep_for_ticks and tick_advance at their limits).                      *)
THEOREM BlockingTypeCorrect == ASSUME Sleepers \subseteq Users PROVE Spec => []TypeOK
<1>1. IInv => TypeOK
  BY DEF IInv
<1> QED BY <1>1, InvariantHolds, PTL

(* A task blocked in a sleep has an entry in TIMED_SLEEP_TABLE or in       *)
(* SLEEP_OVERFLOW, so a tick will wake it, as long as only user tasks,     *)
(* whose system calls run with interrupts off, call sleep_for_ticks.       *)
THEOREM SleepersAreServed ==
  ASSUME Sleepers \subseteq Users PROVE Spec => []SleepersHaveSlot
BY ServedByInvariant, InvariantHolds, PTL
-----------------------------------------------------------------------------
(* No wake-up lost, early or spurious.  The setting in which that is so:   *)
(* the threads are user tasks, whose calls run with interrupts off; one of *)
(* them receives, and none that an input interrupt may wake sleeps; and    *)
(* the tables have room for all that sleep, as 64 entries have for the     *)
(* slots of the task table but slot 0.                                     *)
Setting ==
  /\ Sleepers \cup Receivers \cup Senders \subseteq Users
  /\ \A r, s \in Receivers : r = s
  /\ Display \notin Sleepers
  /\ Cardinality(Sleepers) <= SleepCap + OvfCap

(* The entries are one for a sleeper, and agree with its own deadline.     *)
TidyTable(tbl, n) ==
  /\ \A i \in 1 .. n : tbl[i].slot \in Slots => tbl[i].left = left[tbl[i].slot]
  /\ \A i, j \in 1 .. n : tbl[i].slot = tbl[j].slot /\ tbl[i].slot \in Slots => i = j

Tidy ==
  /\ TidyTable(main, SleepCap) /\ TidyTable(ovf, OvfCap)
  /\ \A i \in 1 .. SleepCap, j \in 1 .. OvfCap :
        main[i].slot = ovf[j].slot => main[i].slot \notin Slots

(* Blocked in a sleep, having an entry and not having reached the deadline *)
(* are one thing once the call has got as far as schedule().               *)
InSleep(s) == pc[s] = "slsched" \/ (pc[s] = "slept" /\ left[s] > 0)
SleepBlocked(s) == tasks[s].st = "Blocked" /\ tasks[s].wait = Sleep

SleepThread(s) ==
  /\ pc[s] \in {"insert", "slblock", "slsched", "slept"} => s \in Sleepers
  /\ pc[s] \in {"insert", "slblock", "slsched"} => irq[s] = FALSE /\ left[s] > 0
  /\ HasEntry(s) <=> (pc[s] = "slblock" \/ InSleep(s))
  /\ SleepBlocked(s) <=> InSleep(s)

(* A receiver with interrupts on has a message waiting for it, or a direct *)
(* wake-up.                                                                *)
RecvThread(s) ==
  /\ pc[s] \in {"recv", "rblock", "rsched", "rtok"} => s \in Receivers /\ arg[s] \in Channels
  /\ tasks[s].st = "Blocked" /\ tasks[s].wait # Sleep =>
        pc[s] \in {"rsched", "rtok"} /\ tasks[s].wait = arg[s] /\ ~ tasks[s].token
  /\ pc[s] \in {"rblock", "rsched"} => irq[s] = FALSE /\ queue[arg[s]] = 0
  /\ pc[s] = "rsched" => tasks[s].st = "Blocked"
  /\ pc[s] = "rtok" => \/ tasks[s].st = "Blocked"
                       \/ tasks[s].token /\ s = Display
                       \/ ~ tasks[s].token /\ queue[arg[s]] > 0
  /\ pc[s] = "recv" => irq[s] = FALSE \/ queue[arg[s]] > 0

SendThread(s) ==
  pc[s] = "wake" => irq[s] = FALSE /\ arg[s] \in Channels /\ queue[arg[s]] > 0

OneRuns ==
  /\ \A s \in Slots : tasks[s].st \in {"Ready", "Running", "Blocked"}
  /\ \A s \in Slots \ {current} : tasks[s].st # "Running"
  /\ \/ tasks[current].st = "Running"
     \/ tasks[current].st = "Blocked" /\ pc[current] \in {"slsched", "rsched"}

Threads == \A s \in Slots : SleepThread(s) /\ RecvThread(s) /\ SendThread(s)

WakeInv == IInv /\ Tidy /\ Threads /\ OneRuns /\ NoLostMessageWakeup

-----------------------------------------------------------------------------
(* A dispatch from table T, where only the current thread may be Running   *)
(* and may be Blocked only if another is Ready: the one that executes next *)
(* is the one that is Running, and the others block on what they did.      *)
Settled(T) ==
  /\ T \in Tables
  /\ \A s \in Slots : T[s].st \in {"Ready", "Running", "Blocked"}
  /\ \A s \in Slots \ {current} : T[s].st # "Running"
  /\ T[current].st \in {"Running", "Blocked"}
  /\ T[current].st = "Blocked" => ReadySet(T) # {}

(* Blocked as in T, on what it was, and with the same token.               *)
SameWaits(T) ==
  \A s \in Slots : /\ tasks'[s].st = "Blocked" <=> T[s].st = "Blocked"
                   /\ tasks'[s].wait = T[s].wait /\ tasks'[s].token = T[s].token

LEMMA DispatchRuns ==
  ASSUME NEW T, current \in Slots, Dispatch(T), Settled(T)
  PROVE  /\ SameWaits(T) /\ \A s \in Slots : tasks'[s].st \in {"Ready", "Running", "Blocked"}
         /\ \A s \in Slots \ {current'} : tasks'[s].st # "Running"
         /\ tasks'[current'].st = "Running"
<1> USE DEF Settled, SameWaits
<1> DEFINE n == FindNextReady(T, current)
<1>0. \A s \in Slots : T[s] \in Task
  BY DEF Tables
<1>1. CASE ReadySet(T) = {}
  <2>1. n = NoSlot
    BY <1>1, ScanPicks
  <2>2. tasks' = T /\ current' = current
    BY <2>1 DEF Dispatch
  <2> QED BY <1>1, <2>2
<1>2. CASE ReadySet(T) # {}
  <2>1. n \in Slots /\ T[n].st = "Ready"
    BY <1>2, ScanPicks DEF TopReady, ReadySet
  <2>2. n # current /\ n # NoSlot
    BY <2>1, SlotFacts
  <2>3. tasks' = MarkRunning(MarkReady(T, current), n) /\ current' = n
    BY <2>2 DEF Dispatch
  <2> HIDE DEF n
  <2> DEFINE U == MarkReady(T, current)
  <2>4. U \in Tables /\ \A s \in Slots \ {current} : U[s] = T[s]
    <3>1. U \in Tables
      BY BlockingFacts, OperationTypes
    <3> QED BY <3>1 DEF MarkReady, Tables
  <2>5. /\ U[current].st = IF T[current].st = "Running" THEN "Ready" ELSE "Blocked"
        /\ U[current].wait = T[current].wait /\ U[current].token = T[current].token
    BY <1>0 DEF MarkReady, Tables, Task
  <2> HIDE DEF U
  <2>6. U[n].st = "Ready" /\ U[n] \in Task
    BY <2>1, <2>2, <2>4 DEF Tables
  <2>7. tasks' = [U EXCEPT ![n] = [U[n] EXCEPT !.st = "Running"]]
    BY <2>3, <2>6 DEF U, MarkRunning
  <2>8. tasks' \in Tables
    BY <2>1, <2>4, <2>6, <2>7, FieldUpdates, BlockingFacts, TableUpdate
  <2>9. /\ \A s \in Slots \ {n} : tasks'[s] = U[s]
        /\ tasks'[n].st = "Running" /\ tasks'[n].wait = U[n].wait /\ tasks'[n].token = U[n].token
    BY <2>1, <2>4, <2>6, <2>7 DEF Tables, Task
  <2>10. \A s \in Slots : /\ tasks'[s].st \in {"Ready", "Running", "Blocked"}
                          /\ tasks'[s].st = "Blocked" <=> T[s].st = "Blocked"
                          /\ tasks'[s].wait = T[s].wait /\ tasks'[s].token = T[s].token
    BY <2>1, <2>2, <2>4, <2>5, <2>6, <2>9
  <2>11. \A s \in Slots \ {n} : tasks'[s].st # "Running"
    BY <2>1, <2>2, <2>4, <2>5, <2>9
  <2> QED BY <2>1, <2>3, <2>8, <2>9, <2>10, <2>11
<1> QED BY <1>1, <1>2

-----------------------------------------------------------------------------
(* A thread that a step leaves alone, as far as the invariant goes.        *)
Alike(s) ==
  /\ pc'[s] = pc[s] /\ irq'[s] = irq[s] /\ arg'[s] = arg[s] /\ left'[s] = left[s]
  /\ tasks'[s].st = "Blocked" <=> tasks[s].st = "Blocked"
  /\ tasks'[s].wait = tasks[s].wait /\ tasks'[s].token = tasks[s].token
  /\ HasEntry(s)' <=> HasEntry(s)

LEMMA AlikeKeeps ==
  ASSUME NEW s \in Slots, Alike(s), SleepThread(s) /\ RecvThread(s) /\ SendThread(s),
         pc[s] \in {"recv", "rblock", "rsched", "rtok", "wake"} => queue'[arg[s]] = queue[arg[s]]
  PROVE  SleepThread(s)' /\ RecvThread(s)' /\ SendThread(s)'
<1>1. SleepThread(s)'
  BY DEF Alike, SleepThread, InSleep, SleepBlocked
<1>2. RecvThread(s)'
  BY DEF Alike, RecvThread
<1>3. SendThread(s)'
  BY DEF Alike, SendThread
<1> QED BY <1>1, <1>2, <1>3

(* What the invariant says of the thread that executes.                    *)
LEMMA Executing ==
  ASSUME Setting, WakeInv
  PROVE  /\ current \in Slots /\ tasks \in Tables
         /\ SleepThread(current) /\ RecvThread(current) /\ SendThread(current)
         /\ pc[current] \notin {"slsched", "rsched"} =>
               /\ tasks[current].st = "Running"
               /\ ~InSleep(current) /\ ~SleepBlocked(current)
               /\ HasEntry(current) <=> pc[current] = "slblock"
         /\ tasks[current].st = "Blocked" => ReadySet(tasks) # {}
<1>1. current \in Slots /\ tasks \in Tables
  BY DEF WakeInv, IInv, TypeOK, Tables
<1>2. SleepThread(current) /\ RecvThread(current) /\ SendThread(current)
  BY <1>1 DEF WakeInv, Threads
<1>3. pc[current] \notin {"slsched", "rsched"} =>
               /\ tasks[current].st = "Running"
               /\ ~InSleep(current) /\ ~SleepBlocked(current)
               /\ HasEntry(current) <=> pc[current] = "slblock"
  BY <1>2 DEF WakeInv, OneRuns, SleepThread, SleepBlocked
<1>4. ASSUME tasks[current].st = "Blocked" PROVE ReadySet(tasks) # {}
  <2>1. 0 \in Slots /\ 0 \notin Sleepers /\ 0 \notin Receivers
    BY BlockingAssumption, BlockingFacts
  <2>2. SleepThread(0) /\ RecvThread(0)
    BY <2>1 DEF WakeInv, Threads
  <2>3. tasks[0].st # "Blocked"
    BY <2>1, <2>2 DEF SleepThread, RecvThread, SleepBlocked, InSleep
  <2>4. tasks[0].st = "Ready"
    BY <1>4, <2>1, <2>3 DEF WakeInv, OneRuns
  <2> QED BY <2>1, <2>4 DEF ReadySet
<1> QED BY <1>1, <1>2, <1>3, <1>4

(* Only the executing thread is where interrupts are off.                  *)
LEMMA OthersUnmasked ==
  ASSUME WakeInv, NEW s \in Slots, irq[s] # FALSE
  PROVE  pc[s] \notin {"insert", "slblock", "slsched", "rblock", "rsched", "wake"}
BY DEF WakeInv, Threads, SleepThread, RecvThread, SendThread

LEMMA OthersAre ==
  ASSUME WakeInv, NEW s \in Slots \ {current}
  PROVE  /\ SleepThread(s) /\ RecvThread(s) /\ SendThread(s)
         /\ irq[s] # FALSE
         /\ pc[s] \notin {"insert", "slblock", "slsched", "rblock", "rsched", "wake"}
<1>1. irq[s] # FALSE
  BY DEF WakeInv, IInv, MaskedExecutes
<1> QED BY <1>1, OthersUnmasked DEF WakeInv, Threads
(* Unless the executing thread is a sender about to wake, nobody waits on  *)
(* a channel with messages.                                                *)
LEMMA NoneWaiting ==
  ASSUME WakeInv, pc[current] # "wake", NEW c \in Channels, queue[c] > 0, NEW s \in Slots
  PROVE  ~(tasks[s].st = "Blocked" /\ tasks[s].wait = c)
<1> SUFFICES ASSUME tasks[s].st = "Blocked" /\ tasks[s].wait = c PROVE FALSE
  OBVIOUS
<1>1. s \in WaitersFor(c)
  BY DEF WaitersFor
<1>2. PICK r \in Slots : pc[r] = "wake" /\ arg[r] = c
  BY <1>1 DEF WakeInv, NoLostMessageWakeup
<1>3. r = current
  BY <1>2, OthersAre
<1> QED BY <1>2, <1>3

LEMMA NoneWaitingNext ==
  ASSUME \A c \in Channels : queue'[c] > 0 =>
            \A s \in Slots : ~(tasks'[s].st = "Blocked" /\ tasks'[s].wait = c)
  PROVE  NoLostMessageWakeup'
BY DEF NoLostMessageWakeup, WaitersFor

LEMMA TidySame ==
  ASSUME WakeInv, UNCHANGED <<main, ovf, left>>
  PROVE  Tidy' /\ \A s : HasEntry(s)' <=> HasEntry(s)
BY DEF WakeInv, Tidy, TidyTable, HasEntry

(* A step of the executing thread within its call: of the tasks it changes *)
(* its own at most, and it does not stop executing.                        *)
LEMMA OwnStep ==
  ASSUME Setting, WakeInv, IInv', NEW r \in Slots, r = current, current' = r,
         \A s \in Slots \ {r} : /\ pc'[s] = pc[s] /\ irq'[s] = irq[s] /\ arg'[s] = arg[s]
                                /\ left'[s] = left[s] /\ tasks'[s] = tasks[s]
                                /\ HasEntry(s)' <=> HasEntry(s)
                                /\ pc[s] \in {"recv", "rtok"} => queue'[arg[s]] = queue[arg[s]],
         SleepThread(r)' /\ RecvThread(r)' /\ SendThread(r)',
         \/ tasks'[r].st = "Running"
         \/ tasks'[r].st = "Blocked" /\ pc'[r] \in {"slsched", "rsched"},
         Tidy', NoLostMessageWakeup'
  PROVE  WakeInv'
<1>1. ASSUME NEW s \in Slots \ {r}
      PROVE  SleepThread(s)' /\ RecvThread(s)' /\ SendThread(s)'
  <2>1. SleepThread(s) /\ RecvThread(s) /\ SendThread(s)
        /\ pc[s] \notin {"rblock", "rsched", "wake"}
    BY OthersAre
  <2>2. Alike(s)
    BY DEF Alike
  <2> QED BY <2>1, <2>2, AlikeKeeps
<1>2. Threads'
  BY <1>1 DEF Threads
<1>3. OneRuns'
  BY DEF WakeInv, OneRuns
<1> QED BY <1>2, <1>3 DEF WakeInv

LEMMA SettingFacts ==
  ASSUME Setting
  PROVE  /\ Sleepers \subseteq Users /\ Receivers \subseteq Users /\ Senders \subseteq Users
         /\ Sleepers \subseteq Slots /\ Receivers \subseteq Slots
BY BlockingAssumption DEF Setting

LEMMA StartSleepWakes ==
  ASSUME Setting, WakeInv, IInv', NEW n \in 1 .. MaxSleep, StartSleep(n)
  PROVE  WakeInv'
<1>0. PICK r \in Slots : r = current
  BY Executing
<1>1. /\ r \in Sleepers /\ pc[r] = "run" /\ r \in Users
      /\ left' = [left EXCEPT ![r] = n] /\ pc' = [pc EXCEPT ![r] = "insert"]
      /\ irq' = [irq EXCEPT ![r] = FALSE]
      /\ UNCHANGED <<tasks, current, arg, queue, main, ovf>>
  BY <1>0, SettingFacts DEF StartSleep, At, Enter, Goto
<1>2. /\ r \in Slots /\ RecvThread(r) /\ tasks[r].st = "Running"
      /\ ~SleepBlocked(r) /\ ~HasEntry(r)
  BY <1>0, <1>1, Executing
<1>3. pc \in [Slots -> PCs] /\ irq \in [Slots -> BOOLEAN] /\ left \in [Slots -> 0 .. MaxSleep]
  BY DEF WakeInv, IInv, TypeOK
<1>4. pc'[r] = "insert" /\ irq'[r] = FALSE /\ left'[r] = n /\ n > 0
      /\ \A s \in Slots \ {r} : pc'[s] = pc[s] /\ irq'[s] = irq[s] /\ left'[s] = left[s]
  BY <1>1, <1>2, <1>3
<1>5. \A s : HasEntry(s)' <=> HasEntry(s)
  BY <1>1, HasEntrySame
<1>6. SleepThread(r)' /\ RecvThread(r)' /\ SendThread(r)'
  BY <1>1, <1>2, <1>4, <1>5 DEF SleepThread, SleepBlocked, InSleep, RecvThread, SendThread
<1>7. Tidy'
  <2>1. \A i \in 1 .. SleepCap : main[i].slot # r
    BY <1>2 DEF HasEntry
  <2>2. \A i \in 1 .. OvfCap : ovf[i].slot # r
    BY <1>2 DEF HasEntry
  <2> QED BY <1>1, <1>4, <2>1, <2>2 DEF WakeInv, Tidy, TidyTable
<1>8. NoLostMessageWakeup'
  BY <1>0, <1>1, NoneWaiting, NoneWaitingNext
<1>9. r = current /\ current' = r
  BY <1>0, <1>1
<1> QED BY <1>1, <1>2, <1>4, <1>5, <1>6, <1>7, <1>8, <1>9, OwnStep

LEMMA EndSleepWakes ==
  ASSUME Setting, WakeInv, IInv', EndSleep
  PROVE  WakeInv'
<1>0. PICK r \in Slots : r = current
  BY Executing
<1>1. /\ pc[r] = "slept" /\ pc' = [pc EXCEPT ![r] = "run"] /\ irq' = [irq EXCEPT ![r] = TRUE]
      /\ UNCHANGED <<tasks, current, arg, queue, main, ovf, left>>
  BY <1>0 DEF EndSleep, At, Return, Goto, SameSleeps
<1>2. /\ r \in Slots /\ RecvThread(r) /\ tasks[r].st = "Running"
      /\ ~SleepBlocked(r) /\ ~HasEntry(r)
  BY <1>0, <1>1, Executing
<1>3. pc \in [Slots -> PCs] /\ irq \in [Slots -> BOOLEAN]
  BY DEF WakeInv, IInv, TypeOK
<1>9. r = current /\ current' = r
  BY <1>0, <1>1
<1>4. pc'[r] = "run" /\ irq'[r] = TRUE
      /\ \A s \in Slots \ {r} : pc'[s] = pc[s] /\ irq'[s] = irq[s]
  BY <1>1, <1>2, <1>3
<1>5. Tidy' /\ \A s : HasEntry(s)' <=> HasEntry(s)
  BY <1>1, TidySame
<1>6. SleepThread(r)' /\ RecvThread(r)' /\ SendThread(r)'
  BY <1>1, <1>2, <1>4, <1>5 DEF SleepThread, SleepBlocked, InSleep, RecvThread, SendThread
<1>8. NoLostMessageWakeup'
  BY <1>1, <1>9, NoneWaiting, NoneWaitingNext
<1> QED BY <1>1, <1>2, <1>4, <1>5, <1>6, <1>8, <1>9, OwnStep

LEMMA StartRecvWakes ==
  ASSUME Setting, WakeInv, IInv', NEW c \in Channels, StartRecv(c)
  PROVE  WakeInv'
<1>0. PICK r \in Slots : r = current
  BY Executing
<1>1. /\ r \in Receivers /\ pc[r] = "run" /\ r \in Users
      /\ arg' = [arg EXCEPT ![r] = c] /\ pc' = [pc EXCEPT ![r] = "recv"]
      /\ irq' = [irq EXCEPT ![r] = FALSE]
      /\ UNCHANGED <<tasks, current, queue, main, ovf, left>>
  BY <1>0, SettingFacts DEF StartRecv, At, Enter, Goto, SameSleeps
<1>2. /\ r \in Slots /\ RecvThread(r) /\ tasks[r].st = "Running"
      /\ ~SleepBlocked(r) /\ ~HasEntry(r)
  BY <1>0, <1>1, Executing
<1>3. pc \in [Slots -> PCs] /\ irq \in [Slots -> BOOLEAN] /\ arg \in [Slots -> Channels \cup {Nil}]
  BY DEF WakeInv, IInv, TypeOK
<1>9. r = current /\ current' = r
  BY <1>0, <1>1
<1>4. pc'[r] = "recv" /\ irq'[r] = FALSE /\ arg'[r] = c
      /\ \A s \in Slots \ {r} : pc'[s] = pc[s] /\ irq'[s] = irq[s] /\ arg'[s] = arg[s]
  BY <1>1, <1>2, <1>3
<1>5. Tidy' /\ \A s : HasEntry(s)' <=> HasEntry(s)
  BY <1>1, TidySame
<1>6. SleepThread(r)' /\ RecvThread(r)' /\ SendThread(r)'
  BY <1>1, <1>2, <1>4, <1>5 DEF SleepThread, SleepBlocked, InSleep, RecvThread, SendThread
<1>8. NoLostMessageWakeup'
  BY <1>1, <1>9, NoneWaiting, NoneWaitingNext
<1> QED BY <1>1, <1>2, <1>4, <1>5, <1>6, <1>8, <1>9, OwnStep

LEMMA TryRecvWakes ==
  ASSUME Setting, WakeInv, IInv', TryRecv
  PROVE  WakeInv'
<1>0. PICK r \in Slots : r = current
  BY Executing
<1> DEFINE c == arg[r]
<1>1. pc[r] = "recv" /\ UNCHANGED <<tasks, current, arg, main, ovf, left>>
  BY <1>0 DEF TryRecv, At, SameSleeps
<1>2. /\ r \in Slots /\ RecvThread(r) /\ tasks[r].st = "Running"
      /\ ~SleepBlocked(r) /\ ~HasEntry(r)
  BY <1>0, <1>1, Executing
<1>3. /\ pc \in [Slots -> PCs] /\ irq \in [Slots -> BOOLEAN]
      /\ queue \in [Channels -> 0 .. QueueCap]
  BY DEF WakeInv, IInv, TypeOK
<1>9. r = current /\ current' = r
  BY <1>0, <1>1
<1>4. r \in Receivers /\ c \in Channels /\ (irq[r] = FALSE \/ queue[c] > 0)
  BY <1>1, <1>2 DEF RecvThread
<1>5. Tidy' /\ \A s : HasEntry(s)' <=> HasEntry(s)
  BY <1>1, TidySame
<1>6. \A s \in Slots \ {r} : pc[s] \notin {"recv", "rtok"}
  BY <1>4, <1>9, OthersAre DEF RecvThread, Setting
<1>7. CASE queue[c] > 0
  <2>1. /\ queue' = [queue EXCEPT ![c] = @ - 1]
        /\ pc' = [pc EXCEPT ![r] = "run"] /\ irq' = [irq EXCEPT ![r] = TRUE]
    BY <1>7, <1>9 DEF TryRecv, Return, Goto
  <2>2. pc'[r] = "run"
        /\ \A s \in Slots \ {r} : pc'[s] = pc[s] /\ irq'[s] = irq[s]
    BY <1>2, <1>3, <2>1
  <2>3. SleepThread(r)' /\ RecvThread(r)' /\ SendThread(r)'
    BY <1>1, <1>2, <1>5, <2>2 DEF SleepThread, SleepBlocked, InSleep, RecvThread, SendThread
  <2>4. \A d \in Channels : queue'[d] > 0 => queue[d] > 0
    BY <1>3, <1>4, <1>7, <2>1
  <2>5. NoLostMessageWakeup'
    BY <1>1, <1>9, <2>4, NoneWaiting, NoneWaitingNext
  <2> QED BY <1>1, <1>2, <1>5, <1>6, <1>9, <2>2, <2>3, <2>5, OwnStep
<1>8. CASE ~(queue[c] > 0)
  <2>1. UNCHANGED <<queue, irq>> /\ pc' = [pc EXCEPT ![r] = "rblock"]
    BY <1>8, <1>9 DEF TryRecv, Goto
  <2>2. pc'[r] = "rblock" /\ \A s \in Slots \ {r} : pc'[s] = pc[s]
    BY <1>2, <1>3, <2>1
  <2>3. queue[c] = 0 /\ irq[r] = FALSE
    BY <1>3, <1>4, <1>8
  <2>4. SleepThread(r)' /\ RecvThread(r)' /\ SendThread(r)'
    BY <1>1, <1>2, <1>4, <1>5, <2>1, <2>2, <2>3
       DEF SleepThread, SleepBlocked, InSleep, RecvThread, SendThread
  <2>5. NoLostMessageWakeup'
    BY <1>1, <1>9, <2>1, NoneWaiting, NoneWaitingNext
  <2> QED BY <1>1, <1>2, <1>5, <1>6, <1>9, <2>1, <2>2, <2>4, <2>5, OwnStep
<1> QED BY <1>7, <1>8
(* mark_blocked on the executing thread, and the taking of its token.      *)
LEMMA MarkBlockedIs ==
  ASSUME NEW T \in Tables, NEW s \in Slots, T[s].st = "Running", NEW c \in Chans \cup {Nil}
  PROVE  /\ MarkBlocked(T, s, c)[s].st = "Blocked" /\ MarkBlocked(T, s, c)[s].wait = c
         /\ MarkBlocked(T, s, c)[s].token = FALSE
         /\ \A r \in Slots \ {s} : MarkBlocked(T, s, c)[r] = T[r]
BY DEF MarkBlocked, CanBlock, Tables, Task

(* wake_blocked_on: the tasks that wait on the channel, and no others.      *)
LEMMA WakeBlockedIs ==
  ASSUME NEW T \in Tables, NEW c, NEW s \in Slots
  PROVE  IF T[s].st = "Blocked" /\ T[s].wait = c
         THEN WakeBlockedOn(T, c)[s].st = "Ready" /\ ~ WakeBlockedOn(T, c)[s].token
         ELSE WakeBlockedOn(T, c)[s] = T[s]
<1>1. \A t \in Task : /\ [t EXCEPT !.st = "Ready", !.wait = Nil, !.token = FALSE].st = "Ready"
                      /\ ~ [t EXCEPT !.st = "Ready", !.wait = Nil, !.token = FALSE].token
  BY DEF Task
<1>2. T[s] \in Task
  BY DEF Tables
<1> QED BY <1>1, <1>2 DEF WakeBlockedOn, WaitersOn

LEMMA BlockRecvWakes ==
  ASSUME Setting, WakeInv, IInv', BlockRecv
  PROVE  WakeInv'
<1>0. PICK r \in Slots : r = current
  BY Executing
<1>1. pc[r] = "rblock" /\ UNCHANGED <<current, arg, queue, main, ovf, left>>
  BY <1>0 DEF BlockRecv, At, SameSleeps
<1>2. /\ RecvThread(r) /\ tasks[r].st = "Running" /\ tasks \in Tables
      /\ ~SleepBlocked(r) /\ ~HasEntry(r)
  BY <1>0, <1>1, Executing
<1>3. arg[r] \in Channels /\ r \in Receivers /\ irq[r] = FALSE /\ queue[arg[r]] = 0
      /\ arg[r] \in Chans \cup {Nil} /\ arg[r] # Sleep
  BY <1>1, <1>2, BlockingFacts DEF RecvThread
<1>4. tasks' = MarkBlocked(tasks, r, arg[r]) /\ pc' = [pc EXCEPT ![r] = "rsched"]
      /\ UNCHANGED irq
  BY <1>0, <1>2 DEF BlockRecv, CanBlock, Goto
<1>5. /\ tasks'[r].st = "Blocked" /\ tasks'[r].wait = arg[r] /\ ~ tasks'[r].token
      /\ \A s \in Slots \ {r} : tasks'[s] = tasks[s]
  <2> DEFINE c == arg[r]
             T == tasks
  <2>1. c \in Chans \cup {Nil} /\ T \in Tables /\ T[r].st = "Running"
    BY <1>2, <1>3
  <2> HIDE DEF c, T
  <2>2. /\ MarkBlocked(T, r, c)[r].st = "Blocked" /\ MarkBlocked(T, r, c)[r].wait = c
        /\ MarkBlocked(T, r, c)[r].token = FALSE
        /\ \A s \in Slots \ {r} : MarkBlocked(T, r, c)[s] = T[s]
    BY <2>1, MarkBlockedIs
  <2>3. tasks' = MarkBlocked(T, r, c)
    BY <1>4 DEF c, T
  <2> QED BY <2>2, <2>3 DEF c, T
<1>6. pc \in [Slots -> PCs]
  BY DEF WakeInv, IInv, TypeOK
<1>7. pc'[r] = "rsched" /\ \A s \in Slots \ {r} : pc'[s] = pc[s]
  BY <1>4, <1>6
<1>8. Tidy' /\ \A s : HasEntry(s)' <=> HasEntry(s)
  BY <1>1, TidySame
<1>9. SleepThread(r)' /\ RecvThread(r)' /\ SendThread(r)'
  BY <1>1, <1>2, <1>3, <1>4, <1>5, <1>7, <1>8
     DEF SleepThread, SleepBlocked, InSleep, RecvThread, SendThread
<1>10. ASSUME NEW d \in Channels, queue'[d] > 0, NEW s \in Slots
       PROVE  ~(tasks'[s].st = "Blocked" /\ tasks'[s].wait = d)
  <2>1. CASE s = r
    BY <1>1, <1>3, <1>5, <1>10, <2>1
  <2>2. CASE s # r
    BY <1>0, <1>1, <1>5, <1>10, <2>2, NoneWaiting
  <2> QED BY <2>1, <2>2
<1>11. NoLostMessageWakeup'
  BY <1>10, NoneWaitingNext
<1> QED BY <1>0, <1>1, <1>4, <1>5, <1>7, <1>8, <1>9, <1>11, OwnStep

LEMMA EndRecvWakes ==
  ASSUME Setting, WakeInv, IInv', EndRecv
  PROVE  WakeInv'
<1>0. PICK r \in Slots : r = current
  BY Executing
<1>1. pc[r] = "rtok" /\ UNCHANGED <<current, arg, queue, main, ovf, left>>
  BY <1>0 DEF EndRecv, At, SameSleeps
<1>2. /\ RecvThread(r) /\ tasks[r].st = "Running" /\ tasks \in Tables
      /\ ~SleepBlocked(r) /\ ~HasEntry(r)
  BY <1>0, <1>1, Executing
<1>3. pc \in [Slots -> PCs] /\ irq \in [Slots -> BOOLEAN]
  BY DEF WakeInv, IInv, TypeOK
<1>4. Tidy' /\ \A s : HasEntry(s)' <=> HasEntry(s)
  BY <1>1, TidySame
<1>5. CASE tasks[r].token
  <2>1. /\ tasks' = TakeToken(tasks, r) /\ pc' = [pc EXCEPT ![r] = "run"]
        /\ irq' = [irq EXCEPT ![r] = TRUE]
    BY <1>0, <1>5 DEF EndRecv, Return, Goto
  <2>2. /\ tasks'[r].st = "Running" /\ \A s \in Slots \ {r} : tasks'[s] = tasks[s]
    BY <1>2, <2>1 DEF TakeToken, Tables, Task
  <2>3. pc'[r] = "run" /\ \A s \in Slots \ {r} : pc'[s] = pc[s] /\ irq'[s] = irq[s]
    BY <1>3, <2>1
  <2>4. SleepThread(r)' /\ RecvThread(r)' /\ SendThread(r)'
    BY <1>1, <1>2, <1>4, <2>2, <2>3 DEF SleepThread, SleepBlocked, InSleep, RecvThread, SendThread
  <2>5. ASSUME NEW d \in Channels, queue'[d] > 0, NEW s \in Slots
        PROVE  ~(tasks'[s].st = "Blocked" /\ tasks'[s].wait = d)
    BY <1>0, <1>1, <2>2, <2>5, NoneWaiting
  <2>6. NoLostMessageWakeup'
    BY <2>5, NoneWaitingNext
  <2> QED BY <1>0, <1>1, <1>4, <2>2, <2>3, <2>4, <2>6, OwnStep
<1>6. CASE ~ tasks[r].token
  <2>1. UNCHANGED <<tasks, irq>> /\ pc' = [pc EXCEPT ![r] = "recv"]
    BY <1>0, <1>6 DEF EndRecv, Goto
  <2>2. pc'[r] = "recv" /\ \A s \in Slots \ {r} : pc'[s] = pc[s]
    BY <1>3, <2>1
  <2>3. SleepThread(r)' /\ RecvThread(r)' /\ SendThread(r)'
    BY <1>1, <1>2, <1>4, <1>6, <2>1, <2>2
       DEF SleepThread, SleepBlocked, InSleep, RecvThread, SendThread
  <2>4. NoLostMessageWakeup'
    BY <1>0, <1>1, <2>1, NoneWaiting, NoneWaitingNext
  <2> QED BY <1>0, <1>1, <1>2, <1>4, <2>1, <2>2, <2>3, <2>4, OwnStep
<1> QED BY <1>5, <1>6

LEMMA BlockSleepWakes ==
  ASSUME Setting, WakeInv, IInv', BlockSleep
  PROVE  WakeInv'
<1>0. PICK r \in Slots : r = current
  BY Executing
<1>1. pc[r] = "slblock" /\ UNCHANGED <<current, irq, arg, queue, main, ovf, left>>
  BY <1>0 DEF BlockSleep, At, SameSleeps
<1>2. /\ SleepThread(r) /\ tasks[r].st = "Running" /\ tasks \in Tables /\ HasEntry(r)
  BY <1>0, <1>1, Executing
<1>3. /\ tasks' = MarkBlocked(tasks, r, Sleep) /\ pc' = [pc EXCEPT ![r] = "slsched"]
  BY <1>0, <1>2 DEF BlockSleep, CanBlock, Goto
<1>4. /\ tasks'[r].st = "Blocked" /\ tasks'[r].wait = Sleep
      /\ \A s \in Slots \ {r} : tasks'[s] = tasks[s]
  <2> DEFINE T == tasks
  <2>1. Sleep \in Chans \cup {Nil} /\ T \in Tables /\ T[r].st = "Running"
    BY <1>2, BlockingFacts
  <2> HIDE DEF T
  <2>2. /\ MarkBlocked(T, r, Sleep)[r].st = "Blocked" /\ MarkBlocked(T, r, Sleep)[r].wait = Sleep
        /\ \A s \in Slots \ {r} : MarkBlocked(T, r, Sleep)[s] = T[s]
    BY <2>1, MarkBlockedIs
  <2>3. tasks' = MarkBlocked(T, r, Sleep)
    BY <1>3 DEF T
  <2> QED BY <2>2, <2>3 DEF T
<1>5. pc \in [Slots -> PCs]
  BY DEF WakeInv, IInv, TypeOK
<1>6. pc'[r] = "slsched" /\ \A s \in Slots \ {r} : pc'[s] = pc[s]
  BY <1>3, <1>5
<1>7. Tidy' /\ \A s : HasEntry(s)' <=> HasEntry(s)
  BY <1>1, TidySame
<1>8. SleepThread(r)' /\ RecvThread(r)' /\ SendThread(r)'
  BY <1>1, <1>2, <1>4, <1>6, <1>7 DEF SleepThread, SleepBlocked, InSleep, RecvThread, SendThread
<1>9. ASSUME NEW d \in Channels, queue'[d] > 0, NEW s \in Slots
      PROVE  ~(tasks'[s].st = "Blocked" /\ tasks'[s].wait = d)
  <2>1. CASE s = r
    BY <1>4, <1>9, <2>1, BlockingFacts
  <2>2. CASE s # r
    BY <1>0, <1>1, <1>4, <1>9, <2>2, NoneWaiting
  <2> QED BY <2>1, <2>2
<1>10. NoLostMessageWakeup'
  BY <1>9, NoneWaitingNext
<1> QED BY <1>0, <1>1, <1>4, <1>6, <1>7, <1>8, <1>10, OwnStep

-----------------------------------------------------------------------------
(* Messages and wake-ups: what they do to the threads that receive.        *)
LEMMA MoreMessages ==
  ASSUME NEW s \in Slots, Alike(s), SleepThread(s) /\ RecvThread(s) /\ SendThread(s),
         pc[s] \notin {"rblock", "rsched"},
         queue \in [Channels -> 0 .. QueueCap], queue' \in [Channels -> 0 .. QueueCap],
         \A c \in Channels : queue'[c] >= queue[c]
  PROVE  SleepThread(s)' /\ RecvThread(s)' /\ SendThread(s)'
<1>1. SleepThread(s)'
  BY DEF Alike, SleepThread, InSleep, SleepBlocked
<1>2. \A c \in Channels : queue[c] > 0 => queue'[c] > 0
  BY BlockingFacts
<1>3. RecvThread(s)'
  BY <1>2 DEF Alike, RecvThread
<1>4. SendThread(s)'
  BY <1>2 DEF Alike, SendThread
<1> QED BY <1>1, <1>3, <1>4

LEMMA SendWakes ==
  ASSUME Setting, WakeInv, IInv', NEW c \in Channels, Send(c)
  PROVE  WakeInv'
<1>0. PICK r \in Slots : r = current
  BY Executing
<1>1. /\ pc[r] = "run" /\ r \in Users /\ queue' = [queue EXCEPT ![c] = @ + 1]
      /\ arg' = [arg EXCEPT ![r] = c] /\ pc' = [pc EXCEPT ![r] = "wake"]
      /\ irq' = [irq EXCEPT ![r] = FALSE]
      /\ UNCHANGED <<tasks, current, main, ovf, left>>
  BY <1>0, SettingFacts DEF Send, At, Enter, Goto, SameSleeps
<1>2. /\ RecvThread(r) /\ tasks[r].st = "Running"
      /\ ~SleepBlocked(r) /\ ~HasEntry(r)
  BY <1>0, <1>1, Executing
<1>3. /\ pc \in [Slots -> PCs] /\ irq \in [Slots -> BOOLEAN] /\ arg \in [Slots -> Channels \cup {Nil}]
      /\ queue \in [Channels -> 0 .. QueueCap] /\ queue' \in [Channels -> 0 .. QueueCap]
  BY DEF WakeInv, IInv, TypeOK
<1>4. pc'[r] = "wake" /\ irq'[r] = FALSE /\ arg'[r] = c
      /\ \A s \in Slots \ {r} : pc'[s] = pc[s] /\ irq'[s] = irq[s] /\ arg'[s] = arg[s]
  BY <1>1, <1>3
<1>5. queue'[c] > 0 /\ (\A d \in Channels : queue'[d] >= queue[d])
      /\ \A d \in Channels \ {c} : queue'[d] = queue[d]
  BY <1>1, <1>3, BlockingFacts
<1>6. Tidy' /\ \A s : HasEntry(s)' <=> HasEntry(s)
  BY <1>1, TidySame
<1>7. SleepThread(r)' /\ RecvThread(r)' /\ SendThread(r)'
  BY <1>1, <1>2, <1>4, <1>5, <1>6 DEF SleepThread, SleepBlocked, InSleep, RecvThread, SendThread
<1>8. ASSUME NEW s \in Slots \ {r} PROVE SleepThread(s)' /\ RecvThread(s)' /\ SendThread(s)'
  <2>1. Alike(s)
    BY <1>1, <1>4, <1>6 DEF Alike
  <2>2. SleepThread(s) /\ RecvThread(s) /\ SendThread(s) /\ pc[s] \notin {"rblock", "rsched"}
    BY <1>0, OthersAre
  <2> QED BY <1>3, <1>5, <2>1, <2>2, MoreMessages
<1>9. Threads'
  BY <1>7, <1>8 DEF Threads
<1>10. OneRuns'
  BY <1>0, <1>1, <1>2 DEF WakeInv, OneRuns
<1>11. NoLostMessageWakeup'
  <2>1. ASSUME NEW d \in Channels \ {c}, queue'[d] > 0
        PROVE  WaitersFor(d)' = {}
    BY <1>0, <1>1, <1>5, <2>1, NoneWaiting DEF WaitersFor
  <2> QED BY <1>4, <2>1 DEF NoLostMessageWakeup
<1> QED BY <1>6, <1>9, <1>10, <1>11 DEF WakeInv

(* wake_blocked_on when the channel has a message.                         *)
LEMMA WokenReceiver ==
  ASSUME Setting, WakeInv, NEW c \in Channels, queue[c] > 0 \/ queue'[c] > 0,
         NEW s \in Slots, tasks' = WakeBlockedOn(tasks, c),
         pc'[s] = pc[s] /\ irq'[s] = irq[s] /\ arg'[s] = arg[s] /\ left'[s] = left[s],
         HasEntry(s)' <=> HasEntry(s), queue'[c] > 0,
         pc[s] \notin {"rblock", "rsched", "wake"},
         queue \in [Channels -> 0 .. QueueCap], queue' \in [Channels -> 0 .. QueueCap],
         \A d \in Channels : queue'[d] >= queue[d]
  PROVE  SleepThread(s)' /\ RecvThread(s)' /\ SendThread(s)'
<1>1. SleepThread(s) /\ RecvThread(s) /\ SendThread(s)
  BY DEF WakeInv, Threads
<1>2. tasks \in Tables
  BY DEF WakeInv, IInv, TypeOK, Tables
<1>3. CASE tasks[s].st = "Blocked" /\ tasks[s].wait = c
  <2>1. /\ c # Sleep /\ tasks'[s].st = "Ready" /\ ~ tasks'[s].token
    BY <1>2, <1>3, WakeBlockedIs, BlockingFacts
  <2>2. pc[s] = "rtok" /\ arg[s] = c
    BY <1>1, <1>3, <2>1 DEF RecvThread
  <2>3. SleepThread(s)'
    BY <1>1, <1>3, <2>1, <2>2 DEF SleepThread, SleepBlocked, InSleep
  <2>4. RecvThread(s)' /\ SendThread(s)'
    BY <1>1, <2>1, <2>2 DEF RecvThread, SendThread
  <2> QED BY <2>3, <2>4
<1>4. CASE ~(tasks[s].st = "Blocked" /\ tasks[s].wait = c)
  <2>1. tasks'[s] = tasks[s]
    BY <1>2, <1>4, WakeBlockedIs
  <2>2. Alike(s)
    BY <2>1 DEF Alike
  <2> QED BY <1>1, <2>2, MoreMessages
<1> QED BY <1>3, <1>4

LEMMA WakeWakes ==
  ASSUME Setting, WakeInv, IInv', Wake
  PROVE  WakeInv'
<1>0. PICK r \in Slots : r = current
  BY Executing
<1> DEFINE c == arg[r]
<1>1. /\ pc[r] = "wake" /\ tasks' = WakeBlockedOn(tasks, c)
      /\ pc' = [pc EXCEPT ![r] = "run"] /\ irq' = [irq EXCEPT ![r] = TRUE]
      /\ UNCHANGED <<current, arg, queue, main, ovf, left>>
  BY <1>0 DEF Wake, At, Return, Goto, SameSleeps
<1>2. /\ SendThread(r) /\ RecvThread(r) /\ tasks[r].st = "Running" /\ tasks \in Tables
      /\ ~SleepBlocked(r) /\ ~HasEntry(r)
  BY <1>0, <1>1, Executing
<1>3. c \in Channels /\ queue[c] > 0
  BY <1>1, <1>2 DEF SendThread
<1>4. /\ pc \in [Slots -> PCs] /\ irq \in [Slots -> BOOLEAN]
      /\ queue \in [Channels -> 0 .. QueueCap]
  BY DEF WakeInv, IInv, TypeOK
<1>5. pc'[r] = "run" /\ \A s \in Slots \ {r} : pc'[s] = pc[s] /\ irq'[s] = irq[s]
  BY <1>1, <1>4
<1>6. Tidy' /\ \A s : HasEntry(s)' <=> HasEntry(s)
  BY <1>1, TidySame
<1>7. /\ tasks'[r] = tasks[r]
      /\ \A s \in Slots : tasks'[s] = tasks[s] \/ tasks'[s].st = "Ready"
      /\ \A s \in Slots : tasks[s].st = "Blocked" /\ tasks[s].wait = c
                              => tasks'[s].st = "Ready"
  <2> HIDE DEF c
  <2> QED BY <1>1, <1>2, WakeBlockedIs
<1>8. SleepThread(r)' /\ RecvThread(r)' /\ SendThread(r)'
  BY <1>1, <1>2, <1>5, <1>6, <1>7 DEF SleepThread, SleepBlocked, InSleep, RecvThread, SendThread
<1>9. \A d \in Channels : queue'[d] >= queue[d]
  BY <1>1, <1>4, BlockingFacts
<1>10. ASSUME NEW s \in Slots \ {r} PROVE SleepThread(s)' /\ RecvThread(s)' /\ SendThread(s)'
  <2>1. pc[s] \notin {"rblock", "rsched", "wake"}
    BY <1>0, OthersAre
  <2>2. arg' = arg /\ left' = left /\ queue' = queue
    BY <1>1
  <2> HIDE DEF c
  <2> QED BY <1>1, <1>3, <1>4, <1>5, <1>6, <1>9, <2>1, <2>2, WokenReceiver
<1>11. Threads'
  BY <1>8, <1>10 DEF Threads
<1>12. OneRuns'
  BY <1>0, <1>1, <1>2, <1>7 DEF WakeInv, OneRuns
<1>13. NoLostMessageWakeup'
  <2>1. ASSUME NEW d \in Channels, queue'[d] > 0, NEW s \in Slots,
               tasks'[s].st = "Blocked", tasks'[s].wait = d
        PROVE  FALSE
    <3>1. tasks'[s] = tasks[s]
      BY <1>7, <2>1
    <3>2. s \in WaitersFor(d) /\ queue[d] > 0
      BY <1>1, <2>1, <3>1 DEF WaitersFor
    <3>3. PICK q \in Slots : pc[q] = "wake" /\ arg[q] = d
      BY <3>2 DEF WakeInv, NoLostMessageWakeup
    <3>4. q = r
      BY <1>0, <3>3, OthersAre
    <3>5. tasks[s].st = "Blocked" /\ tasks[s].wait = c
      BY <2>1, <3>1, <3>3, <3>4
    <3>6. tasks'[s].st = "Ready"
      BY <1>7, <3>5
    <3> QED BY <2>1, <3>6
  <2> QED BY <2>1, NoneWaitingNext
<1> QED BY <1>6, <1>11, <1>12, <1>13 DEF WakeInv

-----------------------------------------------------------------------------
(* Taking an entry.  There is room: an entry belongs to a thread that      *)
(* sleeps, each has one at most, and the thread that asks has none.        *)
Crowded(S, k) == IsFiniteSet(S) /\ Cardinality(S) < k
Shared(f, g, m, n) ==
  \/ \E i, j \in 1 .. m : i # j /\ f[i] = f[j]
  \/ \E i, j \in 1 .. n : i # j /\ g[i] = g[j]
  \/ \E i \in 1 .. m, j \in 1 .. n : f[i] = g[j]

LEMMA TwoTables ==
  ASSUME NEW m \in Nat, NEW n \in Nat, NEW S, Crowded(S, m + n),
         NEW f \in [1 .. m -> S], NEW g \in [1 .. n -> S]
  PROVE  Shared(f, g, m, n)
<1> USE DEF Crowded, Shared
<1> DEFINE h == [i \in 1 .. m + n |-> IF i <= m THEN f[i] ELSE g[i - m]]
<1>1. h \in [1 .. m + n -> S]
  <2>1. ASSUME NEW i \in 1 .. m + n PROVE (IF i <= m THEN f[i] ELSE g[i - m]) \in S
    <3>1. CASE i <= m
      BY <3>1
    <3>2. CASE ~(i <= m)
      <4>1. i - m \in 1 .. n
        BY <3>2
      <4> QED BY <3>2, <4>1
    <3> QED BY <3>1, <3>2
  <2> QED BY <2>1
<1>2. IsFiniteSet(1 .. m + n) /\ Cardinality(1 .. m + n) = m + n
  BY FS_Interval
<1>3. PICK x \in 1 .. m + n, y \in 1 .. m + n : x # y /\ h[x] = h[y]
  <2> HIDE DEF h
  <2> QED BY <1>1, <1>2, FS_PigeonHole
<1>4. ASSUME NEW i \in 1 .. m + n, i > m PROVE i - m \in 1 .. n /\ h[i] = g[i - m]
  BY <1>4
<1>5. ASSUME NEW i \in 1 .. m + n, ~(i > m) PROVE i \in 1 .. m /\ h[i] = f[i]
  BY <1>5
<1> HIDE DEF h
<1>6. CASE x > m /\ y > m
  <2>1. x - m # y - m
    BY <1>3
  <2> QED BY <1>3, <1>4, <1>6, <2>1
<1>7. CASE x > m /\ ~(y > m)
  BY <1>3, <1>4, <1>5, <1>7
<1>8. CASE ~(x > m) /\ y > m
  BY <1>3, <1>4, <1>5, <1>8
<1>9. CASE ~(x > m) /\ ~(y > m)
  BY <1>3, <1>5, <1>9
<1> QED BY <1>6, <1>7, <1>8, <1>9

LEMMA PutIs ==
  ASSUME NEW m \in Nat, NEW tbl \in Rows(m), FreeEntries(tbl) # {},
         current \in Slots, NEW k \in 1 .. MaxSleep
  PROVE  \E j \in 1 .. m :
            /\ tbl[j].slot \notin Slots
            /\ Put(tbl, k)[j].slot = current /\ Put(tbl, k)[j].left = k
            /\ \A i \in (1 .. m) \ {j} : Put(tbl, k)[i] = tbl[i]
<1> DEFINE j == Min(FreeEntries(tbl))
           e == [slot |-> current, left |-> k]
<1>1. FreeEntries(tbl) \subseteq 1 .. m
  BY DEF FreeEntries, Rows
<1>2. j \in 1 .. m /\ tbl[j] = NoSleep
  <2>1. j \in FreeEntries(tbl)
    BY <1>1, MinIsLeast
  <2> QED BY <1>1, <2>1 DEF FreeEntries
<1>3. Put(tbl, k) = [tbl EXCEPT ![j] = e]
  BY DEF Put
<1>4. e.slot = current /\ e.left = k /\ NoSleep.slot \notin Slots
  BY BlockingFacts DEF NoSleep
<1> HIDE DEF j, e
<1>5. Put(tbl, k)[j] = e /\ \A i \in (1 .. m) \ {j} : Put(tbl, k)[i] = tbl[i]
  BY <1>2, <1>3 DEF Rows
<1> QED BY <1>2, <1>4, <1>5

LEMMA FullTable ==
  ASSUME NEW m \in Nat, NEW tbl \in Rows(m), FreeEntries(tbl) = {}, NEW i \in 1 .. m
  PROVE  tbl[i].slot \in Slots
<1>1. DOMAIN tbl = 1 .. m /\ tbl[i] \in SleepEntries \cup {NoSleep}
  BY DEF Rows
<1>2. tbl[i] # NoSleep
  BY <1>1 DEF FreeEntries
<1> QED BY <1>1, <1>2 DEF SleepEntries

LEMMA RoomToSleep ==
  ASSUME Setting, WakeInv, At("insert")
  PROVE  FreeEntries(main) # {} \/ FreeEntries(ovf) # {}
<1> SUFFICES ASSUME FreeEntries(main) = {}, FreeEntries(ovf) = {} PROVE FALSE
  OBVIOUS
<1> USE BlockingFacts
<1> DEFINE S == Sleepers \ {current}
           f == [i \in 1 .. SleepCap |-> main[i].slot]
           g == [i \in 1 .. OvfCap |-> ovf[i].slot]
<1>1. main \in Rows(SleepCap) /\ ovf \in Rows(OvfCap)
  BY DEF WakeInv, IInv, TypeOK, Rows
<1>2. current \in Sleepers /\ ~HasEntry(current)
  BY Executing DEF At, SleepThread
<1>3. ASSUME NEW s \in Slots, HasEntry(s) PROVE s \in S
  BY <1>2, <1>3 DEF WakeInv, Threads, SleepThread, InSleep
<1>4. ASSUME NEW i \in 1 .. SleepCap PROVE f[i] \in S
  <2>1. main[i].slot \in Slots
    BY <1>1, FullTable
  <2>2. HasEntry(main[i].slot)
    BY DEF HasEntry
  <2> QED BY <1>3, <2>1, <2>2
<1>5. ASSUME NEW i \in 1 .. OvfCap PROVE g[i] \in S
  <2>1. ovf[i].slot \in Slots
    BY <1>1, FullTable
  <2>2. HasEntry(ovf[i].slot)
    BY DEF HasEntry
  <2> QED BY <1>3, <2>1, <2>2
<1>6. IsFiniteSet(S) /\ Cardinality(S) < SleepCap + OvfCap
  <2>1. IsFiniteSet(Slots)
    BY FS_Interval, TableAssumption DEF Slots
  <2>2. IsFiniteSet(Sleepers)
    BY <2>1, FS_Subset
  <2>3. Cardinality(Sleepers) \in Nat
    BY <2>2, FS_CardinalityType
  <2>4. IsFiniteSet(S) /\ Cardinality(S) = Cardinality(Sleepers) - 1
    BY <1>2, <2>2, FS_RemoveElement
  <2> QED BY <2>3, <2>4 DEF Setting
<1>7. f \in [1 .. SleepCap -> S] /\ g \in [1 .. OvfCap -> S]
  BY <1>4, <1>5
<1>8. \/ \E i, j \in 1 .. SleepCap : i # j /\ f[i] = f[j]
      \/ \E i, j \in 1 .. OvfCap : i # j /\ g[i] = g[j]
      \/ \E i \in 1 .. SleepCap, j \in 1 .. OvfCap : f[i] = g[j]
  <2>1. SleepCap \in Nat /\ OvfCap \in Nat /\ Crowded(S, SleepCap + OvfCap)
    BY <1>6 DEF Crowded
  <2> HIDE DEF f, g, S
  <2>2. Shared(f, g, SleepCap, OvfCap)
    BY <2>1, <1>7, TwoTables
  <2> QED BY <2>2 DEF Shared
<1>9. /\ \A i \in 1 .. SleepCap : main[i].slot \in Slots
      /\ \A i \in 1 .. OvfCap : ovf[i].slot \in Slots
  BY <1>1, FullTable
<1> QED BY <1>8, <1>9 DEF WakeInv, Tidy, TidyTable

LEMMA InsertSleepWakes ==
  ASSUME Setting, WakeInv, IInv', InsertSleep
  PROVE  WakeInv'
<1>0. PICK r \in Slots : r = current
  BY Executing
<1>1. pc[r] = "insert" /\ UNCHANGED <<tasks, current, irq, arg, left, queue>>
  BY <1>0 DEF InsertSleep, At
<1>2. /\ SleepThread(r) /\ RecvThread(r) /\ tasks[r].st = "Running"
      /\ ~SleepBlocked(r) /\ ~HasEntry(r)
  BY <1>0, <1>1, Executing
<1>3. r \in Sleepers /\ irq[r] = FALSE /\ left[r] \in 1 .. MaxSleep
  BY <1>1, <1>2, BlockingFacts DEF SleepThread, WakeInv, IInv, TypeOK
<1>4. Max({left[r], 1}) = left[r]
  BY <1>3, MaxOfTwo
<1>5. TakeEntry(left[r])
  BY <1>0, <1>4 DEF InsertSleep
<1>6. /\ main \in Rows(SleepCap) /\ ovf \in Rows(OvfCap) /\ current \in Slots
      /\ SleepCap \in Nat /\ OvfCap \in Nat /\ pc \in [Slots -> PCs]
  BY BlockingFacts DEF WakeInv, IInv, TypeOK, Rows
<1>7. /\ \A i \in 1 .. SleepCap : main[i].slot # r
      /\ \A i \in 1 .. OvfCap : ovf[i].slot # r
  BY <1>2 DEF HasEntry
<1>8. /\ pc' = [pc EXCEPT ![r] = "slblock"] /\ Tidy' /\ HasEntry(r)'
      /\ \A s \in Slots \ {r} : HasEntry(s)' <=> HasEntry(s)
  <2>1. CASE FreeEntries(main) # {}
    <3>1. main' = Put(main, left[r]) /\ ovf' = ovf /\ pc' = [pc EXCEPT ![r] = "slblock"]
      BY <1>0, <1>5, <2>1 DEF TakeEntry, Goto
    <3>2. PICK j \in 1 .. SleepCap :
             /\ main[j].slot \notin Slots /\ main'[j].slot = r /\ main'[j].left = left[r]
             /\ \A i \in (1 .. SleepCap) \ {j} : main'[i] = main[i]
      BY <1>0, <1>3, <1>6, <2>1, <3>1, PutIs
    <3>3. HasEntry(r)'
      BY <3>2 DEF HasEntry
    <3>4. \A s \in Slots \ {r} : HasEntry(s)' <=> HasEntry(s)
      BY <3>1, <3>2 DEF HasEntry
    <3>5. Tidy'
      <4>1. TidyTable(main, SleepCap)'
        BY <1>1, <1>7, <3>2 DEF WakeInv, Tidy, TidyTable
      <4>2. TidyTable(ovf, OvfCap)'
        BY <1>1, <3>1 DEF WakeInv, Tidy, TidyTable
      <4>3. \A i \in 1 .. SleepCap, k \in 1 .. OvfCap :
               main'[i].slot = ovf'[k].slot => main'[i].slot \notin Slots
        BY <1>7, <3>1, <3>2 DEF WakeInv, Tidy
      <4> QED BY <4>1, <4>2, <4>3 DEF Tidy
    <3> QED BY <3>1, <3>3, <3>4, <3>5
  <2>2. CASE FreeEntries(main) = {}
    <3>0. FreeEntries(ovf) # {}
      BY <1>0, <1>1, <2>2, RoomToSleep DEF At
    <3>1. ovf' = Put(ovf, left[r]) /\ main' = main /\ pc' = [pc EXCEPT ![r] = "slblock"]
      BY <1>0, <1>5, <2>2, <3>0 DEF TakeEntry, Goto
    <3>2. PICK j \in 1 .. OvfCap :
             /\ ovf[j].slot \notin Slots /\ ovf'[j].slot = r /\ ovf'[j].left = left[r]
             /\ \A i \in (1 .. OvfCap) \ {j} : ovf'[i] = ovf[i]
      BY <1>0, <1>3, <1>6, <3>0, <3>1, PutIs
    <3>3. HasEntry(r)'
      BY <3>2 DEF HasEntry
    <3>4. \A s \in Slots \ {r} : HasEntry(s)' <=> HasEntry(s)
      BY <3>1, <3>2 DEF HasEntry
    <3>5. Tidy'
      <4>1. TidyTable(ovf, OvfCap)'
        BY <1>1, <1>7, <3>2 DEF WakeInv, Tidy, TidyTable
      <4>2. TidyTable(main, SleepCap)'
        BY <1>1, <3>1 DEF WakeInv, Tidy, TidyTable
      <4>3. \A i \in 1 .. SleepCap, k \in 1 .. OvfCap :
               main'[i].slot = ovf'[k].slot => main'[i].slot \notin Slots
        BY <1>7, <3>1, <3>2 DEF WakeInv, Tidy
      <4> QED BY <4>1, <4>2, <4>3 DEF Tidy
    <3> QED BY <3>1, <3>3, <3>4, <3>5
  <2> QED BY <2>1, <2>2
<1>9. pc'[r] = "slblock" /\ \A s \in Slots \ {r} : pc'[s] = pc[s]
  BY <1>6, <1>8
<1>10. SleepThread(r)' /\ RecvThread(r)' /\ SendThread(r)'
  BY <1>1, <1>2, <1>3, <1>8, <1>9 DEF SleepThread, SleepBlocked, InSleep, RecvThread, SendThread
<1>11. NoLostMessageWakeup'
  BY <1>0, <1>1, NoneWaiting, NoneWaitingNext
<1> QED BY <1>0, <1>1, <1>2, <1>8, <1>9, <1>10, <1>11, OwnStep

-----------------------------------------------------------------------------
(* schedule(): from a thread's own code, and from within its two waits.    *)
LEMMA ScheduleWakes ==
  ASSUME Setting, WakeInv, IInv', NEW p, Schedule(p),
         \/ pc[current] = "run" /\ p = "run"
         \/ pc[current] = "slsched" /\ p = "slept"
         \/ pc[current] = "rsched" /\ p = "rtok"
  PROVE  WakeInv'
<1>0. PICK r \in Slots : r = current
  BY Executing
<1>1. /\ pc' = [pc EXCEPT ![r] = p] /\ irq' = [irq EXCEPT ![r] = TRUE]
      /\ UNCHANGED <<arg, queue, left, main, ovf>> /\ Dispatch(tasks)
  BY <1>0 DEF Schedule, Goto, SameSleeps
<1>2. /\ SleepThread(r) /\ RecvThread(r) /\ SendThread(r)
      /\ tasks[r].st = "Blocked" => ReadySet(tasks) # {}
  BY <1>0, Executing
<1>3. /\ \A s \in Slots : tasks[s].st \in {"Ready", "Running", "Blocked"}
      /\ \A s \in Slots \ {r} : tasks[s].st # "Running"
      /\ tasks[r].st \in {"Running", "Blocked"}
  BY <1>0 DEF WakeInv, OneRuns
<1>4. /\ \A s \in Slots : /\ tasks'[s].st \in {"Ready", "Running", "Blocked"}
                          /\ tasks'[s].st = "Blocked" <=> tasks[s].st = "Blocked"
                          /\ tasks'[s].wait = tasks[s].wait /\ tasks'[s].token = tasks[s].token
      /\ \A s \in Slots \ {current'} : tasks'[s].st # "Running"
      /\ tasks'[current'].st = "Running"
  <2>1. Settled(tasks) /\ current \in Slots
    BY <1>0, <1>2, <1>3, Executing DEF Settled
  <2>2. SameWaits(tasks)
    BY <1>1, <2>1, DispatchRuns
  <2> QED BY <1>1, <2>1, <2>2, DispatchRuns DEF SameWaits
<1>5. pc \in [Slots -> PCs] /\ irq \in [Slots -> BOOLEAN]
  BY DEF WakeInv, IInv, TypeOK
<1>6. pc'[r] = p /\ \A s \in Slots \ {r} : pc'[s] = pc[s] /\ irq'[s] = irq[s]
  BY <1>1, <1>5
<1>7. Tidy' /\ \A s : HasEntry(s)' <=> HasEntry(s)
  BY <1>1, TidySame
<1>8. SleepThread(r)' /\ RecvThread(r)' /\ SendThread(r)'
  <2>1. /\ tasks'[r].st = "Blocked" <=> tasks[r].st = "Blocked"
        /\ tasks'[r].wait = tasks[r].wait /\ tasks'[r].token = tasks[r].token
    BY <1>4
  <2>2. CASE pc[r] = "run" /\ p = "run"
    BY <1>1, <1>2, <1>6, <1>7, <2>1, <2>2
       DEF SleepThread, SleepBlocked, InSleep, RecvThread, SendThread
  <2>3. CASE pc[r] = "slsched" /\ p = "slept"
    BY <1>1, <1>2, <1>6, <1>7, <2>1, <2>3
       DEF SleepThread, SleepBlocked, InSleep, RecvThread, SendThread
  <2>4. CASE pc[r] = "rsched" /\ p = "rtok"
    BY <1>1, <1>2, <1>6, <1>7, <2>1, <2>4
       DEF SleepThread, SleepBlocked, InSleep, RecvThread, SendThread
  <2> QED BY <1>0, <2>2, <2>3, <2>4
<1>9. ASSUME NEW s \in Slots \ {r} PROVE SleepThread(s)' /\ RecvThread(s)' /\ SendThread(s)'
  <2>1. Alike(s)
    BY <1>1, <1>4, <1>6, <1>7 DEF Alike
  <2>2. SleepThread(s) /\ RecvThread(s) /\ SendThread(s)
    BY <1>0, OthersAre
  <2> QED BY <1>1, <2>1, <2>2, AlikeKeeps
<1>10. Threads'
  BY <1>8, <1>9 DEF Threads
<1>11. OneRuns'
  BY <1>4 DEF OneRuns
<1>12. NoLostMessageWakeup'
  <2>1. ASSUME NEW d \in Channels, queue'[d] > 0, NEW s \in Slots
        PROVE  ~(tasks'[s].st = "Blocked" /\ tasks'[s].wait = d)
    BY <1>1, <1>4, <2>1, NoneWaiting
  <2> QED BY <2>1, NoneWaitingNext
<1> QED BY <1>7, <1>10, <1>11, <1>12 DEF WakeInv

-----------------------------------------------------------------------------
(* Interrupts.  One comes only when every thread has them on, so between   *)
(* two calls of schedule() or in a wait.                                   *)
LEMMA AllUnmasked ==
  ASSUME Setting, WakeInv, irq[current], NEW s \in Slots
  PROVE  /\ SleepThread(s) /\ RecvThread(s) /\ SendThread(s)
         /\ pc[s] \notin {"insert", "slblock", "slsched", "rblock", "rsched", "wake"}
<1>1. irq[s] # FALSE
  BY DEF WakeInv, IInv, MaskedExecutes
<1> QED BY <1>1, OthersUnmasked DEF WakeInv, Threads

LEMMA ExecutingRuns ==
  ASSUME Setting, WakeInv, irq[current]
  PROVE  /\ current \in Slots /\ tasks[current].st = "Running" /\ pc[current] # "wake"
         /\ \A s \in Slots : tasks[s].st \in {"Ready", "Running", "Blocked"}
         /\ \A s \in Slots \ {current} : tasks[s].st # "Running"
<1>1. current \in Slots
  BY Executing
<1>2. pc[current] \notin {"slsched", "rsched", "wake"}
  BY <1>1, AllUnmasked
<1> QED BY <1>1, <1>2, Executing DEF WakeInv, OneRuns

(* What a tick does to one table: the entries that are due go, the others  *)
(* lose a tick.                                                            *)
LEMMA AdvanceIs ==
  ASSUME NEW m \in Nat, NEW tbl \in Rows(m), NEW i \in 1 .. m
  PROVE  IF tbl[i].slot \in Slots /\ tbl[i].left # 1
         THEN /\ Advance(tbl)[i].slot = tbl[i].slot
              /\ Advance(tbl)[i].left = tbl[i].left - 1 /\ tbl[i].left > 1
         ELSE Advance(tbl)[i].slot \notin Slots
<1> USE BlockingFacts
<1>1. DOMAIN tbl = 1 .. m /\ (tbl[i] \in SleepEntries \/ tbl[i] = NoSleep)
  BY DEF Rows
<1>2. NoSleep.left = 0 /\ NoSleep.slot = NoSlot
  BY DEF NoSleep
<1>3. CASE tbl[i] \in SleepEntries
  <2>1. tbl[i].slot \in Slots /\ tbl[i].left \in 1 .. MaxSleep
    BY <1>3 DEF SleepEntries
  <2>2. /\ [tbl[i] EXCEPT !.left = @ - 1].slot = tbl[i].slot
        /\ [tbl[i] EXCEPT !.left = @ - 1].left = tbl[i].left - 1
    BY <1>3 DEF SleepEntries
  <2>3. CASE tbl[i].left = 1
    <3>1. Advance(tbl)[i] = NoSleep
      BY <1>1, <2>3 DEF Advance
    <3> QED BY <1>2, <2>3, <3>1
  <2>4. CASE tbl[i].left # 1
    <3>1. tbl[i].left > 1 /\ ~(tbl[i].left <= 1)
      BY <2>1, <2>4
    <3>2. Advance(tbl)[i] = [tbl[i] EXCEPT !.left = @ - 1]
      BY <1>1, <3>1 DEF Advance
    <3> QED BY <2>1, <2>2, <2>4, <3>1, <3>2
  <2> QED BY <2>3, <2>4
<1>4. CASE tbl[i] = NoSleep
  <2>1. Advance(tbl)[i] = NoSleep
    BY <1>1, <1>2, <1>4 DEF Advance
  <2> QED BY <1>2, <1>4, <2>1
<1> QED BY <1>1, <1>3, <1>4

LEMMA DueIs ==
  ASSUME NEW m \in Nat, NEW tbl \in Rows(m), NEW s \in Slots
  PROVE  s \in Due(tbl) <=> \E i \in 1 .. m : tbl[i].slot = s /\ tbl[i].left = 1
<1>1. DOMAIN tbl = 1 .. m
  BY DEF Rows
<1>2. NoSleep.left = 0
  BY DEF NoSleep
<1> QED BY <1>1, <1>2 DEF Due

(* ... and to both: with the entries agreeing with the sleepers' deadlines, *)
(* the tasks woken are those that reach theirs.                            *)
LEMMA AdvanceBoth ==
  ASSUME IInv, Tidy, main' = Advance(main), ovf' = Advance(ovf),
         left' = [s \in Slots |-> Max({left[s] - 1, 0})]
  PROVE  /\ Tidy'
         /\ \A s \in Slots :
              /\ s \in Due(main) \cup Due(ovf) <=> HasEntry(s) /\ left[s] = 1
              /\ HasEntry(s)' <=> (HasEntry(s) /\ left[s] # 1)
              /\ HasEntry(s) => left[s] > 0
              /\ left'[s] = IF left[s] > 0 THEN left[s] - 1 ELSE 0
<1> USE BlockingFacts
<1>1. /\ main \in Rows(SleepCap) /\ ovf \in Rows(OvfCap)
      /\ SleepCap \in Nat /\ OvfCap \in Nat /\ left \in [Slots -> 0 .. MaxSleep]
  BY DEF IInv, TypeOK, Rows
<1>2. ASSUME NEW s \in Slots
      PROVE  left[s] \in Nat /\ left'[s] = IF left[s] > 0 THEN left[s] - 1 ELSE 0
  BY <1>1, MaxOfTwo
<1>3. \A i \in 1 .. SleepCap :
        IF main[i].slot \in Slots /\ main[i].left # 1
        THEN main'[i].slot = main[i].slot /\ main'[i].left = main[i].left - 1 /\ main[i].left > 1
        ELSE main'[i].slot \notin Slots
  BY <1>1, AdvanceIs
<1>4. \A i \in 1 .. OvfCap :
        IF ovf[i].slot \in Slots /\ ovf[i].left # 1
        THEN ovf'[i].slot = ovf[i].slot /\ ovf'[i].left = ovf[i].left - 1 /\ ovf[i].left > 1
        ELSE ovf'[i].slot \notin Slots
  BY <1>1, AdvanceIs
<1>5. /\ \A i \in 1 .. SleepCap : main[i].slot \in Slots => main[i].left = left[main[i].slot]
      /\ \A i \in 1 .. OvfCap : ovf[i].slot \in Slots => ovf[i].left = left[ovf[i].slot]
  BY DEF Tidy, TidyTable
<1>6. ASSUME NEW s \in Slots
      PROVE  s \in Due(main) \cup Due(ovf) <=> HasEntry(s) /\ left[s] = 1
  <2>1. s \in Due(main) <=> \E i \in 1 .. SleepCap : main[i].slot = s /\ left[s] = 1
    BY <1>1, <1>5, DueIs
  <2>2. s \in Due(ovf) <=> \E i \in 1 .. OvfCap : ovf[i].slot = s /\ left[s] = 1
    BY <1>1, <1>5, DueIs
  <2> QED BY <2>1, <2>2 DEF HasEntry
<1>7. ASSUME NEW s \in Slots
      PROVE  (HasEntry(s)' <=> (HasEntry(s) /\ left[s] # 1)) /\ (HasEntry(s) => left[s] > 0)
  <2>1. ASSUME NEW i \in 1 .. SleepCap
        PROVE  /\ main'[i].slot = s <=> (main[i].slot = s /\ left[s] # 1)
               /\ main[i].slot = s => left[s] > 0
    <3>1. CASE main[i].slot = s
      <4>1. main[i].left = left[s] /\ left[s] \in Nat
        BY <1>2, <1>5, <3>1
      <4>2. IF left[s] # 1 THEN main'[i].slot = s /\ left[s] > 1 ELSE main'[i].slot \notin Slots
        BY <1>3, <3>1, <4>1
      <4> QED BY <3>1, <4>1, <4>2
    <3>2. CASE main[i].slot # s
      <4>1. main'[i].slot = main[i].slot \/ main'[i].slot \notin Slots
        BY <1>3
      <4> QED BY <3>2, <4>1
    <3> QED BY <3>1, <3>2
  <2>2. ASSUME NEW i \in 1 .. OvfCap
        PROVE  /\ ovf'[i].slot = s <=> (ovf[i].slot = s /\ left[s] # 1)
               /\ ovf[i].slot = s => left[s] > 0
    <3>1. CASE ovf[i].slot = s
      <4>1. ovf[i].left = left[s] /\ left[s] \in Nat
        BY <1>2, <1>5, <3>1
      <4>2. IF left[s] # 1 THEN ovf'[i].slot = s /\ left[s] > 1 ELSE ovf'[i].slot \notin Slots
        BY <1>4, <3>1, <4>1
      <4> QED BY <3>1, <4>1, <4>2
    <3>2. CASE ovf[i].slot # s
      <4>1. ovf'[i].slot = ovf[i].slot \/ ovf'[i].slot \notin Slots
        BY <1>4
      <4> QED BY <3>2, <4>1
    <3> QED BY <3>1, <3>2
  <2> QED BY <2>1, <2>2 DEF HasEntry
<1>8. TidyTable(main, SleepCap)'
  <2>1. ASSUME NEW i \in 1 .. SleepCap, main'[i].slot \in Slots
        PROVE  main'[i].left = left'[main'[i].slot]
    <3>1. /\ main[i].slot \in Slots /\ main'[i].slot = main[i].slot
          /\ main'[i].left = main[i].left - 1 /\ main[i].left > 1
      BY <1>3, <2>1
    <3>2. PICK s \in Slots : s = main[i].slot
      BY <3>1
    <3>3. main[i].left = left[s]
      BY <1>5, <3>1, <3>2
    <3>4. left'[s] = left[s] - 1
      BY <1>2, <3>1, <3>3
    <3> QED BY <3>1, <3>2, <3>3, <3>4
  <2>2. ASSUME NEW i \in 1 .. SleepCap, NEW j \in 1 .. SleepCap,
               main'[i].slot = main'[j].slot, main'[i].slot \in Slots
        PROVE  i = j
    BY <1>3, <2>2 DEF Tidy, TidyTable
  <2> QED BY <2>1, <2>2 DEF TidyTable
<1>9. TidyTable(ovf, OvfCap)'
  <2>1. ASSUME NEW i \in 1 .. OvfCap, ovf'[i].slot \in Slots
        PROVE  ovf'[i].left = left'[ovf'[i].slot]
    <3>1. /\ ovf[i].slot \in Slots /\ ovf'[i].slot = ovf[i].slot
          /\ ovf'[i].left = ovf[i].left - 1 /\ ovf[i].left > 1
      BY <1>4, <2>1
    <3>2. PICK s \in Slots : s = ovf[i].slot
      BY <3>1
    <3>3. ovf[i].left = left[s]
      BY <1>5, <3>1, <3>2
    <3>4. left'[s] = left[s] - 1
      BY <1>2, <3>1, <3>3
    <3> QED BY <3>1, <3>2, <3>3, <3>4
  <2>2. ASSUME NEW i \in 1 .. OvfCap, NEW j \in 1 .. OvfCap,
               ovf'[i].slot = ovf'[j].slot, ovf'[i].slot \in Slots
        PROVE  i = j
    BY <1>4, <2>2 DEF Tidy, TidyTable
  <2> QED BY <2>1, <2>2 DEF TidyTable
<1>10. ASSUME NEW i \in 1 .. SleepCap, NEW j \in 1 .. OvfCap,
              main'[i].slot = ovf'[j].slot, main'[i].slot \in Slots
       PROVE  FALSE
  BY <1>3, <1>4, <1>10 DEF Tidy
<1>11. Tidy'
  BY <1>8, <1>9, <1>10 DEF Tidy
<1> QED BY <1>2, <1>6, <1>7, <1>11

LEMMA WakeAllIs ==
  ASSUME NEW T \in Tables, NEW D, NEW s \in Slots
  PROVE  IF s \in D /\ T[s].st = "Blocked"
         THEN WakeAll(T, D)[s].st = "Ready"
         ELSE WakeAll(T, D)[s] = T[s]
<1>1. [T[s] EXCEPT !.st = "Ready", !.wait = Nil, !.token = TRUE].st = "Ready"
  BY DEF Tables, Task
<1>2. WakeTask(T, s)[s] = IF T[s].st = "Blocked"
                          THEN [T[s] EXCEPT !.st = "Ready", !.wait = Nil, !.token = TRUE]
                          ELSE T[s]
  BY DEF WakeTask, Tables
<1> QED BY <1>1, <1>2 DEF WakeAll

LEMMA TickWakes ==
  ASSUME Setting, WakeInv, IInv', NEW sliceEnds \in BOOLEAN, Tick(sliceEnds)
  PROVE  WakeInv'
<1> DEFINE D == Due(main) \cup Due(ovf)
           T == WakeAll(tasks, D)
<1>1. /\ irq[current] /\ main' = Advance(main) /\ ovf' = Advance(ovf)
      /\ left' = [s \in Slots |-> Max({left[s] - 1, 0})]
      /\ Dispatch(T) \/ (tasks' = T /\ current' = current)
      /\ UNCHANGED <<pc, irq, arg, queue>>
  BY DEF Tick
<1>2. IInv /\ Tidy
  BY DEF WakeInv
<1>3. /\ Tidy'
      /\ \A s \in Slots :
              /\ s \in D <=> HasEntry(s) /\ left[s] = 1
              /\ HasEntry(s)' <=> (HasEntry(s) /\ left[s] # 1)
              /\ HasEntry(s) => left[s] > 0
              /\ left'[s] = IF left[s] > 0 THEN left[s] - 1 ELSE 0
  BY <1>1, <1>2, AdvanceBoth
<1>4. /\ current \in Slots /\ tasks[current].st = "Running" /\ pc[current] # "wake"
      /\ \A s \in Slots : tasks[s].st \in {"Ready", "Running", "Blocked"}
      /\ \A s \in Slots \ {current} : tasks[s].st # "Running"
  BY <1>1, ExecutingRuns
<1>5. T \in Tables /\ \A s \in Slots : IF s \in D /\ tasks[s].st = "Blocked"
                                       THEN T[s].st = "Ready"
                                       ELSE T[s] = tasks[s]
  <2>1. tasks \in Tables
    BY Executing
  <2> HIDE DEF D
  <2> QED BY <2>1, WakeAllEffect, WakeAllIs
<1> HIDE DEF D, T
<1>6. Settled(T)
  BY <1>4, <1>5 DEF Settled
<1>7. /\ SameWaits(T) /\ \A s \in Slots : tasks'[s].st \in {"Ready", "Running", "Blocked"}
      /\ \A s \in Slots \ {current'} : tasks'[s].st # "Running"
      /\ tasks'[current'].st = "Running"
  <2>1. CASE Dispatch(T)
    BY <1>4, <1>6, <2>1, DispatchRuns
  <2>2. CASE tasks' = T /\ current' = current
    BY <1>4, <1>5, <2>2 DEF SameWaits
  <2> QED BY <1>1, <2>1, <2>2
<1>8. ASSUME NEW s \in Slots PROVE SleepThread(s)' /\ RecvThread(s)' /\ SendThread(s)'
  <2>1. /\ SleepThread(s) /\ RecvThread(s) /\ SendThread(s)
        /\ pc[s] \notin {"insert", "slblock", "slsched", "rblock", "rsched", "wake"}
    BY <1>1, AllUnmasked
  <2>2. /\ tasks'[s].st = "Blocked" <=> T[s].st = "Blocked"
        /\ tasks'[s].wait = T[s].wait /\ tasks'[s].token = T[s].token
    BY <1>7 DEF SameWaits
  <2>3. left[s] \in Nat
    BY <1>2, BlockingFacts DEF IInv, TypeOK
  <2>4. CASE s \in D
    <3>1. HasEntry(s) /\ left[s] = 1
      BY <1>3, <2>4
    <3>2. pc[s] = "slept" /\ tasks[s].st = "Blocked"
      BY <2>1, <3>1 DEF SleepThread, InSleep, SleepBlocked
    <3>3. T[s].st = "Ready"
      BY <1>5, <2>4, <3>2
    <3>4. pc'[s] = "slept" /\ left'[s] = 0 /\ ~HasEntry(s)' /\ tasks'[s].st # "Blocked"
      BY <1>1, <1>3, <2>2, <3>1, <3>2, <3>3
    <3>5. s \in Sleepers
      BY <2>1, <3>2 DEF SleepThread
    <3> QED BY <3>4, <3>5 DEF SleepThread, InSleep, SleepBlocked, RecvThread, SendThread
  <2>5. CASE s \notin D
    <3>1. T[s] = tasks[s]
      BY <1>5, <2>5
    <3>2. HasEntry(s)' <=> HasEntry(s)
      BY <1>3, <2>5
    <3>3. left'[s] > 0 <=> HasEntry(s) \/ left[s] > 1
      BY <1>3, <2>3, <2>5
    <3>4. InSleep(s)' <=> InSleep(s)
      BY <1>1, <1>3, <2>1, <2>3, <2>5, <3>3 DEF InSleep, SleepThread
    <3>5. SleepThread(s)'
      BY <1>1, <2>1, <2>2, <3>1, <3>2, <3>4 DEF SleepThread, SleepBlocked
    <3>6. RecvThread(s)'
      BY <1>1, <2>1, <2>2, <3>1 DEF RecvThread
    <3>7. SendThread(s)'
      BY <1>1, <2>1 DEF SendThread
    <3> QED BY <3>5, <3>6, <3>7
  <2> QED BY <2>4, <2>5
<1>9. Threads'
  BY <1>8 DEF Threads
<1>10. OneRuns'
  BY <1>7 DEF OneRuns
<1>11. NoLostMessageWakeup'
  <2>1. ASSUME NEW d \in Channels, queue'[d] > 0, NEW s \in Slots,
               tasks'[s].st = "Blocked" /\ tasks'[s].wait = d
        PROVE  FALSE
    <3>1. T[s].st = "Blocked" /\ T[s].wait = d
      BY <1>7, <2>1 DEF SameWaits
    <3>2. tasks[s].st = "Blocked" /\ tasks[s].wait = d
      BY <1>5, <3>1
    <3> QED BY <1>1, <1>4, <2>1, <3>2, NoneWaiting
  <2> QED BY <2>1, NoneWaitingNext
<1> QED BY <1>3, <1>9, <1>10, <1>11 DEF WakeInv

LEMMA FrameTickWakes ==
  ASSUME Setting, WakeInv, IInv', NEW c \in IrqChans, FrameTick(c)
  PROVE  WakeInv'
<1>1. /\ irq[current] /\ queue' = [queue EXCEPT ![c] = @ + 1]
      /\ tasks' = WakeBlockedOn(tasks, c)
      /\ UNCHANGED <<current, pc, irq, arg, left, main, ovf>>
  BY DEF FrameTick, SameSleeps
<1>2. /\ current \in Slots /\ tasks[current].st = "Running" /\ pc[current] # "wake"
      /\ \A s \in Slots : tasks[s].st \in {"Ready", "Running", "Blocked"}
      /\ \A s \in Slots \ {current} : tasks[s].st # "Running"
  BY <1>1, ExecutingRuns
<1>3. /\ queue \in [Channels -> 0 .. QueueCap] /\ queue' \in [Channels -> 0 .. QueueCap]
      /\ c \in Channels
  BY BlockingFacts DEF WakeInv, IInv, TypeOK
<1>4. queue'[c] > 0 /\ (\A d \in Channels : queue'[d] >= queue[d])
      /\ \A d \in Channels \ {c} : queue'[d] = queue[d]
  BY <1>1, <1>3, BlockingFacts
<1>5. Tidy' /\ \A s : HasEntry(s)' <=> HasEntry(s)
  BY <1>1, TidySame
<1>6. ASSUME NEW s \in Slots PROVE SleepThread(s)' /\ RecvThread(s)' /\ SendThread(s)'
  <2>1. pc[s] \notin {"rblock", "rsched", "wake"}
    BY <1>1, AllUnmasked
  <2>2. pc'[s] = pc[s] /\ irq'[s] = irq[s] /\ arg'[s] = arg[s] /\ left'[s] = left[s]
    BY <1>1
  <2> QED BY <1>1, <1>3, <1>4, <1>5, <2>1, <2>2, WokenReceiver
<1>7. Threads'
  BY <1>6 DEF Threads
<1>8. \A s \in Slots : IF tasks[s].st = "Blocked" /\ tasks[s].wait = c
                       THEN tasks'[s].st = "Ready" ELSE tasks'[s] = tasks[s]
  BY <1>1, Executing, WakeBlockedIs
<1>9. OneRuns'
  BY <1>1, <1>2, <1>8 DEF OneRuns
<1>10. NoLostMessageWakeup'
  <2>1. ASSUME NEW d \in Channels, queue'[d] > 0, NEW s \in Slots,
               tasks'[s].st = "Blocked" /\ tasks'[s].wait = d
        PROVE  FALSE
    <3>1. tasks[s].st = "Blocked" /\ tasks[s].wait = d /\ d # c
      BY <1>8, <2>1
    <3> QED BY <1>2, <1>4, <2>1, <3>1, NoneWaiting
  <2> QED BY <2>1, NoneWaitingNext
<1> QED BY <1>5, <1>7, <1>9, <1>10 DEF WakeInv

LEMMA WakeTaskIs ==
  ASSUME NEW T \in Tables, NEW d \in Slots, T[d].st = "Blocked"
  PROVE  /\ WakeTask(T, d)[d].st = "Ready" /\ WakeTask(T, d)[d].token
         /\ \A s \in Slots \ {d} : WakeTask(T, d)[s] = T[s]
BY DEF WakeTask, Tables, Task

LEMMA WakeDisplayWakes ==
  ASSUME Setting, WakeInv, IInv', WakeDisplay
  PROVE  WakeInv'
<1> DEFINE d == Display
<1>1. /\ irq[current] /\ d \in Slots /\ tasks' = WakeTask(tasks, d)
      /\ UNCHANGED <<current, pc, irq, arg, queue, left, main, ovf>>
  BY DEF WakeDisplay, SameSleeps
<1>2. /\ current \in Slots /\ tasks[current].st = "Running" /\ pc[current] # "wake"
      /\ \A s \in Slots : tasks[s].st \in {"Ready", "Running", "Blocked"}
      /\ \A s \in Slots \ {current} : tasks[s].st # "Running"
  BY <1>1, ExecutingRuns
<1>3. /\ SleepThread(d) /\ RecvThread(d) /\ SendThread(d)
      /\ pc[d] \notin {"insert", "slblock", "slsched", "rblock", "rsched", "wake"}
  BY <1>1, AllUnmasked
<1>4. Tidy' /\ \A s : HasEntry(s)' <=> HasEntry(s)
  BY <1>1, TidySame
<1>5. tasks \in Tables
  BY Executing
<1>6. CASE tasks[d].st = "Blocked"
  <2>1. /\ tasks'[d].st = "Ready" /\ tasks'[d].token
        /\ \A s \in Slots \ {d} : tasks'[s] = tasks[s]
    <3> HIDE DEF d
    <3> QED BY <1>1, <1>5, <1>6, WakeTaskIs
  <2>2. d \notin Sleepers
    BY DEF Setting
  <2>3. ~InSleep(d) /\ ~SleepBlocked(d)
    BY <1>3, <2>2 DEF SleepThread, InSleep
  <2>4. pc[d] = "rtok"
    BY <1>3, <1>6, <2>3 DEF RecvThread, SleepBlocked
  <2>5. SleepThread(d)'
    BY <1>1, <1>3, <1>4, <2>1, <2>3, <2>4 DEF SleepThread, InSleep, SleepBlocked
  <2>6. RecvThread(d)' /\ SendThread(d)'
    BY <1>1, <1>3, <2>1, <2>4 DEF RecvThread, SendThread
  <2>7. ASSUME NEW s \in Slots \ {d} PROVE SleepThread(s)' /\ RecvThread(s)' /\ SendThread(s)'
    <3>1. Alike(s)
      BY <1>1, <1>4, <2>1 DEF Alike
    <3>2. SleepThread(s) /\ RecvThread(s) /\ SendThread(s)
      BY DEF WakeInv, Threads
    <3> QED BY <1>1, <3>1, <3>2, AlikeKeeps
  <2>8. Threads'
    <3> HIDE DEF d
    <3> QED BY <2>5, <2>6, <2>7 DEF Threads
  <2>9. OneRuns'
    BY <1>1, <1>2, <1>6, <2>1 DEF OneRuns
  <2>10. NoLostMessageWakeup'
    <3>1. ASSUME NEW c \in Channels, queue'[c] > 0, NEW s \in Slots,
                 tasks'[s].st = "Blocked" /\ tasks'[s].wait = c
          PROVE  FALSE
      <4>1. tasks[s].st = "Blocked" /\ tasks[s].wait = c
        BY <2>1, <3>1
      <4> QED BY <1>1, <1>2, <3>1, <4>1, NoneWaiting
    <3> QED BY <3>1, NoneWaitingNext
  <2> QED BY <1>4, <2>8, <2>9, <2>10 DEF WakeInv
<1>7. CASE tasks[d].st # "Blocked"
  <2>1. tasks' = tasks
    BY <1>1, <1>7 DEF WakeTask
  <2> QED BY <1>1, <2>1 DEF WakeInv, Tidy, TidyTable, HasEntry, Threads, SleepThread, InSleep,
        SleepBlocked, RecvThread, SendThread, OneRuns, NoLostMessageWakeup, WaitersFor
<1> QED BY <1>6, <1>7

-----------------------------------------------------------------------------
LEMMA InitWakes == ASSUME Setting, Init PROVE WakeInv
<1> USE BlockingFacts
<1>1. IInv
  BY InitInv
<1>2. /\ \A s \in Slots : ~HasEntry(s)
      /\ \A i \in 1 .. SleepCap : main[i].slot \notin Slots
      /\ \A i \in 1 .. OvfCap : ovf[i].slot \notin Slots
  BY DEF Init, HasEntry, NoSleep
<1>3. Tidy
  BY <1>2 DEF Tidy, TidyTable
<1>4. \A s \in Slots : tasks[s].st = IF s = 0 THEN "Running" ELSE "Ready"
  <2>1. ASSUME NEW s \in Slots
        PROVE  [NewTask(s + 1, 0, IF s \in Urgent THEN 3 ELSE 0) EXCEPT
                  !.st = IF s = 0 THEN "Running" ELSE "Ready"].st
               = IF s = 0 THEN "Running" ELSE "Ready"
    <3>1. NewTask(s + 1, 0, IF s \in Urgent THEN 3 ELSE 0) \in Task
      BY NewTaskType
    <3> QED BY <3>1 DEF Task
  <2> QED BY <2>1 DEF Init
<1>5. current = 0 /\ \A s \in Slots : pc[s] = "run"
  BY DEF Init
<1>6. Threads
  BY <1>2, <1>4, <1>5 DEF Threads, SleepThread, InSleep, SleepBlocked, RecvThread, SendThread
<1>7. OneRuns
  BY <1>4, <1>5 DEF OneRuns
<1>8. NoLostMessageWakeup
  BY DEF Init, NoLostMessageWakeup
<1> QED BY <1>1, <1>3, <1>6, <1>7, <1>8 DEF WakeInv

LEMMA NextWakes == ASSUME Setting, WakeInv, [Next]_vars PROVE WakeInv'
<1>1. IInv'
  BY SettingFacts, NextPreserves DEF WakeInv
<1>2. CASE Yield
  BY <1>1, <1>2, ScheduleWakes DEF Yield, At
<1>3. CASE ScheduleSleep
  BY <1>1, <1>3, ScheduleWakes DEF ScheduleSleep, At
<1>4. CASE ScheduleRecv
  BY <1>1, <1>4, ScheduleWakes DEF ScheduleRecv, At
<1>5. CASE InsertSleep \/ BlockSleep \/ EndSleep
  BY <1>1, <1>5, InsertSleepWakes, BlockSleepWakes, EndSleepWakes
<1>6. CASE TryRecv \/ BlockRecv \/ EndRecv \/ Wake
  BY <1>1, <1>6, TryRecvWakes, BlockRecvWakes, EndRecvWakes, WakeWakes
<1>7. CASE Tick(TRUE) \/ Tick(FALSE)
  BY <1>1, <1>7, TickWakes
<1>8. CASE WakeDisplay
  BY <1>1, <1>8, WakeDisplayWakes
<1>9. CASE \E c \in IrqChans : FrameTick(c)
  BY <1>1, <1>9, FrameTickWakes
<1>10. CASE \E n \in 1 .. MaxSleep : StartSleep(n)
  BY <1>1, <1>10, StartSleepWakes
<1>11. CASE \E c \in Channels : StartRecv(c) \/ Send(c)
  BY <1>1, <1>11, StartRecvWakes, SendWakes
<1>12. CASE UNCHANGED vars
  BY <1>12, <1>1 DEF vars, WakeInv, Tidy, TidyTable, HasEntry, Threads, SleepThread, InSleep,
        SleepBlocked, RecvThread, SendThread, OneRuns, NoLostMessageWakeup, WaitersFor
<1> QED BY <1>2, <1>3, <1>4, <1>5, <1>6, <1>7, <1>8, <1>9, <1>10, <1>11, <1>12
       DEF Next, Continue, Interrupt

LEMMA WakeInvHolds == ASSUME Setting PROVE Spec => []WakeInv
<1>1. Init => WakeInv
  BY InitWakes
<1>2. WakeInv /\ [Next]_vars => WakeInv'
  BY NextWakes
<1> QED BY <1>1, <1>2, PTL DEF Spec

LEMMA EntriesAreTrue == ASSUME Setting, WakeInv PROVE SleepEntriesTrue
<1>1. DOMAIN main = 1 .. SleepCap /\ DOMAIN ovf = 1 .. OvfCap
  BY DEF WakeInv, IInv, TypeOK
<1>2. ASSUME NEW s \in Slots, EntriesOf(s) # {}
      PROVE  Cardinality(EntriesOf(s)) = 1 /\ pc[s] \in {"slblock", "slsched", "slept"}
  <2>1. HasEntry(s)
    BY <1>1, <1>2 DEF HasEntry, EntriesOf
  <2>2. pc[s] \in {"slblock", "slsched", "slept"}
    BY <2>1 DEF WakeInv, Threads, SleepThread, InSleep
  <2>3. ASSUME NEW x \in EntriesOf(s), NEW y \in EntriesOf(s) PROVE x = y
    <3>1. /\ \A i, j \in 1 .. SleepCap : main[i].slot = s /\ main[j].slot = s => i = j
          /\ \A i, j \in 1 .. OvfCap : ovf[i].slot = s /\ ovf[j].slot = s => i = j
          /\ \A i \in 1 .. SleepCap, j \in 1 .. OvfCap : ~(main[i].slot = s /\ ovf[j].slot = s)
      BY DEF WakeInv, Tidy, TidyTable
    <3>2. \A z \in EntriesOf(s) :
             \/ \E i \in 1 .. SleepCap : z = <<"main", i>> /\ main[i].slot = s
             \/ \E i \in 1 .. OvfCap : z = <<"ovf", i>> /\ ovf[i].slot = s
      BY <1>1 DEF EntriesOf
    <3> QED BY <3>1, <3>2
  <2>4. PICK x : x \in EntriesOf(s)
    BY <1>2
  <2>5. EntriesOf(s) = {x}
    BY <2>3, <2>4
  <2> QED BY <2>2, <2>5, FS_Singleton
<1>3. NoStaleSleepEntry
  BY <1>2 DEF NoStaleSleepEntry
<1>4. SleepAtLeast
  <2>1. ASSUME At("slept") PROVE left[current] = 0
    <3>1. ~InSleep(current) /\ current \in Slots /\ pc[current] = "slept"
      BY <2>1, Executing DEF At
    <3>2. left[current] \in Nat
      BY <3>1, BlockingFacts DEF WakeInv, IInv, TypeOK
    <3> QED BY <3>1, <3>2 DEF InSleep
  <2> QED BY <2>1 DEF SleepAtLeast
<1> QED BY <1>3, <1>4 DEF SleepEntriesTrue

(* No sleep entry outlives its sleep and no sleep ends before its deadline *)
(* (sleep_for_ticks, tick_advance, wake_task): no task is ever woken out   *)
(* of a later wait by an entry left behind.                                *)
THEOREM SleepsAreTrue == ASSUME Setting PROVE Spec => []SleepEntriesTrue
<1>1. ASSUME WakeInv PROVE SleepEntriesTrue
  BY <1>1, EntriesAreTrue
<1> QED BY <1>1, WakeInvHolds, PTL

(* No task stays blocked on a channel that has a message, unless a sender  *)
(* is between its send and its wake_blocked_on (sys_channel_recv against   *)
(* send_and_wake and the frame clock).                                     *)
THEOREM NoWakeupLost == ASSUME Setting PROVE Spec => []NoLostMessageWakeup
<1>1. WakeInv => NoLostMessageWakeup
  BY DEF WakeInv
<1> QED BY <1>1, WakeInvHolds, PTL

(* A blocking receive by a task that input does not wake directly ends     *)
(* only with a message (mark_blocked, take_wake_without_ipc).              *)
THEOREM ReceivesAreGenuine ==
  ASSUME Setting, Display \notin Receivers
  PROVE  Spec => []RecvNeverSpurious
<1>1. ASSUME WakeInv PROVE RecvNeverSpurious
  <2>1. At("rblock") => CanBlock(tasks, current)
    BY <1>1, Executing DEF At, CanBlock
  <2>2. ASSUME NEW s \in Slots, pc[s] = "rtok" PROVE ~ tasks[s].token
    <3>1. SleepThread(s) /\ RecvThread(s)
      BY <1>1 DEF WakeInv, Threads
    <3>2. ~SleepBlocked(s) /\ s \in Receivers
      BY <2>2, <3>1 DEF SleepThread, InSleep, RecvThread
    <3> QED BY <2>2, <3>1, <3>2 DEF SleepBlocked, RecvThread
  <2> QED BY <2>1, <2>2 DEF RecvNeverSpurious
<1> QED BY <1>1, WakeInvHolds, PTL
=============================================================================
