-------------------------- MODULE Scheduler_proofs --------------------------
(***************************************************************************)
(* Theorems about the life of kernel threads, for every number of slots,   *)
(* stacks, channels and task ids, with or without per-CPU queues and       *)
(* watchdog.                                                               *)
(***************************************************************************)
EXTENDS Scheduler, FiniteSetTheorems, SequenceTheorems, TLAPS

-----------------------------------------------------------------------------
(* Least and greatest elements.                                            *)

(* Every set of naturals that is not empty has a least element.  The       *)
(* intervals below its elements are ordered by strict inclusion, which is  *)
(* well-founded, as the elements are by <.                                 *)
LEMMA LeastNatural ==
  ASSUME NEW S, S \subseteq Nat, S # {}
  PROVE  \E x \in S : \A y \in S : x <= y
<1> DEFINE Below == {0 .. x : x \in S}
<1>1. Below # {}
  OBVIOUS
<1>2. Below \subseteq FiniteSubsetsOf(Nat)
  <2>1. \A x \in S : IsFiniteSet(0 .. x)
    BY FS_Interval
  <2>2. \A x \in S : 0 .. x \in SUBSET Nat
    OBVIOUS
  <2> QED BY <2>1, <2>2 DEF FiniteSubsetsOf
<1>3. PICK B \in Below : \A C \in Below : <<C, B>> \notin StrictSubsetOrdering(Nat)
  <2> HIDE DEF Below
  <2> QED BY <1>1, <1>2, FS_StrictSubsetOrderingWellFounded, WFMin
<1>4. PICK x \in S : B = 0 .. x
  OBVIOUS
<1>5. ASSUME NEW y \in S, y < x PROVE FALSE
  <2>1. 0 .. y \in Below
    OBVIOUS
  <2>2. 0 .. y \subseteq 0 .. x
    BY <1>5
  <2>3. x \in 0 .. x /\ x \notin 0 .. y
    BY <1>5
  <2>4. 0 .. y \in SUBSET Nat /\ 0 .. x \in SUBSET Nat
    OBVIOUS
  <2>5. <<0 .. y, 0 .. x>> \in StrictSubsetOrdering(Nat)
    BY <2>2, <2>3, <2>4 DEF StrictSubsetOrdering
  <2> QED BY <2>1, <2>5, <1>3, <1>4
<1> QED BY <1>5

(* Min of a set of naturals is what its name says.                         *)
LEMMA MinIsLeast ==
  ASSUME NEW S, S \subseteq Nat, S # {}
  PROVE  Min(S) \in S /\ \A y \in S : Min(S) <= y
BY LeastNatural DEF Min

(* So is there a greatest element when the set has a bound.                *)
LEMMA GreatestNatural ==
  ASSUME NEW n \in Nat, NEW S, S \subseteq 0 .. n, S # {}
  PROVE  \E x \in S : \A y \in S : y <= x
<1> DEFINE D == {n - x : x \in S}
<1>1. D \subseteq Nat /\ D # {}
  OBVIOUS
<1>2. PICK d \in D : \A e \in D : d <= e
  <2> HIDE DEF D
  <2> QED BY <1>1, LeastNatural
<1>3. PICK x \in S : d = n - x
  OBVIOUS
<1>4. ASSUME NEW y \in S PROVE y <= x
  <2>1. n - y \in D
    OBVIOUS
  <2>2. n - x <= n - y
    BY <1>2, <1>3, <2>1
  <2> QED BY <2>2
<1> QED BY <1>4

-----------------------------------------------------------------------------
(* The operations of the task table.                                       *)
Tables == [Slots -> Task]

LEMMA SlotFacts ==
  /\ Slots \subseteq Nat /\ 0 \in Slots /\ NoSlot \in Nat /\ NoSlot \notin Slots
BY TableAssumption DEF Slots, NoSlot

LEMMA TopReadyExists ==
  ASSUME NEW T \in Tables, ReadySet(T) # {}
  PROVE  TopReady(T) # {}
<1> DEFINE P == {T[s].prio : s \in ReadySet(T)}
<1>1. P \subseteq 0 .. 255 /\ P # {}
  <2>1. \A s \in Slots : T[s].prio \in 0 .. 255
    BY DEF Tables, Task
  <2> QED BY <2>1 DEF ReadySet
<1>2. PICK p \in P : \A q \in P : q <= p
  <2> HIDE DEF P
  <2>1. 255 \in Nat
    OBVIOUS
  <2> QED BY <1>1, <2>1, GreatestNatural
<1>3. PICK s \in ReadySet(T) : T[s].prio = p
  OBVIOUS
<1>4. \A r \in ReadySet(T) : T[r].prio <= T[s].prio
  BY <1>2, <1>3
<1> QED BY <1>3, <1>4 DEF TopReady

(* find_next_ready finds a task whenever one is Ready; it is one of the    *)
(* highest priority and the first of those after the current index.        *)
THEOREM ScanPicks ==
  ASSUME NEW T \in Tables, NEW after \in Slots
  PROVE  /\ ReadySet(T) = {} => FindNextReady(T, after) = NoSlot
         /\ ReadySet(T) # {} =>
              /\ FindNextReady(T, after) \in TopReady(T)
              /\ \A r \in TopReady(T) :
                   ScanDistance(after, FindNextReady(T, after)) <= ScanDistance(after, r)
<1> SUFFICES ASSUME ReadySet(T) # {}
             PROVE  \E s \in TopReady(T) :
                      \A r \in TopReady(T) : ScanDistance(after, s) <= ScanDistance(after, r)
  BY DEF FindNextReady
<1> DEFINE D == {ScanDistance(after, s) : s \in TopReady(T)}
<1>1. TopReady(T) \subseteq Slots /\ TopReady(T) # {}
  BY TopReadyExists DEF TopReady, ReadySet
<1>2. D \subseteq Nat /\ D # {}
  BY <1>1, TableAssumption DEF ScanDistance, Slots
<1>3. PICK d \in D : \A e \in D : d <= e
  <2> HIDE DEF D
  <2> QED BY <1>2, LeastNatural
<1> QED BY <1>3

LEMMA ScanType ==
  ASSUME NEW T \in Tables, NEW after \in Slots, FindNextReady(T, after) # NoSlot
  PROVE  FindNextReady(T, after) \in Slots /\ T[FindNextReady(T, after)].st = "Ready"
BY ScanPicks DEF TopReady, ReadySet

-----------------------------------------------------------------------------
(* Every operation yields a table: it changes fields of tasks, to values   *)
(* those fields can have.                                                  *)
LEMMA FieldUpdates ==
  ASSUME NEW t \in Task, NEW c \in Chans \cup {Nil}
  PROVE  /\ [t EXCEPT !.st = "Running"] \in Task
         /\ [t EXCEPT !.st = "Ready"] \in Task
         /\ [t EXCEPT !.st = "Blocked", !.wait = c, !.token = FALSE] \in Task
         /\ [t EXCEPT !.st = "Ready", !.wait = Nil, !.token = TRUE] \in Task
         /\ [t EXCEPT !.st = "Ready", !.wait = Nil, !.token = FALSE] \in Task
         /\ [t EXCEPT !.token = FALSE] \in Task
<1>1. /\ [t EXCEPT !.st = "Running"] \in Task
      /\ [t EXCEPT !.st = "Ready"] \in Task
  BY DEF Task, TaskStates
<1>2. [t EXCEPT !.st = "Blocked", !.wait = c, !.token = FALSE] \in Task
  BY DEF Task, TaskStates
<1>3. [t EXCEPT !.st = "Ready", !.wait = Nil, !.token = TRUE] \in Task
  BY DEF Task, TaskStates
<1>4. [t EXCEPT !.st = "Ready", !.wait = Nil, !.token = FALSE] \in Task
  BY DEF Task, TaskStates
<1>5. [t EXCEPT !.token = FALSE] \in Task
  BY DEF Task
<1> QED BY <1>1, <1>2, <1>3, <1>4, <1>5

LEMMA NewTaskType ==
  ASSUME NEW id \in Nat, NEW stack \in Stacks \cup {0}, NEW prio \in 0 .. 255
  PROVE  NewTask(id, stack, prio) \in Task
<1>1. EmptySlot \in Task
  BY DEF EmptySlot, Task, TaskStates
<1>2. ASSUME NEW e \in Task
      PROVE  [e EXCEPT !.st = "Ready", !.id = id, !.stack = stack, !.prio = prio] \in Task
  BY DEF Task, TaskStates
<1> QED BY <1>1, <1>2 DEF NewTask

LEMMA TableUpdate ==
  ASSUME NEW T \in Tables, NEW s \in Slots, NEW t \in Task
  PROVE  [T EXCEPT ![s] = t] \in Tables
BY DEF Tables

-----------------------------------------------------------------------------
(* The inductive invariant.                                                *)

(* What every operation keeps true of a table: init can always run and the *)
(* reaper is never dead; what is dead has nothing to be woken for; and who *)
(* waits in a join is Blocked, waits for nothing else, and for a live task.*)
Sound(T) ==
  /\ T[0].id = InitId /\ T[0].st \in {"Ready", "Running"}
  /\ T[ReaperSlot].id = ReaperId /\ T[ReaperSlot].joining = 0
  /\ T[ReaperSlot].st \in {"Ready", "Running", "Blocked"}
  /\ \A s \in Slots : T[s].st = "Dead" => T[s].wait = Nil /\ T[s].token = FALSE
  /\ \A s \in Slots : T[s].joining # 0 => T[s].st \in {"Blocked", "Dead"}
  /\ \A s \in Slots : T[s].joining # 0 /\ T[s].st = "Blocked"
                        => T[s].wait = Nil /\ Alive(T, T[s].joining)

(* Ids are handed out once.                                                *)
Numbered(T, next) ==
  /\ \A s \in Occupied(T) : T[s].id \in 1 .. next - 1
  /\ \A r, s \in Occupied(T) : T[r].id = T[s].id => r = s

(* Each step of a creation but the last and each step of reap_pending has  *)
(* in hand what the step before it took.                                   *)
InCreation(p) == p \in {"reap", "free", "clear", "place"}
InReaping(p) == p \in {"free", "clear"}
ReaperPCs == {"fresh", "reap", "free", "clear",
              "chk1", "flag", "chk2", "block", "rsched", "woken"}
HandsMatch ==
  /\ pc[ReaperId] \in ReaperPCs
  /\ \A t \in Threads : held[t] # 0 <=> t # ReaperId /\ InCreation(pc[t])
  /\ \A t \in Threads : hand[t] # NoEntry <=> InReaping(pc[t])

(* The executing thread has begun and not ended, what can be dispatched    *)
(* has not ended, and an id not handed out is nobody's.                    *)
Executing ==
  /\ current \in Occupied(tasks)
  /\ \A t \in Threads : t >= nextId => pc[t] = "none"
  /\ pc[thr] \notin {"fresh", "none", "gone", "halt"}
  /\ \A s \in Live(tasks) : pc[tasks[s].id] \notin {"none", "gone", "halt"}

(* Who has a stack: a task until it has been freed, which is long after it *)
(* has died, and a creation.                                               *)
Freed(s) == \E t \in Threads : pc[t] = "clear" /\ hand[t].slot = s
StacksOwned ==
  /\ \A s \in Occupied(tasks) : ~ Freed(s) => tasks[s].stack \in inUse
  /\ \A t \in Creating : held[t] \in inUse
  /\ \A r, s \in Occupied(tasks) :
       ~ Freed(r) /\ ~ Freed(s) /\ tasks[r].stack = tasks[s].stack => r = s
  /\ \A t, u \in Creating : held[t] = held[u] => t = u
  /\ \A s \in Occupied(tasks), t \in Creating : ~ Freed(s) => tasks[s].stack # held[t]

(* The entries on their way to the reaper: each is of a slot that is Dead  *)
(* and has left the CPU, with that slot's stack, and none is there twice.  *)
Owed(e) ==
  tasks[e.slot].st = "Dead" /\ e.slot # current /\ e.stack = tasks[e.slot].stack
EntriesOwed ==
  /\ pend # NoEntry => Owed(pend)
  /\ \A i \in DOMAIN rq : Owed(rq[i])
  /\ \A t \in Threads : hand[t] # NoEntry => Owed(hand[t])
EntriesOnce ==
  /\ \A i \in DOMAIN rq : pend # NoEntry => rq[i].slot # pend.slot
  /\ \A t \in Threads : pend # NoEntry => hand[t].slot # pend.slot
  /\ \A i \in DOMAIN rq, t \in Threads : rq[i].slot # hand[t].slot
  /\ \A i, j \in DOMAIN rq : rq[i].slot = rq[j].slot => i = j
  /\ \A t, u \in Threads : hand[t] # NoEntry /\ hand[t].slot = hand[u].slot => t = u

JoinedFree == At("joined") => tasks[current].joining = 0

(* Every creation will find an id within the bound.                        *)
IdsLeft == nextId + Cardinality(Creating) <= MaxId + 1

IInv ==
  /\ TypeOK /\ Sound(tasks) /\ Numbered(tasks, nextId)
  /\ RunningIsCurrent /\ ContextOwnership /\ Executing
  /\ HandsMatch /\ StacksOwned /\ EntriesOwed /\ EntriesOnce
  /\ CountMatches /\ FlagMeansNoWork /\ JoinedFree /\ IdsLeft

-----------------------------------------------------------------------------
LEMMA SchedulerFacts ==
  /\ Slots \subseteq Nat /\ 0 \in Slots /\ ReaperSlot \in Slots /\ ReaperSlot # 0
  /\ NoSlot \in Nat /\ NoSlot \notin Slots
  /\ NSlots \in Nat /\ MaxId \in Nat /\ MaxId >= 2 /\ ReapCap \in Nat \ {0} /\ RunqCap \in Nat \ {0}
  /\ Nil \notin Chans /\ Stacks \subseteq Nat /\ 0 \notin Stacks
  /\ Boot = 0 /\ InitId = 1 /\ ReaperId = 2
  /\ Threads = 0 .. MaxId /\ NoThread = MaxId + 1
<1>1. 0 \in Slots /\ 1 \in Slots
  BY SchedulerAssumption, TableAssumption DEF Slots
<1> QED BY <1>1, SlotFacts, SchedulerAssumption, TableAssumption
    DEF ReaperSlot, Boot, InitId, ReaperId, Threads, NoThread

-----------------------------------------------------------------------------
(* The run queue holds slots, at most as many as it has room for.          *)

(* The members of S below n, in order.                                     *)
IsBelow(f, n, S) ==
  f = [k \in 0 .. n |-> IF k = 0 THEN <<>>
                        ELSE IF k - 1 \in S THEN Append(f[k - 1], k - 1)
                        ELSE f[k - 1]]

LEMMA BelowExists ==
  ASSUME NEW S, NEW n \in Nat
  PROVE  \E f : IsBelow(f, n, S)
<1> DEFINE Bad == {k \in Nat : ~ \E f : IsBelow(f, k, S)}
<1> SUFFICES ASSUME Bad # {} PROVE FALSE
  OBVIOUS
<1>1. PICK k \in Bad : \A j \in Bad : k <= j
  <2> HIDE DEF Bad
  <2>1. Bad \subseteq Nat
    BY DEF Bad
  <2> QED BY <2>1, LeastNatural
<1>2. k # 0
  <2>1. IsBelow([j \in 0 .. 0 |-> <<>>], 0, S)
    BY DEF IsBelow
  <2> QED BY <2>1
<1>3. k - 1 \in Nat /\ k - 1 \notin Bad
  BY <1>1, <1>2
<1>4. PICK g : IsBelow(g, k - 1, S)
  BY <1>3
<1> DEFINE f == [j \in 0 .. k |-> IF j < k THEN g[j]
                                  ELSE IF k - 1 \in S THEN Append(g[k - 1], k - 1)
                                  ELSE g[k - 1]]
<1>5. IsBelow(f, k, S)
  <2>1. \A j \in 0 .. k - 1 : f[j] = g[j]
    OBVIOUS
  <2>2. ASSUME NEW j \in 0 .. k
        PROVE  f[j] = IF j = 0 THEN <<>>
                      ELSE IF j - 1 \in S THEN Append(f[j - 1], j - 1)
                      ELSE f[j - 1]
    <3>1. CASE j = k
      <4>1. f[j - 1] = g[k - 1]
        BY <1>2, <2>1, <3>1
      <4> QED BY <1>2, <3>1, <4>1
    <3>2. CASE j # k
      <4>1. j \in 0 .. k - 1 /\ f[j] = g[j]
        BY <2>1, <3>2
      <4>2. g[j] = IF j = 0 THEN <<>>
                   ELSE IF j - 1 \in S THEN Append(g[j - 1], j - 1)
                   ELSE g[j - 1]
        BY <1>4, <4>1 DEF IsBelow
      <4>3. j # 0 => f[j - 1] = g[j - 1]
        BY <2>1, <4>1
      <4> HIDE DEF f
      <4> QED BY <4>1, <4>2, <4>3
    <3> QED BY <3>1, <3>2
  <2> QED BY <2>2 DEF IsBelow
<1> HIDE DEF f
<1> QED BY <1>1, <1>5

LEMMA BelowType ==
  ASSUME NEW S, NEW n \in Nat, NEW f, IsBelow(f, n, S)
  PROVE  f[n] \in Seq(0 .. n - 1)
<1> DEFINE Bad == {k \in 0 .. n : f[k] \notin Seq(0 .. k - 1)}
<1> SUFFICES ASSUME Bad # {} PROVE FALSE
  OBVIOUS
<1>1. PICK k \in Bad : \A j \in Bad : k <= j
  <2> HIDE DEF Bad
  <2>1. Bad \subseteq Nat
    BY DEF Bad
  <2> QED BY <2>1, LeastNatural
<1>2. f[k] = IF k = 0 THEN <<>>
             ELSE IF k - 1 \in S THEN Append(f[k - 1], k - 1)
             ELSE f[k - 1]
  BY DEF IsBelow
<1>3. k # 0
  <2>1. <<>> \in Seq(0 .. k - 1)
    BY EmptySeq
  <2> QED BY <1>1, <1>2, <2>1
<1>4. k - 1 \in 0 .. n /\ k - 1 \notin Bad
  BY <1>1, <1>3
<1>5. f[k - 1] \in Seq(0 .. (k - 1) - 1)
  BY <1>4
<1>6. f[k - 1] \in Seq(0 .. k - 1) /\ k - 1 \in 0 .. k - 1
  BY <1>3, <1>5, SeqMonotonic
<1>7. Append(f[k - 1], k - 1) \in Seq(0 .. k - 1)
  BY <1>6, AppendProperties
<1>8. f[k] \in Seq(0 .. k - 1)
  BY <1>2, <1>3, <1>6, <1>7
<1> QED BY <1>1, <1>8

LEMMA InOrderType ==
  ASSUME NEW S
  PROVE  InOrder(S) \in Seq(Slots)
<1> DEFINE below == CHOOSE f : IsBelow(f, NSlots, S)
<1>1. IsBelow(below, NSlots, S)
  BY BelowExists, SchedulerFacts
<1>2. InOrder(S) = below[NSlots]
  BY DEF InOrder, IsBelow
<1> HIDE DEF below
<1> QED BY <1>1, <1>2, BelowType, SchedulerFacts DEF Slots

LEMMA EnqueueType ==
  ASSUME NEW q \in Seq(Slots), Len(q) <= RunqCap, NEW S
  PROVE  Enqueue(q, S) \in Seq(Slots) /\ Len(Enqueue(q, S)) <= RunqCap
<1> DEFINE r == q \o InOrder(S)
           m == Min({Len(r), RunqCap})
<1>1. CASE PerCpu
  <2>1. r \in Seq(Slots) /\ Len(r) \in Nat
    BY InOrderType, ConcatProperties, LenProperties
  <2>2. m \in Nat /\ m <= Len(r) /\ m <= RunqCap
    <3>1. {Len(r), RunqCap} \subseteq Nat
      BY <2>1, SchedulerFacts
    <3> HIDE DEF r
    <3> QED BY <3>1, MinIsLeast
  <2>3. Enqueue(q, S) = SubSeq(r, 1, m)
    BY <1>1 DEF Enqueue
  <2> HIDE DEF r, m
  <2>4. SubSeq(r, 1, m) \in Seq(Slots) /\ Len(SubSeq(r, 1, m)) = m
    BY <2>1, <2>2, SubSeqProperties
  <2> QED BY <2>2, <2>3, <2>4
<1>2. CASE ~ PerCpu
  BY <1>2 DEF Enqueue
<1> QED BY <1>1, <1>2

-----------------------------------------------------------------------------
(* The operations of the table.  Most change no more than how and for what *)
(* a task waits.                                                           *)
Same(T, U) ==
  \A s \in Slots : /\ U[s].id = T[s].id /\ U[s].stack = T[s].stack
                   /\ U[s].st = "Empty" <=> T[s].st = "Empty"
                   /\ T[s].st = "Dead" => U[s] = T[s]

LEMMA SameIsTransitive ==
  ASSUME NEW T, NEW U, NEW V, Same(T, U), Same(U, V)
  PROVE  Same(T, V)
BY DEF Same

LEMMA SameOccupied ==
  ASSUME NEW T, NEW U, Same(T, U), NEW next
  PROVE  /\ Occupied(U) = Occupied(T)
         /\ Numbered(T, next) => Numbered(U, next)
BY DEF Same, Occupied, Numbered

LEMMA LiveIsOccupied ==
  ASSUME NEW T
  PROVE  Live(T) \subseteq Occupied(T) /\ Occupied(T) \subseteq Slots
BY DEF Live, Occupied

(* One task that is not dead goes from one state to another.               *)
Fits(T, U, s, t) ==
  /\ U = [T EXCEPT ![s] = t]
  /\ T[s].st \notin {"Empty", "Dead"} /\ t.st \notin {"Empty", "Dead"}
  /\ t.id = T[s].id /\ t.stack = T[s].stack
  /\ t.joining # 0 => t.st = "Blocked" /\ t.wait = Nil /\ Alive(T, t.joining)
  /\ s = 0 => t.st \in {"Ready", "Running"}
  /\ s = ReaperSlot => t.joining = 0

LEMMA OneTask ==
  ASSUME NEW T \in Tables, Sound(T), NEW s \in Slots, NEW t \in Task,
         NEW U, Fits(T, U, s, t)
  PROVE  /\ U \in Tables /\ Sound(U) /\ Same(T, U) /\ Live(U) = Live(T)
         /\ U[s] = t /\ \A r \in Slots \ {s} : U[r] = T[r]
<1>1. U \in Tables
  BY TableUpdate DEF Fits
<1>2. U[s] = t /\ \A r \in Slots \ {s} : U[r] = T[r]
  BY DEF Tables, Fits
<1>3. Same(T, U) /\ Live(U) = Live(T)
  BY <1>2 DEF Same, Live, Fits
<1>4. \A x : Alive(T, x) => Alive(U, x)
  BY <1>3, LiveIsOccupied DEF Alive, Same
<1>5. /\ U[0].id = InitId /\ U[0].st \in {"Ready", "Running"}
      /\ U[ReaperSlot].id = ReaperId /\ U[ReaperSlot].joining = 0
      /\ U[ReaperSlot].st \in {"Ready", "Running", "Blocked"}
  <2>1. t.st \in TaskStates
    BY DEF Task
  <2> QED BY <1>2, <2>1, SchedulerFacts DEF Sound, TaskStates, Fits
<1>6. ASSUME NEW r \in Slots
      PROVE  /\ U[r].st = "Dead" => U[r].wait = Nil /\ U[r].token = FALSE
             /\ U[r].joining # 0 => U[r].st \in {"Blocked", "Dead"}
             /\ U[r].joining # 0 /\ U[r].st = "Blocked"
                  => U[r].wait = Nil /\ Alive(U, U[r].joining)
  BY <1>2, <1>4 DEF Sound, Fits
<1>7. Sound(U)
  BY <1>5, <1>6 DEF Sound
<1> QED BY <1>1, <1>2, <1>3, <1>7

LEMMA MarkRunningEffect ==
  ASSUME NEW T \in Tables, Sound(T), NEW s \in Slots
  PROVE  /\ MarkRunning(T, s) \in Tables /\ Sound(MarkRunning(T, s))
         /\ Same(T, MarkRunning(T, s)) /\ Live(MarkRunning(T, s)) = Live(T)
         /\ \A r \in Slots \ {s} : MarkRunning(T, s)[r] = T[r]
         /\ T[s].st = "Ready" => MarkRunning(T, s)[s] = [T[s] EXCEPT !.st = "Running"]
<1>1. CASE T[s].st = "Ready"
  <2> DEFINE t == [T[s] EXCEPT !.st = "Running"]
  <2>1. T[s] \in Task
    BY DEF Tables
  <2>2. t \in Task /\ t.st = "Running" /\ t.id = T[s].id /\ t.stack = T[s].stack
        /\ t.joining = T[s].joining
    BY <2>1 DEF Task, TaskStates
  <2>3. T[s].joining = 0
    BY <1>1 DEF Sound
  <2>4. MarkRunning(T, s) = [T EXCEPT ![s] = t]
    BY <1>1 DEF MarkRunning
  <2> HIDE DEF t
  <2>f. Fits(T, MarkRunning(T, s), s, t)
    BY <1>1, <2>2, <2>3, <2>4, SchedulerFacts DEF Fits
  <2>5. /\ MarkRunning(T, s) \in Tables /\ Sound(MarkRunning(T, s))
        /\ Same(T, MarkRunning(T, s)) /\ Live(MarkRunning(T, s)) = Live(T)
        /\ \A r \in Slots \ {s} : MarkRunning(T, s)[r] = T[r]
        /\ MarkRunning(T, s)[s] = t
    BY <2>2, <2>f, OneTask
  <2> QED BY <2>5 DEF t
<1>2. CASE T[s].st # "Ready"
  BY <1>2 DEF MarkRunning, Same
<1> QED BY <1>1, <1>2

LEMMA MarkReadyEffect ==
  ASSUME NEW T \in Tables, Sound(T), NEW s \in Slots
  PROVE  /\ MarkReady(T, s) \in Tables /\ Sound(MarkReady(T, s))
         /\ Same(T, MarkReady(T, s)) /\ Live(MarkReady(T, s)) = Live(T)
         /\ \A r \in Slots \ {s} : MarkReady(T, s)[r] = T[r]
         /\ MarkReady(T, s)[s].st # "Running"
<1>1. CASE T[s].st = "Running"
  <2> DEFINE t == [T[s] EXCEPT !.st = "Ready"]
  <2>1. T[s] \in Task
    BY DEF Tables
  <2>2. t \in Task /\ t.st = "Ready" /\ t.id = T[s].id /\ t.stack = T[s].stack
        /\ t.joining = T[s].joining
    BY <2>1 DEF Task, TaskStates
  <2>3. T[s].joining = 0
    BY <1>1 DEF Sound
  <2>4. MarkReady(T, s) = [T EXCEPT ![s] = t]
    BY <1>1 DEF MarkReady
  <2> HIDE DEF t
  <2>f. Fits(T, MarkReady(T, s), s, t)
    BY <1>1, <2>2, <2>3, <2>4, SchedulerFacts DEF Fits
  <2>5. /\ MarkReady(T, s) \in Tables /\ Sound(MarkReady(T, s))
        /\ Same(T, MarkReady(T, s)) /\ Live(MarkReady(T, s)) = Live(T)
        /\ \A r \in Slots \ {s} : MarkReady(T, s)[r] = T[r]
        /\ MarkReady(T, s)[s] = t
    BY <2>2, <2>f, OneTask
  <2> QED BY <2>2, <2>5
<1>2. CASE T[s].st # "Running"
  BY <1>2 DEF MarkReady, Same
<1> QED BY <1>1, <1>2

LEMMA MarkBlockedEffect ==
  ASSUME NEW T \in Tables, Sound(T), NEW s \in Slots \ {0}, NEW c \in Chans \cup {Nil}
  PROVE  /\ MarkBlocked(T, s, c) \in Tables /\ Sound(MarkBlocked(T, s, c))
         /\ Same(T, MarkBlocked(T, s, c)) /\ Live(MarkBlocked(T, s, c)) = Live(T)
         /\ \A r \in Slots \ {s} : MarkBlocked(T, s, c)[r] = T[r]
         /\ MarkBlocked(T, s, c)[s].st = "Running" => T[s].st = "Running"
<1>1. CASE T[s].st = "Running"
  <2> DEFINE t == [T[s] EXCEPT !.st = "Blocked", !.wait = c, !.token = FALSE]
  <2>1. T[s] \in Task
    BY DEF Tables
  <2>2. t \in Task /\ t.st = "Blocked" /\ t.id = T[s].id /\ t.stack = T[s].stack
        /\ t.joining = T[s].joining
    BY <2>1 DEF Task, TaskStates
  <2>3. T[s].joining = 0
    BY <1>1 DEF Sound
  <2>4. MarkBlocked(T, s, c) = [T EXCEPT ![s] = t]
    BY <1>1 DEF MarkBlocked, CanBlock
  <2> HIDE DEF t
  <2>f. Fits(T, MarkBlocked(T, s, c), s, t)
    BY <1>1, <2>2, <2>3, <2>4, SchedulerFacts DEF Fits
  <2>5. /\ MarkBlocked(T, s, c) \in Tables /\ Sound(MarkBlocked(T, s, c))
        /\ Same(T, MarkBlocked(T, s, c)) /\ Live(MarkBlocked(T, s, c)) = Live(T)
        /\ \A r \in Slots \ {s} : MarkBlocked(T, s, c)[r] = T[r]
    BY <2>2, <2>f, OneTask
  <2> QED BY <1>1, <2>5
<1>2. CASE T[s].st # "Running"
  BY <1>2 DEF MarkBlocked, CanBlock, Same
<1> QED BY <1>1, <1>2

LEMMA WakeTaskEffect ==
  ASSUME NEW T \in Tables, Sound(T)
  PROVE  /\ WakeTask(T, ReaperSlot) \in Tables /\ Sound(WakeTask(T, ReaperSlot))
         /\ Same(T, WakeTask(T, ReaperSlot)) /\ Live(WakeTask(T, ReaperSlot)) = Live(T)
         /\ \A r \in Slots \ {ReaperSlot} : WakeTask(T, ReaperSlot)[r] = T[r]
         /\ WakeTask(T, ReaperSlot)[ReaperSlot].st # "Blocked"
         /\ WakeTask(T, ReaperSlot)[ReaperSlot].st = "Running" => T[ReaperSlot].st = "Running"
<1> DEFINE s == ReaperSlot
<1>s. s \in Slots
  BY SchedulerFacts
<1> HIDE DEF s
<1> SUFFICES /\ WakeTask(T, s) \in Tables /\ Sound(WakeTask(T, s))
             /\ Same(T, WakeTask(T, s)) /\ Live(WakeTask(T, s)) = Live(T)
             /\ \A r \in Slots \ {s} : WakeTask(T, s)[r] = T[r]
             /\ WakeTask(T, s)[s].st # "Blocked"
             /\ WakeTask(T, s)[s].st = "Running" => T[s].st = "Running"
  BY DEF s
<1>1. CASE T[s].st = "Blocked"
  <2> DEFINE t == [T[s] EXCEPT !.st = "Ready", !.wait = Nil, !.token = TRUE]
  <2>1. T[s] \in Task
    BY <1>s DEF Tables
  <2>2. t \in Task /\ t.st = "Ready" /\ t.id = T[s].id /\ t.stack = T[s].stack
        /\ t.joining = T[s].joining
    BY <2>1 DEF Task, TaskStates
  <2>3. T[s].joining = 0
    BY DEF Sound, s
  <2>4. WakeTask(T, s) = [T EXCEPT ![s] = t]
    BY <1>1 DEF WakeTask
  <2> HIDE DEF t
  <2>f. Fits(T, WakeTask(T, s), s, t)
    BY <1>1, <2>2, <2>3, <2>4, SchedulerFacts DEF Fits
  <2>5. /\ WakeTask(T, s) \in Tables /\ Sound(WakeTask(T, s))
        /\ Same(T, WakeTask(T, s)) /\ Live(WakeTask(T, s)) = Live(T)
        /\ \A r \in Slots \ {s} : WakeTask(T, s)[r] = T[r]
        /\ WakeTask(T, s)[s] = t
    BY <1>s, <2>2, <2>f, OneTask
  <2> QED BY <2>2, <2>5
<1>2. CASE T[s].st # "Blocked"
  BY <1>2 DEF WakeTask, Same
<1> QED BY <1>1, <1>2

LEMMA BlockForJoinEffect ==
  ASSUME NEW T \in Tables, Sound(T), NEW s \in Slots \ {0, ReaperSlot}, NEW x \in Nat
  PROVE  /\ BlockForJoin(T, s, x) \in Tables /\ Sound(BlockForJoin(T, s, x))
         /\ Same(T, BlockForJoin(T, s, x)) /\ Live(BlockForJoin(T, s, x)) = Live(T)
         /\ \A r \in Slots \ {s} : BlockForJoin(T, s, x)[r] = T[r]
         /\ BlockForJoin(T, s, x)[s].st = "Running" => T[s].st = "Running"
<1>1. CASE Alive(T, x) /\ T[s].st = "Running"
  <2> DEFINE t == [T[s] EXCEPT !.st = "Blocked", !.joining = x, !.wait = Nil]
  <2>1. T[s] \in Task
    BY DEF Tables
  <2>2. t \in Task /\ t.st = "Blocked" /\ t.id = T[s].id /\ t.stack = T[s].stack
        /\ t.joining = x /\ t.wait = Nil
    BY <2>1 DEF Task, TaskStates
  <2>4. BlockForJoin(T, s, x) = [T EXCEPT ![s] = t]
    BY <1>1 DEF BlockForJoin, CanBlock
  <2> HIDE DEF t
  <2>f. Fits(T, BlockForJoin(T, s, x), s, t)
    BY <1>1, <2>2, <2>4 DEF Fits
  <2>5. /\ BlockForJoin(T, s, x) \in Tables /\ Sound(BlockForJoin(T, s, x))
        /\ Same(T, BlockForJoin(T, s, x)) /\ Live(BlockForJoin(T, s, x)) = Live(T)
        /\ \A r \in Slots \ {s} : BlockForJoin(T, s, x)[r] = T[r]
    BY <2>2, <2>f, OneTask
  <2> QED BY <1>1, <2>5
<1>2. CASE ~ (Alive(T, x) /\ T[s].st = "Running")
  BY <1>2 DEF BlockForJoin, CanBlock, Same
<1> QED BY <1>1, <1>2

LEMMA WakeBlockedOnEffect ==
  ASSUME NEW T \in Tables, Sound(T), NEW c \in Chans
  PROVE  /\ WakeBlockedOn(T, c) \in Tables /\ Sound(WakeBlockedOn(T, c))
         /\ Same(T, WakeBlockedOn(T, c)) /\ Live(WakeBlockedOn(T, c)) = Live(T)
         /\ \A s \in Slots : /\ WakeBlockedOn(T, c)[s].st = "Running" => T[s].st = "Running"
                             /\ WakeBlockedOn(T, c)[s].joining = T[s].joining
<1> DEFINE U == WakeBlockedOn(T, c)
<1>1. \A s \in Slots : T[s] \in Task
  BY DEF Tables
<1>2. U \in Tables
  BY <1>1, FieldUpdates DEF WakeBlockedOn, Tables
<1>3. ASSUME NEW s \in Slots
      PROVE  IF T[s].st = "Blocked" /\ T[s].wait = c
             THEN /\ U[s] = [T[s] EXCEPT !.st = "Ready", !.wait = Nil, !.token = FALSE]
                  /\ U[s].st = "Ready" /\ U[s].id = T[s].id /\ U[s].stack = T[s].stack
                  /\ U[s].joining = T[s].joining /\ T[s].joining = 0
             ELSE U[s] = T[s]
  <2>1. CASE T[s].st = "Blocked" /\ T[s].wait = c
    <3>1. U[s] = [T[s] EXCEPT !.st = "Ready", !.wait = Nil, !.token = FALSE]
      BY <2>1 DEF WakeBlockedOn, WaitersOn
    <3>2. T[s].joining = 0
      BY <2>1, SchedulerFacts DEF Sound
    <3> HIDE DEF U
    <3> QED BY <1>1, <2>1, <3>1, <3>2 DEF Task
  <2>2. CASE ~ (T[s].st = "Blocked" /\ T[s].wait = c)
    BY <2>2 DEF WakeBlockedOn, WaitersOn
  <2> QED BY <2>1, <2>2
<1> HIDE DEF U
<1>4. \A s \in Slots : /\ U[s].id = T[s].id /\ U[s].stack = T[s].stack
                       /\ U[s].joining = T[s].joining
                       /\ \/ U[s] = T[s]
                          \/ T[s].st = "Blocked" /\ U[s].st = "Ready" /\ T[s].joining = 0
  BY <1>3
<1>5. Same(T, U) /\ Live(U) = Live(T)
  BY <1>4 DEF Same, Live
<1>6. \A x : Alive(T, x) => Alive(U, x)
  BY <1>4, <1>5, LiveIsOccupied DEF Alive
<1>7. Sound(U)
  <2>1. /\ U[0].id = InitId /\ U[0].st \in {"Ready", "Running"}
        /\ U[ReaperSlot].id = ReaperId /\ U[ReaperSlot].joining = 0
        /\ U[ReaperSlot].st \in {"Ready", "Running", "Blocked"}
    BY <1>4, SchedulerFacts DEF Sound
  <2>2. ASSUME NEW s \in Slots
        PROVE  /\ U[s].st = "Dead" => U[s].wait = Nil /\ U[s].token = FALSE
               /\ U[s].joining # 0 => U[s].st \in {"Blocked", "Dead"}
               /\ U[s].joining # 0 /\ U[s].st = "Blocked"
                    => U[s].wait = Nil /\ Alive(U, U[s].joining)
    BY <1>4, <1>6 DEF Sound
  <2> QED BY <2>1, <2>2 DEF Sound
<1>8. \A s \in Slots : /\ U[s].st = "Running" => T[s].st = "Running"
                       /\ U[s].joining = T[s].joining
  BY <1>4
<1> QED BY <1>2, <1>5, <1>7, <1>8 DEF U

LEMMA DeadAlready ==
  ASSUME NEW t \in Task, t.st = "Dead", t.wait = Nil, t.token = FALSE
  PROVE  [t EXCEPT !.st = "Dead", !.wait = Nil, !.token = FALSE] = t
<1>1. t = [st |-> t.st, id |-> t.id, stack |-> t.stack, prio |-> t.prio,
           wait |-> t.wait, token |-> t.token, joining |-> t.joining]
  BY DEF Task
<1> QED BY <1>1

LEMMA MarkDeadEffect ==
  ASSUME NEW T \in Tables, Sound(T), NEW d \in Occupied(T) \ {0, ReaperSlot}
  PROVE  /\ MarkDead(T, d) \in Tables /\ Sound(MarkDead(T, d))
         /\ Same(T, MarkDead(T, d)) /\ Live(MarkDead(T, d)) = Live(T) \ {d}
         /\ MarkDead(T, d)[d].st = "Dead"
         /\ \A s \in Slots : /\ MarkDead(T, d)[s].st = "Running" => T[s].st = "Running"
                             /\ T[s].joining = 0 => MarkDead(T, d)[s].joining = 0
<1> DEFINE U == MarkDead(T, d)
           x == T[d].id
<1>1. /\ \A s \in Slots : T[s] \in Task
      /\ d \in Slots /\ T[d].st # "Empty"
  BY DEF Tables, Occupied
<1>2. U = [s \in Slots |->
             IF s = d THEN [T[s] EXCEPT !.st = "Dead", !.wait = Nil, !.token = FALSE]
             ELSE IF s \in JoinersOf(T, x) THEN [T[s] EXCEPT !.st = "Ready", !.joining = 0]
             ELSE T[s]]
  BY <1>1 DEF MarkDead
<1> HIDE DEF U
<1>3. /\ U[d] = [T[d] EXCEPT !.st = "Dead", !.wait = Nil, !.token = FALSE]
      /\ U[d].st = "Dead" /\ U[d].wait = Nil /\ U[d].token = FALSE
      /\ U[d].id = T[d].id /\ U[d].stack = T[d].stack /\ U[d].joining = T[d].joining
      /\ U[d] \in Task
  <2>1. U[d] = [T[d] EXCEPT !.st = "Dead", !.wait = Nil, !.token = FALSE]
    BY <1>1, <1>2
  <2>2. T[d] \in Task
    BY <1>1
  <2>3. [T[d] EXCEPT !.st = "Dead", !.wait = Nil, !.token = FALSE] \in Task
    BY <2>2 DEF Task, TaskStates
  <2> QED BY <2>1, <2>2, <2>3 DEF Task
<1>4. ASSUME NEW s \in Slots \ {d}, s \in JoinersOf(T, x)
      PROVE  /\ U[s].st = "Ready" /\ U[s].joining = 0
             /\ U[s].id = T[s].id /\ U[s].stack = T[s].stack /\ U[s] \in Task
             /\ T[s].st = "Blocked"
  <2>1. U[s] = [T[s] EXCEPT !.st = "Ready", !.joining = 0]
    BY <1>2, <1>4
  <2>2. T[s] \in Task
    BY <1>1
  <2>3. [T[s] EXCEPT !.st = "Ready", !.joining = 0] \in Task
    BY <2>2 DEF Task, TaskStates
  <2>4. T[s].st = "Blocked"
    BY <1>4 DEF JoinersOf
  <2> QED BY <2>1, <2>2, <2>3, <2>4 DEF Task
<1>5. ASSUME NEW s \in Slots \ {d}, s \notin JoinersOf(T, x)
      PROVE  U[s] = T[s]
  BY <1>2, <1>5
<1>6. U \in Tables
  <2>1. \A s \in Slots : U[s] \in Task
    BY <1>1, <1>3, <1>4, <1>5
  <2>2. U = [s \in Slots |-> U[s]]
    BY <1>2
  <2> QED BY <2>1, <2>2 DEF Tables
<1>7. T[d].st = "Dead" => U[d] = T[d]
  <2>1. T[d].st = "Dead" => T[d].wait = Nil /\ T[d].token = FALSE
    BY <1>1 DEF Sound
  <2>2. T[d] \in Task
    BY <1>1
  <2> QED BY <1>3, <2>1, <2>2, DeadAlready
<1>8. Same(T, U)
  <2> SUFFICES ASSUME NEW s \in Slots
               PROVE  /\ U[s].id = T[s].id /\ U[s].stack = T[s].stack
                      /\ U[s].st = "Empty" <=> T[s].st = "Empty"
                      /\ T[s].st = "Dead" => U[s] = T[s]
    BY DEF Same
  <2>1. CASE s = d
    BY <1>1, <1>3, <1>7, <2>1
  <2>2. CASE s # d
    BY <1>4, <1>5, <2>2
  <2> QED BY <2>1, <2>2
<1>9. Live(U) = Live(T) \ {d}
  BY <1>3, <1>4, <1>5 DEF Live
<1>10. ASSUME NEW y, y # x, Alive(T, y) PROVE Alive(U, y)
  <2>1. PICK s \in Live(T) : T[s].id = y
    BY <1>10 DEF Alive
  <2>2. s \in Live(U) /\ U[s].id = y
    BY <1>8, <1>9, <1>10, <2>1, LiveIsOccupied DEF Same
  <2> QED BY <2>2 DEF Alive
<1>11. Sound(U)
  <2>1. /\ U[0].id = InitId /\ U[0].st \in {"Ready", "Running"}
        /\ U[ReaperSlot].id = ReaperId /\ U[ReaperSlot].joining = 0
        /\ U[ReaperSlot].st \in {"Ready", "Running", "Blocked"}
    <3>1. 0 \in Slots \ {d} /\ ReaperSlot \in Slots \ {d}
      BY SchedulerFacts
    <3> QED BY <1>4, <1>5, <3>1 DEF Sound
  <2>2. ASSUME NEW s \in Slots
        PROVE  /\ U[s].st = "Dead" => U[s].wait = Nil /\ U[s].token = FALSE
               /\ U[s].joining # 0 => U[s].st \in {"Blocked", "Dead"}
               /\ U[s].joining # 0 /\ U[s].st = "Blocked"
                    => U[s].wait = Nil /\ Alive(U, U[s].joining)
    <3>1. CASE s = d
      BY <1>3, <3>1
    <3>2. CASE s # d /\ s \in JoinersOf(T, x)
      BY <1>4, <3>2
    <3>3. CASE s # d /\ s \notin JoinersOf(T, x)
      <4>1. U[s] = T[s]
        BY <1>5, <3>3
      <4>2. T[s].st = "Blocked" => T[s].joining # x
        BY <3>3 DEF JoinersOf
      <4> QED BY <1>10, <4>1, <4>2 DEF Sound
    <3> QED BY <3>1, <3>2, <3>3
  <2> QED BY <2>1, <2>2 DEF Sound
<1>12. \A s \in Slots : /\ U[s].st = "Running" => T[s].st = "Running"
                        /\ T[s].joining = 0 => U[s].joining = 0
  BY <1>3, <1>4, <1>5
<1> QED BY <1>3, <1>6, <1>8, <1>9, <1>11, <1>12 DEF U

-----------------------------------------------------------------------------
(* The run queue only ever yields slots that are Ready.                    *)
LEMMA NextReadyType ==
  ASSUME tasks \in Tables, current \in Slots, runq \in Seq(Slots), NextReady # NoSlot
  PROVE  NextReady \in Slots /\ tasks[NextReady].st = "Ready"
<1>1. CASE ReadyInQueue = {}
  BY <1>1, ScanType DEF NextReady
<1>2. CASE ReadyInQueue # {}
  <2>1. ReadyInQueue \subseteq Nat
    BY LenProperties DEF ReadyInQueue
  <2>2. Min(ReadyInQueue) \in ReadyInQueue
    BY <1>2, <2>1, MinIsLeast
  <2>3. NextReady = runq[Min(ReadyInQueue)]
    BY <1>2 DEF NextReady
  <2>4. NextReady \in ReadySet(tasks)
    BY <2>2, <2>3 DEF ReadyInQueue
  <2> QED BY <2>4 DEF ReadySet
<1> QED BY <1>1, <1>2

LEMMA QueueAfterPickType ==
  ASSUME runq \in Seq(Slots), Len(runq) <= RunqCap
  PROVE  QueueAfterPick \in Seq(Slots) /\ Len(QueueAfterPick) <= RunqCap
<1>1. CASE ReadyInQueue = {}
  BY <1>1, EmptySeq, SchedulerFacts DEF QueueAfterPick
<1>2. CASE ReadyInQueue # {}
  <2> DEFINE m == Min(ReadyInQueue) + 1
  <2>1. ReadyInQueue \subseteq 1 .. Len(runq) /\ Len(runq) \in Nat
    BY LenProperties DEF ReadyInQueue
  <2>2. Min(ReadyInQueue) \in ReadyInQueue
    <3>1. ReadyInQueue \subseteq Nat
      BY <2>1
    <3> QED BY <1>2, <3>1, MinIsLeast
  <2>3. m \in Nat /\ m >= 2
    <3>1. Min(ReadyInQueue) \in 1 .. Len(runq)
      BY <2>1, <2>2
    <3> QED BY <2>1, <3>1
  <2>4. QueueAfterPick = SubSeq(runq, m, Len(runq))
    BY <1>2 DEF QueueAfterPick
  <2> HIDE DEF m
  <2>5. \A i \in m .. Len(runq) : runq[i] \in Slots
    BY <2>1, <2>3, ElementOfSeq
  <2>6. /\ SubSeq(runq, m, Len(runq)) \in Seq(Slots)
        /\ Len(SubSeq(runq, m, Len(runq))) = IF m <= Len(runq) THEN Len(runq) - m + 1 ELSE 0
    BY <2>1, <2>3, <2>5, SubSeqProperties
  <2> QED BY <2>1, <2>3, <2>4, <2>6, SchedulerFacts
<1> QED BY <1>1, <1>2

(* What a switch does, from a table in which no task is Running.           *)
Enters(T, n) ==
  /\ T \in Tables /\ Sound(T) /\ n \in Slots /\ T[n].st = "Ready"
  /\ \A s \in Slots : T[s].st # "Running"

(* Only n is Running.                                                      *)
OnlyRuns(T, n) == \A s \in Slots : T[s].st = "Running" => s = n

LEMMA EnterEffect ==
  ASSUME NEW T, NEW n, Enters(T, n)
  PROVE  LET U == MarkRunning(T, n)
         IN  /\ U \in Tables /\ Sound(U) /\ Same(T, U) /\ Live(U) = Live(T)
             /\ OnlyRuns(U, n) /\ U[n].st = "Running"
<1> DEFINE U == MarkRunning(T, n)
<1>1. /\ U \in Tables /\ Sound(U) /\ Same(T, U) /\ Live(U) = Live(T)
      /\ \A r \in Slots \ {n} : U[r] = T[r]
      /\ U[n] = [T[n] EXCEPT !.st = "Running"]
  BY MarkRunningEffect DEF Enters
<1>3. U[n].st = "Running"
  <2>1. T[n] \in Task
    BY DEF Enters, Tables
  <2> HIDE DEF U
  <2> QED BY <1>1, <2>1 DEF Task
<1>2. OnlyRuns(U, n)
  BY <1>1 DEF Enters, OnlyRuns
<1> QED BY <1>1, <1>2, <1>3

LEMMA ReapEffect ==
  ASSUME NEW U \in Tables, Sound(U), NEW n \in Slots,
         OnlyRuns(U, n),
         NEW q \in Seq(Slots), Len(q) <= RunqCap, NEW p, TypeOK,
         ProcessPendingReap(U, q, p)
  PROVE  /\ tasks' \in Tables /\ Sound(tasks') /\ Same(U, tasks') /\ Live(tasks') = Live(U)
         /\ OnlyRuns(tasks', n) /\ (U[n].st = "Running" => tasks'[n].st = "Running")
         /\ runq' \in Seq(Slots) /\ Len(runq') <= RunqCap
         /\ pend' = NoEntry
         /\ \/ rq' = rq /\ sleeping' = sleeping
            \/ /\ p # NoEntry /\ Len(rq) < ReapCap
               /\ rq' = Append(rq, p) /\ sleeping' = FALSE
<1>1. tasks' = WakeTask(U, ReaperSlot) \/ tasks' = U
  BY DEF ProcessPendingReap
<1>2. runq' = Enqueue(q, {ReaperSlot}) \/ runq' = q
  BY DEF ProcessPendingReap
<1>3. /\ tasks' \in Tables /\ Sound(tasks') /\ Same(U, tasks') /\ Live(tasks') = Live(U)
      /\ OnlyRuns(tasks', n) /\ (U[n].st = "Running" => tasks'[n].st = "Running")
  <2>1. CASE tasks' = U
    BY <2>1 DEF Same
  <2>2. CASE tasks' = WakeTask(U, ReaperSlot)
    <3>1. /\ WakeTask(U, ReaperSlot) \in Tables /\ Sound(WakeTask(U, ReaperSlot))
          /\ Same(U, WakeTask(U, ReaperSlot)) /\ Live(WakeTask(U, ReaperSlot)) = Live(U)
          /\ \A r \in Slots \ {ReaperSlot} : WakeTask(U, ReaperSlot)[r] = U[r]
          /\ WakeTask(U, ReaperSlot)[ReaperSlot].st = "Running"
               => U[ReaperSlot].st = "Running"
      BY WakeTaskEffect
    <3>2. OnlyRuns(WakeTask(U, ReaperSlot), n)
      BY <3>1 DEF OnlyRuns
    <3>3. U[n].st = "Running" => WakeTask(U, ReaperSlot)[n].st = "Running"
      BY <3>1 DEF WakeTask
    <3> QED BY <2>2, <3>1, <3>2, <3>3
  <2> QED BY <1>1, <2>1, <2>2
<1>4. runq' \in Seq(Slots) /\ Len(runq') <= RunqCap
  BY <1>2, EnqueueType
<1>5. /\ pend' = NoEntry
      /\ \/ rq' = rq /\ sleeping' = sleeping
         \/ /\ p # NoEntry /\ Len(rq) < ReapCap
            /\ rq' = Append(rq, p) /\ sleeping' = FALSE
  <2>1. CASE p # NoEntry /\ Len(rq) < ReapCap
    BY <2>1 DEF ProcessPendingReap
  <2>2. CASE ~ (p # NoEntry /\ Len(rq) < ReapCap)
    <3>1. rq' = rq /\ pend' = NoEntry
      BY <2>2 DEF ProcessPendingReap
    <3>2. sleeping' = sleeping
      <4> USE DEF TypeOK
      <4>1. CASE sleeping
        BY <2>2, <4>1 DEF ProcessPendingReap
      <4>2. CASE ~ sleeping
        BY <4>2 DEF ProcessPendingReap
      <4> QED BY <4>1, <4>2
    <3> QED BY <3>1, <3>2
  <2> QED BY <2>1, <2>2
<1> QED BY <1>3, <1>4, <1>5

LEMMA SwitchEffect ==
  ASSUME NEW T, NEW n, Enters(T, n),
         NEW q \in Seq(Slots), Len(q) <= RunqCap, NEW pcs, NEW p,
         TypeOK, Switch(n, T, q, pcs, p)
  PROVE  /\ ctx' = [ctx EXCEPT ![current] = thr] /\ current' = n /\ thr' = ctx[n]
         /\ tasks' \in Tables /\ Sound(tasks') /\ Same(T, tasks') /\ Live(tasks') = Live(T)
         /\ OnlyRuns(tasks', n) /\ tasks'[n].st = "Running"
         /\ runq' \in Seq(Slots) /\ Len(runq') <= RunqCap
         /\ \/ /\ pcs[ctx[n]] = "fresh"
               /\ pc' = [pcs EXCEPT ![ctx[n]] = IF ctx[n] = ReaperId THEN "reap" ELSE "run"]
               /\ pend' = p
            \/ pcs[ctx[n]] # "fresh" /\ pc' = pcs /\ pend' = NoEntry
         /\ \/ rq' = rq /\ sleeping' = sleeping
            \/ /\ p # NoEntry /\ Len(rq) < ReapCap
               /\ pend' = NoEntry /\ rq' = Append(rq, p) /\ sleeping' = FALSE
<1> DEFINE U == MarkRunning(T, n)
<1>1. /\ ctx' = [ctx EXCEPT ![current] = thr] /\ current' = n
      /\ Resume(ctx[n], U, q, pcs, p)
  BY DEF Switch
<1>2. /\ U \in Tables /\ Sound(U) /\ Same(T, U) /\ Live(U) = Live(T)
      /\ OnlyRuns(U, n) /\ U[n].st = "Running"
  BY EnterEffect
<1>3. n \in Slots
  BY DEF Enters
<1> HIDE DEF U
<1>4. CASE pcs[ctx[n]] = "fresh"
  <2>1. /\ thr' = ctx[n] /\ tasks' = U /\ runq' = q /\ pend' = p
        /\ pc' = [pcs EXCEPT ![ctx[n]] = IF ctx[n] = ReaperId THEN "reap" ELSE "run"]
        /\ rq' = rq /\ sleeping' = sleeping
    BY <1>1, <1>4 DEF Resume
  <2> QED BY <1>1, <1>2, <1>4, <2>1
<1>5. CASE pcs[ctx[n]] # "fresh"
  <2>1. thr' = ctx[n] /\ pc' = pcs /\ ProcessPendingReap(U, q, p)
    BY <1>1, <1>5 DEF Resume
  <2>2. /\ tasks' \in Tables /\ Sound(tasks') /\ Same(U, tasks') /\ Live(tasks') = Live(U)
        /\ OnlyRuns(tasks', n) /\ (U[n].st = "Running" => tasks'[n].st = "Running")
        /\ runq' \in Seq(Slots) /\ Len(runq') <= RunqCap
        /\ pend' = NoEntry
        /\ \/ rq' = rq /\ sleeping' = sleeping
           \/ /\ p # NoEntry /\ Len(rq) < ReapCap
              /\ rq' = Append(rq, p) /\ sleeping' = FALSE
    BY <1>2, <1>3, <2>1, ReapEffect
  <2>3. Same(T, tasks')
    BY <1>2, <2>2, SameIsTransitive
  <2> QED BY <1>1, <1>2, <1>5, <2>1, <2>2, <2>3
<1> QED BY <1>4, <1>5

-----------------------------------------------------------------------------
(* What a step leaves alone keeps its part of the invariant.               *)

(* Nobody takes or drops an entry or a creation.                           *)
Quietly ==
  \A t \in Threads : /\ t # ReaperId => (InCreation(pc'[t]) <=> InCreation(pc[t]))
                     /\ InReaping(pc'[t]) <=> InReaping(pc[t])
                     /\ pc'[t] = "clear" <=> pc[t] = "clear"

LEMMA HandsKept ==
  ASSUME HandsMatch, Quietly, pc'[ReaperId] \in ReaperPCs, held' = held, hand' = hand
  PROVE  HandsMatch'
<1>1. \A t \in Threads : held'[t] # 0 <=> t # ReaperId /\ InCreation(pc'[t])
  BY DEF HandsMatch, Quietly
<1>2. \A t \in Threads : hand'[t] # NoEntry <=> InReaping(pc'[t])
  BY DEF HandsMatch, Quietly
<1> QED BY <1>1, <1>2 DEF HandsMatch, NoEntry

LEMMA FreedKept ==
  ASSUME Quietly, hand' = hand, NEW s
  PROVE  Freed(s)' <=> Freed(s)
BY DEF Quietly, Freed

LEMMA StacksKept ==
  ASSUME StacksOwned, Same(tasks, tasks'), Quietly,
         held' = held, hand' = hand, inUse' = inUse
  PROVE  StacksOwned'
<1>1. Creating' = Creating
  BY DEF Creating
<1>2. Occupied(tasks') = Occupied(tasks)
  BY SameOccupied
<1>3. \A s \in Occupied(tasks) : tasks'[s].stack = tasks[s].stack
  BY DEF Same, Occupied
<1>4. \A s : Freed(s)' <=> Freed(s)
  BY FreedKept
<1>5. \A s \in Occupied(tasks') : ~ Freed(s)' => tasks'[s].stack \in inUse'
  BY <1>2, <1>3, <1>4 DEF StacksOwned
<1>6. \A r, s \in Occupied(tasks') :
        ~ Freed(r)' /\ ~ Freed(s)' /\ tasks'[r].stack = tasks'[s].stack => r = s
  BY <1>2, <1>3, <1>4 DEF StacksOwned
<1>7. \A s \in Occupied(tasks'), t \in Creating' :
        ~ Freed(s)' => tasks'[s].stack # held'[t]
  BY <1>1, <1>2, <1>3, <1>4 DEF StacksOwned
<1>8. /\ \A t \in Creating' : held'[t] \in inUse'
      /\ \A t, u \in Creating' : held'[t] = held'[u] => t = u
  BY <1>1 DEF StacksOwned
<1> QED BY <1>5, <1>6, <1>7, <1>8 DEF StacksOwned

LEMMA CountKept ==
  ASSUME CountMatches, Same(tasks, tasks'), count' = count
  PROVE  CountMatches'
<1>1. Occupied(tasks') = Occupied(tasks)
  BY SameOccupied
<1> QED BY <1>1 DEF CountMatches

LEMMA IdsKept ==
  ASSUME IdsLeft, nextId' = nextId, held' = held
  PROVE  IdsLeft'
BY DEF IdsLeft, Creating

(* An entry is owed as long as its slot does not get the CPU.              *)
LEMMA OwedKept ==
  ASSUME Same(tasks, tasks'), NEW e \in Entries, Owed(e), e.slot # current'
  PROVE  Owed(e)'
BY DEF Same, Owed, Entries

(* The steps that neither switch nor create nor reap.                      *)
LocalStep ==
  /\ tasks' \in Tables /\ Sound(tasks')
  /\ Same(tasks, tasks') /\ Live(tasks') \subseteq Live(tasks) /\ OnlyRuns(tasks', current)
  /\ runq' \in Seq(Slots) /\ Len(runq') <= RunqCap
  /\ sleeping' \in BOOLEAN
  /\ pc' \in [Threads -> PCs] /\ \A t \in Threads \ {thr} : pc'[t] = pc[t]
  /\ pc'[thr] \notin {"fresh", "none", "gone", "halt"} /\ pc'[ReaperId] \in ReaperPCs
  /\ Quietly
  /\ FlagMeansNoWork' /\ JoinedFree'
  /\ UNCHANGED <<count, nextId, current, ctx, thr, pend, rq, inUse, held, hand>>

LEMMA ExecutingFacts ==
  ASSUME IInv
  PROVE  /\ current \in Slots /\ thr \in Threads /\ thr = tasks[current].id
         /\ thr # Boot /\ nextId \in 3 .. MaxId + 1
         /\ \A s \in Occupied(tasks) : tasks[s].id \in Threads \ {Boot} /\ tasks[s].id < nextId
         /\ \A s \in Occupied(tasks) : tasks[s].id = thr => s = current
<1>1. /\ current \in Occupied(tasks) /\ thr = tasks[current].id
      /\ nextId \in 3 .. MaxId + 1 /\ thr \in Threads /\ current \in Slots
  BY DEF IInv, Executing, RunningIsCurrent, TypeOK
<1>2. /\ \A s \in Occupied(tasks) : tasks[s].id \in 1 .. nextId - 1
      /\ \A r, s \in Occupied(tasks) : tasks[r].id = tasks[s].id => r = s
  BY DEF IInv, Numbered
<1> QED BY <1>1, <1>2, SchedulerFacts

LEMMA LocalKeeps ==
  ASSUME IInv, LocalStep
  PROVE  IInv' /\ Same(tasks, tasks')
<1> USE DEF LocalStep
<1>1. TypeOK'
  BY DEF IInv, TypeOK, Tables
<1>2. Sound(tasks)' /\ Numbered(tasks, nextId)'
  BY SameOccupied DEF IInv
<1>3. RunningIsCurrent'
  <2>1. \A s \in Slots : tasks'[s].st = "Running" => s = current'
    BY DEF OnlyRuns
  <2>2. thr' = tasks'[current'].id /\ tasks'[current'].stack \in inUse'
    BY ExecutingFacts DEF IInv, RunningIsCurrent, Same
  <2> QED BY <2>1, <2>2 DEF RunningIsCurrent
<1>4. ContextOwnership'
  BY LiveIsOccupied DEF IInv, ContextOwnership, Same
<1>5. Executing'
  <2>1. current' \in Occupied(tasks')
    BY SameOccupied DEF IInv, Executing
  <2>3. \A t \in Threads : t >= nextId' => pc'[t] = "none"
    BY ExecutingFacts DEF IInv, Executing
  <2>2. ASSUME NEW s \in Live(tasks')
        PROVE  pc'[tasks'[s].id] \notin {"none", "gone", "halt"}
    <3>1. s \in Live(tasks) /\ s \in Occupied(tasks) /\ tasks'[s].id = tasks[s].id
      BY LiveIsOccupied DEF Same
    <3>2. tasks[s].id \in Threads /\ pc[tasks[s].id] \notin {"none", "gone", "halt"}
      BY <3>1, ExecutingFacts DEF IInv, Executing
    <3> QED BY <3>1, <3>2
  <2> QED BY <2>1, <2>2, <2>3 DEF Executing
<1>6. HandsMatch' /\ StacksOwned'
  BY HandsKept, StacksKept DEF IInv
<1>7. EntriesOwed'
  <2>1. ASSUME NEW e \in Entries, Owed(e) PROVE Owed(e)'
    BY <2>1, OwedKept DEF Owed
  <2>2. pend # NoEntry => Owed(pend)'
    BY <2>1 DEF IInv, TypeOK, EntriesOwed
  <2>3. \A i \in DOMAIN rq : Owed(rq[i])'
    <3>1. \A i \in DOMAIN rq : rq[i] \in Entries
      BY LenProperties, ElementOfSeq DEF IInv, TypeOK
    <3> QED BY <2>1, <3>1 DEF IInv, EntriesOwed
  <2>4. \A t \in Threads : hand[t] # NoEntry => Owed(hand[t])'
    BY <2>1 DEF IInv, TypeOK, EntriesOwed
  <2>5. /\ pend' # NoEntry => Owed(pend)'
        /\ \A i \in DOMAIN rq' : Owed(rq[i])'
        /\ \A t \in Threads : hand'[t] # NoEntry => Owed(hand[t])'
    BY <2>2, <2>3, <2>4
  <2> QED BY <2>5 DEF EntriesOwed, NoEntry
<1>8. EntriesOnce'
  BY DEF IInv, EntriesOnce, NoEntry
<1>9. CountMatches' /\ IdsLeft'
  BY CountKept, IdsKept DEF IInv
<1> QED BY <1>1, <1>2, <1>3, <1>4, <1>5, <1>6, <1>7, <1>8, <1>9 DEF IInv

-----------------------------------------------------------------------------
(* Every switch keeps the invariant, and the slots that are dead.  T, pcs  *)
(* and p are the table, the pcs and the pending entry the caller leaves.   *)
Leaves(n, T, pcs) ==
  /\ Enters(T, n) /\ n # current /\ Same(tasks, T) /\ Live(T) \subseteq Live(tasks)
  /\ pcs \in [Threads -> PCs] /\ \A t \in Threads \ {thr} : pcs[t] = pc[t]
  /\ pcs[thr] \notin {"fresh", "none", "halt"}
  /\ pcs[thr] = "gone" => current \notin Live(T)
  /\ thr # ReaperId => (InCreation(pcs[thr]) <=> InCreation(pc[thr]))
  /\ InReaping(pcs[thr]) <=> InReaping(pc[thr])
  /\ pcs[thr] = "clear" <=> pc[thr] = "clear"
  /\ thr = ReaperId => pcs[thr] \in ReaperPCs
  /\ sleeping /\ thr = ReaperId /\ pcs[thr] \in {"block", "rsched", "woken"} => rq = <<>>

Pends(T, p) ==
  p # NoEntry => /\ p \in Entries
                 /\ T[p.slot].st = "Dead" /\ p.stack = T[p.slot].stack
                 /\ \A i \in DOMAIN rq : rq[i].slot # p.slot
                 /\ \A t \in Threads : hand[t].slot # p.slot

(* The thread that gets the CPU.                                           *)
LEMMA EnteredThread ==
  ASSUME IInv, NEW T, NEW n, NEW pcs, Leaves(n, T, pcs)
  PROVE  /\ n \in Slots /\ n \in Live(T) /\ n \in Live(tasks) /\ n \in Occupied(tasks)
         /\ ctx[n] = tasks[n].id /\ ctx[n] \in Threads \ {thr}
         /\ pcs[ctx[n]] = pc[ctx[n]] /\ pc[ctx[n]] \notin {"none", "gone", "halt"}
<1>1. n \in Slots /\ n \in Live(T) /\ n # current
  BY DEF Leaves, Enters, Live
<1>2. n \in Live(tasks) /\ n \in Occupied(tasks)
  BY <1>1, LiveIsOccupied DEF Leaves
<1>3. ctx[n] = tasks[n].id
  BY <1>1, <1>2 DEF IInv, ContextOwnership
<1>4. ctx[n] \in Threads \ {thr}
  BY <1>1, <1>2, <1>3, ExecutingFacts
<1>5. pc[ctx[n]] \notin {"none", "gone", "halt"}
  BY <1>2, <1>3 DEF IInv, Executing
<1>6. pcs[ctx[n]] = pc[ctx[n]]
  BY <1>4 DEF Leaves
<1> QED BY <1>1, <1>2, <1>3, <1>4, <1>5, <1>6

LEMMA SwitchKeeps ==
  ASSUME IInv, NEW T, NEW n, NEW q \in Seq(Slots), Len(q) <= RunqCap, NEW pcs, NEW p,
         Leaves(n, T, pcs), Pends(T, p), Switch(n, T, q, pcs, p),
         UNCHANGED <<count, nextId, inUse, held, hand>>
  PROVE  IInv' /\ Same(tasks, tasks')
<1> DEFINE t0 == ctx[n]
<1>1. /\ n \in Slots /\ n \in Live(T) /\ n \in Live(tasks) /\ n \in Occupied(tasks)
      /\ t0 = tasks[n].id /\ t0 \in Threads \ {thr}
      /\ pcs[t0] = pc[t0] /\ pc[t0] \notin {"none", "gone", "halt"}
  BY EnteredThread
<1>2. Enters(T, n) /\ n # current /\ Same(tasks, T) /\ Live(T) \subseteq Live(tasks)
  BY DEF Leaves
<1>3. TypeOK
  BY DEF IInv
<1>4. /\ ctx' = [ctx EXCEPT ![current] = thr] /\ current' = n /\ thr' = t0
      /\ tasks' \in Tables /\ Sound(tasks') /\ Same(T, tasks') /\ Live(tasks') = Live(T)
      /\ OnlyRuns(tasks', n) /\ tasks'[n].st = "Running"
      /\ runq' \in Seq(Slots) /\ Len(runq') <= RunqCap
      /\ \/ /\ pcs[t0] = "fresh"
            /\ pc' = [pcs EXCEPT ![t0] = IF t0 = ReaperId THEN "reap" ELSE "run"]
            /\ pend' = p
         \/ pcs[t0] # "fresh" /\ pc' = pcs /\ pend' = NoEntry
      /\ \/ rq' = rq /\ sleeping' = sleeping
         \/ /\ p # NoEntry /\ Len(rq) < ReapCap
            /\ pend' = NoEntry /\ rq' = Append(rq, p) /\ sleeping' = FALSE
  BY <1>2, <1>3, SwitchEffect
<1>5. Same(tasks, tasks')
  BY <1>2, <1>4, SameIsTransitive
<1>6. thr \in Threads /\ current \in Slots
  BY ExecutingFacts
<1> HIDE DEF t0
(* The program counters. *)
<1>7. /\ pc' \in [Threads -> PCs]
      /\ \A t \in Threads \ {thr, t0} : pc'[t] = pc[t]
      /\ pc'[thr] = pcs[thr]
      /\ IF pc[t0] = "fresh" THEN pc'[t0] = IF t0 = ReaperId THEN "reap" ELSE "run"
                             ELSE pc'[t0] = pc[t0]
  <2>1. /\ pcs \in [Threads -> PCs] /\ \A t \in Threads \ {thr} : pcs[t] = pc[t]
    BY DEF Leaves
  <2>2. "reap" \in PCs /\ "run" \in PCs
    BY DEF PCs
  <2> QED BY <1>1, <1>4, <1>6, <2>1, <2>2
<1>8. Quietly
  <2> SUFFICES ASSUME NEW t \in Threads
               PROVE  /\ t # ReaperId => (InCreation(pc'[t]) <=> InCreation(pc[t]))
                      /\ InReaping(pc'[t]) <=> InReaping(pc[t])
                      /\ pc'[t] = "clear" <=> pc[t] = "clear"
    BY DEF Quietly
  <2>1. CASE t \notin {thr, t0}
    BY <1>7, <2>1
  <2>2. CASE t = thr
    BY <1>7, <2>2 DEF Leaves
  <2>3. CASE t = t0
    BY <1>7, <2>3 DEF InCreation, InReaping
  <2> QED BY <2>1, <2>2, <2>3
<1>9. pc'[ReaperId] \in ReaperPCs
  <2>1. ReaperId \in Threads /\ pc[ReaperId] \in ReaperPCs
    BY SchedulerFacts DEF IInv, HandsMatch
  <2>2. CASE ReaperId = thr
    BY <1>7, <2>2 DEF Leaves
  <2>3. CASE ReaperId = t0
    BY <1>7, <2>1, <2>3 DEF ReaperPCs
  <2>4. CASE ReaperId \notin {thr, t0}
    BY <1>7, <2>1, <2>4
  <2> QED BY <2>2, <2>3, <2>4
(* The entries. *)
<1>10. pend' = NoEntry \/ pend' = p
  BY <1>4
<1>11. rq \in Seq(Entries) /\ Len(rq) <= ReapCap /\ Len(rq) \in Nat /\ DOMAIN rq = 1 .. Len(rq)
       /\ \A i \in DOMAIN rq : rq[i] \in Entries
  <2>1. rq \in Seq(Entries) /\ Len(rq) <= ReapCap
    BY <1>3 DEF TypeOK
  <2> QED BY <2>1, LenProperties, ElementOfSeq
<1>12. /\ rq' \in Seq(Entries) /\ Len(rq') <= ReapCap
       /\ \/ rq' = rq
          \/ /\ p \in Entries /\ p # NoEntry /\ pend' = NoEntry
             /\ DOMAIN rq' = 1 .. Len(rq) + 1
             /\ \A i \in 1 .. Len(rq) : rq'[i] = rq[i]
             /\ rq'[Len(rq) + 1] = p
  <2>1. CASE rq' = rq
    BY <1>11, <2>1
  <2>2. CASE p # NoEntry /\ Len(rq) < ReapCap /\ pend' = NoEntry /\ rq' = Append(rq, p)
    <3>1. p \in Entries
      BY <2>2 DEF Pends
    <3>2. /\ Append(rq, p) \in Seq(Entries) /\ Len(Append(rq, p)) = Len(rq) + 1
          /\ \A i \in 1 .. Len(rq) : Append(rq, p)[i] = rq[i]
          /\ Append(rq, p)[Len(rq) + 1] = p
      BY <1>11, <3>1, AppendProperties
    <3>3. DOMAIN Append(rq, p) = 1 .. Len(rq) + 1
      BY <3>2, LenProperties
    <3>4. rq' \in Seq(Entries) /\ Len(rq') <= ReapCap
      BY <1>11, <2>2, <3>2, SchedulerFacts
    <3> QED BY <2>2, <3>1, <3>2, <3>3, <3>4
  <2> QED BY <1>4, <2>1, <2>2
<1>13. TypeOK'
  <2>1. p # NoEntry => p \in Entries
    BY DEF Pends
  <2>2. pend' \in Entries \cup {NoEntry}
    BY <1>10, <2>1
  <2>3. ctx' \in [Slots -> Threads \cup {NoThread}] /\ sleeping' \in BOOLEAN
    BY <1>3, <1>4, <1>6 DEF TypeOK
  <2>4. thr' \in Threads /\ current' \in Slots
    BY <1>1, <1>4
  <2> QED BY <1>3, <1>4, <1>7, <1>12, <2>2, <2>3, <2>4 DEF TypeOK, Tables
<1>14. Sound(tasks)' /\ Numbered(tasks, nextId)'
  BY <1>4, <1>5, SameOccupied DEF IInv
<1>15. RunningIsCurrent'
  <2>1. \A s \in Slots : tasks'[s].st = "Running" => s = current'
    BY <1>4 DEF OnlyRuns
  <2>2. thr' = tasks'[current'].id
    BY <1>1, <1>4, <1>5 DEF Same
  <2>3. ~ Freed(n)
    <3>1. ASSUME NEW t \in Threads, pc[t] = "clear", hand[t].slot = n PROVE FALSE
      <4>1. hand[t] # NoEntry
        BY <3>1 DEF IInv, HandsMatch, InReaping
      <4>2. tasks[n].st = "Dead"
        BY <3>1, <4>1 DEF IInv, EntriesOwed, Owed
      <4> QED BY <1>1, <4>2 DEF Live
    <3> QED BY <3>1 DEF Freed
  <2>4. tasks'[current'].stack \in inUse'
    BY <1>1, <1>4, <1>5, <2>3 DEF IInv, StacksOwned, Same
  <2> QED BY <2>1, <2>2, <2>4 DEF RunningIsCurrent
<1>16. ContextOwnership'
  <2> SUFFICES ASSUME NEW s \in Live(tasks'), s # current' PROVE ctx'[s] = tasks'[s].id
    BY DEF ContextOwnership
  <2>1. s \in Live(tasks) /\ s \in Slots /\ tasks'[s].id = tasks[s].id
    BY <1>2, <1>4, <1>5, LiveIsOccupied DEF Same
  <2>2. CASE s = current
    BY <1>3, <1>4, <2>1, <2>2, ExecutingFacts DEF TypeOK
  <2>3. CASE s # current
    BY <1>3, <1>4, <2>1, <2>3 DEF IInv, ContextOwnership, TypeOK
  <2> QED BY <2>2, <2>3
<1>17. Executing'
  <2>1. current' \in Occupied(tasks')
    BY <1>1, <1>4, <1>5, SameOccupied
  <2>2. pc'[thr'] \notin {"fresh", "none", "gone", "halt"}
    BY <1>1, <1>4, <1>7
  <2>3. ASSUME NEW s \in Live(tasks')
        PROVE  pc'[tasks'[s].id] \notin {"none", "gone", "halt"}
    <3>1. s \in Live(T) /\ s \in Live(tasks) /\ s \in Occupied(tasks) /\ tasks'[s].id = tasks[s].id
      BY <1>2, <1>4, <1>5, LiveIsOccupied DEF Same
    <3>2. tasks[s].id \in Threads /\ pc[tasks[s].id] \notin {"none", "gone", "halt"}
      BY <3>1, ExecutingFacts DEF IInv, Executing
    <3>3. CASE tasks[s].id = thr
      <4>1. s = current
        BY <3>1, <3>3, ExecutingFacts
      <4>2. pcs[thr] \notin {"none", "gone", "halt"}
        BY <3>1, <4>1 DEF Leaves
      <4> QED BY <1>7, <3>1, <3>3, <4>2
    <3>4. CASE tasks[s].id = t0
      BY <1>4, <2>2, <3>1, <3>4
    <3>5. CASE tasks[s].id \notin {thr, t0}
      BY <1>7, <3>1, <3>2, <3>5
    <3> QED BY <3>3, <3>4, <3>5
  <2>4. \A t \in Threads : t >= nextId' => pc'[t] = "none"
    <3>1. thr < nextId /\ t0 < nextId
      BY <1>1, ExecutingFacts DEF IInv, Executing
    <3>2. nextId \in Nat /\ thr \in Nat /\ t0 \in Nat /\ Threads \subseteq Nat
      BY <1>1, <1>3, <1>6, SchedulerFacts DEF TypeOK
    <3> QED BY <1>7, <3>1, <3>2 DEF IInv, Executing
  <2> QED BY <2>1, <2>2, <2>3, <2>4 DEF Executing
<1>18. HandsMatch' /\ StacksOwned' /\ CountMatches' /\ IdsLeft'
  BY <1>5, <1>8, <1>9, HandsKept, StacksKept, CountKept, IdsKept DEF IInv
<1>19. EntriesOwed'
  <2>1. T[n].st = "Ready" /\ Same(T, tasks')
    BY <1>2, <1>4 DEF Enters
  <2>2. p # NoEntry => Owed(p)'
    <3> SUFFICES ASSUME p # NoEntry PROVE Owed(p)'
      OBVIOUS
    <3>1. p.slot \in Slots /\ T[p.slot].st = "Dead" /\ p.stack = T[p.slot].stack
      BY DEF Pends, Entries
    <3>2. tasks'[p.slot] = T[p.slot] /\ p.slot # n
      BY <2>1, <3>1 DEF Same
    <3> QED BY <1>4, <3>1, <3>2 DEF Owed
  <2>3. ASSUME NEW e \in Entries, Owed(e) PROVE Owed(e)'
    <3>1. e.slot # current'
      BY <1>1, <1>4, <2>3 DEF Owed, Live
    <3> QED BY <1>5, <2>3, <3>1, OwedKept
  <2>4. pend' # NoEntry => Owed(pend)'
    <3>1. CASE pend' = NoEntry
      BY <3>1
    <3>2. CASE pend' = p
      BY <2>2, <3>2 DEF Owed
    <3> QED BY <1>10, <3>1, <3>2
  <2>5. ASSUME NEW i \in DOMAIN rq' PROVE Owed(rq[i])'
    <3>1. \A j \in DOMAIN rq : Owed(rq[j])
      BY DEF IInv, EntriesOwed
    <3>2. CASE i \in DOMAIN rq /\ rq'[i] = rq[i]
      <4>1. PICK e : e = rq[i]
        OBVIOUS
      <4>2. e \in Entries /\ Owed(e)
        BY <1>11, <3>1, <3>2, <4>1
      <4>3. Owed(e)'
        BY <2>3, <4>2
      <4> QED BY <3>2, <4>1, <4>3 DEF Owed
    <3>3. CASE rq'[i] = p /\ p # NoEntry
      BY <2>2, <3>3 DEF Owed
    <3> QED BY <1>11, <1>12, <3>2, <3>3
  <2>6. ASSUME NEW t \in Threads, hand'[t] # NoEntry PROVE Owed(hand[t])'
    <3>1. PICK e : e = hand[t]
      OBVIOUS
    <3>2. e \in Entries /\ Owed(e)
      BY <1>3, <2>6, <3>1 DEF IInv, TypeOK, EntriesOwed
    <3>3. Owed(e)'
      BY <2>3, <3>2
    <3> QED BY <3>1, <3>3 DEF Owed
  <2> QED BY <2>4, <2>5, <2>6 DEF EntriesOwed, NoEntry
<1>20. EntriesOnce'
  <2>1. EntriesOnce
    BY DEF IInv
  <2>2. p # NoEntry => /\ \A i \in DOMAIN rq : rq[i].slot # p.slot
                       /\ \A t \in Threads : hand[t].slot # p.slot
    BY DEF Pends
  <2>3. CASE rq' = rq
    <3>1. /\ \A i \in DOMAIN rq' : pend' # NoEntry => rq'[i].slot # pend'.slot
          /\ \A t \in Threads : pend' # NoEntry => hand'[t].slot # pend'.slot
      BY <1>10, <2>2, <2>3
    <3>2. /\ \A i \in DOMAIN rq', t \in Threads : rq'[i].slot # hand'[t].slot
          /\ \A i, j \in DOMAIN rq' : rq'[i].slot = rq'[j].slot => i = j
          /\ \A t, u \in Threads : hand'[t] # NoEntry /\ hand'[t].slot = hand'[u].slot => t = u
      BY <2>1, <2>3 DEF EntriesOnce
    <3> QED BY <3>1, <3>2 DEF EntriesOnce, NoEntry
  <2>4. CASE /\ p \in Entries /\ p # NoEntry /\ pend' = NoEntry
             /\ DOMAIN rq' = 1 .. Len(rq) + 1
             /\ \A i \in 1 .. Len(rq) : rq'[i] = rq[i]
             /\ rq'[Len(rq) + 1] = p
    <3>1. \A i \in DOMAIN rq' : \/ i \in DOMAIN rq /\ rq'[i] = rq[i]
                                \/ i = Len(rq) + 1 /\ rq'[i] = p
      BY <1>11, <2>4
    <3>2. \A i \in DOMAIN rq', t \in Threads : rq'[i].slot # hand'[t].slot
      BY <2>1, <2>2, <2>4, <3>1 DEF EntriesOnce
    <3>3. \A i, j \in DOMAIN rq' : rq'[i].slot = rq'[j].slot => i = j
      BY <2>1, <2>2, <2>4, <3>1 DEF EntriesOnce
    <3>4. \A t, u \in Threads : hand'[t] # NoEntry /\ hand'[t].slot = hand'[u].slot => t = u
      BY <2>1 DEF EntriesOnce
    <3> QED BY <2>4, <3>2, <3>3, <3>4 DEF EntriesOnce, NoEntry
  <2> QED BY <1>12, <2>3, <2>4
<1>21. FlagMeansNoWork'
  <2> SUFFICES ASSUME sleeping', pc'[ReaperId] \in {"block", "rsched", "woken"}
               PROVE  rq' = <<>>
    BY DEF FlagMeansNoWork, ReaperId
  <2>1. rq' = rq /\ sleeping
    BY <1>4
  <2>2. CASE ReaperId = thr
    BY <1>7, <2>1, <2>2 DEF Leaves
  <2>3. CASE ReaperId # thr
    <3>1. ReaperId \in Threads
      BY SchedulerFacts
    <3>2. pc[ReaperId] \in {"block", "rsched", "woken"}
      BY <1>7, <2>3, <3>1
    <3> QED BY <2>1, <3>2 DEF IInv, FlagMeansNoWork
  <2> QED BY <2>2, <2>3
<1>22. JoinedFree'
  <2>1. tasks'[n].joining # 0 => tasks'[n].st \in {"Blocked", "Dead"}
    BY <1>1, <1>4 DEF Sound
  <2> QED BY <1>4, <2>1 DEF JoinedFree
<1> QED BY <1>5, <1>13, <1>14, <1>15, <1>16, <1>17, <1>18, <1>19, <1>20, <1>21, <1>22 DEF IInv

-----------------------------------------------------------------------------
(* The executing thread goes on to x, with in hand what it had.            *)
MayGoTo(x) ==
  /\ x \in PCs \ {"fresh", "none", "gone", "halt"}
  /\ thr # ReaperId => (InCreation(x) <=> InCreation(pc[thr]))
  /\ InReaping(x) <=> InReaping(pc[thr])
  /\ x = "clear" <=> pc[thr] = "clear"
  /\ thr = ReaperId => x \in ReaperPCs

LEMMA GotoEffect ==
  ASSUME IInv, NEW x, MayGoTo(x), NEW pcs, pcs = Goto(x)
  PROVE  /\ pcs \in [Threads -> PCs] /\ \A t \in Threads \ {thr} : pcs[t] = pc[t]
         /\ pcs[thr] = x
BY ExecutingFacts DEF IInv, TypeOK, Goto, MayGoTo

LEMMA GotoKeeps ==
  ASSUME IInv, NEW x, MayGoTo(x), pc' = Goto(x)
  PROVE  /\ pc' \in [Threads -> PCs] /\ \A t \in Threads \ {thr} : pc'[t] = pc[t]
         /\ pc'[thr] = x /\ pc'[thr] \notin {"fresh", "none", "gone", "halt"}
         /\ pc'[ReaperId] \in ReaperPCs /\ Quietly
<1>1. /\ pc' \in [Threads -> PCs] /\ \A t \in Threads \ {thr} : pc'[t] = pc[t]
      /\ pc'[thr] = x
  BY GotoEffect
<1>2. pc'[thr] \notin {"fresh", "none", "gone", "halt"}
  BY <1>1 DEF MayGoTo
<1>3. pc'[ReaperId] \in ReaperPCs
  BY <1>1, SchedulerFacts DEF IInv, HandsMatch, MayGoTo
<1>4. Quietly
  BY <1>1 DEF Quietly, MayGoTo
<1> QED BY <1>1, <1>2, <1>3, <1>4

LEMMA StayKeeps ==
  ASSUME IInv, pc' = pc
  PROVE  /\ pc' \in [Threads -> PCs] /\ \A t \in Threads \ {thr} : pc'[t] = pc[t]
         /\ pc'[thr] \notin {"fresh", "none", "gone", "halt"}
         /\ pc'[ReaperId] \in ReaperPCs /\ Quietly
BY DEF IInv, TypeOK, Executing, HandsMatch, Quietly

(* The flag says the same as long as the queue and the reaper's place do.  *)
LEMMA FlagKept ==
  ASSUME IInv, sleeping' = sleeping, rq' = rq, thr # ReaperId,
         \A t \in Threads \ {thr} : pc'[t] = pc[t]
  PROVE  FlagMeansNoWork'
<1>1. ReaperId \in Threads
  BY SchedulerFacts
<1> QED BY <1>1 DEF IInv, FlagMeansNoWork, ReaperId

LEMMA TypedState ==
  ASSUME IInv
  PROVE  /\ tasks \in Tables /\ Sound(tasks) /\ OnlyRuns(tasks, current) /\ Same(tasks, tasks)
         /\ current \in Slots /\ runq \in Seq(Slots) /\ Len(runq) <= RunqCap
         /\ sleeping \in BOOLEAN
BY DEF IInv, TypeOK, Tables, RunningIsCurrent, OnlyRuns, Same

(* Who is who: a worker is neither in the slot of init nor in the reaper's.*)
LEMMA WhoIsWhere ==
  ASSUME IInv
  PROVE  /\ IsWorker => current \notin {0, ReaperSlot}
         /\ thr = ReaperId => current = ReaperSlot
         /\ thr = ReaperId => pc[thr] \in ReaperPCs
<1>1. tasks[0].id = InitId /\ tasks[ReaperSlot].id = ReaperId
  BY DEF IInv, Sound
<1>2. ReaperSlot \in Occupied(tasks)
  BY SchedulerFacts DEF IInv, Sound, Occupied
<1> QED BY <1>1, <1>2, ExecutingFacts DEF IsWorker, IInv, HandsMatch

(* Init is always there to be run.                                         *)
LEMMA SomebodyReady ==
  ASSUME IInv, current # 0
  PROVE  NextReady # NoSlot
<1>1. tasks \in Tables /\ current \in Slots /\ runq \in Seq(Slots)
  BY TypedState
<1>2. 0 \in ReadySet(tasks)
  BY SchedulerFacts DEF IInv, Sound, RunningIsCurrent, ReadySet
<1>3. CASE ReadyInQueue = {}
  <2>1. FindNextReady(tasks, current) \in TopReady(tasks)
    BY <1>1, <1>2, ScanPicks
  <2> QED BY <1>3, <2>1, SchedulerFacts DEF NextReady, TopReady, ReadySet
<1>4. CASE ReadyInQueue # {}
  <2>1. ReadyInQueue \subseteq Nat
    BY <1>1, LenProperties DEF ReadyInQueue
  <2>2. Min(ReadyInQueue) \in ReadyInQueue
    BY <1>4, <2>1, MinIsLeast
  <2>3. runq[Min(ReadyInQueue)] \in Slots
    BY <2>2 DEF ReadyInQueue, ReadySet
  <2> QED BY <1>4, <2>3, SchedulerFacts DEF NextReady
<1> QED BY <1>3, <1>4

-----------------------------------------------------------------------------
(* schedule() and preempt().                                               *)
LEMMA PendingEntry ==
  ASSUME IInv, NEW T, Same(tasks, T)
  PROVE  Pends(T, pend)
<1> SUFFICES ASSUME pend # NoEntry
             PROVE  /\ pend \in Entries
                    /\ T[pend.slot].st = "Dead" /\ pend.stack = T[pend.slot].stack
                    /\ \A i \in DOMAIN rq : rq[i].slot # pend.slot
                    /\ \A t \in Threads : hand[t].slot # pend.slot
  BY DEF Pends
<1>1. pend \in Entries
  BY DEF IInv, TypeOK
<1>2. pend.slot \in Slots
  BY <1>1 DEF Entries
<1>3. T[pend.slot].st = "Dead" /\ pend.stack = T[pend.slot].stack
  BY <1>2 DEF IInv, EntriesOwed, Owed, Same
<1> QED BY <1>1, <1>3 DEF IInv, EntriesOnce

Continues(pcs) ==
  /\ \E x : MayGoTo(x) /\ pcs = Goto(x)
  /\ pcs[thr] = "joined" => pc[thr] \in {"join", "joined"}
  /\ sleeping /\ thr = ReaperId /\ pcs[thr] \in {"block", "rsched", "woken"} => rq = <<>>

LEMMA RescheduleKeeps ==
  ASSUME IInv, NEW pcs, Continues(pcs), Reschedule(pcs)
  PROVE  IInv' /\ Same(tasks, tasks')
<1>1. PICK x : MayGoTo(x) /\ pcs = Goto(x)
  BY DEF Continues
<1>2. /\ pcs \in [Threads -> PCs] /\ \A t \in Threads \ {thr} : pcs[t] = pc[t]
      /\ pcs[thr] = x
  BY <1>1, GotoEffect
<1>3. QueueAfterPick \in Seq(Slots) /\ Len(QueueAfterPick) <= RunqCap
  BY TypedState, QueueAfterPickType
<1>4. UNCHANGED <<count, nextId, inUse, held, hand>>
  BY DEF Reschedule
<1>5. CASE NextReady \in {NoSlot, current}
  <2>1. /\ runq' = QueueAfterPick /\ pc' = pcs
        /\ UNCHANGED <<tasks, current, ctx, thr, pend, rq, sleeping>>
    BY <1>5 DEF Reschedule
  <2>2. FlagMeansNoWork'
    <3> SUFFICES ASSUME sleeping, pcs[ReaperId] \in {"block", "rsched", "woken"}
                 PROVE  rq = <<>>
      BY <2>1 DEF FlagMeansNoWork, ReaperId
    <3>1. CASE thr = ReaperId
      BY <3>1 DEF Continues
    <3>2. CASE thr # ReaperId
      BY <1>2, <3>2, SchedulerFacts DEF IInv, FlagMeansNoWork
    <3> QED BY <3>1, <3>2
  <2>3. tasks[current].joining = 0
    <3>1. CASE NextReady = NoSlot
      <4>1. current = 0
        BY <3>1, SomebodyReady
      <4> QED BY <4>1, SchedulerFacts DEF IInv, Sound
    <3>2. CASE NextReady = current
      <4>1. tasks[current].st = "Ready"
        BY <3>2, TypedState, NextReadyType, SchedulerFacts
      <4> QED BY <4>1, TypedState DEF Sound
    <3> QED BY <1>5, <3>1, <3>2
  <2>4. JoinedFree'
    BY <2>1, <2>3 DEF JoinedFree
  <2>5. /\ pc' \in [Threads -> PCs] /\ \A t \in Threads \ {thr} : pc'[t] = pc[t]
        /\ pc'[thr] \notin {"fresh", "none", "gone", "halt"}
        /\ pc'[ReaperId] \in ReaperPCs /\ Quietly
    BY <1>1, <2>1, GotoKeeps
  <2>6. LocalStep
    BY <1>3, <1>4, <2>1, <2>2, <2>4, <2>5, TypedState DEF LocalStep
  <2> QED BY <2>6, LocalKeeps
<1>6. CASE NextReady \notin {NoSlot, current}
  <2> DEFINE T == MarkReady(tasks, current)
             n == NextReady
  <2>1. Switch(n, T, QueueAfterPick, pcs, pend)
    BY <1>6 DEF Reschedule
  <2>2. n \in Slots /\ tasks[n].st = "Ready" /\ n # current
    BY <1>6, TypedState, NextReadyType
  <2>3. /\ T \in Tables /\ Sound(T) /\ Same(tasks, T) /\ Live(T) = Live(tasks)
        /\ \A r \in Slots \ {current} : T[r] = tasks[r]
        /\ T[current].st # "Running"
    BY TypedState, MarkReadyEffect
  <2> HIDE DEF T, n
  <2>4. Enters(T, n)
    <3>1. \A s \in Slots : T[s].st # "Running"
      BY <2>3, TypedState DEF OnlyRuns
    <3> QED BY <2>2, <2>3, <3>1 DEF Enters
  <2>5. Leaves(n, T, pcs)
    <3>1. /\ pcs[thr] \notin {"fresh", "none", "gone", "halt"}
          /\ thr # ReaperId => (InCreation(pcs[thr]) <=> InCreation(pc[thr]))
          /\ InReaping(pcs[thr]) <=> InReaping(pc[thr])
          /\ pcs[thr] = "clear" <=> pc[thr] = "clear"
          /\ thr = ReaperId => pcs[thr] \in ReaperPCs
      BY <1>1, <1>2 DEF MayGoTo
    <3> QED BY <1>2, <2>2, <2>3, <2>4, <3>1 DEF Leaves, Continues
  <2>6. Pends(T, pend)
    BY <2>3, PendingEntry
  <2> QED BY <1>3, <1>4, <2>1, <2>5, <2>6, SwitchKeeps
<1> QED BY <1>5, <1>6

LEMMA PreemptKeeps ==
  ASSUME IInv, Reschedule(pc)
  PROVE  IInv' /\ Same(tasks, tasks')
<1>1. pc = Goto(pc[thr])
  <2>1. pc = [t \in Threads |-> pc[t]] /\ thr \in Threads
    BY ExecutingFacts DEF IInv, TypeOK
  <2> QED BY <2>1 DEF Goto
<1>2. MayGoTo(pc[thr])
  BY ExecutingFacts DEF IInv, TypeOK, Executing, HandsMatch, MayGoTo
<1>3. Continues(pc)
  BY <1>1, <1>2 DEF Continues, IInv, FlagMeansNoWork
<1> QED BY <1>3, RescheduleKeeps

LEMMA CallScheduleKeeps ==
  ASSUME IInv, CallSchedule
  PROVE  IInv' /\ Same(tasks, tasks')
<1>1. ASSUME NEW x, NEW y,
             <<x, y>> \in {<<"sched", "run">>, <<"join", "joined">>, <<"rsched", "woken">>},
             At(x), Reschedule(Goto(y))
      PROVE  IInv' /\ Same(tasks, tasks')
  <2>1. MayGoTo(y)
    BY <1>1, WhoIsWhere DEF MayGoTo, At, PCs, ReaperPCs, InCreation, InReaping
  <2>2. Goto(y)[thr] = y
    BY <2>1, GotoEffect
  <2>3. Continues(Goto(y))
    <3>1. y = "joined" => pc[thr] \in {"join", "joined"}
      BY <1>1 DEF At
    <3>2. sleeping /\ thr = ReaperId /\ y \in {"block", "rsched", "woken"} => rq = <<>>
      BY <1>1 DEF At, IInv, FlagMeansNoWork
    <3> QED BY <2>1, <2>2, <3>1, <3>2 DEF Continues
  <2> QED BY <1>1, <2>3, RescheduleKeeps
<1> QED BY <1>1 DEF CallSchedule

-----------------------------------------------------------------------------
(* Blocking, waking and the watchdog.                                      *)
LEMMA BlockOnKeeps ==
  ASSUME IInv, NEW c \in Chans, BlockOn(c)
  PROVE  IInv' /\ Same(tasks, tasks')
<1>1. /\ IsWorker /\ At("run") /\ tasks' = MarkBlocked(tasks, current, c)
      /\ pc' = Goto("sched") \/ pc' = pc
      /\ UNCHANGED <<runq, sleeping>>
      /\ UNCHANGED <<count, nextId, current, ctx, thr, pend, rq, inUse, held, hand>>
  BY DEF BlockOn, SameCpu, SameReaper, SameCreation
<1>2. current \in Slots \ {0} /\ thr # ReaperId
  BY <1>1, TypedState, WhoIsWhere DEF IsWorker
<1>3. /\ MarkBlocked(tasks, current, c) \in Tables /\ Sound(MarkBlocked(tasks, current, c))
      /\ Same(tasks, MarkBlocked(tasks, current, c))
      /\ Live(MarkBlocked(tasks, current, c)) = Live(tasks)
      /\ \A r \in Slots \ {current} : MarkBlocked(tasks, current, c)[r] = tasks[r]
  BY <1>2, TypedState, MarkBlockedEffect
<1>4. OnlyRuns(tasks', current)
  BY <1>1, <1>3, TypedState DEF OnlyRuns
<1>5. /\ pc' \in [Threads -> PCs] /\ \A t \in Threads \ {thr} : pc'[t] = pc[t]
      /\ pc'[thr] \notin {"fresh", "none", "gone", "halt"}
      /\ pc'[ReaperId] \in ReaperPCs /\ Quietly
      /\ pc'[thr] # "joined"
  <2>1. CASE pc' = pc
    BY <1>1, <2>1, StayKeeps DEF At
  <2>2. CASE pc' = Goto("sched")
    <3>1. MayGoTo("sched")
      BY <1>1, <1>2 DEF MayGoTo, At, PCs, InCreation, InReaping
    <3> QED BY <2>2, <3>1, GotoKeeps
  <2> QED BY <1>1, <2>1, <2>2
<1>6. FlagMeansNoWork'
  BY <1>1, <1>2, <1>5, FlagKept
<1>7. JoinedFree'
  BY <1>1, <1>5 DEF JoinedFree, At
<1>8. LocalStep
  BY <1>1, <1>3, <1>4, <1>5, <1>6, <1>7, TypedState DEF LocalStep
<1> QED BY <1>8, LocalKeeps

LEMMA WakeChannelKeeps ==
  ASSUME IInv, NEW c \in Chans, WakeChannel(c)
  PROVE  IInv' /\ Same(tasks, tasks')
<1>1. /\ At("run") /\ tasks' = WakeBlockedOn(tasks, c)
      /\ runq' = Enqueue(runq, WaitersOn(tasks, c))
      /\ UNCHANGED <<pc, sleeping>>
      /\ UNCHANGED <<count, nextId, current, ctx, thr, pend, rq, inUse, held, hand>>
  BY DEF WakeChannel, SameCpu, SameReaper, SameCreation
<1>2. /\ WakeBlockedOn(tasks, c) \in Tables /\ Sound(WakeBlockedOn(tasks, c))
      /\ Same(tasks, WakeBlockedOn(tasks, c))
      /\ Live(WakeBlockedOn(tasks, c)) = Live(tasks)
      /\ \A s \in Slots : WakeBlockedOn(tasks, c)[s].st = "Running" => tasks[s].st = "Running"
  BY TypedState, WakeBlockedOnEffect
<1>3. OnlyRuns(tasks', current)
  BY <1>1, <1>2, TypedState DEF OnlyRuns
<1>4. runq' \in Seq(Slots) /\ Len(runq') <= RunqCap
  BY <1>1, TypedState, EnqueueType
<1>5. /\ pc' \in [Threads -> PCs] /\ \A t \in Threads \ {thr} : pc'[t] = pc[t]
      /\ pc'[thr] \notin {"fresh", "none", "gone", "halt"}
      /\ pc'[ReaperId] \in ReaperPCs /\ Quietly
  BY <1>1, StayKeeps
<1>6. FlagMeansNoWork'
  BY <1>1 DEF IInv, FlagMeansNoWork
<1>7. JoinedFree'
  BY <1>1 DEF JoinedFree, At
<1>8. LocalStep
  BY <1>1, <1>2, <1>3, <1>4, <1>5, <1>6, <1>7, TypedState DEF LocalStep
<1> QED BY <1>8, LocalKeeps

LEMMA JoinKeeps ==
  ASSUME IInv, NEW id \in Nat, Join(id)
  PROVE  IInv' /\ Same(tasks, tasks')
<1>1. /\ IsWorker /\ At("run") /\ tasks' = BlockForJoin(tasks, current, id)
      /\ pc' = Goto("join") \/ pc' = pc
      /\ UNCHANGED <<runq, sleeping>>
      /\ UNCHANGED <<count, nextId, current, ctx, thr, pend, rq, inUse, held, hand>>
  BY DEF Join, SameCpu, SameReaper, SameCreation
<1>2. current \in Slots \ {0, ReaperSlot} /\ thr # ReaperId
  BY <1>1, TypedState, WhoIsWhere DEF IsWorker
<1>3. /\ BlockForJoin(tasks, current, id) \in Tables /\ Sound(BlockForJoin(tasks, current, id))
      /\ Same(tasks, BlockForJoin(tasks, current, id))
      /\ Live(BlockForJoin(tasks, current, id)) = Live(tasks)
      /\ \A r \in Slots \ {current} : BlockForJoin(tasks, current, id)[r] = tasks[r]
  BY <1>2, TypedState, BlockForJoinEffect
<1>4. OnlyRuns(tasks', current)
  BY <1>1, <1>3, TypedState DEF OnlyRuns
<1>5. /\ pc' \in [Threads -> PCs] /\ \A t \in Threads \ {thr} : pc'[t] = pc[t]
      /\ pc'[thr] \notin {"fresh", "none", "gone", "halt"}
      /\ pc'[ReaperId] \in ReaperPCs /\ Quietly
      /\ pc'[thr] # "joined"
  <2>1. CASE pc' = pc
    BY <1>1, <2>1, StayKeeps DEF At
  <2>2. CASE pc' = Goto("join")
    <3>1. MayGoTo("join")
      BY <1>1, <1>2 DEF MayGoTo, At, PCs, InCreation, InReaping
    <3> QED BY <2>2, <3>1, GotoKeeps
  <2> QED BY <1>1, <2>1, <2>2
<1>6. FlagMeansNoWork'
  BY <1>1, <1>2, <1>5, FlagKept
<1>7. JoinedFree'
  BY <1>1, <1>5 DEF JoinedFree, At
<1>8. LocalStep
  BY <1>1, <1>3, <1>4, <1>5, <1>6, <1>7, TypedState DEF LocalStep
<1> QED BY <1>8, LocalKeeps

LEMMA JoinReturnKeeps ==
  ASSUME IInv, JoinReturn
  PROVE  IInv' /\ Same(tasks, tasks')
<1>1. /\ At("joined") /\ pc' = Goto("run")
      /\ UNCHANGED <<tasks, runq, sleeping>>
      /\ UNCHANGED <<count, nextId, current, ctx, thr, pend, rq, inUse, held, hand>>
  BY DEF JoinReturn, SameCpu, SameReaper, SameCreation
<1>2. thr # ReaperId
  BY <1>1, WhoIsWhere DEF At, ReaperPCs
<1>3. MayGoTo("run")
  BY <1>1, <1>2 DEF MayGoTo, At, PCs, InCreation, InReaping
<1>4. /\ pc' \in [Threads -> PCs] /\ \A t \in Threads \ {thr} : pc'[t] = pc[t]
      /\ pc'[thr] \notin {"fresh", "none", "gone", "halt"}
      /\ pc'[ReaperId] \in ReaperPCs /\ Quietly
      /\ pc'[thr] = "run"
  BY <1>1, <1>3, GotoKeeps
<1>5. FlagMeansNoWork'
  BY <1>1, <1>2, <1>4, FlagKept
<1>6. JoinedFree'
  BY <1>1, <1>4 DEF JoinedFree, At
<1>7. LocalStep
  BY <1>1, <1>4, <1>5, <1>6, TypedState DEF LocalStep
<1> QED BY <1>7, LocalKeeps

LEMMA ReaperKeeps ==
  ASSUME IInv, ReaperStep
  PROVE  IInv' /\ Same(tasks, tasks')
<1>1. /\ thr = ReaperId /\ current = ReaperSlot /\ pc[thr] \in ReaperPCs
      /\ UNCHANGED <<runq>>
      /\ UNCHANGED <<count, nextId, current, ctx, thr, pend, rq, inUse, held, hand>>
  BY WhoIsWhere DEF ReaperStep, SameCpu, SameCreation
<1>2. PICK x \in {"reap", "flag", "chk2", "block", "rsched"} :
        /\ pc' = Goto(x)
        /\ At("chk1") \/ At("flag") \/ At("chk2") \/ At("block") \/ At("woken")
        /\ x = "rsched" => At("block")
        /\ x = "block" => At("chk2") /\ rq = <<>>
  BY DEF ReaperStep
<1>3. MayGoTo(x)
  BY <1>1, <1>2 DEF MayGoTo, At, PCs, ReaperPCs, InCreation, InReaping
<1>4. /\ pc' \in [Threads -> PCs] /\ \A t \in Threads \ {thr} : pc'[t] = pc[t]
      /\ pc'[thr] \notin {"fresh", "none", "gone", "halt"}
      /\ pc'[ReaperId] \in ReaperPCs /\ Quietly
      /\ pc'[thr] = x
  BY <1>2, <1>3, GotoKeeps
<1>5. sleeping' \in BOOLEAN /\ (x = "rsched" => sleeping' = sleeping)
  BY <1>1, <1>2, TypedState DEF ReaperStep, At
<1>6. tasks' = tasks \/ tasks' = MarkBlocked(tasks, current, Nil)
  BY <1>1 DEF ReaperStep
<1>7. /\ tasks' \in Tables /\ Sound(tasks') /\ Same(tasks, tasks')
      /\ Live(tasks') = Live(tasks) /\ OnlyRuns(tasks', current)
  <2>1. CASE tasks' = tasks
    BY <2>1, TypedState
  <2>2. CASE tasks' = MarkBlocked(tasks, current, Nil)
    <3>1. /\ MarkBlocked(tasks, current, Nil) \in Tables
          /\ Sound(MarkBlocked(tasks, current, Nil))
          /\ Same(tasks, MarkBlocked(tasks, current, Nil))
          /\ Live(MarkBlocked(tasks, current, Nil)) = Live(tasks)
          /\ \A r \in Slots \ {current} : MarkBlocked(tasks, current, Nil)[r] = tasks[r]
      BY <1>1, SchedulerFacts, TypedState, MarkBlockedEffect
    <3> QED BY <2>2, <3>1, TypedState DEF OnlyRuns
  <2> QED BY <1>6, <2>1, <2>2
<1>8. FlagMeansNoWork'
  BY <1>1, <1>2, <1>4, <1>5 DEF IInv, FlagMeansNoWork, At, ReaperId
<1>9. JoinedFree'
  BY <1>1, <1>4 DEF JoinedFree, At
<1>10. LocalStep
  BY <1>1, <1>4, <1>5, <1>7, <1>8, <1>9, TypedState DEF LocalStep
<1> QED BY <1>10, LocalKeeps

LEMMA WatchdogKeeps ==
  ASSUME IInv, NEW s \in Slots, WatchdogKill(s)
  PROVE  IInv' /\ Same(tasks, tasks')
<1>1. /\ tasks' = MarkDead(tasks, s)
      /\ \E S : runq' = Enqueue(runq, S)
      /\ s \in Live(tasks) \ {0, ReaperSlot}
      /\ UNCHANGED <<pc, sleeping>>
      /\ UNCHANGED <<count, nextId, current, ctx, thr, pend, rq, inUse, held, hand>>
  BY DEF WatchdogKill, SameCpu, SameReaper, SameCreation
<1>2. s \in Occupied(tasks) \ {0, ReaperSlot}
  BY <1>1, LiveIsOccupied
<1>3. /\ MarkDead(tasks, s) \in Tables /\ Sound(MarkDead(tasks, s))
      /\ Same(tasks, MarkDead(tasks, s))
      /\ Live(MarkDead(tasks, s)) = Live(tasks) \ {s}
      /\ \A r \in Slots : /\ MarkDead(tasks, s)[r].st = "Running" => tasks[r].st = "Running"
                          /\ tasks[r].joining = 0 => MarkDead(tasks, s)[r].joining = 0
  BY <1>2, TypedState, MarkDeadEffect
<1>4. OnlyRuns(tasks', current)
  BY <1>1, <1>3, TypedState DEF OnlyRuns
<1>5. runq' \in Seq(Slots) /\ Len(runq') <= RunqCap
  BY <1>1, TypedState, EnqueueType
<1>6. /\ pc' \in [Threads -> PCs] /\ \A t \in Threads \ {thr} : pc'[t] = pc[t]
      /\ pc'[thr] \notin {"fresh", "none", "gone", "halt"}
      /\ pc'[ReaperId] \in ReaperPCs /\ Quietly
  BY <1>1, StayKeeps
<1>7. FlagMeansNoWork'
  BY <1>1 DEF IInv, FlagMeansNoWork
<1>8. JoinedFree'
  BY <1>1, <1>3, TypedState DEF IInv, JoinedFree, At
<1>9. LocalStep
  BY <1>1, <1>3, <1>4, <1>5, <1>6, <1>7, <1>8, TypedState DEF LocalStep
<1> QED BY <1>9, LocalKeeps

-----------------------------------------------------------------------------
(* Exit: somebody is always there to run next.                             *)
LEMMA ExitKeeps ==
  ASSUME IInv, ~ InitReturns, Exit
  PROVE  IInv' /\ Same(tasks, tasks')
<1> DEFINE T == MarkDead(tasks, current)
           n == FindNextReady(T, current)
           q == Enqueue(runq, JoinersOf(tasks, tasks[current].id) \ {current})
           p == [slot |-> current, stack |-> tasks[current].stack]
<1>1. /\ IsWorker /\ At("run")
      /\ n # NoSlot => Switch(n, T, q, Goto("gone"), p)
      /\ UNCHANGED <<count, nextId, inUse, held, hand>>
  BY DEF Exit, MayExit, SameCreation
<1>2. current \in Slots \ {0, ReaperSlot} /\ thr \notin {InitId, ReaperId} /\ thr \in Threads
  BY <1>1, TypedState, WhoIsWhere, ExecutingFacts DEF IsWorker
<1>3. current \in Occupied(tasks) \ {0, ReaperSlot}
  BY <1>2 DEF IInv, Executing
<1>4. /\ T \in Tables /\ Sound(T) /\ Same(tasks, T)
      /\ Live(T) = Live(tasks) \ {current} /\ T[current].st = "Dead"
      /\ \A s \in Slots : T[s].st = "Running" => tasks[s].st = "Running"
  BY <1>3, TypedState, MarkDeadEffect
<1>5. q \in Seq(Slots) /\ Len(q) <= RunqCap
  BY TypedState, EnqueueType
<1> HIDE DEF T, q
<1>6. \A s \in Slots : T[s].st # "Running"
  BY <1>4, TypedState DEF OnlyRuns
<1>7. n \in Slots /\ T[n].st = "Ready"
  <2>1. 0 \in ReadySet(T)
    BY <1>4, <1>6, SchedulerFacts DEF Sound, ReadySet
  <2>2. n \in TopReady(T)
    BY <1>2, <1>4, <2>1, ScanPicks
  <2> QED BY <2>2 DEF TopReady, ReadySet
<1> HIDE DEF n
<1>8. Enters(T, n) /\ n # current
  BY <1>4, <1>6, <1>7 DEF Enters
<1>9. Leaves(n, T, Goto("gone"))
  <2>1. /\ Goto("gone") \in [Threads -> PCs]
        /\ \A t \in Threads \ {thr} : Goto("gone")[t] = pc[t]
        /\ Goto("gone")[thr] = "gone"
    BY <1>2 DEF Goto, IInv, TypeOK, PCs
  <2>2. /\ ~ InCreation("gone") /\ ~ InReaping("gone")
        /\ ~ InCreation(pc[thr]) /\ ~ InReaping(pc[thr]) /\ pc[thr] # "clear"
    BY <1>1 DEF At, InCreation, InReaping
  <2> QED BY <1>2, <1>4, <1>8, <2>1, <2>2 DEF Leaves
<1>10. Pends(T, p)
  <2>1. tasks[current].stack \in Stacks \cup {0} /\ T[current].stack = tasks[current].stack
    BY <1>2, <1>4, TypedState DEF Tables, Task, Same
  <2>2. p \in Entries /\ p.slot = current /\ p.stack = tasks[current].stack
    BY <1>2, <2>1 DEF Entries
  <2>3. \A i \in DOMAIN rq : rq[i].slot # current
    BY DEF IInv, EntriesOwed, Owed
  <2>4. \A t \in Threads : hand[t].slot # current
    <3>1. NoEntry.slot # current
      BY <1>2, SchedulerFacts DEF NoEntry
    <3> QED BY <3>1 DEF IInv, EntriesOwed, Owed
  <2> HIDE DEF p
  <2> QED BY <1>4, <2>1, <2>2, <2>3, <2>4 DEF Pends
<1>11. Switch(n, T, q, Goto("gone"), p)
  BY <1>1, <1>7, SchedulerFacts
<1> HIDE DEF p
<1> QED BY <1>1, <1>5, <1>9, <1>10, <1>11, SwitchKeeps

-----------------------------------------------------------------------------
(* Creation.                                                               *)
LEMMA CreatingFacts ==
  ASSUME IInv
  PROVE  /\ Creating \subseteq Threads /\ IsFiniteSet(Creating)
         /\ Cardinality(Creating) \in Nat
<1>1. Creating \subseteq Threads
  BY DEF Creating
<1>2. IsFiniteSet(Threads)
  BY FS_Interval, SchedulerFacts
<1> QED BY <1>1, <1>2, FS_Subset, FS_CardinalityType

(* The parts that a step keeps when the table, the CPU and the entries on  *)
(* their way to the reaper are left alone.                                 *)
SameTable ==
  UNCHANGED <<tasks, runq, count, current, ctx, thr, pend, sleeping>>

LEMMA EntriesKept ==
  ASSUME IInv, Same(tasks, tasks'), UNCHANGED <<current, pend, rq, hand>>
  PROVE  EntriesOwed' /\ EntriesOnce'
<1>1. ASSUME NEW e \in Entries, Owed(e) PROVE Owed(e)'
  BY <1>1, OwedKept DEF Owed
<1>2. pend # NoEntry => Owed(pend)'
  BY <1>1 DEF IInv, TypeOK, EntriesOwed
<1>3. \A i \in DOMAIN rq : Owed(rq[i])'
  <2>1. \A i \in DOMAIN rq : rq[i] \in Entries
    BY LenProperties, ElementOfSeq DEF IInv, TypeOK
  <2> QED BY <1>1, <2>1 DEF IInv, EntriesOwed
<1>4. \A t \in Threads : hand[t] # NoEntry => Owed(hand[t])'
  BY <1>1 DEF IInv, TypeOK, EntriesOwed
<1>5. /\ pend' # NoEntry => Owed(pend)'
      /\ \A i \in DOMAIN rq' : Owed(rq[i])'
      /\ \A t \in Threads : hand'[t] # NoEntry => Owed(hand[t])'
  BY <1>2, <1>3, <1>4
<1>6. EntriesOnce'
  BY DEF IInv, EntriesOnce, NoEntry
<1> QED BY <1>5, <1>6 DEF EntriesOwed, NoEntry

LEMMA CpuKept ==
  ASSUME IInv, SameTable, NEW x, x \notin {"fresh", "none", "gone", "halt"},
         pc' = Goto(x), nextId' \in {nextId, nextId + 1},
         tasks[current].stack \in inUse'
  PROVE  RunningIsCurrent' /\ ContextOwnership' /\ Executing' /\ CountMatches'
<1> USE DEF SameTable
<1>1. RunningIsCurrent' /\ ContextOwnership' /\ CountMatches'
  BY DEF IInv, RunningIsCurrent, ContextOwnership, CountMatches
<1>2. thr \in Threads /\ pc \in [Threads -> PCs] /\ thr < nextId /\ nextId \in Nat /\ thr \in Nat
      /\ Threads \subseteq Nat
  BY ExecutingFacts, SchedulerFacts DEF IInv, TypeOK, Executing
<1>3. pc'[thr] = x /\ \A t \in Threads \ {thr} : pc'[t] = pc[t]
  BY <1>2 DEF Goto
<1>4. current' \in Occupied(tasks') /\ pc'[thr'] \notin {"fresh", "none", "gone", "halt"}
  BY <1>3 DEF IInv, Executing
<1>5. \A s \in Live(tasks') : pc'[tasks'[s].id] \notin {"none", "gone", "halt"}
  <2>1. \A s \in Live(tasks) : tasks[s].id \in Threads
    BY ExecutingFacts, LiveIsOccupied
  <2> QED BY <1>3, <2>1 DEF IInv, Executing
<1>6. \A t \in Threads : t >= nextId' => pc'[t] = "none"
  BY <1>2, <1>3 DEF IInv, Executing
<1> QED BY <1>1, <1>4, <1>5, <1>6 DEF Executing

LEMMA CreateAllocKeeps ==
  ASSUME IInv, CreateAlloc
  PROVE  IInv' /\ Same(tasks, tasks')
<1> DEFINE b == Min(FreeStacks)
<1>1. PICK x \in {"reap", "place"} : pc' = Goto(x)
  BY DEF CreateAlloc
<1>2. /\ thr \notin {Boot, ReaperId} /\ At("run")
      /\ nextId + Cardinality(Creating) <= MaxId /\ FreeStacks # {}
      /\ inUse' = inUse \cup {b} /\ held' = [held EXCEPT ![thr] = b]
      /\ UNCHANGED <<tasks, runq, count, nextId, current, ctx, thr, pend, rq, sleeping, hand>>
  BY DEF CreateAlloc, SameCpu, SameReaper
<1>3. b \in Stacks /\ b \notin inUse /\ b # 0
  <2>1. FreeStacks \subseteq Nat
    BY SchedulerFacts DEF FreeStacks
  <2>2. b \in FreeStacks
    BY <1>2, <2>1, MinIsLeast
  <2> HIDE DEF b
  <2> QED BY <2>2, SchedulerFacts DEF FreeStacks
<1> HIDE DEF b
<1>4. TypeOK /\ thr \in Threads /\ pc \in [Threads -> PCs] /\ held \in [Threads -> Stacks \cup {0}]
  BY ExecutingFacts DEF IInv, TypeOK
<1>5. /\ pc' \in [Threads -> PCs] /\ pc'[thr] = x
      /\ \A t \in Threads \ {thr} : pc'[t] = pc[t]
  BY <1>1, <1>4 DEF Goto, PCs
<1>6. /\ held' \in [Threads -> Stacks \cup {0}] /\ held'[thr] = b
      /\ \A t \in Threads \ {thr} : held'[t] = held[t]
  BY <1>2, <1>3, <1>4
<1>7. TypeOK'
  BY <1>2, <1>3, <1>4, <1>5, <1>6 DEF TypeOK
<1>8. Sound(tasks)' /\ Numbered(tasks, nextId)' /\ Same(tasks, tasks')
  BY <1>2 DEF IInv, Same
<1>9. SameTable /\ tasks[current].stack \in inUse'
  BY <1>2 DEF SameTable, IInv, RunningIsCurrent
<1>10. RunningIsCurrent' /\ ContextOwnership' /\ Executing' /\ CountMatches'
  BY <1>1, <1>2, <1>9, CpuKept
<1>11. HandsMatch'
  <2>1. pc'[ReaperId] \in ReaperPCs
    BY <1>2, <1>5, SchedulerFacts DEF IInv, HandsMatch
  <2>2. \A t \in Threads : held'[t] # 0 <=> t # ReaperId /\ InCreation(pc'[t])
    BY <1>2, <1>3, <1>5, <1>6 DEF IInv, HandsMatch, InCreation
  <2>3. \A t \in Threads : hand'[t] # NoEntry <=> InReaping(pc'[t])
    BY <1>2, <1>5 DEF IInv, HandsMatch, InReaping, At
  <2> QED BY <2>1, <2>2, <2>3 DEF HandsMatch, NoEntry
<1>12. thr \notin Creating /\ Creating' = Creating \cup {thr}
  <2>1. held[thr] = 0
    BY <1>2, <1>4 DEF IInv, HandsMatch, At, InCreation
  <2> QED BY <1>3, <1>4, <1>6, <2>1 DEF Creating
<1>13. StacksOwned'
  <2>1. \A s : Freed(s)' <=> Freed(s)
    BY <1>2, <1>5 DEF Freed, At
  <2>2. /\ \A s \in Occupied(tasks) : ~ Freed(s) => tasks[s].stack \in inUse
        /\ \A t \in Creating : held[t] \in inUse /\ held'[t] = held[t]
    BY <1>6, <1>12 DEF IInv, StacksOwned, Creating
  <2>3. /\ \A s \in Occupied(tasks') : ~ Freed(s)' => tasks'[s].stack \in inUse'
        /\ \A r, s \in Occupied(tasks') :
             ~ Freed(r)' /\ ~ Freed(s)' /\ tasks'[r].stack = tasks'[s].stack => r = s
    BY <1>2, <2>1, <2>2 DEF IInv, StacksOwned
  <2>4. /\ \A t \in Creating' : held'[t] \in inUse'
        /\ \A t, u \in Creating' : held'[t] = held'[u] => t = u
        /\ \A s \in Occupied(tasks'), t \in Creating' : ~ Freed(s)' => tasks'[s].stack # held'[t]
    BY <1>2, <1>3, <1>6, <1>12, <2>1, <2>2 DEF IInv, StacksOwned
  <2> QED BY <2>3, <2>4 DEF StacksOwned
<1>14. EntriesOwed' /\ EntriesOnce'
  BY <1>2, <1>8, EntriesKept
<1>15. FlagMeansNoWork'
  BY <1>2, <1>5, FlagKept
<1>16. JoinedFree'
  BY <1>2, <1>5 DEF JoinedFree, At
<1>17. IdsLeft'
  <2>1. Cardinality(Creating') = Cardinality(Creating) + 1
    BY <1>12, CreatingFacts, FS_AddElement
  <2>2. nextId' = nextId /\ nextId \in Nat /\ Cardinality(Creating) \in Nat
        /\ nextId + Cardinality(Creating) <= MaxId
    BY <1>2, <1>4, CreatingFacts DEF TypeOK
  <2> QED BY <2>1, <2>2, SchedulerFacts DEF IdsLeft
<1> QED BY <1>7, <1>8, <1>10, <1>11, <1>13, <1>14, <1>15, <1>16, <1>17 DEF IInv

(* A creation ends: with a slot, or with its stack given back.             *)
LEMMA PlacingFacts ==
  ASSUME IInv, At("place")
  PROVE  /\ thr \in Creating /\ thr # ReaperId /\ held[thr] \in Stacks
         /\ nextId \in Threads /\ nextId # thr /\ nextId # ReaperId /\ pc[nextId] = "none"
         /\ nextId + 1 + (Cardinality(Creating) - 1) <= MaxId + 1
<1>1. thr \in Threads /\ thr # ReaperId /\ held[thr] # 0
  <2>1. thr # ReaperId
    BY WhoIsWhere DEF At, ReaperPCs
  <2> QED BY <2>1, ExecutingFacts DEF IInv, HandsMatch, At, InCreation
<1>2. thr \in Creating /\ held[thr] \in Stacks
  BY <1>1 DEF Creating, IInv, TypeOK
<1>3. nextId \in 3 .. MaxId + 1 /\ thr < nextId /\ thr \in Nat
  <2>1. current \in Occupied(tasks)
    BY DEF IInv, Executing
  <2> QED BY <1>1, <2>1, ExecutingFacts, SchedulerFacts
<1>4. Cardinality(Creating) >= 1 /\ Cardinality(Creating) \in Nat
  <2>1. Cardinality(Creating) # 0
    BY <1>2, CreatingFacts, FS_EmptySet
  <2> QED BY <2>1, CreatingFacts
<1>5. nextId + Cardinality(Creating) <= MaxId + 1
  BY DEF IInv, IdsLeft
<1>6. nextId \in Threads /\ nextId # thr /\ nextId # ReaperId
  BY <1>3, <1>4, <1>5, SchedulerFacts
<1>7. pc[nextId] = "none"
  BY <1>3, <1>6 DEF IInv, Executing
<1> QED BY <1>1, <1>2, <1>3, <1>4, <1>5, <1>6, <1>7, SchedulerFacts

LEMMA CreationEnds ==
  ASSUME IInv, At("place"), held' = [held EXCEPT ![thr] = 0], nextId' = nextId + 1
  PROVE  /\ held' \in [Threads -> Stacks \cup {0}] /\ held'[thr] = 0
         /\ \A t \in Threads \ {thr} : held'[t] = held[t]
         /\ Creating' = Creating \ {thr} /\ IdsLeft' /\ nextId' \in 3 .. MaxId + 1
<1>1. thr \in Threads /\ held \in [Threads -> Stacks \cup {0}] /\ nextId \in 3 .. MaxId + 1
  BY ExecutingFacts DEF IInv, TypeOK
<1>2. /\ held' \in [Threads -> Stacks \cup {0}] /\ held'[thr] = 0
      /\ \A t \in Threads \ {thr} : held'[t] = held[t]
  BY <1>1
<1>3. Creating' = Creating \ {thr}
  BY <1>2 DEF Creating
<1>4. Cardinality(Creating') = Cardinality(Creating) - 1
  BY <1>3, CreatingFacts, PlacingFacts, FS_RemoveElement
<1>5. IdsLeft' /\ nextId' \in 3 .. MaxId + 1
  BY <1>1, <1>4, PlacingFacts, SchedulerFacts DEF IdsLeft
<1> QED BY <1>2, <1>3, <1>5

LEMMA PlaceFailsKeeps ==
  ASSUME IInv, At("place"), held' = [held EXCEPT ![thr] = 0], nextId' = nextId + 1,
         inUse' = inUse \ {held[thr]}, pc' = Goto("run"),
         UNCHANGED <<tasks, runq, count, ctx, current, thr, pend, rq, sleeping, hand>>
  PROVE  IInv'
<1>1. /\ thr \in Creating /\ thr # ReaperId /\ held[thr] \in Stacks /\ thr \in Threads
      /\ pc \in [Threads -> PCs]
  BY PlacingFacts, ExecutingFacts DEF IInv, TypeOK
<1>2. /\ held' \in [Threads -> Stacks \cup {0}] /\ held'[thr] = 0
      /\ \A t \in Threads \ {thr} : held'[t] = held[t]
      /\ Creating' = Creating \ {thr} /\ IdsLeft' /\ nextId' \in 3 .. MaxId + 1
  BY CreationEnds
<1>3. /\ pc' \in [Threads -> PCs] /\ pc'[thr] = "run"
      /\ \A t \in Threads \ {thr} : pc'[t] = pc[t]
  BY <1>1 DEF Goto, PCs
<1>4. TypeOK'
  BY <1>2, <1>3 DEF IInv, TypeOK
<1>5. Sound(tasks)' /\ Same(tasks, tasks')
  BY DEF IInv, Same
<1>6. Numbered(tasks, nextId)'
  <2>1. \A s \in Occupied(tasks) : tasks[s].id \in 1 .. nextId' - 1
    BY ExecutingFacts DEF IInv, Numbered
  <2> QED BY <2>1 DEF IInv, Numbered
<1>7. ~ Freed(current) /\ current \in Occupied(tasks)
  <2>1. ASSUME NEW t \in Threads, pc[t] = "clear" PROVE hand[t].slot # current
    BY <2>1 DEF IInv, HandsMatch, InReaping, EntriesOwed, Owed
  <2> QED BY <2>1 DEF Freed, IInv, Executing
<1>8. RunningIsCurrent' /\ ContextOwnership' /\ Executing' /\ CountMatches'
  <2>1. tasks[current].stack \in inUse'
    BY <1>1, <1>7 DEF IInv, StacksOwned
  <2> QED BY <2>1, CpuKept DEF SameTable
<1>9. HandsMatch'
  <2>1. pc'[ReaperId] \in ReaperPCs
    BY <1>1, <1>3, SchedulerFacts DEF IInv, HandsMatch
  <2>2. \A t \in Threads : held'[t] # 0 <=> t # ReaperId /\ InCreation(pc'[t])
    BY <1>1, <1>2, <1>3 DEF IInv, HandsMatch, InCreation
  <2>3. \A t \in Threads : hand'[t] # NoEntry <=> InReaping(pc'[t])
    BY <1>1, <1>3 DEF IInv, HandsMatch, InReaping, At
  <2> QED BY <2>1, <2>2, <2>3 DEF HandsMatch, NoEntry
<1>10. StacksOwned'
  <2>1. \A s : Freed(s)' <=> Freed(s)
    BY <1>1, <1>3 DEF Freed, At
  <2>2. /\ \A s \in Occupied(tasks') : ~ Freed(s)' => tasks'[s].stack \in inUse'
        /\ \A r, s \in Occupied(tasks') :
             ~ Freed(r)' /\ ~ Freed(s)' /\ tasks'[r].stack = tasks'[s].stack => r = s
    BY <1>1, <2>1 DEF IInv, StacksOwned
  <2>3. /\ \A t \in Creating' : held'[t] \in inUse'
        /\ \A t, u \in Creating' : held'[t] = held'[u] => t = u
        /\ \A s \in Occupied(tasks'), t \in Creating' : ~ Freed(s)' => tasks'[s].stack # held'[t]
    <3>1. \A t \in Creating' : t \in Creating /\ t # thr /\ held'[t] = held[t]
      BY <1>2 DEF Creating
    <3> QED BY <1>1, <2>1, <3>1 DEF IInv, StacksOwned
  <2> QED BY <2>2, <2>3 DEF StacksOwned
<1>11. EntriesOwed' /\ EntriesOnce'
  BY <1>5, EntriesKept
<1>12. FlagMeansNoWork'
  BY <1>1, <1>3, FlagKept
<1>13. JoinedFree'
  BY <1>3 DEF JoinedFree, At
<1> QED BY <1>2, <1>4, <1>5, <1>6, <1>8, <1>9, <1>10, <1>11, <1>12, <1>13 DEF IInv

(* The new task is the only thing that changes.                            *)
Places(T, U, s, id, stack) ==
  T[s].st = "Empty" /\ U = [T EXCEPT ![s] = NewTask(id, stack, 0)]

LEMMA NewTaskEffect ==
  ASSUME NEW T \in Tables, Sound(T), NEW s \in Slots, NEW id \in Nat, NEW stack \in Stacks,
         NEW U, Places(T, U, s, id, stack)
  PROVE  /\ U \in Tables /\ Sound(U)
         /\ U[s].st = "Ready" /\ U[s].id = id /\ U[s].stack = stack
         /\ \A r \in Slots \ {s} : U[r] = T[r]
         /\ Occupied(U) = Occupied(T) \cup {s} /\ Live(U) = Live(T) \cup {s}
<1> DEFINE t == NewTask(id, stack, 0)
<1>1. t \in Task
  BY NewTaskType
<1>2. t.st = "Ready" /\ t.id = id /\ t.stack = stack /\ t.joining = 0 /\ t.wait = Nil
  BY DEF NewTask, EmptySlot
<1> HIDE DEF t
<1>3. U \in Tables /\ U[s] = t /\ \A r \in Slots \ {s} : U[r] = T[r]
  BY <1>1, TableUpdate DEF Tables, t, Places
<1>4. Occupied(U) = Occupied(T) \cup {s} /\ Live(U) = Live(T) \cup {s}
  BY <1>2, <1>3 DEF Occupied, Live, Places
<1>5. \A x : Alive(T, x) => Alive(U, x)
  <2>1. \A r \in Live(T) : r # s /\ r \in Slots
    BY DEF Live, Places
  <2> QED BY <1>3, <1>4, <2>1 DEF Alive
<1>6. s # 0 /\ s # ReaperSlot
  BY DEF Sound, Places
<1>7. /\ U[0].id = InitId /\ U[0].st \in {"Ready", "Running"}
      /\ U[ReaperSlot].id = ReaperId /\ U[ReaperSlot].joining = 0
      /\ U[ReaperSlot].st \in {"Ready", "Running", "Blocked"}
  BY <1>3, <1>6, SchedulerFacts DEF Sound
<1>8. ASSUME NEW r \in Slots
      PROVE  /\ U[r].st = "Dead" => U[r].wait = Nil /\ U[r].token = FALSE
             /\ U[r].joining # 0 => U[r].st \in {"Blocked", "Dead"}
             /\ U[r].joining # 0 /\ U[r].st = "Blocked"
                  => U[r].wait = Nil /\ Alive(U, U[r].joining)
  BY <1>2, <1>3, <1>5 DEF Sound
<1> QED BY <1>2, <1>3, <1>4, <1>7, <1>8 DEF Sound

PlacedAt(s) ==
  /\ s \in Slots \ Occupied(tasks)
  /\ held' = [held EXCEPT ![thr] = 0] /\ nextId' = nextId + 1
  /\ tasks' = [tasks EXCEPT ![s] = NewTask(nextId, held[thr], 0)]
  /\ ctx' = [ctx EXCEPT ![s] = nextId]
  /\ pc' = [Goto("run") EXCEPT ![nextId] = "fresh"]
  /\ count' = count + 1 /\ runq' = Enqueue(runq, {s})
  /\ UNCHANGED <<inUse, current, thr, pend, rq, sleeping, hand>>

LEMMA PlaceSucceedsKeeps ==
  ASSUME IInv, At("place"), NEW s, PlacedAt(s)
  PROVE  IInv'
<1>p. /\ held' = [held EXCEPT ![thr] = 0] /\ nextId' = nextId + 1 /\ thr' = thr
      /\ UNCHANGED <<inUse, current, pend, rq, sleeping, hand>>
  BY DEF PlacedAt
<1>1. /\ thr \in Creating /\ thr # ReaperId /\ held[thr] \in Stacks /\ thr \in Threads
      /\ nextId \in Threads /\ nextId # thr /\ nextId # ReaperId /\ pc[nextId] = "none"
      /\ pc \in [Threads -> PCs] /\ nextId \in Nat
  BY PlacingFacts, ExecutingFacts, SchedulerFacts DEF IInv, TypeOK
<1>2. /\ held' \in [Threads -> Stacks \cup {0}] /\ held'[thr] = 0
      /\ \A t \in Threads \ {thr} : held'[t] = held[t]
      /\ Creating' = Creating \ {thr} /\ IdsLeft' /\ nextId' \in 3 .. MaxId + 1
  BY <1>p, CreationEnds
<1>3. /\ pc' \in [Threads -> PCs] /\ pc'[thr] = "run" /\ pc'[nextId] = "fresh"
      /\ \A t \in Threads \ {thr, nextId} : pc'[t] = pc[t]
  BY <1>1 DEF Goto, PCs, PlacedAt
<1>4. tasks[s].st = "Empty" /\ s \in Slots
  BY DEF Occupied, PlacedAt
<1>5. /\ tasks' \in Tables /\ Sound(tasks')
      /\ tasks'[s].st = "Ready" /\ tasks'[s].id = nextId /\ tasks'[s].stack = held[thr]
      /\ \A r \in Slots \ {s} : tasks'[r] = tasks[r]
      /\ Occupied(tasks') = Occupied(tasks) \cup {s} /\ Live(tasks') = Live(tasks) \cup {s}
  <2>1. Places(tasks, tasks', s, nextId, held[thr])
    BY <1>4 DEF Places, PlacedAt
  <2> QED BY <1>1, <1>4, <2>1, TypedState, NewTaskEffect
<1>6. /\ s # current /\ Occupied(tasks) \subseteq Slots \ {s} /\ Live(tasks) \subseteq Slots \ {s}
  BY <1>4 DEF IInv, Executing, Occupied, Live
<1>7. TypeOK'
  <2>1. runq' \in Seq(Slots) /\ Len(runq') <= RunqCap
    BY TypedState, EnqueueType DEF PlacedAt
  <2>2. ctx' \in [Slots -> Threads \cup {NoThread}] /\ count' \in Nat
    BY <1>1 DEF IInv, TypeOK, PlacedAt
  <2> QED BY <1>p, <1>2, <1>3, <1>5, <2>1, <2>2 DEF IInv, TypeOK, Tables
<1>8. Numbered(tasks, nextId)'
  <2>1. \A r \in Occupied(tasks) : tasks'[r].id = tasks[r].id /\ tasks[r].id \in 1 .. nextId - 1
    BY <1>5, <1>6 DEF IInv, Numbered
  <2>2. \A r \in Occupied(tasks') : tasks'[r].id \in 1 .. nextId' - 1
    <3>1. nextId \in 1 .. nextId' - 1 /\ 1 .. nextId - 1 \subseteq 1 .. nextId' - 1
      BY <1>p, <1>1, ExecutingFacts
    <3> QED BY <1>5, <2>1, <3>1
  <2>3. ASSUME NEW r \in Occupied(tasks'), NEW u \in Occupied(tasks'),
               tasks'[r].id = tasks'[u].id
        PROVE  r = u
    <3>1. \A v \in Occupied(tasks) : tasks'[v].id # nextId
      BY <1>1, <2>1
    <3>2. CASE r = s \/ u = s
      BY <1>5, <2>3, <3>1, <3>2
    <3>3. CASE r # s /\ u # s
      <4>1. r \in Occupied(tasks) /\ u \in Occupied(tasks) /\ tasks[r].id = tasks[u].id
        BY <1>5, <2>1, <2>3, <3>3
      <4> QED BY <4>1 DEF IInv, Numbered
    <3> QED BY <3>2, <3>3
  <2> QED BY <2>2, <2>3 DEF Numbered
<1>9. RunningIsCurrent'
  <2>1. ~ Freed(current) /\ current \in Occupied(tasks)
    <3>1. ASSUME NEW t \in Threads, pc[t] = "clear" PROVE hand[t].slot # current
      BY <3>1 DEF IInv, HandsMatch, InReaping, EntriesOwed, Owed
    <3> QED BY <3>1 DEF Freed, IInv, Executing
  <2>2. tasks'[current] = tasks[current]
    BY <1>5, <1>6, TypedState
  <2>3. \A r \in Slots : tasks'[r].st = "Running" => r = current
    BY <1>5, TypedState DEF OnlyRuns
  <2> QED BY <1>p, <2>2, <2>3 DEF IInv, RunningIsCurrent
<1>10. ContextOwnership'
  BY <1>1, <1>5, <1>6 DEF IInv, TypeOK, ContextOwnership, PlacedAt
<1>11. Executing'
  <2>1. current' \in Occupied(tasks') /\ pc'[thr'] \notin {"fresh", "none", "gone", "halt"}
    BY <1>p, <1>3, <1>5 DEF IInv, Executing
  <2>2. ASSUME NEW r \in Live(tasks')
        PROVE  pc'[tasks'[r].id] \notin {"none", "gone", "halt"}
    <3>1. CASE r = s
      BY <1>3, <1>5, <3>1
    <3>2. CASE r # s
      <4>1. r \in Live(tasks) /\ r \in Occupied(tasks) /\ tasks'[r] = tasks[r]
        BY <1>5, <1>6, <3>2, LiveIsOccupied
      <4>2. /\ tasks[r].id \in Threads /\ tasks[r].id # nextId
            /\ pc[tasks[r].id] \notin {"none", "gone", "halt"}
        BY <1>1, <4>1, ExecutingFacts DEF IInv, Executing
      <4> QED BY <1>3, <4>1, <4>2
    <3> QED BY <3>1, <3>2
  <2>3. \A t \in Threads : t >= nextId' => pc'[t] = "none"
    <3>1. thr < nextId /\ thr \in Nat /\ Threads \subseteq Nat
      BY <1>1, ExecutingFacts, SchedulerFacts DEF IInv, Executing
    <3> QED BY <1>p, <1>1, <1>3, <3>1 DEF IInv, Executing
  <2> QED BY <2>1, <2>2, <2>3 DEF Executing
<1>12. HandsMatch'
  <2>1. pc'[ReaperId] \in ReaperPCs
    BY <1>1, <1>3, SchedulerFacts DEF IInv, HandsMatch
  <2>2. \A t \in Threads : held'[t] # 0 <=> t # ReaperId /\ InCreation(pc'[t])
    BY <1>1, <1>2, <1>3 DEF IInv, HandsMatch, InCreation
  <2>3. \A t \in Threads : hand'[t] # NoEntry <=> InReaping(pc'[t])
    BY <1>p, <1>1, <1>3 DEF IInv, HandsMatch, InReaping, At
  <2> QED BY <2>1, <2>2, <2>3 DEF HandsMatch, NoEntry
<1>13. StacksOwned'
  <2>1. \A r : Freed(r)' <=> Freed(r)
    BY <1>p, <1>1, <1>3 DEF Freed, At
  <2>2. \A r \in Occupied(tasks) : tasks'[r].stack = tasks[r].stack
    BY <1>5, <1>6
  <2>3. /\ held[thr] \in inUse
        /\ \A r \in Occupied(tasks) : ~ Freed(r) => tasks[r].stack # held[thr]
    BY <1>1 DEF IInv, StacksOwned
  <2>4. \A t \in Creating' : t \in Creating /\ t # thr /\ held'[t] = held[t] /\ held[t] # held[thr]
    BY <1>1, <1>2 DEF IInv, StacksOwned, Creating
  <2>5. \A r \in Occupied(tasks') : \/ r = s /\ tasks'[r].stack = held[thr]
                                    \/ r \in Occupied(tasks) /\ tasks'[r].stack = tasks[r].stack
    BY <1>5, <2>2
  <2>6. \A r \in Occupied(tasks') : ~ Freed(r)' => tasks'[r].stack \in inUse'
    BY <1>p, <2>1, <2>3, <2>5 DEF IInv, StacksOwned
  <2>7. ASSUME NEW r \in Occupied(tasks'), NEW u \in Occupied(tasks'),
               ~ Freed(r)', ~ Freed(u)', tasks'[r].stack = tasks'[u].stack
        PROVE  r = u
    <3>1. ~ Freed(r) /\ ~ Freed(u)
      BY <2>1, <2>7
    <3> QED BY <2>3, <2>5, <2>7, <3>1 DEF IInv, StacksOwned
  <2>8. ASSUME NEW r \in Occupied(tasks'), NEW t \in Creating', ~ Freed(r)'
        PROVE  tasks'[r].stack # held'[t]
    <3>1. ~ Freed(r)
      BY <2>1, <2>8
    <3>2. t \in Creating /\ held'[t] = held[t] /\ held[t] # held[thr]
      BY <2>4
    <3> QED BY <2>5, <3>1, <3>2 DEF IInv, StacksOwned
  <2>9. /\ \A t \in Creating' : held'[t] \in inUse'
        /\ \A t, u \in Creating' : held'[t] = held'[u] => t = u
    BY <1>p, <2>4 DEF IInv, StacksOwned
  <2> QED BY <2>6, <2>7, <2>8, <2>9 DEF StacksOwned
<1>14. EntriesOwed' /\ EntriesOnce'
  <2>1. ASSUME NEW e \in Entries, Owed(e) PROVE Owed(e)'
    <3>1. e.slot \in Slots /\ e.slot # s
      BY <1>4, <2>1 DEF Owed, Entries
    <3> QED BY <1>p, <1>5, <2>1, <3>1 DEF Owed
  <2>2. pend # NoEntry => Owed(pend)'
    BY <1>p, <2>1 DEF IInv, TypeOK, EntriesOwed
  <2>3. \A i \in DOMAIN rq : Owed(rq[i])'
    <3>1. \A i \in DOMAIN rq : rq[i] \in Entries
      BY LenProperties, ElementOfSeq DEF IInv, TypeOK
    <3> QED BY <1>p, <2>1, <3>1 DEF IInv, EntriesOwed
  <2>4. \A t \in Threads : hand[t] # NoEntry => Owed(hand[t])'
    BY <1>p, <2>1 DEF IInv, TypeOK, EntriesOwed
  <2>5. /\ pend' # NoEntry => Owed(pend)'
        /\ \A i \in DOMAIN rq' : Owed(rq[i])'
        /\ \A t \in Threads : hand'[t] # NoEntry => Owed(hand[t])'
    BY <1>p, <2>2, <2>3, <2>4
  <2>6. EntriesOnce'
    BY <1>p DEF IInv, EntriesOnce, NoEntry
  <2> QED BY <2>5, <2>6 DEF EntriesOwed, NoEntry
<1>15. CountMatches'
  <2>1. IsFiniteSet(Occupied(tasks))
    <3>1. NSlots - 1 \in Int
      BY SchedulerFacts
    <3>2. IsFiniteSet(Slots)
      BY <3>1, FS_Interval DEF Slots
    <3> QED BY <3>2, LiveIsOccupied, FS_Subset
  <2>2. s \notin Occupied(tasks) /\ Occupied(tasks') = Occupied(tasks) \cup {s}
    BY <1>5, <1>6
  <2>3. Cardinality(Occupied(tasks')) = Cardinality(Occupied(tasks)) + 1
    BY <2>1, <2>2, FS_AddElement
  <2> QED BY <2>3 DEF IInv, CountMatches, PlacedAt
<1>16. FlagMeansNoWork'
  BY <1>p, <1>1, <1>3, SchedulerFacts DEF IInv, FlagMeansNoWork
<1>17. JoinedFree'
  BY <1>p, <1>3 DEF JoinedFree, At
<1> QED BY <1>2, <1>5, <1>7, <1>8, <1>9, <1>10, <1>11, <1>12, <1>13, <1>14, <1>15, <1>16, <1>17
    DEF IInv

LEMMA CreatePlaceKeeps ==
  ASSUME IInv, CreatePlace
  PROVE  IInv'
<1> DEFINE free == Slots \ Occupied(tasks)
           s == Min(free)
<1>1. /\ At("place") /\ held' = [held EXCEPT ![thr] = 0] /\ nextId' = nextId + 1
      /\ UNCHANGED <<current, thr, pend, rq, sleeping, hand>>
  BY DEF CreatePlace, SameReaper
<1>2. CASE count >= NSlots \/ free = {}
  <2>1. /\ inUse' = inUse \ {held[thr]} /\ pc' = Goto("run")
        /\ UNCHANGED <<tasks, runq, count, ctx>>
    BY <1>2 DEF CreatePlace
  <2> QED BY <1>1, <2>1, PlaceFailsKeeps
<1>3. CASE ~ (count >= NSlots \/ free = {})
  <2>1. s \in free
    BY <1>3, SchedulerFacts, MinIsLeast
  <2>2. /\ tasks' = [tasks EXCEPT ![s] = NewTask(nextId, held[thr], 0)]
        /\ ctx' = [ctx EXCEPT ![s] = nextId]
        /\ pc' = [Goto("run") EXCEPT ![nextId] = "fresh"]
        /\ count' = count + 1 /\ runq' = Enqueue(runq, {s}) /\ UNCHANGED inUse
    BY <1>3 DEF CreatePlace
  <2>3. PlacedAt(s)
    BY <1>1, <2>1, <2>2 DEF PlacedAt
  <2> HIDE DEF s
  <2> QED BY <1>1, <2>3, PlaceSucceedsKeeps
<1> QED BY <1>2, <1>3

-----------------------------------------------------------------------------
(* Reaping: an entry leaves the queue, its stack goes back to the pool, and *)
(* only then the slot can be used again.                                   *)
LEMMA NothingQueuedKeeps ==
  ASSUME IInv, ReapDequeue, rq = <<>>
  PROVE  IInv' /\ Same(tasks, tasks')
<1> DEFINE x == IF thr = ReaperId THEN "chk1" ELSE "place"
<1>1. /\ At("reap") /\ pc' = Goto(x) /\ rq' = <<>>
      /\ UNCHANGED <<tasks, runq, sleeping>>
      /\ UNCHANGED <<count, nextId, current, ctx, thr, pend, rq, inUse, held, hand>>
  BY DEF ReapDequeue, SameCpu, SameCreation
<1>2. MayGoTo(x)
  BY <1>1 DEF MayGoTo, At, PCs, InCreation, InReaping, ReaperPCs
<1>3. x # "joined"
  OBVIOUS
<1> HIDE DEF x
<1>4. /\ pc' \in [Threads -> PCs] /\ \A t \in Threads \ {thr} : pc'[t] = pc[t]
      /\ pc'[thr] \notin {"fresh", "none", "gone", "halt"}
      /\ pc'[ReaperId] \in ReaperPCs /\ Quietly
      /\ pc'[thr] = x
  BY <1>1, <1>2, GotoKeeps
<1>5. FlagMeansNoWork'
  BY <1>1 DEF FlagMeansNoWork
<1>6. JoinedFree'
  BY <1>1, <1>3, <1>4 DEF JoinedFree, At
<1>7. LocalStep
  BY <1>1, <1>4, <1>5, <1>6, TypedState DEF LocalStep
<1> QED BY <1>1, <1>7, LocalKeeps

LEMMA ReapDequeueKeeps ==
  ASSUME IInv, ReapDequeue
  PROVE  IInv' /\ Same(tasks, tasks')
<1> SUFFICES ASSUME rq # <<>> PROVE IInv' /\ Same(tasks, tasks')
  BY NothingQueuedKeeps
<1>1. /\ At("reap") /\ pc' = Goto("free")
      /\ hand' = [hand EXCEPT ![thr] = Head(rq)] /\ rq' = Tail(rq)
      /\ UNCHANGED <<tasks, runq, sleeping, current, ctx, thr, pend,
                     count, nextId, inUse, held>>
  BY DEF ReapDequeue, SameCpu, SameCreation
<1>2. /\ thr \in Threads /\ pc \in [Threads -> PCs] /\ hand \in [Threads -> Entries \cup {NoEntry}]
      /\ rq \in Seq(Entries) /\ Len(rq) <= ReapCap /\ Len(rq) \in Nat
  BY ExecutingFacts, LenProperties DEF IInv, TypeOK
<1>3. /\ rq' \in Seq(Entries) /\ Len(rq') = Len(rq) - 1 /\ Len(rq') <= ReapCap
      /\ \A i \in DOMAIN rq' : i \in Nat /\ i + 1 \in DOMAIN rq /\ i + 1 # 1 /\ rq'[i] = rq[i + 1]
  <2>1. Tail(rq) \in Seq(Entries) /\ Len(Tail(rq)) = Len(rq) - 1
        /\ \A i \in 1 .. Len(Tail(rq)) : Tail(rq)[i] = rq[i + 1]
    BY <1>2, HeadTailProperties
  <2>2. DOMAIN rq = 1 .. Len(rq) /\ DOMAIN Tail(rq) = 1 .. Len(rq) - 1
    BY <1>2, <2>1, LenProperties
  <2>3. ReapCap \in Nat
    BY SchedulerFacts
  <2> QED BY <1>1, <1>2, <2>1, <2>2, <2>3
<1>4. 1 \in DOMAIN rq /\ Head(rq) = rq[1] /\ rq[1] \in Entries /\ rq[1] # NoEntry
  <2>1. Len(rq) # 0
    BY <1>2, EmptySeq
  <2>2. 1 \in DOMAIN rq /\ 1 \in 1 .. Len(rq)
    BY <1>2, <2>1, LenProperties
  <2>3. rq[1] \in Entries
    BY <1>2, <2>2, ElementOfSeq
  <2>4. Head(rq) = rq[1]
    BY <1>2, HeadTailProperties
  <2> QED BY <2>2, <2>3, <2>4, SchedulerFacts DEF Entries, NoEntry
<1>5. /\ pc' \in [Threads -> PCs] /\ pc'[thr] = "free"
      /\ \A t \in Threads \ {thr} : pc'[t] = pc[t]
  BY <1>1, <1>2 DEF Goto, PCs
<1>6. /\ hand' \in [Threads -> Entries \cup {NoEntry}] /\ hand'[thr] = rq[1]
      /\ \A t \in Threads \ {thr} : hand'[t] = hand[t]
  BY <1>1, <1>2, <1>4
<1>7. TypeOK'
  BY <1>1, <1>3, <1>5, <1>6 DEF IInv, TypeOK
<1>8. Sound(tasks)' /\ Numbered(tasks, nextId)' /\ Same(tasks, tasks')
  BY <1>1 DEF IInv, Same
<1>9. RunningIsCurrent' /\ ContextOwnership' /\ Executing' /\ CountMatches'
  <2>1. SameTable /\ tasks[current].stack \in inUse'
    BY <1>1 DEF SameTable, IInv, RunningIsCurrent
  <2> QED BY <1>1, <2>1, CpuKept
<1>10. HandsMatch'
  <2>1. pc'[ReaperId] \in ReaperPCs
    BY <1>5, SchedulerFacts DEF IInv, HandsMatch, ReaperPCs
  <2>2. \A t \in Threads : held'[t] # 0 <=> t # ReaperId /\ InCreation(pc'[t])
    BY <1>1, <1>5 DEF IInv, HandsMatch, InCreation, At
  <2>3. \A t \in Threads : hand'[t] # NoEntry <=> InReaping(pc'[t])
    BY <1>4, <1>5, <1>6 DEF IInv, HandsMatch, InReaping
  <2> QED BY <2>1, <2>2, <2>3 DEF HandsMatch, NoEntry
<1>11. StacksOwned'
  <2>1. \A s : Freed(s)' <=> Freed(s)
    BY <1>1, <1>5, <1>6 DEF Freed, At
  <2>2. Creating' = Creating
    BY <1>1 DEF Creating
  <2> QED BY <1>1, <2>1, <2>2 DEF IInv, StacksOwned
<1>12. EntriesOwed'
  <2>1. \A i \in DOMAIN rq' : Owed(rq'[i])
    BY <1>3 DEF IInv, EntriesOwed
  <2>2. \A t \in Threads : hand'[t] # NoEntry => Owed(hand'[t])
    BY <1>4, <1>6 DEF IInv, EntriesOwed
  <2>3. pend' # NoEntry => Owed(pend')
    BY <1>1 DEF IInv, EntriesOwed
  <2> QED BY <1>1, <2>1, <2>2, <2>3 DEF EntriesOwed, Owed, NoEntry
<1>13. EntriesOnce'
  <2> USE DEF IInv, EntriesOnce
  <2>1. \A i \in DOMAIN rq' : pend # NoEntry => rq'[i].slot # pend.slot
    BY <1>3
  <2>2. \A t \in Threads : pend # NoEntry => hand'[t].slot # pend.slot
    BY <1>4, <1>6
  <2>3. \A i \in DOMAIN rq', t \in Threads : rq'[i].slot # hand'[t].slot
    BY <1>3, <1>4, <1>6
  <2>4. \A i, j \in DOMAIN rq' : rq'[i].slot = rq'[j].slot => i = j
    <3>1. ASSUME NEW i \in DOMAIN rq', NEW j \in DOMAIN rq', rq'[i].slot = rq'[j].slot
          PROVE  i = j
      <4>1. i + 1 = j + 1
        BY <1>3, <3>1
      <4> QED BY <1>3, <4>1
    <3> QED BY <3>1
  <2>5. \A t, u \in Threads : hand'[t] # NoEntry /\ hand'[t].slot = hand'[u].slot => t = u
    BY <1>4, <1>6
  <2> QED BY <1>1, <2>1, <2>2, <2>3, <2>4, <2>5 DEF NoEntry
<1>14. FlagMeansNoWork'
  BY <1>1, <1>5, SchedulerFacts DEF IInv, FlagMeansNoWork
<1>15. JoinedFree'
  BY <1>1, <1>5 DEF JoinedFree, At
<1>16. IdsLeft'
  BY <1>1, IdsKept DEF IInv
<1> QED BY <1>7, <1>8, <1>9, <1>10, <1>11, <1>12, <1>13, <1>14, <1>15, <1>16 DEF IInv

(* Who is reaping has an entry in hand, and nobody else has that slot's.   *)
LEMMA HandFacts ==
  ASSUME IInv, InReaping(pc[thr])
  PROVE  LET e == hand[thr]
         IN  /\ e \in Entries /\ e # NoEntry /\ e.slot \in Slots /\ Owed(e)
             /\ e.slot \in Occupied(tasks) \ {0, ReaperSlot, current}
             /\ pend # NoEntry => pend.slot # e.slot
             /\ \A i \in DOMAIN rq : rq[i].slot # e.slot
             /\ \A t \in Threads \ {thr} : hand[t].slot # e.slot
<1> DEFINE e == hand[thr]
<1>1. thr \in Threads /\ hand \in [Threads -> Entries \cup {NoEntry}]
  BY ExecutingFacts DEF IInv, TypeOK
<1>2. e # NoEntry /\ e \in Entries /\ e.slot \in Slots
  BY <1>1 DEF IInv, HandsMatch, Entries
<1>3. Owed(e)
  BY <1>1, <1>2 DEF IInv, EntriesOwed
<1>4. e.slot \in Occupied(tasks) \ {0, ReaperSlot, current}
  <2>1. tasks[e.slot].st = "Dead" /\ e.slot # current
    BY <1>3 DEF Owed
  <2> QED BY <1>2, <2>1 DEF Occupied, IInv, Sound
<1>5. /\ pend # NoEntry => pend.slot # e.slot
      /\ \A i \in DOMAIN rq : rq[i].slot # e.slot
      /\ \A t \in Threads \ {thr} : hand[t].slot # e.slot
  BY <1>1, <1>2 DEF IInv, EntriesOnce
<1> QED BY <1>2, <1>3, <1>4, <1>5

LEMMA ReapFreeStackKeeps ==
  ASSUME IInv, ReapFreeStack
  PROVE  IInv' /\ Same(tasks, tasks')
<1>1. PICK e : e = hand[thr]
  OBVIOUS
<1>2. /\ At("free") /\ pc' = Goto("clear") /\ inUse' = inUse \ {e.stack}
      /\ UNCHANGED <<tasks, runq, count, nextId, held, current, ctx, thr, pend,
                     rq, sleeping, hand>>
  BY <1>1 DEF ReapFreeStack, SameCpu, SameReaper
<1>3. /\ e \in Entries /\ e # NoEntry /\ e.slot \in Occupied(tasks) \ {current}
      /\ e.stack = tasks[e.slot].stack
      /\ \A t \in Threads \ {thr} : hand[t].slot # e.slot
  BY <1>1, <1>2, HandFacts DEF At, InReaping, Owed
<1>4. thr \in Threads /\ pc \in [Threads -> PCs]
  BY ExecutingFacts DEF IInv, TypeOK
<1>5. /\ pc' \in [Threads -> PCs] /\ pc'[thr] = "clear"
      /\ \A t \in Threads \ {thr} : pc'[t] = pc[t]
  BY <1>2, <1>4 DEF Goto, PCs
<1>6. TypeOK'
  BY <1>2, <1>5 DEF IInv, TypeOK
<1>7. Sound(tasks)' /\ Numbered(tasks, nextId)' /\ Same(tasks, tasks')
  BY <1>2 DEF IInv, Same
<1>8. ~ Freed(e.slot) /\ \A s : Freed(s)' <=> Freed(s) \/ s = e.slot
  BY <1>1, <1>2, <1>3, <1>4, <1>5 DEF Freed, At
<1>9. ~ Freed(current) /\ current \in Occupied(tasks)
  <2>1. ASSUME NEW t \in Threads, pc[t] = "clear" PROVE hand[t].slot # current
    BY <2>1 DEF IInv, HandsMatch, InReaping, EntriesOwed, Owed
  <2> QED BY <2>1 DEF Freed, IInv, Executing
<1>10. /\ \A s \in Occupied(tasks) : ~ Freed(s)' => ~ Freed(s) /\ tasks[s].stack # e.stack
       /\ \A t \in Creating : held[t] # e.stack
  BY <1>3, <1>8 DEF IInv, StacksOwned
<1>11. StacksOwned'
  <2>1. Creating' = Creating
    BY <1>2 DEF Creating
  <2> QED BY <1>2, <1>10, <2>1 DEF IInv, StacksOwned
<1>12. RunningIsCurrent' /\ ContextOwnership' /\ Executing' /\ CountMatches'
  <2>1. tasks[current].stack # e.stack
    BY <1>3, <1>8, <1>9 DEF IInv, StacksOwned
  <2>2. SameTable /\ tasks[current].stack \in inUse'
    BY <1>2, <2>1 DEF SameTable, IInv, RunningIsCurrent
  <2> QED BY <1>2, <2>2, CpuKept
<1>13. HandsMatch'
  <2>1. pc'[ReaperId] \in ReaperPCs
    BY <1>5, SchedulerFacts DEF IInv, HandsMatch, ReaperPCs
  <2>2. \A t \in Threads : held'[t] # 0 <=> t # ReaperId /\ InCreation(pc'[t])
    BY <1>2, <1>5 DEF IInv, HandsMatch, InCreation, At
  <2>3. \A t \in Threads : hand'[t] # NoEntry <=> InReaping(pc'[t])
    BY <1>2, <1>5 DEF IInv, HandsMatch, InReaping, At
  <2> QED BY <2>1, <2>2, <2>3 DEF HandsMatch, NoEntry
<1>14. EntriesOwed' /\ EntriesOnce'
  BY <1>2, <1>7, EntriesKept
<1>15. FlagMeansNoWork'
  BY <1>2, <1>5, SchedulerFacts DEF IInv, FlagMeansNoWork
<1>16. JoinedFree'
  BY <1>2, <1>5 DEF JoinedFree, At
<1>17. IdsLeft'
  BY <1>2, IdsKept DEF IInv
<1> QED BY <1>6, <1>7, <1>11, <1>12, <1>13, <1>14, <1>15, <1>16, <1>17 DEF IInv

(* A dead slot is emptied.                                                 *)
Empties(T, U, s) == T[s].st = "Dead" /\ U = [T EXCEPT ![s] = EmptySlot]

LEMMA EmptiesEffect ==
  ASSUME NEW T \in Tables, Sound(T), NEW s \in Slots, NEW U, Empties(T, U, s)
  PROVE  /\ U \in Tables /\ Sound(U) /\ U[s] = EmptySlot
         /\ \A r \in Slots \ {s} : U[r] = T[r]
         /\ Occupied(U) = Occupied(T) \ {s} /\ Live(U) = Live(T) /\ s \notin Live(T)
<1>1. EmptySlot \in Task
  BY DEF EmptySlot, Task, TaskStates
<1>2. U \in Tables /\ U[s] = EmptySlot /\ \A r \in Slots \ {s} : U[r] = T[r]
  BY <1>1, TableUpdate DEF Tables, Empties
<1>3. EmptySlot.st = "Empty" /\ EmptySlot.joining = 0
  BY DEF EmptySlot
<1>4. /\ Occupied(U) = Occupied(T) \ {s} /\ Live(U) = Live(T) /\ s \notin Live(T)
  BY <1>2, <1>3 DEF Occupied, Live, Empties
<1>5. \A x : Alive(T, x) => Alive(U, x)
  <2>1. \A r \in Live(T) : r # s /\ r \in Slots
    BY <1>4 DEF Live
  <2> QED BY <1>2, <1>4, <2>1 DEF Alive
<1>6. s # 0 /\ s # ReaperSlot
  BY DEF Sound, Empties
<1>7. /\ U[0].id = InitId /\ U[0].st \in {"Ready", "Running"}
      /\ U[ReaperSlot].id = ReaperId /\ U[ReaperSlot].joining = 0
      /\ U[ReaperSlot].st \in {"Ready", "Running", "Blocked"}
  BY <1>2, <1>6, SchedulerFacts DEF Sound
<1>8. ASSUME NEW r \in Slots
      PROVE  /\ U[r].st = "Dead" => U[r].wait = Nil /\ U[r].token = FALSE
             /\ U[r].joining # 0 => U[r].st \in {"Blocked", "Dead"}
             /\ U[r].joining # 0 /\ U[r].st = "Blocked"
                  => U[r].wait = Nil /\ Alive(U, U[r].joining)
  BY <1>2, <1>3, <1>5 DEF Sound
<1> QED BY <1>2, <1>4, <1>7, <1>8 DEF Sound

LEMMA SlotsFinite ==
  \A T : IsFiniteSet(Occupied(T)) /\ Cardinality(Occupied(T)) \in Nat
<1>1. NSlots - 1 \in Int
  BY SchedulerFacts
<1>2. IsFiniteSet(Slots)
  BY <1>1, FS_Interval DEF Slots
<1>3. \A T : IsFiniteSet(Occupied(T))
  BY <1>2, LiveIsOccupied, FS_Subset
<1> QED BY <1>3, FS_CardinalityType

LEMMA ReapClearSlotKeeps ==
  ASSUME IInv, ReapClearSlot
  PROVE  IInv'
<1>1. PICK e : e = hand[thr]
  OBVIOUS
<1>2. PICK s : s = e.slot
  OBVIOUS
<1>3. At("clear") /\ InReaping(pc[thr])
  BY DEF ReapClearSlot, At, InReaping
<1>4. /\ s \in Slots /\ s \in Occupied(tasks) /\ s # current /\ tasks[s].st = "Dead"
      /\ pend # NoEntry => pend.slot # s
      /\ \A i \in DOMAIN rq : rq[i].slot # s
      /\ \A t \in Threads \ {thr} : hand[t].slot # s
  BY <1>1, <1>2, <1>3, HandFacts DEF Owed
<1>5. count = Cardinality(Occupied(tasks)) /\ count \in Nat /\ count > 0
  <2>1. count = Cardinality(Occupied(tasks)) /\ count \in Nat
    BY SlotsFinite DEF IInv, CountMatches
  <2>2. count # 0
    BY <1>4, <2>1, SlotsFinite, FS_EmptySet
  <2> QED BY <2>1, <2>2
<1>6. /\ tasks' = [tasks EXCEPT ![s] = EmptySlot] /\ count' = count - 1
      /\ ctx' = [ctx EXCEPT ![s] = NoThread]
      /\ hand' = [hand EXCEPT ![thr] = NoEntry] /\ pc' = Goto("reap")
      /\ UNCHANGED <<runq, current, thr, pend, rq, sleeping, nextId, inUse, held>>
  <2>1. Clearable(tasks, s)
    BY <1>4 DEF Clearable
  <2> QED BY <1>1, <1>2, <1>4, <1>5, <2>1 DEF ReapClearSlot, ClearSlot
<1>7. /\ thr \in Threads /\ pc \in [Threads -> PCs] /\ hand \in [Threads -> Entries \cup {NoEntry}]
  BY ExecutingFacts DEF IInv, TypeOK
<1>8. /\ pc' \in [Threads -> PCs] /\ pc'[thr] = "reap"
      /\ \A t \in Threads \ {thr} : pc'[t] = pc[t]
  BY <1>6, <1>7 DEF Goto, PCs
<1>9. /\ hand' \in [Threads -> Entries \cup {NoEntry}] /\ hand'[thr] = NoEntry
      /\ \A t \in Threads \ {thr} : hand'[t] = hand[t]
  BY <1>6, <1>7
<1>10. /\ tasks' \in Tables /\ Sound(tasks')
       /\ \A r \in Slots \ {s} : tasks'[r] = tasks[r]
       /\ Occupied(tasks') = Occupied(tasks) \ {s} /\ Live(tasks') = Live(tasks)
       /\ s \notin Live(tasks) /\ tasks'[s].st = "Empty"
  <2>1. Empties(tasks, tasks', s)
    BY <1>4, <1>6 DEF Empties
  <2> QED BY <1>4, <2>1, TypedState, EmptiesEffect DEF EmptySlot
<1>11. \A r \in Occupied(tasks') : r \in Occupied(tasks) /\ r # s /\ tasks'[r] = tasks[r]
  BY <1>10, LiveIsOccupied
<1>12. TypeOK'
  <2>1. ctx' \in [Slots -> Threads \cup {NoThread}]
    BY <1>6 DEF IInv, TypeOK
  <2>2. count' \in Nat
    BY <1>5, <1>6
  <2> QED BY <1>6, <1>8, <1>9, <1>10, <2>1, <2>2 DEF IInv, TypeOK, Tables
<1>13. Numbered(tasks, nextId)'
  BY <1>6, <1>11 DEF IInv, Numbered
<1>14. RunningIsCurrent'
  <2>1. current \in Slots /\ tasks'[current] = tasks[current]
    BY <1>4, <1>10, TypedState
  <2>2. \A r \in Slots : tasks'[r].st = "Running" => r = current
    BY <1>10, TypedState DEF OnlyRuns
  <2> QED BY <1>6, <2>1, <2>2 DEF IInv, RunningIsCurrent
<1>15. ContextOwnership'
  <2>1. \A r \in Live(tasks) : r \in Slots \ {s} /\ ctx'[r] = ctx[r]
    BY <1>6, <1>10 DEF Live, IInv, TypeOK
  <2> QED BY <1>6, <1>10, <2>1 DEF IInv, ContextOwnership
<1>16. Executing'
  <2>1. current' \in Occupied(tasks') /\ pc'[thr'] \notin {"fresh", "none", "gone", "halt"}
    BY <1>4, <1>6, <1>8, <1>10 DEF IInv, Executing
  <2>2. \A r \in Live(tasks') : pc'[tasks'[r].id] \notin {"none", "gone", "halt"}
    <3>1. \A r \in Live(tasks) : tasks'[r] = tasks[r] /\ tasks[r].id \in Threads
      BY <1>10, ExecutingFacts, LiveIsOccupied
    <3> QED BY <1>8, <1>10, <3>1 DEF IInv, Executing
  <2>3. \A t \in Threads : t >= nextId' => pc'[t] = "none"
    <3>1. thr < nextId /\ thr \in Nat /\ nextId \in Nat /\ Threads \subseteq Nat
      BY <1>7, ExecutingFacts, SchedulerFacts DEF IInv, Executing
    <3> QED BY <1>6, <1>8, <3>1 DEF IInv, Executing
  <2> QED BY <2>1, <2>2, <2>3 DEF Executing
<1>17. HandsMatch'
  <2>1. pc'[ReaperId] \in ReaperPCs
    BY <1>8, SchedulerFacts DEF IInv, HandsMatch, ReaperPCs
  <2>2. \A t \in Threads : held'[t] # 0 <=> t # ReaperId /\ InCreation(pc'[t])
    BY <1>3, <1>6, <1>8 DEF IInv, HandsMatch, InCreation, At
  <2>3. \A t \in Threads : hand'[t] # NoEntry <=> InReaping(pc'[t])
    BY <1>8, <1>9 DEF IInv, HandsMatch, InReaping
  <2> QED BY <2>1, <2>2, <2>3 DEF HandsMatch, NoEntry
<1>18. StacksOwned'
  <2>1. \A r : r # s => (Freed(r)' <=> Freed(r))
    <3>1. pc'[thr] # "clear" /\ hand[thr].slot = s
      BY <1>1, <1>2, <1>8
    <3> QED BY <1>8, <1>9, <3>1 DEF Freed
  <2>2. Creating' = Creating
    BY <1>6 DEF Creating
  <2>3. ASSUME NEW r \in Occupied(tasks'), ~ Freed(r)'
        PROVE  /\ r \in Occupied(tasks) /\ ~ Freed(r) /\ tasks'[r].stack = tasks[r].stack
               /\ tasks[r].stack \in inUse
               /\ \A t \in Creating : tasks[r].stack # held[t]
    <3>1. r \in Occupied(tasks) /\ r # s /\ tasks'[r] = tasks[r]
      BY <1>11
    <3>2. ~ Freed(r)
      BY <2>1, <2>3, <3>1
    <3> QED BY <3>1, <3>2 DEF IInv, StacksOwned
  <2>4. ASSUME NEW r \in Occupied(tasks'), NEW u \in Occupied(tasks'),
               ~ Freed(r)', ~ Freed(u)', tasks'[r].stack = tasks'[u].stack
        PROVE  r = u
    BY <2>3, <2>4 DEF IInv, StacksOwned
  <2>5. /\ \A t \in Creating' : held'[t] \in inUse'
        /\ \A t, u \in Creating' : held'[t] = held'[u] => t = u
    BY <1>6, <2>2 DEF IInv, StacksOwned
  <2>6. inUse' = inUse /\ held' = held
    BY <1>6
  <2>7. /\ \A r \in Occupied(tasks') : ~ Freed(r)' => tasks'[r].stack \in inUse'
        /\ \A r \in Occupied(tasks'), t \in Creating' : ~ Freed(r)' => tasks'[r].stack # held'[t]
    BY <2>2, <2>3, <2>6
  <2> QED BY <2>4, <2>5, <2>7 DEF StacksOwned
<1>19. EntriesOwed'
  <2>1. ASSUME NEW f \in Entries, Owed(f), f.slot # s PROVE Owed(f)'
    <3>1. f.slot \in Slots \ {s}
      BY <2>1 DEF Entries
    <3> QED BY <1>6, <1>10, <2>1, <3>1 DEF Owed
  <2>2. pend # NoEntry => Owed(pend)'
    BY <1>4, <1>6, <2>1 DEF IInv, TypeOK, EntriesOwed
  <2>3. \A i \in DOMAIN rq : Owed(rq[i])'
    <3>1. \A i \in DOMAIN rq : rq[i] \in Entries
      BY LenProperties, ElementOfSeq DEF IInv, TypeOK
    <3> QED BY <1>4, <1>6, <2>1, <3>1 DEF IInv, EntriesOwed
  <2>4. ASSUME NEW t \in Threads, hand'[t] # NoEntry PROVE Owed(hand[t])' /\ hand'[t] = hand[t]
    <3>1. t # thr /\ hand'[t] = hand[t] /\ hand[t] \in Entries
      BY <1>7, <1>9, <2>4
    <3>2. Owed(hand[t]) /\ hand[t].slot # s
      BY <1>4, <2>4, <3>1 DEF IInv, EntriesOwed
    <3>3. PICK f : f = hand[t]
      OBVIOUS
    <3>4. Owed(f)' /\ hand'[t] = f
      BY <2>1, <3>1, <3>2, <3>3
    <3> QED BY <3>1, <3>3, <3>4 DEF Owed
  <2> QED BY <1>6, <2>2, <2>3, <2>4 DEF EntriesOwed, Owed, NoEntry
<1>20. EntriesOnce'
  <2>1. NoEntry.slot = NoSlot /\ NoSlot \notin Slots
    BY SchedulerFacts DEF NoEntry
  <2>2. \A i \in DOMAIN rq : rq[i].slot \in Slots
    <3>1. \A i \in DOMAIN rq : rq[i] \in Entries
      BY LenProperties, ElementOfSeq DEF IInv, TypeOK
    <3> QED BY <3>1 DEF Entries
  <2>3. pend # NoEntry => pend.slot \in Slots
    BY DEF IInv, TypeOK, Entries
  <2>4. \A t \in Threads : hand'[t] # NoEntry => hand'[t].slot \in Slots
    BY <1>9 DEF Entries
  <2>5. \A t \in Threads : pend # NoEntry => hand'[t].slot # pend.slot
    BY <1>9, <2>1, <2>3 DEF IInv, EntriesOnce
  <2>6. \A i \in DOMAIN rq, t \in Threads : rq[i].slot # hand'[t].slot
    BY <1>9, <2>1, <2>2 DEF IInv, EntriesOnce
  <2>7. \A t, u \in Threads : hand'[t] # NoEntry /\ hand'[t].slot = hand'[u].slot => t = u
    BY <1>9, <2>1, <2>4 DEF IInv, EntriesOnce
  <2> QED BY <1>6, <2>5, <2>6, <2>7 DEF IInv, EntriesOnce, NoEntry
<1>21. CountMatches'
  <2>1. Cardinality(Occupied(tasks')) = Cardinality(Occupied(tasks)) - 1
    BY <1>4, <1>10, SlotsFinite, FS_RemoveElement
  <2> QED BY <1>5, <1>6, <2>1 DEF CountMatches
<1>22. FlagMeansNoWork'
  BY <1>6, <1>8, SchedulerFacts DEF IInv, FlagMeansNoWork
<1>23. JoinedFree'
  BY <1>6, <1>8 DEF JoinedFree, At
<1>24. IdsLeft'
  BY <1>6, IdsKept DEF IInv
<1> QED BY <1>10, <1>12, <1>13, <1>14, <1>15, <1>16, <1>17, <1>18, <1>19, <1>20, <1>21, <1>22,
           <1>23, <1>24
    DEF IInv

-----------------------------------------------------------------------------
(* The invariant holds at the start: init runs and the reaper is Ready.    *)
LEMMA FirstStacks ==
  /\ InitStacks[1] \in Stacks /\ InitStacks[2] \in Stacks
  /\ InitStacks[1] # InitStacks[2]
<1> DEFINE a == Min(Stacks)
           b == Min(Stacks \ {Min(Stacks)})
<1>1. Cardinality(Stacks) >= 2 /\ IsFiniteSet(Stacks) /\ Stacks \subseteq Nat
  BY SchedulerAssumption, SchedulerFacts
<1>2. Stacks # {}
  BY <1>1, FS_EmptySet
<1>3. a \in Stacks
  BY <1>1, <1>2, MinIsLeast
<1>4. Stacks \ {a} # {}
  <2>1. Cardinality(Stacks \ {a}) = Cardinality(Stacks) - 1 /\ IsFiniteSet(Stacks \ {a})
    BY <1>1, <1>3, FS_RemoveElement
  <2>2. Cardinality(Stacks) \in Nat
    BY <1>1, FS_CardinalityType
  <2>3. Cardinality(Stacks \ {a}) # 0
    BY <1>1, <2>1, <2>2
  <2> HIDE DEF a
  <2> QED BY <2>1, <2>3, FS_EmptySet
<1>5. b \in Stacks \ {a}
  <2>1. Stacks \ {a} \subseteq Nat
    BY <1>1
  <2> QED BY <1>4, <2>1, MinIsLeast
<1> QED BY <1>3, <1>5 DEF InitStacks

LEMMA FirstTable ==
  ASSUME Init
  PROVE  /\ tasks \in Tables
         /\ tasks[0].id = 1 /\ tasks[0].st = "Running" /\ tasks[0].stack = InitStacks[1]
         /\ tasks[ReaperSlot].id = 2 /\ tasks[ReaperSlot].st = "Ready"
         /\ tasks[ReaperSlot].stack = InitStacks[2]
         /\ \A s \in Slots : tasks[s].joining = 0
         /\ \A s \in Slots \ {0, ReaperSlot} : tasks[s].st = "Empty"
<1> DEFINE i == [NewTask(InitId, InitStacks[1], 0) EXCEPT !.st = "Running"]
           r == NewTask(ReaperId, InitStacks[2], 0)
<1>1. /\ i \in Task /\ i.id = 1 /\ i.st = "Running" /\ i.stack = InitStacks[1] /\ i.joining = 0
  <2>1. NewTask(InitId, InitStacks[1], 0) \in Task
    BY FirstStacks, NewTaskType DEF InitId
  <2>2. i \in Task
    BY <2>1, SchedulerFacts, FieldUpdates
  <2> QED BY <2>2 DEF NewTask, EmptySlot, InitId
<1>2. /\ r \in Task /\ r.id = 2 /\ r.st = "Ready" /\ r.stack = InitStacks[2] /\ r.joining = 0
  <2>1. r \in Task
    BY FirstStacks, NewTaskType DEF ReaperId
  <2> QED BY <2>1 DEF NewTask, EmptySlot, ReaperId
<1>3. EmptySlot \in Task /\ EmptySlot.st = "Empty" /\ EmptySlot.joining = 0
  BY DEF EmptySlot, Task, TaskStates
<1>4. tasks = [s \in Slots |-> IF s = 0 THEN i ELSE IF s = ReaperSlot THEN r ELSE EmptySlot]
  BY SchedulerFacts DEF Init
<1> HIDE DEF i, r
<1>5. /\ tasks \in Tables /\ tasks[0] = i /\ tasks[ReaperSlot] = r
      /\ \A s \in Slots \ {0, ReaperSlot} : tasks[s] = EmptySlot
  BY <1>1, <1>2, <1>3, <1>4, SchedulerFacts DEF Tables
<1> QED BY <1>1, <1>2, <1>3, <1>5

LEMMA InitIInv ==
  ASSUME Init
  PROVE  IInv
<1>1. /\ count = 2 /\ nextId = 3 /\ current = 0 /\ thr = 1
      /\ runq = Enqueue(<<>>, {ReaperSlot})
      /\ ctx = [s \in Slots |-> IF s = ReaperSlot THEN ReaperId ELSE NoThread]
      /\ pend = NoEntry /\ rq = <<>> /\ sleeping = FALSE
      /\ inUse = {InitStacks[1], InitStacks[2]}
      /\ held = [t \in Threads |-> 0] /\ hand = [t \in Threads |-> NoEntry]
  BY DEF Init, InitId
<1>2. Threads \subseteq Nat /\ 0 \in Threads /\ 1 \in Threads /\ 2 \in Threads
  BY SchedulerFacts
<1>3. pc = [t \in Threads |-> IF t = 0 THEN "halt" ELSE IF t = 1 THEN "run"
                              ELSE IF t = 2 THEN "fresh" ELSE "none"]
  BY SchedulerFacts DEF Init
<1>4. /\ pc[0] = "halt" /\ pc[1] = "run" /\ pc[2] = "fresh"
      /\ \A t \in Threads : t >= 3 => pc[t] = "none"
      /\ \A t \in Threads : pc[t] \in {"halt", "run", "fresh", "none"}
  BY <1>2, <1>3
<1>5. Occupied(tasks) = {0, ReaperSlot} /\ Live(tasks) = {0, ReaperSlot}
  BY FirstTable, SchedulerFacts DEF Occupied, Live
<1>6. TypeOK
  <2>1. runq \in Seq(Slots) /\ Len(runq) <= RunqCap
    <3>1. <<>> \in Seq(Slots) /\ Len(<<>>) = 0 /\ 0 <= RunqCap
      BY EmptySeq, SchedulerFacts
    <3>2. Len(<<>>) <= RunqCap
      BY <3>1
    <3> QED BY <1>1, <3>1, <3>2, EnqueueType
  <2>2. rq \in Seq(Entries) /\ Len(rq) <= ReapCap
    BY <1>1, EmptySeq, SchedulerFacts
  <2>3. ctx \in [Slots -> Threads \cup {NoThread}]
    BY <1>1, <1>2, SchedulerFacts
  <2>4. nextId \in 3 .. MaxId + 1 /\ count \in Nat
    BY <1>1, SchedulerFacts
  <2>5. inUse \subseteq Stacks
    BY <1>1, FirstStacks
  <2>6. pc \in [Threads -> PCs]
    BY <1>3 DEF PCs
  <2>7. current \in Slots /\ thr \in Threads
    BY <1>1, <1>2, SchedulerFacts
  <2>8. /\ held \in [Threads -> Stacks \cup {0}] /\ hand \in [Threads -> Entries \cup {NoEntry}]
    BY <1>1
  <2>9. tasks \in [Slots -> Task]
    BY FirstTable DEF Tables
  <2>10. pend \in Entries \cup {NoEntry} /\ sleeping \in BOOLEAN
    BY <1>1
  <2> QED BY <2>1, <2>2, <2>3, <2>4, <2>5, <2>6, <2>7, <2>8, <2>9, <2>10 DEF TypeOK
<1>7. \A s \in Slots : tasks[s].st # "Dead" /\ tasks[s].joining = 0
  BY FirstTable, SchedulerFacts
<1>8. Sound(tasks)
  BY <1>7, FirstTable, SchedulerFacts DEF Sound
<1>9. Numbered(tasks, nextId)
  BY <1>1, <1>5, FirstTable, SchedulerFacts DEF Numbered
<1>10. RunningIsCurrent
  BY <1>1, FirstTable, SchedulerFacts DEF RunningIsCurrent
<1>11. ContextOwnership
  BY <1>1, <1>5, FirstTable, SchedulerFacts DEF ContextOwnership
<1>12. Executing
  BY <1>1, <1>4, <1>5, FirstTable, SchedulerFacts DEF Executing
<1>13. HandsMatch
  BY <1>1, <1>4, SchedulerFacts DEF HandsMatch, ReaperPCs, InCreation, InReaping
<1>14. Creating = {}
  BY <1>1 DEF Creating
<1>15. StacksOwned
  BY <1>1, <1>5, <1>14, FirstTable, FirstStacks, SchedulerFacts DEF StacksOwned
<1>16. EntriesOwed /\ EntriesOnce
  BY <1>1, EmptySeq, SchedulerFacts DEF EntriesOwed, EntriesOnce
<1>17. CountMatches
  <2>1. Cardinality({0}) = 1 /\ IsFiniteSet({0})
    BY FS_Singleton
  <2>2. Cardinality({0} \cup {ReaperSlot}) = 2
    <3>1. ReaperSlot \notin {0}
      BY SchedulerFacts
    <3>2. Cardinality({0} \cup {ReaperSlot}) = Cardinality({0}) + 1
      BY <2>1, <3>1, FS_AddElement
    <3> QED BY <2>1, <3>2
  <2>3. {0} \cup {ReaperSlot} = {0, ReaperSlot}
    OBVIOUS
  <2> QED BY <1>1, <1>5, <2>2, <2>3 DEF CountMatches
<1>18. FlagMeansNoWork /\ JoinedFree
  BY <1>1, <1>4 DEF FlagMeansNoWork, JoinedFree, At
<1>19. IdsLeft
  <2>1. Cardinality(Creating) = 0
    BY <1>14, FS_EmptySet
  <2> QED BY <1>1, <2>1, SchedulerFacts DEF IdsLeft
<1> QED BY <1>6, <1>8, <1>9, <1>10, <1>11, <1>12, <1>13, <1>15, <1>16, <1>17, <1>18, <1>19 DEF IInv

-----------------------------------------------------------------------------
(* Every step keeps the invariant.  Only init's return is left out: it     *)
(* would resume the boot thread with CURRENT_INDEX 0, in init's slot.      *)
LEMMA StutterKeeps ==
  ASSUME IInv, UNCHANGED vars
  PROVE  IInv'
BY DEF IInv, vars, TypeOK, Sound, Numbered, RunningIsCurrent, ContextOwnership, Executing,
       HandsMatch, StacksOwned, Freed, Creating, EntriesOwed, EntriesOnce, Owed, NoEntry,
       CountMatches, FlagMeansNoWork, JoinedFree, At, IdsLeft

LEMMA NextKeeps ==
  ASSUME ~ InitReturns, IInv, [Next]_vars
  PROVE  IInv'
<1>1. CASE Yield
  BY <1>1, PreemptKeeps DEF Yield
<1>2. CASE CallSchedule
  BY <1>2, CallScheduleKeeps
<1>3. CASE JoinReturn
  BY <1>3, JoinReturnKeeps
<1>4. CASE Exit
  BY <1>4, ExitKeeps
<1>5. CASE CreateAlloc
  BY <1>5, CreateAllocKeeps
<1>6. CASE CreatePlace
  BY <1>6, CreatePlaceKeeps
<1>7. CASE ReapDequeue
  BY <1>7, ReapDequeueKeeps
<1>8. CASE ReapFreeStack
  BY <1>8, ReapFreeStackKeeps
<1>9. CASE ReapClearSlot
  BY <1>9, ReapClearSlotKeeps
<1>10. CASE ReaperStep
  BY <1>10, ReaperKeeps
<1>11. ASSUME NEW c \in Chans, BlockOn(c) PROVE IInv'
  BY <1>11, BlockOnKeeps
<1>12. ASSUME NEW c \in Chans, WakeChannel(c) PROVE IInv'
  BY <1>12, WakeChannelKeeps
<1>13. ASSUME NEW id \in 1 .. nextId - 1, Join(id) PROVE IInv'
  <2>1. id \in Nat
    OBVIOUS
  <2> QED BY <1>13, <2>1, JoinKeeps
<1>14. CASE Preempt
  BY <1>14, PreemptKeeps DEF Preempt
<1>15. ASSUME NEW s \in Slots, WatchdogKill(s) PROVE IInv'
  BY <1>15, WatchdogKeeps
<1>16. CASE UNCHANGED vars
  BY <1>16, StutterKeeps
<1> QED BY <1>1, <1>2, <1>3, <1>4, <1>5, <1>6, <1>7, <1>8, <1>9, <1>10, <1>11, <1>12, <1>13,
           <1>14, <1>15, <1>16
    DEF Next, ThreadStep

(* What the invariant says of the stacks that are in use.                  *)
LEMMA OwnersDiffer ==
  ASSUME IInv
  PROVE  StacksExclusive
<1>1. \A s \in Live(tasks) : s \in Occupied(tasks) /\ ~ Freed(s)
  <2>1. ASSUME NEW t \in Threads, pc[t] = "clear"
        PROVE  hand[t].slot \notin Live(tasks)
    BY <2>1 DEF IInv, HandsMatch, InReaping, EntriesOwed, Owed, Live
  <2> QED BY <2>1, LiveIsOccupied DEF Freed
<1>2. \A o \in StackOwners : \/ \E s \in Live(tasks) : o = <<"slot", s>>
                             \/ \E t \in Creating : o = <<"create", t>>
  BY DEF StackOwners
<1>3. \A s : StackOf(<<"slot", s>>) = tasks[s].stack
  BY DEF StackOf
<1>4. \A t : StackOf(<<"create", t>>) = held[t]
  BY DEF StackOf
<1>5. ASSUME NEW o \in StackOwners PROVE StackOf(o) \in inUse
  BY <1>1, <1>2, <1>3, <1>4 DEF IInv, StacksOwned
<1>6. ASSUME NEW o \in StackOwners, NEW p \in StackOwners, StackOf(o) = StackOf(p)
      PROVE  o = p
  <2>1. CASE \E s \in Live(tasks) : o = <<"slot", s>>
    <3>1. PICK s \in Live(tasks) : o = <<"slot", s>>
      BY <2>1
    <3>2. CASE \E r \in Live(tasks) : p = <<"slot", r>>
      BY <1>1, <1>3, <1>6, <3>1, <3>2 DEF IInv, StacksOwned
    <3>3. CASE \E t \in Creating : p = <<"create", t>>
      BY <1>1, <1>3, <1>4, <1>6, <3>1, <3>3 DEF IInv, StacksOwned
    <3> QED BY <1>2, <3>2, <3>3
  <2>2. CASE \E t \in Creating : o = <<"create", t>>
    <3>1. PICK t \in Creating : o = <<"create", t>>
      BY <2>2
    <3>2. CASE \E r \in Live(tasks) : p = <<"slot", r>>
      BY <1>1, <1>3, <1>4, <1>6, <3>1, <3>2 DEF IInv, StacksOwned
    <3>3. CASE \E u \in Creating : p = <<"create", u>>
      BY <1>4, <1>6, <3>1, <3>3 DEF IInv, StacksOwned
    <3> QED BY <1>2, <3>2, <3>3
  <2> QED BY <1>2, <2>1, <2>2
<1> QED BY <1>5, <1>6 DEF StacksExclusive

(* No slot is twice in the reap queue.                                     *)
LEMMA QueuedOnce ==
  ASSUME IInv
  PROVE  Cardinality(QueuedSlots) = Len(rq)
<1>1. rq \in Seq(Entries) /\ Len(rq) \in Nat /\ DOMAIN rq = 1 .. Len(rq)
  BY LenProperties DEF IInv, TypeOK
<1> DEFINE f == [i \in 1 .. Len(rq) |-> rq[i].slot]
<1>2. f \in Injection(1 .. Len(rq), QueuedSlots) /\ f \in Surjection(1 .. Len(rq), QueuedSlots)
  <2>1. f \in [1 .. Len(rq) -> QueuedSlots]
    BY <1>1 DEF QueuedSlots
  <2>2. \A i, j \in 1 .. Len(rq) : f[i] = f[j] => i = j
    BY <1>1 DEF IInv, EntriesOnce
  <2>3. \A x \in QueuedSlots : \E i \in 1 .. Len(rq) : f[i] = x
    BY <1>1 DEF QueuedSlots
  <2> HIDE DEF f
  <2> QED BY <2>1, <2>2, <2>3 DEF Injection, IsInjective, Surjection
<1>3. IsFiniteSet(1 .. Len(rq)) /\ Cardinality(1 .. Len(rq)) = Len(rq)
  BY <1>1, FS_Interval
<1> HIDE DEF f
<1> QED BY <1>2, <1>3, FS_Surjection

(* An entry is at one place only, and its slot is dead and off the CPU.    *)
LEMMA EntriesExactlyOnce ==
  ASSUME IInv
  PROVE  ReapExactlyOnce
<1>1. \A s \in PendSlots \cup QueuedSlots \cup HandedSlots :
        tasks[s].st = "Dead" /\ s # current
  BY DEF IInv, EntriesOwed, Owed, PendSlots, QueuedSlots, HandedSlots
<1>2. PendSlots \cap (QueuedSlots \cup HandedSlots) = {}
  BY DEF IInv, EntriesOnce, PendSlots, QueuedSlots, HandedSlots
<1>3. QueuedSlots \cap HandedSlots = {}
  BY DEF IInv, EntriesOnce, QueuedSlots, HandedSlots
<1>4. \A t, u \in Threads : hand[t] # NoEntry /\ hand[t].slot = hand[u].slot => t = u
  BY DEF IInv, EntriesOnce
<1> QED BY <1>1, <1>2, <1>3, <1>4, QueuedOnce DEF ReapExactlyOnce

(* A task that waits in a join is counted on to be woken: its target lives, *)
(* and nobody alive has the id 0 that a join leaves when it has returned.  *)
LEMMA JoinsWait ==
  ASSUME IInv
  PROVE  JoinWaitsForDeath
<1>1. \A s \in Slots : tasks[s].st = "Blocked" /\ tasks[s].joining # 0
                         => Alive(tasks, tasks[s].joining)
  BY DEF IInv, Sound
<1>2. ~ Alive(tasks, 0)
  <2>1. \A s \in Live(tasks) : tasks[s].id # 0
    BY ExecutingFacts, LiveIsOccupied, SchedulerFacts
  <2> QED BY <2>1 DEF Alive
<1>3. At("joined") => ~ Alive(tasks, tasks[current].joining)
  BY <1>2 DEF IInv, JoinedFree
<1> QED BY <1>1, <1>3 DEF JoinWaitsForDeath

(* A dead slot changes only by being emptied, and what executes after a    *)
(* step has not exited.                                                    *)
LEMMA DeadStayDead ==
  ASSUME ~ InitReturns, IInv, Next
  PROVE  /\ \A s \in Slots : tasks[s].st = "Dead" => tasks'[s] \in {EmptySlot, tasks[s]}
         /\ pc'[thr'] # "gone"
<1> DEFINE Kept == \A s \in Slots : tasks[s].st = "Dead" => tasks'[s] \in {EmptySlot, tasks[s]}
<1>1. pc'[thr'] # "gone"
  BY NextKeeps DEF IInv, Executing
<1> SUFFICES Kept
  BY <1>1
<1>2. Same(tasks, tasks') => Kept
  BY DEF Same
<1>3. CASE CreatePlace
  <2>1. \/ tasks' = tasks
        \/ LET s == Min(Slots \ Occupied(tasks))
           IN  /\ Slots \ Occupied(tasks) # {}
               /\ tasks' = [tasks EXCEPT ![s] = NewTask(nextId, held[thr], 0)]
    BY <1>3 DEF CreatePlace
  <2>2. CASE tasks' = tasks
    BY <2>2
  <2>3. CASE tasks' # tasks
    <3>1. PICK s : s = Min(Slots \ Occupied(tasks))
      OBVIOUS
    <3>2. s \in Slots \ Occupied(tasks)
      BY <2>1, <2>3, <3>1, SchedulerFacts, MinIsLeast
    <3>3. tasks' = [tasks EXCEPT ![s] = NewTask(nextId, held[thr], 0)]
      BY <2>1, <2>3, <3>1
    <3>4. \A r \in Slots : tasks[r].st = "Dead" => r # s
      BY <3>2 DEF Occupied
    <3> QED BY <3>3, <3>4, TypedState DEF Tables
  <2> QED BY <2>2, <2>3
<1>4. CASE ReapClearSlot
  <2>1. tasks' = ClearSlot(tasks, hand[thr].slot)
    BY <1>4 DEF ReapClearSlot
  <2>2. PICK s : s = hand[thr].slot
    OBVIOUS
  <2>3. tasks' = [tasks EXCEPT ![s] = EmptySlot] \/ tasks' = tasks
    BY <2>1, <2>2 DEF ClearSlot
  <2> QED BY <2>3, TypedState DEF Tables
<1>5. ASSUME NEW id \in 1 .. nextId - 1, Join(id) PROVE Same(tasks, tasks')
  <2>1. id \in Nat
    OBVIOUS
  <2> QED BY <1>5, <2>1, JoinKeeps
<1>6. CASE Yield \/ Preempt \/ CallSchedule \/ JoinReturn \/ Exit
  BY <1>6, PreemptKeeps, CallScheduleKeeps, JoinReturnKeeps, ExitKeeps, <1>2 DEF Yield, Preempt
<1>7. CASE CreateAlloc \/ ReapDequeue \/ ReapFreeStack \/ ReaperStep
  BY <1>7, CreateAllocKeeps, ReapDequeueKeeps, ReapFreeStackKeeps, ReaperKeeps, <1>2
<1>8. CASE \/ \E c \in Chans : BlockOn(c) \/ WakeChannel(c)
           \/ \E s \in Slots : WatchdogKill(s)
  BY <1>8, BlockOnKeeps, WakeChannelKeeps, WatchdogKeeps, <1>2
<1> QED BY <1>2, <1>3, <1>4, <1>5, <1>6, <1>7, <1>8 DEF Next, ThreadStep

-----------------------------------------------------------------------------
(* The theorems.  They hold as long as init does not return, which it does *)
(* only when the display task could not be spawned.                        *)
LEMMA InvariantHolds == ASSUME ~ InitReturns PROVE Spec => []IInv
<1>1. Init => IInv
  BY InitIInv
<1>2. IInv /\ [Next]_vars => IInv'
  BY NextKeeps
<1> QED BY <1>1, <1>2, PTL DEF Spec

(* Every variable keeps its type, the count and the queues their bounds.   *)
THEOREM SchedulerTypeCorrect == ASSUME ~ InitReturns PROVE Spec => []TypeOK
<1>1. IInv => TypeOK
  BY DEF IInv
<1> QED BY <1>1, InvariantHolds, PTL

(* At every point where an interrupt can come in, one task runs, on its    *)
(* own stack, and every other live task can be resumed where it left off   *)
(* (schedule, preempt, switch_to).                                         *)
THEOREM CpuAndTableAgree == ASSUME ~ InitReturns PROVE Spec => []CpuAgrees
<1>1. IInv => CpuAgrees
  BY DEF IInv, CpuAgrees
<1> QED BY <1>1, InvariantHolds, PTL

(* No kernel stack is ever shared, across exits, deferred frees and reuse  *)
(* of slots (alloc_stack, free_stack).                                     *)
THEOREM StacksNeverShared == ASSUME ~ InitReturns PROVE Spec => []StacksExclusive
<1>1. IInv => StacksExclusive
  BY OwnersDiffer
<1> QED BY <1>1, InvariantHolds, PTL

(* The way of a dead task to the clearing of its slot is taken at most     *)
(* once and counted once, and the reaper's flag is only up while there is  *)
(* nothing to reap (process_pending_reap, reap_pending, queue_for_reap).   *)
THEOREM TeardownIsSound == ASSUME ~ InitReturns PROVE Spec => []TeardownSound
<1>1. IInv => TeardownSound
  BY EntriesExactlyOnce DEF TeardownSound, IInv
<1> QED BY <1>1, InvariantHolds, PTL

(* Who waits in a join waits for a live task, and is back only when it has *)
(* died (sys_thread_join, block_for_join_if_target_alive, mark_dead).      *)
THEOREM JoinsWaitForDeath == ASSUME ~ InitReturns PROVE Spec => []JoinWaitsForDeath
<1>1. IInv => JoinWaitsForDeath
  BY JoinsWait
<1> QED BY <1>1, InvariantHolds, PTL

(* Nothing that has died runs again: its slot can only be cleared, and a   *)
(* thread that has exited is never resumed (mark_dead, clear_dead_slot).   *)
THEOREM DeathHoldsForEver == ASSUME ~ InitReturns PROVE Spec => DeathIsFinal
<1> DEFINE A == /\ \A s \in Slots : tasks[s].st = "Dead" => tasks'[s] \in {EmptySlot, tasks[s]}
                /\ pc'[thr'] # "gone"
<1>1. IInv /\ [Next]_vars => [A]_vars
  BY DeadStayDead
<1>2. DeathIsFinal <=> [][A]_vars
  BY DEF DeathIsFinal
<1> HIDE DEF A
<1> QED BY <1>1, <1>2, InvariantHolds, PTL DEF Spec
=============================================================================
