------------------------------ MODULE Blocking ------------------------------
(***************************************************************************)
(* How threads block and are woken: timed sleeps (sleep_for_ticks and      *)
(* tick_advance of kernel/src/sched/mod.rs), the blocking channel receive  *)
(* (sys_channel_recv), the send that wakes it (send_and_wake) and direct   *)
(* wake-ups (wake_desktop_task), on one CPU before the per-CPU run queues  *)
(* are active.                                                             *)
(*                                                                         *)
(* The threads are the slots of the task table; slot 0 is the init task,   *)
(* which never blocks.  irq is each thread's interrupt flag.  A system     *)
(* call is entered with interrupts off (IA32_FMASK), a kernel task runs    *)
(* with them on, and schedule() returns with them on to either.  A step is *)
(* the code between two points at which an interrupt matters; interrupts   *)
(* come only while the executing thread has its flag set.                  *)
(*                                                                         *)
(* Time is relative: an entry of a sleep table holds the ticks left until  *)
(* its wake_tick, and so does the sleeper's own copy of the deadline.      *)
(***************************************************************************)
EXTENDS TaskTable, FiniteSetsExt

CONSTANTS
  Sleep,      \* SLEEP_CHANNEL_SENTINEL
  Users,      \* slots of user tasks; the others are kernel tasks
  Urgent,     \* slots of priority 3 (display, compositor); the others have 0
  Sleepers,   \* slots whose code sleeps
  Receivers,  \* slots whose code receives
  Senders,    \* slots whose code sends
  IrqChans,   \* channels a timer interrupt sends to (the frame clock)
  Display,    \* the slot woken directly on input, or NoSlot
  QueueCap,   \* MAX_MSG_SLOTS
  SleepCap,   \* TIMED_SLEEP_CAPACITY
  OvfCap,     \* SLEEP_OVERFLOW_CAP
  MaxSleep    \* bound of the model: the longest sleep

ASSUME BlockingAssumption ==
  /\ Sleep \in Chans
  /\ Users \cup Urgent \cup Sleepers \cup Receivers \subseteq Slots \ {0}
  /\ Senders \subseteq Slots
  /\ IrqChans \subseteq Chans \ {Sleep}
  /\ Display \in (Slots \ {0}) \cup {NoSlot}
  /\ {QueueCap, SleepCap, OvfCap, MaxSleep} \subseteq Nat \ {0}

Channels == Chans \ {Sleep}

VARIABLES
  tasks,    \* the task table
  current,  \* CURRENT_INDEX: the executing thread
  pc,       \* where each thread is
  irq,      \* each thread's interrupt flag
  arg,      \* the channel of the call a thread is in
  left,     \* ticks until the wake_tick a sleeping thread has computed
  main,     \* TIMED_SLEEP_TABLE
  ovf,      \* SLEEP_OVERFLOW
  queue     \* the number of messages in each channel

vars == <<tasks, current, pc, irq, arg, left, main, ovf, queue>>

PCs == {"run",
        "insert", "slblock", "slsched", "slept",   \* sleep_for_ticks
        "recv", "rblock", "rsched", "rtok",        \* sys_channel_recv
        "wake"}                                    \* send_and_wake, after the send

NoSleep == [slot |-> NoSlot, left |-> 0]    \* not valid
SleepEntries == [slot : Slots, left : 1 .. MaxSleep]

-----------------------------------------------------------------------------
At(p) == pc[current] = p
Goto(p) == [pc EXCEPT ![current] = p]

(* A call returns to user mode, or to kernel task code: interrupts are on. *)
Return == pc' = Goto("run") /\ irq' = [irq EXCEPT ![current] = TRUE]

(* A call begins: a system call turns interrupts off.                      *)
Enter(p) == pc' = Goto(p) /\ irq' = [irq EXCEPT ![current] = current \notin Users]

SameSleeps == UNCHANGED <<left, main, ovf>>

(* The body of schedule() and preempt(), on table T.                       *)
Dispatch(T) ==
  LET n == FindNextReady(T, current)
  IN  IF n \in {NoSlot, current}
      THEN tasks' = T /\ UNCHANGED current
      ELSE tasks' = MarkRunning(MarkReady(T, current), n) /\ current' = n

Schedule(next) ==
  /\ Dispatch(tasks)
  /\ pc' = Goto(next)
  /\ irq' = [irq EXCEPT ![current] = TRUE]
  /\ UNCHANGED <<arg, queue>> /\ SameSleeps

Yield == At("run") /\ Schedule("run")

-----------------------------------------------------------------------------
(* sleep_for_ticks: compute the deadline, take a slot of the table or of   *)
(* the overflow, block, and call schedule().  With both full the thread    *)
(* only yields.                                                            *)
StartSleep(n) ==
  /\ current \in Sleepers /\ At("run")
  /\ left' = [left EXCEPT ![current] = n]
  /\ Enter("insert")
  /\ UNCHANGED <<tasks, current, arg, queue, main, ovf>>

FreeEntries(tbl) == {i \in DOMAIN tbl : tbl[i] = NoSleep}
Put(tbl, n) == [tbl EXCEPT ![Min(FreeEntries(tbl))] = [slot |-> current, left |-> n]]
MutNoSpill(n) ==    \* faulty: a full table loses the sleep but still blocks
  /\ UNCHANGED ovf
  /\ IF FreeEntries(main) # {} THEN main' = Put(main, n) ELSE UNCHANGED main
  /\ pc' = Goto("slblock")
TakeEntry(n) ==
  \/ /\ FreeEntries(main) # {}
     /\ main' = Put(main, n)
     /\ UNCHANGED ovf
     /\ pc' = Goto("slblock")
  \/ /\ FreeEntries(main) = {} /\ FreeEntries(ovf) # {}
     /\ ovf' = Put(ovf, n)
     /\ UNCHANGED main
     /\ pc' = Goto("slblock")
  \/ /\ FreeEntries(main) = {} /\ FreeEntries(ovf) = {}
     /\ pc' = Goto("slsched")
     /\ UNCHANGED <<main, ovf>>

(* A deadline that has passed before the insertion is due at the next tick. *)
InsertSleep ==
  /\ At("insert")
  /\ TakeEntry(Max({left[current], 1}))
  /\ UNCHANGED <<tasks, current, irq, arg, left, queue>>

BlockSleep ==
  /\ At("slblock")
  /\ tasks' = MarkBlocked(tasks, current, Sleep)
  /\ pc' = Goto(IF CanBlock(tasks, current) THEN "slsched" ELSE "slept")
  /\ UNCHANGED <<current, irq, arg, queue>> /\ SameSleeps

ScheduleSleep == At("slsched") /\ Schedule("slept")

EndSleep ==
  /\ At("slept")
  /\ Return
  /\ UNCHANGED <<tasks, current, arg, queue>> /\ SameSleeps

-----------------------------------------------------------------------------
(* sys_channel_recv without NONBLOCK: try, block, schedule, and go round   *)
(* again unless the wake-up was a direct one.                              *)
StartRecv(c) ==
  /\ current \in Receivers /\ At("run")
  /\ arg' = [arg EXCEPT ![current] = c]
  /\ Enter("recv")
  /\ UNCHANGED <<tasks, current, queue>> /\ SameSleeps

TryRecv ==
  /\ At("recv")
  /\ IF queue[arg[current]] > 0
     THEN /\ queue' = [queue EXCEPT ![arg[current]] = @ - 1]
          /\ Return
     ELSE /\ pc' = Goto("rblock")
          /\ UNCHANGED <<queue, irq>>
  /\ UNCHANGED <<tasks, current, arg>> /\ SameSleeps

BlockRecv ==
  /\ At("rblock")
  /\ tasks' = MarkBlocked(tasks, current, arg[current])
  /\ IF CanBlock(tasks, current) THEN pc' = Goto("rsched") /\ UNCHANGED irq ELSE Return
  /\ UNCHANGED <<current, arg, queue>> /\ SameSleeps

ScheduleRecv == At("rsched") /\ Schedule("rtok")

EndRecv ==
  /\ At("rtok")
  /\ IF tasks[current].token
     THEN tasks' = TakeToken(tasks, current) /\ Return
     ELSE pc' = Goto("recv") /\ UNCHANGED <<tasks, irq>>
  /\ UNCHANGED <<current, arg, queue>> /\ SameSleeps

-----------------------------------------------------------------------------
(* send_and_wake: a full channel refuses the message; otherwise the waking *)
(* of the receivers is a second step.                                      *)
MutSendUnbounded(c) ==    \* faulty: no capacity test
  /\ current \in Senders /\ At("run")
  /\ queue' = [queue EXCEPT ![c] = @ + 1]
  /\ arg' = [arg EXCEPT ![current] = c]
  /\ Enter("wake")
  /\ UNCHANGED <<tasks, current>> /\ SameSleeps
Send(c) ==
  /\ current \in Senders /\ At("run")
  /\ queue[c] < QueueCap
  /\ queue' = [queue EXCEPT ![c] = @ + 1]
  /\ arg' = [arg EXCEPT ![current] = c]
  /\ Enter("wake")
  /\ UNCHANGED <<tasks, current>> /\ SameSleeps

MutWakeNobody ==    \* faulty: send without wake_blocked_on
  /\ At("wake")
  /\ Return
  /\ UNCHANGED <<tasks, current, arg, queue>> /\ SameSleeps
Wake ==
  /\ At("wake")
  /\ tasks' = WakeBlockedOn(tasks, arg[current])
  /\ Return
  /\ UNCHANGED <<current, arg, queue>> /\ SameSleeps

-----------------------------------------------------------------------------
(* Interrupts.                                                             *)

(* tick_advance: one tick off every deadline; an entry that is due leaves  *)
(* its table and its task is woken directly, whatever it is blocked on.    *)
Due(tbl) == {tbl[i].slot : i \in {j \in DOMAIN tbl : tbl[j] # NoSleep /\ tbl[j].left = 1}}
MutAdvanceKeeps(tbl) ==    \* faulty: a due entry stays valid
  [i \in DOMAIN tbl |-> IF tbl[i].left <= 1 THEN tbl[i] ELSE [tbl[i] EXCEPT !.left = @ - 1]]
Advance(tbl) ==
  [i \in DOMAIN tbl |-> IF tbl[i].left <= 1 THEN NoSleep
                        ELSE [tbl[i] EXCEPT !.left = @ - 1]]
WakeAll(T, S) == [s \in Slots |-> IF s \in S THEN WakeTask(T, s)[s] ELSE T[s]]

(* The timer interrupt; sliceEnds when the quantum is used up.             *)
Tick(sliceEnds) ==
  /\ irq[current]
  /\ main' = Advance(main)
  /\ ovf' = Advance(ovf)
  /\ left' = [s \in Slots |-> Max({left[s] - 1, 0})]
  /\ LET T == WakeAll(tasks, Due(main) \cup Due(ovf))
     IN  IF sliceEnds THEN Dispatch(T) ELSE tasks' = T /\ UNCHANGED current
  /\ UNCHANGED <<pc, irq, arg, queue>>

(* The frame clock sends from the timer interrupt.                         *)
FrameTick(c) ==
  /\ irq[current]
  /\ queue[c] < QueueCap
  /\ queue' = [queue EXCEPT ![c] = @ + 1]
  /\ tasks' = WakeBlockedOn(tasks, c)
  /\ UNCHANGED <<current, pc, irq, arg>> /\ SameSleeps

(* wake_desktop_task from an input interrupt.                              *)
WakeDisplay ==
  /\ irq[current] /\ Display \in Slots
  /\ tasks' = WakeTask(tasks, Display)
  /\ UNCHANGED <<current, pc, irq, arg, queue>> /\ SameSleeps

-----------------------------------------------------------------------------
Init ==
  /\ tasks = [s \in Slots |->
                [NewTask(s + 1, 0, IF s \in Urgent THEN 3 ELSE 0) EXCEPT
                   !.st = IF s = 0 THEN "Running" ELSE "Ready"]]
  /\ current = 0
  /\ pc = [s \in Slots |-> "run"]
  /\ irq = [s \in Slots |-> TRUE]
  /\ arg = [s \in Slots |-> Nil]
  /\ left = [s \in Slots |-> 0]
  /\ main = [i \in 1 .. SleepCap |-> NoSleep]
  /\ ovf = [i \in 1 .. OvfCap |-> NoSleep]
  /\ queue = [c \in Channels |-> 0]

(* What follows once a call has begun.                                     *)
Continue == InsertSleep \/ BlockSleep \/ ScheduleSleep \/ EndSleep
            \/ TryRecv \/ BlockRecv \/ ScheduleRecv \/ EndRecv \/ Wake

Interrupt == Tick(TRUE) \/ Tick(FALSE) \/ WakeDisplay \/ \E c \in IrqChans : FrameTick(c)

Next ==
  \/ Yield \/ Continue \/ Interrupt
  \/ \E n \in 1 .. MaxSleep : StartSleep(n)
  \/ \E c \in Channels : StartRecv(c) \/ Send(c)

Spec == Init /\ [][Next]_vars

(* The timer interrupt, which stays pending while interrupts are off, ends *)
(* time slices for ever; a thread that is dispatched over and over has a   *)
(* whole quantum each time (reset_quantum), so a call that has begun goes  *)
(* on.  A thread in its own code may stay there for ever.                  *)
FairSpec ==
  /\ Spec
  /\ SF_vars(Tick(TRUE))
  /\ \A s \in Slots : SF_vars(current = s /\ Continue)

-----------------------------------------------------------------------------
(* Properties.                                                             *)

(* Every variable has its type; no channel and no sleep table overflows.   *)
TypeOK ==
  /\ tasks \in [Slots -> Task]
  /\ current \in Slots
  /\ pc \in [Slots -> PCs]
  /\ irq \in [Slots -> BOOLEAN]
  /\ arg \in [Slots -> Channels \cup {Nil}]
  /\ left \in [Slots -> 0 .. MaxSleep]
  /\ main \in [1 .. SleepCap -> SleepEntries \cup {NoSleep}]
  /\ ovf \in [1 .. OvfCap -> SleepEntries \cup {NoSleep}]
  /\ queue \in [Channels -> 0 .. QueueCap]

(* "so overflowed sleeps still wake correctly": a task blocked in a sleep  *)
(* has an entry in one of the tables, so a tick will wake it               *)
(* (sleep_for_ticks against tick_advance).                                 *)
Asleep == {s \in Slots : tasks[s].st = "Blocked" /\ tasks[s].wait = Sleep}
EntriesOf(s) == {<<"main", i>> : i \in {j \in DOMAIN main : main[j].slot = s}}
           \cup {<<"ovf", i>> : i \in {j \in DOMAIN ovf : ovf[j].slot = s}}
SleepersHaveSlot == \A s \in Asleep : EntriesOf(s) # {}

(* A sleep entry belongs to a task that is still in that sleep: none is    *)
(* left behind to wake the task out of a later, unrelated wait             *)
(* (wake_task wakes it "regardless of what it's waiting on").              *)
NoStaleSleepEntry ==
  \A s \in Slots : EntriesOf(s) # {} =>
    /\ Cardinality(EntriesOf(s)) = 1
    /\ pc[s] \in {"slblock", "slsched", "slept"}

(* "Put the current task to sleep for at least `n` ticks": sleep_for_ticks *)
(* returns only when its deadline has passed.                              *)
SleepAtLeast == At("slept") => left[current] = 0

(* The sleep tables say what is true of the sleepers: no entry outlives its *)
(* sleep and no sleep ends before its entry (sleep_for_ticks, tick_advance). *)
SleepEntriesTrue == NoStaleSleepEntry /\ SleepAtLeast

(* send_and_wake "moves it to Ready": a task is not left blocked on a      *)
(* channel that has a message in it, unless its sender is about to wake it. *)
WaitersFor(c) == {s \in Slots : tasks[s].st = "Blocked" /\ tasks[s].wait = c}
NoLostMessageWakeup ==
  \A c \in Channels : queue[c] > 0 /\ WaitersFor(c) # {}
                        => \E s \in Slots : pc[s] = "wake" /\ arg[s] = c

(* A blocking receive ends only with a message: it neither finds a wake    *)
(* token left by an earlier sleep or by a direct wake-up nor fails to      *)
(* block (mark_blocked, take_wake_without_ipc).                            *)
RecvNeverSpurious ==
  /\ At("rblock") => CanBlock(tasks, current)
  /\ \A s \in Slots : pc[s] = "rtok" => ~ tasks[s].token

(* "Running: currently executing on a CPU", which sleep_for_ticks and      *)
(* mark_blocked rely on: the executing thread is Running unless it has     *)
(* just marked itself Blocked and interrupts may since have woken it.      *)
ExecutingIsRunning ==
  \/ tasks[current].st = "Running"
  \/ At("slsched") \/ At("rsched")

(* Every sleep ends: the tables are never left with nobody to serve them.  *)
SleepEnds == \A s \in Sleepers : pc[s] = "insert" ~> pc[s] = "run"

(* A message that is sent is received or at least wakes its receivers: a   *)
(* receiver does not stay blocked on a channel with messages in it.        *)
MessageWakes ==
  \A c \in Channels : \A s \in Receivers :
    queue[c] > 0 /\ s \in WaitersFor(c) ~> s \notin WaitersFor(c)
=============================================================================
