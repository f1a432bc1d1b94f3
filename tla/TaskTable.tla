----------------------------- MODULE TaskTable -----------------------------
(***************************************************************************)
(* The kernel's task table (kernel/src/task/table.rs), as operators on its *)
(* value.  Every function of table.rs takes the TABLE lock for its whole   *)
(* body, so each one is an atomic function of the table: the modules that  *)
(* EXTEND this one compose these operators into the steps of the scheduler *)
(* and of the blocking paths.                                              *)
(*                                                                         *)
(* A table is a function from slot indices to task records; an unoccupied  *)
(* slot (None in the code) holds EmptySlot, whose id and stack are the 0   *)
(* that task_id_at and stack_base_at return for it.                        *)
(***************************************************************************)
EXTENDS Integers, FiniteSets, Sequences

CONSTANTS
  NSlots,   \* MAX_TASKS: the number of slots of the task table
  Stacks,   \* the stack bases of the kernel stack pool, a set of positive integers
  Chans,    \* what a task may wait for: channel uuids and the sleep sentinel
  Nil       \* the nil uuid: waiting for nothing in particular

ASSUME TableAssumption ==
  /\ NSlots \in Nat \ {0}
  /\ Stacks \subseteq Nat \ {0}
  /\ Nil \notin Chans

Slots == 0 .. NSlots - 1
NoSlot == NSlots    \* None where the code returns an Option<usize> index

TaskStates == {"Empty", "Ready", "Running", "Blocked", "Dead"}

(* The fields of Task (tcb.rs) that scheduling reads or writes: token is   *)
(* pending_wake_without_ipc, joining is joining_on.                        *)
Task == [st      : TaskStates,
         id      : Nat,
         stack   : Stacks \cup {0},
         prio    : 0 .. 255,    \* u8
         wait    : Chans \cup {Nil},
         token   : BOOLEAN,
         joining : Nat]

EmptySlot == [st |-> "Empty", id |-> 0, stack |-> 0, prio |-> 0,
              wait |-> Nil, token |-> FALSE, joining |-> 0]

(* What the create functions store: a Ready task that waits for nothing.   *)
NewTask(id, stack, prio) ==
  [EmptySlot EXCEPT !.st = "Ready", !.id = id, !.stack = stack, !.prio = prio]

Occupied(T) == {s \in Slots : T[s].st # "Empty"}
Live(T) == {s \in Slots : T[s].st \notin {"Empty", "Dead"}}
ReadySet(T) == {s \in Slots : T[s].st = "Ready"}

(* join's liveness test: some slot holds the id and is not Dead.           *)
Alive(T, id) == \E s \in Live(T) : T[s].id = id

-----------------------------------------------------------------------------
(* find_next_ready: the highest priority among the Ready tasks, and of     *)
(* those the first in index order starting just after `after` (which       *)
(* therefore comes last).                                                  *)
TopReady(T) == {s \in ReadySet(T) : \A r \in ReadySet(T) : T[r].prio <= T[s].prio}
MutScanFromStart(after, s) == s    \* faulty: always scans from slot 0
ScanDistance(after, s) == IF s > after THEN s - after ELSE s - after + NSlots
FindNextReady(T, after) ==
  IF ReadySet(T) = {} THEN NoSlot
  ELSE CHOOSE s \in TopReady(T) :
         \A r \in TopReady(T) : ScanDistance(after, s) <= ScanDistance(after, r)

-----------------------------------------------------------------------------
(* The state changes.  Each is a no-op unless the slot is in the state the *)
(* function tests for; the ones whose result the caller uses come with the *)
(* condition under which they return true.                                 *)
MarkRunning(T, s) ==
  IF T[s].st = "Ready" THEN [T EXCEPT ![s] = [@ EXCEPT !.st = "Running"]] ELSE T

MutMarkReadyAny(T, s) ==    \* faulty: does not test for Running
  [T EXCEPT ![s] = [@ EXCEPT !.st = "Ready"]]
MarkReady(T, s) ==
  IF T[s].st = "Running" THEN [T EXCEPT ![s] = [@ EXCEPT !.st = "Ready"]] ELSE T

CanBlock(T, s) == T[s].st = "Running"
MarkBlocked(T, s, c) ==
  IF CanBlock(T, s)
  THEN [T EXCEPT ![s] = [@ EXCEPT !.st = "Blocked", !.wait = c, !.token = FALSE]]
  ELSE T

WakeTask(T, s) ==
  IF T[s].st = "Blocked"
  THEN [T EXCEPT ![s] = [@ EXCEPT !.st = "Ready", !.wait = Nil, !.token = TRUE]]
  ELSE T

WaitersOn(T, c) == {s \in Slots : T[s].st = "Blocked" /\ T[s].wait = c}
MutWakeBlockedOnToken(T, c) ==    \* faulty: leaves the token of a direct wake-up
  [s \in Slots |-> IF s \in WaitersOn(T, c)
                   THEN [T[s] EXCEPT !.st = "Ready", !.wait = Nil, !.token = TRUE]
                   ELSE T[s]]
WakeBlockedOn(T, c) ==
  [s \in Slots |-> IF s \in WaitersOn(T, c)
                   THEN [T[s] EXCEPT !.st = "Ready", !.wait = Nil, !.token = FALSE]
                   ELSE T[s]]

TakeToken(T, s) == [T EXCEPT ![s] = [@ EXCEPT !.token = FALSE]]

(* block_for_join_if_target_alive: the liveness test and the transition to *)
(* Blocked are one step; wait is cleared but a wake token is not.          *)
BlockForJoin(T, s, id) ==
  IF Alive(T, id) /\ CanBlock(T, s)
  THEN [T EXCEPT ![s] = [@ EXCEPT !.st = "Blocked", !.joining = id, !.wait = Nil]]
  ELSE T

(* mark_dead: whatever state the task was in; every task blocked in a join *)
(* on it becomes Ready.                                                    *)
JoinersOf(T, id) == {s \in Slots : T[s].st = "Blocked" /\ T[s].joining = id}
MutMarkDeadAlone(T, d) ==    \* faulty: joiners are not woken
  IF T[d].st = "Empty" THEN T
  ELSE [T EXCEPT ![d] = [@ EXCEPT !.st = "Dead", !.wait = Nil, !.token = FALSE]]
MarkDead(T, d) ==
  IF T[d].st = "Empty" THEN T
  ELSE [s \in Slots |->
          IF s = d
          THEN [T[s] EXCEPT !.st = "Dead", !.wait = Nil, !.token = FALSE]
          ELSE IF s \in JoinersOf(T, T[d].id)
          THEN [T[s] EXCEPT !.st = "Ready", !.joining = 0]
          ELSE T[s]]

(* clear_dead_slot refuses a task that is not Dead, but not an empty slot. *)
Clearable(T, s) == T[s].st \in {"Dead", "Empty"}
ClearSlot(T, s) == IF Clearable(T, s) THEN [T EXCEPT ![s] = EmptySlot] ELSE T
=============================================================================
