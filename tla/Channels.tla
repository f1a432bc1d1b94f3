------------------------------ MODULE Channels ------------------------------
(***************************************************************************)
(* The IPC channel table (kernel/src/ipc/channel.rs): slots with a uuid    *)
(* and a lazily allocated ring, and the bitmap of free slots.  Every       *)
(* operation holds the table's lock with interrupts off, so each is one    *)
(* action.  out is what the operation returns to its caller.               *)
(***************************************************************************)
EXTENDS Integers, Sequences, FiniteSets, FiniteSetsExt

CONSTANTS
  NChans,     \* MAX_CHANNELS
  RingSlots,  \* MAX_MSG_SLOTS
  MaxBytes,   \* MAX_MSG_BYTES
  Payloads,   \* messages, as sequences of bytes
  Named,      \* uuids derived from service names
  Random,     \* uuids v4_random returns
  Fallback,   \* uuids from_channel_id derives from a slot's alias
  NilUuid     \* Uuid128::NIL

Index == 0 .. NChans - 1
Uuids == Named \cup Random \cup {Fallback[i] : i \in Index}

ASSUME ChannelsAssumption ==
  /\ {NChans, RingSlots, MaxBytes} \subseteq Nat \ {0}
  /\ \A m \in Payloads : m \in Seq(Nat)
  /\ <<>> \in Payloads
  /\ Fallback \in [Index -> Uuids]
  /\ \A i, j \in Index : Fallback[i] = Fallback[j] => i = j
  /\ \A i \in Index : Fallback[i] \notin Named \cup Random
  /\ Named \cap Random = {}
  /\ NilUuid \notin Uuids

VARIABLES
  chans,  \* ChannelTable.channels
  free,   \* ChannelTable.free_bitmap, as the set of its set bits
  out     \* the result of the last operation

vars == <<chans, free, out>>

Ring == [0 .. RingSlots - 1 -> Payloads]
Zeroed == [i \in 0 .. RingSlots - 1 |-> <<>>]

Channel == [active : BOOLEAN, uuid : Uuids \cup {NilUuid}, max : 0 .. MaxBytes,
            alloc : BOOLEAN,    \* ring is not null
            ring : Ring, head : 0 .. RingSlots - 1, tail : 0 .. RingSlots - 1,
            count : 0 .. RingSlots]

EmptyChannel == [active |-> FALSE, uuid |-> NilUuid, max |-> 0, alloc |-> FALSE,
                 ring |-> Zeroed, head |-> 0, tail |-> 0, count |-> 0]

-----------------------------------------------------------------------------
(* index_for_uuid_locked: the slots that match; the scan takes the first.  *)
Matches(u) == {i \in Index : chans[i].active /\ chans[i].uuid = u}
Known(u) == u # NilUuid /\ Matches(u) # {}
IndexFor(u) == Min(Matches(u))

(* The UUID of a new channel in slot i: random, or derived from the alias  *)
(* when there is no entropy.  A random uuid is never one in use.           *)
RuntimeUuids(i) == {u \in Random : Matches(u) = {}} \cup {Fallback[i]}

(* activate_slot; without memory for the ring the slot is given back, with *)
(* its payload limit and indices overwritten.                              *)
Activated(ch, u, max, memory) ==
  IF memory
  THEN [EmptyChannel EXCEPT !.active = TRUE, !.uuid = u, !.max = max, !.alloc = TRUE]
  ELSE [ch EXCEPT !.active = FALSE, !.uuid = NilUuid, !.max = max,
                  !.head = 0, !.tail = 0, !.count = 0]
Activate(i, u, max, memory) ==
  /\ chans' = [chans EXCEPT ![i] = Activated(@, u, max, memory)]
  /\ free' = IF memory THEN free \ {i} ELSE free \cup {i}
  /\ out' = IF memory THEN [op |-> "open", uuid |-> u] ELSE [op |-> "not opened"]

Fail(op) == out' = [op |-> op] /\ UNCHANGED <<chans, free>>

Create(max, memory) ==
  \/ free = {} /\ Fail("not opened")
  \/ /\ free # {}
     /\ \E u \in RuntimeUuids(Min(free)) : Activate(Min(free), u, max, memory)

MutReserveAgain(u, max, memory) ==    \* faulty: does not look for the uuid first
  \/ free = {} /\ Fail("not opened")
  \/ free # {} /\ Activate(Min(free), u, max, memory)
ReserveNamed(u, max, memory) ==
  \/ Known(u) /\ out' = [op |-> "open", uuid |-> u] /\ UNCHANGED <<chans, free>>
  \/ ~ Known(u) /\ free = {} /\ Fail("not opened")
  \/ ~ Known(u) /\ free # {} /\ Activate(Min(free), u, max, memory)

-----------------------------------------------------------------------------
(* Channel::enqueue and dequeue.                                           *)
Next1(k) == (k + 1) % RingSlots

Accepts(ch, m) == ch.alloc /\ ch.count < RingSlots /\ Len(m) <= ch.max
Enqueued(ch, m) ==
  [ch EXCEPT !.ring[ch.tail] = m, !.tail = Next1(@), !.count = @ + 1]

MutDequeuedNoWrap(ch) == [ch EXCEPT !.head = @ + 1, !.count = @ - 1]    \* faulty: no modulus
Dequeued(ch) == [ch EXCEPT !.head = Next1(@), !.count = @ - 1]
MutReceivedUnbounded(ch, size) == ch.ring[ch.head]    \* faulty: buffer length ignored
Received(ch, size) ==
  SubSeq(ch.ring[ch.head], 1, Min({size, Len(ch.ring[ch.head])}))

Send(u, m) ==
  IF Known(u) /\ Accepts(chans[IndexFor(u)], m)
  THEN /\ chans' = [chans EXCEPT ![IndexFor(u)] = Enqueued(@, m)]
       /\ out' = [op |-> "sent", uuid |-> u]
       /\ UNCHANGED free
  ELSE Fail("not sent")

Recv(u, size) ==
  IF Known(u) /\ chans[IndexFor(u)].alloc /\ chans[IndexFor(u)].count > 0
  THEN /\ chans' = [chans EXCEPT ![IndexFor(u)] = Dequeued(@)]
       /\ out' = [op |-> "received", uuid |-> u, room |-> size,
                  data |-> Received(chans[IndexFor(u)], size)]
       /\ UNCHANGED free
  ELSE Fail("not received")

(* destroy: queued messages are lost and the ring is given back.           *)
Closed(ch) ==
  [ch EXCEPT !.active = FALSE, !.uuid = NilUuid, !.alloc = FALSE, !.ring = Zeroed,
             !.head = 0, !.tail = 0, !.count = 0]
Destroy(u) ==
  IF Known(u)
  THEN /\ chans' = [chans EXCEPT ![IndexFor(u)] = Closed(@)]
       /\ free' = free \cup {IndexFor(u)}
       /\ out' = [op |-> "closed", uuid |-> u]
  ELSE Fail("not closed")

-----------------------------------------------------------------------------
Init ==
  /\ chans = [i \in Index |-> EmptyChannel]
  /\ free = Index
  /\ out = [op |-> "none"]

Next ==
  \/ \E max \in 1 .. MaxBytes, memory \in BOOLEAN :
       Create(max, memory) \/ \E u \in Named : ReserveNamed(u, max, memory)
  \/ \E u \in Uuids :
       \/ \E m \in Payloads : Send(u, m)
       \/ \E size \in 1 .. MaxBytes : Recv(u, size)
       \/ Destroy(u)

Spec == Init /\ [][Next]_vars

-----------------------------------------------------------------------------
(* Properties.                                                             *)

(* Every slot is a channel, the bitmap has bits of slots only.             *)
TypeOK == chans \in [Index -> Channel] /\ free \subseteq Index

(* free_bitmap and the slots agree, on failure paths too: a set bit is a   *)
(* slot that is inactive, and only active slots own a ring (create,        *)
(* reserve_named, activate_slot, destroy).                                 *)
BitmapMatches == \A i \in Index : (i \in free <=> ~ chans[i].active)
                               /\ (chans[i].alloc <=> chans[i].active)

(* Two active channels never have the same uuid, whatever mixture of       *)
(* service names, random uuids and alias-derived ones they came from:      *)
(* index_for_uuid_locked finds the one channel that is meant.              *)
UuidUnique ==
  \A i, j \in Index : chans[i].active /\ chans[j].active /\ chans[i].uuid = chans[j].uuid
                        => i = j

(* Head, tail and count of each ring agree (enqueue, dequeue and every     *)
(* reset of them), so nothing is read that was not written.                *)
RingShape ==
  \A i \in Index : (chans[i].head + chans[i].count) % RingSlots = chans[i].tail

(* The parts of the channel table agree after every operation, those that  *)
(* fail halfway included: bitmap and flags, uuids, and the indices of the  *)
(* rings (activate_slot, create, reserve_named, destroy).                  *)
TableConsistent == BitmapMatches /\ UuidUnique /\ RingShape

(* The table implements one mailbox per uuid: the queue of a uuid is what  *)
(* the ring of its slot holds from head on.                                *)
Contents(ch) == [k \in 1 .. ch.count |-> ch.ring[(ch.head + k - 1) % RingSlots]]
OpenUuids == {chans[i].uuid : i \in {j \in Index : chans[j].active}}
BoxOf(u) == IF u \in OpenUuids THEN Contents(chans[IndexFor(u)]) ELSE <<>>
LimitOf(u) == IF u \in OpenUuids THEN chans[IndexFor(u)].max ELSE 0

Abstract == INSTANCE Mailboxes WITH
  MaxChannels <- NChans, MaxMsgs <- RingSlots,
  open <- OpenUuids,
  box <- [u \in Uuids |-> BoxOf(u)],
  limit <- [u \in Uuids |-> LimitOf(u)]

ImplementsMailboxes == Abstract!Mailbox
=============================================================================
