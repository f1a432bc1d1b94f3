----------------------------- MODULE Mailboxes -----------------------------
(***************************************************************************)
(* What the IPC channels promise their users: every open channel, named by *)
(* its uuid, is a bounded first-in first-out queue of messages of bounded  *)
(* size; a message is delivered at most once, in order, on the channel it  *)
(* was sent on, and only its tail can be lost, to a receiver whose buffer  *)
(* is too small for it.  out is the result of the last operation.          *)
(***************************************************************************)
EXTENDS Naturals, Sequences, FiniteSets

CONSTANTS
  Uuids,        \* the uuids a channel can have
  Payloads,     \* messages, as sequences of bytes
  MaxBytes,     \* MAX_MSG_BYTES: the largest payload limit of a channel
  MaxChannels,  \* how many channels can be open
  MaxMsgs       \* how many messages a channel holds

VARIABLES open, box, limit, out

abstractVars == <<open, box, limit, out>>

OpenSome(u, max) ==
  /\ u \notin open /\ Cardinality(open) < MaxChannels
  /\ open' = open \cup {u}
  /\ box' = [box EXCEPT ![u] = <<>>]
  /\ limit' = [limit EXCEPT ![u] = max]
  /\ out' = [op |-> "open", uuid |-> u]

(* Naming a channel that is open already.                                  *)
Reopen(u) ==
  /\ u \in open
  /\ out' = [op |-> "open", uuid |-> u]
  /\ UNCHANGED <<open, box, limit>>

Post(u, m) ==
  /\ u \in open /\ Len(box[u]) < MaxMsgs /\ Len(m) <= limit[u]
  /\ box' = [box EXCEPT ![u] = Append(@, m)]
  /\ out' = [op |-> "sent", uuid |-> u]
  /\ UNCHANGED <<open, limit>>

Take(u, size) ==
  /\ u \in open /\ box[u] # <<>>
  /\ box' = [box EXCEPT ![u] = Tail(@)]
  /\ out' = [op |-> "received", uuid |-> u, room |-> size,
             data |-> SubSeq(Head(box[u]), 1,
                             IF size < Len(Head(box[u])) THEN size ELSE Len(Head(box[u])))]
  /\ UNCHANGED <<open, limit>>

Close(u) ==
  /\ u \in open
  /\ open' = open \ {u}
  /\ box' = [box EXCEPT ![u] = <<>>]
  /\ limit' = [limit EXCEPT ![u] = 0]
  /\ out' = [op |-> "closed", uuid |-> u]

(* An operation may always be refused for want of memory when it opens a   *)
(* channel; the others only for the reasons their users can see.           *)
Refuse(op) ==
  /\ out' = [op |-> op]
  /\ UNCHANGED <<open, box, limit>>

RefusePost(u, m) ==
  (u \in open => Len(box[u]) = MaxMsgs \/ Len(m) > limit[u]) /\ Refuse("not sent")
RefuseTake(u) == (u \in open => box[u] = <<>>) /\ Refuse("not received")
RefuseClose(u) == u \notin open /\ Refuse("not closed")

Start ==
  /\ open = {}
  /\ box = [u \in Uuids |-> <<>>]
  /\ limit = [u \in Uuids |-> 0]
  /\ out = [op |-> "none"]

Step ==
  \/ \E u \in Uuids :
       \/ \E max \in 1 .. MaxBytes : OpenSome(u, max)
       \/ Reopen(u) \/ Close(u) \/ RefuseClose(u) \/ RefuseTake(u)
       \/ \E m \in Payloads : Post(u, m) \/ RefusePost(u, m)
       \/ \E size \in 1 .. MaxBytes : Take(u, size)
  \/ Refuse("not opened")

Mailbox == Start /\ [][Step]_abstractVars
=============================================================================
