--------------------------- MODULE Channels_proofs ---------------------------
(***************************************************************************)
(* Theorems about the channel table, for every number of channels, ring    *)
(* size, set of uuids and set of payloads.                                 *)
(***************************************************************************)
EXTENDS Channels, FiniteSetTheorems, SequenceTheorems, TLAPS

-----------------------------------------------------------------------------
(* Least and greatest elements, and positions of a ring.                   *)

(* Every set of naturals that is not empty has a least element.  The       *)
(* intervals below its elements are ordered by strict inclusion, which is  *)
(* well-founded, as the elements are by <.                                 *)
LEMMA LeastNatural ==
  ASSUME NEW S, S \subseteq Nat, S # {}
  PROVE  \E x \in S : \A y \in S : x <= y
<1> DEFINE Below == {0 .. x : x \in S}
<1>1. Below # {}
  OBVIOUS
<1>2. Below \subseteq FiniteSubsetsOf(Nat)
  <2>1. \A x \in S : IsFiniteSet(0 .. x)
    BY FS_Interval
  <2>2. \A x \in S : 0 .. x \in SUBSET Nat
    OBVIOUS
  <2> QED BY <2>1, <2>2 DEF FiniteSubsetsOf
<1>3. PICK B \in Below : \A C \in Below : <<C, B>> \notin StrictSubsetOrdering(Nat)
  <2> HIDE DEF Below
  <2> QED BY <1>1, <1>2, FS_StrictSubsetOrderingWellFounded, WFMin
<1>4. PICK x \in S : B = 0 .. x
  OBVIOUS
<1>5. ASSUME NEW y \in S, y < x PROVE FALSE
  <2>1. 0 .. y \in Below
    OBVIOUS
  <2>2. 0 .. y \subseteq 0 .. x
    BY <1>5
  <2>3. x \in 0 .. x /\ x \notin 0 .. y
    BY <1>5
  <2>4. 0 .. y \in SUBSET Nat /\ 0 .. x \in SUBSET Nat
    OBVIOUS
  <2>5. <<0 .. y, 0 .. x>> \in StrictSubsetOrdering(Nat)
    BY <2>2, <2>3, <2>4 DEF StrictSubsetOrdering
  <2> QED BY <2>1, <2>5, <1>3, <1>4
<1> QED BY <1>5

(* Min of a set of naturals is what its name says.                         *)
LEMMA MinIsLeast ==
  ASSUME NEW S, S \subseteq Nat, S # {}
  PROVE  Min(S) \in S /\ \A y \in S : Min(S) <= y
BY LeastNatural DEF Min

(* What % is on the sums of ring positions that occur.                     *)
LEMMA ModOnce ==
  ASSUME NEW n \in Nat \ {0}, NEW x \in 0 .. 2 * n - 1
  PROVE  x % n = IF x < n THEN x ELSE x - n
OBVIOUS

(* An alias-derived uuid is only ever in the slot of its alias.  Without   *)
(* this UuidUnique is not inductive: create could derive, for the slot it  *)
(* has chosen, a uuid another slot already has.                            *)
FallbackInPlace ==
  \A i, j \in Index : chans[i].active /\ chans[i].uuid = Fallback[j] => i = j

IInv == TypeOK /\ BitmapMatches /\ UuidUnique /\ FallbackInPlace /\ RingShape

-----------------------------------------------------------------------------
LEMMA ConstantFacts ==
  /\ NChans \in Nat \ {0} /\ RingSlots \in Nat \ {0} /\ MaxBytes \in Nat \ {0}
  /\ Index \subseteq Nat
  /\ 0 \in 0 .. RingSlots - 1 /\ 0 \in 0 .. RingSlots
  /\ Zeroed \in Ring
  /\ \A i \in Index : Fallback[i] \in Uuids
BY ChannelsAssumption DEF Index, Zeroed, Ring

LEMMA IndexForMatches ==
  ASSUME NEW u, Known(u)
  PROVE  IndexFor(u) \in Index /\ chans[IndexFor(u)].active /\ chans[IndexFor(u)].uuid = u
<1>1. Matches(u) \subseteq Nat /\ Matches(u) # {}
  BY ConstantFacts DEF Matches, Known
<1>2. Min(Matches(u)) \in Matches(u)
  BY <1>1, MinIsLeast
<1> QED BY <1>2 DEF IndexFor, Matches

(* One step of the write position, and one of the read position.           *)
LEMMA RingMod ==
  ASSUME NEW x \in 0 .. 2 * RingSlots - 1
  PROVE  x % RingSlots = IF x < RingSlots THEN x ELSE x - RingSlots
BY ConstantFacts, ModOnce

LEMMA RingWrite ==
  ASSUME NEW h \in 0 .. RingSlots - 1, NEW c \in 0 .. RingSlots - 1,
         NEW t \in 0 .. RingSlots - 1, (h + c) % RingSlots = t
  PROVE  Next1(t) \in 0 .. RingSlots - 1 /\ (h + (c + 1)) % RingSlots = Next1(t)
<1> USE ConstantFacts
<1>1. h + c \in 0 .. 2 * RingSlots - 1 /\ h + (c + 1) \in 0 .. 2 * RingSlots - 1
      /\ t + 1 \in 0 .. 2 * RingSlots - 1
  OBVIOUS
<1>2. t = IF h + c < RingSlots THEN h + c ELSE h + c - RingSlots
  BY <1>1, RingMod
<1>3. (h + (c + 1)) % RingSlots =
        IF h + (c + 1) < RingSlots THEN h + (c + 1) ELSE h + (c + 1) - RingSlots
  BY <1>1, RingMod
<1>4. Next1(t) = IF t + 1 < RingSlots THEN t + 1 ELSE t + 1 - RingSlots
  BY <1>1, RingMod DEF Next1
<1> QED BY <1>2, <1>3, <1>4

LEMMA RingRead ==
  ASSUME NEW h \in 0 .. RingSlots - 1, NEW c \in 1 .. RingSlots,
         NEW t \in 0 .. RingSlots - 1, (h + c) % RingSlots = t
  PROVE  Next1(h) \in 0 .. RingSlots - 1 /\ (Next1(h) + (c - 1)) % RingSlots = t
<1> USE ConstantFacts
<1>1. h + c \in 0 .. 2 * RingSlots - 1 /\ h + 1 \in 0 .. 2 * RingSlots - 1
  OBVIOUS
<1>2. t = IF h + c < RingSlots THEN h + c ELSE h + c - RingSlots
  BY <1>1, RingMod
<1>3. Next1(h) = IF h + 1 < RingSlots THEN h + 1 ELSE h + 1 - RingSlots
  BY <1>1, RingMod DEF Next1
<1>4. Next1(h) \in 0 .. RingSlots - 1 /\ Next1(h) + (c - 1) \in 0 .. 2 * RingSlots - 1
  BY <1>3
<1>5. (Next1(h) + (c - 1)) % RingSlots =
        IF Next1(h) + (c - 1) < RingSlots THEN Next1(h) + (c - 1)
        ELSE Next1(h) + (c - 1) - RingSlots
  BY <1>4, RingMod
<1> QED BY <1>2, <1>3, <1>4, <1>5

LEMMA InitInv == Init => IInv
<1> SUFFICES ASSUME Init PROVE IInv
  OBVIOUS
<1>1. EmptyChannel \in Channel
  BY ConstantFacts DEF EmptyChannel, Channel
<1>2. TypeOK
  BY <1>1 DEF Init, TypeOK
<1>3. BitmapMatches /\ UuidUnique /\ FallbackInPlace
  BY DEF Init, BitmapMatches, UuidUnique, FallbackInPlace, EmptyChannel
<1>4. RingShape
  <2>1. (0 + 0) % RingSlots = 0
    BY ConstantFacts, ModOnce
  <2> QED BY <2>1 DEF Init, RingShape, EmptyChannel
<1> QED BY <1>2, <1>3, <1>4 DEF IInv

(* activate_slot on a free slot, with a uuid no active channel has.        *)
LEMMA ActivatePreserves ==
  ASSUME IInv,
         NEW i \in free, NEW u \in Uuids, NEW max \in 1 .. MaxBytes, NEW memory \in BOOLEAN,
         Matches(u) = {},
         \A j \in Index : u = Fallback[j] => i = j,
         Activate(i, u, max, memory)
  PROVE  IInv'
<1> USE ConstantFacts DEF IInv
<1> DEFINE new == Activated(chans[i], u, max, memory)
<1>1. i \in Index /\ chans[i] \in Channel
  BY DEF TypeOK
<1>2. chans' = [chans EXCEPT ![i] = new]
  BY DEF Activate
<1>3. new \in Channel
  <2>1. EmptyChannel \in Channel /\ max \in 0 .. MaxBytes
    BY DEF Channel, EmptyChannel
  <2>2. CASE memory
    <3>1. new = [EmptyChannel EXCEPT !.active = TRUE, !.uuid = u, !.max = max, !.alloc = TRUE]
      BY <2>2 DEF Activated
    <3> HIDE DEF new
    <3> QED BY <2>1, <3>1 DEF Channel
  <2>3. CASE ~ memory
    <3>1. new = [chans[i] EXCEPT !.active = FALSE, !.uuid = NilUuid, !.max = max,
                                 !.head = 0, !.tail = 0, !.count = 0]
      BY <2>3 DEF Activated
    <3> HIDE DEF new
    <3> QED BY <1>1, <2>1, <3>1 DEF Channel
  <2> QED BY <2>2, <2>3
<1>4. new.active = memory /\ (memory => new.uuid = u) /\ new.alloc = (memory \/ chans[i].alloc)
      /\ new.head = 0 /\ new.tail = 0 /\ new.count = 0
  BY <1>1 DEF Channel, Activated, EmptyChannel
<1> HIDE DEF new
<1>5. chans'[i] = new /\ \A j \in Index : j # i => chans'[j] = chans[j]
  BY <1>1, <1>2 DEF TypeOK
<1>6. TypeOK'
  BY <1>1, <1>2, <1>3 DEF TypeOK, Activate
<1>7. ~ chans[i].active /\ ~ chans[i].alloc
  BY <1>1 DEF BitmapMatches, TypeOK, Channel
<1>8. BitmapMatches'
  BY <1>1, <1>4, <1>5, <1>7 DEF BitmapMatches, Activate
<1>9. UuidUnique'
  BY <1>4, <1>5 DEF UuidUnique, Matches
<1>10. FallbackInPlace'
  BY <1>4, <1>5 DEF FallbackInPlace
<1>11. RingShape'
  <2>1. (0 + 0) % RingSlots = 0
    BY ModOnce
  <2> QED BY <1>4, <1>5, <2>1 DEF RingShape
<1> QED BY <1>6, <1>8, <1>9, <1>10, <1>11

LEMMA CreatePreserves ==
  ASSUME IInv, NEW max \in 1 .. MaxBytes, NEW memory \in BOOLEAN, Create(max, memory)
  PROVE  IInv'
<1>1. CASE free = {} /\ Fail("not opened")
  BY <1>1 DEF IInv, Fail, TypeOK, BitmapMatches, UuidUnique, FallbackInPlace, RingShape
<1>2. CASE free # {} /\ \E u \in RuntimeUuids(Min(free)) : Activate(Min(free), u, max, memory)
  <2>1. Min(free) \in free /\ Min(free) \in Index
    BY <1>2, MinIsLeast, ConstantFacts DEF IInv, TypeOK
  <2>2. PICK u \in RuntimeUuids(Min(free)) : Activate(Min(free), u, max, memory)
    BY <1>2
  <2>3. CASE u \in Random /\ Matches(u) = {}
    BY <2>1, <2>2, <2>3, ActivatePreserves, ChannelsAssumption DEF Uuids
  <2>4. CASE u = Fallback[Min(free)]
    <3>1. u \in Uuids
      BY <2>1, <2>4, ConstantFacts
    <3>2. Matches(u) = {}
      BY <2>1, <2>4 DEF IInv, FallbackInPlace, BitmapMatches, Matches
    <3>3. \A j \in Index : u = Fallback[j] => Min(free) = j
      BY <2>1, <2>4, ChannelsAssumption
    <3> QED BY <2>1, <2>2, <3>1, <3>2, <3>3, ActivatePreserves
  <2> QED BY <2>3, <2>4 DEF RuntimeUuids
<1> QED BY <1>1, <1>2 DEF Create

LEMMA ReservePreserves ==
  ASSUME IInv, NEW u \in Named, NEW max \in 1 .. MaxBytes, NEW memory \in BOOLEAN,
         ReserveNamed(u, max, memory)
  PROVE  IInv'
<1>1. CASE UNCHANGED <<chans, free>>
  BY <1>1 DEF IInv, TypeOK, BitmapMatches, UuidUnique, FallbackInPlace, RingShape
<1>2. CASE ~ Known(u) /\ free # {} /\ Activate(Min(free), u, max, memory)
  <2>1. Min(free) \in free /\ Min(free) \in Index
    BY <1>2, MinIsLeast, ConstantFacts DEF IInv, TypeOK
  <2>2. u \in Uuids /\ Matches(u) = {}
    BY <1>2, ChannelsAssumption DEF Known, Uuids
  <2>3. \A j \in Index : u # Fallback[j]
    BY ChannelsAssumption
  <2> QED BY <1>2, <2>1, <2>2, <2>3, ActivatePreserves
<1> QED BY <1>1, <1>2 DEF ReserveNamed, Fail

-----------------------------------------------------------------------------
(* A step that changes one active channel's ring and nothing else.         *)
LEMMA RingStepPreserves ==
  ASSUME IInv, NEW i \in Index, NEW new \in Channel,
         chans[i].active,
         new.active = chans[i].active, new.uuid = chans[i].uuid, new.alloc = chans[i].alloc,
         (new.head + new.count) % RingSlots = new.tail,
         chans' = [chans EXCEPT ![i] = new], UNCHANGED free
  PROVE  IInv'
<1> USE DEF IInv
<1>1. chans'[i] = new /\ \A j \in Index : j # i => chans'[j] = chans[j]
  BY DEF TypeOK
<1>2. TypeOK'
  BY DEF TypeOK
<1>3. BitmapMatches'
  BY <1>1 DEF BitmapMatches
<1>4. UuidUnique'
  BY <1>1 DEF UuidUnique
<1>5. FallbackInPlace'
  BY <1>1 DEF FallbackInPlace
<1>6. RingShape'
  BY <1>1 DEF RingShape
<1> QED BY <1>2, <1>3, <1>4, <1>5, <1>6

LEMMA SendPreserves ==
  ASSUME IInv, NEW u \in Uuids, NEW m \in Payloads, Send(u, m)
  PROVE  IInv'
<1> USE ConstantFacts
<1>1. CASE Fail("not sent")
  BY <1>1 DEF IInv, Fail, TypeOK, BitmapMatches, UuidUnique, FallbackInPlace, RingShape
<1>2. CASE /\ Known(u) /\ Accepts(chans[IndexFor(u)], m)
           /\ chans' = [chans EXCEPT ![IndexFor(u)] = Enqueued(@, m)]
           /\ UNCHANGED free
  <2> DEFINE i  == IndexFor(u)
             ch == chans[i]
  <2>1. i \in Index /\ ch.active
    BY <1>2, IndexForMatches
  <2>2. ch \in Channel /\ ch.count < RingSlots /\ (ch.head + ch.count) % RingSlots = ch.tail
    BY <1>2, <2>1 DEF IInv, TypeOK, RingShape, Accepts
  <2>3. /\ ch.head \in 0 .. RingSlots - 1 /\ ch.tail \in 0 .. RingSlots - 1
        /\ ch.count \in 0 .. RingSlots - 1 /\ ch.ring \in Ring
    BY <2>2 DEF Channel
  <2> HIDE DEF i, ch
  <2>4. (ch.head + (ch.count + 1)) % RingSlots = Next1(ch.tail) /\ Next1(ch.tail) \in 0 .. RingSlots - 1
    <3>1. (ch.head + ch.count) % RingSlots = ch.tail
      BY <2>2
    <3> HIDE ConstantFacts
    <3> QED BY <2>3, <3>1, RingWrite
  <2>5. [ch.ring EXCEPT ![ch.tail] = m] \in Ring
    BY <2>3 DEF Ring
  <2>6. Enqueued(ch, m) = [ch EXCEPT !.ring = [ch.ring EXCEPT ![ch.tail] = m],
                                     !.tail = Next1(ch.tail), !.count = ch.count + 1]
    BY DEF Enqueued
  <2>7. ch.count + 1 \in 0 .. RingSlots
    BY <2>3
  <2>8. /\ Enqueued(ch, m) \in Channel
        /\ Enqueued(ch, m).active = ch.active /\ Enqueued(ch, m).uuid = ch.uuid
        /\ Enqueued(ch, m).alloc = ch.alloc /\ Enqueued(ch, m).head = ch.head
        /\ Enqueued(ch, m).tail = Next1(ch.tail) /\ Enqueued(ch, m).count = ch.count + 1
    BY <2>2, <2>4, <2>5, <2>6, <2>7 DEF Channel
  <2>9. chans' = [chans EXCEPT ![i] = Enqueued(ch, m)]
    BY <1>2 DEF i, ch
  <2>10. chans[i] = ch
    BY DEF ch
  <2>11. (Enqueued(ch, m).head + Enqueued(ch, m).count) % RingSlots = Enqueued(ch, m).tail
    BY <2>4, <2>8
  <2> QED BY <1>2, <2>1, <2>8, <2>9, <2>10, <2>11, RingStepPreserves
<1> QED BY <1>1, <1>2 DEF Send

LEMMA RecvPreserves ==
  ASSUME IInv, NEW u \in Uuids, NEW size \in 1 .. MaxBytes, Recv(u, size)
  PROVE  IInv'
<1> USE ConstantFacts
<1>1. CASE Fail("not received")
  BY <1>1 DEF IInv, Fail, TypeOK, BitmapMatches, UuidUnique, FallbackInPlace, RingShape
<1>2. CASE /\ Known(u) /\ chans[IndexFor(u)].count > 0
           /\ chans' = [chans EXCEPT ![IndexFor(u)] = Dequeued(@)]
           /\ UNCHANGED free
  <2> DEFINE i  == IndexFor(u)
             ch == chans[i]
  <2>1. i \in Index /\ ch.active
    BY <1>2, IndexForMatches
  <2>2. ch \in Channel /\ ch.count > 0 /\ (ch.head + ch.count) % RingSlots = ch.tail
    BY <1>2, <2>1 DEF IInv, TypeOK, RingShape
  <2>3. /\ ch.head \in 0 .. RingSlots - 1 /\ ch.tail \in 0 .. RingSlots - 1
        /\ ch.count \in 1 .. RingSlots
    BY <2>2 DEF Channel
  <2> HIDE DEF i, ch
  <2>4. (Next1(ch.head) + (ch.count - 1)) % RingSlots = ch.tail /\ Next1(ch.head) \in 0 .. RingSlots - 1
    BY <2>2, <2>3, RingRead
  <2>5. Dequeued(ch) = [ch EXCEPT !.head = Next1(ch.head), !.count = ch.count - 1]
    BY DEF Dequeued
  <2>6. ch.count - 1 \in 0 .. RingSlots
    BY <2>3
  <2>7. /\ Dequeued(ch) \in Channel
        /\ Dequeued(ch).active = ch.active /\ Dequeued(ch).uuid = ch.uuid
        /\ Dequeued(ch).alloc = ch.alloc /\ Dequeued(ch).tail = ch.tail
        /\ Dequeued(ch).head = Next1(ch.head) /\ Dequeued(ch).count = ch.count - 1
    BY <2>2, <2>4, <2>5, <2>6 DEF Channel
  <2>8. chans' = [chans EXCEPT ![i] = Dequeued(ch)]
    BY <1>2 DEF i, ch
  <2>9. chans[i] = ch
    BY DEF ch
  <2>10. (Dequeued(ch).head + Dequeued(ch).count) % RingSlots = Dequeued(ch).tail
    BY <2>4, <2>7
  <2> QED BY <1>2, <2>1, <2>7, <2>8, <2>9, <2>10, RingStepPreserves
<1> QED BY <1>1, <1>2 DEF Recv

LEMMA DestroyPreserves ==
  ASSUME IInv, NEW u \in Uuids, Destroy(u)
  PROVE  IInv'
<1> USE ConstantFacts
<1>1. CASE Fail("not closed")
  BY <1>1 DEF IInv, Fail, TypeOK, BitmapMatches, UuidUnique, FallbackInPlace, RingShape
<1>2. CASE Known(u) /\ ~ Fail("not closed")
  <2> DEFINE i   == IndexFor(u)
             new == Closed(chans[i])
  <2>1. i \in Index /\ chans[i] \in Channel
    BY <1>2, IndexForMatches DEF IInv, TypeOK
  <2>2. chans' = [chans EXCEPT ![i] = new] /\ free' = free \cup {i}
    BY <1>2 DEF Destroy
  <2>3. new \in Channel /\ new.active = FALSE /\ new.alloc = FALSE
        /\ new.head = 0 /\ new.tail = 0 /\ new.count = 0
    BY <2>1 DEF Channel, Closed
  <2> HIDE DEF i, new
  <2>4. chans'[i] = new /\ \A j \in Index : j # i => chans'[j] = chans[j]
    BY <2>1, <2>2 DEF IInv, TypeOK
  <2>5. TypeOK'
    BY <2>1, <2>2, <2>3 DEF IInv, TypeOK
  <2>6. BitmapMatches'
    BY <2>1, <2>2, <2>3, <2>4 DEF IInv, BitmapMatches
  <2>7. UuidUnique' /\ FallbackInPlace'
    BY <2>3, <2>4 DEF IInv, UuidUnique, FallbackInPlace
  <2>8. RingShape'
    <3>1. (0 + 0) % RingSlots = 0
      BY ModOnce
    <3> QED BY <2>3, <2>4, <3>1 DEF IInv, RingShape
  <2> QED BY <2>5, <2>6, <2>7, <2>8 DEF IInv
<1> QED BY <1>1, <1>2 DEF Destroy

-----------------------------------------------------------------------------
LEMMA NextPreserves == IInv /\ [Next]_vars => IInv'
<1> SUFFICES ASSUME IInv, [Next]_vars PROVE IInv'
  OBVIOUS
<1>1. ASSUME NEW max \in 1 .. MaxBytes, NEW memory \in BOOLEAN, Create(max, memory)
      PROVE  IInv'
  BY <1>1, CreatePreserves
<1>2. ASSUME NEW max \in 1 .. MaxBytes, NEW memory \in BOOLEAN, NEW u \in Named,
             ReserveNamed(u, max, memory)
      PROVE  IInv'
  BY <1>2, ReservePreserves
<1>3. ASSUME NEW u \in Uuids, NEW m \in Payloads, Send(u, m)
      PROVE  IInv'
  BY <1>3, SendPreserves
<1>4. ASSUME NEW u \in Uuids, NEW size \in 1 .. MaxBytes, Recv(u, size)
      PROVE  IInv'
  BY <1>4, RecvPreserves
<1>5. ASSUME NEW u \in Uuids, Destroy(u)
      PROVE  IInv'
  BY <1>5, DestroyPreserves
<1>6. CASE UNCHANGED vars
  BY <1>6 DEF vars, IInv, TypeOK, BitmapMatches, UuidUnique, FallbackInPlace, RingShape
<1> QED BY <1>1, <1>2, <1>3, <1>4, <1>5, <1>6 DEF Next

(* The invariant holds in every reachable state.                           *)
THEOREM Invariance == Spec => []IInv
<1> QED BY InitInv, NextPreserves, PTL DEF Spec

(* Every slot always is a channel with indices inside its ring.            *)
THEOREM TypeCorrect == Spec => []TypeOK
<1>1. IInv => TypeOK
  BY DEF IInv
<1> QED BY <1>1, Invariance, PTL

(* The free bitmap and the rings agree with the slots after every          *)
(* operation, failed ones included.                                        *)
THEOREM BitmapCorrect == Spec => []BitmapMatches
<1>1. IInv => BitmapMatches
  BY DEF IInv
<1> QED BY <1>1, Invariance, PTL

(* A uuid names at most one active channel.                                *)
THEOREM UuidsUnique == Spec => []UuidUnique
<1>1. IInv => UuidUnique
  BY DEF IInv
<1> QED BY <1>1, Invariance, PTL

(* Head, tail and count of every ring agree.                               *)
THEOREM RingsConsistent == Spec => []RingShape
<1>1. IInv => RingShape
  BY DEF IInv
<1> QED BY <1>1, Invariance, PTL

(* What the run checks as one invariant: the table's own parts, the uuids  *)
(* and the rings never disagree, whatever the sizes (channel.rs).          *)
THEOREM TableIsConsistent == Spec => []TableConsistent
<1>1. IInv => TableConsistent
  BY DEF IInv, TableConsistent
<1> QED BY Invariance, <1>1, PTL

-----------------------------------------------------------------------------
(* The refinement.  First, what the queue of a channel is, and what the    *)
(* ring operations do to it.                                               *)
LEMMA RingPlace ==
  ASSUME NEW h \in 0 .. RingSlots - 1, NEW k \in 1 .. RingSlots
  PROVE  /\ (h + k - 1) % RingSlots =
              IF h + k - 1 < RingSlots THEN h + k - 1 ELSE h + k - 1 - RingSlots
         /\ (h + k - 1) % RingSlots \in 0 .. RingSlots - 1
<1>1. h + k - 1 \in 0 .. 2 * RingSlots - 1 /\ RingSlots \in Nat \ {0}
  BY ConstantFacts
<1>2. (h + k - 1) % RingSlots =
              IF h + k - 1 < RingSlots THEN h + k - 1 ELSE h + k - 1 - RingSlots
  BY <1>1, RingMod
<1> QED BY <1>1, <1>2, ConstantFacts

LEMMA PlacesDiffer ==
  ASSUME NEW h \in 0 .. RingSlots - 1, NEW c \in 0 .. RingSlots - 1, NEW k \in 1 .. c
  PROVE  (h + k - 1) % RingSlots # (h + c) % RingSlots
<1>1. /\ h + c \in 0 .. 2 * RingSlots - 1 /\ k \in 1 .. RingSlots
      /\ RingSlots \in Nat \ {0}
  BY ConstantFacts
<1>2. (h + c) % RingSlots = IF h + c < RingSlots THEN h + c ELSE h + c - RingSlots
  BY <1>1, RingMod
<1> QED BY <1>1, <1>2, RingPlace, ConstantFacts

LEMMA PlaceAfterNext ==
  ASSUME NEW h \in 0 .. RingSlots - 1, NEW k \in 1 .. RingSlots - 1
  PROVE  (Next1(h) + k - 1) % RingSlots = (h + (k + 1) - 1) % RingSlots
<1>1. /\ h + 1 \in 0 .. 2 * RingSlots - 1 /\ k \in 1 .. RingSlots /\ k + 1 \in 1 .. RingSlots
      /\ RingSlots \in Nat \ {0}
  BY ConstantFacts
<1>2. Next1(h) = IF h + 1 < RingSlots THEN h + 1 ELSE h + 1 - RingSlots
  BY <1>1, RingMod DEF Next1
<1>3. Next1(h) \in 0 .. RingSlots - 1
  BY <1>1, <1>2
<1>4. (Next1(h) + k - 1) % RingSlots =
         IF Next1(h) + k - 1 < RingSlots THEN Next1(h) + k - 1 ELSE Next1(h) + k - 1 - RingSlots
  BY <1>1, <1>3, RingPlace
<1>5. (h + (k + 1) - 1) % RingSlots =
         IF h + (k + 1) - 1 < RingSlots THEN h + (k + 1) - 1 ELSE h + (k + 1) - 1 - RingSlots
  BY <1>1, RingPlace
<1> QED BY <1>1, <1>2, <1>4, <1>5

LEMMA ContentsAre ==
  ASSUME NEW ch \in Channel
  PROVE  /\ Contents(ch) \in Seq(Payloads) /\ Len(Contents(ch)) = ch.count
         /\ \A k \in 1 .. ch.count :
              Contents(ch)[k] = ch.ring[(ch.head + k - 1) % RingSlots]
<1>1. /\ ch.count \in 0 .. RingSlots /\ ch.head \in 0 .. RingSlots - 1
      /\ ch.ring \in [0 .. RingSlots - 1 -> Payloads] /\ RingSlots \in Nat \ {0}
  BY ConstantFacts DEF Channel, Ring
<1>2. ASSUME NEW k \in 1 .. ch.count
      PROVE  (ch.head + k - 1) % RingSlots \in 0 .. RingSlots - 1
  <2>1. k \in 1 .. RingSlots
    BY <1>1
  <2> QED BY <1>1, <2>1, RingPlace
<1>3. Contents(ch) \in [1 .. ch.count -> Payloads] /\ ch.count \in Nat
  BY <1>1, <1>2 DEF Contents
<1>4. Contents(ch) \in Seq(Payloads)
  BY <1>3, SeqDef
<1>5. DOMAIN Contents(ch) = 1 .. ch.count
  BY <1>3
<1>6. Len(Contents(ch)) = ch.count
  BY <1>3, <1>4, <1>5, LenProperties
<1> QED BY <1>4, <1>6 DEF Contents

LEMMA EnqueuedAppends ==
  ASSUME NEW ch \in Channel, NEW m \in Payloads, ch.count < RingSlots,
         (ch.head + ch.count) % RingSlots = ch.tail, Enqueued(ch, m) \in Channel
  PROVE  Contents(Enqueued(ch, m)) = Append(Contents(ch), m)
<1> DEFINE new == Enqueued(ch, m)
<1>1. /\ ch.count \in 0 .. RingSlots - 1 /\ ch.head \in 0 .. RingSlots - 1
      /\ ch.ring \in [0 .. RingSlots - 1 -> Payloads] /\ ch.tail \in 0 .. RingSlots - 1
      /\ RingSlots \in Nat \ {0}
  BY ConstantFacts DEF Channel, Ring
<1>2. /\ new.count = ch.count + 1 /\ new.head = ch.head
      /\ new.ring = [ch.ring EXCEPT ![ch.tail] = m]
  BY DEF Enqueued, Channel
<1> HIDE DEF new
<1>3. Contents(new) \in Seq(Payloads) /\ Len(Contents(new)) = ch.count + 1
      /\ \A k \in 1 .. ch.count + 1 :
           Contents(new)[k] = new.ring[(ch.head + k - 1) % RingSlots]
  <2>1. new \in Channel
    BY DEF new
  <2> QED BY <1>2, <2>1, ContentsAre
<1>4. Contents(ch) \in Seq(Payloads) /\ Len(Contents(ch)) = ch.count
      /\ \A k \in 1 .. ch.count : Contents(ch)[k] = ch.ring[(ch.head + k - 1) % RingSlots]
  BY ContentsAre
<1>5. ASSUME NEW k \in 1 .. ch.count PROVE Contents(new)[k] = Contents(ch)[k]
  <2> DEFINE p == (ch.head + k - 1) % RingSlots
  <2>4. p # ch.tail /\ p \in 0 .. RingSlots - 1
    <3>1. k \in 1 .. RingSlots
      BY <1>1
    <3>2. p # (ch.head + ch.count) % RingSlots
      BY <1>1, PlacesDiffer
    <3>3. p \in 0 .. RingSlots - 1
      BY <1>1, <3>1, RingPlace
    <3> HIDE DEF p
    <3> QED BY <3>2, <3>3
  <2>5. Contents(new)[k] = new.ring[p] /\ Contents(ch)[k] = ch.ring[p]
    <3>1. k \in 1 .. ch.count + 1
      BY <1>1
    <3> QED BY <1>3, <1>4, <3>1
  <2> HIDE DEF p
  <2> QED BY <1>1, <1>2, <2>4, <2>5
<1>6. Contents(new)[ch.count + 1] = m
  <2>1. ch.count + 1 \in 1 .. ch.count + 1 /\ ch.head + (ch.count + 1) - 1 = ch.head + ch.count
    BY <1>1
  <2>2. Contents(new)[ch.count + 1] = new.ring[ch.tail]
    BY <1>3, <2>1
  <2> QED BY <1>1, <1>2, <2>2
<1>7. Append(Contents(ch), m) \in Seq(Payloads) /\ Len(Append(Contents(ch), m)) = ch.count + 1
      /\ \A k \in 1 .. ch.count : Append(Contents(ch), m)[k] = Contents(ch)[k]
      /\ Append(Contents(ch), m)[ch.count + 1] = m
  BY <1>1, <1>4, AppendProperties
<1>8. \A k \in 1 .. ch.count + 1 : Contents(new)[k] = Append(Contents(ch), m)[k]
  BY <1>1, <1>5, <1>6, <1>7
<1> QED BY <1>3, <1>7, <1>8, SeqEqual DEF new

LEMMA DequeuedTakes ==
  ASSUME NEW ch \in Channel, ch.count > 0, Dequeued(ch) \in Channel
  PROVE  /\ Contents(ch) # <<>> /\ Head(Contents(ch)) = ch.ring[ch.head]
         /\ Contents(Dequeued(ch)) = Tail(Contents(ch))
<1> DEFINE new == Dequeued(ch)
<1>1. /\ ch.count \in 1 .. RingSlots /\ ch.head \in 0 .. RingSlots - 1
      /\ ch.ring \in [0 .. RingSlots - 1 -> Payloads] /\ RingSlots \in Nat \ {0}
  BY ConstantFacts DEF Channel, Ring
<1>2. new.count = ch.count - 1 /\ new.head = Next1(ch.head) /\ new.ring = ch.ring
  BY DEF Dequeued, Channel
<1> HIDE DEF new
<1>3. Contents(new) \in Seq(Payloads) /\ Len(Contents(new)) = ch.count - 1
      /\ \A k \in 1 .. ch.count - 1 :
           Contents(new)[k] = ch.ring[(Next1(ch.head) + k - 1) % RingSlots]
  <2>1. new \in Channel
    BY DEF new
  <2> QED BY <1>2, <2>1, ContentsAre
<1>4. Contents(ch) \in Seq(Payloads) /\ Len(Contents(ch)) = ch.count
      /\ \A k \in 1 .. ch.count : Contents(ch)[k] = ch.ring[(ch.head + k - 1) % RingSlots]
  BY ContentsAre
<1>5. Contents(ch) # <<>> /\ Head(Contents(ch)) = Contents(ch)[1]
  BY <1>1, <1>4, EmptySeq, HeadTailProperties
<1>6. Head(Contents(ch)) = ch.ring[ch.head]
  <2>1. 1 \in 1 .. ch.count /\ ch.head + 1 - 1 = ch.head /\ ch.head \in 0 .. 2 * RingSlots - 1
    BY <1>1
  <2>2. ch.head % RingSlots = ch.head
    BY <1>1, <2>1, RingMod
  <2> QED BY <1>4, <1>5, <2>1, <2>2
<1>7. Tail(Contents(ch)) \in Seq(Payloads) /\ Len(Tail(Contents(ch))) = ch.count - 1
      /\ \A k \in 1 .. ch.count - 1 : Tail(Contents(ch))[k] = Contents(ch)[k + 1]
  BY <1>4, <1>5, HeadTailProperties
<1>8. ASSUME NEW k \in 1 .. ch.count - 1 PROVE Contents(new)[k] = Tail(Contents(ch))[k]
  <2>1. k + 1 \in 1 .. ch.count /\ k \in 1 .. RingSlots - 1
    BY <1>1
  <2>2. (Next1(ch.head) + k - 1) % RingSlots = (ch.head + (k + 1) - 1) % RingSlots
    BY <1>1, <2>1, PlaceAfterNext
  <2>3. Contents(ch)[k + 1] = ch.ring[(ch.head + (k + 1) - 1) % RingSlots]
    BY <1>4, <2>1
  <2> QED BY <1>3, <1>7, <2>2, <2>3
<1> QED BY <1>3, <1>5, <1>6, <1>7, <1>8, SeqEqual DEF new

-----------------------------------------------------------------------------
(* What the mapping shows of a channel that is open, before and after a    *)
(* step.                                                                   *)
LEMMA Shown ==
  ASSUME IInv, NEW i \in Index, chans[i].active
  PROVE  /\ chans[i].uuid \in OpenUuids /\ IndexFor(chans[i].uuid) = i
         /\ BoxOf(chans[i].uuid) = Contents(chans[i]) /\ LimitOf(chans[i].uuid) = chans[i].max
<1>1. Matches(chans[i].uuid) = {i}
  BY DEF IInv, UuidUnique, Matches
<1>2. Min({i}) = i
  BY ConstantFacts, MinIsLeast
<1> QED BY <1>1, <1>2 DEF OpenUuids, IndexFor, BoxOf, LimitOf

LEMMA ShownNext ==
  ASSUME IInv', NEW i \in Index, chans'[i].active
  PROVE  /\ chans'[i].uuid \in OpenUuids'
         /\ \A u : u = chans'[i].uuid =>
              BoxOf(u)' = Contents(chans'[i]) /\ LimitOf(u)' = chans'[i].max
<1>1. ASSUME NEW u, u = chans'[i].uuid PROVE Matches(u)' = {i}
  BY <1>1 DEF IInv, UuidUnique, Matches
<1>2. Min({i}) = i
  BY ConstantFacts, MinIsLeast
<1>3. chans'[i].uuid \in OpenUuids'
  BY DEF OpenUuids
<1>4. ASSUME NEW u, u = chans'[i].uuid
      PROVE  BoxOf(u)' = Contents(chans'[i]) /\ LimitOf(u)' = chans'[i].max
  <2>1. IndexFor(u)' = i
    BY <1>1, <1>2, <1>4 DEF IndexFor
  <2> QED BY <1>3, <1>4, <2>1 DEF BoxOf, LimitOf
<1> QED BY <1>3, <1>4

LEMMA KnownIsOpen == ASSUME NEW u \in Uuids PROVE Known(u) <=> u \in OpenUuids
BY ChannelsAssumption DEF Known, Matches, OpenUuids

(* A step on one slot, for one uuid, shows nothing of the others.          *)
LEMMA OthersShown ==
  ASSUME IInv, IInv', NEW i \in Index, NEW u,
         \A j \in Index \ {i} : chans'[j] = chans[j],
         chans[i].active => chans[i].uuid = u,
         chans'[i].active => chans'[i].uuid = u,
         NEW v, v # u
  PROVE  /\ v \in OpenUuids' <=> v \in OpenUuids
         /\ BoxOf(v)' = BoxOf(v) /\ LimitOf(v)' = LimitOf(v)
<1>1. CASE \E j \in Index : chans[j].active /\ chans[j].uuid = v
  <2>1. PICK j \in Index : chans[j].active /\ chans[j].uuid = v
    BY <1>1
  <2>2. chans'[j] = chans[j]
    BY <2>1
  <2> QED BY <2>1, <2>2, Shown, ShownNext
<1>2. CASE ~ \E j \in Index : chans[j].active /\ chans[j].uuid = v
  <2>1. v \notin OpenUuids /\ v \notin OpenUuids'
    BY <1>2 DEF OpenUuids
  <2> QED BY <2>1 DEF BoxOf, LimitOf
<1> QED BY <1>1, <1>2

(* The abstract state after such a step.                                   *)
LEMMA BoxesAfter ==
  ASSUME IInv, IInv', NEW i \in Index, NEW u \in Uuids,
         \A j \in Index \ {i} : chans'[j] = chans[j],
         chans[i].active => chans[i].uuid = u,
         chans'[i].active => chans'[i].uuid = u
  PROVE  /\ [v \in Uuids |-> BoxOf(v)]'
              = [[v \in Uuids |-> BoxOf(v)] EXCEPT ![u] = BoxOf(u)']
         /\ [v \in Uuids |-> LimitOf(v)]'
              = [[v \in Uuids |-> LimitOf(v)] EXCEPT ![u] = LimitOf(u)']
         /\ \A v : v # u => (v \in OpenUuids' <=> v \in OpenUuids)
<1>1. ASSUME NEW v, v # u
      PROVE  /\ v \in OpenUuids' <=> v \in OpenUuids
             /\ BoxOf(v)' = BoxOf(v) /\ LimitOf(v)' = LimitOf(v)
  BY <1>1, OthersShown
<1> QED BY <1>1

LEMMA SameShown ==
  ASSUME UNCHANGED chans
  PROVE  /\ OpenUuids' = OpenUuids
         /\ [v \in Uuids |-> BoxOf(v)]' = [v \in Uuids |-> BoxOf(v)]
         /\ [v \in Uuids |-> LimitOf(v)]' = [v \in Uuids |-> LimitOf(v)]
BY DEF OpenUuids, BoxOf, LimitOf, IndexFor, Matches

(* A free slot means that fewer channels are open than there can be.       *)
LEMMA RoomForOne ==
  ASSUME IInv, NEW i \in free
  PROVE  Cardinality(OpenUuids) < NChans
<1> DEFINE Active == {j \in Index : chans[j].active}
           f == [j \in Active |-> chans[j].uuid]
<1>1. NChans \in Nat /\ IsFiniteSet(Index) /\ Cardinality(Index) = NChans
  <2>1. NChans \in Nat \ {0}
    BY ConstantFacts
  <2> QED BY <2>1, FS_Interval DEF Index
<1>2. i \in Index /\ Active \subseteq Index \ {i}
  BY DEF IInv, TypeOK, BitmapMatches
<1>3. IsFiniteSet(Index \ {i}) /\ Cardinality(Index \ {i}) = NChans - 1
  BY <1>1, <1>2, FS_RemoveElement
<1>4. IsFiniteSet(Active) /\ Cardinality(Active) <= NChans - 1
  BY <1>2, <1>3, FS_Subset
<1>5. f \in Surjection(Active, OpenUuids)
  BY DEF OpenUuids, Surjection
<1> HIDE DEF f, Active
<1>6. IsFiniteSet(OpenUuids) /\ Cardinality(OpenUuids) <= Cardinality(Active)
  BY <1>4, <1>5, FS_Surjection
<1>7. Cardinality(OpenUuids) \in Nat /\ Cardinality(Active) \in Nat
  BY <1>4, <1>6, FS_CardinalityType
<1> QED BY <1>1, <1>4, <1>6, <1>7

(* activate_slot opens a mailbox, or refuses for want of memory.           *)
LEMMA ActivateSteps ==
  ASSUME IInv, IInv',
         NEW i \in free, NEW u \in Uuids, NEW max \in 1 .. MaxBytes, NEW memory \in BOOLEAN,
         Matches(u) = {}, Activate(i, u, max, memory)
  PROVE  Abstract!Step
<1>1. i \in Index /\ chans \in [Index -> Channel] /\ ~ chans[i].active
  BY DEF IInv, TypeOK, BitmapMatches
<1>2. chans' = [chans EXCEPT ![i] = Activated(chans[i], u, max, memory)]
  BY DEF Activate
<1>3. /\ chans'[i] = Activated(chans[i], u, max, memory)
      /\ \A j \in Index \ {i} : chans'[j] = chans[j]
  BY <1>1, <1>2
<1>4. CASE memory
  <2>1. /\ chans'[i] = [EmptyChannel EXCEPT !.active = TRUE, !.uuid = u, !.max = max,
                                            !.alloc = TRUE]
        /\ chans'[i] \in Channel
    BY <1>1, <1>3, <1>4 DEF Activated, IInv, TypeOK
  <2>2. chans'[i].active /\ chans'[i].uuid = u /\ chans'[i].max = max /\ chans'[i].count = 0
    BY <2>1 DEF EmptyChannel
  <2>3. Contents(chans'[i]) = <<>>
    BY <2>1, <2>2, ContentsAre, EmptySeq
  <2>4. u \in OpenUuids' /\ BoxOf(u)' = <<>> /\ LimitOf(u)' = max
    BY <1>1, <2>2, <2>3, ShownNext
  <2>5. /\ [v \in Uuids |-> BoxOf(v)]' = [[v \in Uuids |-> BoxOf(v)] EXCEPT ![u] = <<>>]
        /\ [v \in Uuids |-> LimitOf(v)]' = [[v \in Uuids |-> LimitOf(v)] EXCEPT ![u] = max]
        /\ \A v : v # u => (v \in OpenUuids' <=> v \in OpenUuids)
    BY <1>1, <1>3, <2>2, <2>4, BoxesAfter
  <2>6. u \notin OpenUuids /\ Cardinality(OpenUuids) < NChans
    BY RoomForOne DEF OpenUuids, Matches
  <2>7. OpenUuids' = OpenUuids \cup {u}
    BY <2>4, <2>5
  <2>8. out' = [op |-> "open", uuid |-> u]
    BY <1>4 DEF Activate
  <2>9. Abstract!OpenSome(u, max)
    <3>1. /\ [v \in Uuids |-> BoxOf(v)]' = [[v \in Uuids |-> BoxOf(v)] EXCEPT ![u] = <<>>]
          /\ [v \in Uuids |-> LimitOf(v)]' = [[v \in Uuids |-> LimitOf(v)] EXCEPT ![u] = max]
      BY <2>5
    <3>2. Abstract!Cardinality(OpenUuids) = Cardinality(OpenUuids)
      BY DEF Abstract!Cardinality, Cardinality
    <3> QED BY <2>6, <2>7, <2>8, <3>1, <3>2 DEF Abstract!OpenSome
  <2> QED BY <2>9 DEF Abstract!Step
<1>5. CASE ~ memory
  <2>1. ~ chans'[i].active
    BY <1>1, <1>3, <1>5 DEF Activated, Channel
  <2>2. \A v : /\ v \in OpenUuids' <=> v \in OpenUuids
               /\ BoxOf(v)' = BoxOf(v) /\ LimitOf(v)' = LimitOf(v)
    <3> SUFFICES ASSUME NEW v
                 PROVE  /\ v \in OpenUuids' <=> v \in OpenUuids
                        /\ BoxOf(v)' = BoxOf(v) /\ LimitOf(v)' = LimitOf(v)
      OBVIOUS
    <3>1. PICK w : w # v
      <4>1. v # {v} \/ v # {}
        OBVIOUS
      <4> QED BY <4>1
    <3> QED BY <1>1, <1>3, <2>1, <3>1, OthersShown
  <2>3. Abstract!Refuse("not opened")
    BY <1>5, <2>2 DEF Abstract!Refuse, Activate
  <2> QED BY <2>3 DEF Abstract!Step
<1> QED BY <1>4, <1>5

LEMMA CreateSteps ==
  ASSUME IInv, IInv', NEW max \in 1 .. MaxBytes, NEW memory \in BOOLEAN, Create(max, memory)
  PROVE  Abstract!Step
<1>1. CASE free = {} /\ Fail("not opened")
  BY <1>1, SameShown DEF Fail, Abstract!Step, Abstract!Refuse
<1>2. CASE free # {} /\ \E u \in RuntimeUuids(Min(free)) : Activate(Min(free), u, max, memory)
  <2>1. Min(free) \in free /\ Min(free) \in Index
    BY <1>2, MinIsLeast, ConstantFacts DEF IInv, TypeOK
  <2>2. PICK u \in RuntimeUuids(Min(free)) : Activate(Min(free), u, max, memory)
    BY <1>2
  <2>3. u \in Uuids /\ Matches(u) = {}
    <3>1. CASE u \in Random /\ Matches(u) = {}
      BY <3>1 DEF Uuids
    <3>2. CASE u = Fallback[Min(free)]
      BY <2>1, <3>2, ConstantFacts DEF IInv, FallbackInPlace, BitmapMatches, Matches
    <3> QED BY <3>1, <3>2 DEF RuntimeUuids
  <2> QED BY <2>1, <2>2, <2>3, ActivateSteps
<1> QED BY <1>1, <1>2 DEF Create

LEMMA ReserveSteps ==
  ASSUME IInv, IInv', NEW u \in Named, NEW max \in 1 .. MaxBytes, NEW memory \in BOOLEAN,
         ReserveNamed(u, max, memory)
  PROVE  Abstract!Step
<1>1. u \in Uuids
  BY DEF Uuids
<1>2. CASE Known(u) /\ out' = [op |-> "open", uuid |-> u] /\ UNCHANGED <<chans, free>>
  <2>1. u \in OpenUuids
    BY <1>1, <1>2, KnownIsOpen
  <2>2. Abstract!Reopen(u)
    BY <1>2, <2>1, SameShown DEF Abstract!Reopen
  <2> QED BY <1>1, <2>2 DEF Abstract!Step
<1>3. CASE Fail("not opened")
  BY <1>3, SameShown DEF Fail, Abstract!Step, Abstract!Refuse
<1>4. CASE ~ Known(u) /\ free # {} /\ Activate(Min(free), u, max, memory)
  <2>1. Min(free) \in free
    BY <1>4, MinIsLeast, ConstantFacts DEF IInv, TypeOK
  <2>2. Matches(u) = {}
    BY <1>1, <1>4, ChannelsAssumption DEF Known
  <2> QED BY <1>1, <1>4, <2>1, <2>2, ActivateSteps
<1> QED BY <1>2, <1>3, <1>4 DEF ReserveNamed

(* What an open channel shows, by its uuid.                                *)
LEMMA ShownAt ==
  ASSUME IInv, NEW u \in Uuids, u \in OpenUuids
  PROVE  /\ IndexFor(u) \in Index /\ chans[IndexFor(u)] \in Channel
         /\ chans[IndexFor(u)].active /\ chans[IndexFor(u)].alloc
         /\ chans[IndexFor(u)].uuid = u
         /\ BoxOf(u) = Contents(chans[IndexFor(u)]) /\ LimitOf(u) = chans[IndexFor(u)].max
<1>1. IndexFor(u) \in Index /\ chans[IndexFor(u)].active /\ chans[IndexFor(u)].uuid = u
  BY KnownIsOpen, IndexForMatches
<1> QED BY <1>1 DEF BoxOf, LimitOf, IInv, TypeOK, BitmapMatches

(* The abstract state after a step that changes one queue.                 *)
LEMMA OneQueue ==
  ASSUME NEW u \in Uuids, NEW q, u \in OpenUuids, u \in OpenUuids',
         BoxOf(u)' = q, LimitOf(u)' = LimitOf(u),
         [v \in Uuids |-> BoxOf(v)]' = [[v \in Uuids |-> BoxOf(v)] EXCEPT ![u] = BoxOf(u)'],
         [v \in Uuids |-> LimitOf(v)]'
            = [[v \in Uuids |-> LimitOf(v)] EXCEPT ![u] = LimitOf(u)'],
         \A v : v # u => (v \in OpenUuids' <=> v \in OpenUuids)
  PROVE  /\ [v \in Uuids |-> BoxOf(v)]' = [[v \in Uuids |-> BoxOf(v)] EXCEPT ![u] = q]
         /\ [v \in Uuids |-> LimitOf(v)]' = [v \in Uuids |-> LimitOf(v)]
         /\ OpenUuids' = OpenUuids
<1>1. [v \in Uuids |-> BoxOf(v)]' = [[v \in Uuids |-> BoxOf(v)] EXCEPT ![u] = q]
  OBVIOUS
<1>2. [v \in Uuids |-> LimitOf(v)]' = [v \in Uuids |-> LimitOf(v)]
  OBVIOUS
<1>3. OpenUuids' = OpenUuids
  OBVIOUS
<1> QED BY <1>1, <1>2, <1>3

LEMMA SendSteps ==
  ASSUME IInv, IInv', NEW u \in Uuids, NEW m \in Payloads, Send(u, m)
  PROVE  Abstract!Step
<1> DEFINE i == IndexFor(u)
<1>1. CASE Known(u) /\ Accepts(chans[i], m)
  <2>1. u \in OpenUuids
    BY <1>1, KnownIsOpen
  <2>2. PICK ch \in Channel : ch = chans[i]
    BY <2>1, ShownAt
  <2>3. /\ i \in Index /\ ch.active /\ ch.uuid = u
        /\ BoxOf(u) = Contents(ch) /\ LimitOf(u) = ch.max
    BY <2>1, <2>2, ShownAt
  <2>4. /\ chans' = [chans EXCEPT ![i] = Enqueued(ch, m)]
        /\ out' = [op |-> "sent", uuid |-> u] /\ UNCHANGED free
    BY <1>1, <2>2 DEF Send
  <2> HIDE DEF i
  <2>5. /\ chans'[i] = Enqueued(ch, m) /\ Enqueued(ch, m) \in Channel
        /\ \A j \in Index \ {i} : chans'[j] = chans[j]
    BY <2>3, <2>4 DEF IInv, TypeOK
  <2>6. ch.count < RingSlots /\ Len(m) <= ch.max /\ (ch.head + ch.count) % RingSlots = ch.tail
    BY <1>1, <2>2, <2>3 DEF Accepts, IInv, RingShape
  <2>7. /\ Enqueued(ch, m).active = ch.active /\ Enqueued(ch, m).uuid = ch.uuid
        /\ Enqueued(ch, m).max = ch.max
    BY DEF Enqueued, Channel
  <2>8. Contents(Enqueued(ch, m)) = Append(Contents(ch), m)
    BY <2>5, <2>6, EnqueuedAppends
  <2>9. u \in OpenUuids' /\ BoxOf(u)' = Append(BoxOf(u), m) /\ LimitOf(u)' = LimitOf(u)
    BY <2>3, <2>5, <2>7, <2>8, ShownNext
  <2>10. /\ [v \in Uuids |-> BoxOf(v)]' = [[v \in Uuids |-> BoxOf(v)] EXCEPT ![u] = BoxOf(u)']
         /\ [v \in Uuids |-> LimitOf(v)]'
               = [[v \in Uuids |-> LimitOf(v)] EXCEPT ![u] = LimitOf(u)']
         /\ \A v : v # u => (v \in OpenUuids' <=> v \in OpenUuids)
    <3>1. chans[i].uuid = u /\ chans'[i].uuid = u
      BY <2>2, <2>3, <2>5, <2>7 DEF i
    <3> QED BY <2>3, <2>5, <3>1, BoxesAfter
  <2>11. /\ [v \in Uuids |-> BoxOf(v)]'
               = [[v \in Uuids |-> BoxOf(v)] EXCEPT ![u] = Append(BoxOf(u), m)]
         /\ [v \in Uuids |-> LimitOf(v)]' = [v \in Uuids |-> LimitOf(v)]
         /\ OpenUuids' = OpenUuids
    BY <2>1, <2>9, <2>10, OneQueue
  <2>12. Len([v \in Uuids |-> BoxOf(v)][u]) < RingSlots /\ Len(m) <= [v \in Uuids |-> LimitOf(v)][u]
    BY <2>3, <2>6, ContentsAre
  <2>13. Abstract!Post(u, m)
    BY <2>1, <2>4, <2>11, <2>12 DEF Abstract!Post
  <2> QED BY <2>13 DEF Abstract!Step
<1>2. CASE ~(Known(u) /\ Accepts(chans[i], m))
  <2>1. Fail("not sent")
    BY <1>2 DEF Send
  <2>2. ASSUME u \in OpenUuids
        PROVE  \/ Len([v \in Uuids |-> BoxOf(v)][u]) = RingSlots
               \/ Len(m) > [v \in Uuids |-> LimitOf(v)][u]
    <3>1. PICK ch \in Channel : ch = chans[i]
      BY <2>2, ShownAt
    <3>2. ch.alloc /\ BoxOf(u) = Contents(ch) /\ LimitOf(u) = ch.max
      BY <2>2, <3>1, ShownAt
    <3>3. ~ Accepts(ch, m)
      BY <1>2, <2>2, <3>1, KnownIsOpen
    <3>4. /\ ch.count \in 0 .. RingSlots /\ ch.max \in 0 .. MaxBytes /\ Len(m) \in Nat
          /\ RingSlots \in Nat /\ MaxBytes \in Nat
      BY ChannelsAssumption, LenProperties DEF Channel
    <3>5. ch.count = RingSlots \/ Len(m) > ch.max
      BY <3>2, <3>3, <3>4 DEF Accepts
    <3> QED BY <3>2, <3>5, ContentsAre
  <2>3. Abstract!RefusePost(u, m)
    BY <2>1, <2>2, SameShown DEF Abstract!RefusePost, Abstract!Refuse, Fail
  <2> QED BY <2>3 DEF Abstract!Step
<1> QED BY <1>1, <1>2

LEMMA MinOfTwo ==
  ASSUME NEW a \in Nat, NEW b \in Nat
  PROVE  Min({a, b}) = IF a < b THEN a ELSE b
BY DEF Min

LEMMA RecvSteps ==
  ASSUME IInv, IInv', NEW u \in Uuids, NEW size \in 1 .. MaxBytes, Recv(u, size)
  PROVE  Abstract!Step
<1> DEFINE i == IndexFor(u)
<1>1. CASE Known(u) /\ chans[i].alloc /\ chans[i].count > 0
  <2>1. u \in OpenUuids
    BY <1>1, KnownIsOpen
  <2>2. PICK ch \in Channel : ch = chans[i]
    BY <2>1, ShownAt
  <2>3. /\ i \in Index /\ ch.active /\ ch.uuid = u
        /\ BoxOf(u) = Contents(ch) /\ LimitOf(u) = ch.max
    BY <2>1, <2>2, ShownAt
  <2>4. /\ chans' = [chans EXCEPT ![i] = Dequeued(ch)] /\ UNCHANGED free
        /\ out' = [op |-> "received", uuid |-> u, room |-> size, data |-> Received(ch, size)]
    BY <1>1, <2>2 DEF Recv
  <2>5. ch.count > 0
    BY <1>1, <2>2
  <2> HIDE DEF i
  <2>6. /\ chans'[i] = Dequeued(ch) /\ Dequeued(ch) \in Channel
        /\ \A j \in Index \ {i} : chans'[j] = chans[j]
    BY <2>3, <2>4 DEF IInv, TypeOK
  <2>7. /\ Dequeued(ch).active = ch.active /\ Dequeued(ch).uuid = ch.uuid
        /\ Dequeued(ch).max = ch.max
    BY DEF Dequeued, Channel
  <2>8. /\ Contents(ch) # <<>> /\ Head(Contents(ch)) = ch.ring[ch.head]
        /\ Contents(Dequeued(ch)) = Tail(Contents(ch))
    BY <2>5, <2>6, DequeuedTakes
  <2>9. u \in OpenUuids' /\ BoxOf(u)' = Tail(BoxOf(u)) /\ LimitOf(u)' = LimitOf(u)
    BY <2>3, <2>6, <2>7, <2>8, ShownNext
  <2>10. /\ [v \in Uuids |-> BoxOf(v)]' = [[v \in Uuids |-> BoxOf(v)] EXCEPT ![u] = BoxOf(u)']
         /\ [v \in Uuids |-> LimitOf(v)]'
               = [[v \in Uuids |-> LimitOf(v)] EXCEPT ![u] = LimitOf(u)']
         /\ \A v : v # u => (v \in OpenUuids' <=> v \in OpenUuids)
    <3>1. chans[i].uuid = u /\ chans'[i].uuid = u
      BY <2>2, <2>3, <2>6, <2>7 DEF i
    <3> QED BY <2>3, <2>6, <3>1, BoxesAfter
  <2>11. /\ [v \in Uuids |-> BoxOf(v)]' = [[v \in Uuids |-> BoxOf(v)] EXCEPT ![u] = Tail(BoxOf(u))]
         /\ [v \in Uuids |-> LimitOf(v)]' = [v \in Uuids |-> LimitOf(v)]
         /\ OpenUuids' = OpenUuids
    BY <2>1, <2>9, <2>10, OneQueue
  <2>12. ch.ring[ch.head] \in Payloads
    BY DEF Channel, Ring
  <2>13. size \in Nat /\ Len(ch.ring[ch.head]) \in Nat
    BY <2>12, ConstantFacts, ChannelsAssumption, LenProperties
  <2>14. Received(ch, size) =
           SubSeq(ch.ring[ch.head], 1,
                  IF size < Len(ch.ring[ch.head]) THEN size ELSE Len(ch.ring[ch.head]))
    BY <2>13, MinOfTwo DEF Received
  <2>15. Head([v \in Uuids |-> BoxOf(v)][u]) = ch.ring[ch.head]
         /\ [v \in Uuids |-> BoxOf(v)][u] # <<>>
    BY <2>3, <2>8
  <2>16. Abstract!Take(u, size)
    BY <2>1, <2>4, <2>11, <2>14, <2>15 DEF Abstract!Take
  <2> QED BY <2>16 DEF Abstract!Step
<1>2. CASE ~(Known(u) /\ chans[i].alloc /\ chans[i].count > 0)
  <2>1. Fail("not received")
    BY <1>2 DEF Recv
  <2>2. ASSUME u \in OpenUuids PROVE [v \in Uuids |-> BoxOf(v)][u] = <<>>
    <3>1. PICK ch \in Channel : ch = chans[i]
      BY <2>2, ShownAt
    <3>2. ch.alloc /\ BoxOf(u) = Contents(ch)
      BY <2>2, <3>1, ShownAt
    <3>3. ~(ch.count > 0) /\ ch.count \in 0 .. RingSlots
      BY <1>2, <2>2, <3>1, <3>2, KnownIsOpen DEF Channel
    <3>4. ch.count = 0
      BY <3>3, ConstantFacts
    <3>5. Contents(ch) = <<>>
      BY <3>4, ContentsAre, EmptySeq
    <3> QED BY <3>2, <3>5
  <2>3. Abstract!RefuseTake(u)
    BY <2>1, <2>2, SameShown DEF Abstract!RefuseTake, Abstract!Refuse, Fail
  <2> QED BY <2>3 DEF Abstract!Step
<1> QED BY <1>1, <1>2

LEMMA DestroySteps ==
  ASSUME IInv, IInv', NEW u \in Uuids, Destroy(u)
  PROVE  Abstract!Step
<1> DEFINE i == IndexFor(u)
<1>1. CASE Known(u)
  <2>1. u \in OpenUuids
    BY <1>1, KnownIsOpen
  <2>2. /\ i \in Index /\ chans[i] \in Channel /\ chans[i].active /\ chans[i].uuid = u
    BY <2>1, ShownAt
  <2>3. /\ chans' = [chans EXCEPT ![i] = Closed(chans[i])]
        /\ out' = [op |-> "closed", uuid |-> u]
    BY <1>1 DEF Destroy
  <2> HIDE DEF i
  <2>4. ~ chans'[i].active /\ \A j \in Index \ {i} : chans'[j] = chans[j]
    BY <2>2, <2>3 DEF IInv, TypeOK, Closed, Channel
  <2>5. \A j \in Index : chans'[j].active => chans'[j].uuid # u
    BY <2>2, <2>4 DEF IInv, UuidUnique
  <2>6. u \notin OpenUuids' /\ BoxOf(u)' = <<>> /\ LimitOf(u)' = 0
    BY <2>5 DEF OpenUuids, BoxOf, LimitOf
  <2>7. /\ [v \in Uuids |-> BoxOf(v)]' = [[v \in Uuids |-> BoxOf(v)] EXCEPT ![u] = <<>>]
        /\ [v \in Uuids |-> LimitOf(v)]' = [[v \in Uuids |-> LimitOf(v)] EXCEPT ![u] = 0]
        /\ \A v : v # u => (v \in OpenUuids' <=> v \in OpenUuids)
    BY <2>2, <2>4, <2>6, BoxesAfter
  <2>8. OpenUuids' = OpenUuids \ {u}
    BY <2>6, <2>7
  <2>9. Abstract!Close(u)
    BY <2>1, <2>3, <2>7, <2>8 DEF Abstract!Close
  <2> QED BY <2>9 DEF Abstract!Step
<1>2. CASE ~ Known(u)
  <2>1. u \notin OpenUuids /\ Fail("not closed")
    BY <1>2, KnownIsOpen DEF Destroy
  <2>2. Abstract!RefuseClose(u)
    BY <2>1, SameShown DEF Abstract!RefuseClose, Abstract!Refuse, Fail
  <2> QED BY <2>2 DEF Abstract!Step
<1> QED BY <1>1, <1>2

LEMMA StartMapped == Init => Abstract!Start
<1> SUFFICES ASSUME Init PROVE Abstract!Start
  OBVIOUS
<1>1. \A i \in Index : ~ chans[i].active
  BY DEF Init, EmptyChannel
<1>2. OpenUuids = {}
  BY <1>1 DEF OpenUuids
<1> QED BY <1>2 DEF Abstract!Start, BoxOf, LimitOf, Init

LEMMA StepMapped ==
  ASSUME IInv, IInv', [Next]_vars PROVE [Abstract!Step]_Abstract!abstractVars
<1>1. CASE UNCHANGED vars
  BY <1>1, SameShown DEF vars, Abstract!abstractVars
<1>2. ASSUME NEW max \in 1 .. MaxBytes, NEW memory \in BOOLEAN,
             Create(max, memory) \/ \E u \in Named : ReserveNamed(u, max, memory)
      PROVE  Abstract!Step
  BY <1>2, CreateSteps, ReserveSteps
<1>3. ASSUME NEW u \in Uuids,
             \/ \E m \in Payloads : Send(u, m)
             \/ \E size \in 1 .. MaxBytes : Recv(u, size)
             \/ Destroy(u)
      PROVE  Abstract!Step
  BY <1>3, SendSteps, RecvSteps, DestroySteps
<1> QED BY <1>1, <1>2, <1>3 DEF Next

(* The channel table is a set of bounded mailboxes, one for each uuid that *)
(* is open: messages of a channel leave it in the order they entered it,   *)
(* none twice and none on another channel, and an operation is refused     *)
(* only for a reason its caller can see, for want of memory apart.         *)
THEOREM ChannelsAreMailboxes == Spec => ImplementsMailboxes
<1>1. IInv /\ IInv' /\ [Next]_vars => [Abstract!Step]_Abstract!abstractVars
  BY StepMapped
<1> QED BY <1>1, StartMapped, Invariance, PTL DEF Spec, ImplementsMailboxes, Abstract!Mailbox
=============================================================================
