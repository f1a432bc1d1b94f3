----------------------------- MODULE FreeFrames -----------------------------
(***************************************************************************)
(* What the physical frame allocator promises its clients: a set of frames *)
(* of which each is free, held by a client, or lost.  A frame becomes held *)
(* only from free, so it is never handed out twice, and only a held frame  *)
(* comes back.  How the free set is stored is the business of FramePool.   *)
(***************************************************************************)
EXTENDS FiniteSets

CONSTANT Managed

VARIABLES free, held, lost

Init == free = Managed /\ held = {} /\ lost = {}

(* One or more free frames are handed out. *)
Alloc(S) ==
    /\ S # {} /\ S \subseteq free
    /\ free' = free \ S
    /\ held' = held \cup S
    /\ UNCHANGED lost

(* A held frame is free again. *)
Return(f) ==
    /\ f \in held
    /\ held' = held \ {f}
    /\ free' = free \cup {f}
    /\ UNCHANGED lost

(* A returned frame for which there was no room in the allocator's table. *)
Lose(f) ==
    /\ f \in held
    /\ held' = held \ {f}
    /\ lost' = lost \cup {f}
    /\ UNCHANGED free

Next ==
    \/ \E S \in SUBSET free : Alloc(S)
    \/ \E f \in held : Return(f) \/ Lose(f)

Spec == Init /\ [][Next]_<<free, held, lost>>
=============================================================================
