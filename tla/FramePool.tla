------------------------------ MODULE FramePool ------------------------------
(***************************************************************************)
(* The physical frame allocator (kernel/src/mm/frame_alloc.rs): a sorted   *)
(* table of free segments behind one lock, so every call is one step.      *)
(* Frames are numbered; a segment holds the frames start .. end - 1.       *)
(*                                                                         *)
(* held and lost are history: the frames clients have, and those whose     *)
(* return was refused because the segment table had no room.               *)
(***************************************************************************)
EXTENDS Integers, SequencesExt

CONSTANTS
    Regions,          \* sequence of usable regions, [start, end] in frames
    Reserved,         \* frames reserved::is_reserved answers true for
    MaxFreeSegments,  \* MAX_FREE_SEGMENTS
    MaxRun            \* bound: longest contiguous run a client asks for

ASSUME PoolAssumption ==
    /\ Regions \in Seq([start : Nat, end : Nat])
    /\ MaxFreeSegments \in Nat \ {0}
    /\ MaxRun \in Nat \ {0}

VARIABLES segments, freeFrames, held, lost

vars == <<segments, freeFrames, held, lost>>

Segment(s, e) == [start |-> s, end |-> e]
FramesOf(seg) == seg.start .. seg.end - 1
FreeSet(segs) == UNION {FramesOf(segs[i]) : i \in DOMAIN segs}

-----------------------------------------------------------------------------
(* The segment table. *)

HasRoom(segs) == Len(segs) < MaxFreeSegments

(* The frames the merged segment reaches stay in the table. *)
MutInsertFree(segs, s, e) ==
    LET at == Cardinality({i \in DOMAIN segs : segs[i].start < s})
        touches == at > 0 /\ segs[at].end >= s
    IN  IF ~touches /\ ~HasRoom(segs)
        THEN [ok |-> FALSE, segs |-> segs]
        ELSE [ok |-> TRUE,
              segs |-> IF touches
                       THEN [segs EXCEPT ![at].end = IF e > @ THEN e ELSE @]
                       ELSE InsertAt(segs, at + 1, Segment(s, e))]

(* insert_free_segment: the segment before is extended when it reaches s,  *)
(* otherwise a slot is needed; the segments the result reaches are then    *)
(* swallowed.                                                              *)
InsertFree(segs, s, e) ==
    LET at == Cardinality({i \in DOMAIN segs : segs[i].start < s})
        touches == at > 0 /\ segs[at].end >= s
        grown == IF touches
                 THEN [segs EXCEPT ![at].end = IF e > @ THEN e ELSE @]
                 ELSE InsertAt(segs, at + 1, Segment(s, e))
        m == IF touches THEN at ELSE at + 1
        reached == {j \in m + 1 .. Len(grown) : grown[j].start <= grown[m].end}
        ends == {grown[j].end : j \in reached \cup {m}}
    IN  IF ~touches /\ ~HasRoom(segs)
        THEN [ok |-> FALSE, segs |-> segs]
        ELSE [ok |-> TRUE,
              segs |-> SubSeq(grown, 1, m - 1)
                       \o <<Segment(grown[m].start, Max(ends))>>
                       \o SubSeq(grown, m + 1 + Cardinality(reached), Len(grown))]

(* A frame off the front whatever the length of the run. *)
MutConsumeFront(segs, i, n) ==
    IF segs[i].start + 1 >= segs[i].end
    THEN RemoveAt(segs, i)
    ELSE [segs EXCEPT ![i].start = @ + 1]

(* consume_segment_front *)
ConsumeFront(segs, i, n) ==
    IF segs[i].start + n >= segs[i].end
    THEN RemoveAt(segs, i)
    ELSE [segs EXCEPT ![i].start = @ + n]

(* The split is not checked against the table. *)
MutSplitNeedsRoom(segs, i, f) == FALSE

(* The four ways claim_frame takes frame f out of segment i; only the last *)
(* needs a slot.                                                           *)
SplitNeedsRoom(segs, i, f) ==
    segs[i].start # f /\ segs[i].end # f + 1

Carve(segs, i, f) ==
    CASE segs[i] = Segment(f, f + 1) -> RemoveAt(segs, i)
      [] segs[i].start = f /\ segs[i].end # f + 1 -> [segs EXCEPT ![i].start = f + 1]
      [] segs[i].start # f /\ segs[i].end = f + 1 -> [segs EXCEPT ![i].end = f]
      [] OTHER -> InsertAt([segs EXCEPT ![i].end = f], i + 1, Segment(f + 1, segs[i].end))

(* init: the frames of every usable region in turn; a run of unreserved    *)
(* ones, which starts at from, is added at the reserved frame or the end   *)
(* of the region that follows it, if the table has room.                   *)
AddRun(segs, s, e) == IF s < e THEN InsertFree(segs, s, e).segs ELSE segs

AddRegion(segs, region) ==
    LET before[f \in 0 .. region.end] ==    \* the scan has come to frame f
          IF f <= region.start THEN [table |-> segs, from |-> region.start]
          ELSE IF f - 1 \in Reserved
          THEN [table |-> AddRun(before[f - 1].table, before[f - 1].from, f - 1), from |-> f]
          ELSE before[f - 1]
    IN  AddRun(before[region.end].table, before[region.end].from, region.end)

InitialSegments ==
    LET after[i \in 0 .. Len(Regions)] ==
          IF i = 0 THEN <<>> ELSE AddRegion(after[i - 1], Regions[i])
    IN  after[Len(Regions)]

Managed == FreeSet(InitialSegments)
total == Cardinality(Managed)

-----------------------------------------------------------------------------
Init ==
    /\ segments = InitialSegments
    /\ freeFrames = total
    /\ held = {}
    /\ lost = {}

Take(segs, S) ==
    /\ segments' = segs
    /\ freeFrames' = freeFrames - Cardinality(S)
    /\ held' = held \cup S
    /\ UNCHANGED lost

(* alloc_frame: the first frame of the first segment. *)
AllocFrame ==
    /\ segments # <<>>
    /\ Take(ConsumeFront(segments, 1, 1), {segments[1].start})

(* alloc_contiguous_run: the front of the first segment long enough. *)
AllocRun(n) ==
    \E i \in DOMAIN segments :
        /\ Cardinality(FramesOf(segments[i])) >= n
        /\ \A j \in 1 .. i - 1 : Cardinality(FramesOf(segments[j])) < n
        /\ Take(ConsumeFront(segments, i, n),
                segments[i].start .. segments[i].start + n - 1)

(* claim_frame: one given frame, refused when it is not free or when the   *)
(* split it needs has no slot.                                             *)
ClaimFrame(f) ==
    \E i \in DOMAIN segments :
        /\ f \in FramesOf(segments[i])
        /\ SplitNeedsRoom(segments, i, f) => HasRoom(segments)
        /\ Take(Carve(segments, i, f), {f})

(* dealloc_frame: refused on a full pool, for a frame that is free already *)
(* and for a reserved one; without room the frame is dropped.              *)
DeallocFrame(f) ==
    LET r == InsertFree(segments, f, f + 1)
    IN  /\ freeFrames < total
        /\ \A i \in DOMAIN segments : f \notin FramesOf(segments[i])
        /\ f \notin Reserved
        /\ held' = held \ {f}
        /\ IF r.ok
           THEN /\ segments' = r.segs
                /\ freeFrames' = freeFrames + 1
                /\ UNCHANGED lost
           ELSE /\ lost' = lost \cup {f}
                /\ UNCHANGED <<segments, freeFrames>>

(* Clients return what they hold, and may return a frame twice. *)
Next ==
    \/ AllocFrame
    \/ \E n \in 1 .. MaxRun : AllocRun(n)
    \/ \E f \in Managed : ClaimFrame(f)
    \/ \E f \in (Managed \ lost) \cup Reserved : DeallocFrame(f)

Spec == Init /\ [][Next]_vars

-----------------------------------------------------------------------------
(* Every variable is of its kind: the table fits its array, and no client  *)
(* holds a frame outside the managed ones.                                 *)
TypeOK ==
    /\ segments \in Seq([start : Nat, end : Nat])
    /\ Len(segments) <= MaxFreeSegments
    /\ freeFrames \in 0 .. total
    /\ held \subseteq Managed
    /\ lost \subseteq Managed

(* The table stays sorted and its segments neither overlap nor touch, so   *)
(* insert_free_segment's single look at the segment before is enough, and  *)
(* the counter equals the frames the table holds: what alloc_frame,        *)
(* claim_frame and dealloc_frame do to one they do to the other.           *)
TableCanonical ==
    /\ \A i \in DOMAIN segments : segments[i].start < segments[i].end
    /\ \A i, j \in DOMAIN segments : i < j => segments[i].end < segments[j].start
    /\ freeFrames = Cardinality(FreeSet(segments))

(* The allocator implements the set of frames its clients reason with: no  *)
(* frame is handed out twice, a duplicate free changes nothing, and only a *)
(* held frame is returned or lost.                                         *)
Frames == INSTANCE FreeFrames WITH free <- FreeSet(segments)
ImplementsFreeFrames == Frames!Spec

(* The comment on dealloc_frame, "coalescing with adjacent free segments": *)
(* a frame next to a free segment is never dropped, for it needs no slot.  *)
LostOnlyWhenIsolated ==
    [][\A f \in lost' \ lost : {f - 1, f + 1} \cap FreeSet(segments) = {}]_vars
=============================================================================
