---------------------------- MODULE MCFramePool ----------------------------
(* Nine frames in two usable regions with one reserved hole: three free     *)
(* segments at the start, so a table of four is filled and overflows.      *)
EXTENDS FramePool

MCRegions == <<[start |-> 0, end |-> 6], [start |-> 7, end |-> 11]>>
MCReserved == {2}
=============================================================================
