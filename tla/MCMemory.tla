------------------------------ MODULE MCMemory ------------------------------
(* An instance of Memory for TLC: one space of two pages under one table,  *)
(* one of one page, one file, and fewer frames than they ask for together. *)
EXTENDS Memory
CONSTANTS s1, s2
MCNPages == [s \in Spaces |-> IF s = s1 THEN 2 ELSE 1]
=============================================================================
