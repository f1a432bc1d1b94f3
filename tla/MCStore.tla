------------------------------ MODULE MCStore ------------------------------
(* Three paths for two record sectors, so the store is filled. *)
EXTENDS Store
=============================================================================
