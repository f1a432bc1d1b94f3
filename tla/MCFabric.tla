------------------------------ MODULE MCFabric ------------------------------
(* A critical service, the compositor, and a restart. *)
EXTENDS Fabric

MCNotices == <<"init", "servicemgr", "graphd">>
=============================================================================
