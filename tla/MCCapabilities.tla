--------------------------- MODULE MCCapabilities ---------------------------
(* An instance of Capabilities for TLC: the kernel and two slots that are  *)
(* used again, one channel, and sets and quotas of one entry.              *)
EXTENDS Capabilities
=============================================================================
