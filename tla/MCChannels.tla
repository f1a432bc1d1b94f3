----------------------------- MODULE MCChannels -----------------------------
(* Instances of Channels for TLC: two slots, rings of two messages, and     *)
(* payloads of none or two bytes: rings wrap, fill and are reused, a limit  *)
(* of one byte refuses a message and a buffer of one byte truncates it.     *)
EXTENDS Channels

CONSTANTS n1, r1, f0, f1

MCPayloads == {<<>>, <<1, 2>>}
MCFallback == [i \in {0, 1} |-> IF i = 0 THEN f0 ELSE f1]
=============================================================================
