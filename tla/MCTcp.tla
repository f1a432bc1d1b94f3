------------------------------- MODULE MCTcp -------------------------------
(* Instances of Tcp for TLC: sequence numbers that wrap, a backlog of one,  *)
(* as many connections as the table of a host holds and one more.           *)
EXTENDS Tcp
MCFirstIsn == [h \in Hosts |-> IF h = Client THEN SeqSpace - 1 ELSE SeqSpace - 2]
MCCookie == [p \in Ports |-> 7 + p]
MCNConns == [h \in Hosts |-> IF h = Client THEN 2 ELSE 1]
MCMaxSent == [h \in Hosts |-> [p \in Ports |-> IF p = 1 /\ h = Client THEN 2 ELSE 0]]
=============================================================================
