-------------------------------- MODULE Tcp --------------------------------
(***************************************************************************)
(* The TCP state machine of the kernel (kernel/src/net/tcp.rs) under its   *)
(* socket layer (kernel/src/net/mod.rs): two hosts that both run it over a *)
(* network that keeps order and may lose segments.  Every entry point      *)
(* holds the table's lock for its whole body, so each is one action; the   *)
(* client connects, the server listens and accepts.  A data byte is the    *)
(* number of its place in the stream, and a record whose active flag is    *)
(* clear is one in state Closed.  retransmit_len is never set, so          *)
(* tick_retransmits does nothing and no action stands for it.              *)
(***************************************************************************)
EXTENDS Integers, Sequences, SequencesExt, FiniteSets

CONSTANTS
  Client, Server,   \* the two hosts
  Ports,            \* local ports of the client's sockets
  ServerPort,       \* the port the server listens on
  NConns,           \* [host -> TCP_MAX_CONNS]
  RecvBuf,          \* TCP_RECV_BUF
  AcceptBacklog,    \* ACCEPT_BACKLOG
  MaxSockets,       \* MAX_SOCKETS, records for accepted connections
  MaxChunk,         \* MAX_CHUNK of send
  SeqSpace,         \* 2^32
  FirstIsn,         \* [host -> the first ISN alloc_isn returns]
  Cookie,           \* [port -> syn_cookie_isn of the flow]
  KeepaliveIdle, KeepaliveInterval, KeepaliveProbeMax, TimeWaitTicks,
  MaxSent,          \* bound: [host -> [port -> bytes its application sends]]
  MaxFlight,        \* bound: segments in flight when an application or a timer acts
  MaxTicks,         \* bound: calls of tick_timers, both hosts together
  MaxLoss           \* bound: segments the network loses

Hosts == {Client, Server}
Peer(h) == CHOOSE g \in Hosts : g # h
Slots(h) == 1 .. NConns[h]

ASSUME TcpAssumption ==
  /\ Client # Server
  /\ ServerPort \in Nat /\ Ports \subseteq Nat \ {ServerPort}
  /\ NConns \in [Hosts -> Nat \ {0}]
  /\ {RecvBuf, AcceptBacklog, MaxSockets, SeqSpace, KeepaliveIdle, TimeWaitTicks}
       \subseteq Nat \ {0}
  /\ KeepaliveProbeMax \in Nat /\ KeepaliveInterval \in 0 .. KeepaliveIdle
  /\ FirstIsn \in [Hosts -> 0 .. SeqSpace - 1] /\ Cookie \in [Ports -> 0 .. SeqSpace - 1]

VARIABLES
  conns,      \* TcpTable.conns of each host
  isns,       \* TcpTable.isn_counter of each host, as the ISNs handed out
  listening,  \* the server's listener is active
  pending,    \* Listener.pending[..pending_len] of the server
  secret,     \* the server's syn_secret_ready
  socks,      \* the keys that have a record in the socket table of each host
  net,        \* segments on their way to each host
  sent, got,  \* history: bytes sent by, and handed to, the application of a flow
  dialled,    \* history: sockets that have been connected
  eof,        \* history: flows on which recv has answered end of stream
  ticks,      \* history: calls of tick_timers
  lost,       \* history: segments the network lost
  cut,        \* history: flows with data cut by a full buffer or refused by a
              \* full table
  dropped     \* history: flows with an end that keepalive has given up

vars == <<conns, isns, listening, pending, secret, socks, net,
          sent, got, dialled, eof, ticks, lost, cut, dropped>>

tables == <<isns, listening, pending, secret>>
marks == <<dialled, ticks, lost, cut, dropped>>

States == {"Closed", "SynSent", "SynReceived", "AcceptPending", "Established",
           "FinWait1", "FinWait2", "CloseWait", "LastAck", "TimeWait"}

Plus(a, b) == (a + b) % SeqSpace
Minus(a, b) == (a + SeqSpace - b) % SeqSpace
Isn(h) == (FirstIsn[h] + 5 * isns[h]) % SeqSpace

EmptyConn == [state |-> "Closed", lport |-> 0, rport |-> 0, nxt |-> 0, una |-> 0,
              rcv |-> 0, key |-> <<>>, buf |-> <<>>, idle |-> 0, probes |-> 0, wait |-> 0]
NewConn(state, lport, rport, nxt, una, rcv, key) ==
  [EmptyConn EXCEPT !.state = state, !.lport = lport, !.rport = rport, !.nxt = nxt,
                    !.una = una, !.rcv = rcv, !.key = key]
FlowKey(port, isn, seq) == <<port, isn, seq>>

Segment(lport, rport, seq, ack, flags, data) ==
  [sport |-> lport, dport |-> rport, seq |-> seq, ack |-> ack, flags |-> flags, data |-> data]
MutAdvanced(c, n) == c    \* faulty: snd_nxt is not moved past what was sent
Advanced(c, n) == [c EXCEPT !.nxt = Plus(@, n)]
Reply(c, flags, data) == Segment(c.lport, c.rport, c.nxt, c.rcv, flags, data)
Reset(c) == Segment(c.lport, c.rport, c.una, 0, {"RST"}, <<>>)

Least(S) == CHOOSE i \in S : \A j \in S : i <= j
FreeSlots(h) == {i \in Slots(h) : conns[h][i].state = "Closed"}
OfKey(h, k) == {i \in Slots(h) : conns[h][i].state # "Closed" /\ conns[h][i].key = k}
OfFlow(h, g) == {i \in Slots(h) : /\ conns[h][i].state # "Closed"
                                  /\ conns[h][i].lport = g.dport
                                  /\ conns[h][i].rport = g.sport}
ClientPort(c) == IF c.lport = ServerPort THEN c.rport ELSE c.lport

-----------------------------------------------------------------------------
Quiet == Len(net[Client]) + Len(net[Server]) < MaxFlight

(* The socket calls.  A socket of the client is known by its port; the     *)
(* application connects it once, which socket_connect does not insist on.  *)
Connect(p) ==
  /\ Quiet /\ p \notin dialled /\ <<p>> \in socks[Client] /\ FreeSlots(Client) # {}
  /\ LET isn == Isn(Client)
         c == NewConn("SynSent", p, ServerPort, Plus(isn, 1), isn, 0, <<p>>)
     IN /\ conns' = [conns EXCEPT ![Client][Least(FreeSlots(Client))] = c]
        /\ net' = [net EXCEPT ![Server] =
                     Append(@, Segment(p, ServerPort, isn, 0, {"SYN"}, <<>>))]
  /\ isns' = [isns EXCEPT ![Client] = @ + 1]
  /\ dialled' = dialled \cup {p}
  /\ UNCHANGED <<listening, pending, secret, socks, sent, got, eof, ticks, lost, cut, dropped>>

Send(h, k, n) ==
  /\ Quiet /\ k \in socks[h] /\ OfKey(h, k) # {}
  /\ LET i == Least(OfKey(h, k))
         c == conns[h][i]
         p == ClientPort(c)
         data == [b \in 1 .. n |-> sent[h][p] + b]
     IN /\ c.state \in {"Established", "CloseWait"}
        /\ sent[h][p] + n <= MaxSent[h][p]
        /\ net' = [net EXCEPT ![Peer(h)] = Append(@, Reply(c, {"PSH", "ACK"}, data))]
        /\ conns' = [conns EXCEPT ![h][i] = Advanced(@, n)]
        /\ sent' = [sent EXCEPT ![h][p] = @ + n]
  /\ UNCHANGED <<tables, socks, got, eof, marks>>

MutDrained(buf, n) == buf    \* faulty: the remaining bytes are not shifted down
Drained(buf, n) == SubSeq(buf, n + 1, Len(buf))
PeerClosed(state) == state \in {"CloseWait", "LastAck", "Closed", "TimeWait"}
Recv(h, k, n) ==
  /\ k \in socks[h] /\ OfKey(h, k) # {}
  /\ LET i == Least(OfKey(h, k))
         c == conns[h][i]
         p == ClientPort(c)
     IN \/ /\ n <= Len(c.buf)
           /\ conns' = [conns EXCEPT ![h][i].buf = Drained(@, n)]
           /\ got' = [got EXCEPT ![h][p] = @ \o SubSeq(c.buf, 1, n)]
           /\ UNCHANGED eof
        \/ /\ c.buf = <<>> /\ PeerClosed(c.state)
           /\ eof' = eof \cup {<<h, p>>}
           /\ UNCHANGED <<conns, got>>
  /\ UNCHANGED <<tables, socks, net, sent, marks>>

(* socket_close: tcp::close, then the socket's record goes.                *)
Close(h, k) ==
  /\ Quiet /\ k \in socks[h]
  /\ socks' = [socks EXCEPT ![h] = @ \ {k}]
  /\ LET i == Least(OfKey(h, k))
         c == conns[h][i]
     IN \/ OfKey(h, k) = {} /\ UNCHANGED <<conns, net>>
        \/ /\ OfKey(h, k) # {} /\ c.state \in {"Established", "CloseWait"}
           /\ conns' = [conns EXCEPT ![h][i] = [Advanced(c, 1) EXCEPT !.state =
                          IF @ = "Established" THEN "FinWait1" ELSE "LastAck"]]
           /\ net' = [net EXCEPT ![Peer(h)] = Append(@, Reply(c, {"FIN", "ACK"}, <<>>))]
        \/ /\ OfKey(h, k) # {} /\ c.state \notin {"Established", "CloseWait"}
           /\ conns' = [conns EXCEPT ![h][i] = EmptyConn]
           /\ UNCHANGED net
  /\ UNCHANGED <<tables, sent, got, eof, marks>>

Listen ==
  /\ listening' = TRUE
  /\ UNCHANGED <<conns, isns, pending, secret, socks, net, sent, got, eof, marks>>

MutPopped(q) == q    \* faulty: the entry stays in the backlog
Popped(q) == Tail(q)
Accept ==
  /\ listening /\ pending # <<>> /\ Cardinality(socks[Server]) < MaxSockets
  /\ LET i == Head(pending)
     IN /\ conns' = [conns EXCEPT ![Server][i].state =
                       IF @ = "AcceptPending" THEN "Established" ELSE @]
        /\ socks' = [socks EXCEPT ![Server] = @ \cup {conns[Server][i].key}]
  /\ pending' = Popped(pending)
  /\ UNCHANGED <<isns, listening, secret, net, sent, got, eof, marks>>

-----------------------------------------------------------------------------
(* handle_segment.  The pieces that several states share: taking an        *)
(* acknowledgement, storing a payload, counting the peer's FIN.            *)
Acked(c, g) ==
  IF "ACK" \in g.flags /\ Minus(g.ack, c.una) <= Minus(c.nxt, c.una)
  THEN [c EXCEPT !.una = g.ack] ELSE c

MutRoom(c, g) == Len(g.data)    \* faulty: the room left is not looked at
Room(c, g) == Least({Len(g.data), RecvBuf - Len(c.buf)})
Stored(c, g) == [c EXCEPT !.buf = @ \o SubSeq(g.data, 1, Room(c, g)),
                          !.rcv = Plus(@, Room(c, g))]
FinTaken(c, state) == [c EXCEPT !.rcv = Plus(@, 1), !.state = state]

Ack(c) == Reply(c, {"ACK"}, <<>>)
AckIf(cond, c) == IF cond THEN <<Ack(c)>> ELSE <<>>

(* The AcceptPending branch.                                               *)
Waiting(c, g) ==
  LET d == Stored(Acked(c, g), g)
  IN IF "FIN" \in g.flags THEN FinTaken(d, "CloseWait") ELSE d

(* The first segment on its way to host h is taken; slot i becomes c, and  *)
(* out goes back to the sender.                                            *)
Answer(h, out) == net' = [net EXCEPT ![h] = Tail(@), ![Peer(h)] = @ \o out]
Becomes(h, i, c, out) == conns' = [conns EXCEPT ![h][i] = c] /\ Answer(h, out)
NoHandshake == UNCHANGED <<isns, pending, secret>>
Rest == UNCHANGED <<listening, socks, sent, got, dialled, eof, ticks, lost, dropped>>
CutIf(c, g) == cut' = IF Room(c, g) < Len(g.data) THEN cut \cup {ClientPort(c)} ELSE cut

Enqueued(q, i) == IF Len(q) < AcceptBacklog THEN Append(q, i) ELSE q

(* A SYN for the listener takes a slot, or is answered with a cookie when  *)
(* the backlog or the table is full; the cookie is followed by a RST,      *)
(* because there is still no connection.                                   *)
HandleSyn(h, g) ==
  /\ OfFlow(h, g) = {} /\ "SYN" \in g.flags /\ "ACK" \notin g.flags
  /\ h = Server /\ listening /\ g.dport = ServerPort
  /\ secret' = TRUE
  /\ IF Len(pending) >= AcceptBacklog \/ FreeSlots(h) = {}
     THEN /\ Answer(h, << Segment(g.dport, g.sport, Cookie[g.sport], Plus(g.seq, 1),
                                  {"SYN", "ACK"}, <<>>),
                          Segment(g.dport, g.sport, g.ack, 0, {"RST"}, <<>>) >>)
          /\ UNCHANGED <<conns, isns>>
     ELSE LET c == NewConn("SynReceived", g.dport, g.sport, Plus(Isn(h), 1), Isn(h),
                           Plus(g.seq, 1), FlowKey(g.sport, Isn(h), g.seq))
          IN /\ Becomes(h, Least(FreeSlots(h)), c,
                        <<Segment(g.dport, g.sport, Isn(h), c.rcv, {"SYN", "ACK"}, <<>>)>>)
             /\ isns' = [isns EXCEPT ![h] = @ + 1]
  /\ UNCHANGED <<pending, cut>> /\ Rest

(* An ACK that fits the cookie of its flow makes the connection, which     *)
(* then handles the same segment.                                          *)
CookieFits(h, g) ==
  /\ OfFlow(h, g) = {} /\ "ACK" \in g.flags /\ "SYN" \notin g.flags
  /\ h = Server /\ listening /\ g.dport = ServerPort /\ secret
  /\ g.ack = Plus(Cookie[g.sport], 1) /\ FreeSlots(h) # {}
HandleCookie(h, g) ==
  /\ CookieFits(h, g)
  /\ LET isn == Cookie[g.sport]
         i == Least(FreeSlots(h))
         c == NewConn("AcceptPending", g.dport, g.sport, Plus(isn, 1), g.ack, g.seq,
                      FlowKey(g.sport, isn, g.seq))
         d == Waiting(c, g)
     IN /\ Becomes(h, i, d, AckIf(g.data # <<>> \/ "FIN" \in g.flags, d))
        /\ pending' = Enqueued(pending, i)
        /\ CutIf(c, g)
  /\ UNCHANGED <<isns, secret>> /\ Rest

NoConnection(h, g) ==
  /\ OfFlow(h, g) = {} /\ ~ CookieFits(h, g)
  /\ ~ (/\ "SYN" \in g.flags /\ "ACK" \notin g.flags
        /\ h = Server /\ listening /\ g.dport = ServerPort)
  /\ Answer(h, IF "RST" \in g.flags THEN <<>>
               ELSE <<Segment(g.dport, g.sport, g.ack, 0, {"RST"}, <<>>)>>)
  /\ cut' = IF g.data # <<>> THEN cut \cup {Least({g.sport, g.dport} \cap Ports)} ELSE cut
  /\ UNCHANGED conns /\ NoHandshake /\ Rest

(* The connection whose flow a segment belongs to.                         *)
At(h, g, i, state) ==
  /\ OfFlow(h, g) # {} /\ i = Least(OfFlow(h, g))
  /\ conns[h][i].state = state

HandleSynSent(h, g, i) ==
  /\ At(h, g, i, "SynSent")
  /\ LET c == conns[h][i]
         d == [c EXCEPT !.rcv = Plus(g.seq, 1), !.una = g.ack, !.state = "Established"]
     IN IF {"SYN", "ACK"} \subseteq g.flags /\ g.ack = Plus(c.una, 1)
        THEN Becomes(h, i, d, <<Ack(d)>>)
        ELSE Becomes(h, i, c, <<>>)
  /\ UNCHANGED cut /\ NoHandshake /\ Rest

HandleSynReceived(h, g, i) ==
  /\ At(h, g, i, "SynReceived")
  /\ IF "ACK" \in g.flags
     THEN /\ Becomes(h, i, [conns[h][i] EXCEPT !.una = g.ack, !.state = "AcceptPending"], <<>>)
          /\ pending' = Enqueued(pending, i)
     ELSE Becomes(h, i, conns[h][i], <<>>) /\ UNCHANGED pending
  /\ UNCHANGED <<isns, secret, cut>> /\ Rest

HandleAcceptPending(h, g, i) ==
  /\ At(h, g, i, "AcceptPending")
  /\ LET d == [Waiting(conns[h][i], g) EXCEPT !.idle = 0, !.probes = 0]
     IN Becomes(h, i, d, AckIf(g.data # <<>> \/ "FIN" \in g.flags, d))
  /\ CutIf(conns[h][i], g)
  /\ NoHandshake /\ Rest

HandleOpen(h, g, i) ==
  /\ \/ At(h, g, i, "Established")
     \/ At(h, g, i, "CloseWait")
  /\ LET c == conns[h][i]
         d == Stored(Acked(c, g), g)
         fin == "FIN" \in g.flags /\ c.state = "Established"
         e == IF fin THEN FinTaken(d, "CloseWait") ELSE d
     IN Becomes(h, i, e, AckIf(g.data # <<>>, d) \o AckIf(fin, e))
  /\ CutIf(conns[h][i], g)
  /\ NoHandshake /\ Rest

HandleFinWait1(h, g, i) ==
  /\ At(h, g, i, "FinWait1")
  /\ LET c == [conns[h][i] EXCEPT !.una = g.ack]
         d == FinTaken(c, "TimeWait")
     IN IF "ACK" \notin g.flags THEN Becomes(h, i, conns[h][i], <<>>)
        ELSE IF "FIN" \in g.flags THEN Becomes(h, i, d, <<Ack(d)>>)
        ELSE Becomes(h, i, [c EXCEPT !.state = "FinWait2"], <<>>)
  /\ UNCHANGED cut /\ NoHandshake /\ Rest

HandleFinWait2(h, g, i) ==
  /\ At(h, g, i, "FinWait2")
  /\ LET d == FinTaken(conns[h][i], "TimeWait")
     IN IF "FIN" \in g.flags THEN Becomes(h, i, d, <<Ack(d)>>)
        ELSE Becomes(h, i, conns[h][i], <<>>)
  /\ UNCHANGED cut /\ NoHandshake /\ Rest

HandleLastAck(h, g, i) ==
  /\ At(h, g, i, "LastAck")
  /\ Becomes(h, i, IF "ACK" \in g.flags THEN EmptyConn ELSE conns[h][i], <<>>)
  /\ UNCHANGED cut /\ NoHandshake /\ Rest

HandleTimeWait(h, g, i) ==
  /\ At(h, g, i, "TimeWait")
  /\ LET c == conns[h][i]
     IN IF "FIN" \in g.flags THEN Becomes(h, i, [c EXCEPT !.wait = 0], <<Ack(c)>>)
        ELSE Becomes(h, i, c, <<>>)
  /\ UNCHANGED cut /\ NoHandshake /\ Rest

Deliver(h) ==
  /\ net[h] # <<>>
  /\ LET g == Head(net[h]) IN
    \/ HandleSyn(h, g) \/ HandleCookie(h, g) \/ NoConnection(h, g)
    \/ \E i \in Slots(h) :
         \/ HandleSynSent(h, g, i) \/ HandleSynReceived(h, g, i)
         \/ HandleAcceptPending(h, g, i) \/ HandleOpen(h, g, i)
         \/ HandleFinWait1(h, g, i) \/ HandleFinWait2(h, g, i)
         \/ HandleLastAck(h, g, i) \/ HandleTimeWait(h, g, i)

Lose(h) ==
  /\ net[h] # <<>> /\ lost < MaxLoss
  /\ net' = [net EXCEPT ![h] = Tail(@)]
  /\ lost' = lost + 1
  /\ UNCHANGED <<conns, tables, socks, sent, got, eof, dialled, ticks, cut, dropped>>

-----------------------------------------------------------------------------
(* tick_timers: TIME_WAIT and keepalive of every connection.  wait is what *)
(* is left of the TIME_WAIT deadline, 0 when none has been set.            *)
Idle(c) == c.idle + 1
Probing(c) == c.state = "Established" /\ Idle(c) >= KeepaliveIdle
Ticked(c) ==
  CASE c.state = "TimeWait" ->
         IF c.wait = 0 THEN [c EXCEPT !.wait = TimeWaitTicks]
         ELSE IF c.wait = 1 THEN EmptyConn ELSE [c EXCEPT !.wait = @ - 1]
    [] Probing(c) ->
         IF c.probes >= KeepaliveProbeMax THEN EmptyConn
         ELSE [c EXCEPT !.probes = @ + 1, !.idle = KeepaliveIdle - KeepaliveInterval]
    [] c.state = "Established" /\ ~ Probing(c) -> [c EXCEPT !.idle = Idle(c)]
    [] OTHER -> c
GivenUp(c) == Probing(c) /\ c.probes >= KeepaliveProbeMax
TickOut(c) ==
  IF ~ Probing(c) THEN <<>>
  ELSE IF GivenUp(c) THEN <<Reset(c)>>
  ELSE <<Segment(c.lport, c.rport, Minus(c.una, 1), c.rcv, {"ACK"}, <<>>)>>
Tick(h) ==
  /\ Quiet /\ ticks < MaxTicks /\ ticks' = ticks + 1
  /\ conns' = [conns EXCEPT ![h] = [i \in Slots(h) |-> Ticked(@[i])]]
  /\ net' = [net EXCEPT ![Peer(h)] =
               @ \o FlattenSeq([i \in Slots(h) |-> TickOut(conns[h][i])])]
  /\ dropped' = dropped \cup {ClientPort(c) : c \in {conns[h][i] : i \in
                                {j \in Slots(h) : GivenUp(conns[h][j])}}}
  /\ UNCHANGED <<isns, listening, pending, secret, socks, sent, got, dialled, eof, lost, cut>>

-----------------------------------------------------------------------------
Init ==
  /\ conns = [h \in Hosts |-> [i \in Slots(h) |-> EmptyConn]]
  /\ isns = [h \in Hosts |-> 0]
  /\ listening = FALSE /\ pending = <<>> /\ secret = FALSE
  /\ socks = [h \in Hosts |-> IF h = Client THEN {<<p>> : p \in Ports} ELSE {}]
  /\ net = [h \in Hosts |-> <<>>]
  /\ sent = [h \in Hosts |-> [p \in Ports |-> 0]]
  /\ got = [h \in Hosts |-> [p \in Ports |-> <<>>]]
  /\ dialled = {} /\ eof = {} /\ ticks = 0 /\ lost = 0 /\ cut = {} /\ dropped = {}

Next ==
  \/ Listen \/ Accept
  \/ \E p \in Ports : Connect(p)
  \/ \E h \in Hosts :
       \/ Deliver(h) \/ Lose(h) \/ Tick(h)
       \/ \E k \in socks[h] :
            \/ Close(h, k)
            \/ \E n \in 1 .. MaxChunk : Send(h, k, n)
            \/ \E n \in 1 .. RecvBuf : Recv(h, k, n)

Spec == Init /\ [][Next]_vars

-----------------------------------------------------------------------------
(* Properties.                                                             *)

(* Every record is a connection with its buffer within bounds, the backlog *)
(* within its array.                                                       *)
Connection == [state : States, lport : Nat, rport : Nat, nxt : 0 .. SeqSpace - 1,
               una : 0 .. SeqSpace - 1, rcv : 0 .. SeqSpace - 1, key : Seq(Nat),
               buf : Seq(Nat), idle : 0 .. KeepaliveIdle,
               probes : 0 .. KeepaliveProbeMax, wait : 0 .. TimeWaitTicks]
TypeOK ==
  /\ \A h \in Hosts : \A i \in Slots(h) :
       conns[h][i] \in Connection /\ Len(conns[h][i].buf) <= RecvBuf
  /\ pending \in Seq(Slots(Server)) /\ Len(pending) <= AcceptBacklog

(* What an application has received and its connection still holds is, in  *)
(* order and without repetition, part of what the other application sent,  *)
(* and all of it from the first byte on unless the network lost a segment, *)
(* a full buffer cut one or a full table refused one (Established and      *)
(* AcceptPending branches of handle_segment, cookie path, recv).           *)
Buffered(h, p) ==
  LET S == {i \in Slots(h) : /\ conns[h][i].state # "Closed"
                             /\ ClientPort(conns[h][i]) = p /\ conns[h][i].buf # <<>>}
  IN IF S = {} THEN <<>> ELSE conns[h][Least(S)].buf
Whole(p) == lost = 0 /\ p \notin cut \cup dropped
StreamInOrder ==
  \A h \in Hosts, p \in Ports :
    LET s == got[h][p] \o Buffered(h, p)
    IN /\ \A i, j \in 1 .. Len(s) : i < j => s[i] < s[j]
       /\ \A i \in 1 .. Len(s) : s[i] <= sent[Peer(h)][p]
       /\ Whole(p) => \A i \in 1 .. Len(s) : s[i] = i

(* When recv answers end of stream, the application has everything its     *)
(* peer ever sent, unless data was lost, cut or refused (recv, the FIN of  *)
(* the Established and AcceptPending branches).                                *)
EofIsEnd ==
  \A h \in Hosts, p \in Ports :
    <<h, p>> \in eof /\ Whole(p) => Len(got[h][p]) = sent[Peer(h)][p]

(* What an application reads is its peer's stream, from its start and to   *)
(* its end, unless something of it was lost, cut or refused.               *)
StreamIntact == StreamInOrder /\ EofIsEnd

(* The backlog names distinct connections that have done their handshake   *)
(* and that nobody has accepted: a slot is not freed, reused or handed out *)
(* twice under an entry (accept, SynReceived branch, cookie path).  Not    *)
(* once keepalive has given up a connection made from a cookie: the cookie *)
(* is still good, a late segment makes a second connection with its key,   *)
(* and closing the first one's socket closes the second in the backlog.    *)
BacklogWaits ==
  dropped = {} =>
    /\ \A m, n \in 1 .. Len(pending) : pending[m] = pending[n] => m = n
    /\ \A m \in 1 .. Len(pending) :
         LET c == conns[Server][pending[m]]
         IN c.state \in {"AcceptPending", "CloseWait"} /\ c.key \notin socks[Server]

(* The two ends of a connection agree on sequence numbers modulo 2^32:     *)
(* what one takes for acknowledged the other has received, and what the    *)
(* other has received was sent.  The agreement is only up to one, because  *)
(* a keepalive probe, which goes one back, can be the segment that makes a *)
(* connection from a cookie.                                               *)
Synchronized == {"AcceptPending", "Established", "FinWait1", "FinWait2", "CloseWait", "LastAck"}
AcksAgree ==
  \A h \in Hosts : \A i \in Slots(h), j \in Slots(Peer(h)) :
    LET a == conns[h][i]
        b == conns[Peer(h)][j]
    IN /\ a.state \in Synchronized /\ b.state \in Synchronized
       /\ a.lport = b.rport /\ a.rport = b.lport
       => Minus(b.rcv, Minus(a.una, 1)) <= Minus(a.nxt, Minus(a.una, 1))
=============================================================================
