----------------------------- MODULE TcpSession -----------------------------
(***************************************************************************)
(* One TCP session of the native engine (jni/netguard/tcp.c) and the event *)
(* loop that drives it (session.c, handle_events).                         *)
(*                                                                         *)
(* The engine terminates the app's TCP connection on the tun device and    *)
(* splices it to a kernel socket of its own.  A single thread repeats:     *)
(* monitor every session (choose its epoll mask), check every session      *)
(* (timeouts, closing, freeing), wait in epoll, dispatch the ready events. *)
(* Dispatch handles a batch: up to TUN_YIELD packets read from the tun and *)
(* one event of the session's socket, in either order.  The socket event   *)
(* was captured by epoll_wait, so packets of the same batch can change the *)
(* session before the event is handled.                                    *)
(*                                                                         *)
(* The 4-tuple of the session is fixed; "none" means that the session list *)
(* holds no entry for it.  Payload is a count of bytes.  Results of system *)
(* calls (write to the tun, send, recv, epoll_ctl) are chosen by \E.       *)
(***************************************************************************)
EXTENDS SeqArith, Sequences, SequencesExt

CONSTANTS
  Packets,      \* the TCP packets the app side may put on the tun
  LocalISNs,    \* the values rand() may return (tcp.c:738)
  Rooms,        \* free space of the socket's send buffer, an int (tcp.c:198)
  MSS,          \* largest payload read from the socket at once
  MaxReceived,  \* bound: bytes the server sends during one session
  TUN_YIELD,    \* packets handled per tun event (netguard.h:45)
  UseSocks5     \* whether a SOCKS5 proxy is configured

Flag == {"SYN", "ACK", "FIN", "RST", "URG"}

Packet == [flags : SUBSET Flag, seq : Word, ack : Word, len : Nat, window : Nat]

ASSUME PacketsAssumption == Packets \subseteq Packet
ASSUME ISNAssumption == LocalISNs \subseteq Word
ASSUME RoomsAssumption == Rooms \subseteq 0 .. Half
ASSUME BoundsAssumption ==
  MSS \in Nat /\ MaxReceived \in Nat /\ TUN_YIELD \in Nat \ {0}
ASSUME Socks5Assumption == UseSocks5 \in BOOLEAN

VARIABLES
  s,      \* the session (struct ng_session and its tcp_session)
  phase,  \* where the loop of handle_events is
  ready,  \* the events epoll_wait captured for the socket, until handled
  tun     \* how many packets of the tun the current batch may still read

vars == <<s, phase, ready, tun>>

-----------------------------------------------------------------------------
State == {"none", "LISTEN", "SYN_RECV", "ESTABLISHED", "CLOSE_WAIT",
          "FIN_WAIT1", "LAST_ACK", "CLOSING", "CLOSE"}

\* States in which check_tcp_socket moves payload.
Streaming == {"ESTABLISHED", "CLOSE_WAIT"}

\* States of a session that has been aborted or has finished.
Finished == {"CLOSING", "CLOSE"}

Socks5 == {"NONE", "HELLO", "AUTH", "CONNECT", "CONNECTED"}

Phase == {"monitor", "check", "wait", "dispatch"}

Segment == [seq : Word, len : Nat, sent : Nat]

(***************************************************************************)
(* struct tcp_session.  fresh says that time has not yet fallen behind the *)
(* timeout that applies; unreported that sent or received is not zero;     *)
(* window_open that recv_window is not zero.  mask holds the events asked  *)
(* of epoll besides EPOLLERR, polled that the socket is in the epoll set.  *)
(* The last rows are history: SYNs and FINs of the app counted in          *)
(* remote_seq, the sequence numbers of the bytes given to the server and   *)
(* whether one was given twice, bytes read from the server, whether the    *)
(* server was reached, whether the engine has sent its FIN, and whether it *)
(* sent data or a FIN after its FIN or after an abort.                     *)
(***************************************************************************)
Session ==
  [state : State, socks5 : Socks5, open : BOOLEAN, polled : BOOLEAN,
   mask : SUBSET {"IN", "OUT"}, fresh : BOOLEAN, unreported : BOOLEAN,
   remote_start : Word, remote_seq : Word, local_seq : Word, acked : Word,
   send_window : Nat, window_open : BOOLEAN, unconfirmed : Nat,
   forward : Seq(Segment),
   synIn : Nat, finIn : Nat, given : SUBSET Word, twice : BOOLEAN, received : Nat,
   reached : BOOLEAN, finOut : BOOLEAN, lateOut : BOOLEAN, lost : BOOLEAN]

\* No session for the 4-tuple; lost remembers that one was freed with usage
\* that had not been reported.
NoSession ==
  [state |-> "none", socks5 |-> "NONE", open |-> FALSE, polled |-> FALSE,
   mask |-> {}, fresh |-> FALSE, unreported |-> FALSE,
   remote_start |-> 0, remote_seq |-> 0, local_seq |-> 0, acked |-> 0,
   send_window |-> 0, window_open |-> FALSE, unconfirmed |-> 0,
   forward |-> << >>,
   synIn |-> 0, finIn |-> 0, given |-> {}, twice |-> FALSE, received |-> 0,
   reached |-> FALSE, finOut |-> FALSE, lateOut |-> FALSE, lost |-> FALSE]

-----------------------------------------------------------------------------
(* Writing to the tun.  ok says whether write() on the tun succeeded.      *)

\* write_ack, write_syn_ack, write_data, write_fin_ack: a failure aborts.
WriteAck(t, ok) == IF ok THEN t ELSE [t EXCEPT !.state = "CLOSING"]

\* local_seq growing past 32 bits (plausible slip).
WriteStreamUnbounded(t, ok, n) ==
  IF ok THEN [t EXCEPT !.local_seq = @ + n] ELSE WriteAck(t, ok)

\* A segment that takes sequence space: the stream must still be running.
WriteStream(t, ok, n) ==
  IF ok
  THEN [t EXCEPT !.local_seq = Wrap(@ + n),
                 !.lateOut = @ \/ t.finOut \/ t.state \in Finished]
  ELSE WriteAck(t, ok)

\* An abort that reopens a session already in CLOSE (plausible slip).
WriteRstReopens(t) ==
  LET syn == IF t.state = "LISTEN" THEN 1 ELSE 0
  IN  [t EXCEPT !.remote_seq = Wrap(@ + syn), !.synIn = @ + syn,
                !.state = "CLOSING"]

\* write_rst: the result of the write is ignored.
WriteRst(t) ==
  LET syn == IF t.state = "LISTEN" THEN 1 ELSE 0
  IN  [t EXCEPT !.remote_seq = Wrap(@ + syn), !.synIn = @ + syn,
                !.state = IF @ = "CLOSE" THEN "CLOSE" ELSE "CLOSING"]

-----------------------------------------------------------------------------
(* The queue of segments to forward.                                       *)

\* len - sent of a segment, as the unsigned comparison sees it.
Unsent(seg) == Wrap(seg.len - seg.sent)

\* The bytes left to send in a queue (get_receive_window).
ToForward(q) == Wrap(FoldSeq(LAMBDA seg, sum : Unsent(seg) + sum, 0, q))

\* The position at which queue_tcp inserts or finds sequence number seq.
QueuePosition(q, seq) ==
  Cardinality({i \in DOMAIN q : \A j \in 1 .. i : Compare(q[j].seq, seq) < 0}) + 1

\* queue_tcp appending without looking at the order (plausible slip).
QueueTcpUnsorted(t, p) ==
  IF Compare(p.seq, t.remote_seq) < 0 THEN t
  ELSE [t EXCEPT !.forward = Append(@, [seq |-> p.seq, len |-> p.len, sent |-> 0])]

\* queue_tcp forgetting what was sent of a segment it replaces (plausible slip).
QueueTcpRestarts(t, p) ==
  LET i   == QueuePosition(t.forward, p.seq)
      new == [seq |-> p.seq, len |-> p.len, sent |-> 0]
  IN  IF Compare(p.seq, t.remote_seq) < 0 THEN t
      ELSE IF i \in DOMAIN t.forward /\ t.forward[i].seq = p.seq
           THEN [t EXCEPT !.forward[i] = new]
           ELSE [t EXCEPT !.forward = InsertAt(@, i, new)]

\* queue_tcp: drop what was forwarded, insert in order, or replace the data
\* of a queued segment of another length, whose sent stays as it is.
QueueTcp(t, p) ==
  LET i   == QueuePosition(t.forward, p.seq)
      new == [seq |-> p.seq, len |-> p.len, sent |-> 0]
  IN  IF Compare(p.seq, t.remote_seq) < 0 THEN t
      ELSE IF i \in DOMAIN t.forward /\ t.forward[i].seq = p.seq
           THEN [t EXCEPT !.forward[i].len = p.len]
           ELSE [t EXCEPT !.forward = InsertAt(@, i, new)]

-----------------------------------------------------------------------------
(* monitor_tcp_session: the events to wait for, and the keep-alive that    *)
(* asks the app for a window update.                                       *)

SendRoom(t) == SendWindow(t.local_seq, t.acked, t.unconfirmed, t.send_window)

\* The loop guard of the forwarding loop, once i - 1 segments have been sent and
\* moved remote_seq to next: buffer_size has shrunk by what lies between.
Sendable(t, room, i) ==
  LET q    == t.forward
      next == IF i = 1 THEN t.remote_seq ELSE Wrap(q[i-1].seq + q[i-1].len)
      sent == IF i = 1 THEN 0 ELSE Wrap(next - t.remote_seq - q[1].sent)
  IN  /\ i \in DOMAIN q
      /\ q[i].seq = next
      /\ Unsent(q[i]) < room - sent

EpollMask(t, room) ==
  IF t.state = "LISTEN" THEN IF t.socks5 = "NONE" THEN {"OUT"} ELSE {"IN"}
  ELSE IF t.state \in Streaming
       THEN {e \in {"IN", "OUT"} : \/ e = "IN"  /\ SendRoom(t) > 0
                                   \/ e = "OUT" /\ Sendable(t, room, 1)}
       ELSE {}

\* remote_seq is lowered for the write and raised again after it.
KeepAlive(t, ok) ==
  LET probe == WriteAck([t EXCEPT !.remote_seq = Wrap(@ - 1)], ok)
  IN  [probe EXCEPT !.remote_seq = Wrap(@ + 1)]

\* epoll_ctl(MOD) fails exactly when the socket is not in the epoll set.
SetMask(t, mask) ==
  IF mask = t.mask THEN t
  ELSE [t EXCEPT !.mask = mask,
                 !.state = IF t.polled THEN @ ELSE "CLOSING"]

MonitorTcpSession ==
  /\ phase = "monitor"
  /\ phase' = "check"
  /\ \/ ~s.open /\ s' = s
     \/ /\ s.open
        /\ \E room \in Rooms, due, ok \in BOOLEAN :
             LET probes == due /\ s.state \in Streaming /\ SendRoom(s) = 0
                 t      == IF probes THEN KeepAlive(s, ok) ELSE s
             IN  s' = SetMask(t, EpollMask(s, room))
  /\ UNCHANGED <<ready, tun>>

-----------------------------------------------------------------------------
(* check_tcp_session and the freeing of a session in handle_events.        *)

Timeout(t) ==
  IF t.state \in Finished \/ t.fresh THEN t
  ELSE IF t.state = "LISTEN" THEN [t EXCEPT !.state = "CLOSING"]
       ELSE WriteRst(t)

\* Closing without giving the descriptor back (plausible slip).
CloseSocketLeaks(t) ==
  IF t.state # "CLOSING" THEN t ELSE [t EXCEPT !.fresh = TRUE, !.state = "CLOSE"]

\* Closing that goes on in CLOSING (plausible slip).
CloseSocketLingers(t) ==
  IF t.state # "CLOSING" THEN t
  ELSE [t EXCEPT !.open = FALSE, !.polled = FALSE, !.fresh = TRUE]

CloseSocket(t) ==
  IF t.state # "CLOSING" THEN t
  ELSE [t EXCEPT !.open = FALSE, !.polled = FALSE, !.fresh = TRUE, !.state = "CLOSE"]

\* Reporting only while CLOSING, which CloseSocket has just left.
AccountUsageTooEarly(t) ==
  IF t.state = "CLOSING" THEN [t EXCEPT !.unreported = FALSE] ELSE t

AccountUsage(t) ==
  IF t.state \in Finished THEN [t EXCEPT !.unreported = FALSE] ELSE t

Checked(t) == AccountUsage(CloseSocket(Timeout(t)))

\* The session is freed once it has been in CLOSE for TCP_KEEP_TIMEOUT.
Cleanup(t) ==
  IF t.state = "CLOSE" /\ ~t.fresh
  THEN [NoSession EXCEPT !.lost = t.unreported \/ t.open]
  ELSE t

CheckTcpSession ==
  /\ phase = "check"
  /\ phase' = "wait"
  /\ s' = IF s.state = "none" THEN s ELSE Cleanup(Checked(s))
  /\ UNCHANGED <<ready, tun>>

\* Less than EPOLL_MIN_CHECK milliseconds after the last check.
SkipCheck ==
  /\ phase = "check"
  /\ phase' = "wait"
  /\ UNCHANGED <<s, ready, tun>>

\* time falls behind the timeout that applies to the session.
TimePasses ==
  /\ s.fresh
  /\ s' = [s EXCEPT !.fresh = FALSE]
  /\ UNCHANGED <<phase, ready, tun>>

-----------------------------------------------------------------------------
(* epoll_wait and the dispatch of its batch.  EPOLLERR hides the other     *)
(* events from check_tcp_socket, and EPOLLHUP is never looked at.          *)

EpollWait ==
  /\ phase = "wait"
  /\ phase' = "dispatch"
  /\ ready' \in IF s.open /\ s.polled THEN (SUBSET s.mask) \union {{"ERR"}, {"HUP"}}
                ELSE {{}}
  /\ tun' \in {0, TUN_YIELD}
  /\ UNCHANGED s

\* is_readable(tun) is false.
TunDrained ==
  /\ phase = "dispatch"
  /\ tun > 0
  /\ tun' = 0
  /\ UNCHANGED <<s, phase, ready>>

EndBatch ==
  /\ phase = "dispatch"
  /\ tun = 0 /\ ready = {}
  /\ phase' = "monitor"
  /\ UNCHANGED <<s, ready, tun>>

-----------------------------------------------------------------------------
(* handle_tcp: one packet of the app.  A socket event of the batch comes   *)
(* before the first or after the last packet, never between two.           *)

TunPacket(p) ==
  /\ phase = "dispatch"
  /\ tun > 0
  /\ tun' = tun - 1
  /\ UNCHANGED <<phase, ready>>

\* No session: a SYN opens one, unless the socket cannot be opened.  SYN data
\* is queued at the sequence number of the SYN itself.
NewSession(p, isn, polled, room) ==
  LET data == IF p.len > 0 THEN <<[seq |-> p.seq, len |-> p.len, sent |-> 0]>>
              ELSE << >>
  IN  [NoSession EXCEPT
         !.state = "LISTEN", !.open = TRUE, !.polled = polled, !.mask = {"OUT"},
         !.fresh = TRUE, !.remote_start = p.seq, !.remote_seq = p.seq,
         !.local_seq = isn, !.send_window = p.window, !.forward = data,
         !.window_open = ToForward(data) < room]

TunSyn(p) ==
  /\ TunPacket(p)
  /\ s.state = "none" /\ "SYN" \in p.flags /\ "URG" \notin p.flags
  /\ \/ s' = s
     \/ \E isn \in LocalISNs, polled \in BOOLEAN, room \in Rooms :
          s' = NewSession(p, isn, polled, room)

\* Urgent data is dropped, and a packet of an unknown session is answered
\* with a reset that no session records.
TunDropped(p) ==
  /\ TunPacket(p)
  /\ "URG" \in p.flags \/ (s.state = "none" /\ "SYN" \notin p.flags)
  /\ UNCHANGED s

TunFinished(p) ==
  /\ TunPacket(p)
  /\ s.state \in Finished /\ "URG" \notin p.flags
  /\ s' = WriteRst(s)

\* The session once the header of p has been looked at.
Touched(p) ==
  [s EXCEPT !.fresh = @ \/ "SYN" \notin p.flags,
            !.send_window = p.window, !.unconfirmed = 0]

Live(p) == s.state \notin Finished \union {"none"} /\ "URG" \notin p.flags

Refuses(p) == p.len > 0 /\ (~s.open \/ s.state = "CLOSE_WAIT")

TunRefused(p) ==
  /\ TunPacket(p)
  /\ Live(p) /\ Refuses(p)
  /\ s' = WriteRst(Touched(p))

\* The session once the payload of p has been queued.
Taken(p) == IF p.len > 0 THEN QueueTcp(Touched(p), p) ELSE Touched(p)

\* A reset that closes the socket on the spot (plausible slip).
TakeResetClosing(t) ==
  [t EXCEPT !.state = "CLOSING", !.open = FALSE, !.polled = FALSE]

\* A reset of the app, whose sequence number is not looked at; the socket is
\* left to the next check.
TakeReset(t) == [t EXCEPT !.state = "CLOSING"]

TunReset(p) ==
  /\ TunPacket(p)
  /\ Live(p) /\ ~Refuses(p)
  /\ "RST" \in p.flags
  /\ s' = TakeReset(Taken(p))

TunAccepted(p) ==
  /\ TunPacket(p)
  /\ Live(p) /\ ~Refuses(p)
  /\ "RST" \notin p.flags

\* The packet acknowledges nothing or exactly what has been written.
InSequence(p) == "ACK" \in p.flags => p.ack = s.local_seq

\* Counting the FIN while data is still queued (plausible slip).
TakeFinEarly(t, ok) ==
  LET counted == [t EXCEPT !.remote_seq = Wrap(@ + 1), !.finIn = @ + 1]
      next    == IF t.state = "ESTABLISHED" THEN "CLOSE_WAIT" ELSE "CLOSE"
  IN  [WriteAck(counted, ok) EXCEPT !.state = IF ok THEN next ELSE @]

\* The FIN of the app, in the two states that take it.  It is counted and
\* acknowledged at once unless data is still queued.
TakeFin(t, ok) ==
  LET counted == [t EXCEPT !.remote_seq = Wrap(@ + 1), !.finIn = @ + 1]
      next    == IF t.state = "ESTABLISHED" THEN "CLOSE_WAIT" ELSE "CLOSE"
  IN  IF t.state = "ESTABLISHED" /\ t.forward # << >>
      THEN [t EXCEPT !.state = next]
      ELSE [WriteAck(counted, ok) EXCEPT !.state = IF ok THEN next ELSE @]

TunFin(p) ==
  /\ TunAccepted(p) /\ InSequence(p)
  /\ "FIN" \in p.flags /\ "SYN" \notin p.flags
  /\ s.state \in {"ESTABLISHED", "FIN_WAIT1"}
  /\ \E ok \in BOOLEAN : s' = TakeFin(Taken(p), ok)

TunAck(p) ==
  /\ TunAccepted(p) /\ InSequence(p)
  /\ "ACK" \in p.flags /\ p.flags \intersect {"SYN", "FIN"} = {}
  /\ s' = [Taken(p) EXCEPT
             !.acked = p.ack,
             !.state = IF @ = "SYN_RECV" THEN "ESTABLISHED"
                       ELSE IF @ = "LAST_ACK" THEN "CLOSING" ELSE @]

KeepsAlive(p) == Wrap(p.ack + 1) = s.local_seq

\* A repeated SYN or FIN, a FIN that is not expected, a packet without flags
\* and a keep-alive of the app change nothing more.
TunIgnored(p) ==
  /\ TunAccepted(p)
  /\ \/ /\ InSequence(p)
        /\ \/ "SYN" \in p.flags
           \/ "FIN" \in p.flags /\ s.state \notin {"ESTABLISHED", "FIN_WAIT1"}
           \/ p.flags = {}
     \/ ~InSequence(p) /\ KeepsAlive(p)
  /\ s' = Taken(p)

TunOldAck(p) ==
  /\ TunAccepted(p)
  /\ ~InSequence(p) /\ ~KeepsAlive(p)
  /\ Compare(p.ack, s.local_seq) < 0
  /\ s' = [Taken(p) EXCEPT !.acked = IF Compare(p.ack, @) <= 0 THEN @ ELSE p.ack]

TunFutureAck(p) ==
  /\ TunAccepted(p)
  /\ ~InSequence(p) /\ ~KeepsAlive(p)
  /\ Compare(p.ack, s.local_seq) >= 0
  /\ s' = WriteRst(Taken(p))

HandleTcp(p) ==
  \/ TunSyn(p) \/ TunDropped(p) \/ TunFinished(p) \/ TunRefused(p) \/ TunReset(p)
  \/ TunFin(p) \/ TunAck(p) \/ TunIgnored(p) \/ TunOldAck(p) \/ TunFutureAck(p)

-----------------------------------------------------------------------------
(* check_tcp_socket: the event of the socket.  Each stage maps a session   *)
(* to the set of sessions it may leave.                                    *)

SocketEvent ==
  /\ phase = "dispatch"
  /\ ready # {}
  /\ tun \in {0, TUN_YIELD}
  /\ ready' = {}
  /\ UNCHANGED <<phase, tun>>

SocketError ==
  /\ SocketEvent
  /\ "ERR" \in ready
  /\ s' = WriteRst([s EXCEPT !.fresh = TRUE])

\* Any positive reply taken for the end of the negotiation (plausible slip).
Socks5ReplyHasty(t, reply) ==
  IF reply = "accept" THEN [t EXCEPT !.socks5 = "CONNECTED"]
  ELSE WriteRst([t EXCEPT !.socks5 = "NONE"])

\* A reply of the proxy: accept (0), userpass (method 2 of the hello),
\* deny (any other well or badly formed answer), or a recv that fails.
Socks5Reply(t, reply) ==
  CASE reply = "error" -> WriteRst(t)
    [] reply = "accept" /\ t.socks5 \in {"HELLO", "AUTH"} -> [t EXCEPT !.socks5 = "CONNECT"]
    [] reply = "userpass" /\ t.socks5 = "HELLO" -> [t EXCEPT !.socks5 = "AUTH"]
    [] reply = "accept" /\ t.socks5 = "CONNECT" ->
         [t EXCEPT !.socks5 = "CONNECTED", !.reached = TRUE]
    [] OTHER -> WriteRst([t EXCEPT !.socks5 = "NONE"])

\* What the event says of the connection attempt.
Connected(t) ==
  IF t.socks5 = "NONE"
  THEN IF "OUT" \in ready
       THEN {[t EXCEPT !.socks5 = IF UseSocks5 THEN "HELLO" ELSE "CONNECTED",
                       !.reached = ~UseSocks5]}
       ELSE {t}
  ELSE IF "IN" \in ready
       THEN {Socks5Reply(t, r) : r \in {"accept", "userpass", "deny", "error"}}
       ELSE {t}

\* The next request to the proxy, or the SYN-ACK to the app.
Requested(t) ==
  IF t.socks5 \in {"HELLO", "AUTH", "CONNECT"} THEN {t, WriteRst(t)}
  ELSE IF t.socks5 = "CONNECTED"
  THEN LET syn == [t EXCEPT !.remote_seq = Wrap(@ + 1), !.synIn = @ + 1]
       IN  {[WriteStream(syn, TRUE, 1) EXCEPT !.fresh = TRUE, !.state = "SYN_RECV"],
            WriteStream(syn, FALSE, 1)}
  ELSE {t}

SocketConnect ==
  /\ SocketEvent
  /\ "ERR" \notin ready
  /\ s.state = "LISTEN"
  /\ \E t \in Connected(s) : s' \in Requested(t)

\* The sequence numbers of the bytes of seg from offset i up to offset j.
Bytes(seg, i, j) == {Wrap(seg.seq + d) : d \in i .. j - 1}

\* The session after k whole segments and n bytes of the next were sent.
Sent(t, k, n) ==
  LET q    == t.forward
      rest == SubSeq(q, k + 1, Len(q))
      part == IF n = 0 THEN {} ELSE Bytes(q[k + 1], q[k + 1].sent, q[k + 1].sent + n)
      new  == part \union UNION {Bytes(q[i], q[i].sent, q[i].len) : i \in 1 .. k}
  IN  [t EXCEPT
         !.remote_seq = IF k = 0 THEN @ ELSE Wrap(q[k].seq + q[k].len),
         !.forward    = IF n = 0 THEN rest ELSE [rest EXCEPT ![1].sent = @ + n],
         !.given      = @ \union new,
         !.twice      = @ \/ t.given \intersect new # {},
         !.unreported = @ \/ k > 0 \/ n > 0]

\* Forwarding to the server, until the guard of the loop fails, send would
\* block or fails, or a segment is sent in part.
Forwarded(t, room) ==
  UNION {
    IF ~Sendable(t, room, k + 1) THEN {Sent(t, k, 0)}
    ELSE {Sent(t, k, 0), WriteRst(Sent(t, k, 0))}
           \union {Sent(t, k, n) : n \in 1 .. Unsent(t.forward[k + 1]) - 1}
    : k \in {j \in 0 .. Len(t.forward) : \A i \in 1 .. j : Sendable(t, room, i)}}

\* Confirming the FIN whenever the queue is empty (plausible slip).
ConfirmFinAgain(t, fwd) ==
  IF t.forward = << >> /\ t.state = "CLOSE_WAIT"
  THEN [t EXCEPT !.remote_seq = Wrap(@ + 1), !.finIn = @ + 1]
  ELSE t

\* The FIN of the app counts once the last queued byte has been forwarded.
ConfirmFin(t, fwd) ==
  IF fwd /\ t.forward = << >> /\ t.state = "CLOSE_WAIT"
  THEN [t EXCEPT !.remote_seq = Wrap(@ + 1), !.finIn = @ + 1]
  ELSE t

\* The acknowledgement of forwarded data, or of a window that has opened.
Acknowledged(t, fwd, room) ==
  LET open == ToForward(t.forward) < room
      u    == [t EXCEPT !.window_open = open]
      v    == ConfirmFin(u, fwd)
  IN  IF fwd \/ (~t.window_open /\ open)
      THEN {[v EXCEPT !.fresh = TRUE], WriteAck(v, FALSE)}
      ELSE {u}

\* End of file from the server.  Data still queued for it is lost.
TakeEof(t, ok) ==
  LET fin  == [WriteStream(t, ok, 1) EXCEPT !.finOut = @ \/ ok]
      done == IF t.forward # << >> THEN WriteRst(t)
              ELSE [fin EXCEPT !.state = CASE @ = "ESTABLISHED" -> "FIN_WAIT1"
                                           [] @ = "CLOSE_WAIT"  -> "LAST_ACK"
                                           [] OTHER             -> @]
  IN  [done EXCEPT !.open = FALSE, !.polled = FALSE]

\* n bytes from the server, written to the tun.
TakeData(t, n, ok) ==
  LET got == [t EXCEPT !.unreported = TRUE, !.received = @ + n]
  IN  [WriteStream(got, ok, n) EXCEPT !.unconfirmed = IF ok THEN @ + 1 ELSE @]

\* Reading decided on the state before forwarding (plausible slip).
ReadableStale(t) == SendRoom(t) > 0

\* The state and the window are looked at again, after the acknowledgement.
Readable(t) == t.state \in Streaming /\ SendRoom(t) > 0

\* Reading from the server into the app's window.  The bound MaxReceived
\* ends what the server sends.
Read(t) ==
  LET u == [t EXCEPT !.fresh = TRUE]
      room == IF SendRoom(t) > MSS THEN MSS ELSE SendRoom(t)
  IN  IF ~("IN" \in ready /\ Readable(t)) THEN {t}
      ELSE {u, WriteRst(u)} \union {TakeEof(u, ok) : ok \in BOOLEAN}
           \union {TakeData(u, n, ok) :
                     n \in {m \in 1 .. room : u.received + m <= MaxReceived},
                     ok \in BOOLEAN}

SocketStream ==
  /\ SocketEvent
  /\ "ERR" \notin ready
  /\ s.state # "LISTEN"
  /\ \E room, left \in Rooms :
       \E t \in IF "OUT" \in ready THEN Forwarded(s, room) ELSE {s} :
         \E u \in Acknowledged(t, t.forward # s.forward, left) :
           s' \in Read(u)

CheckTcpSocket == SocketError \/ SocketConnect \/ SocketStream

-----------------------------------------------------------------------------
Init ==
  /\ s = NoSession
  /\ phase = "monitor"
  /\ ready = {}
  /\ tun = 0

\* One step of the thread that runs handle_events.
Loop ==
  \/ MonitorTcpSession
  \/ CheckTcpSession
  \/ SkipCheck
  \/ EpollWait
  \/ \E p \in Packets : HandleTcp(p)
  \/ TunDrained
  \/ CheckTcpSocket
  \/ EndBatch

Next == Loop \/ TimePasses

Spec == Init /\ [][Next]_vars

\* The thread keeps running, its clock advances, and the checks that are
\* skipped for EPOLL_MIN_CHECK milliseconds are not skipped for ever.
Fairness == WF_vars(Loop) /\ WF_vars(TimePasses) /\ SF_vars(CheckTcpSession)

FairSpec == Spec /\ Fairness

-----------------------------------------------------------------------------
(* Properties.                                                             *)

\* Every variable keeps its type.
TypeOK ==
  /\ s \in Session
  /\ phase \in Phase
  /\ ready \in SUBSET {"IN", "OUT", "ERR", "HUP"}
  /\ tun \in 0 .. TUN_YIELD

\* The descriptor is open while the session can still use it and given back
\* by the time the session is half-finished or freed: the two places that
\* close it (end of file in check_tcp_socket, tcp.c:590, and the closing of
\* check_tcp_session, tcp.c:90) never miss it and never both do it.
SocketMatchesState ==
  /\ s.state \in {"LISTEN", "SYN_RECV", "ESTABLISHED", "CLOSE_WAIT"} => s.open
  /\ s.state \in {"none", "FIN_WAIT1", "LAST_ACK", "CLOSE"} => ~s.open
  /\ s.polled => s.open

\* An event captured by epoll_wait is handled on an open socket of an existing
\* session, whatever packets the same batch brought before it: check_tcp_socket
\* does not test the descriptor it reads, writes and closes.
EventFindsSocket ==
  ready # {} => phase = "dispatch" /\ s.open /\ s.state # "none"

\* Bytes of the head of the queue that the server already has.
PartlySent == IF s.forward = << >> THEN 0 ELSE Head(s.forward).sent

\* remote_seq, which every acknowledgement carries, counts the app's SYN, then
\* the bytes of the segments that the server was given whole, then the FIN,
\* each exactly once: the bytes given are the app's stream from its start up to
\* remote_seq and the sent part of the head of the queue, with no gap
\* (tcp.c:459, 505, 544, 884, 894), so no byte is acknowledged that may be lost.
AckedIsForwarded ==
  s.state # "none" =>
    LET first == Wrap(s.remote_start + s.synIn)
        next  == Wrap(s.remote_seq - s.finIn + PartlySent)
    IN  /\ s.given = {Wrap(first + d) : d \in 0 .. Ahead(first, next) - 1}
        /\ s.synIn <= 1 /\ s.finIn <= 1

\* No byte is given to the server twice, also when the app sends a segment again
\* with another length while part of it has been sent (tcp.c:1010-1034).
GivenOnce == ~s.twice

\* A FIN is counted only when nothing of the app's stream is left to forward.
FinComesLast == s.finIn = 1 /\ s.state \notin Finished => s.forward = << >>

\* The queue of segments is sorted by compare_u32 without repetition, and only
\* its head has been sent in part, at remote_seq.
QueueSorted ==
  /\ \A i, j \in DOMAIN s.forward : i < j => Compare(s.forward[i].seq, s.forward[j].seq) < 0
  /\ \A i \in DOMAIN s.forward :
       s.forward[i].sent > 0 => i = 1 /\ s.forward[i].seq = s.remote_seq

\* The app sees its connection accepted only when the server, through the
\* proxy if there is one, has accepted it (tcp.c:306-465).
ServerReachedFirst ==
  s.state \in {"SYN_RECV", "ESTABLISHED", "CLOSE_WAIT", "FIN_WAIT1", "LAST_ACK"}
    => s.reached /\ s.socks5 = "CONNECTED"

\* After a reset or a failed write to the tun, even within the same event, and
\* after its own FIN the engine writes neither data nor a FIN (tcp.c:550).
NothingAfterEnd == ~s.lateOut

\* A session is never freed with an open descriptor or with traffic that was
\* not reported to account_usage.
NothingLost == ~s.lost

\* The order in which a session goes through its states.
Rank == [none |-> 0, LISTEN |-> 1, SYN_RECV |-> 2, ESTABLISHED |-> 3,
         CLOSE_WAIT |-> 4, FIN_WAIT1 |-> 4, LAST_ACK |-> 5, CLOSING |-> 6, CLOSE |-> 7]

\* A session never goes back: an aborted or finished one is not revived by a
\* packet, an event or a failed write, CLOSE is left only by freeing it, and
\* only CLOSE is freed.
NeverBackwards ==
  [][ \/ Rank[s'.state] > Rank[s.state]
      \/ s'.state = s.state
      \/ s.state = "CLOSE" /\ s'.state = "none" ]_vars

\* The windows of the app's packets, the constants of get_send_window added, do
\* not reach half the sequence space.  A TCP that follows RFC 7323 keeps to it:
\* its shift of at most 14 scales 16 bits to 2^30.
WindowsFitHalf == \A p \in Packets : p.window + WrapWindow + Header <= Half

\* The app's stream, with its SYN and FIN, takes fewer than half of the sequence
\* numbers.  The properties know a byte by its number, so that they say nothing
\* of a stream that uses a number twice.
StreamFitsHalf ==
  \E isn \in Word : \A p \in Packets : Ahead(isn, p.seq) + p.len + 2 < Half

\* Data read from the server is written to the tun only as far as the app's
\* last window allows, headers included, across the wrap of local_seq.
DataFitsWindow ==
  [][ s'.unconfirmed > s.unconfirmed =>
        Ahead(s'.acked, s'.local_seq) + s'.unconfirmed * Header <= s'.send_window ]_vars

\* Whatever the app and the server do, an aborted or finished session is freed.
FinishedIsFreed == s.state \in Finished ~> s.state = "none"

Life ==
  INSTANCE SessionLife WITH
    Lingers <- TRUE,
    life <- CASE s.lost                -> "lost"
              [] s.state = "none"      -> "absent"
              [] s.state = "CLOSING"   -> "ending"
              [] s.state = "CLOSE"     -> "ended"
              [] OTHER                 -> "live",
    fd   <- s.open,
    owes <- s.unreported

\* A TCP session lives as SessionLife promises: its descriptor is given back
\* once, at half-close or by the check, an abort or the last FIN leads to
\* lingering, and it is freed with its traffic reported.
ImplementsLife == Life!Spec

\* queue_tcp calls bytes below remote_seq "already forwarded" (tcp.c:983), so
\* no segment in the queue is below remote_seq.
QueuedIsNotForwarded ==
  s.state \in {"SYN_RECV", "ESTABLISHED", "CLOSE_WAIT"} =>
    \A i \in DOMAIN s.forward : Compare(s.forward[i].seq, s.remote_seq) >= 0
=============================================================================
