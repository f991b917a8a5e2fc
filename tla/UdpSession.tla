----------------------------- MODULE UdpSession -----------------------------
(***************************************************************************)
(* One UDP session of the native engine (jni/netguard/udp.c) and the event *)
(* loop that drives it (session.c, handle_events).                         *)
(*                                                                         *)
(* A datagram of the app opens a session with a socket of its own; answers *)
(* read from the socket are written to the tun.  The loop checks the       *)
(* session (timeout, closing, freeing), waits in epoll and dispatches the  *)
(* batch: up to TUN_YIELD packets of the tun, and up to UDP_YIELD          *)
(* datagrams for one event of the socket, in either order.                 *)
(*                                                                         *)
(* The addresses and ports are fixed: there is at most one session for     *)
(* them, because handle_udp finds it in every state.  "none" means that    *)
(* the list holds none.  UDP_BLOCKED does not occur: only block_udp sets   *)
(* it, and handle_ip lets every UDP packet through.                        *)
(***************************************************************************)
EXTENDS Naturals

CONSTANTS
  TUN_YIELD,  \* packets handled per tun event (netguard.h:45)
  UDP_YIELD,  \* datagrams read per socket event (netguard.h:57)
  MaxMoved    \* bound: datagrams with payload that are moved, both ways

ASSUME YieldAssumption == TUN_YIELD \in Nat \ {0} /\ UDP_YIELD \in Nat \ {0}
ASSUME MovedAssumption == MaxMoved \in Nat

VARIABLES
  port,      \* what the destination port stands for; never changes
  s,         \* the session (struct ng_session and its udp_session)
  phase,     \* where the loop of handle_events is
  ready,     \* the event epoll_wait captured for the socket, until handled
  count,     \* how many datagrams have been read for that event
  tun,       \* how many packets of the tun the current batch may still read
  moved,     \* history: datagrams with payload sent or received
  reported   \* history: datagrams that account_usage was told of

vars == <<port, s, phase, ready, count, tun, moved, reported>>

-----------------------------------------------------------------------------
Port == {"dns", "dhcp", "other"}

State == {"none", "ACTIVE", "FINISHING", "CLOSED"}

Phase == {"check", "wait", "dispatch"}

\* struct udp_session.  fresh says that time has not yet fallen behind the
\* timeout that applies; usage is what sent and received count together.  lost
\* is history: the session that was here was freed with its descriptor open or
\* with traffic not reported.
Session ==
  [state : State, open : BOOLEAN, polled : BOOLEAN, fresh : BOOLEAN, usage : Nat,
   lost : BOOLEAN]

NoSession ==
  [state |-> "none", open |-> FALSE, polled |-> FALSE, fresh |-> FALSE, usage |-> 0,
   lost |-> FALSE]

-----------------------------------------------------------------------------
(* check_udp_session and the freeing of a session in handle_events.        *)

\* Taking an idle session for closed, so that it is freed with its descriptor
\* open (plausible slip).
TimeoutCloses(t) ==
  IF t.state = "ACTIVE" /\ ~t.fresh THEN [t EXCEPT !.state = "CLOSED"] ELSE t

Timeout(t) ==
  IF t.state = "ACTIVE" /\ ~t.fresh THEN [t EXCEPT !.state = "FINISHING"] ELSE t

\* Closing that goes on in FINISHING (plausible slip).
CloseSocketLingers(t) ==
  IF t.state = "FINISHING" THEN [t EXCEPT !.open = FALSE, !.polled = FALSE] ELSE t

CloseSocket(t) ==
  IF t.state = "FINISHING"
  THEN [t EXCEPT !.open = FALSE, !.polled = FALSE, !.fresh = TRUE, !.state = "CLOSED"]
  ELSE t

Closed(t) == CloseSocket(Timeout(t))

\* account_usage is told of a closed session, once.
Due(t) == t.state = "CLOSED"

\* Reporting without the reset of the counters (plausible slip).
AccountUsageKeeps(t) == t

AccountUsage(t) == IF Due(t) THEN [t EXCEPT !.usage = 0] ELSE t

\* The session is freed once it has been closed for UDP_KEEP_TIMEOUT.
Cleanup(t) ==
  IF t.state = "CLOSED" /\ ~t.fresh
  THEN [NoSession EXCEPT !.lost = t.open \/ t.usage > 0] ELSE t

CheckUdpSession ==
  /\ phase = "check"
  /\ phase' = "wait"
  /\ LET t == Closed(s) IN
       /\ s' = Cleanup(AccountUsage(t))
       /\ reported' = reported + (IF Due(t) THEN t.usage ELSE 0)
  /\ UNCHANGED <<port, ready, count, tun, moved>>

\* Less than EPOLL_MIN_CHECK milliseconds after the last check.
SkipCheck ==
  /\ phase = "check"
  /\ phase' = "wait"
  /\ UNCHANGED <<port, s, ready, count, tun, moved, reported>>

\* time falls behind the timeout that applies to the session.
TimePasses ==
  /\ s.fresh
  /\ s' = [s EXCEPT !.fresh = FALSE]
  /\ UNCHANGED <<port, phase, ready, count, tun, moved, reported>>

-----------------------------------------------------------------------------
(* epoll_wait and the dispatch of its batch.                               *)

EpollWait ==
  /\ phase = "wait"
  /\ phase' = "dispatch"
  /\ ready' \in IF s.open /\ s.polled THEN SUBSET {"IN", "ERR"} ELSE {{}}
  /\ tun' \in {0, TUN_YIELD}
  /\ UNCHANGED <<port, s, count, moved, reported>>

\* is_readable(tun) is false.
TunDrained ==
  /\ phase = "dispatch"
  /\ tun > 0 /\ count = 0
  /\ tun' = 0
  /\ UNCHANGED <<port, s, phase, ready, count, moved, reported>>

EndBatch ==
  /\ phase = "dispatch"
  /\ tun = 0 /\ ready = {}
  /\ phase' = "check"
  /\ UNCHANGED <<port, s, ready, count, tun, moved, reported>>

-----------------------------------------------------------------------------
(* handle_udp: one datagram of the app.                                    *)

\* The socket event of the batch comes before the first or after the last
\* packet, never between two.
TunPacket ==
  /\ phase = "dispatch"
  /\ tun > 0 /\ count = 0
  /\ tun' = tun - 1
  /\ UNCHANGED <<port, phase, ready, count, reported>>

\* The session after n datagrams with payload were counted for it.
Counted(t, n) ==
  /\ moved + n <= MaxMoved
  /\ moved' = moved + n
  /\ s' = [t EXCEPT !.usage = @ + n]

\* A failed sendto that closes the socket on the spot (plausible slip).
SendFailsClosing(t) ==
  [t EXCEPT !.state = "FINISHING", !.open = FALSE, !.polled = FALSE]

\* sendto failed with an error that is not transient.
SendFails(t) == [t EXCEPT !.state = "FINISHING"]

\* check_dhcp answers on the tun, or the datagram is sent: with or without
\* payload, or not at all because of a transient or another error.
Forward(t) ==
  LET u == [t EXCEPT !.fresh = TRUE] IN
  \/ port = "dhcp" /\ Counted(t, 0)
  \/ \E n \in {0, 1} : Counted(u, n)
  \/ Counted(SendFails(u), 0)

\* A session that is finishing or lingers swallows the datagram.
TunIgnored ==
  /\ TunPacket
  /\ s.state \notin {"none", "ACTIVE"}
  /\ UNCHANGED <<s, moved>>

\* open_udp_socket fails: no session is left.
TunUnopened ==
  /\ TunPacket
  /\ s.state = "none"
  /\ UNCHANGED <<s, moved>>

\* epoll_ctl may fail, which is only logged.
TunNew ==
  /\ TunPacket
  /\ s.state = "none"
  /\ \E polled \in BOOLEAN :
       Forward([NoSession EXCEPT !.state = "ACTIVE", !.open = TRUE,
                                 !.polled = polled, !.fresh = TRUE])

TunForward ==
  /\ TunPacket
  /\ s.state = "ACTIVE"
  /\ Forward(s)

HandleUdp == TunIgnored \/ TunUnopened \/ TunNew \/ TunForward

-----------------------------------------------------------------------------
(* The event of the socket: check_udp_socket for each datagram, as long as *)
(* the socket is readable.  The loop looks at EPOLLERR before it calls.    *)

SocketEvent ==
  /\ phase = "dispatch"
  /\ ready # {}
  /\ tun \in {0, TUN_YIELD}
  /\ UNCHANGED <<port, phase, tun, reported>>

\* Reading once more than UDP_YIELD times (plausible slip).
MayReadOneMore == count <= UDP_YIELD

MayRead == count < UDP_YIELD

\* recv: a transient error, another error or an empty datagram, or payload
\* whose write to the tun succeeds or fails.  A name server's answer ends the
\* session, because each query has a socket ("too many open files").
CheckUdpSocket ==
  /\ SocketEvent
  /\ "IN" \in ready /\ "ERR" \notin ready
  /\ MayRead
  /\ count' = count + 1
  /\ LET u == [s EXCEPT !.fresh = TRUE] IN
       \/ Counted(u, 0)
       \/ Counted([u EXCEPT !.state = "FINISHING"], 0)
       \/ \E written \in BOOLEAN :
            Counted([u EXCEPT !.state = IF written /\ port # "dns" THEN @
                                        ELSE "FINISHING"], 1)
  /\ UNCHANGED ready

\* The socket is not readable, UDP_YIELD is reached, or the event is an error.
EndEvent ==
  /\ SocketEvent
  /\ ready' = {} /\ count' = 0
  /\ UNCHANGED <<s, moved>>

-----------------------------------------------------------------------------
Init ==
  /\ port \in Port
  /\ s = NoSession
  /\ phase = "check"
  /\ ready = {} /\ count = 0 /\ tun = 0
  /\ moved = 0 /\ reported = 0

\* One step of the thread that runs handle_events.
Loop ==
  \/ CheckUdpSession
  \/ SkipCheck
  \/ EpollWait
  \/ HandleUdp
  \/ TunDrained
  \/ CheckUdpSocket
  \/ EndEvent
  \/ EndBatch

Next == Loop \/ TimePasses

Spec == Init /\ [][Next]_vars

\* As for TcpSession: the thread runs, the clock advances, and checks are
\* skipped only within EPOLL_MIN_CHECK milliseconds of one.
Fairness == WF_vars(Loop) /\ WF_vars(TimePasses) /\ SF_vars(CheckUdpSession)

FairSpec == Spec /\ Fairness

-----------------------------------------------------------------------------
(* Properties.                                                             *)

\* Every variable keeps its type.
TypeOK ==
  /\ port \in Port
  /\ s \in Session
  /\ phase \in Phase
  /\ ready \in SUBSET {"IN", "ERR"}
  /\ count \in 0 .. UDP_YIELD
  /\ tun \in 0 .. TUN_YIELD
  /\ moved \in Nat
  /\ reported \in Nat

\* The datagrams of one event are read from an open socket of an existing
\* session, although packets of the same batch and the datagrams read before
\* may have ended the session: neither is_readable nor check_udp_socket tests
\* the descriptor or the state.
EventFindsSocket ==
  ready # {} => phase = "dispatch" /\ s.open /\ s.state # "none"

\* Across all sessions, every datagram that was moved is reported to
\* account_usage exactly once, also those that are read in the same event after
\* the session was finished; until then its session counts it.
UsageReportedOnce == moved = reported + s.usage

\* A finished session is freed, although the app may keep sending to the same
\* port and each of those datagrams is swallowed: the port pair becomes usable
\* again.
FinishedIsFreed == s.state \in {"FINISHING", "CLOSED"} ~> s.state = "none"

Life ==
  INSTANCE SessionLife WITH
    Lingers <- TRUE,
    life <- CASE s.lost                -> "lost"
              [] s.state = "none"      -> "absent"
              [] s.state = "ACTIVE"    -> "live"
              [] s.state = "FINISHING" -> "ending"
              [] s.state = "CLOSED"    -> "ended",
    fd   <- s.open,
    owes <- s.usage > 0

\* A UDP session lives as SessionLife promises: it goes forward only, is freed
\* only after it was closed, with its descriptor given back and all its traffic
\* reported, also that of datagrams read after it was finished, and only then may
\* a datagram of the same ports open another one.
ImplementsLife == Life!Spec
=============================================================================
