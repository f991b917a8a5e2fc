---------------------------- MODULE IcmpSession ----------------------------
(***************************************************************************)
(* The ICMP sessions of one pair of addresses (jni/netguard/icmp.c) in the *)
(* event loop of session.c.                                                *)
(*                                                                         *)
(* An echo request of an app opens a session with a ping socket; replies   *)
(* read from the socket get the identifier that the session remembers and  *)
(* go to the tun.  handle_icmp does not find a session that is stopped, so *)
(* that a second one for the same pair can begin before the check has      *)
(* freed the first.  Sessions are told apart by the memory they occupy,    *)
(* which malloc may use again.                                             *)
(***************************************************************************)
EXTENDS Naturals

CONSTANTS
  Slots,      \* where sessions can be in memory (bound on their number)
  Ids,        \* the ICMP identifiers of the apps that ping
  NoId,       \* no identifier
  TUN_YIELD   \* packets handled per tun event (netguard.h:45)

ASSUME IdsAssumption == Ids # {} /\ NoId \notin Ids
ASSUME YieldAssumption == TUN_YIELD \in Nat \ {0}

VARIABLES
  table,  \* the sessions
  phase,  \* where the loop of handle_events is
  ready,  \* per session, the event epoll_wait captured, until handled
  tun,    \* how many packets of the tun the current batch may still read
  reply   \* history: the last reply written to the tun

vars == <<table, phase, ready, tun, reply>>

-----------------------------------------------------------------------------
Phase == {"check", "wait", "dispatch"}

\* struct icmp_session; stopped is its field stop, fresh says that time has not
\* fallen behind the timeout.  The rest is history: users are the identifiers of
\* the requests that the session was given, asked those of the requests sent on
\* the socket, for any of which an answer may come, also repeatedly; lost says
\* that the session that was here was freed with its descriptor open.
Session ==
  [state : {"none", "live", "stopped"}, open : BOOLEAN, polled : BOOLEAN,
   fresh : BOOLEAN, id : Ids \union {NoId}, users : SUBSET Ids, asked : SUBSET Ids,
   lost : BOOLEAN]

NoSession ==
  [state |-> "none", open |-> FALSE, polled |-> FALSE, fresh |-> FALSE,
   id |-> NoId, users |-> {}, asked |-> {}, lost |-> FALSE]

\* of is the identifier of the request a reply answers, given the one it
\* carried on the tun; sole says that the session was used by no other.
Reply == [of : Ids, given : Ids, sole : BOOLEAN]

NoReply == [of |-> NoId, given |-> NoId, sole |-> TRUE]

Stopped(t) == [t EXCEPT !.state = "stopped"]

-----------------------------------------------------------------------------
(* check_icmp_session: a stopped or idle session is closed and freed.      *)

\* Freeing only what has timed out (plausible slip).
DueWhenIdle(t) == t.state = "live" /\ ~t.fresh

Due(t) == t.state = "stopped" \/ (t.state = "live" /\ ~t.fresh)

\* Closing only what an error has stopped (plausible slip).
ClosedIfStopped(t) ==
  IF t.state = "stopped" THEN [t EXCEPT !.open = FALSE, !.polled = FALSE] ELSE t

Closed(t) == [t EXCEPT !.open = FALSE, !.polled = FALSE]

Freed(t) == [NoSession EXCEPT !.lost = t.open]

CheckIcmpSession ==
  /\ phase = "check"
  /\ phase' = "wait"
  /\ table' = [i \in Slots |-> IF Due(table[i]) THEN Freed(Closed(table[i])) ELSE table[i]]
  /\ UNCHANGED <<ready, tun, reply>>

\* Less than EPOLL_MIN_CHECK milliseconds after the last check.
SkipCheck ==
  /\ phase = "check"
  /\ phase' = "wait"
  /\ UNCHANGED <<table, ready, tun, reply>>

\* time of a session falls behind the timeout.
TimePasses(i) ==
  /\ table[i].fresh
  /\ table' = [table EXCEPT ![i].fresh = FALSE]
  /\ UNCHANGED <<phase, ready, tun, reply>>

-----------------------------------------------------------------------------
(* epoll_wait and the dispatch of its batch.                               *)

Polled == {i \in Slots : table[i].open /\ table[i].polled}

EpollWait ==
  /\ phase = "wait"
  /\ phase' = "dispatch"
  /\ ready' \in [Slots -> {{}, {"IN"}, {"ERR"}}]
  /\ \A i \in Slots \ Polled : ready'[i] = {}
  /\ tun' \in {0, TUN_YIELD}
  /\ UNCHANGED <<table, reply>>

\* is_readable(tun) is false.
TunDrained ==
  /\ phase = "dispatch"
  /\ tun > 0
  /\ tun' = 0
  /\ UNCHANGED <<table, phase, ready, reply>>

EndBatch ==
  /\ phase = "dispatch"
  /\ tun = 0 /\ \A i \in Slots : ready[i] = {}
  /\ phase' = "check"
  /\ UNCHANGED <<table, ready, tun, reply>>

-----------------------------------------------------------------------------
(* handle_icmp.                                                            *)

TunPacket ==
  /\ phase = "dispatch"
  /\ tun > 0
  /\ tun' = tun - 1
  /\ UNCHANGED <<phase, ready, reply>>

\* Packets of another type are not supported, and open_icmp_socket can fail.
TunDropped ==
  /\ TunPacket
  /\ UNCHANGED table

\* Passing over a session whose time is up (plausible slip).
MatchesFresh(i) == table[i].state = "live" /\ table[i].fresh

\* The session that the search of handle_icmp stops at.
Matches(i) == table[i].state = "live"

\* A failed sendto that frees the session on the spot (plausible slip).
SendFailsFreeing(t) == NoSession

\* sendto failed with an error that is not transient.
SendFails(t) == Stopped(t)

\* The request goes out with a changed identifier; a transient error of sendto
\* loses it.
Forward(i, t, id) ==
  LET u == [t EXCEPT !.fresh = TRUE, !.users = @ \union {id}] IN
  table' \in {[table EXCEPT ![i] = v] :
                v \in {u, [u EXCEPT !.asked = @ \union {id}], SendFails(u)}}

\* epoll_ctl may fail, which is only logged.
TunNew(i, id) ==
  /\ TunPacket
  /\ \A j \in Slots : ~Matches(j)
  /\ table[i].state = "none"
  /\ \E polled \in BOOLEAN :
       Forward(i, [NoSession EXCEPT !.state = "live", !.open = TRUE,
                                    !.polled = polled, !.id = id], id)

TunForward(i, id) ==
  /\ TunPacket
  /\ Matches(i)
  /\ Forward(i, table[i], id)

HandleIcmp ==
  \/ TunDropped
  \/ \E i \in Slots, id \in Ids : TunNew(i, id) \/ TunForward(i, id)

-----------------------------------------------------------------------------
(* check_icmp_socket.                                                      *)

SocketEvent(i) ==
  /\ phase = "dispatch"
  /\ ready[i] # {}
  /\ tun \in {0, TUN_YIELD}
  /\ ready' = [ready EXCEPT ![i] = {}]
  /\ UNCHANGED <<phase, tun>>

\* An error of the socket, or recv that fails: the session is stopped unless
\* the error of recv is transient.
SocketFails(i) ==
  /\ SocketEvent(i)
  /\ \/ table' = [table EXCEPT ![i] = Stopped(@), ![i].fresh = TRUE]
     \/ ready[i] = {"IN"} /\ table' = [table EXCEPT ![i].fresh = TRUE]
  /\ UNCHANGED reply

\* The reply keeps the identifier that the kernel gave the request (plausible
\* slip).
RestoredNot(t, of) == NoId

\* "restore original ID": the one that opened the session.
Restored(t, of) == t.id

SocketReply(i) ==
  /\ SocketEvent(i)
  /\ ready[i] = {"IN"}
  /\ \E of \in table[i].asked :
       \/ /\ reply' = [of |-> of, given |-> Restored(table[i], of),
                       sole |-> table[i].users = {of}]
          /\ table' = [table EXCEPT ![i].fresh = TRUE]
       \/ /\ table' = [table EXCEPT ![i] = Stopped(@), ![i].fresh = TRUE]
          /\ UNCHANGED reply

CheckIcmpSocket == \E i \in Slots : SocketFails(i) \/ SocketReply(i)

-----------------------------------------------------------------------------
Init ==
  /\ table = [i \in Slots |-> NoSession]
  /\ phase = "check"
  /\ ready = [i \in Slots |-> {}]
  /\ tun = 0
  /\ reply = NoReply

\* One step of the thread that runs handle_events.
Loop ==
  \/ CheckIcmpSession
  \/ SkipCheck
  \/ EpollWait
  \/ HandleIcmp
  \/ TunDrained
  \/ CheckIcmpSocket
  \/ EndBatch

Next == Loop \/ \E i \in Slots : TimePasses(i)

Spec == Init /\ [][Next]_vars

\* As for TcpSession.
Fairness == WF_vars(Loop) /\ SF_vars(CheckIcmpSession)

FairSpec == Spec /\ Fairness

-----------------------------------------------------------------------------
(* Properties.                                                             *)

\* Every variable keeps its type.
TypeOK ==
  /\ table \in [Slots -> Session]
  /\ phase \in Phase
  /\ ready \in [Slots -> {{}, {"IN"}, {"ERR"}}]
  /\ tun \in 0 .. TUN_YIELD
  /\ reply \in Reply \union {NoReply}

\* An event is handled on an open socket of a session that has not been freed,
\* although other events and packets of the batch may have stopped the session
\* and opened another one for the same addresses: ev.data.ptr is not checked.
EventFindsSocket ==
  \A i \in Slots : ready[i] # {} => phase = "dispatch" /\ table[i].open
                                    /\ table[i].state # "none"

\* A pair of addresses has one session that is not stopped, and so one timeout
\* and one identifier, however many stopped ones wait for the check.
OneLiveSession ==
  \A i, j \in Slots : table[i].state = "live" /\ table[j].state = "live" => i = j

\* A session that only one app pings through gives each reply the identifier of
\* its request, which neither the changed request nor the kernel kept, although
\* the session may end, and its memory be used for another app, before the reply
\* is read.
RestoresSoleId == reply.sole => reply.given = reply.of

\* A stopped session is freed, although the apps keep pinging.
StoppedIsFreed == \A i \in Slots : table[i].state = "stopped" ~> table[i].state = "none"

Life(i) ==
  INSTANCE SessionLife WITH
    Lingers <- FALSE,
    life <- CASE table[i].lost              -> "lost"
              [] table[i].state = "none"    -> "absent"
              [] table[i].state = "live"    -> "live"
              [] table[i].state = "stopped" -> "ending",
    fd   <- table[i].open,
    owes <- FALSE

\* Every ICMP session lives as SessionLife promises, without lingering and
\* without traffic to report: memory is used again only after its descriptor
\* was given back.
ImplementsLife ==
  /\ \A i \in Slots : Life(i)!Init
  /\ [][ \A i \in Slots : Life(i)!Next \/ UNCHANGED Life(i)!vars ]_vars
=============================================================================
