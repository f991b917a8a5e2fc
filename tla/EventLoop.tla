----------------------------- MODULE EventLoop -----------------------------
(***************************************************************************)
(* The session table and its clock: how handle_events (session.c) decides  *)
(* how long to sleep, so that it wakes for the session that times out      *)
(* next.  TcpSession, UdpSession and IcmpSession leave open when a timeout *)
(* is noticed; here sessions of all protocols share the loop, and their    *)
(* timeouts shrink with the number of sessions, below zero when there are  *)
(* more than maxsessions.                                                  *)
(*                                                                         *)
(* Time is counted in seconds, as time(NULL) does.  Of the milliseconds    *)
(* that get_ms counts it matters only whether more than EPOLL_MIN_CHECK    *)
(* have passed since the last check.                                       *)
(***************************************************************************)
EXTENDS Integers, FiniteSets, FiniteSetsExt

CONSTANTS
  Slots,          \* the places in memory for sessions
  MaxSessions,    \* maxsessions, which does not limit the table
  Timeouts,       \* per protocol, the timeouts its sessions can have
  KeepTimeout,    \* UDP_KEEP_TIMEOUT and TCP_KEEP_TIMEOUT
  EPOLL_TIMEOUT   \* the longest sleep (netguard.h:41)

Protocol == {"icmp", "udp", "tcp"}

ASSUME TableAssumption == IsFiniteSet(Slots) /\ MaxSessions \in Nat \ {0}
ASSUME TimeoutsAssumption ==
  /\ Timeouts \in [Protocol -> SUBSET Nat]
  /\ KeepTimeout \in [{"udp", "tcp"} -> Nat]
  /\ EPOLL_TIMEOUT \in Nat \ {0}

VARIABLES
  table,     \* the sessions
  phase,     \* where the loop is
  sessions,  \* how many sessions were counted
  recheck,   \* the loop wants to come back after EPOLL_MIN_CHECK milliseconds
  recent,    \* less than EPOLL_MIN_CHECK milliseconds since the last check
  left       \* the whole seconds that the sleep still has

vars == <<table, phase, sessions, recheck, recent, left>>

-----------------------------------------------------------------------------
Phase == {"count", "check", "wait", "dispatch"}

State == {"none", "live", "ending", "ended"}

\* limit is the timeout before it is scaled, or that of lingering; age is
\* now - time, counted until it exceeds the limit, while it matters.
Session == [proto : Protocol, state : State, limit : Nat, age : Nat]

Empty == [proto |-> "icmp", state |-> "none", limit |-> 0, age |-> 0]

Opened(p, limit, state) == [proto |-> p, state |-> state, limit |-> limit, age |-> 0]

Doomed(t) == [t EXCEPT !.state = "ending", !.age = 0]

Lingering(t) == [t EXCEPT !.state = "ended", !.age = 0, !.limit = KeepTimeout[t.proto]]

Older(t) ==
  IF t.state \in {"live", "ended"} /\ t.age <= t.limit THEN [t EXCEPT !.age = @ + 1] ELSE t

Live == {i \in Slots : table[i].state = "live"}

\* The division of C, which rounds towards zero.
Quotient(a, b) == IF a < 0 THEN -(-a \div b) ELSE a \div b

\* get_icmp_timeout, get_udp_timeout and get_tcp_timeout for n sessions.
Scaled(limit, n) == Quotient(limit * (100 - (n * 100) \div MaxSessions), 100)

\* Noticing a timeout only in the second in which it occurs (plausible slip).
OverdueExactly(t, n) == t.age = Scaled(t.limit, n) + 1

Overdue(t, n) == t.age > Scaled(t.limit, n)

\* Letting sessions of ICMP linger as well (plausible slip).
EndedLingers(t) == [t EXCEPT !.state = "ended", !.age = 0]

\* A session of ICMP is freed at once, the others linger.
Ended(t) == IF t.proto = "icmp" THEN Empty ELSE Lingering(t)

\* check_icmp_session, check_udp_session and check_tcp_session.
Checked(t, n) ==
  CASE t.state = "ending" -> Ended(t)
    [] t.state = "live" /\ Overdue(t, n) -> Ended(t)
    [] t.state = "ended" /\ t.age > t.limit -> Empty
    [] OTHER -> t

\* Waking when the timeout is reached and not yet exceeded (plausible slip).
RemainingToLimit(t, n) == Scaled(t.limit, n) - t.age

\* stimeout.
Remaining(t, n) == Scaled(t.limit, n) + 1 - t.age

\* The seconds to sleep after a check that left the sessions ts.
Timeout(ts, n) ==
  Min({EPOLL_TIMEOUT} \union
      {r \in {Remaining(ts[i], n) : i \in {j \in Slots : ts[j].state = "live"}} : r > 0})

-----------------------------------------------------------------------------
(* The loop.                                                               *)

\* The sessions are counted, and the events of those of TCP are set, which can
\* fail for some of them, and can ask for another check soon.
Count ==
  /\ phase = "count"
  /\ phase' = "check"
  /\ sessions' = Cardinality(Live)
  /\ LET tcp == {i \in Slots : table[i].proto = "tcp" /\ table[i].state \in {"live", "ending"}} IN
       /\ recheck' \in {FALSE, tcp # {}}
       /\ \E failed \in SUBSET tcp :
            table' = [i \in Slots |->
                       IF i \in failed THEN Doomed(table[i]) ELSE table[i]]
  /\ UNCHANGED <<recent, left>>

Check ==
  /\ phase = "check" /\ ~recent
  /\ phase' = "wait"
  /\ recent' = TRUE
  /\ table' = [i \in Slots |-> Checked(table[i], sessions)]
  /\ left' = IF recheck THEN 1 ELSE Timeout(table', sessions)
  /\ sessions' = 0
  /\ UNCHANGED recheck

\* Too soon after the last check.
SkipCheck ==
  /\ phase = "check" /\ recent
  /\ phase' = "wait"
  /\ recheck' = TRUE
  /\ left' = 1
  /\ sessions' = 0
  /\ UNCHANGED <<table, recent>>

\* Nothing was ready in time; the short sleep is over in a fraction of a second.
EpollTimeout ==
  /\ phase = "wait"
  /\ recheck \/ left = 0
  /\ phase' = "count"
  /\ recheck' = FALSE /\ left' = 0
  /\ UNCHANGED <<table, sessions, recent>>

EpollReady ==
  /\ phase = "wait"
  /\ phase' = "dispatch"
  /\ recheck' = FALSE /\ left' = 0
  /\ UNCHANGED <<table, sessions, recent>>

\* A packet or a socket event concerns session i: it may start it, keep it alive
\* (a session of TCP may then have another timeout), or doom it.
Dispatch(i) ==
  /\ phase = "dispatch"
  /\ \E p \in Protocol : \E limit \in Timeouts[p] : \E state \in {"live", "ending"} :
       /\ \/ table[i].state = "none"
          \/ table[i].state = "live" /\ table[i].proto = p
             /\ (p # "tcp" => table[i].limit = limit)
       /\ table' = [table EXCEPT ![i] = Opened(p, limit, state)]
  /\ UNCHANGED <<phase, sessions, recheck, recent, left>>

EndBatch ==
  /\ phase = "dispatch"
  /\ phase' = "count"
  /\ UNCHANGED <<table, sessions, recheck, recent, left>>

Loop ==
  \/ Count
  \/ Check
  \/ SkipCheck
  \/ EpollTimeout
  \/ EpollReady
  \/ \E i \in Slots : Dispatch(i)
  \/ EndBatch

-----------------------------------------------------------------------------
(* The clocks.                                                             *)

\* A second begins.  The sleep ends in time.
Second ==
  /\ phase = "wait" => left > 0
  /\ left' = IF phase = "wait" THEN left - 1 ELSE left
  /\ table' = [i \in Slots |-> Older(table[i])]
  /\ UNCHANGED <<phase, sessions, recheck, recent>>

\* EPOLL_MIN_CHECK milliseconds have passed since the last check.
Moment ==
  /\ recent
  /\ recent' = FALSE
  /\ UNCHANGED <<table, phase, sessions, recheck, left>>

Init ==
  /\ table = [i \in Slots |-> Empty]
  /\ phase = "count"
  /\ sessions = 0
  /\ recheck = FALSE
  /\ recent = FALSE
  /\ left = 0

Next == Loop \/ Second \/ Moment

Spec == Init /\ [][Next]_vars

\* The thread runs, a batch is finite, and both clocks advance.
Fairness == WF_vars(Loop) /\ WF_vars(EndBatch) /\ WF_vars(Second) /\ WF_vars(Moment)

FairSpec == Spec /\ Fairness

-----------------------------------------------------------------------------
(* Properties.                                                             *)

\* Every variable keeps its type; a session of ICMP never lingers.
TypeOK ==
  /\ table \in [Slots -> Session]
  /\ \A i \in Slots : table[i].age <= table[i].limit + 1
                      /\ (table[i].proto = "icmp" => table[i].state # "ended")
  /\ phase \in Phase
  /\ sessions \in 0 .. Cardinality(Slots)
  /\ recheck \in BOOLEAN /\ recent \in BOOLEAN
  /\ left \in 0 .. EPOLL_TIMEOUT

\* The loop never sleeps on while a session is overdue: until the second after
\* its timeout, scaled for the sessions that there are, it has woken up, or is
\* about to, or sleeps for EPOLL_MIN_CHECK only; whichever session was doomed,
\* closed or opened since the loop last chose how long to sleep.
NeverOverdue ==
  phase = "wait" /\ ~recheck =>
    \A i \in Live : table[i].age + left <= Scaled(table[i].limit, Cardinality(Live)) + 1

Idle(i) == table[i].state = "live" /\ table[i].age > table[i].limit

\* A session that carries nothing for longer than its timeout is ended, unless
\* it is used at last, however busy the loop is kept by others and although it
\* skips checks.
IdleEnds == \A i \in Slots : Idle(i) ~> ~Idle(i)
=============================================================================
