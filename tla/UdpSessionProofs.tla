-------------------------- MODULE UdpSessionProofs --------------------------
(***************************************************************************)
(* Theorems about UdpSession, for batches and events of any length and any *)
(* number of datagrams: its types, that events find their socket, that     *)
(* traffic is reported exactly once, and that a session lives as           *)
(* SessionLife promises.                                                   *)
(***************************************************************************)
EXTENDS UdpSession, TLAPS

\* The descriptor is open from the first datagram to the check that closes the
\* session, in the epoll set only while open, a session that was closed owes
\* nothing, and nothing was lost with the one before.
Consistent(t) ==
  /\ ~t.lost
  /\ t.open <=> t.state \in {"ACTIVE", "FINISHING"}
  /\ t.polled => t.open
  /\ t.open \/ t.usage = 0

IInv == TypeOK /\ Consistent(s) /\ EventFindsSocket /\ UsageReportedOnce

-----------------------------------------------------------------------------
\* The record that stands for no session is well-formed.
LEMMA NoSessionType == NoSession \in Session /\ Consistent(NoSession)
BY DEF NoSession, Session, State, Consistent

\* A session freed without a loss leaves the record that stands for none.
LEMMA FreedIsNone ==
  ASSUME NEW x, x = [NoSession EXCEPT !.lost = FALSE]
  PROVE  x = NoSession
BY DEF NoSession

\* A check leaves a well-formed session that still counts what was not
\* reported, and keeps the session or moves it on.
LEMMA CheckKeeps ==
  ASSUME NEW t \in Session, Consistent(t)
  PROVE  LET c == Closed(t)
             u == Cleanup(AccountUsage(c))
         IN  /\ u \in Session /\ Consistent(u)
             /\ c.usage = t.usage
             /\ u.usage = IF Due(c) THEN 0 ELSE t.usage
             /\ \/ u.state = t.state /\ u.open = t.open /\ u.usage = t.usage
                \/ t.state \in {"ACTIVE", "FINISHING"} /\ u.state = "CLOSED" /\ ~u.open
                \/ t.state = "CLOSED" /\ u.state = "none" /\ ~u.open
<1> DEFINE a == Timeout(t)
           c == Closed(t)
           d == AccountUsage(c)
           u == Cleanup(d)
<1>1. /\ a \in Session /\ Consistent(a) /\ a.usage = t.usage /\ a.open = t.open
      /\ a.state = t.state \/ (t.state = "ACTIVE" /\ a.state = "FINISHING")
  BY DEF Timeout, Session, State, Consistent
<1>2. c = CloseSocket(a)
  BY DEF Closed
<1> HIDE DEF a, c
<1>3. /\ c \in Session /\ c.usage = a.usage /\ c.lost = a.lost
      /\ IF a.state = "FINISHING"
         THEN c.state = "CLOSED" /\ ~c.open /\ ~c.polled /\ c.fresh
         ELSE c = a
  BY <1>1, <1>2 DEF CloseSocket, Session, State
<1>4. /\ d \in Session /\ d.state = c.state /\ d.open = c.open /\ d.polled = c.polled
      /\ d.fresh = c.fresh /\ d.lost = c.lost
      /\ d.usage = IF Due(c) THEN 0 ELSE c.usage
  BY <1>3 DEF AccountUsage, Due, Session
<1> HIDE DEF d
<1>5. u = d \/ (d.state = "CLOSED" /\ ~d.fresh /\ u = NoSession)
  <2>1. d.state = "CLOSED" => ~d.open /\ d.usage = 0
    BY <1>1, <1>3, <1>4 DEF Consistent, Due, Session, State
  <2>2. d.state = "CLOSED" => (d.open \/ d.usage > 0) = FALSE
    BY <2>1
  <2>3. u # d => u = [NoSession EXCEPT !.lost = d.open \/ d.usage > 0]
                 /\ d.state = "CLOSED" /\ ~d.fresh
    BY DEF Cleanup
  <2>4. u # d => u = [NoSession EXCEPT !.lost = FALSE]
    BY <2>2, <2>3, Zenon
  <2> HIDE DEF u
  <2> QED BY <2>3, <2>4, FreedIsNone
<1>6. NoSession.state = "none" /\ ~NoSession.open /\ NoSession.usage = 0
  BY DEF NoSession
<1> HIDE DEF u
<1>7. u \in Session /\ Consistent(u)
  <2>1. Consistent(d)
    BY <1>1, <1>3, <1>4 DEF Consistent, Due, Session, State
  <2> QED BY <1>4, <1>5, <2>1, NoSessionType
<1>8. u.usage = IF Due(c) THEN 0 ELSE t.usage
  BY <1>1, <1>3, <1>4, <1>5, <1>6 DEF Due
<1>9. \/ u.state = t.state /\ u.open = t.open /\ u.usage = t.usage
      \/ t.state \in {"ACTIVE", "FINISHING"} /\ u.state = "CLOSED" /\ ~u.open
      \/ t.state = "CLOSED" /\ u.state = "none" /\ ~u.open
  BY <1>1, <1>3, <1>4, <1>5, <1>6 DEF Consistent, Due, Session, State
<1> QED BY <1>1, <1>3, <1>7, <1>8, <1>9 DEF u, d, c

-----------------------------------------------------------------------------
\* What a step does to the session: nothing that SessionLife can see, or it
\* begins or serves it, or, in the check only, closes or frees it.
Same == s'.state = s.state /\ s'.open = s.open /\ s'.usage = s.usage

Begins == s.state = "none" /\ s'.state \in {"ACTIVE", "FINISHING"} /\ s'.open

Serves ==
  /\ s.state \in {"ACTIVE", "FINISHING"} /\ s'.state \in {s.state, "FINISHING"}
  /\ s'.open = s.open
  /\ s'.usage >= s.usage

Closes ==
  /\ phase = "check"
  /\ s.state \in {"ACTIVE", "FINISHING"} /\ s'.state = "CLOSED"
  /\ ~s'.open /\ s'.usage = 0

Frees ==
  /\ phase = "check"
  /\ s.state = "CLOSED" /\ s'.state = "none"
  /\ ~s'.open /\ s'.usage = 0

StepKeeps ==
  /\ s' \in Session /\ Consistent(s')
  /\ moved' \in Nat /\ reported' \in Nat /\ moved' = reported' + s'.usage
  /\ Same \/ Begins \/ Serves \/ Closes \/ Frees

\* Counting datagrams for an open session.
LEMMA CountedKeeps ==
  ASSUME TypeOK, UsageReportedOnce,
         NEW t \in Session, Consistent(t), t.open, t.usage = s.usage,
         NEW n \in Nat, Counted(t, n), reported' = reported
  PROVE  /\ s' \in Session /\ Consistent(s') /\ s'.open /\ s'.state = t.state
         /\ s'.usage >= s.usage
         /\ moved' \in Nat /\ reported' \in Nat /\ moved' = reported' + s'.usage
<1>1. t.usage \in Nat /\ moved \in Nat /\ reported \in Nat /\ moved = reported + s.usage
  BY DEF Session, TypeOK, UsageReportedOnce
<1> DEFINE x == t.usage + n
<1>2. x \in Nat /\ x >= s.usage /\ moved' = moved + n
  BY <1>1 DEF Counted
<1>3. s' = [t EXCEPT !.usage = x]
  BY DEF Counted
<1> HIDE DEF x
<1>4. /\ s' \in Session /\ s'.open = t.open /\ s'.state = t.state /\ s'.polled = t.polled
      /\ s'.usage = x /\ s'.lost = t.lost
  BY <1>2, <1>3 DEF Session
<1> QED BY <1>1, <1>2, <1>4 DEF Consistent, x

\* Forwarding a datagram of the app serves an open session.
LEMMA ForwardKeeps ==
  ASSUME TypeOK, UsageReportedOnce,
         NEW t \in Session, Consistent(t), t.state = "ACTIVE", t.usage = s.usage,
         Forward(t), reported' = reported
  PROVE  /\ s' \in Session /\ Consistent(s') /\ s'.open
         /\ s'.state \in {"ACTIVE", "FINISHING"}
         /\ s'.usage >= s.usage
         /\ moved' \in Nat /\ reported' \in Nat /\ moved' = reported' + s'.usage
<1> DEFINE u == [t EXCEPT !.fresh = TRUE]
           f == SendFails(u)
<1>1. u \in Session /\ Consistent(u) /\ u.open /\ u.state = "ACTIVE" /\ u.usage = s.usage
  BY DEF Session, Consistent
<1>2. t.open
  BY DEF Consistent
<1>3. \/ Counted(t, 0)
      \/ \E n \in {0, 1} : Counted(u, n)
      \/ Counted(f, 0)
  BY DEF Forward
<1> HIDE DEF u
<1>4. f \in Session /\ Consistent(f) /\ f.open /\ f.state = "FINISHING" /\ f.usage = s.usage
  BY <1>1 DEF SendFails, Session, State, Consistent
<1> HIDE DEF f
<1>5. CASE Counted(t, 0)
  BY <1>2, <1>5, CountedKeeps
<1>6. CASE \E n \in {0, 1} : Counted(u, n)
  BY <1>1, <1>6, CountedKeeps
<1>7. CASE Counted(f, 0)
  BY <1>4, <1>7, CountedKeeps
<1> QED BY <1>3, <1>5, <1>6, <1>7

\* The check.
LEMMA CheckStep ==
  ASSUME IInv, CheckUdpSession
  PROVE  StepKeeps
<1> DEFINE c == Closed(s)
           u == Cleanup(AccountUsage(c))
<1>1. /\ s \in Session /\ Consistent(s) /\ moved \in Nat /\ reported \in Nat
      /\ moved = reported + s.usage /\ s.usage \in Nat
  BY DEF IInv, TypeOK, UsageReportedOnce, Session
<1>2. /\ phase = "check" /\ s' = u /\ moved' = moved
      /\ reported' = reported + (IF Due(c) THEN c.usage ELSE 0)
  BY DEF CheckUdpSession
<1>3. /\ u \in Session /\ Consistent(u)
      /\ c.usage = s.usage
      /\ u.usage = IF Due(c) THEN 0 ELSE s.usage
      /\ \/ u.state = s.state /\ u.open = s.open /\ u.usage = s.usage
         \/ s.state \in {"ACTIVE", "FINISHING"} /\ u.state = "CLOSED" /\ ~u.open
         \/ s.state = "CLOSED" /\ u.state = "none" /\ ~u.open
  BY <1>1, CheckKeeps
<1> HIDE DEF c, u
<1>4. ~u.open => u.usage = 0
  BY <1>3 DEF Consistent
<1> QED BY <1>1, <1>2, <1>3, <1>4 DEF StepKeeps, Same, Closes, Frees

\* A datagram of the app.
LEMMA PacketStep ==
  ASSUME IInv, HandleUdp
  PROVE  StepKeeps
<1>1. /\ s \in Session /\ Consistent(s) /\ moved \in Nat /\ reported \in Nat
      /\ moved = reported + s.usage /\ TypeOK /\ UsageReportedOnce
  BY DEF IInv, TypeOK, UsageReportedOnce
<1>2. reported' = reported
  BY DEF HandleUdp, TunIgnored, TunUnopened, TunNew, TunForward, TunPacket
<1>3. CASE TunIgnored \/ TunUnopened
  <2>1. s' = s /\ moved' = moved
    BY <1>3 DEF TunIgnored, TunUnopened
  <2> QED BY <1>1, <1>2, <2>1 DEF StepKeeps, Same
<1>4. CASE TunNew
  <2>1. s.state = "none" /\ s.usage = 0
    BY <1>1, <1>4 DEF TunNew, Consistent
  <2>2. PICK polled \in BOOLEAN :
          Forward([NoSession EXCEPT !.state = "ACTIVE", !.open = TRUE,
                                    !.polled = polled, !.fresh = TRUE])
    BY <1>4 DEF TunNew
  <2> DEFINE t == [NoSession EXCEPT !.state = "ACTIVE", !.open = TRUE,
                                    !.polled = polled, !.fresh = TRUE]
  <2>3. t \in Session /\ Consistent(t) /\ t.state = "ACTIVE" /\ t.usage = s.usage
    BY <2>1 DEF NoSession, Session, State, Consistent
  <2>4. Forward(t)
    BY <2>2
  <2> HIDE DEF t
  <2> QED BY <1>1, <1>2, <2>1, <2>3, <2>4, ForwardKeeps DEF StepKeeps, Begins
<1>5. CASE TunForward
  <2>1. s.state = "ACTIVE" /\ Forward(s)
    BY <1>5 DEF TunForward
  <2> QED BY <1>1, <1>2, <2>1, ForwardKeeps DEF StepKeeps, Serves, Consistent
<1> QED BY <1>3, <1>4, <1>5 DEF HandleUdp

\* An answer of the server.
LEMMA SocketStep ==
  ASSUME IInv, CheckUdpSocket
  PROVE  StepKeeps
<1>1. /\ s \in Session /\ Consistent(s) /\ TypeOK /\ UsageReportedOnce
      /\ s.open /\ s.state \in {"ACTIVE", "FINISHING"}
  BY DEF IInv, TypeOK, CheckUdpSocket, SocketEvent, EventFindsSocket, Consistent
<1>2. reported' = reported
  BY DEF CheckUdpSocket, SocketEvent
<1> DEFINE u == [s EXCEPT !.fresh = TRUE]
           v(state) == [u EXCEPT !.state = state]
<1>3. \E state \in {s.state, "FINISHING"}, n \in {0, 1} : Counted(v(state), n)
  <2>1. u.state = s.state /\ v(s.state) = u
    BY <1>1 DEF Session
  <2>2. \/ Counted(u, 0)
        \/ Counted(v("FINISHING"), 0)
        \/ \E written \in BOOLEAN :
             Counted([u EXCEPT !.state = IF written /\ port # "dns" THEN @
                                         ELSE "FINISHING"], 1)
    BY DEF CheckUdpSocket
  <2>3. \A written \in BOOLEAN :
          [u EXCEPT !.state = IF written /\ port # "dns" THEN @ ELSE "FINISHING"]
            \in {v(s.state), v("FINISHING")}
    BY <2>1
  <2> HIDE DEF u, v
  <2> QED BY <2>1, <2>2, <2>3
<1>4. PICK state \in {s.state, "FINISHING"}, n \in {0, 1} : Counted(v(state), n)
  BY <1>3
<1>5. /\ v(state) \in Session /\ Consistent(v(state)) /\ v(state).open
      /\ v(state).state = state /\ v(state).usage = s.usage
  BY <1>1 DEF Session, State, Consistent
<1> HIDE DEF v
<1>6. /\ s' \in Session /\ Consistent(s') /\ s'.open /\ s'.state = state
      /\ s'.usage >= s.usage
      /\ moved' \in Nat /\ reported' \in Nat /\ moved' = reported' + s'.usage
  BY <1>1, <1>2, <1>4, <1>5, CountedKeeps
<1> QED BY <1>1, <1>6 DEF StepKeeps, Serves

\* Every step does one of these things.
LEMMA NextKeeps ==
  ASSUME IInv, [Next]_vars
  PROVE  StepKeeps
<1>1. /\ s \in Session /\ Consistent(s) /\ moved \in Nat /\ reported \in Nat
      /\ moved = reported + s.usage
  BY DEF IInv, TypeOK, UsageReportedOnce
<1>2. CASE TimePasses
  <2>1. s' = [s EXCEPT !.fresh = FALSE] /\ moved' = moved /\ reported' = reported
    BY <1>2 DEF TimePasses
  <2> QED BY <1>1, <2>1 DEF StepKeeps, Same, Session, Consistent
<1>3. CASE s' = s /\ moved' = moved /\ reported' = reported
  BY <1>1, <1>3 DEF StepKeeps, Same
<1> QED BY <1>2, <1>3, CheckStep, PacketStep, SocketStep
        DEF Next, Loop, SkipCheck, EpollWait, TunDrained, EndEvent, SocketEvent, EndBatch, vars

-----------------------------------------------------------------------------
\* The loop's own variables keep their types.
LEMMA LoopTypes ==
  ASSUME IInv, [Next]_vars
  PROVE  /\ port' \in Port /\ phase' \in Phase
         /\ ready' \in SUBSET {"IN", "ERR"}
         /\ count' \in 0 .. UDP_YIELD /\ tun' \in 0 .. TUN_YIELD
<1>1. /\ port \in Port /\ phase \in Phase /\ ready \in SUBSET {"IN", "ERR"}
      /\ count \in 0 .. UDP_YIELD /\ tun \in 0 .. TUN_YIELD
      /\ UDP_YIELD \in Nat /\ TUN_YIELD \in Nat
  BY YieldAssumption DEF IInv, TypeOK
<1> USE <1>1
<1>2. CASE CheckUdpSession \/ SkipCheck
  BY <1>2 DEF CheckUdpSession, SkipCheck, Phase
<1>3. CASE EpollWait
  BY <1>3 DEF EpollWait, Phase
<1>4. CASE HandleUdp
  <2>1. UNCHANGED <<port, phase, ready, count>> /\ tun > 0 /\ tun' = tun - 1
    BY <1>4 DEF HandleUdp, TunIgnored, TunUnopened, TunNew, TunForward, TunPacket
  <2> QED BY <2>1
<1>5. CASE TunDrained \/ EndBatch
  <2>1. UNCHANGED <<port, ready, count>> /\ phase' \in {phase, "check"} /\ tun' \in {0, tun}
    BY <1>5 DEF TunDrained, EndBatch
  <2> QED BY <2>1 DEF Phase
<1>6. CASE CheckUdpSocket
  <2>1. UNCHANGED <<port, phase, ready, tun>> /\ count < UDP_YIELD /\ count' = count + 1
    BY <1>6 DEF CheckUdpSocket, SocketEvent, MayRead
  <2> QED BY <2>1
<1>7. CASE EndEvent
  BY <1>7 DEF EndEvent, SocketEvent
<1>8. CASE TimePasses \/ UNCHANGED vars
  BY <1>8 DEF TimePasses, vars
<1> QED BY <1>2, <1>3, <1>4, <1>5, <1>6, <1>7, <1>8 DEF Next, Loop

\* An event that is pending after a step still finds its socket open.
LEMMA EventStep ==
  ASSUME IInv, [Next]_vars
  PROVE  EventFindsSocket'
<1>1. StepKeeps /\ s \in Session /\ Consistent(s)
  BY NextKeeps DEF IInv, TypeOK
<1>2. ready # {} => phase = "dispatch" /\ s.open /\ s.state # "none"
  BY DEF IInv, EventFindsSocket
<1> USE DEF EventFindsSocket
<1>3. CASE ready' = {}
  BY <1>3
<1>4. CASE EpollWait
  BY <1>1, <1>4 DEF EpollWait, Consistent
<1>5. CASE phase' = phase /\ ready' = ready
  BY <1>1, <1>2, <1>5 DEF StepKeeps, Same, Begins, Serves, Closes, Frees, Consistent
<1>6. CASE CheckUdpSession \/ SkipCheck \/ EndBatch
  BY <1>2, <1>3, <1>6 DEF CheckUdpSession, SkipCheck, EndBatch
<1> QED BY <1>3, <1>4, <1>5, <1>6
        DEF Next, Loop, HandleUdp, TunIgnored, TunUnopened, TunNew, TunForward, TunPacket,
            TunDrained, CheckUdpSocket, EndEvent, SocketEvent, TimePasses, vars

\* The invariant holds before the first step, and every step preserves it.
LEMMA InitIInv == Init => IInv
<1> SUFFICES ASSUME Init PROVE IInv
  OBVIOUS
<1>1. TypeOK
  BY NoSessionType, YieldAssumption DEF Init, TypeOK, Phase
<1>2. Consistent(s) /\ EventFindsSocket
  BY NoSessionType DEF Init, EventFindsSocket
<1>3. UsageReportedOnce
  BY DEF Init, UsageReportedOnce, NoSession
<1> QED BY <1>1, <1>2, <1>3 DEF IInv

LEMMA StepIInv == IInv /\ [Next]_vars => IInv'
<1> SUFFICES ASSUME IInv, [Next]_vars PROVE IInv'
  OBVIOUS
<1>1. StepKeeps
  BY NextKeeps
<1>2. TypeOK'
  BY <1>1, LoopTypes DEF TypeOK, StepKeeps
<1> QED BY <1>1, <1>2, EventStep DEF IInv, StepKeeps, UsageReportedOnce

LEMMA Invariance == Spec => []IInv
BY InitIInv, StepIInv, PTL DEF Spec

-----------------------------------------------------------------------------
\* The variables keep their types, whatever is sent and whichever calls fail.
THEOREM TypeCorrect == Spec => []TypeOK
BY Invariance, PTL DEF IInv

\* The datagrams of an event are read from an open socket of an existing
\* session, whatever the packets of the batch and the datagrams before did.
THEOREM EventIsFresh == Spec => []EventFindsSocket
BY Invariance, PTL DEF IInv

\* account_usage is told of every datagram that was moved exactly once, across
\* all sessions and also if the session was finished before it was read.
THEOREM UsageIsComplete == Spec => []UsageReportedOnce
BY Invariance, PTL DEF IInv

\* A UDP session lives as SessionLife promises: it is freed only after it was
\* closed, and neither its descriptor nor a report is lost with it.
THEOREM Refinement == Spec => ImplementsLife
<1>1. Init => Life!Init
  BY DEF Init, NoSession, Life!Init
<1>2. IInv /\ [Next]_vars => [Life!Next]_(Life!vars)
  <2> SUFFICES ASSUME IInv, [Next]_vars PROVE [Life!Next]_(Life!vars)
    OBVIOUS
  <2>1. StepKeeps /\ s \in Session /\ Consistent(s)
    BY NextKeeps DEF IInv, TypeOK
  <2>2. /\ s.state \in State /\ s'.state \in State /\ s.usage \in Nat /\ s'.usage \in Nat
        /\ s.open \in BOOLEAN /\ s'.open \in BOOLEAN /\ Consistent(s')
        /\ ~s.lost /\ ~s'.lost
    BY <2>1 DEF StepKeeps, Session, Consistent
  <2> DEFINE life == CASE s.lost                -> "lost"
                       [] s.state = "none"      -> "absent"
                       [] s.state = "ACTIVE"    -> "live"
                       [] s.state = "FINISHING" -> "ending"
                       [] s.state = "CLOSED"    -> "ended"
             owes == s.usage > 0
  <2>3. /\ s.state = "CLOSED" => life = "ended"
        /\ s'.state = "none" => life' = "absent"
        /\ s'.state = s.state => life' = life
    <3>1. life = IF s.state = "none" THEN "absent" ELSE IF s.state = "ACTIVE" THEN "live"
                 ELSE IF s.state = "FINISHING" THEN "ending" ELSE "ended"
      BY <2>2 DEF State
    <3>2. life' = IF s'.state = "none" THEN "absent" ELSE IF s'.state = "ACTIVE" THEN "live"
                  ELSE IF s'.state = "FINISHING" THEN "ending" ELSE "ended"
      BY <2>2 DEF State
    <3> HIDE DEF life
    <3> QED BY <3>1, <3>2
  <2>4. CASE Same
    <3>1. life' = life
      BY <2>4, <2>3 DEF Same
    <3>2. owes' = owes
      BY <2>4 DEF Same
    <3> HIDE DEF life, owes
    <3>3. <<life, s.open, owes>>' = <<life, s.open, owes>>
      BY <2>4, <3>1, <3>2 DEF Same
    <3> QED BY <3>3 DEF Life!vars, life, owes
  <2>5. CASE Begins
    BY <2>2, <2>5 DEF Begins, State, Life!Next, Life!Begin, Life!Current
  <2>6. CASE Serves
    <3>1. (s'.usage > 0) \in {s.usage > 0, TRUE}
      <4>1. s.usage > 0 => s'.usage > 0
        BY <2>2, <2>6 DEF Serves
      <4>2. (s.usage > 0) \in BOOLEAN /\ (s'.usage > 0) \in BOOLEAN
        OBVIOUS
      <4> QED BY <4>1, <4>2, Zenon
    <3>2. CASE s'.state = s.state
      BY <2>2, <2>6, <3>1, <3>2 DEF Serves, Life!Next, Life!Serve, Life!Current
    <3>3. CASE s'.state = "FINISHING"
      BY <2>2, <2>6, <3>1, <3>3 DEF Serves, Life!Next, Life!Serve, Life!Current
    <3> QED BY <2>6, <3>2, <3>3 DEF Serves
  <2>7. CASE Closes
    BY <2>2, <2>7 DEF Closes, State, Life!Next, Life!Retire, Life!Current
  <2>8. CASE Frees
    <3>1. owes' = FALSE
      BY <2>8 DEF Frees
    <3> HIDE DEF life, owes
    <3>2. life = "ended" /\ life' = "absent"
      BY <2>8, <2>3 DEF Frees
    <3>3. ~s.open /\ s'.open = FALSE
      BY <2>1, <2>2, <2>8 DEF Frees, Consistent
    <3> QED BY <3>1, <3>2, <3>3 DEF Life!Next, Life!Free, life, owes
  <2> QED BY <2>1, <2>4, <2>5, <2>6, <2>7, <2>8 DEF StepKeeps
<1> QED BY <1>1, <1>2, Invariance, PTL DEF Spec, ImplementsLife, Life!Spec
=============================================================================
