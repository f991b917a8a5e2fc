------------------------- MODULE IcmpSessionProofs -------------------------
(***************************************************************************)
(* Theorems about IcmpSession, for any number of sessions in memory, any   *)
(* identifiers and batches of any length: its types, that events find      *)
(* their socket, that one session is live, that the identifier of a        *)
(* session's only user is restored, and that every session lives as        *)
(* SessionLife promises.                                                   *)
(***************************************************************************)
EXTENDS IcmpSession, TLAPS

\* The descriptor is open from the first request to the check, in the epoll set
\* only while open; the identifier that is restored is that of a request the
\* session was given, and answers come only to such requests.
Consistent(t) ==
  /\ t.open <=> t.state # "none"
  /\ t.polled => t.open
  /\ t.state = "none" => t = NoSession
  /\ t.state # "none" => t.id \in t.users
  /\ t.asked \subseteq t.users
  /\ ~t.lost

IInv ==
  /\ TypeOK
  /\ \A i \in Slots : Consistent(table[i])
  /\ EventFindsSocket
  /\ OneLiveSession
  /\ RestoresSoleId

-----------------------------------------------------------------------------
\* What a step does to one session: it begins it, or serves or dooms it without
\* touching the descriptor, or, in the check only, frees it.
Begins(t, u) == t.state = "none" /\ u.state \in {"live", "stopped"} /\ u.open

Serves(t, u) ==
  /\ u.open = t.open
  /\ u.state = t.state \/ (t.state = "live" /\ u.state = "stopped")

Frees(t, u) == phase = "check" /\ t.state # "none" /\ u = NoSession

StepKeeps ==
  /\ table' \in [Slots -> Session]
  /\ \A i \in Slots :
       /\ Consistent(table'[i])
       /\ \/ Begins(table[i], table'[i])
          \/ Serves(table[i], table'[i])
          \/ Frees(table[i], table'[i])
  /\ OneLiveSession'

\* The record that stands for no session is well-formed.
LEMMA NoSessionType == NoSession \in Session /\ Consistent(NoSession)
BY DEF NoSession, Session, Consistent

\* A session freed without a loss leaves the record that stands for none.
LEMMA FreedIsNone ==
  ASSUME NEW x, x = [NoSession EXCEPT !.lost = FALSE]
  PROVE  x = NoSession
BY DEF NoSession

\* A session that is stopped, or whose time is set, stays well-formed.
LEMMA ServedKeeps ==
  ASSUME NEW t \in Session, Consistent(t), t.state # "none", NEW fresh \in BOOLEAN
  PROVE  LET f == [t EXCEPT !.fresh = fresh] IN
         /\ f \in Session /\ Consistent(f) /\ Serves(t, f)
         /\ f.state = t.state /\ f.users = t.users /\ f.asked = t.asked
         /\ Stopped(f) \in Session /\ Consistent(Stopped(f))
         /\ Serves(t, Stopped(f))
<1> DEFINE f == [t EXCEPT !.fresh = fresh]
<1>1. /\ f \in Session /\ Consistent(f) /\ Serves(t, f) /\ f.state = t.state
      /\ f.users = t.users /\ f.asked = t.asked /\ f.open = t.open
  BY DEF Session, Consistent, Serves
<1> HIDE DEF f
<1>2. /\ Stopped(f) \in Session /\ Consistent(Stopped(f)) /\ Stopped(f).state = "stopped"
      /\ Stopped(f).open = f.open
  BY <1>1 DEF Stopped, Session, Consistent
<1>3. t.state \in {"live", "stopped"}
  BY DEF Session
<1> QED BY <1>1, <1>2, <1>3 DEF Serves, f

\* A step that changes one session well changes the table well.
LEMMA OneSlotKeeps ==
  ASSUME IInv, NEW i \in Slots, NEW u \in Session, Consistent(u),
         table' = [table EXCEPT ![i] = u],
         \/ Serves(table[i], u)
         \/ Begins(table[i], u) /\ \A j \in Slots : ~Matches(j)
  PROVE  StepKeeps
<1>1. /\ table \in [Slots -> Session] /\ OneLiveSession
      /\ \A j \in Slots : Consistent(table[j])
  BY DEF IInv, TypeOK
<1>2. /\ table' \in [Slots -> Session] /\ table'[i] = u
      /\ \A j \in Slots : j # i => table'[j] = table[j]
  BY <1>1
<1>3. OneLiveSession'
  <2>1. CASE Serves(table[i], u)
    BY <1>1, <1>2, <2>1 DEF OneLiveSession, Serves
  <2>2. CASE \A j \in Slots : ~Matches(j)
    BY <1>2, <2>2 DEF OneLiveSession, Matches
  <2> QED BY <2>1, <2>2
<1>4. \A j \in Slots : Serves(table[j], table[j])
  BY DEF Serves
<1> QED BY <1>1, <1>2, <1>3, <1>4 DEF StepKeeps

\* A step that leaves the table alone.
LEMMA NoSlotKeeps ==
  ASSUME IInv, table' = table
  PROVE  StepKeeps
BY DEF IInv, TypeOK, StepKeeps, Serves, OneLiveSession

-----------------------------------------------------------------------------
\* Forwarding a request for a live session serves or begins it.
LEMMA ForwardKeeps ==
  ASSUME IInv, NEW i \in Slots, NEW id \in Ids,
         NEW t \in Session, t.state = "live", t.open,
         t.asked \subseteq t.users, t.id \in t.users \union {id}, ~t.lost,
         Serves(table[i], t) \/ (Begins(table[i], t) /\ \A j \in Slots : ~Matches(j)),
         Forward(i, t, id)
  PROVE  StepKeeps
<1> DEFINE f == [t EXCEPT !.fresh = TRUE, !.users = @ \union {id}]
           a == [f EXCEPT !.asked = @ \union {id}]
<1>1. /\ f \in Session /\ f.state = "live" /\ f.open /\ f.id = t.id
      /\ f.users = t.users \union {id} /\ f.asked = t.asked /\ f.lost = t.lost
  BY DEF Session
<1>2. PICK v \in {f, a, SendFails(f)} : table' = [table EXCEPT ![i] = v]
  BY DEF Forward
<1> HIDE DEF f
<1>3. /\ a \in Session /\ a.state = "live" /\ a.open /\ a.id = f.id
      /\ a.users = f.users /\ a.asked = f.asked \union {id} /\ a.lost = f.lost
  BY <1>1 DEF Session
<1>4. /\ Stopped(f) \in Session /\ Stopped(f).state = "stopped" /\ Stopped(f).open
      /\ Stopped(f).id = f.id /\ Stopped(f).users = f.users /\ Stopped(f).asked = f.asked
      /\ Stopped(f).lost = f.lost
  BY <1>1 DEF Stopped, Session
<1> HIDE DEF a
<1>5. /\ v \in Session /\ v.open /\ v.state \in {"live", "stopped"} /\ v.id \in v.users
      /\ v.asked \subseteq v.users /\ ~v.lost
  BY <1>1, <1>2, <1>3, <1>4 DEF SendFails
<1>6. Consistent(v)
  BY <1>5 DEF Consistent
<1>7. Serves(table[i], t) => Serves(table[i], v)
  BY <1>5 DEF Serves
<1>8. Begins(table[i], t) => Begins(table[i], v)
  BY <1>5 DEF Begins
<1> QED BY <1>2, <1>5, <1>6, <1>7, <1>8, OneSlotKeeps

\* A request of an app.
LEMMA PacketStep ==
  ASSUME IInv, HandleIcmp
  PROVE  StepKeeps
<1>1. table \in [Slots -> Session] /\ \A i \in Slots : Consistent(table[i])
  BY DEF IInv, TypeOK
<1>2. CASE TunDropped
  BY <1>2, NoSlotKeeps DEF TunDropped
<1>3. ASSUME NEW i \in Slots, NEW id \in Ids, TunNew(i, id) PROVE StepKeeps
  <2>1. /\ \A j \in Slots : ~Matches(j)
        /\ table[i].state = "none"
    BY <1>3 DEF TunNew
  <2>2. PICK polled \in BOOLEAN :
          Forward(i, [NoSession EXCEPT !.state = "live", !.open = TRUE,
                                       !.polled = polled, !.id = id], id)
    BY <1>3 DEF TunNew
  <2> DEFINE t == [NoSession EXCEPT !.state = "live", !.open = TRUE,
                                    !.polled = polled, !.id = id]
  <2>3. /\ t \in Session /\ t.state = "live" /\ t.open /\ t.id = id
        /\ t.asked \subseteq t.users /\ ~t.lost
    BY DEF NoSession, Session
  <2>4. Forward(i, t, id)
    BY <2>2
  <2> HIDE DEF t
  <2>5. Begins(table[i], t)
    BY <2>1, <2>3 DEF Begins
  <2> QED BY <2>1, <2>3, <2>4, <2>5, ForwardKeeps
<1>4. ASSUME NEW i \in Slots, NEW id \in Ids, TunForward(i, id) PROVE StepKeeps
  <2>1. table[i].state = "live" /\ Forward(i, table[i], id)
    BY <1>4 DEF TunForward, Matches
  <2>2. /\ table[i] \in Session /\ table[i].open /\ table[i].id \in table[i].users
        /\ table[i].asked \subseteq table[i].users /\ ~table[i].lost
    BY <1>1, <2>1 DEF Consistent
  <2>3. Serves(table[i], table[i])
    BY DEF Serves
  <2> QED BY <2>1, <2>2, <2>3, ForwardKeeps
<1> QED BY <1>2, <1>3, <1>4 DEF HandleIcmp

\* An answer or an error on the socket of a session; the reply that is written
\* carries the identifier of the session.
LEMMA SocketStep ==
  ASSUME IInv, CheckIcmpSocket
  PROVE  StepKeeps /\ reply' \in Reply \union {NoReply} /\ RestoresSoleId'
<1>1. /\ table \in [Slots -> Session] /\ reply \in Reply \union {NoReply}
      /\ RestoresSoleId
  BY DEF IInv, TypeOK
<1>2. PICK i \in Slots : SocketFails(i) \/ SocketReply(i)
  BY DEF CheckIcmpSocket
<1>3. /\ table[i] \in Session /\ table[i].state # "none" /\ Consistent(table[i])
      /\ table[i].id \in table[i].users /\ table[i].asked \subseteq table[i].users
  BY <1>1, <1>2 DEF IInv, EventFindsSocket, SocketFails, SocketReply, SocketEvent, Consistent
<1> DEFINE f == [table[i] EXCEPT !.fresh = TRUE]
<1>4. \/ table' = [table EXCEPT ![i] = f]
      \/ table' = [table EXCEPT ![i] = Stopped(f)]
  <2>1. [table EXCEPT ![i].fresh = TRUE] = [table EXCEPT ![i] = f]
    BY <1>1
  <2>2. [table EXCEPT ![i] = Stopped(@), ![i].fresh = TRUE]
          = [table EXCEPT ![i] = Stopped(f)]
    BY <1>1, <1>3 DEF Stopped, Session
  <2>3. \/ table' = [table EXCEPT ![i].fresh = TRUE]
        \/ table' = [table EXCEPT ![i] = Stopped(@), ![i].fresh = TRUE]
    BY <1>2 DEF SocketFails, SocketReply
  <2> QED BY <2>1, <2>2, <2>3
<1>5. StepKeeps
  <2>1. /\ f \in Session /\ Consistent(f) /\ Serves(table[i], f)
        /\ Stopped(f) \in Session /\ Consistent(Stopped(f))
        /\ Serves(table[i], Stopped(f))
    BY <1>3, ServedKeeps
  <2> HIDE DEF f
  <2> QED BY <1>4, <2>1, OneSlotKeeps
<1>6. CASE reply' = reply
  BY <1>1, <1>5, <1>6 DEF RestoresSoleId
<1>7. CASE reply' # reply
  <2>1. PICK of \in table[i].asked :
          reply' = [of |-> of, given |-> Restored(table[i], of),
                    sole |-> table[i].users = {of}]
    BY <1>2, <1>7 DEF SocketFails, SocketReply
  <2>2. table[i].users \subseteq Ids
    BY <1>3 DEF Session
  <2>3. reply' \in Reply
    BY <1>3, <2>1, <2>2 DEF Reply, Restored
  <2>4. RestoresSoleId'
    BY <1>3, <2>1 DEF RestoresSoleId, Restored
  <2> QED BY <1>5, <2>3, <2>4
<1> QED BY <1>6, <1>7

\* The check.
LEMMA CheckStep ==
  ASSUME IInv, CheckIcmpSession
  PROVE  StepKeeps
<1>1. /\ table \in [Slots -> Session] /\ OneLiveSession
      /\ \A i \in Slots : Consistent(table[i])
  BY DEF IInv, TypeOK
<1>2. /\ phase = "check"
      /\ table' = [i \in Slots |-> IF Due(table[i]) THEN NoSession ELSE table[i]]
  <2>1. ASSUME NEW i \in Slots PROVE Freed(Closed(table[i])) = NoSession
    <3>1. Closed(table[i]).open = FALSE
      BY <1>1 DEF Closed, Session
    <3>2. Freed(Closed(table[i])) = [NoSession EXCEPT !.lost = FALSE]
      BY <3>1, Zenon DEF Freed
    <3> QED BY <3>2, FreedIsNone
  <2> QED BY <2>1 DEF CheckIcmpSession
<1>3. table' \in [Slots -> Session]
  BY <1>1, <1>2, NoSessionType
<1>4. ASSUME NEW i \in Slots
      PROVE  /\ Consistent(table'[i])
             /\ Serves(table[i], table'[i]) \/ Frees(table[i], table'[i])
             /\ table'[i].state = "live" => table[i].state = "live"
  <2>1. CASE Due(table[i])
    BY <1>2, <2>1, NoSessionType DEF Due, Frees, NoSession
  <2>2. CASE ~Due(table[i])
    BY <1>1, <1>2, <2>2 DEF Serves
  <2> QED BY <2>1, <2>2
<1> QED BY <1>1, <1>3, <1>4 DEF StepKeeps, OneLiveSession

\* Every step does one of these things.
LEMMA NextKeeps ==
  ASSUME IInv, [Next]_vars
  PROVE  StepKeeps /\ reply' \in Reply \union {NoReply} /\ RestoresSoleId'
<1>1. /\ table \in [Slots -> Session] /\ reply \in Reply \union {NoReply}
      /\ RestoresSoleId /\ \A i \in Slots : Consistent(table[i])
  BY DEF IInv, TypeOK
<1>2. ASSUME NEW i \in Slots, TimePasses(i) PROVE StepKeeps
  <2> DEFINE f == [table[i] EXCEPT !.fresh = FALSE]
  <2>1. table' = [table EXCEPT ![i] = f] /\ table[i].fresh
    BY <1>1, <1>2 DEF TimePasses
  <2>2. table[i].state # "none"
    BY <1>1, <2>1 DEF Consistent, NoSession
  <2>3. f \in Session /\ Consistent(f) /\ Serves(table[i], f)
    BY <1>1, <2>2, ServedKeeps
  <2> HIDE DEF f
  <2> QED BY <2>1, <2>3, OneSlotKeeps
<1>3. CASE CheckIcmpSocket
  BY <1>3, SocketStep
<1>4. CASE ~CheckIcmpSocket
  <2>1. reply' = reply
    BY <1>4 DEF Next, Loop, CheckIcmpSession, SkipCheck, EpollWait, HandleIcmp, TunDropped,
                TunNew, TunForward, TunPacket, TunDrained, EndBatch, TimePasses, vars
  <2>2. StepKeeps
    BY <1>2, <1>4, CheckStep, PacketStep, NoSlotKeeps
       DEF Next, Loop, SkipCheck, EpollWait, TunDrained, EndBatch, vars
  <2> QED BY <1>1, <2>1, <2>2 DEF RestoresSoleId
<1> QED BY <1>3, <1>4

-----------------------------------------------------------------------------
\* The loop's own variables keep their types.
LEMMA LoopTypes ==
  ASSUME IInv, [Next]_vars
  PROVE  /\ phase' \in Phase
         /\ ready' \in [Slots -> {{}, {"IN"}, {"ERR"}}]
         /\ tun' \in 0 .. TUN_YIELD
<1>1. /\ phase \in Phase /\ ready \in [Slots -> {{}, {"IN"}, {"ERR"}}]
      /\ tun \in 0 .. TUN_YIELD /\ TUN_YIELD \in Nat
  BY YieldAssumption DEF IInv, TypeOK
<1> USE <1>1
<1>2. CASE CheckIcmpSession \/ SkipCheck
  BY <1>2 DEF CheckIcmpSession, SkipCheck, Phase
<1>3. CASE EpollWait
  BY <1>3 DEF EpollWait, Phase
<1>4. CASE HandleIcmp
  <2>1. UNCHANGED <<phase, ready>> /\ tun > 0 /\ tun' = tun - 1
    BY <1>4 DEF HandleIcmp, TunDropped, TunNew, TunForward, TunPacket
  <2> QED BY <2>1
<1>5. CASE TunDrained \/ EndBatch
  <2>1. UNCHANGED ready /\ phase' \in {phase, "check"} /\ tun' \in {0, tun}
    BY <1>5 DEF TunDrained, EndBatch
  <2> QED BY <2>1 DEF Phase
<1>6. CASE CheckIcmpSocket
  <2>1. PICK i \in Slots : SocketEvent(i)
    BY <1>6 DEF CheckIcmpSocket, SocketFails, SocketReply
  <2> QED BY <2>1 DEF SocketEvent
<1>7. CASE UNCHANGED <<phase, ready, tun>>
  BY <1>7
<1> QED BY <1>2, <1>3, <1>4, <1>5, <1>6, <1>7 DEF Next, Loop, TimePasses, vars

\* An event that is pending after a step still finds its socket open.
LEMMA EventStep ==
  ASSUME IInv, [Next]_vars
  PROVE  EventFindsSocket'
<1>1. /\ StepKeeps /\ ready' \in [Slots -> {{}, {"IN"}, {"ERR"}}]
      /\ \A i \in Slots : Consistent(table[i])
  BY NextKeeps, LoopTypes DEF IInv
<1>2. \A i \in Slots : ready[i] # {} =>
        phase = "dispatch" /\ table[i].open /\ table[i].state # "none"
  BY DEF IInv, EventFindsSocket
<1>3. CASE EpollWait
  BY <1>1, <1>3 DEF EpollWait, EventFindsSocket, Polled, Consistent
<1>4. CASE phase' = phase /\ \A i \in Slots : ready'[i] # {} => ready[i] # {}
  BY <1>1, <1>2, <1>4 DEF EventFindsSocket, StepKeeps, Begins, Serves, Frees
<1>5. CASE CheckIcmpSession \/ SkipCheck \/ EndBatch
  <2>1. \A i \in Slots : ready'[i] = {}
    BY <1>2, <1>5 DEF CheckIcmpSession, SkipCheck, EndBatch
  <2> QED BY <2>1 DEF EventFindsSocket
<1>6. CASE CheckIcmpSocket
  <2>1. PICK i \in Slots : SocketEvent(i)
    BY <1>6 DEF CheckIcmpSocket, SocketFails, SocketReply
  <2>2. phase' = phase /\ \A j \in Slots : ready'[j] # {} => ready[j] # {}
    BY <2>1 DEF SocketEvent, IInv, TypeOK
  <2> QED BY <1>4, <2>2
<1> QED BY <1>3, <1>4, <1>5, <1>6
        DEF Next, Loop, HandleIcmp, TunDropped, TunNew, TunForward, TunPacket, TunDrained,
            TimePasses, vars

\* The invariant holds before the first step, and every step preserves it.
LEMMA InitIInv == Init => IInv
<1> SUFFICES ASSUME Init PROVE IInv
  OBVIOUS
<1>1. TypeOK
  BY NoSessionType, YieldAssumption DEF Init, TypeOK, Phase
<1>2. \A i \in Slots : Consistent(table[i])
  BY NoSessionType DEF Init
<1>3. EventFindsSocket /\ OneLiveSession /\ RestoresSoleId
  BY DEF Init, EventFindsSocket, OneLiveSession, RestoresSoleId, NoSession, NoReply
<1> QED BY <1>1, <1>2, <1>3 DEF IInv

LEMMA StepIInv == IInv /\ [Next]_vars => IInv'
<1> SUFFICES ASSUME IInv, [Next]_vars PROVE IInv'
  OBVIOUS
<1>1. StepKeeps /\ reply' \in Reply \union {NoReply} /\ RestoresSoleId'
  BY NextKeeps
<1>2. TypeOK'
  BY <1>1, LoopTypes DEF TypeOK, StepKeeps
<1> QED BY <1>1, <1>2, EventStep DEF IInv, StepKeeps

LEMMA Invariance == Spec => []IInv
BY InitIInv, StepIInv, PTL DEF Spec

-----------------------------------------------------------------------------
\* The variables keep their types, whatever is sent and whichever calls fail.
THEOREM TypeCorrect == Spec => []TypeOK
BY Invariance, PTL DEF IInv

\* An event is handled on an open socket of a session that has not been freed,
\* however many sessions were stopped and opened since it was captured.
THEOREM EventIsFresh == Spec => []EventFindsSocket
BY Invariance, PTL DEF IInv

\* handle_icmp never opens a second session beside one that is not stopped.
THEOREM LiveIsOne == Spec => []OneLiveSession
BY Invariance, PTL DEF IInv

\* A session with one user gives its replies the identifier of their request.
THEOREM IdIsRestored == Spec => []RestoresSoleId
BY Invariance, PTL DEF IInv

\* An ICMP session lives as SessionLife promises, in whichever memory it is: its
\* descriptor is not lost when it is freed.
THEOREM Refinement == Spec => ImplementsLife
<1>1. Init => \A i \in Slots : Life(i)!Init
  <2> SUFFICES ASSUME Init, NEW i \in Slots PROVE Life(i)!Init
    OBVIOUS
  <2>1. table[i].state = "none" /\ ~table[i].open
    BY DEF Init, NoSession
  <2> QED BY <2>1 DEF Life!Init
<1>2. IInv /\ [Next]_vars
        => [\A i \in Slots : Life(i)!Next \/ UNCHANGED Life(i)!vars]_vars
  <2> SUFFICES ASSUME IInv, [Next]_vars, NEW i \in Slots
               PROVE  Life(i)!Next \/ UNCHANGED Life(i)!vars
    OBVIOUS
  <2>1. /\ table[i] \in Session /\ table'[i] \in Session
        /\ Consistent(table[i]) /\ Consistent(table'[i])
        /\ \/ Begins(table[i], table'[i])
           \/ Serves(table[i], table'[i])
           \/ Frees(table[i], table'[i])
    BY NextKeeps DEF IInv, TypeOK, StepKeeps
  <2>2. /\ table[i].state \in {"none", "live", "stopped"}
        /\ table'[i].state \in {"none", "live", "stopped"}
        /\ table[i].open \in BOOLEAN /\ table'[i].open \in BOOLEAN
        /\ ~table[i].lost /\ ~table'[i].lost
    BY <2>1 DEF Session, Consistent
  <2>3. CASE Begins(table[i], table'[i])
    BY <2>2, <2>3 DEF Begins, Life!Next, Life!Begin, Life!Current
  <2>4. CASE Serves(table[i], table'[i])
    BY <2>2, <2>4 DEF Serves, Life!Next, Life!Serve, Life!Current, Life!vars
  <2>5. CASE Frees(table[i], table'[i])
    <3>1. table'[i].state = "none" /\ table'[i].open = FALSE
      BY <2>5 DEF Frees, NoSession
    <3>2. table[i].state \in {"live", "stopped"}
      BY <2>2, <2>5 DEF Frees
    <3> QED BY <2>2, <3>1, <3>2 DEF Life!Next, Life!Free, Life!Current
  <2> QED BY <2>1, <2>3, <2>4, <2>5
<1> QED BY <1>1, <1>2, Invariance, PTL DEF Spec, ImplementsLife
=============================================================================
