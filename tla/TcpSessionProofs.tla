-------------------------- MODULE TcpSessionProofs --------------------------
(***************************************************************************)
(* Theorems about TcpSession, for every value of its constants.            *)
(*                                                                         *)
(* The operators of TcpSession map sessions to sessions.  Each has a lemma *)
(* that says that its result is a session and what it does to state, open  *)
(* and polled; the steps of the invariant proofs only combine the lemmas.  *)
(* The first part proves IInv: the type invariant and the agreement of a   *)
(* session's state with its descriptor.  The second proves HInv on top of  *)
(* it, what the state says of the session's history, and from HInv what    *)
(* was written in which order and that the session implements SessionLife. *)
(* The third proves that data fits the window of the app, the fourth that  *)
(* the app's stream is given to the server in order, once, and is          *)
(* acknowledged only then.                                                 *)
(***************************************************************************)
EXTENDS TcpSession, TLAPS, NumberFacts, FiniteSetTheorems, SequenceTheorems

\* Adding to a word or taking from it and storing the result in a word.
LEMMA WrapOfSum ==
  \A w \in Word, n \in Int : Wrap(w + n) \in Word /\ Wrap(w - n) \in Word
BY HalfAssumption DEF Wrap, Word, Modulus

\* The free space of a socket is a number.
LEMMA RoomsType == \A room \in Rooms : room \in Nat /\ room <= Half
BY RoomsAssumption, HalfAssumption

\* Zero is a word.
LEMMA ZeroIsWord == 0 \in Word
BY HalfAssumption DEF Word, Modulus

\* u has t's descriptor, and t's state unless it was aborted.
Keeps(t, u) ==
  /\ u.open = t.open
  /\ u.polled = t.polled
  /\ u.state \in {t.state, "CLOSING"}

\* Steps that keep compose.
LEMMA KeepsTransitive ==
  ASSUME NEW t, NEW u, NEW v, Keeps(t, u), Keeps(u, v)
  PROVE  Keeps(t, v)
BY DEF Keeps

-----------------------------------------------------------------------------
\* A failed write aborts the session and does nothing else.
LEMMA WriteAckKeeps ==
  ASSUME NEW t \in Session, NEW ok \in BOOLEAN
  PROVE  WriteAck(t, ok) \in Session /\ Keeps(t, WriteAck(t, ok))
BY DEF WriteAck, Session, State, Keeps

\* A segment written to the tun moves local_seq or aborts.
LEMMA WriteStreamKeeps ==
  ASSUME NEW t \in Session, NEW ok \in BOOLEAN, NEW n \in Nat
  PROVE  /\ WriteStream(t, ok, n) \in Session
         /\ Keeps(t, WriteStream(t, ok, n))
         /\ ok => WriteStream(t, ok, n).state = t.state
<1> DEFINE w == Wrap(t.local_seq + n)
           late == t.lateOut \/ t.finOut \/ t.state \in Finished
<1>1. w \in Word
  <2>1. t.local_seq \in Word
    BY DEF Session
  <2> QED BY <2>1, WrapOfSum
<1>2. late \in BOOLEAN
  BY DEF Session
<1>3. ok => WriteStream(t, ok, n) = [t EXCEPT !.local_seq = w, !.lateOut = late]
  BY DEF WriteStream
<1>4. ~ok => WriteStream(t, ok, n) = WriteAck(t, ok)
  BY DEF WriteStream
<1> HIDE DEF w, late
<1>5. CASE ok
  BY <1>1, <1>2, <1>3, <1>5, ZenonT(60) DEF Session, Keeps
<1>6. CASE ~ok
  BY <1>4, <1>6, WriteAckKeeps
<1> QED BY <1>5, <1>6

\* write_rst aborts any session that is not in CLOSE, and leaves its descriptor.
LEMMA WriteRstKeeps ==
  ASSUME NEW t \in Session
  PROVE  /\ WriteRst(t) \in Session
         /\ Keeps(t, WriteRst(t))
         /\ WriteRst(t).state = IF t.state = "CLOSE" THEN "CLOSE" ELSE "CLOSING"
<1> DEFINE syn == IF t.state = "LISTEN" THEN 1 ELSE 0
           w   == Wrap(t.remote_seq + syn)
           x   == t.synIn + syn
           st  == IF t.state = "CLOSE" THEN "CLOSE" ELSE "CLOSING"
<1>1. syn \in Nat
  OBVIOUS
<1>2. w \in Word /\ x \in Nat
  <2>1. t.remote_seq \in Word /\ t.synIn \in Nat
    BY DEF Session
  <2> HIDE DEF syn
  <2> QED BY <1>1, <2>1, WrapOfSum
<1>3. st \in State /\ st \in {t.state, "CLOSING"}
  BY DEF State
<1>4. WriteRst(t) = [t EXCEPT !.remote_seq = w, !.synIn = x, !.state = st]
  BY DEF WriteRst
<1> HIDE DEF syn, w, x
<1> QED BY <1>2, <1>3, <1>4, ZenonT(60) DEF Session, Keeps

-----------------------------------------------------------------------------
\* A position in the queue or just behind it.
LEMMA QueuePositionRange ==
  ASSUME NEW q \in Seq(Segment), NEW seq \in Word
  PROVE  QueuePosition(q, seq) \in 1 .. Len(q) + 1
<1> DEFINE before == {i \in DOMAIN q : \A j \in 1 .. i : Compare(q[j].seq, seq) < 0}
<1>1. DOMAIN q = 1 .. Len(q) /\ Len(q) \in Nat
  BY LenProperties
<1>2. IsFiniteSet(1 .. Len(q)) /\ Cardinality(1 .. Len(q)) = Len(q)
  BY <1>1, FS_Interval
<1>3. before \in SUBSET (1 .. Len(q))
  BY <1>1
<1> HIDE DEF before
<1>4. IsFiniteSet(before) /\ Cardinality(before) <= Len(q)
  BY <1>2, <1>3, FS_Subset
<1>5. Cardinality(before) \in Nat
  BY <1>4, FS_CardinalityType
<1>6. QueuePosition(q, seq) = Cardinality(before) + 1
  BY DEF QueuePosition, before
<1> QED BY <1>1, <1>4, <1>5, <1>6

\* A queue with a segment inserted is a queue.
LEMMA InsertAtType ==
  ASSUME NEW q \in Seq(Segment), NEW i \in 1 .. Len(q) + 1, NEW e \in Segment
  PROVE  InsertAt(q, i, e) \in Seq(Segment)
<1>1. Len(q) \in Nat /\ \A j \in 1 .. Len(q) : q[j] \in Segment
  BY LenProperties, ElementOfSeq
<1>2. SubSeq(q, 1, i - 1) \in Seq(Segment)
  BY <1>1, SubSeqProperties
<1>3. SubSeq(q, i, Len(q)) \in Seq(Segment)
  BY <1>1, SubSeqProperties
<1>4. <<e>> \in Seq(Segment)
  OBVIOUS
<1>5. SubSeq(q, 1, i - 1) \o <<e>> \in Seq(Segment)
  BY <1>2, <1>4, ConcatProperties
<1> QED BY <1>3, <1>5, ConcatProperties DEF InsertAt

\* Queueing touches nothing but the queue.
LEMMA QueueTcpKeeps ==
  ASSUME NEW t \in Session, NEW p \in Packet
  PROVE  /\ QueueTcp(t, p) \in Session
         /\ Keeps(t, QueueTcp(t, p))
         /\ QueueTcp(t, p).state = t.state
<1> DEFINE i   == QueuePosition(t.forward, p.seq)
           new == [seq |-> p.seq, len |-> p.len, sent |-> 0]
           q   == InsertAt(t.forward, i, new)
           old == t.forward[i]
           r   == [t.forward EXCEPT ![i] = [old EXCEPT !.len = p.len]]
<1>1. t.forward \in Seq(Segment) /\ p.seq \in Word /\ p.len \in Nat
  BY DEF Session, Packet
<1>2. i \in 1 .. Len(t.forward) + 1
  BY <1>1, QueuePositionRange
<1>3. new \in Segment
  BY <1>1 DEF Segment
<1>4. q \in Seq(Segment)
  BY <1>1, <1>2, <1>3, InsertAtType
<1>5. i \in DOMAIN t.forward => r \in Seq(Segment)
  <2> SUFFICES ASSUME i \in DOMAIN t.forward PROVE r \in Seq(Segment)
    OBVIOUS
  <2>1. i \in 1 .. Len(t.forward)
    BY <1>1, LenProperties
  <2>2. old \in Segment
    BY <1>1, <2>1, ElementOfSeq
  <2>3. [old EXCEPT !.len = p.len] \in Segment
    BY <1>1, <2>2 DEF Segment
  <2> HIDE DEF i, old
  <2> QED BY <1>1, <2>1, <2>3, ExceptSeq
<1>6. \/ QueueTcp(t, p) = t
      \/ i \in DOMAIN t.forward /\ QueueTcp(t, p) = [t EXCEPT !.forward = r]
      \/ QueueTcp(t, p) = [t EXCEPT !.forward = q]
  BY DEF QueueTcp
<1> HIDE DEF i, new, q, old, r
<1>7. CASE QueueTcp(t, p) = t
  BY <1>7 DEF Keeps
<1>8. CASE i \in DOMAIN t.forward /\ QueueTcp(t, p) = [t EXCEPT !.forward = r]
  BY <1>5, <1>8, SMTT(30) DEF Session, Keeps
<1>9. CASE QueueTcp(t, p) = [t EXCEPT !.forward = q]
  BY <1>4, <1>9, SMTT(30) DEF Session, Keeps
<1> QED BY <1>6, <1>7, <1>8, <1>9

-----------------------------------------------------------------------------
\* A keep-alive leaves remote_seq a word and can only abort.
LEMMA KeepAliveKeeps ==
  ASSUME NEW t \in Session, NEW ok \in BOOLEAN
  PROVE  KeepAlive(t, ok) \in Session /\ Keeps(t, KeepAlive(t, ok))
<1> DEFINE w == Wrap(t.remote_seq - 1)
           l == [t EXCEPT !.remote_seq = w]
           p == WriteAck(l, ok)
           r == Wrap(p.remote_seq + 1)
<1>1. w \in Word
  BY WrapOfSum DEF Session
<1>2. l \in Session /\ Keeps(t, l)
  <2> HIDE DEF w
  <2> QED BY <1>1 DEF Session, Keeps
<1>3. p \in Session /\ Keeps(l, p)
  <2> HIDE DEF l
  <2> QED BY <1>2, WriteAckKeeps
<1>4. r \in Word
  <2> HIDE DEF p
  <2> QED BY <1>3, WrapOfSum DEF Session
<1>5. KeepAlive(t, ok) = [p EXCEPT !.remote_seq = r]
  BY DEF KeepAlive
<1> HIDE DEF p, r, l, w
<1>6. [p EXCEPT !.remote_seq = r] \in Session /\ Keeps(p, [p EXCEPT !.remote_seq = r])
  BY <1>3, <1>4 DEF Session, Keeps
<1> QED BY <1>2, <1>3, <1>5, <1>6, KeepsTransitive

\* A new epoll mask can only abort.
LEMMA SetMaskKeeps ==
  ASSUME NEW t \in Session, NEW mask \in SUBSET {"IN", "OUT"}
  PROVE  SetMask(t, mask) \in Session /\ Keeps(t, SetMask(t, mask))
<1> DEFINE st == IF t.polled THEN t.state ELSE "CLOSING"
<1>1. st \in State /\ st \in {t.state, "CLOSING"}
  BY DEF Session, State
<1>2. SetMask(t, mask) \in {t, [t EXCEPT !.mask = mask, !.state = st]}
  BY DEF SetMask
<1> HIDE DEF st
<1>3. CASE SetMask(t, mask) = t
  BY <1>3 DEF Keeps
<1>4. CASE SetMask(t, mask) = [t EXCEPT !.mask = mask, !.state = st]
  BY <1>1, <1>4, ZenonT(60) DEF Session, Keeps
<1> QED BY <1>2, <1>3, <1>4

-----------------------------------------------------------------------------
\* The agreement of state and descriptor, and that it survives what keeps.
SocketAgrees(t) ==
  /\ t.state \in {"LISTEN", "SYN_RECV", "ESTABLISHED", "CLOSE_WAIT"} => t.open
  /\ t.state \in {"none", "FIN_WAIT1", "LAST_ACK", "CLOSE"} => ~t.open
  /\ t.polled => t.open

\* What keeps a session's descriptor keeps the agreement.
LEMMA KeepsSocket ==
  ASSUME NEW t, NEW u, SocketAgrees(t), Keeps(t, u)
  PROVE  SocketAgrees(u)
BY DEF SocketAgrees, Keeps

\* u is not behind t, or t was freed from CLOSE.
Advances(t, u) ==
  \/ Rank[u.state] > Rank[t.state]
  \/ u.state = t.state
  \/ t.state = "CLOSE" /\ u.state = "none"

\* What keeps a session that is not in CLOSE advances it.
LEMMA KeepsAdvances ==
  ASSUME NEW t \in Session, NEW u, t.state # "CLOSE", Keeps(t, u)
  PROVE  Advances(t, u)
BY DEF Keeps, Advances, Session, State, Rank

\* The checks of check_tcp_session.
LEMMA TimeoutKeeps ==
  ASSUME NEW t \in Session
  PROVE  /\ Timeout(t) \in Session
         /\ Keeps(t, Timeout(t))
         /\ t.state = "CLOSE" => Timeout(t) = t
<1>1. [t EXCEPT !.state = "CLOSING"] \in Session /\ Keeps(t, [t EXCEPT !.state = "CLOSING"])
  BY DEF Session, State, Keeps
<1>2. Keeps(t, t)
  BY DEF Keeps
<1>3. Timeout(t) \in {t, [t EXCEPT !.state = "CLOSING"], WriteRst(t)}
  BY DEF Timeout
<1>4. t.state = "CLOSE" => Timeout(t) = t
  BY DEF Timeout, Finished
<1> QED BY <1>1, <1>2, <1>3, <1>4, WriteRstKeeps

\* Closing the socket of a CLOSING session restarts its timeout.
LEMMA CloseSocketAgrees ==
  ASSUME NEW t \in Session, SocketAgrees(t)
  PROVE  /\ CloseSocket(t) \in Session
         /\ SocketAgrees(CloseSocket(t))
         /\ t.state = "CLOSING" => CloseSocket(t).state = "CLOSE" /\ CloseSocket(t).fresh
         /\ t.state # "CLOSING" => CloseSocket(t) = t
<1> DEFINE u == [t EXCEPT !.open = FALSE, !.polled = FALSE, !.fresh = TRUE, !.state = "CLOSE"]
<1>1. u \in Session
  BY DEF Session, State
<1>2. u.state = "CLOSE" /\ ~u.open /\ ~u.polled /\ u.fresh
  BY DEF Session
<1>3. CloseSocket(t) = IF t.state # "CLOSING" THEN t ELSE u
  BY DEF CloseSocket
<1> HIDE DEF u
<1> QED BY <1>1, <1>2, <1>3 DEF SocketAgrees

\* Reporting usage touches neither state nor descriptor nor timeout.
LEMMA AccountUsageKeeps ==
  ASSUME NEW t \in Session
  PROVE  /\ AccountUsage(t) \in Session
         /\ Keeps(t, AccountUsage(t))
         /\ AccountUsage(t).state = t.state
         /\ AccountUsage(t).fresh = t.fresh
<1> DEFINE u == [t EXCEPT !.unreported = FALSE]
<1>1. u \in Session
  BY DEF Session
<1>2. Keeps(t, u) /\ u.state = t.state /\ u.fresh = t.fresh
  BY DEF Session, Keeps
<1>3. AccountUsage(t) \in {t, u}
  BY DEF AccountUsage
<1> HIDE DEF u
<1> QED BY <1>1, <1>2, <1>3 DEF Keeps

\* The record that stands for no session is well-formed.
LEMMA NoSessionType == NoSession \in Session /\ SocketAgrees(NoSession)
BY ZeroIsWord, EmptySeq DEF NoSession, Session, State, Socks5, SocketAgrees

\* A session is freed only from CLOSE and only when its time is over.
LEMMA CleanupAgrees ==
  ASSUME NEW t \in Session, SocketAgrees(t)
  PROVE  /\ Cleanup(t) \in Session
         /\ SocketAgrees(Cleanup(t))
         /\ Cleanup(t).state = t.state \/ (t.state = "CLOSE" /\ ~t.fresh /\ Cleanup(t).state = "none")
<1>1. CASE Cleanup(t) = t
  BY <1>1
<1>2. CASE Cleanup(t) # t
  <2> DEFINE l == t.unreported \/ t.open
  <2>1. t.state = "CLOSE" /\ ~t.fresh /\ Cleanup(t) = [NoSession EXCEPT !.lost = l]
    BY <1>2 DEF Cleanup
  <2>2. l \in BOOLEAN
    BY DEF Session
  <2>3. NoSession.state = "none"
    BY DEF NoSession
  <2> HIDE DEF l
  <2>4. [NoSession EXCEPT !.lost = l] \in Session
    BY <2>2, NoSessionType DEF Session
  <2>5. /\ [NoSession EXCEPT !.lost = l].state = "none"
        /\ SocketAgrees([NoSession EXCEPT !.lost = l])
    BY <2>2, <2>3, NoSessionType DEF Session, SocketAgrees
  <2> QED BY <2>1, <2>4, <2>5
<1> QED BY <1>1, <1>2

\* A whole check.
LEMMA CheckAgrees ==
  ASSUME NEW t \in Session, SocketAgrees(t)
  PROVE  /\ Cleanup(Checked(t)) \in Session
         /\ SocketAgrees(Cleanup(Checked(t)))
         /\ Advances(t, Cleanup(Checked(t)))
<1> DEFINE a == Timeout(t)
           b == CloseSocket(a)
           c == AccountUsage(b)
           d == Cleanup(c)
<1>1. a \in Session /\ SocketAgrees(a) /\ Keeps(t, a) /\ (t.state = "CLOSE" => a = t)
  BY TimeoutKeeps, KeepsSocket
<1>2. Checked(t) = c
  BY DEF Checked
<1> HIDE DEF a
<1>3. /\ b \in Session /\ SocketAgrees(b)
      /\ a.state = "CLOSING" => b.state = "CLOSE" /\ b.fresh
      /\ a.state # "CLOSING" => b = a
  BY <1>1, CloseSocketAgrees
<1> HIDE DEF b
<1>4. c \in Session /\ SocketAgrees(c) /\ c.state = b.state /\ c.fresh = b.fresh
  BY <1>3, AccountUsageKeeps, KeepsSocket
<1> HIDE DEF c
<1>5. /\ d \in Session /\ SocketAgrees(d)
      /\ d.state = c.state \/ (c.state = "CLOSE" /\ ~c.fresh /\ d.state = "none")
  BY <1>4, CleanupAgrees
<1> HIDE DEF d
<1>6. CASE a.state = "CLOSING"
  <2>1. t.state # "CLOSE" /\ d.state = "CLOSE"
    BY <1>1, <1>3, <1>4, <1>5, <1>6
  <2> QED BY <1>2, <1>5, <2>1, SMTT(30) DEF Advances, Session, State, Rank, d
<1>7. CASE a.state # "CLOSING"
  <2>1. c.state = t.state
    BY <1>1, <1>3, <1>4, <1>7 DEF Keeps
  <2> QED BY <1>2, <1>5, <2>1 DEF Advances, d
<1> QED BY <1>6, <1>7

-----------------------------------------------------------------------------
\* A session just opened.
LEMMA NewSessionAgrees ==
  ASSUME NEW p \in Packet, NEW isn \in Word, NEW polled \in BOOLEAN, NEW room \in Nat
  PROVE  /\ NewSession(p, isn, polled, room) \in Session
         /\ SocketAgrees(NewSession(p, isn, polled, room))
         /\ NewSession(p, isn, polled, room).state = "LISTEN"
<1> DEFINE seg  == [seq |-> p.seq, len |-> p.len, sent |-> 0]
           data == IF p.len > 0 THEN <<seg>> ELSE << >>
           wo   == ToForward(data) < room
           q    == p.seq
           w    == p.window
           u    == [NoSession EXCEPT
                      !.state = "LISTEN", !.open = TRUE, !.polled = polled,
                      !.mask = {"OUT"}, !.fresh = TRUE, !.remote_start = q,
                      !.remote_seq = q, !.local_seq = isn, !.send_window = w,
                      !.forward = data, !.window_open = wo]
<1>1. q \in Word /\ p.len \in Nat /\ w \in Nat
  BY DEF Packet
<1>2. data \in Seq(Segment)
  <2>1. seg \in Segment
    BY <1>1 DEF Segment
  <2>2. <<seg>> \in Seq(Segment)
    <3> HIDE DEF seg
    <3> QED BY <2>1
  <2> QED BY <2>2, EmptySeq
<1>3. wo \in BOOLEAN
  OBVIOUS
<1>4. NewSession(p, isn, polled, room) = u
  BY DEF NewSession
<1> HIDE DEF data, wo, q, w
<1>5. u \in Session
  BY <1>1, <1>2, <1>3, NoSessionType DEF Session, State
<1>6. u.state = "LISTEN" /\ u.open
  BY NoSessionType DEF Session
<1> HIDE DEF u
<1> QED BY <1>4, <1>5, <1>6 DEF SocketAgrees

\* Looking at the header and queueing the payload.
LEMMA TakenKeeps ==
  ASSUME NEW p \in Packet, s \in Session
  PROVE  /\ Touched(p) \in Session /\ Keeps(s, Touched(p)) /\ Touched(p).state = s.state
         /\ Taken(p) \in Session /\ Keeps(s, Taken(p)) /\ Taken(p).state = s.state
<1> DEFINE f == s.fresh \/ "SYN" \notin p.flags
           w == p.window
           u == Touched(p)
<1>1. f \in BOOLEAN /\ w \in Nat
  BY DEF Session, Packet
<1>2. u = [s EXCEPT !.fresh = f, !.send_window = w, !.unconfirmed = 0]
  BY DEF Touched
<1> HIDE DEF f, w, u
<1>3. u \in Session /\ Keeps(s, u) /\ u.state = s.state
  BY <1>1, <1>2 DEF Session, Keeps
<1>4. QueueTcp(u, p) \in Session /\ Keeps(u, QueueTcp(u, p)) /\ QueueTcp(u, p).state = u.state
  BY <1>3, QueueTcpKeeps
<1>5. Taken(p) \in {u, QueueTcp(u, p)}
  BY DEF Taken, u
<1>6. Keeps(s, QueueTcp(u, p))
  BY <1>3, <1>4, KeepsTransitive
<1> QED BY <1>3, <1>4, <1>5, <1>6 DEF u

\* A reset of the app leaves the descriptor to the next check.
LEMMA TakeResetKeeps ==
  ASSUME NEW t \in Session
  PROVE  TakeReset(t) \in Session /\ Keeps(t, TakeReset(t))
BY DEF TakeReset, Session, State, Keeps

\* The app's FIN: the descriptor stays as it is.
LEMMA TakeFinAgrees ==
  ASSUME NEW t \in Session, NEW ok \in BOOLEAN, SocketAgrees(t),
         t.state \in {"ESTABLISHED", "FIN_WAIT1"}
  PROVE  /\ TakeFin(t, ok) \in Session
         /\ SocketAgrees(TakeFin(t, ok))
         /\ Advances(t, TakeFin(t, ok))
         /\ TakeFin(t, ok).open = t.open
         /\ TakeFin(t, ok).state # "none"
<1> DEFINE r       == Wrap(t.remote_seq + 1)
           x       == t.finIn + 1
           counted == [t EXCEPT !.remote_seq = r, !.finIn = x]
           a       == WriteAck(counted, ok)
           next    == IF t.state = "ESTABLISHED" THEN "CLOSE_WAIT" ELSE "CLOSE"
           st      == IF ok THEN next ELSE a.state
<1>1. r \in Word /\ x \in Nat
  <2>1. t.remote_seq \in Word /\ t.finIn \in Nat
    BY DEF Session
  <2> QED BY <2>1, WrapOfSum
<1>2. counted \in Session /\ Keeps(t, counted) /\ counted.state = t.state
  <2> HIDE DEF r, x
  <2> QED BY <1>1 DEF Session, Keeps
<1>3. a \in Session /\ Keeps(t, a) /\ (~ok => a.state = "CLOSING")
  <2>1. a \in Session /\ Keeps(counted, a)
    <3> HIDE DEF counted
    <3> QED BY <1>2, WriteAckKeeps
  <2>2. ~ok => a.state = "CLOSING"
    <3> HIDE DEF counted
    <3> QED BY <1>2 DEF WriteAck, Session
  <2> HIDE DEF a
  <2> QED BY <1>2, <2>1, <2>2, KeepsTransitive
<1>4. st \in {next, "CLOSING"}
  <2> HIDE DEF a
  <2> QED BY <1>3
<1>5. \/ TakeFin(t, ok) = [t EXCEPT !.state = next] /\ t.state = "ESTABLISHED"
      \/ TakeFin(t, ok) = [a EXCEPT !.state = st]
  BY DEF TakeFin
<1> HIDE DEF a, st
<1>6. CASE TakeFin(t, ok) = [t EXCEPT !.state = next] /\ t.state = "ESTABLISHED"
  <2> DEFINE u == [t EXCEPT !.state = "CLOSE_WAIT"]
  <2>1. u \in Session /\ u.open = t.open /\ u.polled = t.polled /\ u.state = "CLOSE_WAIT"
    BY DEF Session, State
  <2>2. TakeFin(t, ok) = u
    BY <1>6
  <2> HIDE DEF u
  <2> QED BY <1>6, <2>1, <2>2 DEF SocketAgrees, Advances, Rank
<1>7. CASE TakeFin(t, ok) = [a EXCEPT !.state = st]
  <2> DEFINE u == [a EXCEPT !.state = st]
  <2>1. next \in {"CLOSE_WAIT", "CLOSE"}
    OBVIOUS
  <2>2. u \in Session /\ u.open = t.open /\ u.polled = t.polled /\ u.state = st
    BY <1>3, <1>4, <2>1 DEF Session, State, Keeps
  <2> HIDE DEF u
  <2>3. SocketAgrees(u)
    BY <1>4, <2>2 DEF SocketAgrees
  <2>4. Advances(t, u) /\ u.state # "none"
    BY <1>4, <2>2 DEF Advances, Rank
  <2> QED BY <1>7, <2>2, <2>3, <2>4 DEF u
<1> QED BY <1>5, <1>6, <1>7

-----------------------------------------------------------------------------
\* The proxy's reply moves the negotiation or aborts.
LEMMA Socks5ReplyKeeps ==
  ASSUME NEW t \in Session, NEW reply
  PROVE  Socks5Reply(t, reply) \in Session /\ Keeps(t, Socks5Reply(t, reply))
<1>1. \A v \in Socks5 : [t EXCEPT !.socks5 = v] \in Session /\ Keeps(t, [t EXCEPT !.socks5 = v])
  BY DEF Session, Keeps
<1>2. \A v \in Socks5, b \in BOOLEAN :
        /\ [t EXCEPT !.socks5 = v, !.reached = b] \in Session
        /\ Keeps(t, [t EXCEPT !.socks5 = v, !.reached = b])
  BY ZenonT(60) DEF Session, Keeps
<1>3. \A v \in Socks5 : /\ WriteRst([t EXCEPT !.socks5 = v]) \in Session
                        /\ Keeps(t, WriteRst([t EXCEPT !.socks5 = v]))
  BY <1>1, WriteRstKeeps, KeepsTransitive
<1>4. /\ "NONE" \in Socks5 /\ "AUTH" \in Socks5
      /\ "CONNECT" \in Socks5 /\ "CONNECTED" \in Socks5
  BY DEF Socks5
<1>5. Socks5Reply(t, reply) \in {WriteRst(t), [t EXCEPT !.socks5 = "CONNECT"],
        [t EXCEPT !.socks5 = "AUTH"],
        [t EXCEPT !.socks5 = "CONNECTED", !.reached = TRUE],
        WriteRst([t EXCEPT !.socks5 = "NONE"])}
  BY DEF Socks5Reply
<1> QED BY <1>1, <1>2, <1>3, <1>4, <1>5, WriteRstKeeps

\* The answer of the proxy or of connect() touches no descriptor.
LEMMA ConnectedKeeps ==
  ASSUME NEW t \in Session, NEW u \in Connected(t)
  PROVE  u \in Session /\ Keeps(t, u)
<1> DEFINE v == IF UseSocks5 THEN "HELLO" ELSE "CONNECTED"
           b == ~UseSocks5
           w == [t EXCEPT !.socks5 = v, !.reached = b]
<1>1. v \in Socks5 /\ b \in BOOLEAN
  BY DEF Socks5
<1>2. w \in Session /\ Keeps(t, w)
  <2> HIDE DEF v, b
  <2> QED BY <1>1 DEF Session, Keeps
<1>3. u = t \/ u = w \/ (\E r \in {"accept", "userpass", "deny", "error"} : u = Socks5Reply(t, r))
  BY DEF Connected
<1> HIDE DEF w
<1>4. CASE u = t
  BY <1>4 DEF Keeps
<1> QED BY <1>2, <1>3, <1>4, Socks5ReplyKeeps

\* The request to the proxy, or the SYN-ACK, of a session that was in LISTEN.
LEMMA RequestedAgrees ==
  ASSUME NEW t \in Session, NEW u \in Requested(t), SocketAgrees(t), t.open,
         t.state \in {"LISTEN", "CLOSING"}
  PROVE  /\ u \in Session
         /\ SocketAgrees(u)
         /\ u.state \in {"LISTEN", "SYN_RECV", "CLOSING"}
         /\ u.open
<1> DEFINE r   == Wrap(t.remote_seq + 1)
           x   == t.synIn + 1
           syn == [t EXCEPT !.remote_seq = r, !.synIn = x]
           y   == WriteStream(syn, TRUE, 1)
           n   == WriteStream(syn, FALSE, 1)
           z   == [y EXCEPT !.fresh = TRUE, !.state = "SYN_RECV"]
<1>1. r \in Word /\ x \in Nat
  <2>1. t.remote_seq \in Word /\ t.synIn \in Nat
    BY DEF Session
  <2> QED BY <2>1, WrapOfSum, SMTT(30)
<1>2. syn \in Session /\ Keeps(t, syn)
  <2> HIDE DEF r, x
  <2> QED BY <1>1 DEF Session, Keeps
<1>3. y \in Session /\ Keeps(t, y) /\ n \in Session /\ Keeps(t, n)
  <2> HIDE DEF syn
  <2> QED BY <1>2, WriteStreamKeeps, KeepsTransitive
<1>4. z \in Session /\ z.open = t.open /\ z.polled = t.polled /\ z.state = "SYN_RECV"
  <2> HIDE DEF y
  <2> QED BY <1>3 DEF Session, State, Keeps
<1>5. u \in {t, WriteRst(t), z, n}
  BY DEF Requested
<1> HIDE DEF z, n
<1>6. CASE u = z
  BY <1>4, <1>6 DEF SocketAgrees
<1>7. WriteRst(t) \in Session /\ Keeps(t, WriteRst(t))
  BY WriteRstKeeps
<1>8. CASE u \in {t, WriteRst(t), n}
  <2>1. Keeps(t, t)
    BY DEF Keeps
  <2>2. u \in Session /\ Keeps(t, u)
    BY <1>3, <1>7, <1>8, <2>1
  <2>3. SocketAgrees(u)
    BY <2>2, KeepsSocket
  <2> QED BY <2>2, <2>3 DEF Keeps
<1> QED BY <1>5, <1>6, <1>8

\* Sending from the queue: what is left is a queue.
LEMMA SentKeeps ==
  ASSUME NEW t \in Session, NEW k \in 0 .. Len(t.forward), NEW n \in Nat,
         n > 0 => k < Len(t.forward)
  PROVE  Sent(t, k, n) \in Session /\ Keeps(t, Sent(t, k, n))
<1> DEFINE q    == t.forward
           rest == SubSeq(q, k + 1, Len(q))
           part == IF n = 0 THEN {} ELSE Bytes(q[k + 1], q[k + 1].sent, q[k + 1].sent + n)
           all  == UNION {Bytes(q[i], q[i].sent, q[i].len) : i \in 1 .. k}
           new  == part \union all
           r    == IF k = 0 THEN t.remote_seq ELSE Wrap(q[k].seq + q[k].len)
           f    == IF n = 0 THEN rest ELSE [rest EXCEPT ![1].sent = @ + n]
           g    == t.given \union new
           w    == t.twice \/ t.given \intersect new # {}
           m    == t.unreported \/ k > 0 \/ n > 0
           u    == [t EXCEPT !.remote_seq = r, !.forward = f, !.given = g,
                             !.twice = w, !.unreported = m]
<1>1. q \in Seq(Segment) /\ Len(q) \in Nat /\ \A i \in 1 .. Len(q) : q[i] \in Segment
  <2>1. q \in Seq(Segment)
    BY DEF Session
  <2> HIDE DEF q
  <2> QED BY <2>1, LenProperties, ElementOfSeq
<1>2. rest \in Seq(Segment) /\ Len(rest) = Len(q) - k
  <2>0. k \in 0 .. Len(q)
    OBVIOUS
  <2> HIDE DEF q
  <2>1. \A i \in k + 1 .. Len(q) : q[i] \in Segment
    BY <1>1
  <2> QED BY <1>1, <2>0, <2>1, SubSeqProperties
<1>3. f \in Seq(Segment)
  <2>1. CASE n = 0
    BY <1>2, <2>1
  <2>2. CASE n # 0
    <3> DEFINE h == rest[1]
    <3>1. 1 \in 1 .. Len(rest)
      BY <1>1, <1>2, <2>2
    <3>2. h \in Segment
      BY <1>2, <3>1, ElementOfSeq
    <3>3. [h EXCEPT !.sent = h.sent + n] \in Segment
      <4> HIDE DEF h
      <4> QED BY <3>2 DEF Segment
    <3>4. f = [rest EXCEPT ![1] = [h EXCEPT !.sent = h.sent + n]]
      BY <2>2
    <3> HIDE DEF rest, h, f
    <3> QED BY <1>2, <3>1, <3>3, <3>4, ExceptSeq
  <2> QED BY <2>1, <2>2
<1>4. r \in Word
  <2>1. CASE k = 0
    BY <2>1 DEF Session
  <2>2. CASE k # 0
    <3>1. q[k] \in Segment
      BY <1>1, <2>2
    <3>2. q[k].seq \in Word /\ q[k].len \in Int
      <4> HIDE DEF q
      <4> QED BY <3>1 DEF Segment
    <3> QED BY <2>2, <3>2, WrapOfSum
  <2> QED BY <2>1, <2>2
<1>5. \A i \in 1 .. Len(q) : \A a, b \in Int : Bytes(q[i], a, b) \subseteq Word
  <2> SUFFICES ASSUME NEW i \in 1 .. Len(q), NEW a \in Int, NEW b \in Int,
                      NEW d \in a .. b - 1
               PROVE  Wrap(q[i].seq + d) \in Word
    BY DEF Bytes
  <2>1. q[i].seq \in Word
    <3> HIDE DEF q
    <3> QED BY <1>1 DEF Segment
  <2> QED BY <2>1, WrapOfSum
<1>6. new \subseteq Word
  <2>1. \A i \in 1 .. Len(q) : q[i].sent \in Int /\ q[i].len \in Int
    <3> HIDE DEF q
    <3> QED BY <1>1 DEF Segment
  <2>2. part \subseteq Word
    <3>1. CASE n = 0
      BY <3>1
    <3>2. CASE n # 0
      <4>1. k + 1 \in 1 .. Len(q)
        BY <1>1, <3>2
      <4>2. q[k + 1].sent + n \in Int
        BY <2>1, <4>1
      <4> QED BY <1>5, <2>1, <3>2, <4>1, <4>2
    <3> QED BY <3>1, <3>2
  <2>3. all \subseteq Word
    <3>1. \A i \in 1 .. k : Bytes(q[i], q[i].sent, q[i].len) \subseteq Word
      BY <1>1, <1>5, <2>1
    <3> HIDE DEF q
    <3> QED BY <3>1
  <2> HIDE DEF part, all
  <2> QED BY <2>2, <2>3
<1>7. g \in SUBSET Word
  <2> HIDE DEF new
  <2> QED BY <1>6 DEF Session
<1>8. w \in BOOLEAN /\ m \in BOOLEAN
  <2>1. t.twice \in BOOLEAN /\ t.unreported \in BOOLEAN
    BY DEF Session
  <2> HIDE DEF new
  <2> QED BY <2>1, Zenon
<1>9. Sent(t, k, n) = u
  BY DEF Sent
<1> HIDE DEF r, f, g, w, m
<1>10. u \in Session /\ Keeps(t, u)
  BY <1>3, <1>4, <1>7, <1>8, ZenonT(60) DEF Session, Keeps
<1> QED BY <1>9, <1>10

\* Forwarding.
LEMMA ForwardedKeeps ==
  ASSUME NEW t \in Session, NEW room \in Nat, NEW u \in Forwarded(t, room)
  PROVE  u \in Session /\ Keeps(t, u)
<1>1. PICK k \in 0 .. Len(t.forward) :
        \/ u = Sent(t, k, 0)
        \/ Sendable(t, room, k + 1) /\ u = WriteRst(Sent(t, k, 0))
        \/ /\ Sendable(t, room, k + 1)
           /\ \E n \in 1 .. Unsent(t.forward[k + 1]) - 1 : u = Sent(t, k, n)
  BY DEF Forwarded
<1>2. t.forward \in Seq(Segment)
  BY DEF Session
<1>3. Sent(t, k, 0) \in Session /\ Keeps(t, Sent(t, k, 0))
  BY SentKeeps
<1>4. CASE u = Sent(t, k, 0)
  BY <1>3, <1>4
<1>5. CASE u = WriteRst(Sent(t, k, 0))
  BY <1>3, <1>5, WriteRstKeeps, KeepsTransitive
<1>6. CASE /\ Sendable(t, room, k + 1)
           /\ \E n \in 1 .. Unsent(t.forward[k + 1]) - 1 : u = Sent(t, k, n)
  <2>1. k < Len(t.forward)
    <3>1. k + 1 \in DOMAIN t.forward
      BY <1>6 DEF Sendable
    <3> QED BY <1>2, <3>1, LenProperties
  <2>2. PICK n \in 1 .. Unsent(t.forward[k + 1]) - 1 : u = Sent(t, k, n)
    BY <1>6
  <2>3. n \in Nat
    BY <2>2
  <2> QED BY <2>1, <2>2, <2>3, SentKeeps
<1> QED BY <1>1, <1>4, <1>5, <1>6

\* Acknowledging what was forwarded.
LEMMA AcknowledgedKeeps ==
  ASSUME NEW t \in Session, NEW fwd \in BOOLEAN, NEW room \in Nat,
         NEW u \in Acknowledged(t, fwd, room)
  PROVE  u \in Session /\ Keeps(t, u)
<1> DEFINE open == ToForward(t.forward) < room
           o    == [t EXCEPT !.window_open = open]
           r    == Wrap(o.remote_seq + 1)
           x    == o.finIn + 1
           v    == ConfirmFin(o, fwd)
           y    == [v EXCEPT !.fresh = TRUE]
           n    == WriteAck(v, FALSE)
<1>1. o \in Session /\ Keeps(t, o)
  <2>1. open \in BOOLEAN
    OBVIOUS
  <2> HIDE DEF open
  <2> QED BY <2>1 DEF Session, Keeps
<1> HIDE DEF o
<1>2. v \in Session /\ Keeps(o, v)
  <2>1. r \in Word /\ x \in Nat
    <3>1. o.remote_seq \in Word /\ o.finIn \in Nat
      BY <1>1 DEF Session
    <3> QED BY <3>1, WrapOfSum, SMTT(30)
  <2>2. v \in {o, [o EXCEPT !.remote_seq = r, !.finIn = x]}
    BY DEF ConfirmFin
  <2> HIDE DEF r, x, v
  <2>3. [o EXCEPT !.remote_seq = r, !.finIn = x] \in Session
    BY <1>1, <2>1 DEF Session
  <2>4. Keeps(o, o) /\ Keeps(o, [o EXCEPT !.remote_seq = r, !.finIn = x])
    BY <1>1 DEF Session, Keeps
  <2> QED BY <1>1, <2>2, <2>3, <2>4
<1> HIDE DEF v
<1>3. y \in Session /\ Keeps(v, y)
  BY <1>2 DEF Session, Keeps
<1>4. n \in Session /\ Keeps(v, n)
  BY <1>2, WriteAckKeeps
<1>5. u \in {y, n, o}
  BY DEF Acknowledged, o, v
<1> HIDE DEF y, n
<1> QED BY <1>1, <1>2, <1>3, <1>4, <1>5, KeepsTransitive

\* End of file closes the descriptor and half-closes or aborts.
LEMMA TakeEofAgrees ==
  ASSUME NEW t \in Session, NEW ok \in BOOLEAN, t.state \in Streaming
  PROVE  /\ TakeEof(t, ok) \in Session
         /\ SocketAgrees(TakeEof(t, ok))
         /\ Advances(t, TakeEof(t, ok))
<1> DEFINE y    == WriteStream(t, ok, 1)
           o    == y.finOut \/ ok
           fin  == [y EXCEPT !.finOut = o]
           st   == CASE fin.state = "ESTABLISHED" -> "FIN_WAIT1"
                     [] fin.state = "CLOSE_WAIT"  -> "LAST_ACK"
                     [] OTHER                     -> fin.state
           shut == [fin EXCEPT !.state = st]
           done == IF t.forward # << >> THEN WriteRst(t) ELSE shut
           u    == [done EXCEPT !.open = FALSE, !.polled = FALSE]
<1>1. y \in Session /\ y.state \in {t.state, "CLOSING"}
  BY WriteStreamKeeps DEF Keeps
<1> HIDE DEF y
<1>2. fin \in Session /\ fin.state = y.state
  <2>1. o \in BOOLEAN
    BY <1>1 DEF Session
  <2> HIDE DEF o
  <2> QED BY <1>1, <2>1 DEF Session
<1> HIDE DEF fin
<1>3. /\ st \in {"FIN_WAIT1", "LAST_ACK", "CLOSING"}
      /\ t.state = "CLOSE_WAIT" => st # "FIN_WAIT1"
  BY <1>1, <1>2 DEF Streaming
<1> HIDE DEF st
<1>4. shut \in Session /\ shut.state = st
  BY <1>2, <1>3 DEF Session, State
<1> HIDE DEF shut
<1>5. WriteRst(t) \in Session /\ WriteRst(t).state = "CLOSING"
  BY WriteRstKeeps DEF Streaming
<1>6. /\ done \in Session
      /\ done.state \in {"FIN_WAIT1", "LAST_ACK", "CLOSING"}
      /\ t.state = "CLOSE_WAIT" => done.state # "FIN_WAIT1"
  BY <1>3, <1>4, <1>5
<1>7. TakeEof(t, ok) = u
  BY DEF TakeEof, done, shut, st, fin, y
<1> HIDE DEF done
<1>8. u \in Session /\ u.state = done.state /\ ~u.open /\ ~u.polled
  BY <1>6 DEF Session
<1> HIDE DEF u
<1>9. SocketAgrees(u)
  BY <1>6, <1>8 DEF SocketAgrees
<1>10. Advances(t, u)
  BY <1>6, <1>8 DEF Advances, Streaming, Rank
<1> QED BY <1>7, <1>8, <1>9, <1>10

\* Data of the server.
LEMMA TakeDataKeeps ==
  ASSUME NEW t \in Session, NEW ok \in BOOLEAN, NEW n \in Nat
  PROVE  TakeData(t, n, ok) \in Session /\ Keeps(t, TakeData(t, n, ok))
<1> DEFINE x   == t.received + n
           got == [t EXCEPT !.unreported = TRUE, !.received = x]
           y   == WriteStream(got, ok, n)
           c   == IF ok THEN y.unconfirmed + 1 ELSE y.unconfirmed
           u   == [y EXCEPT !.unconfirmed = c]
<1>1. got \in Session /\ Keeps(t, got)
  <2>1. x \in Nat
    BY DEF Session
  <2> HIDE DEF x
  <2> QED BY <2>1 DEF Session, Keeps
<1>2. TakeData(t, n, ok) = u
  BY DEF TakeData
<1> HIDE DEF got
<1>3. y \in Session /\ Keeps(got, y)
  BY <1>1, WriteStreamKeeps
<1> HIDE DEF y
<1>4. c \in Nat
  BY <1>3 DEF Session
<1> HIDE DEF c
<1>5. u \in Session /\ Keeps(y, u)
  BY <1>3, <1>4 DEF Session, Keeps
<1> HIDE DEF u
<1> QED BY <1>1, <1>2, <1>3, <1>5, KeepsTransitive

\* get_send_window returns a number of bytes.
LEMMA SendRoomType ==
  ASSUME NEW t \in Session
  PROVE  SendRoom(t) \in Nat
<1> DEFINE inflight == IF t.acked <= t.local_seq THEN t.local_seq - t.acked
                       ELSE Wrap(WrapWindow + t.local_seq - t.acked)
           behind   == Wrap(inflight + (t.unconfirmed + 1) * Header)
<1>1. /\ t.acked \in Int /\ t.local_seq \in Int /\ t.unconfirmed \in Nat
      /\ t.send_window \in Nat /\ WrapWindow \in Int /\ Header \in Int
  BY WindowAssumption DEF Session, Word
<1>2. inflight \in Int
  BY <1>1, HalfAssumption DEF Wrap, Modulus
<1>3. (t.unconfirmed + 1) * Header \in Int
  BY <1>1
<1> HIDE DEF inflight
<1>4. behind \in Nat
  BY <1>2, <1>3, HalfAssumption DEF Wrap, Modulus
<1>5. SendRoom(t) = IF behind < t.send_window THEN t.send_window - behind ELSE 0
  BY DEF SendRoom, SendWindow, behind, inflight
<1> HIDE DEF behind
<1> QED BY <1>1, <1>4, <1>5

\* A session whose time has been set.
Refreshed(t) == [t EXCEPT !.fresh = TRUE]

\* What one read of the socket can lead to.
LEMMA ReadOutcomes ==
  ASSUME NEW t \in Session, NEW u \in Read(t)
  PROVE  \/ u \in {t, Refreshed(t), WriteRst(Refreshed(t))}
         \/ Readable(t) /\ \E ok \in BOOLEAN : u = TakeEof(Refreshed(t), ok)
         \/ Readable(t) /\ \E ok \in BOOLEAN, n \in 1 .. SendRoom(t) :
                            u = TakeData(Refreshed(t), n, ok)
<1> DEFINE f == Refreshed(t)
           room == IF SendRoom(t) > MSS THEN MSS ELSE SendRoom(t)
           some == {m \in 1 .. room : f.received + m <= MaxReceived}
<1>1. Read(t) = IF ~("IN" \in ready /\ Readable(t)) THEN {t}
                ELSE {f, WriteRst(f)} \union {TakeEof(f, ok) : ok \in BOOLEAN}
                     \union {TakeData(f, n, ok) : n \in some, ok \in BOOLEAN}
  BY DEF Read, Refreshed
<1>2. some \subseteq 1 .. SendRoom(t)
  <2>1. SendRoom(t) \in Int
    BY SendRoomType
  <2> HIDE DEF f
  <2> QED BY <2>1, BoundsAssumption
<1> HIDE DEF some
<1> QED BY <1>1, <1>2

\* Reading from the server.
LEMMA ReadAgrees ==
  ASSUME NEW t \in Session, SocketAgrees(t), t.state # "CLOSE", NEW u \in Read(t)
  PROVE  u \in Session /\ SocketAgrees(u) /\ Advances(t, u)
<1> DEFINE f == Refreshed(t)
<1>1. f \in Session /\ Keeps(t, f) /\ f.state = t.state
  BY DEF Session, Keeps, Refreshed
<1>2. \/ u = t
      \/ u \in {f, WriteRst(f)}
      \/ Readable(t) /\ \E ok \in BOOLEAN : u = TakeEof(f, ok)
      \/ \E ok \in BOOLEAN, n \in Nat : u = TakeData(f, n, ok)
  BY ReadOutcomes, SendRoomType
<1> HIDE DEF f
<1>3. CASE u = t
  BY <1>3 DEF Advances
<1>4. CASE u \in {f, WriteRst(f)} \/ \E ok \in BOOLEAN, n \in Nat : u = TakeData(f, n, ok)
  <2>1. u \in Session /\ Keeps(f, u)
    BY <1>1, <1>4, WriteRstKeeps, TakeDataKeeps DEF Keeps
  <2>2. Keeps(t, u)
    BY <1>1, <2>1, KeepsTransitive
  <2> QED BY <2>1, <2>2, KeepsSocket, KeepsAdvances
<1>5. CASE Readable(t) /\ \E ok \in BOOLEAN : u = TakeEof(f, ok)
  <2>1. f.state \in Streaming
    BY <1>1, <1>5 DEF Readable
  <2>2. u \in Session /\ SocketAgrees(u) /\ Advances(f, u)
    BY <1>1, <1>5, <2>1, TakeEofAgrees
  <2>3. Advances(t, u)
    BY <1>1, <2>2 DEF Advances
  <2> QED BY <2>2, <2>3
<1> QED BY <1>2, <1>3, <1>4, <1>5

-----------------------------------------------------------------------------
(***************************************************************************)
(* The inductive invariant.  TypeOK and the two properties of the          *)
(* descriptor need each other: an event is handled on an open socket       *)
(* because the packets that come before it in the batch leave the          *)
(* descriptor alone (Keeps), and only the handling of an event and the     *)
(* check, which runs when no event is pending, give it back.               *)
(***************************************************************************)
IInv == TypeOK /\ SocketMatchesState /\ EventFindsSocket

\* What every step does to the session.
StepAgrees == s' \in Session /\ SocketAgrees(s') /\ Advances(s, s')

\* SocketMatchesState is the agreement of the session.
LEMMA SocketMatchesStateIsAgrees == SocketMatchesState <=> SocketAgrees(s)
BY DEF SocketMatchesState, SocketAgrees

\* Steps that leave the session alone or keep its descriptor.
LEMMA KeepStep ==
  ASSUME s \in Session, SocketAgrees(s), s.state # "CLOSE" \/ s'.state = s.state,
         s' \in Session, Keeps(s, s')
  PROVE  StepAgrees
BY KeepsSocket, KeepsAdvances DEF StepAgrees, Advances

\* Steps that leave the session alone.
LEMMA UnchangedStep ==
  ASSUME s \in Session, SocketAgrees(s), s' = s
  PROVE  StepAgrees
BY DEF StepAgrees, Advances

\* Choosing the mask and the keep-alive leave the descriptor alone.
LEMMA MonitorStep ==
  ASSUME IInv, MonitorTcpSession
  PROVE  StepAgrees /\ s'.open = s.open
<1>1. s \in Session /\ SocketAgrees(s)
  BY SocketMatchesStateIsAgrees DEF IInv, TypeOK
<1>2. CASE s' = s
  BY <1>1, <1>2, UnchangedStep
<1>3. CASE s.open /\ s' # s
  <2>1. PICK room \in Rooms, due \in BOOLEAN, ok \in BOOLEAN :
          \E t \in {s, KeepAlive(s, ok)} : s' = SetMask(t, EpollMask(s, room))
    BY <1>3 DEF MonitorTcpSession
  <2>2. PICK t \in {s, KeepAlive(s, ok)} : s' = SetMask(t, EpollMask(s, room))
    BY <2>1
  <2>3. t \in Session /\ Keeps(s, t)
    BY <1>1, KeepAliveKeeps DEF Keeps
  <2>4. EpollMask(s, room) \in SUBSET {"IN", "OUT"}
    BY DEF EpollMask
  <2>5. s' \in Session /\ Keeps(t, s')
    BY <2>2, <2>3, <2>4, SetMaskKeeps
  <2>6. Keeps(s, s')
    BY <2>3, <2>5, KeepsTransitive
  <2>7. s.state # "CLOSE"
    BY <1>1, <1>3 DEF SocketAgrees
  <2> QED BY <1>1, <2>5, <2>6, <2>7, KeepStep DEF Keeps
<1> QED BY <1>2, <1>3 DEF MonitorTcpSession

\* A check that was not skipped.
LEMMA CheckStep ==
  ASSUME IInv, CheckTcpSession
  PROVE  StepAgrees
<1>1. s \in Session /\ SocketAgrees(s)
  BY SocketMatchesStateIsAgrees DEF IInv, TypeOK
<1>2. s' = s \/ s' = Cleanup(Checked(s))
  BY DEF CheckTcpSession
<1> QED BY <1>1, <1>2, UnchangedStep, CheckAgrees DEF StepAgrees

\* Time only makes the session older.
LEMMA TimeStep ==
  ASSUME IInv, TimePasses
  PROVE  StepAgrees /\ s'.open = s.open /\ s'.state = s.state
<1>1. s \in Session /\ SocketAgrees(s)
  BY SocketMatchesStateIsAgrees DEF IInv, TypeOK
<1> DEFINE u == [s EXCEPT !.fresh = FALSE]
<1>2. u \in Session /\ Keeps(s, u) /\ u.state = s.state
  BY <1>1 DEF Session, Keeps
<1>3. s' = u
  BY DEF TimePasses
<1> HIDE DEF u
<1> QED BY <1>1, <1>2, <1>3, KeepStep DEF Keeps

\* A packet never touches the descriptor of a session that exists, and does not
\* free it.
LEMMA PacketStep ==
  ASSUME IInv, NEW p \in Packets, HandleTcp(p)
  PROVE  StepAgrees /\ (s.state # "none" => s'.open = s.open /\ s'.state # "none")
<1>1. s \in Session /\ SocketAgrees(s) /\ p \in Packet
  BY SocketMatchesStateIsAgrees, PacketsAssumption DEF IInv, TypeOK
<1> USE <1>1
<1>2. CASE s' = s
  BY <1>2, UnchangedStep
<1>3. CASE TunSyn(p) /\ s' # s
  <2>1. PICK isn \in LocalISNs, polled \in BOOLEAN, room \in Rooms :
          s.state = "none" /\ s' = NewSession(p, isn, polled, room)
    BY <1>3 DEF TunSyn
  <2>2. isn \in Word /\ room \in Nat
    BY ISNAssumption, RoomsType
  <2>3. s' \in Session /\ SocketAgrees(s') /\ s'.state = "LISTEN"
    BY <2>1, <2>2, NewSessionAgrees
  <2> QED BY <2>1, <2>3 DEF StepAgrees, Advances, Rank
<1>4. ASSUME NEW t \in Session, Keeps(s, t), s' = t \/ s' = WriteRst(t),
             s.state # "CLOSE" \/ s' = WriteRst(s), s.state # "none"
      PROVE  StepAgrees /\ s'.open = s.open /\ s'.state # "none"
  <2>1. s' \in Session /\ Keeps(t, s')
    BY <1>4, WriteRstKeeps DEF Keeps
  <2>2. Keeps(s, s')
    BY <1>4, <2>1, KeepsTransitive
  <2>3. s.state # "CLOSE" \/ s'.state = s.state
    BY <1>4, WriteRstKeeps
  <2> QED BY <1>4, <2>1, <2>2, <2>3, KeepStep DEF Keeps
<1>5. CASE TunFinished(p)
  BY <1>4, <1>5 DEF TunFinished, Finished, Keeps
<1>6. CASE TunRefused(p)
  BY <1>4, <1>6, TakenKeeps DEF TunRefused, Live, Finished
<1>7. CASE TunReset(p)
  <2>1. TakeReset(Taken(p)) \in Session /\ Keeps(s, TakeReset(Taken(p)))
    BY TakenKeeps, TakeResetKeeps, KeepsTransitive
  <2> QED BY <1>4, <1>7, <2>1 DEF TunReset, Live, Finished
<1>8. CASE TunFin(p)
  <2>1. /\ Taken(p) \in Session /\ SocketAgrees(Taken(p))
        /\ Taken(p).open = s.open /\ Taken(p).state = s.state
        /\ s.state \in {"ESTABLISHED", "FIN_WAIT1"}
    BY <1>8, TakenKeeps, KeepsSocket DEF TunFin, Keeps
  <2>2. PICK ok \in BOOLEAN : s' = TakeFin(Taken(p), ok)
    BY <1>8 DEF TunFin
  <2>3. /\ s' \in Session /\ SocketAgrees(s') /\ Advances(Taken(p), s')
        /\ s'.open = s.open /\ s'.state # "none"
    BY <2>1, <2>2, TakeFinAgrees
  <2> QED BY <2>1, <2>3 DEF StepAgrees, Advances
<1>9. CASE TunAck(p)
  <2> DEFINE t == Taken(p)
             a == p.ack
             st == IF t.state = "SYN_RECV" THEN "ESTABLISHED"
                   ELSE IF t.state = "LAST_ACK" THEN "CLOSING" ELSE t.state
             u == [t EXCEPT !.acked = a, !.state = st]
  <2>1. /\ t \in Session /\ SocketAgrees(t) /\ t.state = s.state /\ t.open = s.open
        /\ s.state # "none" /\ a \in Word
    BY <1>9, TakenKeeps, KeepsSocket DEF TunAck, TunAccepted, Live, Keeps, Packet
  <2>2. s' = u
    BY <1>9 DEF TunAck
  <2> HIDE DEF t, a
  <2>3. st \in State /\ st # "none"
    BY <2>1 DEF Session, State
  <2>4. SocketAgrees([t EXCEPT !.state = st]) /\ Rank[st] >= Rank[s.state]
        /\ (Rank[st] = Rank[s.state] => st = s.state)
    BY <2>1, SMTT(30) DEF Session, SocketAgrees, State, Rank
  <2> HIDE DEF st
  <2>5. u \in Session /\ u.open = t.open /\ u.polled = t.polled /\ u.state = st
    BY <2>1, <2>3 DEF Session
  <2>6. SocketAgrees(u)
    BY <2>1, <2>4, <2>5 DEF SocketAgrees, Session
  <2> HIDE DEF u
  <2>7. Advances(s, u)
    BY <2>3, <2>4, <2>5, SMTT(30) DEF Advances, Session, State, Rank
  <2> QED BY <2>1, <2>2, <2>3, <2>5, <2>6, <2>7 DEF StepAgrees
<1>10. CASE TunIgnored(p)
  BY <1>4, <1>10, TakenKeeps DEF TunIgnored, TunAccepted, Live, Finished
<1>11. CASE TunOldAck(p)
  <2> DEFINE t == Taken(p)
             a == IF Compare(p.ack, t.acked) <= 0 THEN t.acked ELSE p.ack
             u == [t EXCEPT !.acked = a]
  <2>1. t \in Session /\ Keeps(s, t)
    BY TakenKeeps
  <2>2. s' = u
    BY <1>11 DEF TunOldAck
  <2> HIDE DEF t
  <2>3. a \in Word
    BY <2>1 DEF Session, Packet
  <2> HIDE DEF a
  <2>4. u \in Session /\ Keeps(t, u)
    BY <2>1, <2>3 DEF Session, Keeps
  <2> HIDE DEF u
  <2>5. Keeps(s, u)
    BY <2>1, <2>4, KeepsTransitive
  <2> QED BY <1>4, <1>11, <2>2, <2>4, <2>5 DEF TunOldAck, TunAccepted, Live, Finished
<1>12. CASE TunFutureAck(p)
  BY <1>4, <1>12, TakenKeeps DEF TunFutureAck, TunAccepted, Live, Finished
<1>13. CASE TunDropped(p)
  BY <1>2, <1>13 DEF TunDropped
<1> QED BY <1>2, <1>3, <1>5, <1>6, <1>7, <1>8, <1>9, <1>10, <1>11, <1>12, <1>13
        DEF HandleTcp

\* The event of the socket.
LEMMA SocketStep ==
  ASSUME IInv, CheckTcpSocket
  PROVE  StepAgrees
<1>1. s \in Session /\ SocketAgrees(s)
  BY SocketMatchesStateIsAgrees DEF IInv, TypeOK
<1>2. s.open /\ s.state # "CLOSE"
  <2>1. s.open
    BY DEF IInv, EventFindsSocket, CheckTcpSocket, SocketError, SocketConnect,
           SocketStream, SocketEvent
  <2> QED BY <1>1, <2>1 DEF SocketAgrees
<1> USE <1>1, <1>2
<1>3. CASE SocketError
  <2> DEFINE u == [s EXCEPT !.fresh = TRUE]
  <2>1. u \in Session /\ Keeps(s, u)
    BY DEF Session, Keeps
  <2>2. s' = WriteRst(u)
    BY <1>3 DEF SocketError
  <2> HIDE DEF u
  <2>3. s' \in Session /\ Keeps(s, s')
    BY <2>1, <2>2, WriteRstKeeps, KeepsTransitive
  <2> QED BY <2>3, KeepStep
<1>4. CASE SocketConnect
  <2>1. PICK t \in Connected(s) : s' \in Requested(t)
    BY <1>4 DEF SocketConnect
  <2>2. t \in Session /\ Keeps(s, t) /\ SocketAgrees(t)
    BY ConnectedKeeps, KeepsSocket
  <2>3. s.state = "LISTEN" /\ t.state \in {"LISTEN", "CLOSING"} /\ t.open
    BY <1>4, <2>2 DEF SocketConnect, Keeps
  <2>4. s' \in Session /\ SocketAgrees(s') /\ s'.state \in {"LISTEN", "SYN_RECV", "CLOSING"}
    BY <2>1, <2>2, <2>3, RequestedAgrees
  <2> QED BY <2>3, <2>4 DEF StepAgrees, Advances, Rank
<1>5. CASE SocketStream
  <2>1. PICK room \in Rooms, left \in Rooms :
          \E t \in IF "OUT" \in ready THEN Forwarded(s, room) ELSE {s} :
            \E u \in Acknowledged(t, t.forward # s.forward, left) : s' \in Read(u)
    BY <1>5 DEF SocketStream
  <2>2. PICK t \in IF "OUT" \in ready THEN Forwarded(s, room) ELSE {s} :
          \E u \in Acknowledged(t, t.forward # s.forward, left) : s' \in Read(u)
    BY <2>1
  <2>3. PICK u \in Acknowledged(t, t.forward # s.forward, left) : s' \in Read(u)
    BY <2>2
  <2>4. room \in Nat /\ left \in Nat
    BY RoomsType
  <2>5. Keeps(s, s)
    BY DEF Keeps
  <2>6. t \in Session /\ Keeps(s, t)
    BY <2>2, <2>4, <2>5, ForwardedKeeps
  <2>7. (t.forward # s.forward) \in BOOLEAN
    OBVIOUS
  <2>8. u \in Session /\ Keeps(t, u)
    BY <2>3, <2>4, <2>6, <2>7, AcknowledgedKeeps
  <2>9. Keeps(s, u) /\ SocketAgrees(u)
    BY <2>6, <2>8, KeepsTransitive, KeepsSocket
  <2>10. u.state # "CLOSE"
    BY <2>9 DEF Keeps
  <2>11. s' \in Session /\ SocketAgrees(s') /\ Advances(u, s')
    BY <2>3, <2>8, <2>9, <2>10, ReadAgrees
  <2>12. Advances(s, s')
    BY <2>9, <2>10, <2>11, SMTT(30) DEF Advances, Keeps, Session, State, Rank
  <2> QED BY <2>11, <2>12 DEF StepAgrees
<1> QED BY <1>3, <1>4, <1>5 DEF CheckTcpSocket

-----------------------------------------------------------------------------
\* The invariant holds before the first step.
LEMMA InitIInv == Init => IInv
<1> SUFFICES ASSUME Init PROVE IInv
  OBVIOUS
<1>1. s \in Session /\ SocketAgrees(s)
  BY NoSessionType DEF Init
<1>2. TypeOK
  BY <1>1, BoundsAssumption DEF Init, TypeOK, Phase
<1>3. SocketMatchesState
  BY <1>1, SocketMatchesStateIsAgrees
<1>4. EventFindsSocket
  BY DEF Init, EventFindsSocket
<1> QED BY <1>2, <1>3, <1>4 DEF IInv

\* Every step of the loop, and time, does to the session what StepAgrees says.
LEMMA NextAgrees ==
  ASSUME IInv, [Next]_vars
  PROVE  StepAgrees
<1>1. s \in Session /\ SocketAgrees(s)
  BY SocketMatchesStateIsAgrees DEF IInv, TypeOK
<1>2. CASE s' = s
  BY <1>1, <1>2, UnchangedStep
<1>3. CASE \E p \in Packets : HandleTcp(p)
  BY <1>3, PacketStep
<1> QED BY <1>2, <1>3, MonitorStep, CheckStep, TimeStep, SocketStep
        DEF Next, Loop, SkipCheck, EpollWait, TunDrained, EndBatch, vars

\* The loop's own variables keep their types.
LEMMA LoopTypes ==
  ASSUME IInv, [Next]_vars
  PROVE  /\ phase' \in Phase
         /\ ready' \in SUBSET {"IN", "OUT", "ERR", "HUP"}
         /\ tun' \in 0 .. TUN_YIELD
<1>1. /\ phase \in Phase /\ ready \in SUBSET {"IN", "OUT", "ERR", "HUP"}
      /\ tun \in 0 .. TUN_YIELD /\ s \in Session /\ TUN_YIELD \in Nat
  BY BoundsAssumption DEF IInv, TypeOK
<1> USE <1>1
<1>2. CASE MonitorTcpSession
  BY <1>2 DEF MonitorTcpSession, Phase
<1>3. CASE CheckTcpSession \/ SkipCheck
  BY <1>3 DEF CheckTcpSession, SkipCheck, Phase
<1>4. CASE EpollWait
  <2>1. s.mask \in SUBSET {"IN", "OUT"}
    BY DEF Session
  <2>2. ready' \in SUBSET {"IN", "OUT", "ERR", "HUP"}
    BY <1>4, <2>1 DEF EpollWait
  <2> QED BY <1>4, <2>2 DEF EpollWait, Phase
<1>5. CASE \E p \in Packets : HandleTcp(p)
  <2>1. tun > 0 /\ tun' = tun - 1 /\ phase' = phase /\ ready' = ready
    BY <1>5 DEF HandleTcp, TunSyn, TunDropped, TunFinished, TunRefused, TunReset,
                TunFin, TunAck, TunIgnored, TunOldAck, TunFutureAck, TunAccepted,
                TunPacket
  <2> QED BY <2>1
<1>6. CASE TunDrained \/ EndBatch
  <2>1. phase' \in {phase, "monitor"} /\ ready' = ready /\ tun' \in {0, tun}
    BY <1>6 DEF TunDrained, EndBatch
  <2> QED BY <2>1 DEF Phase
<1>7. CASE CheckTcpSocket
  BY <1>7 DEF CheckTcpSocket, SocketError, SocketConnect, SocketStream, SocketEvent
<1>8. CASE TimePasses \/ UNCHANGED vars
  BY <1>8 DEF TimePasses, vars
<1> QED BY <1>2, <1>3, <1>4, <1>5, <1>6, <1>7, <1>8 DEF Next, Loop

\* An event that is pending after a step still finds its socket open.
LEMMA EventStep ==
  ASSUME IInv, [Next]_vars
  PROVE  EventFindsSocket'
<1>1. /\ s \in Session /\ SocketAgrees(s)
      /\ ready # {} => phase = "dispatch" /\ s.open /\ s.state # "none"
  BY SocketMatchesStateIsAgrees DEF IInv, TypeOK, EventFindsSocket
<1> USE <1>1 DEF EventFindsSocket
<1>2. CASE MonitorTcpSession
  BY <1>2 DEF MonitorTcpSession
<1>3. CASE CheckTcpSession \/ SkipCheck
  BY <1>3 DEF CheckTcpSession, SkipCheck
<1>4. CASE EpollWait
  BY <1>4 DEF EpollWait, SocketAgrees
<1>5. CASE \E p \in Packets : HandleTcp(p)
  <2>1. phase' = phase /\ ready' = ready
    BY <1>5 DEF HandleTcp, TunSyn, TunDropped, TunFinished, TunRefused, TunReset,
                TunFin, TunAck, TunIgnored, TunOldAck, TunFutureAck, TunAccepted,
                TunPacket
  <2>2. s.state # "none" => s'.open = s.open /\ s'.state # "none"
    BY <1>5, PacketStep
  <2> QED BY <2>1, <2>2
<1>6. CASE TunDrained \/ EndBatch
  BY <1>6 DEF TunDrained, EndBatch
<1>7. CASE CheckTcpSocket
  BY <1>7 DEF CheckTcpSocket, SocketError, SocketConnect, SocketStream, SocketEvent
<1>8. CASE TimePasses
  <2>1. phase' = phase /\ ready' = ready
    BY <1>8 DEF TimePasses
  <2> QED BY <1>8, <2>1, TimeStep
<1>9. CASE UNCHANGED vars
  BY <1>9 DEF vars
<1> QED BY <1>2, <1>3, <1>4, <1>5, <1>6, <1>7, <1>8, <1>9 DEF Next, Loop

\* Every step preserves the invariant.
LEMMA StepIInv == IInv /\ [Next]_vars => IInv'
<1> SUFFICES ASSUME IInv, [Next]_vars PROVE IInv'
  OBVIOUS
<1>1. s' \in Session /\ SocketAgrees(s')
  BY NextAgrees DEF StepAgrees
<1>2. TypeOK'
  BY <1>1, LoopTypes DEF TypeOK
<1>3. SocketMatchesState'
  BY <1>1 DEF SocketMatchesState, SocketAgrees
<1> QED BY <1>2, <1>3, EventStep DEF IInv

\* The inductive invariant holds throughout.
LEMMA Invariance == Spec => []IInv
BY InitIInv, StepIInv, PTL DEF Spec

-----------------------------------------------------------------------------
\* The variables keep their types, whatever the app and the server send and
\* whichever system calls fail: in particular every sequence number stays a
\* uint32_t and the queue a list of segments.
THEOREM TypeCorrect == Spec => []TypeOK
BY Invariance, PTL DEF IInv

\* tcp.c gives the descriptor of a session back exactly when it must: open
\* while the session can still use it, closed once half-finished or freed.
THEOREM SocketFollowsState == Spec => []SocketMatchesState
BY Invariance, PTL DEF IInv

\* check_tcp_socket never handles an event on a closed descriptor or a freed
\* session, although packets of the same batch were handled since epoll_wait.
THEOREM EventIsFresh == Spec => []EventFindsSocket
BY Invariance, PTL DEF IInv

\* The states of a session only ever advance: neither a packet, an event, a
\* failed write nor a check revives an aborted or finished session, and only a
\* session in CLOSE is freed.
THEOREM NeverGoesBack == Spec => NeverBackwards
<1>1. IInv /\ [Next]_vars => [ \/ Rank[s'.state] > Rank[s.state]
                               \/ s'.state = s.state
                               \/ s.state = "CLOSE" /\ s'.state = "none" ]_vars
  BY NextAgrees DEF StepAgrees, Advances
<1> QED BY <1>1, Invariance, PTL DEF Spec, NeverBackwards

-----------------------------------------------------------------------------
\* The history of a session.  Accounted relates what the session has done to its
\* state; FinCounted says that the FIN of the app is counted exactly when nothing
\* of its stream is left to forward.

\* States in which the app's connection has been accepted.
Accepted == {"SYN_RECV", "ESTABLISHED", "CLOSE_WAIT", "FIN_WAIT1", "LAST_ACK"}

Accounted(t) ==
  /\ ~t.lateOut /\ ~t.lost
  /\ t.finOut => t.state \in {"FIN_WAIT1", "LAST_ACK"} \union Finished
  /\ t.state = "none" => ~t.unreported
  /\ t.state = "LISTEN" => t.socks5 # "CONNECTED"
  /\ t.state \in Accepted => t.reached /\ t.socks5 = "CONNECTED" /\ t.synIn = 1
  /\ t.state \in {"none", "LISTEN"} => t.synIn = 0
  /\ t.synIn \in {0, 1}

FinCounted(t) ==
  /\ t.finIn \in {0, 1}
  /\ t.finIn = 1 => t.forward = << >>
  /\ t.state \in {"none", "LISTEN", "SYN_RECV", "ESTABLISHED"} => t.finIn = 0
  /\ t.state = "FIN_WAIT1" => t.finIn = 0 /\ t.forward = << >>
  /\ t.state = "CLOSE_WAIT" /\ t.forward = << >> => t.finIn = 1
  /\ t.state = "LAST_ACK" => t.finIn = 1

\* u has t's history, and t's state unless it was aborted.
Quiet(t, u) ==
  /\ u.lateOut = t.lateOut /\ u.lost = t.lost /\ u.finOut = t.finOut
  /\ u.unreported = t.unreported
  /\ u.finIn = t.finIn /\ u.forward = t.forward
  /\ \/ /\ u.state = t.state
        /\ u.synIn = t.synIn /\ u.socks5 = t.socks5 /\ u.reached = t.reached
     \/ /\ t.state # "none" /\ u.state \in Finished
        /\ u.synIn \in {t.synIn, IF t.state = "LISTEN" THEN 1 ELSE t.synIn}

LEMMA QuietTransitive ==
  ASSUME NEW t, NEW u, NEW v, Quiet(t, u), Quiet(u, v)
  PROVE  Quiet(t, v)
BY DEF Quiet, Finished

\* A quiet step keeps the accounts.
LEMMA QuietKeeps ==
  ASSUME NEW t, NEW u, Quiet(t, u)
  PROVE  /\ Accounted(t) => Accounted(u)
         /\ FinCounted(t) => FinCounted(u)
BY DEF Quiet, Accounted, FinCounted, Finished, Accepted

LEMMA WriteAckQuiet ==
  ASSUME NEW t \in Session, NEW ok \in BOOLEAN, t.state # "none"
  PROVE  Quiet(t, WriteAck(t, ok))
BY DEF WriteAck, Session, Quiet, Finished

LEMMA WriteRstQuiet ==
  ASSUME NEW t \in Session, Accounted(t), t.state # "none"
  PROVE  Quiet(t, WriteRst(t))
<1> DEFINE syn == IF t.state = "LISTEN" THEN 1 ELSE 0
           w   == Wrap(t.remote_seq + syn)
           x   == t.synIn + syn
           st  == IF t.state = "CLOSE" THEN "CLOSE" ELSE "CLOSING"
<1>1. x \in {t.synIn, IF t.state = "LISTEN" THEN 1 ELSE t.synIn}
  BY DEF Session, Accounted
<1>2. WriteRst(t) = [t EXCEPT !.remote_seq = w, !.synIn = x, !.state = st]
  BY DEF WriteRst
<1>3. st \in Finished
  BY DEF Finished
<1> HIDE DEF syn, w, x, st
<1> QED BY <1>1, <1>2, <1>3 DEF Session, Quiet

LEMMA KeepAliveQuiet ==
  ASSUME NEW t \in Session, NEW ok \in BOOLEAN, t.state # "none"
  PROVE  Quiet(t, KeepAlive(t, ok))
<1> DEFINE w == Wrap(t.remote_seq - 1)
           l == [t EXCEPT !.remote_seq = w]
           p == WriteAck(l, ok)
           r == Wrap(p.remote_seq + 1)
<1>1. l \in Session /\ Quiet(t, l) /\ l.state # "none"
  <2>1. w \in Word
    BY WrapOfSum DEF Session
  <2> HIDE DEF w
  <2> QED BY <2>1 DEF Session, Quiet
<1>2. KeepAlive(t, ok) = [p EXCEPT !.remote_seq = r]
  BY DEF KeepAlive
<1> HIDE DEF l
<1>3. p \in Session /\ Quiet(l, p)
  BY <1>1, WriteAckKeeps, WriteAckQuiet
<1> HIDE DEF p, r
<1>4. Quiet(p, [p EXCEPT !.remote_seq = r])
  BY <1>3 DEF Session, Quiet
<1> QED BY <1>1, <1>2, <1>3, <1>4, QuietTransitive

LEMMA SetMaskQuiet ==
  ASSUME NEW t \in Session, NEW mask, t.state # "none"
  PROVE  Quiet(t, SetMask(t, mask))
BY DEF SetMask, Session, Quiet, Finished

LEMMA TimeoutQuiet ==
  ASSUME NEW t \in Session, Accounted(t), t.state # "none"
  PROVE  Quiet(t, Timeout(t))
<1>1. Quiet(t, t) /\ Quiet(t, [t EXCEPT !.state = "CLOSING"])
  BY DEF Session, Quiet, Finished
<1> QED BY <1>1, WriteRstQuiet DEF Timeout

LEMMA CloseSocketQuiet ==
  ASSUME NEW t \in Session, t.state # "none"
  PROVE  Quiet(t, CloseSocket(t))
BY DEF CloseSocket, Session, Quiet, Finished

\* A whole check: the traffic of what is freed was reported when the session
\* was closed, in this check or in an earlier one, and a session that is closed
\* in this check lingers.
LEMMA CheckAccounted ==
  ASSUME NEW t \in Session, SocketAgrees(t), Accounted(t), FinCounted(t), t.state # "none"
  PROVE  LET u == Cleanup(Checked(t)) IN
         /\ Accounted(u) /\ FinCounted(u) /\ u.state # "CLOSING"
         /\ \/ /\ u.state = t.state \/ u.state = "CLOSE"
               /\ u.open = t.open \/ (u.state = "CLOSE" /\ ~u.open)
               /\ u.unreported = IF u.state \in Finished THEN FALSE ELSE t.unreported
            \/ t.state = "CLOSE" /\ u.state = "none" /\ ~u.unreported /\ ~u.open
<1> DEFINE a == Timeout(t)
           b == CloseSocket(a)
           c == AccountUsage(b)
           u == Cleanup(c)
<1>1. /\ a \in Session /\ SocketAgrees(a) /\ Keeps(t, a) /\ Quiet(t, a)
      /\ Accounted(a) /\ FinCounted(a) /\ a.state # "none" /\ (t.state = "CLOSE" => a = t)
  BY TimeoutKeeps, KeepsSocket, TimeoutQuiet, QuietKeeps DEF Keeps
<1>2. Checked(t) = c
  BY DEF Checked
<1> HIDE DEF a
<1>3. /\ b \in Session /\ SocketAgrees(b) /\ Accounted(b) /\ FinCounted(b)
      /\ b.unreported = t.unreported /\ b.state # "none"
      /\ a.state = "CLOSING" => b.state = "CLOSE" /\ b.fresh
      /\ a.state # "CLOSING" => b = a
  BY <1>1, CloseSocketAgrees, CloseSocketQuiet, QuietKeeps DEF Quiet
<1> HIDE DEF b
<1>4. /\ c \in Session /\ c.state = b.state /\ c.fresh = b.fresh /\ c.open = b.open
      /\ Accounted(c) /\ FinCounted(c)
      /\ c.unreported = IF b.state \in Finished THEN FALSE ELSE b.unreported
  <2>1. c = IF b.state \in Finished THEN [b EXCEPT !.unreported = FALSE] ELSE b
    BY DEF AccountUsage
  <2> HIDE DEF c
  <2>2. CASE b.state \in Finished
    BY <1>3, <2>1, <2>2, ZenonT(60) DEF Session, Accounted, FinCounted
  <2>3. CASE b.state \notin Finished
    BY <1>3, <2>1, <2>3
  <2> QED BY <2>2, <2>3
<1> HIDE DEF c
<1>5. b.state # "CLOSING"
  BY <1>3
<1>6. b.state \in {t.state, "CLOSE"} /\ (b.state # "CLOSE" => b.open = t.open)
  BY <1>1, <1>3 DEF Keeps
<1>7. CASE u = c
  BY <1>2, <1>3, <1>4, <1>5, <1>6, <1>7 DEF SocketAgrees
<1>8. CASE u # c
  <2>1. /\ c.state = "CLOSE" /\ ~c.fresh
        /\ u = [NoSession EXCEPT !.lost = c.unreported \/ c.open]
    BY <1>8 DEF Cleanup
  <2>2. t.state = "CLOSE"
    BY <1>1, <1>3, <1>4, <2>1 DEF Keeps
  <2>3. ~c.unreported /\ ~c.open
    BY <1>3, <1>4, <2>1 DEF Finished, SocketAgrees
  <2>4. u = NoSession
    <3>1. (c.unreported \/ c.open) = FALSE
      BY <2>3
    <3>2. u = [NoSession EXCEPT !.lost = FALSE]
      BY <2>1, <3>1, Zenon
    <3> HIDE DEF u
    <3> QED BY <3>2 DEF NoSession
  <2> HIDE DEF u
  <2>5. Accounted(u) /\ FinCounted(u) /\ u.state = "none" /\ ~u.unreported /\ ~u.open
    BY <2>4 DEF NoSession, Accounted, FinCounted, Finished, Accepted
  <2> QED BY <1>2, <2>2, <2>5 DEF u
<1> QED BY <1>7, <1>8

\* A session just opened.
LEMMA NewSessionAccounted ==
  ASSUME NEW p, NEW isn, NEW polled, NEW room
  PROVE  /\ Accounted(NewSession(p, isn, polled, room))
         /\ FinCounted(NewSession(p, isn, polled, room))
BY DEF NewSession, NoSession, Accounted, FinCounted, Finished, Accepted

\* A payload is queued only while the FIN has not been taken.
LEMMA TakenAccounted ==
  ASSUME NEW p \in Packet, s \in Session, SocketAgrees(s), Accounted(s), FinCounted(s),
         s.state # "none"
  PROVE  /\ Accounted(Touched(p)) /\ FinCounted(Touched(p))
         /\ Touched(p).unreported = s.unreported
         /\ Live(p) /\ ~Refuses(p) => /\ Accounted(Taken(p)) /\ FinCounted(Taken(p))
                                      /\ Taken(p).unreported = s.unreported
<1> DEFINE f == s.fresh \/ "SYN" \notin p.flags
           w == p.window
           u == Touched(p)
<1>1. f \in BOOLEAN /\ w \in Nat
  BY DEF Session, Packet
<1>2. u = [s EXCEPT !.fresh = f, !.send_window = w, !.unconfirmed = 0]
  BY DEF Touched
<1> HIDE DEF f, w, u
<1>3. u \in Session /\ Quiet(s, u) /\ u.state = s.state
  BY <1>1, <1>2 DEF Session, Quiet
<1>4. Accounted(u) /\ FinCounted(u)
  BY <1>3, QuietKeeps
<1>5. ASSUME Live(p), ~Refuses(p)
      PROVE  Accounted(Taken(p)) /\ FinCounted(Taken(p)) /\ Taken(p).unreported = s.unreported
  <2>1. CASE p.len > 0
    <3> DEFINE v == QueueTcp(u, p)
    <3>1. Taken(p) = v
      BY <2>1 DEF Taken, u
    <3>2. s.state \in {"LISTEN", "SYN_RECV", "ESTABLISHED"}
      BY <1>5, <2>1 DEF Live, Refuses, SocketAgrees, Session, State, Finished
    <3>3. \E q : v = [u EXCEPT !.forward = q]
      <4>1. u = [u EXCEPT !.forward = u.forward]
        BY <1>3 DEF Session
      <4> QED BY <4>1 DEF QueueTcp
    <3> HIDE DEF v
    <3>4. PICK q : v = [u EXCEPT !.forward = q]
      BY <3>3
    <3>5. Accounted(v) /\ FinCounted(v) /\ v.unreported = u.unreported
      BY <1>3, <1>4, <3>2, <3>4 DEF Session, Accounted, FinCounted, Finished, Accepted
    <3> QED BY <1>3, <3>1, <3>5 DEF Quiet
  <2>2. CASE ~(p.len > 0)
    BY <1>3, <1>4, <2>2 DEF Taken, Quiet, u
  <2> QED BY <2>1, <2>2
<1> QED BY <1>3, <1>4, <1>5 DEF Quiet, u

\* The app's FIN is counted at once when nothing is queued.
LEMMA TakeFinAccounted ==
  ASSUME NEW t \in Session, NEW ok \in BOOLEAN, Accounted(t), FinCounted(t),
         t.state \in {"ESTABLISHED", "FIN_WAIT1"}
  PROVE  LET u == TakeFin(t, ok) IN
         /\ Accounted(u) /\ FinCounted(u)
         /\ u.unreported = t.unreported
         /\ u.state = "CLOSE" => t.state = "FIN_WAIT1"
<1> DEFINE r       == Wrap(t.remote_seq + 1)
           x       == t.finIn + 1
           counted == [t EXCEPT !.remote_seq = r, !.finIn = x]
           next    == IF t.state = "ESTABLISHED" THEN "CLOSE_WAIT" ELSE "CLOSE"
           u       == TakeFin(t, ok)
<1>1. x = 1
  BY DEF FinCounted
<1>2. CASE t.state = "ESTABLISHED" /\ t.forward # << >>
  <2>1. u = [t EXCEPT !.state = "CLOSE_WAIT"]
    BY <1>2 DEF TakeFin
  <2> HIDE DEF u
  <2> QED BY <1>2, <2>1 DEF Session, Accounted, FinCounted, Finished, Accepted, u
<1>3. CASE ~(t.state = "ESTABLISHED" /\ t.forward # << >>)
  <2>1. t.forward = << >>
    BY <1>3 DEF FinCounted
  <2>2. u = [WriteAck(counted, ok) EXCEPT !.state = IF ok THEN next ELSE @]
    BY <1>3 DEF TakeFin
  <2>3. u = [counted EXCEPT !.state = IF ok THEN next ELSE "CLOSING"]
    BY <2>2 DEF WriteAck, Session
  <2> HIDE DEF u, x, r
  <2> QED BY <1>1, <2>1, <2>3 DEF Session, Accounted, FinCounted, Finished, Accepted, u
<1> QED BY <1>2, <1>3

-----------------------------------------------------------------------------
\* What the event says of the connection attempt: only here is the server
\* reached.
LEMMA ConnectedAccounted ==
  ASSUME NEW t \in Session, NEW u \in Connected(t), Accounted(t), FinCounted(t),
         t.state = "LISTEN"
  PROVE  /\ FinCounted(u) /\ u.unreported = t.unreported
         /\ \/ Accounted(u) /\ u.socks5 # "CONNECTED"
            \/ /\ u.state = "LISTEN" /\ u.reached /\ u.socks5 = "CONNECTED" /\ u.synIn = 0
               /\ ~u.lateOut /\ ~u.lost /\ ~u.finOut
<1>1. t.socks5 # "CONNECTED" /\ t.synIn = 0 /\ ~t.lateOut /\ ~t.lost /\ ~t.finOut
  BY DEF Accounted, Finished
<1> DEFINE moved(v) == [t EXCEPT !.socks5 = v]
<1>2. \A v \in Socks5 : v # "CONNECTED" =>
        /\ moved(v) \in Session /\ Accounted(moved(v)) /\ FinCounted(moved(v))
        /\ moved(v).unreported = t.unreported /\ moved(v).socks5 = v
        /\ moved(v).state = "LISTEN"
  BY DEF Session, Accounted, FinCounted, Finished, Accepted
<1>3. \A c \in Session : Accounted(c) /\ FinCounted(c) /\ c.state = "LISTEN" =>
        /\ Accounted(WriteRst(c)) /\ FinCounted(WriteRst(c))
        /\ WriteRst(c).unreported = c.unreported /\ WriteRst(c).socks5 = c.socks5
  <2> SUFFICES ASSUME NEW c \in Session, Accounted(c), FinCounted(c), c.state = "LISTEN"
               PROVE  /\ Accounted(WriteRst(c)) /\ FinCounted(WriteRst(c))
                      /\ WriteRst(c).unreported = c.unreported
                      /\ WriteRst(c).socks5 = c.socks5
    OBVIOUS
  <2>1. Quiet(c, WriteRst(c))
    BY WriteRstQuiet
  <2>2. WriteRst(c).socks5 = c.socks5
    BY DEF WriteRst, Session
  <2> QED BY <2>1, <2>2, QuietKeeps DEF Quiet
<1>4. "NONE" \in Socks5 /\ "HELLO" \in Socks5 /\ "AUTH" \in Socks5 /\ "CONNECT" \in Socks5
  BY DEF Socks5
<1> DEFINE conn == [t EXCEPT !.socks5 = "CONNECTED", !.reached = TRUE]
<1>5. u \in {t, [t EXCEPT !.socks5 = "HELLO", !.reached = FALSE], conn,
             WriteRst(t), [t EXCEPT !.socks5 = "CONNECT"], [t EXCEPT !.socks5 = "AUTH"],
             WriteRst([t EXCEPT !.socks5 = "NONE"])}
  <2> DEFINE w == [t EXCEPT !.socks5 = IF UseSocks5 THEN "HELLO" ELSE "CONNECTED",
                            !.reached = ~UseSocks5]
  <2>1. u \in {t, w} \/ \E r \in {"accept", "userpass", "deny", "error"} : u = Socks5Reply(t, r)
    BY DEF Connected
  <2>2. w \in {[t EXCEPT !.socks5 = "HELLO", !.reached = FALSE], conn}
    <3>1. CASE UseSocks5
      BY <3>1
    <3>2. CASE ~UseSocks5
      BY <3>2
    <3> QED BY <3>1, <3>2
  <2>3. \A r : Socks5Reply(t, r) \in {WriteRst(t), [t EXCEPT !.socks5 = "CONNECT"],
          [t EXCEPT !.socks5 = "AUTH"], conn, WriteRst([t EXCEPT !.socks5 = "NONE"])}
    BY DEF Socks5Reply
  <2> HIDE DEF w, conn
  <2> QED BY <2>1, <2>2, <2>3
<1>6. CASE u = conn
  BY <1>1, <1>6 DEF Session, FinCounted
<1>7. CASE u = [t EXCEPT !.socks5 = "HELLO", !.reached = FALSE]
  BY <1>1, <1>7 DEF Session, Accounted, FinCounted, Finished, Accepted
<1>8. CASE u \in {t, WriteRst(t)}
  BY <1>1, <1>3, <1>8
<1>9. CASE u = WriteRst(moved("NONE"))
  <2> HIDE DEF moved
  <2> QED BY <1>2, <1>3, <1>4, <1>9
<1>10. CASE u \in {moved("CONNECT"), moved("AUTH")}
  <2> HIDE DEF moved
  <2> QED BY <1>2, <1>4, <1>10
<1> HIDE DEF conn
<1> QED BY <1>5, <1>6, <1>7, <1>8, <1>9, <1>10

\* The app sees its connection accepted only then.
LEMMA RequestedAccounted ==
  ASSUME NEW t \in Session, NEW u \in Requested(t), FinCounted(t), t.state \in {"LISTEN", "CLOSING"},
         \/ Accounted(t) /\ t.socks5 # "CONNECTED"
         \/ /\ t.state = "LISTEN" /\ t.reached /\ t.socks5 = "CONNECTED" /\ t.synIn = 0
            /\ ~t.lateOut /\ ~t.lost /\ ~t.finOut
  PROVE  Accounted(u) /\ FinCounted(u) /\ u.unreported = t.unreported
<1>1. CASE t.socks5 # "CONNECTED"
  <2>1. u \in {t, WriteRst(t)} /\ Accounted(t)
    BY <1>1 DEF Requested
  <2>2. Quiet(t, WriteRst(t))
    BY <2>1, WriteRstQuiet
  <2> QED BY <2>1, <2>2, QuietKeeps DEF Quiet
<1>2. CASE t.socks5 = "CONNECTED"
  <2> DEFINE r   == Wrap(t.remote_seq + 1)
             x   == t.synIn + 1
             l   == Wrap(t.local_seq + 1)
             syn == [t EXCEPT !.remote_seq = r, !.synIn = x]
  <2>1. u \in {[WriteStream(syn, TRUE, 1) EXCEPT !.fresh = TRUE, !.state = "SYN_RECV"],
               WriteStream(syn, FALSE, 1)}
    BY <1>2 DEF Requested
  <2>2. x = 1 /\ t.state = "LISTEN" /\ t.reached /\ ~t.lateOut /\ ~t.lost /\ ~t.finOut
    BY <1>2
  <2>3. WriteStream(syn, FALSE, 1) = [syn EXCEPT !.state = "CLOSING"]
    BY DEF WriteStream, WriteAck
  <2> HIDE DEF r, x
  <2>4. syn.local_seq = t.local_seq /\ ~syn.lateOut /\ ~syn.finOut /\ syn.state \notin Finished
    BY <2>2 DEF Session, Finished
  <2>5. WriteStream(syn, TRUE, 1) = [syn EXCEPT !.local_seq = l, !.lateOut = FALSE]
    <3>1. (syn.lateOut \/ syn.finOut \/ syn.state \in Finished) = FALSE
      BY <2>4
    <3> QED BY <2>4, <3>1 DEF WriteStream
  <2> HIDE DEF l
  <2>6. CASE u = [syn EXCEPT !.state = "CLOSING"]
    BY <1>2, <2>2, <2>6 DEF Session, Accounted, FinCounted, Finished, Accepted
  <2>7. CASE u = [[syn EXCEPT !.local_seq = l, !.lateOut = FALSE]
                    EXCEPT !.fresh = TRUE, !.state = "SYN_RECV"]
    <3> DEFINE y == [syn EXCEPT !.local_seq = l, !.lateOut = FALSE]
    <3>1. /\ y.reached /\ y.socks5 = "CONNECTED" /\ y.synIn = 1 /\ ~y.lateOut /\ ~y.lost
          /\ ~y.finOut /\ y.finIn = t.finIn /\ y.unreported = t.unreported
      BY <1>2, <2>2 DEF Session
    <3>2. u = [y EXCEPT !.fresh = TRUE, !.state = "SYN_RECV"] /\ y.forward = t.forward
      BY <2>7 DEF Session
    <3>3. DOMAIN y = DOMAIN t /\ y = [f \in DOMAIN y |-> y[f]]
      OBVIOUS
    <3>4. t.finIn = 0
      BY <2>2 DEF FinCounted
    <3> HIDE DEF y
    <3>5. /\ u.reached /\ u.socks5 = "CONNECTED" /\ u.synIn = 1 /\ ~u.lateOut /\ ~u.lost
          /\ ~u.finOut /\ u.finIn = 0 /\ u.unreported = t.unreported
          /\ u.state = "SYN_RECV"
      BY <3>1, <3>2, <3>3, <3>4 DEF Session
    <3> QED BY <3>5 DEF Accounted, FinCounted, Accepted
  <2> QED BY <2>1, <2>3, <2>5, <2>6, <2>7
<1> QED BY <1>1, <1>2

-----------------------------------------------------------------------------
\* u is t after forwarding: only the stream has moved, unless it was aborted.
Sends(t, u) ==
  /\ u.lateOut = t.lateOut /\ u.lost = t.lost /\ u.finOut = t.finOut
  /\ u.finIn = t.finIn /\ u.synIn = t.synIn
  /\ u.socks5 = t.socks5 /\ u.reached = t.reached /\ u.open = t.open
  /\ u.unreported \in {t.unreported, TRUE}
  /\ u.state \in {t.state, "CLOSING"}
  /\ t.forward = << >> => u.forward = << >>

\* Forwarding to the server.
LEMMA ForwardedSends ==
  ASSUME NEW t \in Session, NEW room \in Nat, NEW u \in Forwarded(t, room), Accounted(t),
         t.state \notin {"none", "LISTEN"}
  PROVE  Sends(t, u) /\ Accounted(u)
<1>1. ASSUME NEW k \in 0 .. Len(t.forward), NEW n \in Nat, n > 0 => k < Len(t.forward)
      PROVE  Sent(t, k, n) \in Session /\ Sends(t, Sent(t, k, n)) /\ Sent(t, k, n).state = t.state
  <2> DEFINE v == Sent(t, k, n)
  <2>1. /\ v.state = t.state /\ v.open = t.open
        /\ v.lateOut = t.lateOut /\ v.lost = t.lost /\ v.finOut = t.finOut
        /\ v.finIn = t.finIn /\ v.synIn = t.synIn
        /\ v.socks5 = t.socks5 /\ v.reached = t.reached
        /\ v.unreported = (t.unreported \/ k > 0 \/ n > 0)
        /\ v.forward = LET rest == SubSeq(t.forward, k + 1, Len(t.forward))
                       IN  IF n = 0 THEN rest ELSE [rest EXCEPT ![1].sent = @ + n]
    <3> DEFINE rest == SubSeq(t.forward, k + 1, Len(t.forward))
               part == IF n = 0 THEN {} ELSE Bytes(t.forward[k + 1], t.forward[k + 1].sent,
                                                   t.forward[k + 1].sent + n)
               new == part \union UNION {Bytes(t.forward[i], t.forward[i].sent, t.forward[i].len)
                                         : i \in 1 .. k}
               r == IF k = 0 THEN t.remote_seq ELSE Wrap(t.forward[k].seq + t.forward[k].len)
               f == IF n = 0 THEN rest ELSE [rest EXCEPT ![1].sent = @ + n]
               g == t.given \union new
               w == t.twice \/ t.given \intersect new # {}
               m == t.unreported \/ k > 0 \/ n > 0
    <3>1. v = [t EXCEPT !.remote_seq = r, !.forward = f, !.given = g, !.twice = w,
                        !.unreported = m]
      BY DEF Sent
    <3> HIDE DEF v, r, f, g, w, m
    <3>2. /\ v.state = t.state /\ v.open = t.open
          /\ v.lateOut = t.lateOut /\ v.lost = t.lost /\ v.finOut = t.finOut
          /\ v.finIn = t.finIn /\ v.synIn = t.synIn
          /\ v.socks5 = t.socks5 /\ v.reached = t.reached
          /\ v.unreported = m /\ v.forward = f
      BY <3>1 DEF Session
    <3> QED BY <3>2 DEF m, f
  <2>2. v \in Session
    BY <1>1, SentKeeps
  <2>3. v.unreported \in {t.unreported, TRUE}
    <3>1. t.unreported => v.unreported
      BY <2>1
    <3>2. v.unreported \in BOOLEAN /\ t.unreported \in BOOLEAN
      <4> HIDE DEF v
      <4> QED BY <2>2 DEF Session
    <3> QED BY <3>1, <3>2, Zenon
  <2>4. t.forward = << >> => v.forward = << >>
    <3> SUFFICES ASSUME t.forward = << >> PROVE v.forward = << >>
      OBVIOUS
    <3>1. k = 0 /\ n = 0
      BY <1>1
    <3>2. SubSeq(t.forward, 1, 0) = << >>
      OBVIOUS
    <3> QED BY <2>1, <3>1, <3>2
  <2> HIDE DEF v
  <2> QED BY <2>1, <2>2, <2>3, <2>4 DEF Sends, v
<1>2. \A v \in Session : Sends(t, v) => Accounted(v)
  BY DEF Sends, Accounted, Finished, Accepted
<1>3. PICK k \in 0 .. Len(t.forward) :
        \/ u = Sent(t, k, 0)
        \/ Sendable(t, room, k + 1) /\ u = WriteRst(Sent(t, k, 0))
        \/ /\ Sendable(t, room, k + 1)
           /\ \E n \in 1 .. Unsent(t.forward[k + 1]) - 1 : u = Sent(t, k, n)
  BY DEF Forwarded
<1>4. Sent(t, k, 0) \in Session /\ Sends(t, Sent(t, k, 0)) /\ Sent(t, k, 0).state = t.state
  BY <1>1
<1>5. CASE u = Sent(t, k, 0)
  BY <1>2, <1>4, <1>5
<1>6. CASE u = WriteRst(Sent(t, k, 0))
  <2> DEFINE v == Sent(t, k, 0)
  <2>1. v \in Session /\ Sends(t, v) /\ v.state = t.state /\ Accounted(v)
    BY <1>2, <1>4
  <2> HIDE DEF v
  <2>2. Quiet(v, WriteRst(v)) /\ Keeps(v, WriteRst(v)) /\ WriteRst(v) \in Session
    BY <2>1, WriteRstQuiet, WriteRstKeeps
  <2>3. WriteRst(v).socks5 = v.socks5 /\ WriteRst(v).reached = v.reached
    BY <2>1 DEF WriteRst, Session
  <2>4. Sends(t, WriteRst(v))
    BY <2>1, <2>2, <2>3 DEF Sends, Quiet, Keeps
  <2> QED BY <1>2, <1>6, <2>2, <2>4 DEF v
<1>7. CASE /\ Sendable(t, room, k + 1)
           /\ \E n \in 1 .. Unsent(t.forward[k + 1]) - 1 : u = Sent(t, k, n)
  <2>1. k < Len(t.forward)
    <3>1. k + 1 \in DOMAIN t.forward /\ t.forward \in Seq(Segment)
      BY <1>7 DEF Sendable, Session
    <3> QED BY <3>1, LenProperties
  <2>2. PICK n \in 1 .. Unsent(t.forward[k + 1]) - 1 : u = Sent(t, k, n)
    BY <1>7
  <2>3. n \in Nat
    BY <2>2
  <2> QED BY <1>1, <1>2, <2>1, <2>2, <2>3
<1> QED BY <1>3, <1>5, <1>6, <1>7

\* The FIN of the app is counted in the event that forwards the last byte.
LEMMA AcknowledgedAccounted ==
  ASSUME NEW r \in Session, NEW t \in Session, Sends(r, t), FinCounted(r), Accounted(t),
         r.state \notin {"none", "LISTEN"},
         NEW room \in Nat, NEW u \in Acknowledged(t, t.forward # r.forward, room)
  PROVE  /\ Accounted(u) /\ FinCounted(u)
         /\ u.unreported = t.unreported /\ u.open = t.open
         /\ u.state \in {t.state, "CLOSING"}
<1> DEFINE fwd  == t.forward # r.forward
           open == ToForward(t.forward) < room
           o    == [t EXCEPT !.window_open = open]
           v    == ConfirmFin(o, fwd)
           y    == [v EXCEPT !.fresh = TRUE]
           n    == WriteAck(v, FALSE)
<1>1. /\ o \in Session /\ o.state = t.state /\ o.open = t.open /\ o.unreported = t.unreported
      /\ o.finIn = t.finIn /\ o.forward = t.forward /\ Accounted(o)
  <2>1. open \in BOOLEAN
    OBVIOUS
  <2> HIDE DEF open
  <2> QED BY <2>1, SMTT(30) DEF Session, Accounted
<1>2. u \in {y, n} \/ (u = o /\ ~fwd)
  BY DEF Acknowledged, o, v
<1> HIDE DEF o
<1>3. /\ v \in Session /\ v.state = o.state /\ v.open = o.open /\ v.unreported = o.unreported
      /\ v.forward = o.forward /\ Accounted(v)
      /\ v.finIn = IF fwd /\ o.forward = << >> /\ o.state = "CLOSE_WAIT" THEN o.finIn + 1
                   ELSE o.finIn
  <2> DEFINE w == Wrap(o.remote_seq + 1)
             x == o.finIn + 1
  <2>1. v = IF fwd /\ o.forward = << >> /\ o.state = "CLOSE_WAIT"
            THEN [o EXCEPT !.remote_seq = w, !.finIn = x] ELSE o
    BY DEF ConfirmFin
  <2>2. w \in Word /\ x \in Nat
    <3>1. o.remote_seq \in Word /\ o.finIn \in Nat
      BY <1>1 DEF Session
    <3> QED BY <3>1, WrapOfSum
  <2> HIDE DEF v, w, fwd
  <2>3. [o EXCEPT !.remote_seq = w, !.finIn = x] \in Session
    BY <1>1, <2>2 DEF Session
  <2>4. CASE v = o
    <3>1. v.finIn = o.finIn
      BY <2>4
    <3> QED BY <1>1, <2>1, <2>4, <3>1 DEF x, Session
  <2>5. CASE v # o
    BY <1>1, <2>1, <2>2, <2>3, <2>5, SMTT(30) DEF Session, Accounted, x
  <2> QED BY <2>4, <2>5
<1> HIDE DEF v
<1>4. FinCounted(v)
  <2>1. /\ v.state \in {r.state, "CLOSING"} /\ v.forward = t.forward
        /\ r.forward = << >> => t.forward = << >>
        /\ v.finIn = IF fwd /\ v.forward = << >> /\ v.state = "CLOSE_WAIT" THEN r.finIn + 1
                     ELSE r.finIn
    BY <1>1, <1>3 DEF Sends
  <2>2. CASE fwd
    <3>1. r.forward # << >> /\ r.finIn = 0
      BY <2>1, <2>2 DEF FinCounted
    <3> HIDE DEF fwd
    <3> QED BY <2>1, <2>2, <3>1 DEF FinCounted
  <2>3. CASE ~fwd
    BY <2>1, <2>3 DEF FinCounted
  <2> QED BY <2>2, <2>3
<1>5. ~fwd => FinCounted(o)
  BY <1>1 DEF FinCounted, Sends
<1>6. /\ Accounted(y) /\ FinCounted(y) /\ y.state = v.state /\ y.open = v.open
      /\ y.unreported = v.unreported
  BY <1>3, <1>4, SMTT(30) DEF Session, Accounted, FinCounted
<1>7. /\ Accounted(n) /\ FinCounted(n) /\ n.state \in {v.state, "CLOSING"} /\ n.open = v.open
      /\ n.unreported = v.unreported
  <2>1. v.state # "none"
    BY <1>1, <1>3 DEF Sends
  <2>2. Quiet(v, n) /\ Keeps(v, n)
    BY <1>3, <2>1, WriteAckQuiet, WriteAckKeeps
  <2> HIDE DEF n
  <2> QED BY <1>3, <1>4, <2>2, QuietKeeps DEF Quiet, Keeps
<1> HIDE DEF y, n, fwd
<1> QED BY <1>1, <1>2, <1>3, <1>5, <1>6, <1>7

-----------------------------------------------------------------------------
\* A segment written by a session that is running is not late.
LEMMA WriteStreamAccounted ==
  ASSUME NEW t \in Session, NEW ok \in BOOLEAN, NEW n \in Nat, Accounted(t), FinCounted(t),
         t.state \in Streaming
  PROVE  LET u == WriteStream(t, ok, n) IN
         /\ u \in Session /\ Accounted(u) /\ FinCounted(u)
         /\ u.unreported = t.unreported /\ ~u.finOut
         /\ u.state = IF ok THEN t.state ELSE "CLOSING"
         /\ u.open = t.open /\ u.forward = t.forward /\ u.finIn = t.finIn
<1> DEFINE w == Wrap(t.local_seq + n)
           u == WriteStream(t, ok, n)
<1>1. ~t.lateOut /\ ~t.finOut /\ t.state \notin Finished
  BY DEF Accounted, Streaming, Finished
<1>2. u \in Session
  BY WriteStreamKeeps
<1>3. CASE ok
  <2>1. (t.lateOut \/ t.finOut \/ t.state \in Finished) = FALSE
    BY <1>1
  <2>2. u = [t EXCEPT !.local_seq = w, !.lateOut = FALSE]
    BY <1>3, <2>1 DEF WriteStream
  <2> HIDE DEF u, w
  <2>3. /\ u.state = t.state /\ u.open = t.open /\ u.unreported = t.unreported
        /\ u.forward = t.forward /\ u.finIn = t.finIn /\ u.finOut = t.finOut
        /\ ~u.lateOut /\ u.lost = t.lost /\ u.synIn = t.synIn
        /\ u.socks5 = t.socks5 /\ u.reached = t.reached
    BY <2>2 DEF Session
  <2>4. Accounted(u) /\ FinCounted(u)
    BY <1>1, <2>3 DEF Accounted, FinCounted
  <2> QED BY <1>1, <1>2, <1>3, <2>3, <2>4 DEF u
<1>4. CASE ~ok
  <2>1. u = [t EXCEPT !.state = "CLOSING"]
    BY <1>4 DEF WriteStream, WriteAck
  <2> HIDE DEF u
  <2>2. /\ u.state = "CLOSING" /\ u.open = t.open /\ u.unreported = t.unreported
        /\ u.forward = t.forward /\ u.finIn = t.finIn /\ u.finOut = t.finOut
        /\ u.lateOut = t.lateOut /\ u.lost = t.lost /\ u.synIn = t.synIn
    BY <2>1 DEF Session
  <2>3. Accounted(u) /\ FinCounted(u)
    BY <1>1, <2>2 DEF Accounted, FinCounted, Finished, Accepted
  <2> QED BY <1>1, <1>2, <1>4, <2>2, <2>3 DEF u
<1> QED BY <1>3, <1>4

\* The FIN of the engine is its last segment.
LEMMA TakeEofAccounted ==
  ASSUME NEW t \in Session, NEW ok \in BOOLEAN, Accounted(t), FinCounted(t),
         t.state \in Streaming
  PROVE  LET u == TakeEof(t, ok) IN
         /\ Accounted(u) /\ FinCounted(u)
         /\ u.unreported = t.unreported /\ ~u.open
         /\ u.state \in {"FIN_WAIT1", "LAST_ACK", "CLOSING"}
<1> DEFINE y    == WriteStream(t, ok, 1)
           o    == y.finOut \/ ok
           fin  == [y EXCEPT !.finOut = o]
           st   == CASE fin.state = "ESTABLISHED" -> "FIN_WAIT1"
                     [] fin.state = "CLOSE_WAIT"  -> "LAST_ACK"
                     [] OTHER                     -> fin.state
           shut == [fin EXCEPT !.state = st]
           done == IF t.forward # << >> THEN WriteRst(t) ELSE shut
           u    == [done EXCEPT !.open = FALSE, !.polled = FALSE]
<1>1. TakeEof(t, ok) = u
  BY DEF TakeEof
<1>2. /\ y \in Session /\ Accounted(y) /\ FinCounted(y)
      /\ y.unreported = t.unreported /\ ~y.finOut
      /\ y.state = IF ok THEN t.state ELSE "CLOSING"
      /\ y.forward = t.forward /\ y.finIn = t.finIn
  BY WriteStreamAccounted
<1> HIDE DEF y
<1>3. o \in BOOLEAN /\ (o <=> ok)
  BY <1>2 DEF Session
<1> HIDE DEF o
<1>4. /\ fin \in Session /\ fin.state = y.state /\ fin.finOut = o
  BY <1>2, <1>3 DEF Session
<1>5. /\ fin.lateOut = y.lateOut /\ fin.lost = y.lost /\ fin.unreported = y.unreported
      /\ fin.socks5 = y.socks5 /\ fin.reached = y.reached /\ fin.synIn = y.synIn
      /\ fin.finIn = y.finIn /\ fin.forward = y.forward
  BY <1>2 DEF Session
<1> HIDE DEF fin
<1>6. /\ st \in {"FIN_WAIT1", "LAST_ACK", "CLOSING"}
      /\ st = "FIN_WAIT1" => ok /\ t.state = "ESTABLISHED"
      /\ st = "LAST_ACK" => ok /\ t.state = "CLOSE_WAIT"
      /\ st = "CLOSING" => ~ok
  BY <1>2, <1>4 DEF Streaming
<1> HIDE DEF st
<1>7. /\ shut \in Session /\ shut.state = st
      /\ shut.finOut = o /\ shut.lateOut = y.lateOut /\ shut.lost = y.lost
      /\ shut.unreported = y.unreported
      /\ shut.socks5 = y.socks5 /\ shut.reached = y.reached /\ shut.synIn = y.synIn
      /\ shut.finIn = y.finIn /\ shut.forward = y.forward
  BY <1>4, <1>5, <1>6 DEF Session, State
<1> HIDE DEF shut
<1>8. t.forward = << >> => Accounted(shut) /\ FinCounted(shut)
  BY <1>2, <1>3, <1>6, <1>7 DEF Accounted, FinCounted, Finished, Accepted, Streaming
<1>9. /\ WriteRst(t) \in Session /\ WriteRst(t).state = "CLOSING"
      /\ Accounted(WriteRst(t)) /\ FinCounted(WriteRst(t))
      /\ WriteRst(t).unreported = t.unreported
  <2>1. Quiet(t, WriteRst(t)) /\ t.state # "CLOSE"
    BY WriteRstQuiet DEF Streaming
  <2> QED BY <2>1, WriteRstKeeps, QuietKeeps DEF Quiet
<1>10. /\ done \in Session /\ done.state \in {"FIN_WAIT1", "LAST_ACK", "CLOSING"}
       /\ Accounted(done) /\ FinCounted(done) /\ done.unreported = t.unreported
  BY <1>2, <1>6, <1>7, <1>8, <1>9
<1> HIDE DEF done
<1>11. /\ Accounted(u) /\ FinCounted(u) /\ u.unreported = t.unreported /\ ~u.open
       /\ u.state = done.state
  BY <1>10 DEF Session, Accounted, FinCounted
<1> HIDE DEF u
<1> QED BY <1>1, <1>10, <1>11

\* Data of the server is usage to report.
LEMMA TakeDataAccounted ==
  ASSUME NEW t \in Session, NEW ok \in BOOLEAN, NEW n \in Nat, Accounted(t), FinCounted(t),
         t.state \in Streaming
  PROVE  LET u == TakeData(t, n, ok) IN
         /\ Accounted(u) /\ FinCounted(u)
         /\ u.unreported = TRUE /\ u.open = t.open /\ u.state \in {t.state, "CLOSING"}
<1> DEFINE x   == t.received + n
           got == [t EXCEPT !.unreported = TRUE, !.received = x]
           y   == WriteStream(got, ok, n)
           c   == IF ok THEN y.unconfirmed + 1 ELSE y.unconfirmed
           u   == [y EXCEPT !.unconfirmed = c]
<1>1. /\ got \in Session /\ Accounted(got) /\ FinCounted(got) /\ got.unreported = TRUE
      /\ got.state = t.state /\ got.open = t.open
  <2>1. x \in Nat
    BY DEF Session
  <2>2. t.state # "none"
    BY DEF Streaming
  <2> HIDE DEF x
  <2> QED BY <2>1, <2>2, ZenonT(60) DEF Session, Accounted, FinCounted
<1>2. TakeData(t, n, ok) = u
  BY DEF TakeData
<1> HIDE DEF got
<1>3. /\ y \in Session /\ Accounted(y) /\ FinCounted(y) /\ y.unreported = TRUE
      /\ y.state \in {t.state, "CLOSING"} /\ y.open = t.open
  BY <1>1, WriteStreamAccounted
<1> HIDE DEF y, c
<1>4. /\ Accounted(u) /\ FinCounted(u) /\ u.unreported = TRUE /\ u.state = y.state
      /\ u.open = y.open
  BY <1>3 DEF Session, Accounted, FinCounted
<1> HIDE DEF u
<1> QED BY <1>2, <1>3, <1>4

\* Reading from the server.
LEMMA ReadAccounted ==
  ASSUME NEW t \in Session, Accounted(t), FinCounted(t),
         t.state \notin {"none", "CLOSE"}, NEW u \in Read(t)
  PROVE  /\ Accounted(u) /\ FinCounted(u)
         /\ u.unreported \in {t.unreported, TRUE} /\ u.open \in {t.open, FALSE}
         /\ u.state \in {t.state, "FIN_WAIT1", "LAST_ACK", "CLOSING"}
<1> DEFINE f == Refreshed(t)
<1>1. f \in Session /\ Quiet(t, f) /\ f.state = t.state /\ f.open = t.open
      /\ f.unreported = t.unreported
  BY DEF Session, Quiet, Refreshed
<1>2. \/ u = t
      \/ u \in {f, WriteRst(f)}
      \/ Readable(t) /\ \E ok \in BOOLEAN : u = TakeEof(f, ok)
      \/ Readable(t) /\ \E ok \in BOOLEAN, n \in Nat : u = TakeData(f, n, ok)
  BY ReadOutcomes, SendRoomType
<1> HIDE DEF f
<1>3. Accounted(f) /\ FinCounted(f)
  BY <1>1, QuietKeeps
<1>4. CASE u = t \/ u = f
  BY <1>1, <1>3, <1>4
<1>5. CASE u = WriteRst(f)
  <2>1. Quiet(f, u) /\ Keeps(f, u)
    BY <1>1, <1>3, <1>5, WriteRstQuiet, WriteRstKeeps
  <2> QED BY <1>1, <1>3, <2>1, QuietKeeps DEF Quiet, Keeps
<1>6. CASE Readable(t) /\ \E ok \in BOOLEAN : u = TakeEof(f, ok)
  <2>1. f.state \in Streaming
    BY <1>1, <1>6 DEF Readable
  <2>2. PICK ok \in BOOLEAN : u = TakeEof(f, ok)
    BY <1>6
  <2>3. /\ Accounted(u) /\ FinCounted(u) /\ u.unreported = f.unreported /\ ~u.open
        /\ u.state \in {"FIN_WAIT1", "LAST_ACK", "CLOSING"}
    BY <1>1, <1>3, <2>1, <2>2, TakeEofAccounted
  <2>4. u.open \in BOOLEAN
    <3>1. u \in Session
      BY <1>1, <2>1, <2>2, TakeEofAgrees
    <3> QED BY <3>1 DEF Session
  <2> QED BY <1>1, <2>3, <2>4
<1>7. CASE Readable(t) /\ \E ok \in BOOLEAN, n \in Nat : u = TakeData(f, n, ok)
  <2>1. f.state \in Streaming
    BY <1>1, <1>7 DEF Readable
  <2>2. PICK ok \in BOOLEAN, n \in Nat : u = TakeData(f, n, ok)
    BY <1>7
  <2>3. /\ Accounted(u) /\ FinCounted(u) /\ u.unreported = TRUE /\ u.open = f.open
        /\ u.state \in {f.state, "CLOSING"}
    BY <1>1, <1>3, <2>1, <2>2, TakeDataAccounted
  <2> QED BY <1>1, <2>3
<1> QED BY <1>2, <1>4, <1>5, <1>6, <1>7

-----------------------------------------------------------------------------
\* The history agrees with the state after every step.
HInv == Accounted(s) /\ FinCounted(s)

Running == State \ {"none", "CLOSE"}

\* What a step does to the life of the session: nothing, or it begins, is
\* served, finishes by itself, is closed by the check, is reported after it
\* finished, or is freed.
LifeStep ==
  \/ s'.state = s.state /\ s'.open = s.open /\ s'.unreported = s.unreported
  \/ s.state = "none" /\ s'.state = "LISTEN" /\ s'.open
  \/ /\ s.state \in Running /\ s'.state \in Running
     /\ s'.open \in {s.open, FALSE} /\ s'.unreported \in {s.unreported, TRUE}
  \/ s.state = "FIN_WAIT1" /\ s'.state = "CLOSE" /\ s'.unreported = s.unreported
  \/ s.state \in Running /\ s'.state = "CLOSE" /\ ~s'.unreported /\ ~s'.open
  \/ s.state = "CLOSE" /\ s'.state = "CLOSE" /\ ~s'.unreported /\ s'.open = s.open
  \/ s.state = "CLOSE" /\ s'.state = "none" /\ ~s'.unreported /\ ~s'.open

StepAccounts == HInv' /\ LifeStep

\* A quiet step, of a session that can still be aborted or is left as it is.
LEMMA QuietStep ==
  ASSUME IInv, HInv, Quiet(s, s'), Keeps(s, s'), s.state # "CLOSE" \/ s'.state = s.state
  PROVE  StepAccounts
<1>1. s \in Session /\ Accounted(s) /\ FinCounted(s)
  BY DEF IInv, TypeOK, HInv
<1>2. HInv'
  BY <1>1, QuietKeeps DEF HInv
<1>3. LifeStep
  BY <1>1 DEF LifeStep, Quiet, Keeps, Session, State, Running, Finished
<1> QED BY <1>2, <1>3 DEF StepAccounts

LEMMA MonitorAccounts ==
  ASSUME IInv, HInv, MonitorTcpSession
  PROVE  StepAccounts
<1>1. s \in Session /\ SocketAgrees(s)
  BY SocketMatchesStateIsAgrees DEF IInv, TypeOK
<1>2. Quiet(s, s) /\ Keeps(s, s)
  BY DEF Quiet, Keeps
<1>3. CASE s' = s
  BY <1>2, <1>3, QuietStep
<1>4. CASE s.open /\ s' # s
  <2>1. PICK room \in Rooms, due \in BOOLEAN, ok \in BOOLEAN :
          \E t \in {s, KeepAlive(s, ok)} : s' = SetMask(t, EpollMask(s, room))
    BY <1>4 DEF MonitorTcpSession
  <2>2. PICK t \in {s, KeepAlive(s, ok)} : s' = SetMask(t, EpollMask(s, room))
    BY <2>1
  <2>3. s.state \notin {"none", "CLOSE"}
    BY <1>1, <1>4 DEF SocketAgrees
  <2>4. t \in Session /\ Keeps(s, t) /\ Quiet(s, t) /\ t.state # "none"
    BY <1>1, <1>2, <2>3, KeepAliveKeeps, KeepAliveQuiet DEF Keeps
  <2>5. EpollMask(s, room) \in SUBSET {"IN", "OUT"}
    BY DEF EpollMask
  <2>6. Keeps(t, s') /\ Quiet(t, s')
    BY <2>2, <2>4, <2>5, SetMaskKeeps, SetMaskQuiet
  <2> QED BY <2>3, <2>4, <2>6, KeepsTransitive, QuietTransitive, QuietStep
<1> QED BY <1>3, <1>4 DEF MonitorTcpSession

LEMMA CheckAccounts ==
  ASSUME IInv, HInv, CheckTcpSession
  PROVE  StepAccounts
<1>1. s \in Session /\ SocketAgrees(s) /\ Accounted(s) /\ FinCounted(s)
  BY SocketMatchesStateIsAgrees DEF IInv, TypeOK, HInv
<1>2. CASE s' = s
  BY <1>1, <1>2 DEF StepAccounts, HInv, LifeStep
<1>3. CASE s.state # "none" /\ s' = Cleanup(Checked(s))
  <2>1. /\ Accounted(s') /\ FinCounted(s') /\ s'.state # "CLOSING"
        /\ \/ /\ s'.state = s.state \/ s'.state = "CLOSE"
              /\ s'.open = s.open \/ (s'.state = "CLOSE" /\ ~s'.open)
              /\ s'.unreported = IF s'.state \in Finished THEN FALSE ELSE s.unreported
           \/ s.state = "CLOSE" /\ s'.state = "none" /\ ~s'.unreported /\ ~s'.open
    BY <1>1, <1>3, CheckAccounted
  <2>2. s' \in Session /\ SocketAgrees(s')
    BY <1>1, <1>3, CheckAgrees
  <2>3. /\ s.state \in State /\ s.open \in BOOLEAN /\ s.unreported \in BOOLEAN
        /\ s'.state \in State /\ s'.open \in BOOLEAN /\ s'.unreported \in BOOLEAN
    BY <1>1, <2>2 DEF Session
  <2> SUFFICES LifeStep
    BY <2>1 DEF StepAccounts, HInv
  <2>4. CASE s.state = "CLOSE" /\ s'.state = "none"
    BY <2>1, <2>4 DEF LifeStep
  <2>5. CASE s.state = "CLOSE" /\ s'.state = "CLOSE"
    <3>1. ~s'.unreported /\ ~s'.open /\ ~s.open
      BY <1>1, <2>1, <2>2, <2>5 DEF Finished, SocketAgrees
    <3> QED BY <2>3, <2>5, <3>1 DEF LifeStep
  <2>6. CASE s.state # "CLOSE" /\ s'.state = "CLOSE"
    <3>1. ~s'.unreported /\ ~s'.open /\ s.state \in Running
      BY <1>3, <2>1, <2>2, <2>3, <2>6 DEF Finished, SocketAgrees, Running
    <3> QED BY <2>6, <3>1 DEF LifeStep
  <2>7. CASE s'.state = s.state /\ s'.state # "CLOSE"
    <3>1. s'.open = s.open /\ s'.unreported = s.unreported
      <4>1. s'.state \notin Finished /\ s'.state # "none"
        BY <1>3, <2>1, <2>7 DEF Finished
      <4> QED BY <2>1, <2>7, <4>1, Zenon
    <3> QED BY <2>7, <3>1 DEF LifeStep
  <2> QED BY <2>1, <2>4, <2>5, <2>6, <2>7
<1> QED BY <1>2, <1>3 DEF CheckTcpSession

LEMMA TimeAccounts ==
  ASSUME IInv, HInv, TimePasses
  PROVE  StepAccounts
<1>1. s \in Session
  BY DEF IInv, TypeOK
<1>2. Quiet(s, s') /\ s'.state = s.state
  BY <1>1 DEF TimePasses, Quiet, Session
<1>3. Keeps(s, s')
  BY <1>1 DEF TimePasses, Keeps, Session
<1> QED BY <1>2, <1>3, QuietStep

LEMMA PacketAccounts ==
  ASSUME IInv, HInv, NEW p \in Packets, HandleTcp(p)
  PROVE  StepAccounts
<1>1. /\ s \in Session /\ SocketAgrees(s) /\ p \in Packet /\ s.open \in BOOLEAN
      /\ Accounted(s) /\ FinCounted(s)
  BY SocketMatchesStateIsAgrees, PacketsAssumption DEF IInv, TypeOK, HInv, Session
<1> USE <1>1
<1>2. CASE s' = s
  BY <1>2 DEF StepAccounts, HInv, LifeStep
<1>3. CASE TunSyn(p) /\ s' # s
  <2>1. PICK isn \in LocalISNs, polled \in BOOLEAN, room \in Rooms :
          s.state = "none" /\ s' = NewSession(p, isn, polled, room)
    BY <1>3 DEF TunSyn
  <2>2. isn \in Word /\ room \in Nat
    BY ISNAssumption, RoomsType
  <2>3. SocketAgrees(s') /\ s'.state = "LISTEN"
    BY <2>1, <2>2, NewSessionAgrees
  <2>4. Accounted(s') /\ FinCounted(s')
    BY <2>1, NewSessionAccounted
  <2> QED BY <2>1, <2>3, <2>4 DEF StepAccounts, HInv, LifeStep, SocketAgrees
\* The session is served: the common part of the handlers.
<1>4. ASSUME s.state \in Running, Accounted(s'), FinCounted(s'), s'.state \in Running,
             s'.open = s.open, s'.unreported = s.unreported
      PROVE  StepAccounts
  BY <1>4 DEF StepAccounts, HInv, LifeStep
<1>5. CASE TunFinished(p)
  <2>1. s.state \in Finished /\ s' = WriteRst(s)
    BY <1>5 DEF TunFinished
  <2>2. Quiet(s, s') /\ Keeps(s, s') /\ (s.state = "CLOSE" => s'.state = "CLOSE")
    BY <2>1, WriteRstQuiet, WriteRstKeeps DEF Finished
  <2> QED BY <2>1, <2>2, QuietStep
<1> DEFINE t == Taken(p)
           w == Touched(p)
<1>6. /\ w \in Session /\ w.state = s.state /\ w.open = s.open
      /\ t \in Session /\ t.state = s.state /\ t.open = s.open
  BY TakenKeeps DEF Keeps
<1>7. Live(p) => s.state \in Running
  BY DEF Live, Session, Running, Finished
<1>8. Live(p) => Accounted(w) /\ FinCounted(w) /\ w.unreported = s.unreported
  BY <1>7, TakenAccounted DEF Running
<1>9. Live(p) /\ ~Refuses(p) => Accounted(t) /\ FinCounted(t) /\ t.unreported = s.unreported
  BY <1>7, TakenAccounted DEF Running
<1>10. ASSUME NEW v \in Session, Accounted(v), FinCounted(v), v.unreported = s.unreported,
              v.open = s.open, v.state = s.state, s.state \in Running, s' = WriteRst(v)
       PROVE  StepAccounts
  <2>1. /\ Quiet(v, s') /\ Keeps(v, s') /\ s'.state = "CLOSING"
    BY <1>10, WriteRstQuiet, WriteRstKeeps DEF Running
  <2>2. Accounted(s') /\ FinCounted(s')
    BY <1>10, <2>1, QuietKeeps
  <2> QED BY <1>4, <1>10, <2>1, <2>2 DEF Quiet, Keeps, Running, State
<1>11. CASE TunRefused(p)
  BY <1>6, <1>7, <1>8, <1>10, <1>11 DEF TunRefused
<1>12. CASE TunReset(p)
  <2> DEFINE v == [t EXCEPT !.state = "CLOSING"]
  <2>1. Live(p) /\ ~Refuses(p) /\ s' = v
    BY <1>12 DEF TunReset, TakeReset
  <2> HIDE DEF t
  <2>2. Quiet(t, v) /\ v.open = t.open /\ v.state = "CLOSING"
    BY <1>6, <1>7, <2>1 DEF Quiet, Session, Finished, Running
  <2> HIDE DEF v
  <2>3. Accounted(v) /\ FinCounted(v) /\ v.unreported = t.unreported
    BY <1>9, <2>1, <2>2, QuietKeeps DEF Quiet
  <2> QED BY <1>4, <1>6, <1>7, <1>9, <2>1, <2>2, <2>3 DEF Running, State
<1>13. CASE TunFin(p)
  <2>1. /\ Live(p) /\ ~Refuses(p) /\ s.state \in {"ESTABLISHED", "FIN_WAIT1"}
    BY <1>13 DEF TunFin, TunAccepted
  <2>2. PICK ok \in BOOLEAN : s' = TakeFin(t, ok)
    BY <1>13 DEF TunFin
  <2> HIDE DEF t
  <2>3. /\ Accounted(s') /\ FinCounted(s') /\ s'.unreported = t.unreported
        /\ s'.state = "CLOSE" => t.state = "FIN_WAIT1"
    BY <1>6, <1>9, <2>1, <2>2, TakeFinAccounted
  <2>4. SocketAgrees(t)
    BY <1>6, TakenKeeps, KeepsSocket DEF t
  <2>5. s' \in Session /\ s'.open = t.open /\ s'.state # "none"
    BY <1>6, <2>1, <2>2, <2>4, TakeFinAgrees
  <2>6. CASE s'.state = "CLOSE"
    BY <1>6, <1>9, <2>1, <2>3, <2>6 DEF StepAccounts, HInv, LifeStep
  <2>7. CASE s'.state # "CLOSE"
    <3>1. s'.state \in Running
      BY <2>5, <2>7 DEF Session, Running
    <3> QED BY <1>4, <1>6, <1>7, <1>9, <2>1, <2>3, <2>5, <3>1
  <2> QED BY <2>6, <2>7
<1>14. CASE TunAck(p)
  <2> DEFINE a == p.ack
             st == IF t.state = "SYN_RECV" THEN "ESTABLISHED"
                   ELSE IF t.state = "LAST_ACK" THEN "CLOSING" ELSE t.state
             v == [t EXCEPT !.acked = a, !.state = st]
  <2>1. Live(p) /\ ~Refuses(p) /\ s' = v
    BY <1>14 DEF TunAck, TunAccepted
  <2> HIDE DEF t, a
  <2>2. /\ v.open = t.open /\ v.unreported = t.unreported /\ v.state = st
        /\ v.lateOut = t.lateOut /\ v.lost = t.lost /\ v.finOut = t.finOut
        /\ v.synIn = t.synIn /\ v.finIn = t.finIn /\ v.forward = t.forward
        /\ v.socks5 = t.socks5 /\ v.reached = t.reached
    BY <1>6 DEF Session
  <2>3. Accounted(t) /\ FinCounted(t) /\ t.state \in Running
    BY <1>6, <1>7, <1>9, <2>1
  <2> HIDE DEF v
  <2>4. Accounted(v) /\ FinCounted(v) /\ v.state \in Running
    BY <2>2, <2>3 DEF Accounted, FinCounted, Running, State, Finished, Accepted
  <2> QED BY <1>4, <1>6, <1>7, <1>9, <2>1, <2>2, <2>4
<1>15. CASE TunIgnored(p)
  <2>1. Live(p) /\ ~Refuses(p) /\ s' = t
    BY <1>15 DEF TunIgnored, TunAccepted
  <2> HIDE DEF t
  <2> QED BY <1>4, <1>6, <1>7, <1>9, <2>1
<1>16. CASE TunOldAck(p)
  <2> DEFINE a == IF Compare(p.ack, t.acked) <= 0 THEN t.acked ELSE p.ack
             v == [t EXCEPT !.acked = a]
  <2>1. Live(p) /\ ~Refuses(p) /\ s' = v
    BY <1>16 DEF TunOldAck, TunAccepted
  <2> HIDE DEF t, a
  <2>2. Quiet(t, v) /\ v.open = t.open /\ v.state = t.state
    BY <1>6 DEF Quiet, Session
  <2> HIDE DEF v
  <2>3. Accounted(v) /\ FinCounted(v) /\ v.unreported = t.unreported
    BY <1>9, <2>1, <2>2, QuietKeeps DEF Quiet
  <2> QED BY <1>4, <1>6, <1>7, <1>9, <2>1, <2>2, <2>3
<1>17. CASE TunFutureAck(p)
  <2>1. Live(p) /\ ~Refuses(p) /\ s' = WriteRst(t)
    BY <1>17 DEF TunFutureAck, TunAccepted
  <2> HIDE DEF t
  <2> QED BY <1>6, <1>7, <1>9, <1>10, <2>1
<1>18. CASE TunDropped(p)
  BY <1>2, <1>18 DEF TunDropped
<1> QED BY <1>2, <1>3, <1>5, <1>11, <1>12, <1>13, <1>14, <1>15, <1>16, <1>17, <1>18
        DEF HandleTcp

LEMMA SocketAccounts ==
  ASSUME IInv, HInv, CheckTcpSocket
  PROVE  StepAccounts
<1>1. /\ s \in Session /\ SocketAgrees(s) /\ Accounted(s) /\ FinCounted(s)
  BY SocketMatchesStateIsAgrees DEF IInv, TypeOK, HInv
<1>2. s.open /\ s.state \in Running
  <2>1. s.open
    BY DEF IInv, EventFindsSocket, CheckTcpSocket, SocketError, SocketConnect,
           SocketStream, SocketEvent
  <2> QED BY <1>1, <2>1 DEF SocketAgrees, Session, Running
<1> USE <1>1, <1>2
<1>3. s' \in Session
  BY SocketStep DEF StepAgrees
<1>4. CASE SocketError
  <2> DEFINE u == [s EXCEPT !.fresh = TRUE]
  <2>1. u \in Session /\ Keeps(s, u) /\ Quiet(s, u) /\ u.state = s.state
    BY DEF Session, Keeps, Quiet
  <2>2. s' = WriteRst(u)
    BY <1>4 DEF SocketError
  <2> HIDE DEF u
  <2>3. Keeps(u, s') /\ Quiet(u, s')
    BY <2>1, <2>2, WriteRstKeeps, WriteRstQuiet, QuietKeeps DEF Running
  <2> QED BY <2>1, <2>3, KeepsTransitive, QuietTransitive, QuietStep DEF Running
<1>5. CASE SocketConnect
  <2>1. PICK t \in Connected(s) : s' \in Requested(t)
    BY <1>5 DEF SocketConnect
  <2>2. s.state = "LISTEN"
    BY <1>5 DEF SocketConnect
  <2>3. t \in Session /\ Keeps(s, t) /\ SocketAgrees(t)
    BY ConnectedKeeps, KeepsSocket
  <2>4. t.state \in {"LISTEN", "CLOSING"} /\ t.open
    BY <2>2, <2>3 DEF Keeps
  <2>5. s'.state \in {"LISTEN", "SYN_RECV", "CLOSING"} /\ s'.open
    BY <2>1, <2>3, <2>4, RequestedAgrees
  <2>6. Accounted(s') /\ FinCounted(s') /\ s'.unreported = s.unreported
    BY <2>1, <2>2, <2>3, <2>4, ConnectedAccounted, RequestedAccounted
  <2>7. s'.open = s.open
    BY <1>3, <2>5 DEF Session
  <2> QED BY <2>5, <2>6, <2>7 DEF StepAccounts, HInv, LifeStep, Running, State
<1>6. CASE SocketStream
  <2>1. PICK room \in Rooms, left \in Rooms :
          \E t \in IF "OUT" \in ready THEN Forwarded(s, room) ELSE {s} :
            \E u \in Acknowledged(t, t.forward # s.forward, left) : s' \in Read(u)
    BY <1>6 DEF SocketStream
  <2>2. PICK t \in IF "OUT" \in ready THEN Forwarded(s, room) ELSE {s} :
          \E u \in Acknowledged(t, t.forward # s.forward, left) : s' \in Read(u)
    BY <2>1
  <2>3. PICK u \in Acknowledged(t, t.forward # s.forward, left) : s' \in Read(u)
    BY <2>2
  <2>4. room \in Nat /\ left \in Nat /\ s.state # "LISTEN" /\ s.state # "none"
    BY <1>6, RoomsType DEF SocketStream, Running
  <2>5. t \in Session /\ Sends(s, t) /\ Accounted(t)
    <3>1. CASE "OUT" \in ready
      BY <2>2, <2>4, <3>1, ForwardedKeeps, ForwardedSends
    <3>2. CASE "OUT" \notin ready
      <4>1. t = s
        BY <2>2, <3>2
      <4> QED BY <4>1 DEF Sends
    <3> QED BY <3>1, <3>2
  <2>6. /\ Accounted(u) /\ FinCounted(u) /\ u.unreported = t.unreported /\ u.open = t.open
        /\ u.state \in {t.state, "CLOSING"}
    BY <2>3, <2>4, <2>5, AcknowledgedAccounted
  <2>7. u \in Session
    <3>1. (t.forward # s.forward) \in BOOLEAN
      OBVIOUS
    <3> QED BY <2>3, <2>4, <2>5, <3>1, AcknowledgedKeeps
  <2>8. u.state \in Running
    BY <2>5, <2>6 DEF Sends, Running, State
  <2>9. /\ Accounted(s') /\ FinCounted(s')
        /\ s'.unreported \in {u.unreported, TRUE} /\ s'.open \in {u.open, FALSE}
        /\ s'.state \in {u.state, "FIN_WAIT1", "LAST_ACK", "CLOSING"}
    BY <2>3, <2>6, <2>7, <2>8, ReadAccounted DEF Running
  <2>10. s'.unreported \in {s.unreported, TRUE} /\ s'.open \in {s.open, FALSE}
    BY <2>5, <2>6, <2>9 DEF Sends
  <2> QED BY <2>8, <2>9, <2>10 DEF StepAccounts, HInv, LifeStep, Running, State
<1> QED BY <1>4, <1>5, <1>6 DEF CheckTcpSocket

LEMMA NextAccounts ==
  ASSUME IInv, HInv, [Next]_vars
  PROVE  StepAccounts
<1>1. CASE s' = s
  BY <1>1 DEF StepAccounts, HInv, LifeStep
<1>2. CASE \E p \in Packets : HandleTcp(p)
  BY <1>2, PacketAccounts
<1> QED BY <1>1, <1>2, MonitorAccounts, CheckAccounts, TimeAccounts, SocketAccounts
        DEF Next, Loop, SkipCheck, EpollWait, TunDrained, EndBatch, vars

LEMMA HistoryInvariance == Spec => [](IInv /\ HInv)
<1>1. Init => HInv
  BY DEF Init, HInv, NoSession, Accounted, FinCounted, Finished, Accepted
<1>2. IInv /\ HInv /\ [Next]_vars => HInv'
  BY NextAccounts DEF StepAccounts
<1> QED BY <1>1, <1>2, Invariance, PTL DEF Spec

-----------------------------------------------------------------------------
\* A session is freed with its descriptor closed and its traffic reported,
\* also if it finished by itself between two checks.
THEOREM NothingIsLost == Spec => []NothingLost
<1>1. HInv => NothingLost
  BY DEF HInv, Accounted, NothingLost
<1> QED BY <1>1, HistoryInvariance, PTL

\* The SYN-ACK is written only after the server, and the proxy if there is one,
\* accepted the connection.
THEOREM ServerIsReachedFirst == Spec => []ServerReachedFirst
<1>1. HInv => ServerReachedFirst
  BY DEF HInv, Accounted, Accepted, ServerReachedFirst
<1> QED BY <1>1, HistoryInvariance, PTL

\* Neither data nor a FIN is written after an abort or after the engine's FIN.
THEOREM NothingIsLate == Spec => []NothingAfterEnd
<1>1. HInv => NothingAfterEnd
  BY DEF HInv, Accounted, NothingAfterEnd
<1> QED BY <1>1, HistoryInvariance, PTL

\* The FIN of the app is acknowledged only when its stream has been forwarded.
THEOREM FinIsLast == Spec => []FinComesLast
<1>1. HInv => FinComesLast
  BY DEF HInv, FinCounted, FinComesLast
<1> QED BY <1>1, HistoryInvariance, PTL

\* A TCP session lives as SessionLife promises: it is freed only once it lingers,
\* and neither its descriptor nor a report is lost with it.
THEOREM Refinement == Spec => ImplementsLife
<1>1. Init => Life!Init
  <2> SUFFICES ASSUME Init PROVE Life!Init
    OBVIOUS
  <2>1. s.state = "none" /\ ~s.open /\ ~s.unreported /\ ~s.lost
    BY DEF Init, NoSession
  <2> QED BY <2>1 DEF Life!Init
<1>2. IInv /\ HInv /\ [Next]_vars => [Life!Next]_(Life!vars)
  <2> SUFFICES ASSUME IInv, HInv, [Next]_vars PROVE [Life!Next]_(Life!vars)
    OBVIOUS
  <2>1. /\ s \in Session /\ SocketAgrees(s) /\ ~s.lost
        /\ s' \in Session /\ SocketAgrees(s') /\ Advances(s, s') /\ ~s'.lost
        /\ LifeStep
    BY NextAgrees, NextAccounts, SocketMatchesStateIsAgrees
       DEF StepAgrees, StepAccounts, IInv, TypeOK, HInv, Accounted
  <2>2. /\ s.state \in State /\ s'.state \in State
        /\ s.open \in BOOLEAN /\ s'.open \in BOOLEAN
        /\ s.unreported \in BOOLEAN /\ s'.unreported \in BOOLEAN
    BY <2>1 DEF Session
  <2> DEFINE life == CASE s.lost                -> "lost"
                       [] s.state = "none"      -> "absent"
                       [] s.state = "CLOSING"   -> "ending"
                       [] s.state = "CLOSE"     -> "ended"
                       [] OTHER                 -> "live"
  <2>3. life = IF s.state = "none" THEN "absent" ELSE IF s.state = "CLOSING" THEN "ending"
               ELSE IF s.state = "CLOSE" THEN "ended" ELSE "live"
    BY <2>1
  <2>4. life' = IF s'.state = "none" THEN "absent" ELSE IF s'.state = "CLOSING" THEN "ending"
                ELSE IF s'.state = "CLOSE" THEN "ended" ELSE "live"
    BY <2>1
  <2> HIDE DEF life
  <2>5. CASE s'.state = s.state /\ s'.open = s.open /\ s'.unreported = s.unreported
    BY <2>3, <2>4, <2>5 DEF Life!vars, life
  <2>6. CASE s.state = "none" /\ s'.state = "LISTEN" /\ s'.open
    BY <2>2, <2>3, <2>4, <2>6 DEF Life!Next, Life!Begin, Life!Current, life
  <2>7. CASE /\ s.state \in Running /\ s'.state \in Running
             /\ s'.open \in {s.open, FALSE} /\ s'.unreported \in {s.unreported, TRUE}
    <3>1. s.state # "none" /\ s.state # "CLOSE" /\ s'.state # "none" /\ s'.state # "CLOSE"
      BY <2>7 DEF Running
    <3>2. s.state = "CLOSING" => s'.state = "CLOSING"
      BY <2>1, <2>2, <3>1 DEF Advances, Rank, State
    <3>3. life \in {"live", "ending"} /\ life' \in {life, "ending"}
      BY <2>3, <2>4, <3>1, <3>2
    <3> HIDE DEF LifeStep
    <3> QED BY <2>7, <3>3, Zenon DEF Life!Next, Life!Serve, Life!Current, life
  <2>8. CASE s.state = "FIN_WAIT1" /\ s'.state = "CLOSE" /\ s'.unreported = s.unreported
    <3>1. ~s.open /\ s'.open = s.open
      BY <2>1, <2>2, <2>8 DEF SocketAgrees
    <3> QED BY <2>3, <2>4, <2>8, <3>1 DEF Life!Next, Life!Finish, Life!Current, life
  <2>9. CASE s.state \in Running /\ s'.state = "CLOSE" /\ ~s'.unreported /\ ~s'.open
    BY <2>2, <2>3, <2>4, <2>9 DEF Running, State, Life!Next, Life!Retire, Life!Current, life
  <2>10. CASE s.state = "CLOSE" /\ s'.state = "CLOSE" /\ ~s'.unreported /\ s'.open = s.open
    BY <2>2, <2>3, <2>4, <2>10 DEF Life!Next, Life!Report, life
  <2>11. CASE s.state = "CLOSE" /\ s'.state = "none" /\ ~s'.unreported /\ ~s'.open
    <3>1. ~s.open
      BY <2>1, <2>11 DEF SocketAgrees
    <3> QED BY <2>2, <2>3, <2>4, <2>11, <3>1 DEF Life!Next, Life!Free, life
  <2> QED BY <2>1, <2>5, <2>6, <2>7, <2>8, <2>9, <2>10, <2>11 DEF LifeStep
<1> QED BY <1>1, <1>2, HistoryInvariance, PTL DEF Spec, ImplementsLife, Life!Spec

-----------------------------------------------------------------------------
\* Sequence numbers and the window of the app; SeqArithProofs has these lemmas
\* for MCSeqArith.

\* There are at least four words.
LEMMA ModulusType == Modulus \in Nat \ {0} /\ Modulus = 2 * Half + 2
BY HalfAssumption DEF Modulus

\* Wrapping adds or takes away at most one Modulus if no more is needed.
LEMMA WrapNear ==
  ASSUME NEW n \in Int, 0 - Modulus <= n, n < 2 * Modulus
  PROVE  Wrap(n) = IF n < 0 THEN n + Modulus ELSE IF n < Modulus THEN n ELSE n - Modulus
BY ModulusType, ModNear DEF Wrap

\* The distance between two words.
LEMMA AheadIs ==
  ASSUME NEW x \in Word, NEW y \in Word
  PROVE  Ahead(x, y) = IF x <= y THEN y - x ELSE y - x + Modulus
<1>1. x \in Int /\ y \in Int /\ 0 - Modulus <= y - x /\ y - x < Modulus
  BY ModulusType DEF Word
<1>2. y - x < 2 * Modulus
  BY <1>1, ModulusType
<1> QED BY <1>1, <1>2, WrapNear DEF Ahead

LEMMA AheadType ==
  ASSUME NEW x \in Word, NEW y \in Word
  PROVE  Ahead(x, y) \in Nat /\ Ahead(x, y) < Modulus
<1>1. x \in Int /\ y \in Int /\ 0 <= x /\ x < Modulus /\ 0 <= y /\ y < Modulus
  BY ModulusType DEF Word
<1> QED BY <1>1, AheadIs, ModulusType

\* A word that compare_u32 puts before another is at most Half + 1 behind it.
LEMMA CompareBehind ==
  ASSUME NEW x \in Word, NEW y \in Word, Compare(x, y) < 0
  PROVE  Ahead(x, y) \in 1 .. Half + 1
<1>1. x \in Int /\ y \in Int /\ 0 <= x /\ x < Modulus /\ 0 <= y /\ y < Modulus
  BY ModulusType DEF Word
<1>2. Half \in Nat \ {0}
  BY HalfAssumption
<1> QED BY <1>1, <1>2, AheadIs, ModulusType DEF Compare

\* What get_send_window allows fits the window, as long as its sum of what is
\* in flight and the headers does not wrap.
LEMMA SendWindowFits ==
  ASSUME NEW local \in Word, NEW acked \in Word, NEW unconfirmed \in Nat, NEW window \in Nat,
         Ahead(acked, local) + WrapWindow + (unconfirmed + 1) * Header < Modulus,
         SendWindow(local, acked, unconfirmed, window) > 0
  PROVE  Ahead(acked, local) + SendWindow(local, acked, unconfirmed, window)
           + (unconfirmed + 1) * Header <= window
<1> DEFINE h == (unconfirmed + 1) * Header
           d == Ahead(acked, local)
           inflight == IF acked <= local THEN local - acked
                       ELSE Wrap(WrapWindow + local - acked)
           behind == Wrap(inflight + h)
<1>1. h \in Nat /\ WrapWindow \in Nat
  BY WindowAssumption
<1>2. /\ local \in Int /\ acked \in Int
      /\ 0 <= local /\ local < Modulus /\ 0 <= acked /\ acked < Modulus
  BY ModulusType DEF Word
<1>3. d = (IF acked <= local THEN local - acked ELSE local - acked + Modulus)
  BY AheadIs
<1>4. SendWindow(local, acked, unconfirmed, window)
        = IF behind < window THEN window - behind ELSE 0
  BY DEF SendWindow
<1>5. d + WrapWindow + h < Modulus
  OBVIOUS
<1> HIDE DEF h, d, behind
<1>6. inflight \in Nat /\ d <= inflight /\ inflight + h < Modulus
  <2>1. CASE acked <= local
    BY <1>1, <1>2, <1>3, <1>5, <2>1, ModulusType
  <2>2. CASE acked > local
    <3> DEFINE n == WrapWindow + local - acked
    <3>1. n \in Int /\ n = WrapWindow + d - Modulus /\ n < 0 /\ 0 - Modulus <= n
      BY <1>1, <1>2, <1>3, <1>5, <2>2, ModulusType
    <3>2. inflight = WrapWindow + d
      <4>1. n < 2 * Modulus
        BY <3>1, ModulusType
      <4> HIDE DEF n
      <4>2. Wrap(n) = n + Modulus
        BY <3>1, <4>1, WrapNear
      <4>3. inflight = Wrap(n)
        BY <1>2, <2>2 DEF n
      <4> QED BY <1>1, <1>2, <1>3, <2>2, <3>1, <4>2, <4>3, ModulusType
    <3> QED BY <1>1, <1>2, <1>3, <1>5, <2>2, <3>2, ModulusType
  <2> QED BY <1>2, <2>1, <2>2
<1> HIDE DEF inflight
<1>7. behind = inflight + h
  <2>1. inflight + h \in Int /\ 0 - Modulus <= inflight + h /\ inflight + h < 2 * Modulus
    BY <1>1, <1>6, ModulusType
  <2> QED BY <1>1, <1>6, <2>1, WrapNear DEF behind
<1>8. behind < window
  BY <1>4
<1>9. d + (window - behind) + h <= window
  BY <1>1, <1>2, <1>3, <1>6, <1>7, <1>8, ModulusType
<1> QED BY <1>4, <1>8, <1>9 DEF h, d

-----------------------------------------------------------------------------
\* The window of the app.  Windowed bounds what get_send_window adds up, so that
\* its sum does not wrap: the window by WindowsFitHalf, the headers of what is
\* unconfirmed by the window they were written into, and what is in flight by
\* compare_u32, which lets an old acknowledgement move acked back.
Windowed(t) ==
  /\ t.state # "none" => t.send_window + WrapWindow + Header <= Half
  /\ t.unconfirmed * Header <= t.send_window
  /\ t.state \in Streaming => Ahead(t.acked, t.local_seq) <= Half + 1

\* What u has written fits its window, one segment after t.
Fits(t, u) ==
  u.unconfirmed > t.unconfirmed =>
    Ahead(u.acked, u.local_seq) + u.unconfirmed * Header <= u.send_window

\* u looks at t's window as t does.
WindowKept(t, u) ==
  /\ t.state # "none" /\ u.send_window = t.send_window /\ u.unconfirmed = t.unconfirmed
  /\ u.state \in Streaming =>
       t.state \in Streaming /\ u.acked = t.acked /\ u.local_seq = t.local_seq

LEMMA WindowKeptTransitive ==
  ASSUME NEW t, NEW u, NEW v, WindowKept(t, u), WindowKept(u, v)
  PROVE  WindowKept(t, v)
BY DEF WindowKept

LEMMA WindowKeptFits ==
  ASSUME NEW t \in Session, NEW u, WindowKept(t, u)
  PROVE  /\ Windowed(t) => Windowed(u)
         /\ Fits(t, u)
BY DEF WindowKept, Windowed, Fits, Session

LEMMA WriteAckWindow ==
  ASSUME NEW t \in Session, NEW ok \in BOOLEAN, t.state # "none"
  PROVE  WindowKept(t, WriteAck(t, ok))
BY DEF WriteAck, Session, WindowKept, Streaming

LEMMA WriteRstWindow ==
  ASSUME NEW t \in Session, t.state # "none"
  PROVE  WindowKept(t, WriteRst(t))
<1> DEFINE syn == IF t.state = "LISTEN" THEN 1 ELSE 0
           w   == Wrap(t.remote_seq + syn)
           x   == t.synIn + syn
           st  == IF t.state = "CLOSE" THEN "CLOSE" ELSE "CLOSING"
<1>1. WriteRst(t) = [t EXCEPT !.remote_seq = w, !.synIn = x, !.state = st]
  BY DEF WriteRst
<1>2. st \notin Streaming
  BY DEF Streaming
<1> HIDE DEF syn, w, x, st
<1> QED BY <1>1, <1>2 DEF Session, WindowKept

LEMMA KeepAliveWindow ==
  ASSUME NEW t \in Session, NEW ok \in BOOLEAN, t.state # "none"
  PROVE  WindowKept(t, KeepAlive(t, ok))
<1> DEFINE w == Wrap(t.remote_seq - 1)
           l == [t EXCEPT !.remote_seq = w]
           p == WriteAck(l, ok)
           r == Wrap(p.remote_seq + 1)
<1>1. l \in Session /\ WindowKept(t, l) /\ l.state # "none"
  <2>1. w \in Word
    BY WrapOfSum DEF Session
  <2> HIDE DEF w
  <2> QED BY <2>1 DEF Session, WindowKept
<1>2. KeepAlive(t, ok) = [p EXCEPT !.remote_seq = r]
  BY DEF KeepAlive
<1> HIDE DEF l
<1>3. p \in Session /\ WindowKept(l, p) /\ p.state # "none"
  BY <1>1, WriteAckKeeps, WriteAckWindow DEF Keeps
<1> HIDE DEF p, r
<1>4. WindowKept(p, [p EXCEPT !.remote_seq = r])
  BY <1>3 DEF Session, WindowKept
<1> QED BY <1>1, <1>2, <1>3, <1>4, WindowKeptTransitive

LEMMA SetMaskWindow ==
  ASSUME NEW t \in Session, NEW mask, t.state # "none"
  PROVE  WindowKept(t, SetMask(t, mask))
BY DEF SetMask, Session, WindowKept, Streaming

\* A check keeps the window or frees the session.
LEMMA CheckWindow ==
  ASSUME NEW t \in Session, SocketAgrees(t), t.state # "none"
  PROVE  LET u == Cleanup(Checked(t)) IN
         WindowKept(t, u) \/ (Windowed(u) /\ Fits(t, u))
<1> DEFINE a == Timeout(t)
           b == CloseSocket(a)
           c == AccountUsage(b)
<1>1. Checked(t) = c
  BY DEF Checked
<1>2. a \in Session /\ WindowKept(t, a) /\ SocketAgrees(a) /\ a.state # "none"
  <2>1. /\ WindowKept(t, t) /\ WindowKept(t, [t EXCEPT !.state = "CLOSING"])
        /\ WindowKept(t, WriteRst(t))
    BY WriteRstWindow DEF WindowKept, Session, Streaming
  <2>2. a \in {t, [t EXCEPT !.state = "CLOSING"], WriteRst(t)}
    BY DEF Timeout
  <2>3. a \in Session /\ Keeps(t, a)
    BY TimeoutKeeps
  <2> HIDE DEF a
  <2> QED BY <2>1, <2>2, <2>3, KeepsSocket DEF Keeps
<1> HIDE DEF a
<1>3. b \in Session /\ WindowKept(a, b) /\ b.state # "none"
  <2>1. b \in {a, [a EXCEPT !.open = FALSE, !.polled = FALSE, !.fresh = TRUE, !.state = "CLOSE"]}
    BY DEF CloseSocket
  <2>2. b \in Session
    BY <1>2, CloseSocketAgrees
  <2> HIDE DEF b
  <2>3. CASE b = a
    BY <1>2, <2>3 DEF WindowKept
  <2>4. CASE b = [a EXCEPT !.open = FALSE, !.polled = FALSE, !.fresh = TRUE, !.state = "CLOSE"]
    BY <1>2, <2>2, <2>4 DEF WindowKept, Session, Streaming
  <2> QED BY <2>1, <2>3, <2>4, <2>2
<1> HIDE DEF b
<1>4. WindowKept(b, c)
  <2>1. c \in {b, [b EXCEPT !.unreported = FALSE]}
    BY DEF AccountUsage
  <2> HIDE DEF c
  <2> QED BY <1>3, <2>1 DEF WindowKept, Session
<1> HIDE DEF c
<1>5. WindowKept(t, c)
  BY <1>2, <1>3, <1>4, WindowKeptTransitive
<1>6. CASE Cleanup(c) = c
  BY <1>1, <1>5, <1>6
<1>7. CASE Cleanup(c) # c
  <2> DEFINE gone == c.unreported \/ c.open
             u    == [NoSession EXCEPT !.lost = gone]
  <2>1. Cleanup(c) = u
    BY <1>7 DEF Cleanup
  <2>2. u.unconfirmed = 0 /\ u.send_window = 0 /\ u.state = "none"
    <3> HIDE DEF gone
    <3> QED BY DEF NoSession
  <2>3. Header \in Nat /\ t.unconfirmed \in Nat
    BY WindowAssumption DEF Session
  <2> HIDE DEF u
  <2> QED BY <1>1, <2>1, <2>2, <2>3 DEF Windowed, Fits, Streaming
<1> QED BY <1>6, <1>7

LEMMA NewSessionWindow ==
  ASSUME WindowsFitHalf, NEW p \in Packets, NEW isn, NEW polled, NEW room, NEW t \in Session
  PROVE  /\ Windowed(NewSession(p, isn, polled, room))
         /\ Fits(t, NewSession(p, isn, polled, room))
<1> DEFINE u == NewSession(p, isn, polled, room)
<1>1. u.state = "LISTEN" /\ u.unconfirmed = 0 /\ u.send_window = p.window
  BY DEF NewSession, NoSession
<1>2. p.window \in Nat /\ Header \in Nat /\ t.unconfirmed \in Nat
  BY PacketsAssumption, WindowAssumption DEF Packet, Session
<1> HIDE DEF u
<1>3. Windowed(u) /\ Fits(t, u)
  BY <1>1, <1>2 DEF Windowed, Fits, Streaming, WindowsFitHalf
<1> QED BY <1>3 DEF u

\* Every packet of the app opens the window anew.
LEMMA TakenWindow ==
  ASSUME WindowsFitHalf, NEW p \in Packets, s \in Session, Windowed(s), s.state # "none"
  PROVE  LET t == Taken(p)
             w == Touched(p)
         IN  /\ Windowed(w) /\ w.unconfirmed = 0
             /\ Windowed(t) /\ t.unconfirmed = 0
             /\ t.acked = s.acked /\ t.local_seq = s.local_seq /\ t.send_window = p.window
<1> DEFINE f == s.fresh \/ "SYN" \notin p.flags
           w == p.window
           u == Touched(p)
<1>1. f \in BOOLEAN /\ w \in Nat /\ Header \in Nat /\ w + WrapWindow + Header <= Half
  BY PacketsAssumption, WindowAssumption DEF Session, Packet, WindowsFitHalf
<1>2. u = [s EXCEPT !.fresh = f, !.send_window = w, !.unconfirmed = 0]
  BY DEF Touched
<1>3. w = p.window
  OBVIOUS
<1> HIDE DEF f, w, u
<1>4. /\ u \in Session /\ u.state = s.state /\ u.unconfirmed = 0 /\ u.send_window = w
      /\ u.acked = s.acked /\ u.local_seq = s.local_seq
  BY <1>1, <1>2 DEF Session
<1>5. Windowed(u)
  BY <1>1, <1>4 DEF Windowed
<1>6. \E q : Taken(p) = [u EXCEPT !.forward = q]
  <2>1. u = [u EXCEPT !.forward = u.forward]
    BY <1>4 DEF Session
  <2> QED BY <2>1 DEF Taken, QueueTcp, u
<1>7. PICK q : Taken(p) = [u EXCEPT !.forward = q]
  BY <1>6
<1> DEFINE t == Taken(p)
<1>8. /\ t.state = u.state /\ t.unconfirmed = u.unconfirmed /\ t.send_window = u.send_window
      /\ t.acked = u.acked /\ t.local_seq = u.local_seq
  BY <1>4, <1>7 DEF Session
<1> HIDE DEF t
<1>9. Windowed(t)
  BY <1>5, <1>8 DEF Windowed
<1> QED BY <1>3, <1>4, <1>5, <1>8, <1>9 DEF t, u

LEMMA TakeFinWindow ==
  ASSUME NEW t \in Session, NEW ok \in BOOLEAN, t.state \in {"ESTABLISHED", "FIN_WAIT1"}
  PROVE  WindowKept(t, TakeFin(t, ok))
<1> DEFINE r       == Wrap(t.remote_seq + 1)
           x       == t.finIn + 1
           counted == [t EXCEPT !.remote_seq = r, !.finIn = x]
           a       == WriteAck(counted, ok)
           next    == IF t.state = "ESTABLISHED" THEN "CLOSE_WAIT" ELSE "CLOSE"
           st      == IF ok THEN next ELSE a.state
<1>1. counted \in Session /\ WindowKept(t, counted) /\ counted.state = t.state
  <2>1. r \in Word /\ x \in Nat
    <3>1. t.remote_seq \in Word /\ t.finIn \in Nat
      BY DEF Session
    <3> QED BY <3>1, WrapOfSum
  <2> HIDE DEF r, x
  <2> QED BY <2>1 DEF Session, WindowKept
<1>2. next \in {"CLOSE_WAIT", "CLOSE"} /\ (next = "CLOSE_WAIT" => t.state = "ESTABLISHED")
  OBVIOUS
<1>3. \/ TakeFin(t, ok) = [a EXCEPT !.state = st]
      \/ t.state = "ESTABLISHED" /\ TakeFin(t, ok) = [t EXCEPT !.state = "CLOSE_WAIT"]
  BY DEF TakeFin
<1> HIDE DEF counted
<1>4. a \in Session /\ WindowKept(counted, a) /\ (ok => a = counted) /\ (~ok => a.state = "CLOSING")
  <2>1. counted.state # "none"
    BY <1>1
  <2>2. ~ok => WriteAck(counted, ok).state = "CLOSING"
    BY <1>1 DEF WriteAck, Session
  <2> QED BY <1>1, <2>1, <2>2, WriteAckKeeps, WriteAckWindow DEF WriteAck
<1> HIDE DEF a
<1>5. WindowKept(a, [a EXCEPT !.state = st])
  <2>1. a.state # "none"
    BY <1>1, <1>4
  <2>2. st \in Streaming => a.state \in Streaming
    BY <1>1, <1>2, <1>4 DEF Streaming
  <2> HIDE DEF st, next
  <2> QED BY <1>4, <2>1, <2>2 DEF Session, WindowKept
<1>6. WindowKept(t, [t EXCEPT !.state = "CLOSE_WAIT"]) \/ t.state # "ESTABLISHED"
  BY DEF Session, WindowKept, Streaming
<1> QED BY <1>1, <1>3, <1>4, <1>5, <1>6, WindowKeptTransitive

LEMMA ConnectedWindow ==
  ASSUME NEW t \in Session, NEW u \in Connected(t), t.state # "none"
  PROVE  WindowKept(t, u)
<1>1. \A v \in Socks5 : /\ [t EXCEPT !.socks5 = v] \in Session
                        /\ WindowKept(t, [t EXCEPT !.socks5 = v])
                        /\ [t EXCEPT !.socks5 = v].state # "none"
  BY DEF Session, WindowKept
<1>2. \A v \in Socks5, b \in BOOLEAN : WindowKept(t, [t EXCEPT !.socks5 = v, !.reached = b])
  BY DEF Session, WindowKept
<1>3. \A v \in Socks5 : WindowKept(t, WriteRst([t EXCEPT !.socks5 = v]))
  BY <1>1, WriteRstWindow, WindowKeptTransitive
<1>4. /\ "NONE" \in Socks5 /\ "AUTH" \in Socks5 /\ "HELLO" \in Socks5
      /\ "CONNECT" \in Socks5 /\ "CONNECTED" \in Socks5
  BY DEF Socks5
<1>5. \A reply : Socks5Reply(t, reply) \in {WriteRst(t), [t EXCEPT !.socks5 = "CONNECT"],
        [t EXCEPT !.socks5 = "AUTH"],
        [t EXCEPT !.socks5 = "CONNECTED", !.reached = TRUE],
        WriteRst([t EXCEPT !.socks5 = "NONE"])}
  BY DEF Socks5Reply
<1>6. \A reply : WindowKept(t, Socks5Reply(t, reply))
  BY <1>1, <1>2, <1>3, <1>4, <1>5, WriteRstWindow
<1> DEFINE v == IF UseSocks5 THEN "HELLO" ELSE "CONNECTED"
           b == ~UseSocks5
<1>7. v \in Socks5 /\ b \in BOOLEAN
  BY <1>4
<1>8. \/ u = t \/ u = [t EXCEPT !.socks5 = v, !.reached = b]
      \/ \E r \in {"accept", "userpass", "deny", "error"} : u = Socks5Reply(t, r)
  BY DEF Connected
<1>9. WindowKept(t, t)
  BY DEF WindowKept
<1> HIDE DEF v, b
<1> QED BY <1>2, <1>6, <1>7, <1>8, <1>9

LEMMA RequestedWindow ==
  ASSUME NEW t \in Session, NEW u \in Requested(t), t.state # "none"
  PROVE  WindowKept(t, u)
<1> DEFINE r   == Wrap(t.remote_seq + 1)
           x   == t.synIn + 1
           syn == [t EXCEPT !.remote_seq = r, !.synIn = x]
           w   == Wrap(syn.local_seq + 1)
           l   == syn.lateOut \/ syn.finOut \/ syn.state \in Finished
           y   == [syn EXCEPT !.local_seq = w, !.lateOut = l]
           n   == WriteAck(syn, FALSE)
           z   == [y EXCEPT !.fresh = TRUE, !.state = "SYN_RECV"]
<1>1. syn \in Session /\ WindowKept(t, syn) /\ syn.state # "none"
  <2>1. r \in Word /\ x \in Nat
    <3>1. t.remote_seq \in Word /\ t.synIn \in Nat
      BY DEF Session
    <3> QED BY <3>1, WrapOfSum
  <2> HIDE DEF r, x
  <2> QED BY <2>1 DEF Session, WindowKept
<1>2. u \in {t, WriteRst(t), z, n}
  BY DEF Requested, WriteStream
<1> HIDE DEF syn
<1>3. WindowKept(syn, n)
  BY <1>1, WriteAckWindow
<1>4. WindowKept(syn, z)
  <2> HIDE DEF w, l
  <2> QED BY <1>1 DEF Session, WindowKept, Streaming
<1>5. WindowKept(t, t)
  BY DEF WindowKept
<1> HIDE DEF z, n
<1> QED BY <1>1, <1>2, <1>3, <1>4, <1>5, WriteRstWindow, WindowKeptTransitive

LEMMA ForwardedWindow ==
  ASSUME NEW t \in Session, NEW room \in Nat, NEW u \in Forwarded(t, room), t.state # "none"
  PROVE  WindowKept(t, u)
<1>1. \A k, n : WindowKept(t, Sent(t, k, n))
  <2> TAKE k, n
  <2> DEFINE q    == t.forward
             rest == SubSeq(q, k + 1, Len(q))
             part == IF n = 0 THEN {} ELSE Bytes(q[k + 1], q[k + 1].sent, q[k + 1].sent + n)
             new  == part \union UNION {Bytes(q[i], q[i].sent, q[i].len) : i \in 1 .. k}
             r    == IF k = 0 THEN t.remote_seq ELSE Wrap(q[k].seq + q[k].len)
             f    == IF n = 0 THEN rest ELSE [rest EXCEPT ![1].sent = @ + n]
             g    == t.given \union new
             w    == t.twice \/ t.given \intersect new # {}
             m    == t.unreported \/ k > 0 \/ n > 0
  <2>1. Sent(t, k, n) = [t EXCEPT !.remote_seq = r, !.forward = f, !.given = g,
                                  !.twice = w, !.unreported = m]
    BY DEF Sent
  <2> HIDE DEF r, f, g, w, m
  <2> QED BY <2>1 DEF Session, WindowKept
<1>2. PICK k \in 0 .. Len(t.forward) :
        \/ u = Sent(t, k, 0)
        \/ Sendable(t, room, k + 1) /\ u = WriteRst(Sent(t, k, 0))
        \/ \E n \in 1 .. Unsent(t.forward[k + 1]) - 1 : u = Sent(t, k, n)
  BY DEF Forwarded
<1>3. Sent(t, k, 0) \in Session /\ Sent(t, k, 0).state # "none"
  BY SentKeeps DEF Keeps
<1>4. WindowKept(t, WriteRst(Sent(t, k, 0)))
  BY <1>1, <1>3, WriteRstWindow, WindowKeptTransitive
<1> QED BY <1>1, <1>2, <1>4

LEMMA AcknowledgedWindow ==
  ASSUME NEW t \in Session, NEW fwd \in BOOLEAN, NEW room, NEW u \in Acknowledged(t, fwd, room),
         t.state # "none"
  PROVE  WindowKept(t, u)
<1> DEFINE open == ToForward(t.forward) < room
           o    == [t EXCEPT !.window_open = open]
           r    == Wrap(o.remote_seq + 1)
           x    == o.finIn + 1
           v    == ConfirmFin(o, fwd)
           y    == [v EXCEPT !.fresh = TRUE]
           n    == WriteAck(v, FALSE)
<1>1. o \in Session /\ WindowKept(t, o) /\ o.state # "none"
  <2>1. open \in BOOLEAN
    OBVIOUS
  <2> HIDE DEF open
  <2> QED BY <2>1 DEF Session, WindowKept
<1>2. u \in {y, n, o}
  BY DEF Acknowledged, o, v
<1> HIDE DEF o
<1>3. v \in Session /\ WindowKept(o, v) /\ v.state # "none"
  <2>1. r \in Word /\ x \in Nat
    <3>1. o.remote_seq \in Word /\ o.finIn \in Nat
      BY <1>1 DEF Session
    <3> QED BY <3>1, WrapOfSum
  <2>2. v \in {o, [o EXCEPT !.remote_seq = r, !.finIn = x]}
    BY DEF ConfirmFin
  <2> HIDE DEF r, x, v
  <2>3. CASE v = o
    BY <1>1, <2>3 DEF WindowKept
  <2>4. CASE v = [o EXCEPT !.remote_seq = r, !.finIn = x]
    BY <1>1, <2>1, <2>4 DEF Session, WindowKept
  <2> QED BY <2>2, <2>3, <2>4
<1> HIDE DEF v
<1>4. WindowKept(v, y) /\ WindowKept(v, n)
  BY <1>3, WriteAckWindow DEF Session, WindowKept
<1> HIDE DEF y, n
<1> QED BY <1>1, <1>2, <1>3, <1>4, WindowKeptTransitive

LEMMA TakeEofWindow ==
  ASSUME NEW t \in Session, NEW ok \in BOOLEAN, t.state \in Streaming
  PROVE  WindowKept(t, TakeEof(t, ok))
<1> DEFINE f    == WriteStream(t, ok, 1)
           o    == f.finOut \/ ok
           fin  == [f EXCEPT !.finOut = o]
           st   == CASE fin.state = "ESTABLISHED" -> "FIN_WAIT1"
                     [] fin.state = "CLOSE_WAIT"  -> "LAST_ACK"
                     [] OTHER                     -> fin.state
           half == [fin EXCEPT !.state = st]
           done == IF t.forward # << >> THEN WriteRst(t) ELSE half
           u    == [done EXCEPT !.open = FALSE, !.polled = FALSE]
<1>1. f \in Session /\ f.state \in Streaming \union {"CLOSING"}
      /\ f.send_window = t.send_window /\ f.unconfirmed = t.unconfirmed
  <2> DEFINE w == Wrap(t.local_seq + 1)
             late == t.lateOut \/ t.finOut \/ t.state \in Finished
  <2>1. f \in Session
    BY WriteStreamKeeps
  <2>2. f \in {[t EXCEPT !.local_seq = w, !.lateOut = late], [t EXCEPT !.state = "CLOSING"]}
    BY DEF WriteStream, WriteAck
  <2> HIDE DEF w, late, f
  <2>3. CASE f = [t EXCEPT !.local_seq = w, !.lateOut = late]
    BY <2>1, <2>3 DEF Session
  <2>4. CASE f = [t EXCEPT !.state = "CLOSING"]
    BY <2>1, <2>4 DEF Session
  <2> QED BY <2>1, <2>2, <2>3, <2>4
<1> HIDE DEF f
<1>2. /\ fin.state = f.state /\ fin.send_window = f.send_window
      /\ fin.unconfirmed = f.unconfirmed /\ DOMAIN fin = DOMAIN f
  <2> HIDE DEF o
  <2> QED BY <1>1 DEF Session
<1>3. st \in {"FIN_WAIT1", "LAST_ACK", "CLOSING"}
  <2> HIDE DEF fin
  <2> QED BY <1>1, <1>2 DEF Streaming
<1> HIDE DEF fin, st
<1>5. half.state = st /\ half.send_window = fin.send_window /\ half.unconfirmed = fin.unconfirmed
  BY <1>1, <1>2 DEF Session
<1>6. WindowKept(t, WriteRst(t)) /\ WriteRst(t) \in Session
  BY WriteRstWindow, WriteRstKeeps DEF Streaming
<1>7. WindowKept(t, half)
  BY <1>1, <1>2, <1>3, <1>5 DEF WindowKept, Streaming
<1>8. WindowKept(t, done)
  BY <1>6, <1>7
<1> HIDE DEF half
<1>9. TakeEof(t, ok) = u
  BY DEF TakeEof, done, half, st, fin, f
<1>10. /\ u.state = done.state /\ u.acked = done.acked /\ u.local_seq = done.local_seq
       /\ u.send_window = done.send_window /\ u.unconfirmed = done.unconfirmed
  <2> HIDE DEF done
  <2> QED OBVIOUS
<1> HIDE DEF done, u
<1> QED BY <1>8, <1>9, <1>10 DEF WindowKept

\* What was read fits the window that Readable looked at.
LEMMA TakeDataWindow ==
  ASSUME NEW t \in Session, NEW ok \in BOOLEAN, NEW n \in 1 .. SendRoom(t),
         Windowed(t), t.state \in Streaming
  PROVE  Windowed(TakeData(t, n, ok)) /\ Fits(t, TakeData(t, n, ok))
<1> DEFINE x    == t.received + n
           got  == [t EXCEPT !.unreported = TRUE, !.received = x]
           w    == Wrap(got.local_seq + n)
           late == got.lateOut \/ got.finOut \/ got.state \in Finished
           y    == [got EXCEPT !.local_seq = w, !.lateOut = late]
           u    == TakeData(t, n, ok)
<1>1. /\ t.local_seq \in Word /\ t.acked \in Word /\ t.unconfirmed \in Nat
      /\ t.send_window \in Nat /\ Header \in Nat /\ WrapWindow \in Nat /\ Half \in Nat
      /\ SendRoom(t) \in Nat /\ n \in Nat /\ 0 < n /\ n <= SendRoom(t)
  BY SendRoomType, WindowAssumption, HalfAssumption DEF Session
<1>2. got \in Session /\ WindowKept(t, got) /\ got.state = t.state
      /\ got.local_seq = t.local_seq /\ got.acked = t.acked
  <2>1. x \in Nat
    BY <1>1 DEF Session
  <2> HIDE DEF x
  <2> QED BY <2>1 DEF Session, WindowKept, Streaming
<1> HIDE DEF got
<1>3. CASE ~ok
  <2> DEFINE v == WriteAck(got, ok)
             c == v.unconfirmed
  <2>1. u = [v EXCEPT !.unconfirmed = c]
    BY <1>3 DEF TakeData, WriteStream, got
  <2>2. v \in Session /\ WindowKept(got, v)
    BY <1>2, WriteAckKeeps, WriteAckWindow DEF Streaming
  <2> HIDE DEF u, v
  <2>3. u = v
    BY <2>1, <2>2 DEF Session
  <2> QED BY <1>2, <2>2, <2>3, WindowKeptTransitive, WindowKeptFits DEF u
<1>4. CASE ok
  <2> DEFINE c == y.unconfirmed + 1
  <2>1. u = [y EXCEPT !.unconfirmed = c]
    BY <1>4 DEF TakeData, WriteStream, got
  <2>2. w \in Word
    BY <1>1, <1>2, WrapOfSum
  <2>3. /\ u.state = t.state /\ u.acked = t.acked /\ u.local_seq = w
        /\ u.send_window = t.send_window /\ u.unconfirmed = t.unconfirmed + 1
    <3> HIDE DEF w, late, u
    <3> QED BY <1>2, <2>1 DEF Session, WindowKept
  <2> HIDE DEF u, w, y
  <2> DEFINE d == Ahead(t.acked, t.local_seq)
             e == Ahead(t.acked, w)
             h == (t.unconfirmed + 1) * Header
  <2>4. h = t.unconfirmed * Header + Header
    BY <1>1
  <2>5. /\ t.send_window + WrapWindow + Header <= Half
        /\ t.unconfirmed * Header <= t.send_window /\ d <= Half + 1
    BY DEF Windowed, Streaming
  <2>6. d \in Nat /\ h \in Nat /\ t.unconfirmed * Header \in Nat
    <3>1. d \in Nat
      BY <1>1, AheadType
    <3>2. t.unconfirmed * Header \in Nat
      BY <1>1
    <3> HIDE DEF d, h
    <3> QED BY <1>1, <2>4, <3>1, <3>2
  <2>7. d + WrapWindow + h < Modulus
    <3> HIDE DEF d, h
    <3> QED BY <1>1, <2>4, <2>5, <2>6, ModulusType
  <2>8. d + SendRoom(t) + h <= t.send_window
    BY <1>1, <2>7, SendWindowFits DEF SendRoom
  <2>9. d + n + h <= t.send_window
    <3> HIDE DEF d, h
    <3> QED BY <1>1, <2>6, <2>8
  <2>10. e = d + n
    <3>1. d + n < Modulus
      <4> HIDE DEF d, h
      <4> QED BY <1>1, <2>5, <2>6, <2>9, ModulusType
    <3>2. t.local_seq \in Int /\ t.acked \in Int /\ 0 <= t.local_seq /\ t.local_seq < Modulus
          /\ 0 <= t.acked /\ t.acked < Modulus
      BY <1>1, ModulusType DEF Word
    <3>3. d = IF t.acked <= t.local_seq THEN t.local_seq - t.acked
              ELSE t.local_seq - t.acked + Modulus
      BY <1>1, AheadIs
    <3>4. n < Modulus
      <4> HIDE DEF d, h
      <4> QED BY <1>1, <2>6, <3>1, ModulusType
    <3>5. w = IF t.local_seq + n < Modulus THEN t.local_seq + n ELSE t.local_seq + n - Modulus
      BY <1>1, <1>2, <3>2, <3>4, WrapNear, ModulusType DEF w
    <3>6. e = IF t.acked <= w THEN w - t.acked ELSE w - t.acked + Modulus
      BY <1>1, <2>2, AheadIs
    <3> HIDE DEF d, e
    <3> QED BY <1>1, <3>1, <3>2, <3>3, <3>4, <3>5, <3>6, ModulusType
  <2>11. e + h <= t.send_window
    <3> HIDE DEF d, e, h
    <3> QED BY <2>9, <2>10
  <2>12. Fits(t, u)
    BY <2>3, <2>11 DEF Fits
  <2>13. Windowed(u)
    <3>1. e <= Half + 1 /\ h <= t.send_window
      <4>1. e \in Nat
        BY <1>1, <2>6, <2>10
      <4> HIDE DEF e, h
      <4> QED BY <1>1, <2>5, <2>6, <2>11, <4>1
    <3> QED BY <2>3, <2>5, <3>1 DEF Windowed
  <2> QED BY <2>12, <2>13 DEF u
<1> QED BY <1>3, <1>4

\* Reading keeps the window or fits it.
LEMMA ReadWindow ==
  ASSUME NEW t \in Session, NEW u \in Read(t), Windowed(t), t.state # "none"
  PROVE  Windowed(u) /\ Fits(t, u)
<1> DEFINE f == Refreshed(t)
<1>1. f \in Session /\ WindowKept(t, f) /\ f.state = t.state /\ SendRoom(f) = SendRoom(t)
      /\ f.unconfirmed = t.unconfirmed
  BY DEF Session, WindowKept, Refreshed, SendRoom
<1>2. Windowed(f)
  BY <1>1, WindowKeptFits
<1>3. \A v : Fits(f, v) => Fits(t, v)
  BY <1>1 DEF Fits
<1>4. \/ u \in {t, f, WriteRst(f)}
      \/ Readable(t) /\ \E ok \in BOOLEAN : u = TakeEof(f, ok)
      \/ Readable(t) /\ \E ok \in BOOLEAN, n \in 1 .. SendRoom(f) : u = TakeData(f, n, ok)
  BY <1>1, ReadOutcomes
<1>5. Readable(t) => f.state \in Streaming
  BY <1>1 DEF Readable
<1>6. WindowKept(t, t)
  BY DEF WindowKept
<1> HIDE DEF f
<1>7. CASE u \in {t, f, WriteRst(f)}
  BY <1>1, <1>6, <1>7, WriteRstWindow, WindowKeptTransitive, WindowKeptFits
<1>8. CASE Readable(t) /\ \E ok \in BOOLEAN : u = TakeEof(f, ok)
  BY <1>1, <1>5, <1>8, TakeEofWindow, WindowKeptTransitive, WindowKeptFits
<1>9. CASE Readable(t) /\ \E ok \in BOOLEAN, n \in 1 .. SendRoom(f) : u = TakeData(f, n, ok)
  BY <1>1, <1>2, <1>3, <1>5, <1>9, TakeDataWindow
<1> QED BY <1>4, <1>7, <1>8, <1>9

-----------------------------------------------------------------------------
\* A step leaves a window that is bounded, and what it wrote fits.
StepFits == Windowed(s') /\ Fits(s, s')

LEMMA KeptStepFits ==
  ASSUME IInv, Windowed(s), WindowKept(s, s') \/ s' = s
  PROVE  StepFits
<1>1. s \in Session
  BY DEF IInv, TypeOK
<1>2. CASE s' = s
  BY <1>1, <1>2 DEF StepFits, Fits, Windowed, Session
<1>3. CASE WindowKept(s, s')
  BY <1>1, <1>3, WindowKeptFits DEF StepFits
<1> QED BY <1>2, <1>3

LEMMA MonitorFits ==
  ASSUME IInv, Windowed(s), MonitorTcpSession
  PROVE  StepFits
<1>1. s \in Session /\ SocketAgrees(s)
  BY SocketMatchesStateIsAgrees DEF IInv, TypeOK
<1>2. CASE s' = s
  BY <1>2, KeptStepFits
<1>3. CASE s.open /\ s' # s
  <2>1. PICK room \in Rooms, due \in BOOLEAN, ok \in BOOLEAN :
          \E t \in {s, KeepAlive(s, ok)} : s' = SetMask(t, EpollMask(s, room))
    BY <1>3 DEF MonitorTcpSession
  <2>2. PICK t \in {s, KeepAlive(s, ok)} : s' = SetMask(t, EpollMask(s, room))
    BY <2>1
  <2>3. s.state # "none"
    BY <1>1, <1>3 DEF SocketAgrees
  <2>4. t \in Session /\ WindowKept(s, t) /\ t.state # "none"
    BY <1>1, <2>2, <2>3, KeepAliveKeeps, KeepAliveWindow DEF Keeps, WindowKept
  <2>5. WindowKept(t, s')
    BY <2>2, <2>4, SetMaskWindow
  <2> QED BY <2>4, <2>5, WindowKeptTransitive, KeptStepFits
<1> QED BY <1>2, <1>3 DEF MonitorTcpSession

LEMMA CheckFits ==
  ASSUME IInv, Windowed(s), CheckTcpSession
  PROVE  StepFits
<1>1. s \in Session /\ SocketAgrees(s)
  BY SocketMatchesStateIsAgrees DEF IInv, TypeOK
<1>2. CASE s' = s
  BY <1>2, KeptStepFits
<1>3. CASE s.state # "none" /\ s' = Cleanup(Checked(s))
  <2>1. WindowKept(s, s') \/ (Windowed(s') /\ Fits(s, s'))
    BY <1>1, <1>3, CheckWindow
  <2> QED BY <2>1, KeptStepFits DEF StepFits
<1> QED BY <1>2, <1>3 DEF CheckTcpSession

LEMMA TimeFits ==
  ASSUME IInv, Windowed(s), TimePasses
  PROVE  StepFits
<1>1. s \in Session
  BY DEF IInv, TypeOK
<1>2. /\ s'.state = s.state /\ s'.send_window = s.send_window /\ s'.acked = s.acked
      /\ s'.unconfirmed = s.unconfirmed /\ s'.local_seq = s.local_seq
  BY <1>1 DEF TimePasses, Session
<1> QED BY <1>1, <1>2 DEF StepFits, Windowed, Fits, Session

LEMMA PacketFits ==
  ASSUME WindowsFitHalf, IInv, Windowed(s), NEW p \in Packets, HandleTcp(p)
  PROVE  StepFits
<1>1. s \in Session /\ p \in Packet /\ p.ack \in Word
  BY PacketsAssumption DEF IInv, TypeOK, Packet
<1> USE <1>1
<1>2. CASE s' = s
  BY <1>2, KeptStepFits
<1>3. CASE TunSyn(p) /\ s' # s
  <2>1. \E isn \in LocalISNs, polled \in BOOLEAN, room \in Rooms :
          s' = NewSession(p, isn, polled, room)
    BY <1>3 DEF TunSyn
  <2> QED BY <2>1, NewSessionWindow DEF StepFits
<1>4. CASE TunFinished(p)
  <2>1. s.state # "none" /\ s' = WriteRst(s)
    BY <1>4 DEF TunFinished, Finished
  <2> QED BY <2>1, WriteRstWindow, KeptStepFits
<1> DEFINE t == Taken(p)
           w == Touched(p)
<1>5. Live(p) => s.state # "none"
  BY DEF Live
<1>6. /\ w \in Session /\ w.state = s.state /\ t \in Session /\ t.state = s.state
  BY TakenKeeps
<1>7. Live(p) => /\ Windowed(w) /\ w.unconfirmed = 0 /\ Windowed(t) /\ t.unconfirmed = 0
                 /\ t.acked = s.acked /\ t.local_seq = s.local_seq
  BY <1>5, TakenWindow
<1> HIDE DEF t, w
\* What keeps a window that the packet has opened fits it.
<1>8. ASSUME NEW v \in Session, Windowed(v), v.unconfirmed = 0, WindowKept(v, s') \/ s' = v
      PROVE  StepFits
  <2>1. s.unconfirmed \in Nat
    BY DEF Session
  <2>2. Windowed(s') /\ s'.unconfirmed = 0
    BY <1>8, WindowKeptFits DEF WindowKept
  <2> QED BY <2>1, <2>2 DEF StepFits, Fits
<1>9. CASE TunRefused(p)
  BY <1>5, <1>6, <1>7, <1>8, <1>9, WriteRstWindow DEF TunRefused, w
<1>10. CASE TunReset(p)
  <2>1. Live(p) /\ s' = [t EXCEPT !.state = "CLOSING"]
    BY <1>10 DEF TunReset, TakeReset, t
  <2>2. WindowKept(t, s')
    BY <1>5, <1>6, <2>1 DEF WindowKept, Session, Streaming
  <2> QED BY <1>6, <1>7, <1>8, <2>1, <2>2
<1>11. CASE TunFin(p)
  <2>1. Live(p) /\ s.state \in {"ESTABLISHED", "FIN_WAIT1"}
    BY <1>11 DEF TunFin, TunAccepted
  <2>2. PICK ok \in BOOLEAN : s' = TakeFin(t, ok)
    BY <1>11 DEF TunFin, t
  <2>3. WindowKept(t, s')
    BY <1>6, <2>1, <2>2, TakeFinWindow
  <2> QED BY <1>6, <1>7, <1>8, <2>1, <2>3
<1>12. CASE TunAck(p)
  <2> DEFINE st == IF t.state = "SYN_RECV" THEN "ESTABLISHED"
                   ELSE IF t.state = "LAST_ACK" THEN "CLOSING" ELSE t.state
             a  == p.ack
  <2>1. Live(p) /\ a = s.local_seq /\ s' = [t EXCEPT !.acked = a, !.state = st]
    BY <1>12 DEF TunAck, TunAccepted, InSequence, t
  <2> HIDE DEF a
  <2>2. /\ s'.state = st /\ s'.acked = a /\ s'.local_seq = t.local_seq
        /\ s'.send_window = t.send_window /\ s'.unconfirmed = t.unconfirmed
    BY <1>6, <2>1 DEF Session
  <2>3. Ahead(s'.acked, s'.local_seq) = 0
    <3>1. s'.acked = s'.local_seq /\ s'.acked \in Word
      BY <1>7, <2>1, <2>2 DEF Session
    <3>2. s'.acked \in Int
      BY <3>1 DEF Word
    <3> QED BY <3>1, <3>2, AheadIs
  <2>4. Windowed(s')
    BY <1>5, <1>6, <1>7, <2>1, <2>2, <2>3, HalfAssumption DEF Windowed
  <2> QED BY <1>7, <2>1, <2>2, <2>4 DEF StepFits, Fits, Session
<1>13. CASE TunIgnored(p)
  BY <1>6, <1>7, <1>8, <1>13 DEF TunIgnored, TunAccepted, t
<1>14. CASE TunOldAck(p)
  <2> DEFINE a == IF Compare(p.ack, t.acked) <= 0 THEN t.acked ELSE p.ack
  <2>1. /\ Live(p) /\ s' = [t EXCEPT !.acked = a]
        /\ Compare(p.ack, s.local_seq) < 0
    BY <1>14 DEF TunOldAck, TunAccepted, t
  <2> HIDE DEF a
  <2>2. /\ s'.state = t.state /\ s'.acked = a /\ s'.local_seq = t.local_seq
        /\ s'.send_window = t.send_window /\ s'.unconfirmed = t.unconfirmed
    BY <1>6, <2>1 DEF Session
  <2>3. Ahead(p.ack, s.local_seq) <= Half + 1
    <3>1. s.local_seq \in Word
      BY DEF Session
    <3> QED BY <2>1, <3>1, CompareBehind, HalfAssumption
  <2>4. Windowed(s')
    BY <1>7, <2>1, <2>2, <2>3 DEF Windowed, a
  <2> QED BY <1>7, <2>1, <2>2, <2>4 DEF StepFits, Fits, Session
<1>15. CASE TunFutureAck(p)
  BY <1>5, <1>6, <1>7, <1>8, <1>15, WriteRstWindow DEF TunFutureAck, TunAccepted, t
<1>16. CASE TunDropped(p)
  BY <1>2, <1>16 DEF TunDropped
<1> QED BY <1>2, <1>3, <1>4, <1>9, <1>10, <1>11, <1>12, <1>13, <1>14, <1>15, <1>16
        DEF HandleTcp

LEMMA SocketFits ==
  ASSUME IInv, Windowed(s), CheckTcpSocket
  PROVE  StepFits
<1>1. s \in Session /\ s.state # "none"
  BY DEF IInv, TypeOK, EventFindsSocket, CheckTcpSocket, SocketError, SocketConnect,
         SocketStream, SocketEvent
<1>2. CASE SocketError
  <2> DEFINE u == [s EXCEPT !.fresh = TRUE]
  <2>1. u \in Session /\ WindowKept(s, u) /\ u.state # "none" /\ s' = WriteRst(u)
    BY <1>1, <1>2 DEF Session, WindowKept, SocketError
  <2> HIDE DEF u
  <2> QED BY <2>1, WriteRstWindow, WindowKeptTransitive, KeptStepFits
<1>3. CASE SocketConnect
  <2>1. PICK t \in Connected(s) : s' \in Requested(t)
    BY <1>3 DEF SocketConnect
  <2>2. t \in Session /\ WindowKept(s, t) /\ t.state # "none"
    BY <1>1, ConnectedKeeps, ConnectedWindow DEF Keeps
  <2>3. WindowKept(t, s')
    BY <2>1, <2>2, RequestedWindow
  <2> QED BY <2>2, <2>3, WindowKeptTransitive, KeptStepFits
<1>4. CASE SocketStream
  <2>1. PICK room \in Rooms, left \in Rooms :
          \E t \in IF "OUT" \in ready THEN Forwarded(s, room) ELSE {s} :
            \E u \in Acknowledged(t, t.forward # s.forward, left) : s' \in Read(u)
    BY <1>4 DEF SocketStream
  <2>2. PICK t \in IF "OUT" \in ready THEN Forwarded(s, room) ELSE {s} :
          \E u \in Acknowledged(t, t.forward # s.forward, left) : s' \in Read(u)
    BY <2>1
  <2>3. PICK u \in Acknowledged(t, t.forward # s.forward, left) : s' \in Read(u)
    BY <2>2
  <2>4. room \in Nat /\ left \in Nat
    BY RoomsType
  <2>5. t \in Session /\ WindowKept(s, t) /\ t.state # "none"
    <3>1. CASE "OUT" \in ready
      BY <1>1, <2>2, <2>4, <3>1, ForwardedKeeps, ForwardedWindow DEF Keeps
    <3>2. CASE "OUT" \notin ready
      <4>1. t = s
        BY <2>2, <3>2
      <4> QED BY <1>1, <4>1 DEF WindowKept
    <3> QED BY <3>1, <3>2
  <2>6. u \in Session /\ WindowKept(t, u) /\ u.state # "none"
    <3>1. (t.forward # s.forward) \in BOOLEAN
      OBVIOUS
    <3> QED BY <2>3, <2>4, <2>5, <3>1, AcknowledgedKeeps, AcknowledgedWindow DEF Keeps
  <2>7. WindowKept(s, u)
    BY <2>5, <2>6, WindowKeptTransitive
  <2>8. Windowed(u) /\ u.unconfirmed = s.unconfirmed
    BY <1>1, <2>7, WindowKeptFits DEF WindowKept
  <2>9. Windowed(s') /\ Fits(u, s')
    BY <2>3, <2>6, <2>8, ReadWindow
  <2> QED BY <2>8, <2>9 DEF StepFits, Fits
<1> QED BY <1>2, <1>3, <1>4 DEF CheckTcpSocket

LEMMA NextFits ==
  ASSUME WindowsFitHalf, IInv, Windowed(s), [Next]_vars
  PROVE  StepFits
<1>1. CASE s' = s
  BY <1>1, KeptStepFits
<1>2. CASE \E p \in Packets : HandleTcp(p)
  BY <1>2, PacketFits
<1> QED BY <1>1, <1>2, MonitorFits, CheckFits, TimeFits, SocketFits
        DEF Next, Loop, SkipCheck, EpollWait, TunDrained, EndBatch, vars

\* Data read from the server fits the window of the app, headers included, as
\* long as the app's TCP keeps to a shift of RFC 7323: without it the sum of
\* get_send_window can wrap.
THEOREM DataFits == ASSUME WindowsFitHalf PROVE Spec => DataFitsWindow
<1>1. Init => Windowed(s)
  <2>1. Header \in Nat
    BY WindowAssumption
  <2> QED BY <2>1 DEF Init, NoSession, Windowed, Streaming
<1>2. IInv /\ Windowed(s) /\ [Next]_vars => Windowed(s)'
  BY NextFits DEF StepFits
<1>3. IInv /\ Windowed(s) /\ [Next]_vars
        => [ s'.unconfirmed > s.unconfirmed =>
               Ahead(s'.acked, s'.local_seq) + s'.unconfirmed * Header <= s'.send_window ]_vars
  BY NextFits DEF StepFits, Fits
<1> QED BY <1>1, <1>2, <1>3, Invariance, PTL DEF Spec, DataFitsWindow

-----------------------------------------------------------------------------
\* The stream from the app.  The place of a word is how far it lies ahead of isn,
\* the number from which the app's stream starts.

\* A word is as far from isn as Ahead says.
LEMMA PlaceIs ==
  ASSUME NEW isn \in Word, NEW x \in Word
  PROVE  /\ Ahead(isn, x) \in Nat /\ Ahead(isn, x) < Modulus
         /\ Wrap(isn + Ahead(isn, x)) = x
<1>1. /\ isn \in Int /\ x \in Int /\ 0 <= isn /\ isn < Modulus /\ 0 <= x /\ x < Modulus
  BY ModulusType DEF Word
<1>2. Ahead(isn, x) = IF isn <= x THEN x - isn ELSE x - isn + Modulus
  BY AheadIs
<1>3. isn + Ahead(isn, x) = IF isn <= x THEN x ELSE x + Modulus
  BY <1>1, <1>2, ModulusType
<1>4. Wrap(x) = x /\ Wrap(x + Modulus) = x
  BY <1>1, WrapNear, ModulusType
<1> QED BY <1>1, <1>2, <1>3, <1>4, AheadType

\* The word at a distance from isn.
LEMMA PlaceOf ==
  ASSUME NEW isn \in Word, NEW d \in Nat, d < Modulus
  PROVE  Wrap(isn + d) \in Word /\ Ahead(isn, Wrap(isn + d)) = d
<1>1. isn \in Int /\ 0 <= isn /\ isn < Modulus
  BY ModulusType DEF Word
<1>2. Wrap(isn + d) \in Word
  BY WrapOfSum
<1>3. Wrap(isn + d) = IF isn + d < Modulus THEN isn + d ELSE isn + d - Modulus
  BY <1>1, WrapNear, ModulusType
<1> QED BY <1>1, <1>2, <1>3, AheadIs, ModulusType

\* Moving a word moves its place.
LEMMA PlaceMoves ==
  ASSUME NEW isn \in Word, NEW x \in Word, NEW n \in Int,
         0 <= Ahead(isn, x) + n, Ahead(isn, x) + n < Modulus
  PROVE  Wrap(x + n) \in Word /\ Ahead(isn, Wrap(x + n)) = Ahead(isn, x) + n
<1> DEFINE a == Ahead(isn, x)
<1>1. isn \in Int /\ x \in Int /\ 0 <= isn /\ isn < Modulus /\ 0 <= x /\ x < Modulus
  BY ModulusType DEF Word
<1>2. a = IF isn <= x THEN x - isn ELSE x - isn + Modulus
  BY AheadIs
<1>3. Wrap(x + n) \in Word
  BY WrapOfSum
<1>4. a \in Nat /\ a < Modulus /\ 0 <= a + n /\ a + n < Modulus
  BY AheadType
<1> HIDE DEF a
<1>5. 0 - Modulus <= x + n /\ x + n < 2 * Modulus
  BY <1>1, <1>2, <1>4, ModulusType
<1>6. Wrap(x + n) = IF x + n < 0 THEN x + n + Modulus
                    ELSE IF x + n < Modulus THEN x + n ELSE x + n - Modulus
  BY <1>1, <1>5, WrapNear, ModulusType
<1>7. Ahead(isn, Wrap(x + n)) = IF isn <= Wrap(x + n) THEN Wrap(x + n) - isn
                                ELSE Wrap(x + n) - isn + Modulus
  BY <1>3, AheadIs
<1>8. Ahead(isn, Wrap(x + n)) = a + n
  BY <1>1, <1>2, <1>4, <1>6, <1>7, ModulusType
<1> QED BY <1>3, <1>8 DEF a

\* Less than half a circle from isn, compare_u32 is the order of the places.
LEMMA PlaceOrder ==
  ASSUME NEW isn \in Word, NEW x \in Word, NEW y \in Word,
         Ahead(isn, x) < Half, Ahead(isn, y) < Half
  PROVE  /\ Compare(x, y) < 0 <=> Ahead(isn, x) < Ahead(isn, y)
         /\ x = y <=> Ahead(isn, x) = Ahead(isn, y)
<1> DEFINE a == Ahead(isn, x)
           b == Ahead(isn, y)
<1>1. /\ isn \in Int /\ 0 <= isn /\ isn < Modulus /\ x \in Int /\ 0 <= x /\ x < Modulus
      /\ y \in Int /\ 0 <= y /\ y < Modulus
  BY ModulusType DEF Word
<1>2. a = IF isn <= x THEN x - isn ELSE x - isn + Modulus
  BY AheadIs
<1>3. b = IF isn <= y THEN y - isn ELSE y - isn + Modulus
  BY AheadIs
<1>4. a < Half /\ b < Half /\ Half \in Nat
  BY HalfAssumption
<1> HIDE DEF a, b
<1>5. Compare(x, y) < 0 <=> a < b
  BY <1>1, <1>2, <1>3, <1>4, ModulusType DEF Compare
<1>6. x = y <=> a = b
  BY <1>1, <1>2, <1>3, <1>4, ModulusType
<1> QED BY <1>5, <1>6 DEF a, b

-----------------------------------------------------------------------------
\* The words from distance m up to distance n.
Run(isn, m, n) == {Wrap(isn + d) : d \in m .. n - 1}

LEMMA RunJoins ==
  ASSUME NEW isn
  PROVE  \A l, m, n \in Int : l <= m /\ m <= n =>
           Run(isn, l, m) \union Run(isn, m, n) = Run(isn, l, n)
<1> SUFFICES ASSUME NEW l \in Int, NEW m \in Int, NEW n \in Int, l <= m, m <= n
             PROVE  Run(isn, l, m) \union Run(isn, m, n) = Run(isn, l, n)
  OBVIOUS
<1>1. l .. n - 1 = (l .. m - 1) \union (m .. n - 1)
  OBVIOUS
<1> QED BY <1>1, Zenon DEF Run

LEMMA RunsApart ==
  ASSUME NEW isn \in Word, NEW l \in Nat, NEW m \in Nat, NEW n \in Nat,
         l <= m, m <= n, n <= Modulus
  PROVE  Run(isn, l, m) \intersect Run(isn, m, n) = {}
<1> SUFFICES ASSUME NEW d \in l .. m - 1, NEW e \in m .. n - 1, Wrap(isn + d) = Wrap(isn + e)
             PROVE  FALSE
  BY DEF Run
<1>1. d \in Nat /\ e \in Nat /\ d < Modulus /\ e < Modulus /\ d # e
  BY ModulusType
<1> QED BY <1>1, PlaceOf

\* The bytes of a segment are a run.
LEMMA BytesAreRun ==
  ASSUME NEW isn \in Word, NEW seg, seg.seq \in Word, NEW i \in Nat, NEW j \in Nat,
         Ahead(isn, seg.seq) + j <= Modulus
  PROVE  Bytes(seg, i, j) = Run(isn, Ahead(isn, seg.seq) + i, Ahead(isn, seg.seq) + j)
<1> DEFINE a == Ahead(isn, seg.seq)
<1>1. a \in Nat
  BY AheadType
<1>2. ASSUME NEW d \in i .. j - 1
      PROVE  Wrap(seg.seq + d) = Wrap(isn + (a + d))
  <2>1. d \in Int /\ 0 <= a + d /\ a + d < Modulus
    BY <1>1, ModulusType
  <2>2. Wrap(seg.seq + d) \in Word /\ Ahead(isn, Wrap(seg.seq + d)) = a + d
    BY <2>1, PlaceMoves
  <2> QED BY <2>2, PlaceIs
<1> HIDE DEF a
<1>3. \A e \in a + i .. (a + j) - 1 : e - a \in i .. j - 1 /\ a + (e - a) = e
  BY <1>1
<1>4. \A d \in i .. j - 1 : a + d \in a + i .. (a + j) - 1
  BY <1>1
<1>5. \A d \in i .. j - 1 : Wrap(seg.seq + d) \in Run(isn, a + i, a + j)
  BY <1>2, <1>4 DEF Run
<1>6. \A e \in a + i .. (a + j) - 1 : Wrap(isn + e) \in Bytes(seg, i, j)
  <2> TAKE e \in a + i .. (a + j) - 1
  <2>1. Wrap(seg.seq + (e - a)) = Wrap(isn + (a + (e - a)))
    BY <1>2, <1>3
  <2> QED BY <1>3, <2>1 DEF Bytes
<1>7. Bytes(seg, i, j) \subseteq Run(isn, a + i, a + j)
  BY <1>5 DEF Bytes
<1>8. Run(isn, a + i, a + j) \subseteq Bytes(seg, i, j)
  BY <1>6 DEF Run
<1> QED BY <1>7, <1>8 DEF a

-----------------------------------------------------------------------------
\* The queue: no segment reaches half a circle from isn, they are in order, and
\* only the head, at remote_seq = r, has been sent in part.
QueuePlaced(isn, q, r) ==
  /\ \A i \in 1 .. Len(q) : /\ Ahead(isn, q[i].seq) + q[i].len + 2 < Half
                            /\ Ahead(isn, q[i].seq) + q[i].sent + 2 < Half
  /\ \A i, j \in 1 .. Len(q) : i < j => Ahead(isn, q[i].seq) < Ahead(isn, q[j].seq)
  /\ \A i \in 1 .. Len(q) : q[i].sent > 0 => i = 1 /\ q[i].seq = r

HeadSent(q) == IF q = << >> THEN 0 ELSE q[1].sent

Unbegun(q) == \A i \in 1 .. Len(q) : q[i].sent = 0

\* The fields of the segments of a queue.
LEMMA SegmentsAre ==
  ASSUME NEW isn \in Word, NEW q \in Seq(Segment)
  PROVE  /\ Len(q) \in Nat /\ DOMAIN q = 1 .. Len(q) /\ (q = << >> <=> Len(q) = 0)
         /\ \A i \in 1 .. Len(q) :
              /\ q[i] \in Segment
              /\ q[i].seq \in Word /\ q[i].len \in Nat /\ q[i].sent \in Nat
              /\ Ahead(isn, q[i].seq) \in Nat
<1>1. Len(q) \in Nat /\ DOMAIN q = 1 .. Len(q) /\ (q = << >> <=> Len(q) = 0)
  BY LenProperties, EmptySeq
<1>2. \A i \in 1 .. Len(q) : q[i] \in Segment
  BY ElementOfSeq
<1>3. \A i \in 1 .. Len(q) : q[i].seq \in Word /\ q[i].len \in Nat /\ q[i].sent \in Nat
  BY <1>2 DEF Segment
<1> QED BY <1>1, <1>2, <1>3, AheadType

\* queue_tcp finds the first segment that is not before seq.
LEMMA PositionIs ==
  ASSUME NEW isn \in Word, NEW q \in Seq(Segment), NEW seq \in Word,
         Ahead(isn, seq) < Half,
         \A i \in 1 .. Len(q) : Ahead(isn, q[i].seq) < Half
  PROVE  LET m == QueuePosition(q, seq) IN
         /\ m \in 1 .. Len(q) + 1
         /\ \A j \in 1 .. m - 1 : Ahead(isn, q[j].seq) < Ahead(isn, seq)
         /\ m \in 1 .. Len(q) => Ahead(isn, q[m].seq) >= Ahead(isn, seq)
<1> DEFINE a == Ahead(isn, seq)
           at(i) == Ahead(isn, q[i].seq)
           before == {i \in DOMAIN q : \A j \in 1 .. i : Compare(q[j].seq, seq) < 0}
           early == {i \in 1 .. Len(q) : \A j \in 1 .. i : at(j) < a}
<1>1. /\ Len(q) \in Nat /\ DOMAIN q = 1 .. Len(q) /\ a \in Nat
      /\ \A i \in 1 .. Len(q) : q[i].seq \in Word /\ at(i) \in Nat
  BY SegmentsAre, AheadType
<1>2. \A i \in 1 .. Len(q) : Compare(q[i].seq, seq) < 0 <=> at(i) < a
  BY <1>1, PlaceOrder
<1>3. before = early
  <2>1. \A i \in 1 .. Len(q) : \A j \in 1 .. i : j \in 1 .. Len(q)
    BY <1>1
  <2> HIDE DEF a, at
  <2> QED BY <1>1, <1>2, <2>1
<1>4. QueuePosition(q, seq) = Cardinality(early) + 1
  BY <1>3 DEF QueuePosition
<1> HIDE DEF a, at, before
<1>5. \E m \in 0 .. Len(q) : early = 1 .. m
  <2>1. CASE early = {}
    <3>1. 0 \in 0 .. Len(q) /\ 1 .. 0 = {}
      BY <1>1
    <3> QED BY <2>1, <3>1
  <2>2. CASE early # {}
    <3>1. early \in SUBSET (0 .. Len(q))
      BY <1>1
    <3>2. PICK m \in early : \A k \in early : k <= m
      <4> HIDE DEF early
      <4> QED BY <1>1, <2>2, <3>1, GreatestElement
    <3>3. m \in 0 .. Len(q) /\ 1 .. m \subseteq early
      BY <1>1, <3>2
    <3>4. early \subseteq 1 .. m
      BY <1>1, <3>2
    <3> QED BY <3>3, <3>4
  <2> QED BY <2>1, <2>2
<1>6. PICK m \in 0 .. Len(q) : early = 1 .. m
  BY <1>5
<1>7. QueuePosition(q, seq) = m + 1
  <2>1. Cardinality(1 .. m) = m
    <3>1. m \in Nat
      BY <1>1, <1>6
    <3> QED BY <3>1, FS_Interval
  <2> HIDE DEF early
  <2> QED BY <1>4, <1>6, <2>1
<1>8. \A j \in 1 .. m : at(j) < a
  BY <1>1, <1>6
<1>9. m + 1 \in 1 .. Len(q) => at(m + 1) >= a
  <2> SUFFICES ASSUME m + 1 \in 1 .. Len(q), ~(at(m + 1) >= a) PROVE FALSE
    OBVIOUS
  <2>1. at(m + 1) < a
    BY <1>1
  <2>2. \A j \in 1 .. m + 1 : at(j) < a
    BY <1>1, <1>8, <2>1
  <2>3. m + 1 \in early
    BY <2>2
  <2> QED BY <1>1, <1>6, <2>3
<1>10. m + 1 \in 1 .. Len(q) + 1 /\ (m + 1) - 1 = m
  BY <1>1, <1>6
<1> QED BY <1>7, <1>8, <1>9, <1>10 DEF a, at

\* A queue with a segment inserted.
LEMMA InsertAtIs ==
  ASSUME NEW q \in Seq(Segment), NEW i \in 1 .. Len(q) + 1, NEW e \in Segment
  PROVE  /\ Len(InsertAt(q, i, e)) = Len(q) + 1
         /\ \A j \in 1 .. Len(q) + 1 :
              InsertAt(q, i, e)[j] = IF j < i THEN q[j] ELSE IF j = i THEN e ELSE q[j - 1]
<1> DEFINE l == SubSeq(q, 1, i - 1)
           r == SubSeq(q, i, Len(q))
           c == l \o <<e>>
<1>1. Len(q) \in Nat /\ \A j \in 1 .. Len(q) : q[j] \in Segment
  BY LenProperties, ElementOfSeq
<1>2. l \in Seq(Segment) /\ Len(l) = i - 1 /\ \A j \in 1 .. i - 1 : l[j] = q[j]
  BY <1>1, SubSeqProperties
<1>3. /\ r \in Seq(Segment) /\ Len(r) = Len(q) - i + 1
      /\ \A j \in 1 .. Len(q) - i + 1 : r[j] = q[i + j - 1]
  BY <1>1, SubSeqProperties
<1>4. <<e>> \in Seq(Segment) /\ Len(<<e>>) = 1 /\ <<e>>[1] = e
  OBVIOUS
<1> HIDE DEF l, r
<1>5. /\ c \in Seq(Segment) /\ Len(c) = i
      /\ \A j \in 1 .. i : c[j] = IF j < i THEN q[j] ELSE e
  <2> DEFINE one == <<e>>
  <2>1. one \in Seq(Segment) /\ Len(one) = 1 /\ one[1] = e
    BY <1>4
  <2> HIDE DEF one
  <2>2. /\ l \o one \in Seq(Segment) /\ Len(l \o one) = Len(l) + Len(one)
        /\ \A j \in 1 .. Len(l) + Len(one) :
             (l \o one)[j] = IF j <= Len(l) THEN l[j] ELSE one[j - Len(l)]
    BY <1>2, <2>1, ConcatProperties
  <2>3. i \in Nat
    BY <1>1
  <2> QED BY <1>2, <2>1, <2>2, <2>3 DEF one
<1>6. InsertAt(q, i, e) = c \o r
  BY DEF InsertAt, l, r
<1> HIDE DEF c
<1>7. /\ Len(c \o r) = Len(c) + Len(r)
      /\ \A j \in 1 .. Len(c) + Len(r) : (c \o r)[j] = IF j <= Len(c) THEN c[j] ELSE r[j - Len(c)]
  BY <1>3, <1>5, ConcatProperties
<1>8. i \in Nat /\ Len(c) + Len(r) = Len(q) + 1
  BY <1>1, <1>3, <1>5
<1>9. ASSUME NEW j \in 1 .. Len(q) + 1
      PROVE  (c \o r)[j] = IF j < i THEN q[j] ELSE IF j = i THEN e ELSE q[j - 1]
  <2>1. CASE j <= i
    BY <1>1, <1>5, <1>7, <1>8, <2>1
  <2>2. CASE j > i
    <3>1. (c \o r)[j] = r[j - i]
      BY <1>1, <1>5, <1>7, <1>8, <2>2
    <3>2. j - i \in 1 .. Len(q) - i + 1 /\ i + (j - i) - 1 = j - 1
      BY <1>1, <1>8, <2>2
    <3>3. r[j - i] = q[i + (j - i) - 1]
      BY <1>3, <3>2
    <3> QED BY <1>1, <1>8, <2>2, <3>1, <3>2, <3>3
  <2> QED BY <1>1, <1>8, <2>1, <2>2
<1> QED BY <1>6, <1>7, <1>8, <1>9

PacketPlaced(isn, p) == Ahead(isn, p.seq) + p.len + 2 < Half

\* queue_tcp keeps the queue in order and what was sent of its head, whether it
\* drops, inserts or replaces.
LEMMA QueueTcpQueue ==
  ASSUME NEW isn \in Word, NEW t \in Session, NEW p \in Packet, PacketPlaced(isn, p),
         Ahead(isn, t.remote_seq) < Half, QueuePlaced(isn, t.forward, t.remote_seq)
  PROVE  \E f \in Seq(Segment) :
           /\ QueueTcp(t, p) = [t EXCEPT !.forward = f]
           /\ QueuePlaced(isn, f, t.remote_seq)
           /\ HeadSent(f) = HeadSent(t.forward)
           /\ Unbegun(t.forward) => Unbegun(f)
<1> DEFINE q   == t.forward
           r   == t.remote_seq
           a   == Ahead(isn, p.seq)
           at(i) == Ahead(isn, q[i].seq)
           m   == QueuePosition(q, p.seq)
           new == [seq |-> p.seq, len |-> p.len, sent |-> 0]
<1>1. /\ q \in Seq(Segment) /\ r \in Word /\ p.seq \in Word /\ p.len \in Nat /\ a \in Nat
      /\ Half \in Nat
  <2>1. q \in Seq(Segment) /\ r \in Word /\ p.seq \in Word /\ p.len \in Nat
    BY DEF Session, Packet
  <2> QED BY <2>1, AheadType, HalfAssumption
<1>2. /\ Len(q) \in Nat /\ DOMAIN q = 1 .. Len(q) /\ (q = << >> <=> Len(q) = 0)
      /\ \A i \in 1 .. Len(q) :
           /\ q[i] \in Segment
           /\ q[i].seq \in Word /\ q[i].len \in Nat /\ q[i].sent \in Nat /\ at(i) \in Nat
  <2> HIDE DEF q
  <2> QED BY <1>1, SegmentsAre
<1>3. /\ \A i \in 1 .. Len(q) : at(i) + q[i].len + 2 < Half /\ at(i) + q[i].sent + 2 < Half
      /\ \A i, j \in 1 .. Len(q) : i < j => at(i) < at(j)
      /\ \A i \in 1 .. Len(q) : q[i].sent > 0 => i = 1 /\ q[i].seq = r
      /\ a + p.len + 2 < Half
  BY DEF QueuePlaced, PacketPlaced
<1>4. a < Half /\ Ahead(isn, r) < Half /\ Ahead(isn, r) \in Nat
      /\ \A i \in 1 .. Len(q) : at(i) < Half
  <2>1. \A i \in 1 .. Len(q) : at(i) < Half
    <3> TAKE i \in 1 .. Len(q)
    <3>1. at(i) \in Nat /\ q[i].len \in Nat /\ at(i) + q[i].len + 2 < Half
      BY <1>2, <1>3
    <3> HIDE DEF at
    <3> QED BY <1>1, <3>1
  <2>2. Ahead(isn, r) \in Nat
    BY <1>1, AheadType
  <2> HIDE DEF a, r
  <2> QED BY <1>1, <1>3, <2>1, <2>2 DEF r
<1>5. /\ m \in 1 .. Len(q) + 1
      /\ \A j \in 1 .. m - 1 : at(j) < a
      /\ m \in 1 .. Len(q) => at(m) >= a
  <2> HIDE DEF q
  <2> QED BY <1>1, <1>4, PositionIs
<1>6. CASE Compare(p.seq, r) < 0
  <2>1. QueueTcp(t, p) = t
    BY <1>6 DEF QueueTcp
  <2>2. t = [t EXCEPT !.forward = q]
    BY DEF Session
  <2> QED BY <1>1, <2>1, <2>2
<1>7. CASE ~(Compare(p.seq, r) < 0) /\ m \in DOMAIN q /\ q[m].seq = p.seq
  <2> DEFINE old == q[m]
             seg == [old EXCEPT !.len = p.len]
             f   == [q EXCEPT ![m] = seg]
  <2>1. QueueTcp(t, p) = [t EXCEPT !.forward = f]
    BY <1>7 DEF QueueTcp
  <2>2. m \in 1 .. Len(q) /\ old \in Segment /\ old.seq = p.seq
    BY <1>2, <1>7
  <2>3. seg \in Segment /\ seg.seq = old.seq /\ seg.len = p.len /\ seg.sent = old.sent
    <3> HIDE DEF old
    <3> QED BY <1>1, <2>2 DEF Segment
  <2>4. old.sent = q[m].sent /\ old.seq = q[m].seq
    OBVIOUS
  <2> HIDE DEF m, q, old, seg
  <2>5. /\ f \in Seq(Segment) /\ Len(f) = Len(q)
        /\ \A i \in 1 .. Len(q) : f[i] = IF i = m THEN seg ELSE q[i]
    BY <1>1, <1>2, <2>2, <2>3, ExceptSeq
  <2> HIDE DEF f
  <2>6. \A i \in 1 .. Len(f) :
          /\ f[i].seq = q[i].seq /\ f[i].sent = q[i].sent
          /\ f[i].len = IF i = m THEN p.len ELSE q[i].len
    BY <2>3, <2>4, <2>5
  <2>7. QueuePlaced(isn, f, r)
    <3>1. \A i \in 1 .. Len(f) : Ahead(isn, f[i].seq) + f[i].len + 2 < Half
      BY <1>3, <2>2, <2>4, <2>5, <2>6
    <3> QED BY <1>3, <2>5, <2>6, <3>1 DEF QueuePlaced
  <2>8. HeadSent(f) = HeadSent(q) /\ (Unbegun(q) => Unbegun(f))
    <3>1. f = << >> <=> q = << >>
      BY <1>2, <2>5, EmptySeq
    <3> QED BY <1>2, <2>5, <2>6, <3>1 DEF HeadSent, Unbegun
  <2> QED BY <2>1, <2>5, <2>7, <2>8 DEF q
<1>8. CASE ~(Compare(p.seq, r) < 0) /\ ~(m \in DOMAIN q /\ q[m].seq = p.seq)
  <2> DEFINE f == InsertAt(q, m, new)
  <2>1. QueueTcp(t, p) = [t EXCEPT !.forward = f]
    BY <1>8 DEF QueueTcp
  <2>2. new \in Segment /\ new.seq = p.seq /\ new.len = p.len /\ new.sent = 0
    BY <1>1 DEF Segment
  <2>3. Ahead(isn, r) <= a
    <3>1. ~(a < Ahead(isn, r))
      <4> HIDE DEF r
      <4> QED BY <1>1, <1>4, <1>8, PlaceOrder
    <3> HIDE DEF a, r
    <3> QED BY <1>1, <1>4, <3>1
  <2>4. m \in 1 .. Len(q) => a < at(m)
    <3> SUFFICES ASSUME m \in 1 .. Len(q) PROVE a < at(m)
      OBVIOUS
    <3>1. q[m].seq # p.seq
      BY <1>2, <1>8
    <3>2. at(m) # a
      <4> HIDE DEF m, q
      <4> QED BY <1>1, <1>2, <1>4, <3>1, PlaceOrder
    <3> HIDE DEF a, m, q
    <3> QED BY <1>1, <1>2, <1>5, <3>2
\* A head that has been sent in part stays the head.
  <2>5. m = 1 => Unbegun(q)
    <3> SUFFICES ASSUME m = 1, NEW i \in 1 .. Len(q) PROVE q[i].sent = 0
      BY DEF Unbegun
    <3>1. i # 1 => q[i].sent = 0
      BY <1>2, <1>3
    <3>2. i = 1 => q[i].seq # r
      <4> HIDE DEF a, m, q, r
      <4> QED BY <1>1, <1>2, <1>4, <2>3, <2>4
    <3> QED BY <1>2, <1>3, <3>1, <3>2
  <2> HIDE DEF m, q, new, a, r
  <2>6. /\ f \in Seq(Segment) /\ Len(f) = Len(q) + 1
        /\ \A j \in 1 .. Len(q) + 1 :
             f[j] = IF j < m THEN q[j] ELSE IF j = m THEN new ELSE q[j - 1]
    <3>1. InsertAt(q, m, new) \in Seq(Segment)
      BY <1>1, <1>5, <2>2, InsertAtType
    <3>2. /\ Len(InsertAt(q, m, new)) = Len(q) + 1
          /\ \A j \in 1 .. Len(q) + 1 :
               InsertAt(q, m, new)[j] = IF j < m THEN q[j] ELSE IF j = m THEN new ELSE q[j - 1]
      BY <1>1, <1>5, <2>2, InsertAtIs
    <3> QED BY <3>1, <3>2
  <2> HIDE DEF f
  <2>7. m \in Nat /\ 1 <= m /\ m <= Len(q) + 1
    BY <1>2, <1>5
  <2>8. \A j \in 1 .. Len(f) : Ahead(isn, f[j].seq) =
          IF j < m THEN at(j) ELSE IF j = m THEN a ELSE at(j - 1)
    BY <1>2, <2>2, <2>6, <2>7 DEF a
  <2>9. \A j \in 1 .. Len(f) : j > m => j - 1 \in 1 .. Len(q) /\ j - 1 >= m
    BY <1>2, <2>6, <2>7
  <2>10. QueuePlaced(isn, f, r)
    <3>1. ASSUME NEW j \in 1 .. Len(f)
          PROVE  /\ Ahead(isn, f[j].seq) + f[j].len + 2 < Half
                 /\ Ahead(isn, f[j].seq) + f[j].sent + 2 < Half
                 /\ f[j].sent > 0 => j = 1 /\ f[j].seq = r
      <4>1. CASE j < m
        <5>1. j \in 1 .. Len(q) /\ f[j] = q[j]
          BY <1>2, <2>6, <2>7, <4>1
        <5> QED BY <1>3, <5>1
      <4>2. CASE j = m
        BY <1>1, <1>3, <2>2, <2>6, <2>8, <4>2
      <4>3. CASE j > m
        <5>1. j - 1 \in 1 .. Len(q) /\ f[j] = q[j - 1]
          BY <2>6, <2>7, <2>9, <4>3
        <5>2. q[j - 1].sent > 0 => j - 1 = 1 /\ m = 1
          BY <1>3, <2>7, <5>1, <4>3
        <5>3. ~(q[j - 1].sent > 0)
          BY <1>2, <2>5, <5>1, <5>2 DEF Unbegun
        <5> QED BY <1>3, <5>1, <5>3
      <4> QED BY <2>6, <2>7, <4>1, <4>2, <4>3
    <3>2. ASSUME NEW i \in 1 .. Len(f), NEW j \in 1 .. Len(f), i < j
          PROVE  Ahead(isn, f[i].seq) < Ahead(isn, f[j].seq)
      <4>1. CASE j < m
        <5>1. i \in 1 .. Len(q) /\ j \in 1 .. Len(q)
          BY <1>2, <2>7, <3>2, <4>1
        <5> QED BY <1>3, <2>7, <2>8, <3>2, <4>1, <5>1
      <4>2. CASE j = m
        <5>1. i \in 1 .. m - 1
          BY <2>7, <3>2, <4>2
        <5>2. at(i) < a
          BY <1>5, <5>1
        <5> QED BY <2>7, <2>8, <3>2, <4>2, <5>2
      <4>3. CASE j > m /\ i < m
        <5>1. i \in 1 .. Len(q) /\ j - 1 \in 1 .. Len(q) /\ i < j - 1
          BY <1>2, <2>7, <2>9, <3>2, <4>3
        <5>2. at(i) < at(j - 1)
          BY <1>3, <5>1
        <5> QED BY <2>7, <2>8, <4>3, <5>2
      <4>4. CASE j > m /\ i = m
        <5>1. m \in 1 .. Len(q) /\ j - 1 \in 1 .. Len(q) /\ m <= j - 1
          BY <1>2, <2>7, <2>9, <3>2, <4>4
        <5>2. a < at(j - 1)
          <6>1. m < j - 1 => at(m) < at(j - 1)
            BY <1>3, <5>1
          <6>2. m = j - 1 \/ m < j - 1
            BY <2>7, <5>1
          <6>3. at(m) \in Nat /\ at(j - 1) \in Nat
            BY <1>2, <5>1
          <6> HIDE DEF at
          <6> QED BY <1>1, <2>4, <5>1, <6>1, <6>2, <6>3
        <5> QED BY <2>7, <2>8, <4>4, <5>2
      <4>5. CASE j > m /\ i > m
        <5>1. i - 1 \in 1 .. Len(q) /\ j - 1 \in 1 .. Len(q) /\ i - 1 < j - 1
          BY <1>2, <2>7, <2>9, <3>2, <4>5
        <5>2. at(i - 1) < at(j - 1)
          BY <1>3, <5>1
        <5> QED BY <2>7, <2>8, <4>5, <5>2
      <4> QED BY <2>6, <2>7, <4>1, <4>2, <4>3, <4>4, <4>5
    <3> QED BY <3>1, <3>2 DEF QueuePlaced
  <2>11. HeadSent(f) = HeadSent(q)
    <3>1. f # << >> /\ 1 \in 1 .. Len(f)
      BY <1>2, <2>6, EmptySeq
    <3>2. CASE m = 1
      <4>1. f[1] = new
        BY <2>6, <2>7, <3>1, <3>2
      <4>2. HeadSent(q) = 0
        BY <1>2, <2>5, <3>2 DEF HeadSent, Unbegun
      <4> QED BY <2>2, <3>1, <4>1, <4>2 DEF HeadSent
    <3>3. CASE m # 1
      <4>1. f[1] = q[1] /\ q # << >>
        BY <1>2, <2>6, <2>7, <3>1, <3>3
      <4> QED BY <3>1, <4>1 DEF HeadSent
    <3> QED BY <3>2, <3>3
  <2>12. Unbegun(q) => Unbegun(f)
    <3> SUFFICES ASSUME Unbegun(q), NEW j \in 1 .. Len(f) PROVE f[j].sent = 0
      BY DEF Unbegun
    <3>1. CASE j < m
      <4>1. j \in 1 .. Len(q) /\ f[j] = q[j]
        BY <1>2, <2>6, <2>7, <3>1
      <4> QED BY <4>1 DEF Unbegun
    <3>2. CASE j = m
      BY <2>2, <2>6, <3>2
    <3>3. CASE j > m
      <4>1. j - 1 \in 1 .. Len(q) /\ f[j] = q[j - 1]
        BY <2>6, <2>7, <2>9, <3>3
      <4> QED BY <4>1 DEF Unbegun
    <3> QED BY <2>6, <2>7, <3>1, <3>2, <3>3
  <2> QED BY <2>1, <2>6, <2>10, <2>11, <2>12 DEF q, r
<1> QED BY <1>6, <1>7, <1>8

-----------------------------------------------------------------------------
\* A segment that the forwarding loop takes continues the stream, and no more of
\* it was sent than it has: len - sent would not be less than the free space.
LEMMA SendableIs ==
  ASSUME NEW isn \in Word, NEW t \in Session, NEW room \in Nat, room <= Half,
         QueuePlaced(isn, t.forward, t.remote_seq), NEW i \in Nat, Sendable(t, room, i)
  PROVE  LET q == t.forward IN
         /\ i \in 1 .. Len(q)
         /\ q[i].seq = IF i = 1 THEN t.remote_seq ELSE Wrap(q[i-1].seq + q[i-1].len)
         /\ q[i].sent <= q[i].len /\ Unsent(q[i]) = q[i].len - q[i].sent
         /\ i > 1 => Ahead(isn, q[i].seq) = Ahead(isn, q[i-1].seq) + q[i-1].len
<1> DEFINE q    == t.forward
           next == IF i = 1 THEN t.remote_seq ELSE Wrap(q[i-1].seq + q[i-1].len)
           sent == IF i = 1 THEN 0 ELSE Wrap(next - t.remote_seq - q[1].sent)
<1>1. q \in Seq(Segment) /\ t.remote_seq \in Word
  BY DEF Session
<1>2. /\ Len(q) \in Nat /\ DOMAIN q = 1 .. Len(q)
      /\ \A j \in 1 .. Len(q) :
           /\ q[j].seq \in Word /\ q[j].len \in Nat /\ q[j].sent \in Nat
           /\ Ahead(isn, q[j].seq) \in Nat
  <2> HIDE DEF q
  <2> QED BY <1>1, SegmentsAre
<1>3. i \in 1 .. Len(q) /\ q[i].seq = next /\ Unsent(q[i]) < room - sent
  BY <1>2 DEF Sendable
<1>4. \A j \in 1 .. Len(q) : /\ Ahead(isn, q[j].seq) + q[j].len + 2 < Half
                             /\ Ahead(isn, q[j].seq) + q[j].sent + 2 < Half
  BY DEF QueuePlaced
<1> HIDE DEF q
<1>5. i > 1 => i - 1 \in 1 .. Len(q)
  BY <1>2, <1>3
<1>6. i > 1 => /\ next \in Word
               /\ Ahead(isn, next) = Ahead(isn, q[i-1].seq) + q[i-1].len
  <2> SUFFICES ASSUME i > 1
               PROVE  /\ next \in Word
                      /\ Ahead(isn, next) = Ahead(isn, q[i-1].seq) + q[i-1].len
    OBVIOUS
  <2> DEFINE x == q[i-1].seq
             l == q[i-1].len
             a == Ahead(isn, x)
  <2>1. x \in Word /\ l \in Nat /\ a \in Nat /\ a + l + 2 < Half
    BY <1>2, <1>4, <1>5
  <2>2. next = Wrap(x + l)
    BY <1>3
  <2> HIDE DEF x, l, next
  <2>3. 0 <= a + l /\ a + l < Modulus /\ l \in Int
    <3> HIDE DEF a
    <3> QED BY <2>1, ModulusType, HalfAssumption
  <2>4. Wrap(x + l) \in Word /\ Ahead(isn, Wrap(x + l)) = a + l
    BY <2>1, <2>3, PlaceMoves
  <2> QED BY <2>2, <2>4 DEF x, l, next
<1>7. sent \in Nat
  <2>1. CASE i = 1
    BY <2>1
  <2>2. CASE i # 1
    <3>1. next \in Word /\ q[1].sent \in Nat
      BY <1>2, <1>3, <1>6, <2>2
    <3> HIDE DEF next
    <3>2. next - t.remote_seq - q[1].sent \in Int
      BY <1>1, <3>1 DEF Word
    <3>3. \A m \in Int : Wrap(m) \in Nat
      BY ModulusType DEF Wrap
    <3> QED BY <2>2, <3>2, <3>3
  <2> QED BY <2>1, <2>2
<1> HIDE DEF next, sent
<1>8. q[i].sent <= q[i].len /\ Unsent(q[i]) = q[i].len - q[i].sent
  <2> DEFINE l == q[i].len
             e == q[i].sent
  <2>1. l \in Nat /\ e \in Nat /\ l < Half /\ e < Half /\ Half \in Nat
    BY <1>2, <1>3, <1>4, HalfAssumption
  <2>2. Unsent(q[i]) = Wrap(l - e)
    BY DEF Unsent
  <2> HIDE DEF l, e
  <2>3. Wrap(l - e) = IF l - e < 0 THEN l - e + Modulus ELSE l - e
    BY <2>1, WrapNear, ModulusType
  <2>4. Wrap(l - e) < Half
    BY <1>3, <1>7, <2>1, <2>2, <2>3, ModulusType
  <2>5. e <= l /\ Wrap(l - e) = l - e
    BY <2>1, <2>3, <2>4, ModulusType
  <2> QED BY <2>2, <2>5 DEF l, e
<1> QED BY <1>3, <1>6, <1>8 DEF q, next

\* The first k segments, each beginning where the one before ends, hold a run.
LEMMA WholeIsRun ==
  ASSUME NEW isn \in Word, NEW q \in Seq(Segment), NEW r, QueuePlaced(isn, q, r),
         NEW k \in 1 .. Len(q), q[1].sent <= q[1].len,
         \A i \in 2 .. k : Ahead(isn, q[i].seq) = Ahead(isn, q[i-1].seq) + q[i-1].len
  PROVE  LET m == Ahead(isn, q[1].seq) + q[1].sent
             n == Ahead(isn, q[k].seq) + q[k].len
         IN  /\ m <= n
             /\ UNION {Bytes(q[i], q[i].sent, q[i].len) : i \in 1 .. k} = Run(isn, m, n)
<1> DEFINE at(i) == Ahead(isn, q[i].seq)
           m == at(1) + q[1].sent
           n == at(k) + q[k].len
           all == {Bytes(q[i], q[i].sent, q[i].len) : i \in 1 .. k}
<1>1. /\ Len(q) \in Nat
      /\ \A j \in 1 .. Len(q) :
           q[j].seq \in Word /\ q[j].len \in Nat /\ q[j].sent \in Nat /\ at(j) \in Nat
  BY SegmentsAre
<1>2. /\ \A j \in 1 .. Len(q) : at(j) + q[j].len + 2 < Half /\ at(j) + q[j].sent + 2 < Half
      /\ \A i, j \in 1 .. Len(q) : i < j => at(i) < at(j)
      /\ \A j \in 1 .. Len(q) : q[j].sent > 0 => j = 1
  BY DEF QueuePlaced
<1>3. \A i \in 2 .. k : at(i) = at(i - 1) + q[i-1].len
  OBVIOUS
<1> HIDE DEF at
<1>4. ASSUME NEW i \in 1 .. k
      PROVE  /\ i \in 1 .. Len(q) /\ Half \in Nat
             /\ Bytes(q[i], q[i].sent, q[i].len)
                  = Run(isn, at(i) + q[i].sent, at(i) + q[i].len)
  <2>1. i \in 1 .. Len(q) /\ Half \in Nat
    BY <1>1, HalfAssumption
  <2>2. at(i) \in Nat /\ q[i].len \in Nat /\ q[i].sent \in Nat /\ q[i].seq \in Word
    BY <1>1, <2>1
  <2>3. at(i) + q[i].len + 2 < Half
    BY <1>2, <2>1
  <2>4. at(i) + q[i].len <= Modulus
    BY <2>1, <2>2, <2>3, ModulusType
  <2>5. Bytes(q[i], q[i].sent, q[i].len) = Run(isn, at(i) + q[i].sent, at(i) + q[i].len)
    BY <2>2, <2>4, BytesAreRun DEF at
  <2> QED BY <2>1, <2>5
\* What a segment holds lies between.
<1>5. ASSUME NEW i \in 1 .. k
      PROVE  m <= at(i) + q[i].sent /\ at(i) + q[i].len <= n
  <2>1. i \in 1 .. Len(q) /\ 1 \in 1 .. Len(q) /\ k \in 1 .. Len(q)
    BY <1>1
  <2>2. m <= at(i) + q[i].sent
    <3>1. CASE i = 1
      BY <1>1, <2>1, <3>1
    <3>2. CASE i > 1
      <4>1. 2 \in 2 .. k /\ 2 \in 1 .. Len(q) /\ 2 - 1 = 1
        BY <1>1, <2>1, <3>2
      <4>2. at(2) = at(1) + q[1].len
        BY <1>3, <4>1
      <4>3. i = 2 \/ at(2) < at(i)
        BY <1>2, <2>1, <3>2, <4>1
      <4>4. at(2) \in Nat /\ at(i) \in Nat
        BY <1>1, <2>1, <4>1
      <4>5. at(2) <= at(i)
        BY <4>3, <4>4
      <4>6. q[i].sent \in Nat /\ q[1].sent \in Nat /\ q[1].len \in Nat /\ at(1) \in Nat
        BY <1>1, <2>1
      <4>7. q[1].sent <= q[1].len
        OBVIOUS
      <4>8. m <= at(1) + q[1].len
        BY <4>6, <4>7
      <4>9. m \in Nat
        BY <4>6
      <4> HIDE DEF m
      <4>10. m <= at(i)
        BY <4>2, <4>4, <4>5, <4>8, <4>9
      <4> QED BY <4>4, <4>6, <4>9, <4>10
    <3> QED BY <3>1, <3>2
  <2>3. at(i) + q[i].len <= n
    <3>1. CASE i = k
      BY <1>1, <2>1, <3>1
    <3>2. CASE i < k
      <4>1. i + 1 \in 2 .. k /\ i + 1 \in 1 .. Len(q) /\ (i + 1) - 1 = i
        BY <1>1, <3>2
      <4>2. at(i + 1) = at(i) + q[i].len
        BY <1>3, <4>1
      <4>3. i + 1 = k \/ at(i + 1) < at(k)
        <5>1. i + 1 = k \/ i + 1 < k
          BY <1>1, <3>2
        <5> QED BY <1>2, <2>1, <4>1, <5>1
      <4>4. at(i + 1) \in Nat /\ at(k) \in Nat
        BY <1>1, <2>1, <4>1
      <4>5. at(i + 1) <= at(k)
        BY <4>3, <4>4
      <4> QED BY <1>1, <2>1, <4>2, <4>4, <4>5
    <3> QED BY <3>1, <3>2
  <2> QED BY <2>2, <2>3
<1>6. m \in Nat /\ n \in Nat /\ m <= n
  <2>1. 1 \in 1 .. k /\ 1 \in 1 .. Len(q) /\ k \in 1 .. Len(q)
    BY <1>1
  <2>2. at(1) + q[1].len <= n
    BY <1>5, <2>1
  <2>3. /\ at(1) \in Nat /\ q[1].sent \in Nat /\ q[1].len \in Nat
        /\ at(k) \in Nat /\ q[k].len \in Nat
    BY <1>1, <2>1
  <2>4. q[1].sent <= q[1].len
    OBVIOUS
  <2>5. m \in Nat /\ n \in Nat
    BY <2>3
  <2>6. m <= at(1) + q[1].len
    BY <2>3, <2>4
  <2>7. at(1) + q[1].len \in Nat
    BY <2>3
  <2> HIDE DEF at, m, n
  <2> QED BY <2>2, <2>5, <2>6, <2>7
<1>7. UNION all \subseteq Run(isn, m, n)
  <2> SUFFICES ASSUME NEW i \in 1 .. k
               PROVE  Run(isn, at(i) + q[i].sent, at(i) + q[i].len) \subseteq Run(isn, m, n)
    BY <1>4
  <2>1. at(i) + q[i].sent \in Int /\ at(i) + q[i].len \in Int
    BY <1>1, <1>4
  <2> HIDE DEF m, n
  <2>2. \A d \in at(i) + q[i].sent .. (at(i) + q[i].len) - 1 : d \in m .. n - 1
    BY <1>5, <1>6, <2>1
  <2> QED BY <2>2 DEF Run
<1>8. Run(isn, m, n) \subseteq UNION all
  <2> SUFFICES ASSUME NEW d \in m .. n - 1
               PROVE  Wrap(isn + d) \in UNION all
    BY DEF Run
  <2> DEFINE S == {i \in 1 .. k : at(i) <= d}
  <2>1. 1 \in 1 .. k /\ 1 \in 1 .. Len(q) /\ k \in Nat
    BY <1>1
  <2>2. S \in SUBSET (0 .. k)
    BY <2>1
  <2>3. d \in Int /\ m <= d /\ d < n
    BY <1>6
  <2>4. 1 \in S
    <3>1. at(1) <= d
      BY <1>1, <2>1, <2>3
    <3> QED BY <2>1, <3>1
  <2>5. PICK i \in S : \A j \in S : j <= i
    <3> HIDE DEF S
    <3> QED BY <2>1, <2>2, <2>4, GreatestElement
  <2>6. i \in 1 .. k /\ i \in 1 .. Len(q) /\ at(i) <= d
    BY <1>4, <2>5
  <2>7. at(i) + q[i].sent <= d
    <3>1. CASE i = 1
      BY <2>3, <3>1
    <3>2. CASE i # 1
      <4>1. q[i].sent = 0
        BY <1>1, <1>2, <2>6, <3>2
      <4> QED BY <1>1, <2>6, <4>1
    <3> QED BY <3>1, <3>2
  <2>8. d < at(i) + q[i].len
    <3>1. CASE i = k
      BY <2>3, <3>1
    <3>2. CASE i < k
      <4>1. i + 1 \in 2 .. k /\ i + 1 \in 1 .. k /\ i + 1 \in 1 .. Len(q) /\ (i + 1) - 1 = i
        BY <1>1, <2>6, <3>2
      <4>2. at(i + 1) = at(i) + q[i].len
        BY <1>3, <4>1
      <4>3. ~(at(i + 1) <= d)
        <5>1. i + 1 \notin S
          BY <2>5, <2>6
        <5> QED BY <4>1, <5>1
      <4> QED BY <1>1, <2>3, <4>1, <4>2, <4>3
    <3> QED BY <2>6, <3>1, <3>2
  <2>9. d \in at(i) + q[i].sent .. (at(i) + q[i].len) - 1
    <3>1. at(i) \in Nat /\ q[i].sent \in Nat /\ q[i].len \in Nat
      BY <1>1, <2>6
    <3> QED BY <2>3, <2>7, <2>8, <3>1
  <2>10. Wrap(isn + d) \in Bytes(q[i], q[i].sent, q[i].len)
    BY <1>4, <2>6, <2>9 DEF Run
  <2> HIDE DEF S, m, n
  <2> QED BY <2>6, <2>10
<1>9. UNION all = Run(isn, m, n)
  BY <1>7, <1>8
<1> QED BY <1>6, <1>9 DEF at

-----------------------------------------------------------------------------
\* The stream of the app.  In places ahead of isn, its first byte is b and
\* remote_seq is r: the queue is in order, and what the server was given is the
\* run from b to r, without the FIN, and the sent part of the head of the queue.
\* A session that is not connected has taken nothing.
Placed(isn, t) ==
  LET b == Ahead(isn, t.remote_start) + t.synIn
      r == Ahead(isn, t.remote_seq)
  IN  /\ ~t.twice
      /\ QueuePlaced(isn, t.forward, t.remote_seq)
      /\ t.state # "none" =>
           /\ b + t.finIn <= r
           /\ r + 2 < Half + t.synIn + t.finIn
           /\ t.given = Run(isn, b, r - t.finIn + HeadSent(t.forward))
      /\ t.state = "LISTEN" => /\ t.remote_seq = t.remote_start
                               /\ t.synIn = 0 /\ t.finIn = 0 /\ Unbegun(t.forward)

\* u has t's stream.
StreamKept(t, u) ==
  /\ t.state # "none"
  /\ u.state = "LISTEN" => t.state = "LISTEN"
  /\ u.remote_start = t.remote_start /\ u.remote_seq = t.remote_seq
  /\ u.forward = t.forward /\ u.given = t.given /\ u.twice = t.twice
  /\ u.synIn = t.synIn /\ u.finIn = t.finIn

\* u has counted the app's SYN.
SynTaken(t, u) ==
  /\ t.state = "LISTEN" /\ u.state # "LISTEN"
  /\ u.remote_start = t.remote_start /\ u.remote_seq = Wrap(t.remote_seq + 1)
  /\ u.forward = t.forward /\ u.given = t.given /\ u.twice = t.twice
  /\ u.synIn = t.synIn + 1 /\ u.finIn = t.finIn

\* u has counted the app's FIN.
FinTaken(t, u) ==
  /\ t.state # "none" /\ u.state # "LISTEN"
  /\ t.forward = << >> /\ t.finIn = 0
  /\ u.remote_start = t.remote_start /\ u.remote_seq = Wrap(t.remote_seq + 1)
  /\ u.forward = t.forward /\ u.given = t.given /\ u.twice = t.twice
  /\ u.synIn = t.synIn /\ u.finIn = t.finIn + 1

Moves(t, u) == StreamKept(t, u) \/ SynTaken(t, u)

LEMMA MovesTransitive ==
  ASSUME NEW t, NEW u, NEW v, Moves(t, u), Moves(u, v)
  PROVE  Moves(t, v)
BY DEF Moves, StreamKept, SynTaken

LEMMA KeptPlaced ==
  ASSUME NEW isn, NEW t, NEW u, StreamKept(t, u), Placed(isn, t)
  PROVE  Placed(isn, u)
BY DEF StreamKept, Placed

\* The places of a session.
LEMMA PlacesAre ==
  ASSUME NEW isn \in Word, NEW t \in Session
  PROVE  /\ Ahead(isn, t.remote_start) \in Nat /\ Ahead(isn, t.remote_seq) \in Nat
         /\ t.remote_seq \in Word /\ t.synIn \in Nat /\ t.finIn \in Nat
         /\ t.forward \in Seq(Segment) /\ Half \in Nat /\ Half + 2 < Modulus
<1>1. /\ t.remote_start \in Word /\ t.remote_seq \in Word
      /\ t.synIn \in Nat /\ t.finIn \in Nat /\ t.forward \in Seq(Segment)
  BY DEF Session
<1>2. Half \in Nat /\ Half + 2 < Modulus
  BY HalfAssumption, ModulusType
<1> QED BY <1>1, <1>2, AheadType

\* The SYN takes the number before the first byte.
LEMMA SynPlaced ==
  ASSUME NEW isn \in Word, NEW t \in Session, NEW u, SynTaken(t, u), Placed(isn, t)
  PROVE  Placed(isn, u)
<1> DEFINE b == Ahead(isn, t.remote_start)
           r == Ahead(isn, t.remote_seq)
           f == t.forward
<1>1. /\ b \in Nat /\ r \in Nat /\ f \in Seq(Segment) /\ t.remote_seq \in Word
      /\ Half \in Nat /\ Half + 2 < Modulus
  BY PlacesAre
<1>2. /\ t.synIn = 0 /\ t.finIn = 0 /\ Unbegun(f) /\ b = r /\ r + 2 < Half
      /\ t.given = Run(isn, b, r + HeadSent(f)) /\ ~t.twice
      /\ QueuePlaced(isn, f, t.remote_seq)
  <2>1. t.synIn = 0 /\ t.finIn = 0 /\ Unbegun(f) /\ b = r
    BY DEF SynTaken, Placed
  <2>2. /\ r + 2 < Half + t.synIn + t.finIn /\ ~t.twice /\ QueuePlaced(isn, f, t.remote_seq)
        /\ t.given = Run(isn, b + t.synIn, r - t.finIn + HeadSent(f))
    BY DEF SynTaken, Placed
  <2>3. b + 0 = b /\ r - 0 = r /\ Half + 0 + 0 = Half
    BY <1>1
  <2> HIDE DEF b, r, f
  <2> QED BY <2>1, <2>2, <2>3
<1>3. /\ u.state # "LISTEN" /\ u.remote_start = t.remote_start
      /\ u.remote_seq = Wrap(t.remote_seq + 1)
      /\ u.forward = f /\ u.given = t.given /\ u.twice = t.twice
      /\ u.synIn = t.synIn + 1 /\ u.finIn = t.finIn
  BY DEF SynTaken
<1>4. Ahead(isn, Wrap(t.remote_seq + 1)) = r + 1
  <2>1. 0 <= r + 1 /\ r + 1 < Modulus
    BY <1>1, <1>2, ModulusType
  <2> QED BY <1>1, <2>1, PlaceMoves
<1>5. HeadSent(f) = 0
  <2>1. f # << >> => 1 \in 1 .. Len(f)
    BY <1>1, SegmentsAre
  <2> QED BY <1>2, <2>1 DEF HeadSent, Unbegun
<1> HIDE DEF b, r, f
<1>6. QueuePlaced(isn, f, u.remote_seq)
  <2>1. \A i \in 1 .. Len(f) : f[i].sent = 0
    BY <1>2 DEF Unbegun
  <2>2. \A i \in 1 .. Len(f) : ~(f[i].sent > 0)
    BY <2>1
  <2> QED BY <1>2, <2>2 DEF QueuePlaced
<1>7. t.given = Run(isn, b + 1, r + 1)
  <2>1. b .. r - 1 = {} /\ b + 1 .. (r + 1) - 1 = {} /\ r + 0 = r
    BY <1>1, <1>2
  <2>2. Run(isn, b, r) = {}
    BY <2>1, Zenon DEF Run
  <2>3. Run(isn, b + 1, r + 1) = {}
    BY <2>1, Zenon DEF Run
  <2> QED BY <1>2, <1>5, <2>1, <2>2, <2>3
<1>8. u.synIn = 1 /\ u.finIn = 0 /\ r + 1 - 0 + 0 = r + 1
  BY <1>1, <1>2, <1>3
<1>9. b + 1 + 0 <= r + 1 /\ r + 1 + 2 < Half + 1 + 0
  BY <1>1, <1>2
<1>10. Ahead(isn, u.remote_start) = b /\ Ahead(isn, u.remote_seq) = r + 1
  BY <1>3, <1>4 DEF b
<1>11. ~u.twice /\ u.given = Run(isn, b + 1, r + 1 - u.finIn + HeadSent(u.forward))
  BY <1>2, <1>3, <1>5, <1>7, <1>8
<1>12. b + 1 + u.finIn <= r + 1 /\ r + 1 + 2 < Half + u.synIn + u.finIn
  BY <1>8, <1>9
<1> DEFINE x == Ahead(isn, u.remote_start) + u.synIn
           y == Ahead(isn, u.remote_seq)
<1>13. x = b + 1 /\ y = r + 1
  BY <1>8, <1>10
<1> HIDE DEF x, y
<1>14. x + u.finIn <= y /\ y + 2 < Half + u.synIn + u.finIn
  BY <1>1, <1>2, <1>8, <1>13
<1>15. u.given = Run(isn, x, y - u.finIn + HeadSent(u.forward))
  <2> DEFINE e == y - u.finIn + HeadSent(u.forward)
  <2>1. x = b + 1 /\ e = r + 1 - u.finIn + HeadSent(u.forward)
    BY <1>1, <1>5, <1>3, <1>8, <1>13
  <2>2. u.given = Run(isn, b + 1, r + 1 - u.finIn + HeadSent(u.forward))
    BY <1>11
  <2> HIDE DEF e
  <2>3. u.given = Run(isn, x, e)
    BY <2>1, <2>2
  <2> QED BY <2>3 DEF e
<1>16. QueuePlaced(isn, u.forward, u.remote_seq)
  BY <1>3, <1>6
<1> QED BY <1>3, <1>11, <1>14, <1>15, <1>16 DEF Placed, x, y

LEMMA MovesPlaced ==
  ASSUME NEW isn \in Word, NEW t \in Session, NEW u, Moves(t, u), Placed(isn, t)
  PROVE  Placed(isn, u)
BY KeptPlaced, SynPlaced DEF Moves

\* The FIN takes the number after the last byte.
LEMMA FinPlaced ==
  ASSUME NEW isn \in Word, NEW t \in Session, NEW u, FinTaken(t, u), Placed(isn, t),
         t.synIn \in {0, 1}
  PROVE  Placed(isn, u)
<1> DEFINE b == Ahead(isn, t.remote_start) + t.synIn
           r == Ahead(isn, t.remote_seq)
           f == t.forward
<1>1. /\ b \in Nat /\ r \in Nat /\ f \in Seq(Segment) /\ t.remote_seq \in Word
      /\ Half \in Nat /\ Half + 2 < Modulus
  BY PlacesAre
<1>2. /\ b + t.finIn <= r /\ r + 2 < Half + t.synIn + t.finIn /\ ~t.twice
      /\ t.given = Run(isn, b, r - t.finIn + HeadSent(f)) /\ t.finIn = 0 /\ f = << >>
  BY DEF FinTaken, Placed
<1>3. /\ u.state # "LISTEN" /\ u.remote_start = t.remote_start
      /\ u.remote_seq = Wrap(t.remote_seq + 1)
      /\ u.forward = f /\ u.given = t.given /\ u.twice = t.twice
      /\ u.synIn = t.synIn /\ u.finIn = t.finIn + 1
  BY DEF FinTaken
<1>4. Ahead(isn, Wrap(t.remote_seq + 1)) = r + 1
  <2>1. r + 2 < Half + 1
    <3> HIDE DEF b, r, f
    <3> QED BY <1>1, <1>2
  <2>2. 0 <= r + 1 /\ r + 1 < Modulus
    BY <1>1, <2>1, ModulusType
  <2> QED BY <1>1, <2>2, PlaceMoves
<1>5. Ahead(isn, u.remote_start) + u.synIn = b /\ Ahead(isn, u.remote_seq) = r + 1
  BY <1>3, <1>4
<1> HIDE DEF b, r, f
<1>6. QueuePlaced(isn, f, u.remote_seq)
  BY <1>2 DEF QueuePlaced
<1>7. u.finIn = 1 /\ r + 1 - 1 = r - 0 /\ b + 1 <= r + 1
  BY <1>1, <1>2, <1>3
<1>8. r + 1 + 2 < Half + u.synIn + 1
  BY <1>1, <1>2, <1>3
<1>9. ~u.twice /\ u.given = Run(isn, b, r + 1 - u.finIn + HeadSent(u.forward))
  BY <1>2, <1>3, <1>7
<1>10. b + u.finIn <= r + 1 /\ r + 1 + 2 < Half + u.synIn + u.finIn
  BY <1>7, <1>8
<1> DEFINE x == Ahead(isn, u.remote_start) + u.synIn
           y == Ahead(isn, u.remote_seq)
<1>11. x = b /\ y = r + 1
  BY <1>5
<1> HIDE DEF x, y
<1>12. x + u.finIn <= y /\ y + 2 < Half + u.synIn + u.finIn
  <2>1. t.synIn \in Nat /\ u.synIn = t.synIn
    BY <1>3
  <2> QED BY <1>1, <1>2, <1>7, <1>8, <1>11, <2>1
<1>13. u.given = Run(isn, x, y - u.finIn + HeadSent(u.forward))
  <2> DEFINE e == y - u.finIn + HeadSent(u.forward)
  <2>1. x = b /\ e = r + 1 - u.finIn + HeadSent(u.forward)
    BY <1>1, <1>2, <1>3, <1>7, <1>11 DEF HeadSent
  <2>2. u.given = Run(isn, b, r + 1 - u.finIn + HeadSent(u.forward))
    BY <1>9
  <2> HIDE DEF e
  <2>3. u.given = Run(isn, x, e)
    BY <2>1, <2>2
  <2> QED BY <2>3 DEF e
<1>14. QueuePlaced(isn, u.forward, u.remote_seq)
  BY <1>3, <1>6
<1> QED BY <1>3, <1>9, <1>12, <1>13, <1>14 DEF Placed, x, y

-----------------------------------------------------------------------------
\* The queue after k whole segments and n bytes of the next.
Rest(q, k, n) ==
  LET rest == SubSeq(q, k + 1, Len(q))
  IN  IF n = 0 THEN rest ELSE [rest EXCEPT ![1].sent = @ + n]

\* What of the head of that queue the server then has, remote_seq, and the bytes.
HeadAfter(q, k, n) == IF n = 0 THEN 0 ELSE q[k + 1].sent + n

NextSeq(t, k) ==
  IF k = 0 THEN t.remote_seq ELSE Wrap(t.forward[k].seq + t.forward[k].len)

SentPart(q, k, n) ==
  IF n = 0 THEN {} ELSE Bytes(q[k + 1], q[k + 1].sent, q[k + 1].sent + n)

SentWhole(q, k) == UNION {Bytes(q[i], q[i].sent, q[i].len) : i \in 1 .. k}

SentOf(q, k, n) == SentPart(q, k, n) \union SentWhole(q, k)

LEMMA SentQueue ==
  ASSUME NEW isn \in Word, NEW q \in Seq(Segment), NEW r, NEW rr, QueuePlaced(isn, q, r),
         NEW k \in 0 .. Len(q), NEW n \in Nat, k > 0 \/ n > 0,
         n > 0 => /\ k < Len(q) /\ q[k + 1].seq = rr
                  /\ q[k + 1].sent + n <= q[k + 1].len
  PROVE  /\ QueuePlaced(isn, Rest(q, k, n), rr)
         /\ HeadSent(Rest(q, k, n)) = HeadAfter(q, k, n)
<1> DEFINE rest == SubSeq(q, k + 1, Len(q))
           f    == Rest(q, k, n)
           at(i) == Ahead(isn, q[i].seq)
<1>1. /\ Len(q) \in Nat /\ k \in Nat /\ k <= Len(q) /\ Half \in Nat
      /\ \A i \in 1 .. Len(q) : /\ q[i] \in Segment
                                /\ q[i].seq \in Word /\ q[i].len \in Nat /\ q[i].sent \in Nat
                                /\ at(i) \in Nat
  <2>1. /\ Len(q) \in Nat
        /\ \A i \in 1 .. Len(q) : /\ q[i] \in Segment
                                  /\ q[i].seq \in Word /\ q[i].len \in Nat /\ q[i].sent \in Nat
                                  /\ at(i) \in Nat
    BY SegmentsAre
  <2> QED BY <2>1, HalfAssumption
<1>2. /\ \A j \in 1 .. Len(q) : at(j) + q[j].len + 2 < Half /\ at(j) + q[j].sent + 2 < Half
      /\ \A i, j \in 1 .. Len(q) : i < j => at(i) < at(j)
      /\ \A j \in 1 .. Len(q) : q[j].sent > 0 => j = 1
  BY DEF QueuePlaced
<1>3. /\ rest \in Seq(Segment) /\ Len(rest) = Len(q) - k
      /\ \A j \in 1 .. Len(q) - k : rest[j] = q[k + j]
  <2>1. \A i \in k + 1 .. Len(q) : q[i] \in Segment
    BY <1>1
  <2>2. /\ rest \in Seq(Segment)
        /\ Len(rest) = IF k + 1 <= Len(q) THEN Len(q) - (k + 1) + 1 ELSE 0
        /\ \A i \in 1 .. Len(q) - (k + 1) + 1 : rest[i] = q[(k + 1) + i - 1]
    BY <1>1, <2>1, SubSeqProperties
  <2>3. \A j \in 1 .. Len(q) - k : (k + 1) + j - 1 = k + j
    BY <1>1
  <2>4. Len(q) - (k + 1) + 1 = Len(q) - k
    BY <1>1
  <2> HIDE DEF rest
  <2>5. Len(rest) = Len(q) - k
    <3>1. CASE k + 1 <= Len(q)
      BY <2>2, <2>4, <3>1
    <3>2. CASE ~(k + 1 <= Len(q))
      <4>1. Len(rest) = 0
        BY <2>2, <3>2
      <4>2. Len(q) - k = 0
        BY <1>1, <3>2
      <4> QED BY <4>1, <4>2
    <3> QED BY <3>1, <3>2
  <2>6. \A j \in 1 .. Len(q) - k : rest[j] = q[k + j]
    <3> TAKE j \in 1 .. Len(q) - k
    <3>1. j \in 1 .. Len(q) - (k + 1) + 1
      BY <2>4
    <3>2. rest[j] = q[(k + 1) + j - 1]
      BY <2>2, <3>1
    <3> QED BY <2>3, <3>2
  <2> QED BY <2>2, <2>5, <2>6
<1> HIDE DEF at, rest
<1>4. \A j \in 1 .. Len(q) - k : k + j \in 1 .. Len(q)
  BY <1>1
<1>5. CASE n = 0
  <2>1. f = rest
    BY <1>5 DEF Rest, rest
  <2>2. \A j \in 1 .. Len(rest) : q[k + j].sent = 0
    <3> TAKE j \in 1 .. Len(rest)
    <3>1. k + j \in 1 .. Len(q) /\ k + j # 1
      BY <1>1, <1>3, <1>5
    <3> QED BY <1>1, <1>2, <3>1
  <2>3. \A j \in 1 .. Len(rest) : rest[j] = q[k + j] /\ k + j \in 1 .. Len(q)
    BY <1>3, <1>4
  <2>4. \A j \in 1 .. Len(rest) : Ahead(isn, rest[j].seq) = at(k + j)
    BY <2>3 DEF at
  <2>5. \A i, j \in 1 .. Len(rest) : i < j => k + i < k + j
    BY <1>1
  <2>6. QueuePlaced(isn, rest, rr)
    <3>1. \A j \in 1 .. Len(rest) :
            /\ Ahead(isn, rest[j].seq) + rest[j].len + 2 < Half
            /\ Ahead(isn, rest[j].seq) + rest[j].sent + 2 < Half
            /\ ~(rest[j].sent > 0)
      BY <1>2, <2>2, <2>3, <2>4
    <3>2. \A i, j \in 1 .. Len(rest) : i < j => Ahead(isn, rest[i].seq) < Ahead(isn, rest[j].seq)
      BY <1>2, <2>3, <2>4, <2>5
    <3> QED BY <3>1, <3>2 DEF QueuePlaced
  <2>7. HeadSent(rest) = 0
    <3>1. rest # << >> => 1 \in 1 .. Len(rest)
      BY <1>3, SegmentsAre
    <3>2. rest # << >> => rest[1].sent = 0
      BY <2>2, <2>3, <3>1
    <3> QED BY <3>2 DEF HeadSent
  <2> QED BY <1>5, <2>1, <2>6, <2>7 DEF HeadAfter
<1>6. CASE n # 0
  <2> DEFINE old == rest[1]
             e   == old.sent + n
             seg == [old EXCEPT !.sent = e]
  <2>1. 1 \in 1 .. Len(rest) /\ k + 1 \in 1 .. Len(q) /\ old = q[k + 1]
    BY <1>1, <1>3, <1>6
  <2>2. old \in Segment /\ e \in Nat /\ e <= old.len /\ old.seq = rr
    BY <1>1, <1>6, <2>1
  <2>3. f = [rest EXCEPT ![1] = seg]
    BY <1>6 DEF Rest, rest
  <2>4. seg \in Segment /\ seg.seq = old.seq /\ seg.len = old.len /\ seg.sent = e
    <3> HIDE DEF old, e
    <3> QED BY <2>2 DEF Segment
  <2>5. e = q[k + 1].sent + n
    BY <2>1
  <2> HIDE DEF f, old, seg, e
  <2>6. /\ f \in Seq(Segment) /\ Len(f) = Len(rest)
        /\ \A j \in 1 .. Len(rest) : f[j] = IF j = 1 THEN seg ELSE rest[j]
    BY <1>3, <2>1, <2>3, <2>4, ExceptSeq
  <2>7. \A j \in 1 .. Len(f) :
          /\ k + j \in 1 .. Len(q)
          /\ f[j].seq = q[k + j].seq /\ f[j].len = q[k + j].len
          /\ f[j].sent = IF j = 1 THEN e ELSE q[k + j].sent
    <3> TAKE j \in 1 .. Len(f)
    <3>1. j \in 1 .. Len(q) - k /\ rest[j] = q[k + j] /\ k + j \in 1 .. Len(q)
      BY <1>3, <1>4, <2>6
    <3>2. CASE j = 1
      BY <2>1, <2>4, <2>6, <3>1, <3>2
    <3>3. CASE j # 1
      BY <2>6, <3>1, <3>3
    <3> QED BY <3>2, <3>3
  <2>8. \A j \in 1 .. Len(f) : Ahead(isn, f[j].seq) = at(k + j)
    BY <2>7 DEF at
  <2>9. \A i, j \in 1 .. Len(f) : i < j => k + i < k + j
    BY <1>1
  <2>10. ASSUME NEW j \in 1 .. Len(f)
         PROVE  /\ at(k + j) + f[j].len + 2 < Half
                /\ at(k + j) + f[j].sent + 2 < Half
                /\ f[j].sent > 0 => j = 1 /\ f[j].seq = rr
    <3>1. k + j \in 1 .. Len(q) /\ f[j].len = q[k + j].len /\ f[j].seq = q[k + j].seq
      BY <2>7
    <3>2. CASE j = 1
      <4>1. f[j].sent = e /\ e <= q[k + j].len /\ f[j].seq = rr
        BY <2>1, <2>2, <2>7, <3>1, <3>2
      <4>2. at(k + j) \in Nat /\ q[k + j].len \in Nat /\ at(k + j) + q[k + j].len + 2 < Half
        BY <1>1, <1>2, <3>1
      <4>3. f[j].len = q[k + j].len
        BY <3>1
      <4> DEFINE a == at(k + j)
                 l == q[k + j].len
      <4>4. a \in Nat /\ l \in Nat /\ a + l + 2 < Half /\ e <= l
        BY <4>1, <4>2
      <4> HIDE DEF a, l
      <4>5. a + e + 2 < Half
        BY <1>1, <2>2, <4>4
      <4> QED BY <3>2, <4>1, <4>3, <4>4, <4>5 DEF a, l
    <3>3. CASE j # 1
      <4>1. f[j].sent = q[k + j].sent /\ k + j # 1
        BY <1>1, <2>7, <3>3
      <4>2. ~(q[k + j].sent > 0)
        BY <1>2, <3>1, <4>1
      <4> QED BY <1>2, <3>1, <4>1, <4>2
    <3> QED BY <3>2, <3>3
  <2>11. QueuePlaced(isn, f, rr)
    BY <1>2, <2>7, <2>8, <2>9, <2>10 DEF QueuePlaced
  <2>12. HeadSent(f) = e
    <3>1. f # << >>
      BY <2>1, <2>6, EmptySeq
    <3>2. f[1] = seg
      BY <2>1, <2>6
    <3> QED BY <2>4, <3>1, <3>2 DEF HeadSent
  <2> QED BY <1>6, <2>5, <2>11, <2>12 DEF f, HeadAfter
<1> QED BY <1>5, <1>6

\* What is sent of a queue that the loop guard takes is one run, from the sent
\* part of the old head, at remote_seq, to that of the new one.
LEMMA SentBytes ==
  ASSUME NEW isn \in Word, NEW t \in Session, NEW room \in Nat, room <= Half,
         QueuePlaced(isn, t.forward, t.remote_seq),
         NEW k \in 0 .. Len(t.forward), NEW n \in Nat, k > 0 \/ n > 0,
         \A i \in 1 .. k : Sendable(t, room, i),
         n > 0 => Sendable(t, room, k + 1) /\ n < Unsent(t.forward[k + 1])
  PROVE  LET q  == t.forward
             rr == NextSeq(t, k)
             h  == HeadAfter(q, k, n)
             r  == Ahead(isn, t.remote_seq)
             e  == Ahead(isn, rr)
         IN  /\ rr \in Word /\ h \in Nat /\ e \in Nat
             /\ r <= e /\ (k > 0 => e + 2 < Half) /\ e + h + 2 < Half
             /\ n > 0 => /\ k < Len(q) /\ q[k + 1].seq = rr
                         /\ q[k + 1].sent + n <= q[k + 1].len
             /\ q # << >> /\ HeadSent(q) \in Nat /\ r + HeadSent(q) <= e + h
             /\ SentOf(q, k, n) = Run(isn, r + HeadSent(q), e + h)
<1> DEFINE q    == t.forward
           part == IF n = 0 THEN {} ELSE Bytes(q[k + 1], q[k + 1].sent, q[k + 1].sent + n)
           all  == UNION {Bytes(q[i], q[i].sent, q[i].len) : i \in 1 .. k}
           rr   == IF k = 0 THEN t.remote_seq ELSE Wrap(q[k].seq + q[k].len)
           h    == IF n = 0 THEN 0 ELSE q[k + 1].sent + n
           r    == Ahead(isn, t.remote_seq)
           e    == Ahead(isn, rr)
           at(i) == Ahead(isn, q[i].seq)
<1> SUFFICES
      /\ rr \in Word /\ h \in Nat /\ e \in Nat
      /\ r <= e /\ (k > 0 => e + 2 < Half) /\ e + h + 2 < Half
      /\ n > 0 => /\ k < Len(q) /\ q[k + 1].seq = rr
                  /\ q[k + 1].sent + n <= q[k + 1].len
      /\ q # << >> /\ HeadSent(q) \in Nat /\ r + HeadSent(q) <= e + h
      /\ part \union all = Run(isn, r + HeadSent(q), e + h)
  BY DEF NextSeq, HeadAfter, SentOf, SentPart, SentWhole
<1>1. q \in Seq(Segment) /\ t.remote_seq \in Word
  BY DEF Session
<1>2. /\ Len(q) \in Nat /\ (q = << >> <=> Len(q) = 0) /\ k \in Nat /\ k <= Len(q)
      /\ Half \in Nat /\ Half + 2 < Modulus /\ r \in Nat
      /\ \A i \in 1 .. Len(q) : /\ q[i] \in Segment
                                /\ q[i].seq \in Word /\ q[i].len \in Nat /\ q[i].sent \in Nat
                                /\ at(i) \in Nat
  <2>1. r \in Nat
    BY <1>1, AheadType
  <2>2. k \in Nat /\ k <= Len(q)
    BY <1>1, LenProperties
  <2>3. Half \in Nat /\ Half + 2 < Modulus
    BY HalfAssumption, ModulusType
  <2> HIDE DEF q, r
  <2> QED BY <1>1, <2>1, <2>2, <2>3, SegmentsAre
<1>3. /\ \A j \in 1 .. Len(q) : at(j) + q[j].len + 2 < Half /\ at(j) + q[j].sent + 2 < Half
      /\ \A j \in 1 .. Len(q) : q[j].sent > 0 => j = 1
  BY DEF QueuePlaced
<1>4. ASSUME NEW i \in Nat, Sendable(t, room, i)
      PROVE  /\ i \in 1 .. Len(q)
             /\ q[i].seq = IF i = 1 THEN t.remote_seq ELSE Wrap(q[i-1].seq + q[i-1].len)
             /\ q[i].sent <= q[i].len /\ Unsent(q[i]) = q[i].len - q[i].sent
             /\ i > 1 => at(i) = at(i - 1) + q[i-1].len
  BY <1>4, SendableIs
<1>5. /\ 1 \in 1 .. Len(q) /\ q # << >> /\ q[1].seq = t.remote_seq /\ at(1) = r
      /\ q[1].sent <= q[1].len
  <2>1. Sendable(t, room, 1)
    <3>1. CASE k = 0
      BY <3>1
    <3>2. CASE k > 0
      <4>1. 1 \in 1 .. k
        BY <1>2, <3>2
      <4> QED BY <4>1
    <3> QED BY <1>2, <3>1, <3>2
  <2>2. 1 \in 1 .. Len(q) /\ q[1].seq = t.remote_seq /\ q[1].sent <= q[1].len
    BY <1>4, <2>1
  <2>3. q # << >>
    BY <1>2, <2>2
  <2> QED BY <2>2, <2>3
<1>6. HeadSent(q) = q[1].sent
  BY <1>5 DEF HeadSent
\* The whole segments.
<1>7. /\ rr \in Word /\ e \in Nat /\ r <= e /\ (k > 0 => e + 2 < Half)
      /\ k > 0 => r + q[1].sent <= e /\ all = Run(isn, r + q[1].sent, e)
  <2>1. CASE k = 0
    BY <1>1, <1>2, <2>1
  <2>2. CASE k > 0
    <3>1. k \in 1 .. Len(q) /\ rr = Wrap(q[k].seq + q[k].len)
      BY <1>2, <2>2
    <3>2. \A i \in 2 .. k : at(i) = at(i - 1) + q[i-1].len
      <4> TAKE i \in 2 .. k
      <4>1. i \in Nat /\ i \in 1 .. k /\ i > 1
        BY <1>2
      <4>2. Sendable(t, room, i)
        BY <4>1
      <4> QED BY <1>4, <4>1, <4>2
    <3> DEFINE x == q[k].seq
               l == q[k].len
               a == at(k)
    <3>3. x \in Word /\ l \in Nat /\ a \in Nat /\ a + l + 2 < Half
      BY <1>2, <1>3, <3>1
    <3>4. rr \in Word /\ e = a + l
      <4> HIDE DEF x, l, rr
      <4>1. 0 <= a + l /\ a + l < Modulus /\ l \in Int
        <5> HIDE DEF a
        <5> QED BY <1>2, <3>3, ModulusType
      <4>2. Wrap(x + l) \in Word /\ Ahead(isn, Wrap(x + l)) = a + l
        BY <3>3, <4>1, PlaceMoves DEF x
      <4> QED BY <3>1, <4>2 DEF x, l
    <3>5. r + q[1].sent <= a + l /\ all = Run(isn, r + q[1].sent, a + l)
      <4>1. /\ at(1) + q[1].sent <= a + l
            /\ all = Run(isn, at(1) + q[1].sent, a + l)
        <5>1. QueuePlaced(isn, q, t.remote_seq)
          OBVIOUS
        <5>2. q[1].sent <= q[1].len /\ k \in 1 .. Len(q)
          BY <1>5, <3>1
        <5> HIDE DEF q
        <5> QED BY <1>1, <3>2, <5>1, <5>2, WholeIsRun
      <4> HIDE DEF q, a, l, all, at, r
      <4> QED BY <1>5, <4>1
    <3>6. r <= a + l
      <4>1. q[1].sent \in Nat
        BY <1>2, <1>5
      <4> HIDE DEF a, l, r, q
      <4> QED BY <1>2, <3>3, <3>5, <4>1
    <3> HIDE DEF a, l, r, q, all, e, rr
    <3> QED BY <2>2, <3>3, <3>4, <3>5, <3>6
  <2> QED BY <1>2, <2>1, <2>2
\* Part of the next.
<1>8. CASE n = 0
  <2>1. k > 0 /\ part = {} /\ h = 0
    BY <1>8
  <2>2. q[1].sent \in Nat
    BY <1>2, <1>5
  <2>3. e + h = e /\ part \union all = all
    <3> HIDE DEF e, h, part, all
    <3> QED BY <1>7, <2>1
  <2> HIDE DEF e, h, part, all, q, r, rr
  <2>4. e + h + 2 < Half
    BY <1>7, <2>1, <2>3
  <2>5. h \in Nat /\ ~(n > 0)
    BY <1>8, <2>1
  <2>6. part \union all = Run(isn, r + HeadSent(q), e + h)
    BY <1>6, <1>7, <2>1, <2>3
  <2>7. r + HeadSent(q) <= e + h
    BY <1>6, <1>7, <2>1, <2>3
  <2> QED BY <1>5, <1>6, <1>7, <2>2, <2>4, <2>5, <2>6, <2>7
<1>9. CASE n # 0
  <2> DEFINE g == q[k + 1]
             m == g.sent
             l == g.len
  <2>1. n > 0 /\ k + 1 \in Nat /\ Sendable(t, room, k + 1) /\ n < Unsent(g)
    BY <1>2, <1>9
  <2>2. /\ k + 1 \in 1 .. Len(q)
        /\ g.seq = (IF k + 1 = 1 THEN t.remote_seq ELSE Wrap(q[(k+1)-1].seq + q[(k+1)-1].len))
        /\ m <= l /\ Unsent(g) = l - m
    BY <1>4, <2>1
  <2>3. g.seq = rr
    <3>1. (k + 1) - 1 = k /\ (k + 1 = 1 <=> k = 0)
      BY <1>2
    <3> QED BY <2>2, <3>1
  <2>4. k < Len(q) /\ m \in Nat /\ l \in Nat /\ e + l + 2 < Half /\ m + n < l
    <3>1. k < Len(q) /\ m \in Nat /\ l \in Nat
      BY <1>2, <2>2
    <3>2. at(k + 1) + l + 2 < Half
      BY <1>3, <2>2
    <3>3. at(k + 1) = e
      BY <2>3
    <3>4. n < l - m
      BY <2>1, <2>2
    <3> HIDE DEF l, m, e, at
    <3> QED BY <3>1, <3>2, <3>3, <3>4
  <2>5. h = m + n /\ part = Bytes(g, m, m + n)
    BY <1>9
  <2>6. part = Run(isn, e + m, e + (m + n))
    <3>1. Ahead(isn, g.seq) = e /\ g.seq \in Word
      BY <1>7, <2>3
    <3> HIDE DEF e, g, part, m, l
    <3>2. e + (m + n) <= Modulus /\ m + n \in Nat
      BY <1>2, <1>7, <2>4, ModulusType
    <3>3. Bytes(g, m, m + n) = Run(isn, Ahead(isn, g.seq) + m, Ahead(isn, g.seq) + (m + n))
      BY <2>4, <3>1, <3>2, BytesAreRun
    <3> QED BY <2>5, <3>1, <3>3
  <2>7. part \union all = Run(isn, r + q[1].sent, e + h) /\ r + q[1].sent <= e + h
    <3>1. CASE k = 0
      <4>1. all = {} /\ m = q[1].sent /\ e = r
        <5>1. 1 .. k = {} /\ k + 1 = 1
          BY <3>1
        <5> QED BY <3>1, <5>1
      <4>2. part \union all = part
        BY <4>1
      <4> HIDE DEF part, all, m, e, r, h, q
      <4>3. r + m <= r + h
        BY <1>2, <2>4, <2>5
      <4> QED BY <2>5, <2>6, <4>1, <4>2, <4>3
    <3>2. CASE k > 0
      <4>1. m = 0
        <5>1. k + 1 # 1
          BY <1>2, <3>2
        <5>2. ~(m > 0)
          BY <1>3, <2>2, <5>1
        <5> HIDE DEF m
        <5> QED BY <2>4, <5>2
      <4>2. q[1].sent \in Nat
        BY <1>2, <1>5
      <4> DEFINE b == r + q[1].sent
                 c == e + h
      <4>3. all = Run(isn, b, e) /\ b <= e
        BY <1>7, <3>2
      <4> HIDE DEF part, all, m, e, r, h, q
      <4>4. h = n /\ e + m = e /\ e + (m + n) = c
        BY <1>7, <2>5, <4>1
      <4>5. b \in Int /\ e \in Int /\ c \in Int /\ e <= c /\ b <= c
        <5>1. r \in Nat /\ e \in Nat /\ n \in Nat
          BY <1>2, <1>7
        <5>2. b \in Nat
          BY <4>2, <5>1
        <5>3. c = e + n
          BY <4>4
        <5>4. c \in Nat /\ e <= c
          BY <5>1, <5>3
        <5> HIDE DEF b, c
        <5> QED BY <4>3, <5>1, <5>2, <5>4
      <4>6. part = Run(isn, e, c)
        BY <2>6, <4>4
      <4> HIDE DEF b, c
      <4>7. Run(isn, b, e) \union Run(isn, e, c) = Run(isn, b, c)
        <5>1. b \in Int /\ e \in Int /\ c \in Int /\ b <= e /\ e <= c
          BY <4>3, <4>5
        <5>2. \A x, y, z \in Int : x <= y /\ y <= z
                => Run(isn, x, y) \union Run(isn, y, z) = Run(isn, x, z)
          BY RunJoins
        <5> QED BY <5>1, <5>2, Zenon
      <4>8. part \union all = Run(isn, b, c)
        BY <4>3, <4>6, <4>7
      <4> QED BY <4>5, <4>8 DEF b, c
    <3> QED BY <1>2, <3>1, <3>2
  <2>8. q[1].sent \in Nat
    BY <1>2, <1>5
  <2>9. h \in Nat /\ e + h + 2 < Half
    <3> HIDE DEF e, h, m, l
    <3> QED BY <1>2, <1>7, <2>4, <2>5
  <2>10. g.sent + n <= g.len
    <3>1. m + n <= l
      <4> HIDE DEF m, l
      <4> QED BY <2>4
    <3> QED BY <3>1
  <2> HIDE DEF e, h, part, all, q, r, rr
  <2> QED BY <1>5, <1>6, <1>7, <2>3, <2>4, <2>7, <2>8, <2>9, <2>10
<1> QED BY <1>8, <1>9

\* What Sent does to the stream.
LEMMA SentFields ==
  ASSUME NEW t \in Session, NEW k, NEW n
  PROVE  LET q   == t.forward
             v   == Sent(t, k, n)
             new == SentOf(q, k, n)
         IN  /\ v.state = t.state /\ v.remote_start = t.remote_start
             /\ v.synIn = t.synIn /\ v.finIn = t.finIn
             /\ v.remote_seq = NextSeq(t, k) /\ v.forward = Rest(q, k, n)
             /\ v.given = t.given \union new
             /\ v.twice = (t.twice \/ t.given \intersect new # {})
<1> DEFINE q == t.forward
           r == NextSeq(t, k)
           f == Rest(q, k, n)
           g == t.given \union SentOf(q, k, n)
           w == t.twice \/ t.given \intersect SentOf(q, k, n) # {}
           m == t.unreported \/ k > 0 \/ n > 0
           v == Sent(t, k, n)
<1>1. v = [t EXCEPT !.remote_seq = r, !.forward = f, !.given = g, !.twice = w,
                    !.unreported = m]
  BY DEF Sent, Rest, NextSeq, SentOf, SentPart, SentWhole
<1> HIDE DEF v, r, f, g, w, m
<1>2. /\ v.state = t.state /\ v.remote_start = t.remote_start
      /\ v.synIn = t.synIn /\ v.finIn = t.finIn
      /\ v.remote_seq = r /\ v.forward = f /\ v.given = g /\ v.twice = w
  BY <1>1 DEF Session
<1> QED BY <1>2 DEF v, r, f, g, w

\* Forwarding gives the server the next run of the stream.
LEMMA SentPlaced ==
  ASSUME NEW isn \in Word, NEW t \in Session, NEW room \in Nat, room <= Half,
         Placed(isn, t), FinCounted(t), t.state \notin {"none", "LISTEN"},
         NEW k \in 0 .. Len(t.forward), NEW n \in Nat,
         \A i \in 1 .. k : Sendable(t, room, i),
         n > 0 => Sendable(t, room, k + 1) /\ n < Unsent(t.forward[k + 1])
  PROVE  Placed(isn, Sent(t, k, n))
<1> DEFINE q   == t.forward
           new == SentOf(q, k, n)
           rr  == NextSeq(t, k)
           h   == HeadAfter(q, k, n)
           v   == Sent(t, k, n)
           b   == Ahead(isn, t.remote_start) + t.synIn
           r   == Ahead(isn, t.remote_seq)
           e   == Ahead(isn, rr)
<1>1. /\ v.state = t.state /\ v.remote_start = t.remote_start
      /\ v.synIn = t.synIn /\ v.finIn = t.finIn
      /\ v.remote_seq = rr /\ v.forward = Rest(q, k, n) /\ v.given = t.given \union new
      /\ v.twice = (t.twice \/ t.given \intersect new # {})
  BY SentFields
<1>2. /\ ~t.twice /\ QueuePlaced(isn, q, t.remote_seq)
      /\ b + t.finIn <= r /\ r + 2 < Half + t.synIn + t.finIn
      /\ t.given = Run(isn, b, r - t.finIn + HeadSent(q))
  BY DEF Placed
<1>3. /\ q \in Seq(Segment) /\ b \in Nat /\ r \in Nat /\ t.finIn \in Nat /\ t.synIn \in Nat
      /\ Half \in Nat /\ Half + 2 < Modulus
  BY PlacesAre
<1>4. CASE k = 0 /\ n = 0
  <2>1. new = {}
    <3>1. 1 .. k = {}
      BY <1>4
    <3>2. SentWhole(q, k) = {}
      BY <3>1 DEF SentWhole
    <3> QED BY <1>4, <3>2 DEF SentOf, SentPart
  <2>2. Rest(q, k, n) = q
    <3>1. Rest(q, k, n) = SubSeq(q, 1, Len(q))
      BY <1>4 DEF Rest
    <3> HIDE DEF q
    <3> QED BY <1>3, <3>1, SubSeqFull
  <2>3. v.remote_seq = t.remote_seq /\ v.given = t.given
    BY <1>1, <1>4, <2>1 DEF NextSeq
  <2>4. v.twice = t.twice
    <3>1. t.twice \in BOOLEAN
      BY DEF Session
    <3> HIDE DEF new, v
    <3> QED BY <1>1, <2>1, <3>1
  <2>5. StreamKept(t, v)
    BY <1>1, <2>2, <2>3, <2>4 DEF StreamKept
  <2> QED BY <2>5, KeptPlaced
<1>5. CASE k > 0 \/ n > 0
  <2> DEFINE p == r + HeadSent(q)
             c == e + h
  <2>1. /\ rr \in Word /\ h \in Nat /\ e \in Nat
        /\ r <= e /\ (k > 0 => e + 2 < Half) /\ e + h + 2 < Half
        /\ n > 0 => /\ k < Len(q) /\ q[k + 1].seq = rr
                    /\ q[k + 1].sent + n <= q[k + 1].len
        /\ q # << >> /\ HeadSent(q) \in Nat /\ p <= c
        /\ new = Run(isn, p, c)
    BY <1>2, <1>5, SentBytes
  <2>2. QueuePlaced(isn, Rest(q, k, n), rr) /\ HeadSent(Rest(q, k, n)) = h
    <3>1. k \in 0 .. Len(q)
      OBVIOUS
    <3> HIDE DEF q, rr
    <3>2. n > 0 => /\ k < Len(q) /\ q[k + 1].seq = rr
                   /\ q[k + 1].sent + n <= q[k + 1].len
      BY <2>1
    <3>3. QueuePlaced(isn, q, t.remote_seq) /\ q \in Seq(Segment)
      BY <1>2, <1>3
    <3> QED BY <1>5, <3>1, <3>2, <3>3, SentQueue
  <2>3. t.finIn = 0
    BY <2>1 DEF FinCounted
  <2> HIDE DEF q, b, r, e, h, rr, new, v
  <2>4. b \in Nat /\ p \in Nat /\ c \in Nat /\ b <= p /\ p <= c /\ c <= Modulus
    <3> DEFINE y == HeadSent(q)
    <3>1. y \in Nat /\ h \in Nat /\ e \in Nat /\ r + y <= e + h /\ e + h + 2 < Half
      BY <2>1
    <3>2. b + 0 <= r
      BY <1>2, <2>3
    <3> HIDE DEF y
    <3>3. p = r + y
      BY DEF y
    <3>4. c = e + h
      OBVIOUS
    <3> HIDE DEF p, c
    <3>5. p \in Nat /\ c \in Nat /\ p <= c
      BY <1>3, <3>1, <3>3, <3>4
    <3>6. b <= p
      BY <1>3, <3>1, <3>2, <3>3
    <3>7. c <= Modulus
      BY <1>3, <3>1, <3>4, ModulusType
    <3> QED BY <1>3, <3>5, <3>6, <3>7
  <2>5. t.given = Run(isn, b, p)
    <3>1. r - t.finIn + HeadSent(q) = p
      BY <1>3, <2>1, <2>3
    <3> QED BY <1>2, <3>1
  <2> HIDE DEF p, c
  <2>6. v.given = Run(isn, b, c)
    <3>1. \A x, y, z \in Int : x <= y /\ y <= z
            => Run(isn, x, y) \union Run(isn, y, z) = Run(isn, x, z)
      BY RunJoins
    <3>2. b \in Int /\ p \in Int /\ c \in Int /\ b <= p /\ p <= c
      BY <2>4
    <3>3. Run(isn, b, p) \union Run(isn, p, c) = Run(isn, b, c)
      BY <3>1, <3>2, Zenon
    <3> QED BY <1>1, <2>1, <2>5, <3>3
  <2>7. ~v.twice
    <3>1. Run(isn, b, p) \intersect Run(isn, p, c) = {}
      BY <2>4, RunsApart
    <3> QED BY <1>1, <1>2, <2>1, <2>5, <3>1
  <2>8. QueuePlaced(isn, v.forward, v.remote_seq) /\ HeadSent(v.forward) = h
    BY <1>1, <2>2
  <2>9. b + t.finIn <= e /\ e + 2 < Half + t.synIn + t.finIn
    <3>1. e + 2 < Half
      BY <1>3, <2>1
    <3> QED BY <1>2, <1>3, <2>1, <2>3, <3>1, SMTT(30)
  <2>10. e - t.finIn + h = c
    BY <1>3, <2>1, <2>3 DEF c
  <2>11. Ahead(isn, v.remote_start) + v.synIn = b /\ Ahead(isn, v.remote_seq) = e
    BY <1>1 DEF b, e
  <2>12. v.given = Run(isn, b, e - t.finIn + HeadSent(v.forward))
    BY <2>6, <2>8, <2>10
  <2>13. v.state # "LISTEN" /\ v.synIn = t.synIn /\ v.finIn = t.finIn
    BY <1>1
  <2>14. Placed(isn, v)
    BY <2>7, <2>8, <2>9, <2>11, <2>12, <2>13 DEF Placed
  <2> QED BY <2>14 DEF v
<1> QED BY <1>3, <1>4, <1>5

-----------------------------------------------------------------------------
\* The operators of TcpSession and the stream.
LEMMA WriteAckMoves ==
  ASSUME NEW t \in Session, NEW ok \in BOOLEAN, t.state # "none"
  PROVE  StreamKept(t, WriteAck(t, ok))
BY DEF WriteAck, Session, StreamKept

LEMMA WriteRstMoves ==
  ASSUME NEW t \in Session, t.state # "none"
  PROVE  Moves(t, WriteRst(t))
<1> DEFINE w  == Wrap(t.remote_seq + 1)
           x  == t.synIn + 1
           st == IF t.state = "CLOSE" THEN "CLOSE" ELSE "CLOSING"
<1>1. st # "LISTEN"
  OBVIOUS
<1>2. CASE t.state = "LISTEN"
  <2>1. WriteRst(t) = [t EXCEPT !.remote_seq = w, !.synIn = x, !.state = st]
    BY <1>2 DEF WriteRst
  <2> HIDE DEF w, x, st
  <2>2. /\ WriteRst(t).state = st /\ WriteRst(t).remote_seq = w /\ WriteRst(t).synIn = x
        /\ WriteRst(t).remote_start = t.remote_start /\ WriteRst(t).forward = t.forward
        /\ WriteRst(t).given = t.given /\ WriteRst(t).twice = t.twice
        /\ WriteRst(t).finIn = t.finIn
    BY <2>1 DEF Session
  <2> QED BY <1>1, <1>2, <2>2 DEF Moves, SynTaken, w, x
<1>3. CASE t.state # "LISTEN"
  <2>1. Wrap(t.remote_seq + 0) = t.remote_seq /\ t.synIn + 0 = t.synIn
    <3>1. t.remote_seq \in Int /\ 0 <= t.remote_seq /\ t.remote_seq < Modulus /\ t.synIn \in Nat
      BY ModulusType DEF Session, Word
    <3>2. Wrap(t.remote_seq) = t.remote_seq
      BY <3>1, WrapNear, ModulusType
    <3> QED BY <3>1, <3>2
  <2>2. WriteRst(t) = [t EXCEPT !.remote_seq = t.remote_seq, !.synIn = t.synIn, !.state = st]
    BY <1>3, <2>1 DEF WriteRst
  <2> HIDE DEF st
  <2> QED BY <1>1, <2>2 DEF Session, Moves, StreamKept
<1> QED BY <1>2, <1>3

\* The probe gives remote_seq back.
LEMMA KeepAliveMoves ==
  ASSUME NEW t \in Session, NEW ok \in BOOLEAN, t.state # "none"
  PROVE  StreamKept(t, KeepAlive(t, ok))
<1> DEFINE w == Wrap(t.remote_seq - 1)
           l == [t EXCEPT !.remote_seq = w]
           p == WriteAck(l, ok)
           r == Wrap(p.remote_seq + 1)
<1>1. w \in Word /\ t.remote_seq \in Word
  BY WrapOfSum DEF Session
<1>2. Wrap(w + 1) = t.remote_seq
  <2> DEFINE x == t.remote_seq
  <2>1. x \in Int /\ 0 <= x /\ x < Modulus
    BY <1>1, ModulusType DEF Word
  <2>2. w = IF x = 0 THEN Modulus - 1 ELSE x - 1
    BY <2>1, WrapNear, ModulusType
  <2>3. Wrap(Modulus) = 0
    BY WrapNear, ModulusType
  <2> HIDE DEF x, w
  <2>4. CASE x = 0
    <3>1. w + 1 = Modulus
      BY <2>2, <2>4, ModulusType
    <3> QED BY <2>3, <2>4, <3>1 DEF x
  <2>5. CASE x # 0
    <3>1. w + 1 = x
      BY <2>1, <2>2, <2>5
    <3>2. Wrap(x) = x
      BY <2>1, WrapNear, ModulusType
    <3> QED BY <3>1, <3>2 DEF x
  <2> QED BY <2>4, <2>5
<1>3. KeepAlive(t, ok) = [p EXCEPT !.remote_seq = r]
  BY DEF KeepAlive
<1> HIDE DEF w
<1>4. l \in Session /\ l.state = t.state /\ l.remote_seq = w
      /\ l.remote_start = t.remote_start /\ l.forward = t.forward /\ l.given = t.given
      /\ l.twice = t.twice /\ l.synIn = t.synIn /\ l.finIn = t.finIn
  BY <1>1 DEF Session
<1> HIDE DEF l
<1>5. p \in Session /\ StreamKept(l, p)
  BY <1>4, WriteAckKeeps, WriteAckMoves
<1>6. r = t.remote_seq
  BY <1>2, <1>4, <1>5 DEF StreamKept
<1> HIDE DEF p, r
<1>7. /\ [p EXCEPT !.remote_seq = r].state = p.state
      /\ [p EXCEPT !.remote_seq = r].remote_seq = r
      /\ [p EXCEPT !.remote_seq = r].remote_start = p.remote_start
      /\ [p EXCEPT !.remote_seq = r].forward = p.forward
      /\ [p EXCEPT !.remote_seq = r].given = p.given
      /\ [p EXCEPT !.remote_seq = r].twice = p.twice
      /\ [p EXCEPT !.remote_seq = r].synIn = p.synIn
      /\ [p EXCEPT !.remote_seq = r].finIn = p.finIn
  BY <1>5 DEF Session
<1> QED BY <1>3, <1>4, <1>5, <1>6, <1>7 DEF StreamKept

LEMMA SetMaskMoves ==
  ASSUME NEW t \in Session, NEW mask, t.state # "none"
  PROVE  StreamKept(t, SetMask(t, mask))
BY DEF SetMask, Session, StreamKept

LEMMA NoSessionPlaced ==
  ASSUME NEW isn, NEW u, u.state = "none", ~u.twice, u.forward = << >>
  PROVE  Placed(isn, u)
<1>1. Len(<< >>) = 0
  OBVIOUS
<1>2. \A r : QueuePlaced(isn, << >>, r)
  BY <1>1 DEF QueuePlaced
<1> QED BY <1>2 DEF Placed

\* A check keeps the stream, aborts or frees.
LEMMA CheckPlaced ==
  ASSUME NEW isn \in Word, NEW t \in Session, SocketAgrees(t), t.state # "none",
         Placed(isn, t)
  PROVE  Placed(isn, Cleanup(Checked(t)))
<1> DEFINE a == Timeout(t)
           b == CloseSocket(a)
           c == AccountUsage(b)
<1>1. Checked(t) = c
  BY DEF Checked
<1>2. a \in Session /\ Moves(t, a) /\ SocketAgrees(a) /\ a.state # "none"
  <2>1. /\ Moves(t, t) /\ Moves(t, [t EXCEPT !.state = "CLOSING"])
        /\ Moves(t, WriteRst(t))
    BY WriteRstMoves DEF Moves, StreamKept, Session
  <2>2. a \in {t, [t EXCEPT !.state = "CLOSING"], WriteRst(t)}
    BY DEF Timeout
  <2>3. a \in Session /\ Keeps(t, a)
    BY TimeoutKeeps
  <2> HIDE DEF a
  <2> QED BY <2>1, <2>2, <2>3, KeepsSocket DEF Keeps
<1> HIDE DEF a
<1>3. b \in Session /\ StreamKept(a, b) /\ b.state # "none"
  <2>1. b \in {a, [a EXCEPT !.open = FALSE, !.polled = FALSE, !.fresh = TRUE, !.state = "CLOSE"]}
    BY DEF CloseSocket
  <2>2. b \in Session
    BY <1>2, CloseSocketAgrees
  <2> HIDE DEF b
  <2>3. CASE b = a
    BY <1>2, <2>2, <2>3 DEF StreamKept
  <2>4. CASE b = [a EXCEPT !.open = FALSE, !.polled = FALSE, !.fresh = TRUE, !.state = "CLOSE"]
    BY <1>2, <2>2, <2>4, SMTT(30) DEF StreamKept, Session
  <2> QED BY <2>1, <2>3, <2>4
<1> HIDE DEF b
<1>4. StreamKept(b, c)
  <2>1. c \in {b, [b EXCEPT !.unreported = FALSE]}
    BY DEF AccountUsage
  <2> HIDE DEF c
  <2> QED BY <1>3, <2>1 DEF StreamKept, Session
<1> HIDE DEF c
<1>5. Moves(t, c)
  BY <1>2, <1>3, <1>4, MovesTransitive DEF Moves
<1>6. CASE Cleanup(c) = c
  BY <1>1, <1>5, <1>6, MovesPlaced
<1>7. CASE Cleanup(c) # c
  <2> DEFINE gone == c.unreported \/ c.open
             u    == [NoSession EXCEPT !.lost = gone]
  <2>1. Cleanup(c) = u
    BY <1>7 DEF Cleanup
  <2>2. u.state = "none" /\ ~u.twice /\ u.forward = << >>
    <3> HIDE DEF gone
    <3> QED BY DEF NoSession
  <2> HIDE DEF u
  <2> QED BY <1>1, <2>1, <2>2, NoSessionPlaced
<1> QED BY <1>6, <1>7

\* A SYN's data is queued where the stream begins.
LEMMA NewSessionPlaced ==
  ASSUME NEW isn \in Word, NEW p \in Packet, PacketPlaced(isn, p),
         NEW local, NEW polled, NEW room
  PROVE  Placed(isn, NewSession(p, local, polled, room))
<1> DEFINE u   == NewSession(p, local, polled, room)
           seg == [seq |-> p.seq, len |-> p.len, sent |-> 0]
           f   == IF p.len > 0 THEN <<seg>> ELSE << >>
           a   == Ahead(isn, p.seq)
<1>1. /\ u.state = "LISTEN" /\ u.remote_start = p.seq /\ u.remote_seq = p.seq
      /\ u.forward = f /\ u.synIn = 0 /\ u.finIn = 0 /\ u.given = {} /\ u.twice = FALSE
  BY DEF NewSession, NoSession
<1>2. p.seq \in Word /\ p.len \in Nat /\ a \in Nat /\ a + p.len + 2 < Half /\ Half \in Nat
  <2>1. p.seq \in Word /\ p.len \in Nat
    BY DEF Packet
  <2>2. a + p.len + 2 < Half
    BY DEF PacketPlaced
  <2> QED BY <2>1, <2>2, AheadType, HalfAssumption
<1>3. seg.seq = p.seq /\ seg.len = p.len /\ seg.sent = 0
  OBVIOUS
<1> HIDE DEF u, seg
<1>4. Len(f) \in {0, 1} /\ \A i \in 1 .. Len(f) : i = 1 /\ f[i] = seg
  OBVIOUS
<1>5. HeadSent(f) = 0 /\ Unbegun(f)
  <2>1. Unbegun(f)
    BY <1>3, <1>4 DEF Unbegun
  <2>2. f = << >> \/ f[1] = seg
    OBVIOUS
  <2> QED BY <1>3, <2>1, <2>2 DEF HeadSent
<1> HIDE DEF f, a
<1>6. QueuePlaced(isn, f, p.seq)
  <2>1. /\ Ahead(isn, seg.seq) + seg.len + 2 < Half /\ Ahead(isn, seg.seq) + seg.sent + 2 < Half
        /\ ~(seg.sent > 0)
    <3>1. a + 0 + 2 < Half
      BY <1>2
    <3> QED BY <1>2, <1>3, <3>1 DEF a
  <2>2. \A i, j \in 1 .. Len(f) : ~(i < j)
    BY <1>4
  <2> QED BY <1>4, <2>1, <2>2 DEF QueuePlaced
<1>7. Run(isn, a + 0, a - 0 + 0) = {}
  <2>1. a + 0 .. (a - 0 + 0) - 1 = {}
    BY <1>2
  <2> QED BY <2>1, Zenon DEF Run
<1>8. a + 0 + 0 <= a /\ a + 2 < Half + 0 + 0
  BY <1>2
<1>9. Placed(isn, u)
  BY <1>1, <1>5, <1>6, <1>7, <1>8 DEF Placed, a
<1> QED BY <1>9 DEF u

\* A packet of the app can only extend the queue.
LEMMA TakenPlaced ==
  ASSUME NEW isn \in Word, NEW p \in Packet, PacketPlaced(isn, p), s \in Session,
         s.state # "none", Placed(isn, s), s.synIn \in {0, 1}, s.finIn \in {0, 1}
  PROVE  Placed(isn, Touched(p)) /\ Placed(isn, Taken(p))
<1> DEFINE f == s.fresh \/ "SYN" \notin p.flags
           w == p.window
           u == Touched(p)
<1>1. f \in BOOLEAN /\ w \in Nat
  BY DEF Session, Packet
<1>2. u = [s EXCEPT !.fresh = f, !.send_window = w, !.unconfirmed = 0]
  BY DEF Touched
<1> HIDE DEF f, w, u
<1>3. u \in Session /\ StreamKept(s, u) /\ u.state = s.state
  BY <1>1, <1>2 DEF Session, StreamKept
<1>4. Placed(isn, u)
  BY <1>3, KeptPlaced
<1>5. Placed(isn, QueueTcp(u, p))
  <2> DEFINE r == Ahead(isn, u.remote_seq)
             v == QueueTcp(u, p)
  <2>1. r < Half
    <3>1. r + 2 < Half + u.synIn + u.finIn /\ u.synIn \in {0, 1} /\ u.finIn \in {0, 1}
      BY <1>3, <1>4 DEF Placed, StreamKept
    <3>2. r \in Nat /\ Half \in Nat
      BY <1>3, PlacesAre
    <3> HIDE DEF r
    <3> QED BY <3>1, <3>2
  <2>2. QueuePlaced(isn, u.forward, u.remote_seq)
    BY <1>4 DEF Placed
  <2>3. PICK q \in Seq(Segment) : /\ v = [u EXCEPT !.forward = q]
                                  /\ QueuePlaced(isn, q, u.remote_seq)
                                  /\ HeadSent(q) = HeadSent(u.forward)
                                  /\ Unbegun(u.forward) => Unbegun(q)
    BY <1>3, <2>1, <2>2, QueueTcpQueue
  <2> HIDE DEF v
  <2>4. /\ v.state = u.state /\ v.remote_start = u.remote_start /\ v.remote_seq = u.remote_seq
        /\ v.forward = q /\ v.given = u.given /\ v.twice = u.twice
        /\ v.synIn = u.synIn /\ v.finIn = u.finIn
    BY <1>3, <2>3 DEF Session
  <2>5. Placed(isn, v)
    BY <1>4, <2>3, <2>4 DEF Placed
  <2> QED BY <2>5 DEF v
<1>6. Taken(p) \in {u, QueueTcp(u, p)}
  BY DEF Taken, u
<1> QED BY <1>4, <1>5, <1>6 DEF u

\* The FIN is counted at once when nothing is queued, or waits.
LEMMA TakeFinPlaced ==
  ASSUME NEW isn \in Word, NEW t \in Session, NEW ok \in BOOLEAN, Placed(isn, t),
         Accounted(t), FinCounted(t), t.state \in {"ESTABLISHED", "FIN_WAIT1"}
  PROVE  Placed(isn, TakeFin(t, ok))
<1> DEFINE r       == Wrap(t.remote_seq + 1)
           x       == t.finIn + 1
           counted == [t EXCEPT !.remote_seq = r, !.finIn = x]
           next    == IF t.state = "ESTABLISHED" THEN "CLOSE_WAIT" ELSE "CLOSE"
           st      == IF ok THEN next ELSE "CLOSING"
           u       == TakeFin(t, ok)
<1>1. CASE t.state = "ESTABLISHED" /\ t.forward # << >>
  <2>1. u = [t EXCEPT !.state = "CLOSE_WAIT"]
    BY <1>1 DEF TakeFin
  <2> HIDE DEF u
  <2>2. StreamKept(t, u)
    BY <1>1, <2>1 DEF Session, StreamKept
  <2> QED BY <2>2, KeptPlaced DEF u
<1>2. CASE ~(t.state = "ESTABLISHED" /\ t.forward # << >>)
  <2>1. t.forward = << >> /\ t.finIn = 0 /\ t.synIn \in {0, 1}
    BY <1>2 DEF FinCounted, Accounted
  <2>2. u = [WriteAck(counted, ok) EXCEPT !.state = IF ok THEN next ELSE @]
    BY <1>2 DEF TakeFin
  <2>3. u = [counted EXCEPT !.state = st]
    BY <2>2 DEF WriteAck, Session
  <2>4. st # "LISTEN"
    OBVIOUS
  <2> HIDE DEF u, x, r, st
  <2>5. /\ u.state = st /\ u.remote_start = t.remote_start /\ u.remote_seq = r
        /\ u.forward = t.forward /\ u.given = t.given /\ u.twice = t.twice
        /\ u.synIn = t.synIn /\ u.finIn = x
    BY <2>3 DEF Session
  <2>6. FinTaken(t, u)
    BY <2>1, <2>4, <2>5 DEF FinTaken, r, x
  <2>7. Placed(isn, u)
    BY <2>1, <2>6, FinPlaced
  <2> QED BY <2>7 DEF u
<1> QED BY <1>1, <1>2

LEMMA ConnectedMoves ==
  ASSUME NEW t \in Session, NEW u \in Connected(t), t.state # "none"
  PROVE  Moves(t, u)
<1>1. \A v \in Socks5 : /\ [t EXCEPT !.socks5 = v] \in Session
                        /\ StreamKept(t, [t EXCEPT !.socks5 = v])
                        /\ [t EXCEPT !.socks5 = v].state # "none"
  BY DEF Session, StreamKept
<1>2. \A v \in Socks5, b \in BOOLEAN : StreamKept(t, [t EXCEPT !.socks5 = v, !.reached = b])
  BY DEF Session, StreamKept
<1>3. \A v \in Socks5 : Moves(t, WriteRst([t EXCEPT !.socks5 = v]))
  BY <1>1, WriteRstMoves, MovesTransitive DEF Moves
<1>4. /\ "NONE" \in Socks5 /\ "AUTH" \in Socks5 /\ "HELLO" \in Socks5
      /\ "CONNECT" \in Socks5 /\ "CONNECTED" \in Socks5
  BY DEF Socks5
<1>5. \A reply : Socks5Reply(t, reply) \in {WriteRst(t), [t EXCEPT !.socks5 = "CONNECT"],
        [t EXCEPT !.socks5 = "AUTH"],
        [t EXCEPT !.socks5 = "CONNECTED", !.reached = TRUE],
        WriteRst([t EXCEPT !.socks5 = "NONE"])}
  BY DEF Socks5Reply
<1>6. \A reply : Moves(t, Socks5Reply(t, reply))
  BY <1>1, <1>2, <1>3, <1>4, <1>5, WriteRstMoves DEF Moves
<1> DEFINE v == IF UseSocks5 THEN "HELLO" ELSE "CONNECTED"
           b == ~UseSocks5
<1>7. v \in Socks5 /\ b \in BOOLEAN
  BY <1>4
<1>8. \/ u = t \/ u = [t EXCEPT !.socks5 = v, !.reached = b]
      \/ \E r \in {"accept", "userpass", "deny", "error"} : u = Socks5Reply(t, r)
  BY DEF Connected
<1>9. StreamKept(t, t)
  BY DEF StreamKept
<1> HIDE DEF v, b
<1> QED BY <1>2, <1>6, <1>7, <1>8, <1>9 DEF Moves

\* The SYN is counted for the SYN-ACK, whether or not it can be written.
LEMMA RequestedMoves ==
  ASSUME NEW t \in Session, NEW u \in Requested(t), t.state = "LISTEN"
  PROVE  Moves(t, u)
<1> DEFINE r   == Wrap(t.remote_seq + 1)
           x   == t.synIn + 1
           w   == Wrap(t.local_seq + 1)
           l   == t.lateOut \/ t.finOut \/ t.state \in Finished
           z   == [t EXCEPT !.remote_seq = r, !.synIn = x, !.local_seq = w, !.lateOut = l,
                            !.fresh = TRUE, !.state = "SYN_RECV"]
           n   == [t EXCEPT !.remote_seq = r, !.synIn = x, !.state = "CLOSING"]
<1>1. u \in {t, WriteRst(t), z, n}
  BY DEF Requested, WriteStream, WriteAck, Session
<1> HIDE DEF r, x, w, l
<1>2. SynTaken(t, z)
  BY DEF Session, SynTaken, r, x
<1>3. SynTaken(t, n)
  BY DEF Session, SynTaken, r, x
<1>4. StreamKept(t, t)
  BY DEF StreamKept
<1> HIDE DEF z, n
<1> QED BY <1>1, <1>2, <1>3, <1>4, WriteRstMoves DEF Moves

LEMMA ForwardedPlaced ==
  ASSUME NEW isn \in Word, NEW t \in Session, NEW room \in Nat, room <= Half,
         NEW u \in Forwarded(t, room),
         Placed(isn, t), FinCounted(t), t.state \notin {"none", "LISTEN"}
  PROVE  Placed(isn, u)
<1>1. PICK k \in 0 .. Len(t.forward) :
        /\ \A i \in 1 .. k : Sendable(t, room, i)
        /\ \/ u = Sent(t, k, 0)
           \/ u = WriteRst(Sent(t, k, 0))
           \/ /\ Sendable(t, room, k + 1)
              /\ \E n \in 1 .. Unsent(t.forward[k + 1]) - 1 : u = Sent(t, k, n)
  BY DEF Forwarded
<1>2. Placed(isn, Sent(t, k, 0))
  BY <1>1, SentPlaced
<1>3. CASE u = WriteRst(Sent(t, k, 0))
  <2> DEFINE v == Sent(t, k, 0)
  <2>1. v \in Session /\ v.state # "none"
    BY SentKeeps DEF Keeps
  <2>2. Moves(v, WriteRst(v))
    <3> HIDE DEF v
    <3> QED BY <2>1, WriteRstMoves
  <2>3. Placed(isn, WriteRst(v))
    <3> HIDE DEF v
    <3> QED BY <1>2, <2>1, <2>2, MovesPlaced DEF v
  <2> QED BY <1>3, <2>3
<1>4. CASE /\ Sendable(t, room, k + 1)
           /\ \E n \in 1 .. Unsent(t.forward[k + 1]) - 1 : u = Sent(t, k, n)
  <2>1. PICK n \in 1 .. Unsent(t.forward[k + 1]) - 1 : u = Sent(t, k, n)
    BY <1>4
  <2>2. n \in Nat /\ n < Unsent(t.forward[k + 1])
    <3> DEFINE m == Unsent(t.forward[k + 1])
    <3>1. k + 1 \in 1 .. Len(t.forward)
      <4>1. k + 1 \in DOMAIN t.forward /\ t.forward \in Seq(Segment)
        BY <1>4 DEF Sendable, Session
      <4> QED BY <4>1, LenProperties
    <3>2. m \in Nat
      <4> DEFINE g == t.forward[k + 1]
      <4>1. g \in Segment
        BY <3>1, ElementOfSeq DEF Session
      <4>2. g.len \in Int /\ g.sent \in Nat
        <5> HIDE DEF g
        <5> QED BY <4>1 DEF Segment
      <4>3. g.len - g.sent \in Int
        BY <4>2
      <4>4. \A x \in Int : Wrap(x) \in Nat
        BY ModulusType DEF Wrap
      <4> QED BY <4>3, <4>4 DEF Unsent
    <3> HIDE DEF m
    <3>3. n \in 1 .. m - 1
      BY DEF m
    <3>4. n \in Nat /\ n < m
      BY <3>2, <3>3
    <3> QED BY <3>4 DEF m
  <2> QED BY <1>1, <1>4, <2>1, <2>2, SentPlaced
<1> QED BY <1>1, <1>2, <1>3, <1>4

LEMMA AcknowledgedPlaced ==
  ASSUME NEW isn \in Word, NEW t \in Session, NEW fwd \in BOOLEAN, NEW room \in Nat,
         NEW u \in Acknowledged(t, fwd, room), Placed(isn, t),
         t.state \notin {"none", "LISTEN"}, t.synIn \in {0, 1}, fwd => t.finIn = 0
  PROVE  Placed(isn, u)
<1> DEFINE open == ToForward(t.forward) < room
           o    == [t EXCEPT !.window_open = open]
           v    == ConfirmFin(o, fwd)
           y    == [v EXCEPT !.fresh = TRUE]
           n    == WriteAck(v, FALSE)
<1>1. /\ o \in Session /\ StreamKept(t, o) /\ o.state = t.state
  <2>1. open \in BOOLEAN
    OBVIOUS
  <2> HIDE DEF open
  <2> QED BY <2>1 DEF Session, StreamKept
<1>2. u \in {y, n, o}
  BY DEF Acknowledged, o, v
<1> HIDE DEF o
<1>3. Placed(isn, o)
  BY <1>1, KeptPlaced
<1>4. v \in Session /\ Placed(isn, v) /\ v.state = o.state
  <2> DEFINE r == Wrap(o.remote_seq + 1)
             x == o.finIn + 1
  <2>1. v = IF fwd /\ o.forward = << >> /\ o.state = "CLOSE_WAIT"
            THEN [o EXCEPT !.remote_seq = r, !.finIn = x] ELSE o
    BY DEF ConfirmFin
  <2>2. r \in Word /\ x \in Nat
    <3>1. o.remote_seq \in Word /\ o.finIn \in Nat
      BY <1>1 DEF Session
    <3>2. r \in Word
      BY <3>1, WrapOfSum
    <3> HIDE DEF r
    <3> QED BY <3>1, <3>2
  <2> HIDE DEF v, r, x
  <2>3. CASE v = o
    BY <1>1, <1>3, <2>3
  <2>4. CASE v # o
    <3>1. /\ fwd /\ o.forward = << >> /\ o.state = "CLOSE_WAIT"
          /\ v = [o EXCEPT !.remote_seq = r, !.finIn = x]
      BY <2>1, <2>4
    <3>2. o.finIn = 0 /\ o.synIn \in {0, 1}
      BY <1>1, <3>1 DEF StreamKept
    <3>3. v \in Session /\ v.state = o.state
      BY <1>1, <2>2, <3>1 DEF Session
    <3>4. /\ v.remote_start = o.remote_start /\ v.remote_seq = r
          /\ v.forward = o.forward /\ v.given = o.given /\ v.twice = o.twice
          /\ v.synIn = o.synIn /\ v.finIn = x
      BY <1>1, <3>1 DEF Session
    <3>5. FinTaken(o, v)
      BY <3>1, <3>2, <3>3, <3>4 DEF FinTaken, r, x
    <3> QED BY <1>1, <1>3, <3>2, <3>3, <3>5, FinPlaced
  <2> QED BY <2>3, <2>4
<1> HIDE DEF v
<1>5. StreamKept(v, y) /\ StreamKept(v, n)
  <2>1. v.state # "none"
    BY <1>1, <1>4
  <2> QED BY <1>4, <2>1, WriteAckMoves DEF Session, StreamKept
<1> HIDE DEF y, n
<1> QED BY <1>2, <1>3, <1>4, <1>5, KeptPlaced

\* Nothing the server sends touches what the app has sent.
LEMMA WriteStreamMoves ==
  ASSUME NEW t \in Session, NEW ok \in BOOLEAN, NEW n \in Nat, t.state # "none"
  PROVE  StreamKept(t, WriteStream(t, ok, n))
<1> DEFINE w    == Wrap(t.local_seq + n)
           late == t.lateOut \/ t.finOut \/ t.state \in Finished
<1>1. WriteStream(t, ok, n) = IF ok THEN [t EXCEPT !.local_seq = w, !.lateOut = late]
                              ELSE WriteAck(t, ok)
  BY DEF WriteStream
<1> HIDE DEF w, late
<1>2. StreamKept(t, [t EXCEPT !.local_seq = w, !.lateOut = late])
  BY DEF Session, StreamKept
<1> QED BY <1>1, <1>2, WriteAckMoves

LEMMA TakeEofMoves ==
  ASSUME NEW t \in Session, NEW ok \in BOOLEAN, t.state \in Streaming
  PROVE  Moves(t, TakeEof(t, ok))
<1> DEFINE f    == WriteStream(t, ok, 1)
           o    == f.finOut \/ ok
           st   == CASE f.state = "ESTABLISHED" -> "FIN_WAIT1"
                     [] f.state = "CLOSE_WAIT"  -> "LAST_ACK"
                     [] OTHER                   -> f.state
           half == [f EXCEPT !.finOut = o, !.state = st]
           done == IF t.forward # << >> THEN WriteRst(t) ELSE half
           u    == [done EXCEPT !.open = FALSE, !.polled = FALSE]
<1>1. t.state # "none" /\ t.state # "LISTEN"
  BY DEF Streaming
<1>2. f \in Session /\ StreamKept(t, f) /\ f.state # "LISTEN" /\ f.state # "none"
  <2>1. f \in Session /\ StreamKept(t, f) /\ f.state # "none"
    BY <1>1, WriteStreamKeeps, WriteStreamMoves DEF Keeps
  <2> HIDE DEF f
  <2> QED BY <1>1, <2>1 DEF StreamKept
<1>3. TakeEof(t, ok) = u
  <2>1. f \in Session
    BY <1>2
  <2>2. TakeEof(t, ok) =
          [IF t.forward # << >> THEN WriteRst(t)
           ELSE [[f EXCEPT !.finOut = o] EXCEPT !.state = CASE @ = "ESTABLISHED" -> "FIN_WAIT1"
                                                 [] @ = "CLOSE_WAIT"  -> "LAST_ACK"
                                                 [] OTHER             -> @]
           EXCEPT !.open = FALSE, !.polled = FALSE]
    BY DEF TakeEof
  <2> HIDE DEF f, o
  <2>3. [f EXCEPT !.finOut = o].state = f.state
    BY <2>1 DEF Session
  <2>4. [[f EXCEPT !.finOut = o] EXCEPT !.state = CASE @ = "ESTABLISHED" -> "FIN_WAIT1"
                                           [] @ = "CLOSE_WAIT"  -> "LAST_ACK"
                                           [] OTHER             -> @] = half
    BY <2>3
  <2> HIDE DEF half
  <2> QED BY <2>2, <2>4
<1>4. st # "LISTEN"
  <2> HIDE DEF f
  <2> QED BY <1>2
<1> HIDE DEF f, o, st
<1>5. StreamKept(f, half)
  BY <1>1, <1>2, <1>4 DEF Session, StreamKept
<1> HIDE DEF half
<1>6. Moves(t, half) /\ Moves(t, WriteRst(t))
  BY <1>1, <1>2, <1>5, WriteRstMoves, MovesTransitive DEF Moves
<1>7. Moves(t, done)
  BY <1>6
<1>8. done.state # "none"
  <2>1. WriteRst(t).state # "none"
    BY <1>1, WriteRstKeeps DEF Keeps
  <2>2. t.forward = << >> => half.state # "none"
    <3>1. half.state = st /\ f.state # "none"
      <4>1. half.state = st
        BY <1>2 DEF half, Session
      <4>2. f.state # "none"
        BY <1>2
      <4> QED BY <4>1, <4>2
    <3> QED BY <3>1 DEF st
  <2> QED BY <2>1, <2>2
<1>9. /\ u.state = done.state /\ u.remote_start = done.remote_start
      /\ u.remote_seq = done.remote_seq /\ u.forward = done.forward /\ u.given = done.given
      /\ u.twice = done.twice /\ u.synIn = done.synIn /\ u.finIn = done.finIn
  <2> HIDE DEF done
  <2> QED OBVIOUS
<1> HIDE DEF done, u
<1>10. StreamKept(done, u)
  BY <1>8, <1>9 DEF StreamKept
<1> QED BY <1>3, <1>7, <1>10, MovesTransitive DEF Moves

LEMMA TakeDataMoves ==
  ASSUME NEW t \in Session, NEW ok \in BOOLEAN, NEW n \in Nat, t.state # "none"
  PROVE  StreamKept(t, TakeData(t, n, ok))
<1> DEFINE x   == t.received + n
           got == [t EXCEPT !.unreported = TRUE, !.received = x]
           f   == WriteStream(got, ok, n)
           c   == IF ok THEN f.unconfirmed + 1 ELSE f.unconfirmed
           u   == [f EXCEPT !.unconfirmed = c]
<1>1. got \in Session /\ StreamKept(t, got) /\ got.state = t.state
  <2>1. x \in Nat
    BY DEF Session
  <2> HIDE DEF x
  <2> QED BY <2>1 DEF Session, StreamKept
<1>2. TakeData(t, n, ok) = u
  BY DEF TakeData
<1> HIDE DEF got
<1>3. f \in Session /\ StreamKept(got, f)
  BY <1>1, WriteStreamKeeps, WriteStreamMoves
<1> HIDE DEF f, c
<1>4. /\ u.state = f.state /\ u.remote_start = f.remote_start
      /\ u.remote_seq = f.remote_seq /\ u.forward = f.forward /\ u.given = f.given
      /\ u.twice = f.twice /\ u.synIn = f.synIn /\ u.finIn = f.finIn
  BY <1>3 DEF Session
<1> HIDE DEF u
<1> QED BY <1>1, <1>2, <1>3, <1>4 DEF StreamKept

LEMMA ReadMoves ==
  ASSUME NEW t \in Session, NEW u \in Read(t), t.state # "none"
  PROVE  Moves(t, u)
<1> DEFINE f == Refreshed(t)
<1>1. f \in Session /\ StreamKept(t, f) /\ f.state = t.state /\ SendRoom(t) \in Nat
  BY SendRoomType DEF Session, StreamKept, Refreshed
<1>2. \/ u \in {t, f, WriteRst(f)}
      \/ Readable(t) /\ \E ok \in BOOLEAN : u = TakeEof(f, ok)
      \/ \E ok \in BOOLEAN, n \in Nat : u = TakeData(f, n, ok)
  BY <1>1, ReadOutcomes
<1> HIDE DEF f
<1>3. StreamKept(t, t)
  BY DEF StreamKept
<1>4. CASE u \in {t, f, WriteRst(f)}
  BY <1>1, <1>3, <1>4, WriteRstMoves, MovesTransitive DEF Moves
<1>5. CASE Readable(t) /\ \E ok \in BOOLEAN : u = TakeEof(f, ok)
  <2>1. f.state \in Streaming
    BY <1>1, <1>5 DEF Readable
  <2> QED BY <1>1, <1>5, <2>1, TakeEofMoves, MovesTransitive DEF Moves
<1>6. CASE \E ok \in BOOLEAN, n \in Nat : u = TakeData(f, n, ok)
  BY <1>1, <1>6, TakeDataMoves, MovesTransitive DEF Moves
<1> QED BY <1>2, <1>4, <1>5, <1>6

-----------------------------------------------------------------------------
\* The app keeps to the stream that starts near isn.
KeepsTo(isn) == isn \in Word /\ \A p \in Packets : PacketPlaced(isn, p)

\* What holds at every state before the app's stream is placed.
Before(isn) == KeepsTo(isn) /\ IInv /\ HInv /\ Placed(isn, s)

LEMMA BeforeIs ==
  ASSUME NEW isn, Before(isn)
  PROVE  /\ isn \in Word /\ s \in Session /\ SocketAgrees(s) /\ Accounted(s) /\ FinCounted(s)
         /\ Placed(isn, s) /\ s.synIn \in {0, 1} /\ s.finIn \in {0, 1}
BY SocketMatchesStateIsAgrees
   DEF Before, KeepsTo, IInv, TypeOK, HInv, Accounted, FinCounted

LEMMA KeptIsMoved ==
  ASSUME NEW t, t.state # "none"
  PROVE  Moves(t, t)
BY DEF Moves, StreamKept

LEMMA MonitorPlaces ==
  ASSUME NEW isn, Before(isn), MonitorTcpSession
  PROVE  Placed(isn, s')
<1>1. isn \in Word /\ s \in Session /\ SocketAgrees(s) /\ Placed(isn, s)
  BY BeforeIs
<1>2. CASE s' = s
  BY <1>1, <1>2
<1>3. CASE s.open /\ s' # s
  <2>1. PICK room \in Rooms, due \in BOOLEAN, ok \in BOOLEAN :
          \E t \in {s, KeepAlive(s, ok)} : s' = SetMask(t, EpollMask(s, room))
    BY <1>3 DEF MonitorTcpSession
  <2>2. PICK t \in {s, KeepAlive(s, ok)} : s' = SetMask(t, EpollMask(s, room))
    BY <2>1
  <2>3. s.state # "none"
    BY <1>1, <1>3 DEF SocketAgrees
  <2>4. t \in Session /\ Moves(s, t) /\ t.state # "none"
    BY <1>1, <2>2, <2>3, KeepAliveKeeps, KeepAliveMoves, KeptIsMoved DEF Keeps, Moves
  <2>5. Moves(t, s')
    BY <2>2, <2>4, SetMaskMoves DEF Moves
  <2> QED BY <1>1, <2>4, <2>5, MovesTransitive, MovesPlaced
<1> QED BY <1>2, <1>3 DEF MonitorTcpSession

LEMMA CheckPlaces ==
  ASSUME NEW isn, Before(isn), CheckTcpSession
  PROVE  Placed(isn, s')
BY BeforeIs, CheckPlaced DEF CheckTcpSession

LEMMA TimePlaces ==
  ASSUME NEW isn, Before(isn), TimePasses
  PROVE  Placed(isn, s')
<1>1. s \in Session /\ Placed(isn, s)
  BY BeforeIs
<1>2. /\ s'.state = s.state /\ s'.remote_start = s.remote_start
      /\ s'.remote_seq = s.remote_seq /\ s'.forward = s.forward /\ s'.given = s.given
      /\ s'.twice = s.twice /\ s'.synIn = s.synIn /\ s'.finIn = s.finIn
  BY <1>1 DEF TimePasses, Session
<1> QED BY <1>1, <1>2 DEF Placed

LEMMA PacketPlaces ==
  ASSUME NEW isn, Before(isn), NEW p \in Packets, HandleTcp(p)
  PROVE  Placed(isn, s')
<1>1. /\ isn \in Word /\ s \in Session /\ SocketAgrees(s) /\ Accounted(s) /\ FinCounted(s)
      /\ Placed(isn, s) /\ s.synIn \in {0, 1} /\ s.finIn \in {0, 1}
  BY BeforeIs
<1>2. p \in Packet /\ PacketPlaced(isn, p)
  BY PacketsAssumption DEF Before, KeepsTo
<1> USE <1>1, <1>2
<1>3. CASE s' = s
  BY <1>3
<1>4. CASE TunSyn(p) /\ s' # s
  BY <1>4, NewSessionPlaced DEF TunSyn
<1>5. CASE TunFinished(p)
  BY <1>5, WriteRstMoves, MovesPlaced DEF TunFinished, Finished
<1> DEFINE t == Taken(p)
           w == Touched(p)
<1>6. Live(p) => s.state # "none"
  BY DEF Live
<1>7. /\ w \in Session /\ w.state = s.state /\ t \in Session /\ t.state = s.state
  BY TakenKeeps
<1>8. Live(p) => Placed(isn, w) /\ Placed(isn, t)
  BY <1>6, TakenPlaced
<1>9. Live(p) /\ ~Refuses(p) => Accounted(t) /\ FinCounted(t)
  BY <1>6, TakenAccounted
<1>10. CASE TunRefused(p)
  BY <1>6, <1>7, <1>8, <1>10, WriteRstMoves, MovesPlaced DEF TunRefused, w
<1> HIDE DEF t, w
\* What follows keeps the stream of t.
<1>11. ASSUME Live(p), StreamKept(t, s')
       PROVE  Placed(isn, s')
  BY <1>8, <1>11, KeptPlaced
<1>12. CASE TunReset(p)
  <2>1. Live(p) /\ s' = [t EXCEPT !.state = "CLOSING"]
    BY <1>12 DEF TunReset, TakeReset, t
  <2>2. StreamKept(t, s')
    BY <1>6, <1>7, <2>1 DEF StreamKept, Session
  <2> QED BY <1>11, <2>1, <2>2
<1>13. CASE TunFin(p)
  <2>1. Live(p) /\ ~Refuses(p) /\ s.state \in {"ESTABLISHED", "FIN_WAIT1"}
    BY <1>13 DEF TunFin, TunAccepted
  <2>2. PICK ok \in BOOLEAN : s' = TakeFin(t, ok)
    BY <1>13 DEF TunFin, t
  <2> QED BY <1>7, <1>8, <1>9, <2>1, <2>2, TakeFinPlaced
<1>14. CASE TunAck(p)
  <2> DEFINE a  == p.ack
             st == IF t.state = "SYN_RECV" THEN "ESTABLISHED"
                   ELSE IF t.state = "LAST_ACK" THEN "CLOSING" ELSE t.state
  <2>1. Live(p) /\ s' = [t EXCEPT !.acked = a, !.state = st]
    BY <1>14 DEF TunAck, TunAccepted, t
  <2>2. st # "LISTEN" \/ t.state = "LISTEN"
    OBVIOUS
  <2> HIDE DEF a, st
  <2>3. StreamKept(t, s')
    BY <1>6, <1>7, <2>1, <2>2 DEF StreamKept, Session
  <2> QED BY <1>11, <2>1, <2>3
<1>15. CASE TunIgnored(p)
  BY <1>8, <1>15 DEF TunIgnored, TunAccepted, t
<1>16. CASE TunOldAck(p)
  <2> DEFINE a == IF Compare(p.ack, t.acked) <= 0 THEN t.acked ELSE p.ack
  <2>1. Live(p) /\ s' = [t EXCEPT !.acked = a]
    BY <1>16 DEF TunOldAck, TunAccepted, t
  <2> HIDE DEF a
  <2>2. StreamKept(t, s')
    BY <1>6, <1>7, <2>1 DEF StreamKept, Session
  <2> QED BY <1>11, <2>1, <2>2
<1>17. CASE TunFutureAck(p)
  <2>1. Live(p) /\ s' = WriteRst(t)
    BY <1>17 DEF TunFutureAck, TunAccepted, t
  <2> QED BY <1>6, <1>7, <1>8, <2>1, WriteRstMoves, MovesPlaced
<1>18. CASE TunDropped(p)
  BY <1>3, <1>18 DEF TunDropped
<1> QED BY <1>3, <1>4, <1>5, <1>10, <1>12, <1>13, <1>14, <1>15, <1>16, <1>17, <1>18
        DEF HandleTcp

LEMMA SocketPlaces ==
  ASSUME NEW isn, Before(isn), CheckTcpSocket
  PROVE  Placed(isn, s')
<1>1. /\ isn \in Word /\ s \in Session /\ Accounted(s) /\ FinCounted(s)
      /\ Placed(isn, s) /\ s.synIn \in {0, 1} /\ s.finIn \in {0, 1}
  BY BeforeIs
<1>2. s.state # "none"
  BY DEF Before, IInv, EventFindsSocket, CheckTcpSocket, SocketError, SocketConnect,
         SocketStream, SocketEvent
<1> USE <1>1, <1>2
<1>3. CASE SocketError
  <2> DEFINE u == [s EXCEPT !.fresh = TRUE]
  <2>1. u \in Session /\ StreamKept(s, u) /\ u.state # "none" /\ s' = WriteRst(u)
    BY <1>3 DEF Session, StreamKept, SocketError
  <2> HIDE DEF u
  <2>2. Moves(s, s')
    BY <2>1, WriteRstMoves, MovesTransitive DEF Moves
  <2> QED BY <2>2, MovesPlaced
<1>4. CASE SocketConnect
  <2>1. PICK t \in Connected(s) : s' \in Requested(t)
    BY <1>4 DEF SocketConnect
  <2>2. s.state = "LISTEN"
    BY <1>4 DEF SocketConnect
  <2>3. t \in Session /\ Moves(s, t) /\ t.state # "none"
    BY ConnectedKeeps, ConnectedMoves DEF Keeps
  <2>4. t.state = "LISTEN" \/ t.socks5 # "CONNECTED"
    BY <2>2, ConnectedAccounted
  <2>5. Moves(t, s')
    <3>1. CASE t.state = "LISTEN"
      BY <2>1, <2>3, <3>1, RequestedMoves
    <3>2. CASE t.socks5 # "CONNECTED"
      <4>1. s' \in {t, WriteRst(t)}
        BY <2>1, <3>2 DEF Requested
      <4> QED BY <2>3, <4>1, WriteRstMoves, KeptIsMoved
    <3> QED BY <2>4, <3>1, <3>2
  <2> QED BY <2>3, <2>5, MovesTransitive, MovesPlaced
<1>5. CASE SocketStream
  <2>1. PICK room \in Rooms, left \in Rooms :
          \E t \in IF "OUT" \in ready THEN Forwarded(s, room) ELSE {s} :
            \E u \in Acknowledged(t, t.forward # s.forward, left) : s' \in Read(u)
    BY <1>5 DEF SocketStream
  <2>2. PICK t \in IF "OUT" \in ready THEN Forwarded(s, room) ELSE {s} :
          \E u \in Acknowledged(t, t.forward # s.forward, left) : s' \in Read(u)
    BY <2>1
  <2>3. PICK u \in Acknowledged(t, t.forward # s.forward, left) : s' \in Read(u)
    BY <2>2
  <2>4. room \in Nat /\ room <= Half /\ left \in Nat /\ s.state # "LISTEN"
    BY <1>5, RoomsType DEF SocketStream
  <2>5. t \in Session /\ Placed(isn, t) /\ Sends(s, t)
    <3>1. CASE "OUT" \in ready
      BY <2>2, <2>4, <3>1, ForwardedKeeps, ForwardedPlaced, ForwardedSends
    <3>2. CASE "OUT" \notin ready
      <4>1. t = s
        BY <2>2, <3>2
      <4> QED BY <4>1 DEF Sends
    <3> QED BY <3>1, <3>2
  <2> DEFINE fwd == t.forward # s.forward
  <2>6. t.state \notin {"none", "LISTEN"} /\ t.synIn \in {0, 1} /\ (fwd => t.finIn = 0)
    <3>1. s.finIn = 1 => s.forward = << >> /\ t.forward = << >>
      BY <2>5 DEF FinCounted, Sends
    <3> QED BY <2>4, <2>5, <3>1 DEF Sends
  <2>7. fwd \in BOOLEAN
    OBVIOUS
  <2>8. u \in Session /\ Placed(isn, u) /\ u.state # "none"
    BY <2>3, <2>4, <2>5, <2>6, <2>7, AcknowledgedKeeps, AcknowledgedPlaced DEF Keeps
  <2> QED BY <2>3, <2>8, ReadMoves, MovesPlaced
<1> QED BY <1>3, <1>4, <1>5 DEF CheckTcpSocket

LEMMA NextPlaces ==
  ASSUME NEW isn, Before(isn), [Next]_vars
  PROVE  Placed(isn, s')
<1>1. CASE s' = s
  BY <1>1, BeforeIs
<1>2. CASE \E p \in Packets : HandleTcp(p)
  BY <1>2, PacketPlaces
<1> QED BY <1>1, <1>2, MonitorPlaces, CheckPlaces, TimePlaces, SocketPlaces
        DEF Next, Loop, SkipCheck, EpollWait, TunDrained, EndBatch, vars

\* A queue whose places are in order is sorted by compare_u32.
LEMMA PlacedIsSorted ==
  ASSUME NEW isn \in Word, s \in Session, Placed(isn, s)
  PROVE  QueueSorted
<1> DEFINE q == s.forward
<1>1. q \in Seq(Segment) /\ QueuePlaced(isn, q, s.remote_seq) /\ Half \in Nat
  BY HalfAssumption DEF Session, Placed
<1> HIDE DEF q
<1>2. /\ DOMAIN q = 1 .. Len(q)
      /\ \A i \in 1 .. Len(q) :
           /\ q[i].seq \in Word /\ q[i].len \in Nat /\ Ahead(isn, q[i].seq) \in Nat
  BY <1>1, SegmentsAre
<1>3. \A i \in 1 .. Len(q) : Ahead(isn, q[i].seq) < Half
  BY <1>1, <1>2 DEF QueuePlaced
<1>4. \A i, j \in 1 .. Len(q) : i < j => Compare(q[i].seq, q[j].seq) < 0
  BY <1>1, <1>2, <1>3, PlaceOrder DEF QueuePlaced
<1>5. \A i \in 1 .. Len(q) : q[i].sent > 0 => i = 1 /\ q[i].seq = s.remote_seq
  BY <1>1 DEF QueuePlaced
<1> QED BY <1>2, <1>4, <1>5 DEF QueueSorted, q

\* The distance between two words is that between their places.
LEMMA PlaceDistance ==
  ASSUME NEW isn \in Word, NEW x \in Word, NEW y \in Word, Ahead(isn, x) <= Ahead(isn, y)
  PROVE  Ahead(x, y) = Ahead(isn, y) - Ahead(isn, x)
<1>1. /\ isn \in Int /\ 0 <= isn /\ isn < Modulus /\ x \in Int /\ 0 <= x /\ x < Modulus
      /\ y \in Int /\ 0 <= y /\ y < Modulus
  BY ModulusType DEF Word
<1>2. Ahead(isn, x) = IF isn <= x THEN x - isn ELSE x - isn + Modulus
  BY AheadIs
<1>3. Ahead(isn, y) = IF isn <= y THEN y - isn ELSE y - isn + Modulus
  BY AheadIs
<1>4. Ahead(x, y) = IF x <= y THEN y - x ELSE y - x + Modulus
  BY AheadIs
<1> QED BY <1>1, <1>2, <1>3, <1>4, ModulusType

\* The bytes the server was given are those that remote_seq counts.
LEMMA PlacedIsForwarded ==
  ASSUME NEW isn \in Word, s \in Session, Placed(isn, s), s.state # "none",
         s.synIn \in {0, 1}, s.finIn \in {0, 1}
  PROVE  AckedIsForwarded
<1> DEFINE b == Ahead(isn, s.remote_start) + s.synIn
           r == Ahead(isn, s.remote_seq)
           h == HeadSent(s.forward)
           e == r - s.finIn + h
           first == Wrap(s.remote_start + s.synIn)
           next  == Wrap(s.remote_seq - s.finIn + PartlySent)
<1>1. /\ s.remote_start \in Word /\ s.remote_seq \in Word /\ s.forward \in Seq(Segment)
      /\ Ahead(isn, s.remote_start) \in Nat /\ r \in Nat /\ r < Modulus
      /\ Half \in Nat /\ Half + 2 < Modulus /\ Modulus \in Nat
  BY PlacesAre, AheadType, ModulusType DEF Session
<1>2. /\ QueuePlaced(isn, s.forward, s.remote_seq)
      /\ b + s.finIn <= r /\ s.given = Run(isn, b, e)
  BY DEF Placed
<1>3. PartlySent = h
  BY DEF PartlySent, HeadSent
<1>4. h \in Nat /\ r + h < Modulus
  <2>1. CASE s.forward = << >>
    BY <1>1, <2>1 DEF HeadSent
  <2>2. CASE s.forward # << >>
    <3>1. /\ 1 \in 1 .. Len(s.forward) /\ s.forward[1].sent \in Nat
          /\ h = s.forward[1].sent
      BY <1>1, <2>2, SegmentsAre DEF HeadSent
    <3>2. /\ Ahead(isn, s.forward[1].seq) + s.forward[1].sent + 2 < Half
          /\ s.forward[1].sent > 0 => s.forward[1].seq = s.remote_seq
      BY <1>2, <3>1 DEF QueuePlaced
    <3>3. CASE h > 0
      <4>1. r + h + 2 < Half
        BY <3>1, <3>2, <3>3
      <4> HIDE DEF r, h
      <4> QED BY <1>1, <3>1, <4>1
    <3>4. CASE ~(h > 0)
      <4> HIDE DEF r, h
      <4> QED BY <1>1, <3>1, <3>4
    <3> QED BY <3>3, <3>4
  <2> QED BY <2>1, <2>2
<1>5. b \in Nat /\ e \in Nat /\ b <= e /\ e < Modulus /\ r + (h - s.finIn) = e
  <2> HIDE DEF r, h
  <2>1. b \in Nat
    BY <1>1
  <2> HIDE DEF b
  <2> QED BY <1>1, <1>2, <1>4, <2>1
<1>6. first \in Word /\ Ahead(isn, first) = b
  <2>1. s.synIn \in Int /\ 0 <= b /\ b < Modulus
    <3> HIDE DEF b, e
    <3> QED BY <1>1, <1>5
  <2> QED BY <1>1, <2>1, PlaceMoves
<1>7. next \in Word /\ Ahead(isn, next) = e
  <2> DEFINE n == h - s.finIn
  <2>1. n \in Int /\ r + n = e
    <3> HIDE DEF r, h, e
    <3> QED BY <1>4, <1>5
  <2>2. next = Wrap(s.remote_seq + n)
    <3>1. s.remote_seq - s.finIn + h = s.remote_seq + n
      <4>1. s.remote_seq \in Int
        BY <1>1 DEF Word
      <4> HIDE DEF h
      <4> QED BY <1>4, <4>1
    <3> HIDE DEF h, n
    <3> QED BY <1>3, <3>1
  <2> HIDE DEF n, e, next, h
  <2>3. 0 <= r + n /\ r + n < Modulus
    BY <1>5, <2>1
  <2> QED BY <1>1, <2>1, <2>2, <2>3, PlaceMoves
<1> HIDE DEF b, r, h, e, first, next
<1>8. Ahead(first, next) = e - b
  BY <1>5, <1>6, <1>7, PlaceDistance
<1>9. {Wrap(first + d) : d \in 0 .. (e - b) - 1} = Run(isn, b, e)
  <2> DEFINE seg == [seq |-> first]
  <2>1. e - b \in Nat /\ b + (e - b) = e /\ b + 0 = b /\ e <= Modulus
    BY <1>5, ModulusType
  <2>2. seg.seq = first
    OBVIOUS
  <2> HIDE DEF seg
  <2>3. Bytes(seg, 0, e - b) = Run(isn, b + 0, b + (e - b))
    BY <1>6, <2>1, <2>2, BytesAreRun
  <2> QED BY <2>1, <2>2, <2>3 DEF Bytes
<1>10. s.given = {Wrap(first + d) : d \in 0 .. Ahead(first, next) - 1}
  BY <1>2, <1>8, <1>9
<1> QED BY <1>10 DEF AckedIsForwarded, first, next

\* The stream of an app that keeps to it is placed for good.
LEMMA PlacedInvariance ==
  ASSUME NEW isn, KeepsTo(isn)
  PROVE  Spec => []Placed(isn, s)
<1>1. Init => Placed(isn, s)
  BY NoSessionPlaced DEF Init, NoSession
<1>2. IInv /\ HInv /\ Placed(isn, s) /\ [Next]_vars => Placed(isn, s)'
  BY NextPlaces DEF Before
<1> QED BY <1>1, <1>2, HistoryInvariance, PTL DEF Spec

LEMMA StreamStart ==
  ASSUME StreamFitsHalf
  PROVE  \E isn \in Word : KeepsTo(isn)
BY DEF StreamFitsHalf, KeepsTo, PacketPlaced

\* The queue stays in order, and only its head, at remote_seq, is sent in part,
\* whatever order, overlap or repetition the segments come in, as long as the
\* stream of the app takes fewer than half of the sequence numbers: compare_u32
\* is no order beyond.
THEOREM QueueIsSorted == ASSUME StreamFitsHalf PROVE Spec => []QueueSorted
<1>1. PICK isn \in Word : KeepsTo(isn)
  BY StreamStart
<1>2. Spec => []Placed(isn, s)
  BY <1>1, PlacedInvariance
<1>3. IInv /\ Placed(isn, s) => QueueSorted
  BY PlacedIsSorted DEF IInv, TypeOK
<1> QED BY <1>2, <1>3, Invariance, PTL

\* What an acknowledgement counts the server was given, and nothing else, for an
\* app whose stream takes fewer than half of the sequence numbers.
THEOREM AckedWasForwarded == ASSUME StreamFitsHalf PROVE Spec => []AckedIsForwarded
<1>1. PICK isn \in Word : KeepsTo(isn)
  BY StreamStart
<1>2. Spec => []Placed(isn, s)
  BY <1>1, PlacedInvariance
<1>3. IInv /\ HInv /\ Placed(isn, s) => AckedIsForwarded
  <2> SUFFICES ASSUME IInv, HInv, Placed(isn, s)
               PROVE  AckedIsForwarded
    OBVIOUS
  <2>1. s \in Session /\ s.synIn \in {0, 1} /\ s.finIn \in {0, 1}
    BY DEF IInv, TypeOK, HInv, Accounted, FinCounted
  <2>2. CASE s.state # "none"
    BY <2>1, <2>2, PlacedIsForwarded
  <2>3. CASE s.state = "none"
    BY <2>3 DEF AckedIsForwarded
  <2> QED BY <2>2, <2>3
<1> QED BY <1>2, <1>3, HistoryInvariance, PTL

\* No byte is given to the server twice, for an app whose stream takes fewer
\* than half of the sequence numbers, so that no number stands for two bytes.
THEOREM NoByteTwice == ASSUME StreamFitsHalf PROVE Spec => []GivenOnce
<1>1. PICK isn \in Word : KeepsTo(isn)
  BY StreamStart
<1>2. Spec => []Placed(isn, s)
  BY <1>1, PlacedInvariance
<1>3. Placed(isn, s) => GivenOnce
  BY DEF Placed, GivenOnce
<1> QED BY <1>2, <1>3, PTL
=============================================================================
