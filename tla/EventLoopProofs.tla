-------------------------- MODULE EventLoopProofs --------------------------
(***************************************************************************)
(* Theorems about EventLoop, for any table, any maxsessions and any        *)
(* timeouts: the type invariant, and that the loop never sleeps on while a *)
(* session is overdue.                                                     *)
(***************************************************************************)
EXTENDS EventLoop, NumberFacts, FiniteSetTheorems

\* The minimum of numbers, one of which is positive and none negative.
LEMMA MinIs ==
  ASSUME NEW S \in SUBSET Nat, S # {}
  PROVE  Min(S) \in S /\ \A n \in S : Min(S) <= n
<1>1. \E n \in S : \A m \in S : n <= m
  BY LeastElement
<1> QED BY <1>1 DEF Min

\* The division of C keeps the order.
LEMMA QuotientMonotonic ==
  ASSUME NEW d \in Nat \ {0}, NEW m \in Int, NEW n \in Int, m <= n
  PROVE  Quotient(m, d) <= Quotient(n, d) /\ Quotient(m, d) \in Int /\ Quotient(n, d) \in Int
<1>1. \A k \in Int : k \div d \in Int /\ (k >= 0 => k \div d >= 0)
  <2> TAKE k \in Int
  <2>1. 0 \div d <= k \div d \/ k < 0
    BY DivMonotonic
  <2>2. 0 \div d = 0
    OBVIOUS
  <2> QED BY <2>1, <2>2, DivMod
<1>2. CASE m < 0 /\ n < 0
  <2>1. (-n) \div d <= (-m) \div d
    BY <1>2, DivMonotonic
  <2> QED BY <1>1, <1>2, <2>1 DEF Quotient
<1>3. CASE m < 0 /\ n >= 0
  BY <1>1, <1>3 DEF Quotient
<1>4. CASE m >= 0
  BY <1>1, <1>4, DivMonotonic DEF Quotient
<1> QED BY <1>2, <1>3, <1>4

\* The more sessions there are, the shorter the timeouts.
LEMMA ScaledShrinks ==
  ASSUME NEW limit \in Nat, NEW m \in Nat, NEW n \in Nat, m <= n
  PROVE  Scaled(limit, n) <= Scaled(limit, m) /\ Scaled(limit, n) \in Int
<1> DEFINE a == (m * 100) \div MaxSessions
           b == (n * 100) \div MaxSessions
<1>1. a \in Int /\ b \in Int /\ a <= b
  BY TableAssumption, DivMod, DivMonotonic
<1> HIDE DEF a, b
<1>2. limit * (100 - b) \in Int /\ limit * (100 - a) \in Int
      /\ limit * (100 - b) <= limit * (100 - a)
  BY <1>1
<1> DEFINE x == limit * (100 - b)
           y == limit * (100 - a)
<1>3. Scaled(limit, n) = Quotient(x, 100) /\ Scaled(limit, m) = Quotient(y, 100)
  BY DEF Scaled, a, b
<1> HIDE DEF x, y
<1> QED BY <1>2, <1>3, QuotientMonotonic DEF x, y

\* What to sleep for: at most until the timeout of each live session that is not
\* overdue, and at least a second.
LEMMA TimeoutIs ==
  ASSUME NEW ts \in [Slots -> Session], NEW n \in Nat
  PROVE  /\ Timeout(ts, n) \in 1 .. EPOLL_TIMEOUT
         /\ \A i \in Slots : ts[i].state = "live" /\ ~Overdue(ts[i], n)
              => Timeout(ts, n) <= Remaining(ts[i], n)
<1> DEFINE R == {Remaining(ts[i], n) : i \in {j \in Slots : ts[j].state = "live"}}
           S == {EPOLL_TIMEOUT} \union {r \in R : r > 0}
<1>1. \A i \in Slots : Remaining(ts[i], n) \in Int /\ ts[i].age \in Nat /\ Scaled(ts[i].limit, n) \in Int
  BY ScaledShrinks DEF Session, Remaining
<1>2. R \subseteq Int
  BY <1>1
<1>3. EPOLL_TIMEOUT \in Nat \ {0}
  BY TimeoutsAssumption
<1>4. S \in SUBSET Nat /\ S # {} /\ \A r \in S : r > 0
  <2> HIDE DEF R
  <2>1. ASSUME NEW r \in S PROVE r \in Nat /\ r > 0
    <3>1. r = EPOLL_TIMEOUT \/ (r \in R /\ r > 0)
      OBVIOUS
    <3>2. r \in Int
      BY <1>2, <1>3, <3>1
    <3> QED BY <1>3, <3>1, <3>2
  <2> QED BY <2>1
<1>5. Timeout(ts, n) = Min(S)
  BY DEF Timeout
<1>6. EPOLL_TIMEOUT \in S
  OBVIOUS
<1> HIDE DEF S
<1>7. Timeout(ts, n) \in S /\ \A r \in S : Timeout(ts, n) <= r
  BY <1>4, <1>5, MinIs
<1>8. Timeout(ts, n) \in 1 .. EPOLL_TIMEOUT
  <2>1. Timeout(ts, n) \in Nat /\ Timeout(ts, n) > 0
    BY <1>4, <1>7
  <2>2. Timeout(ts, n) <= EPOLL_TIMEOUT
    BY <1>6, <1>7
  <2> QED BY <1>3, <2>1, <2>2
<1>9. ASSUME NEW i \in Slots, ts[i].state = "live", ~Overdue(ts[i], n)
      PROVE  Timeout(ts, n) <= Remaining(ts[i], n)
  <2>1. Remaining(ts[i], n) > 0
    BY <1>1, <1>9 DEF Overdue, Remaining
  <2>2. Remaining(ts[i], n) \in S
    BY <1>9, <2>1 DEF S
  <2> QED BY <1>7, <2>2
<1> QED BY <1>8, <1>9

-----------------------------------------------------------------------------
\* The age of a session is counted as long as it matters.
Aged(t) == t \in Session /\ t.age <= t.limit + 1 /\ (t.proto = "icmp" => t.state # "ended")

LEMMA EmptyAged == Aged(Empty)
BY DEF Aged, Empty, Session, Protocol, State

LEMMA OpenedAged ==
  ASSUME NEW p \in Protocol, NEW limit \in Nat, NEW state \in {"live", "ending"}
  PROVE  Aged(Opened(p, limit, state))
BY DEF Aged, Opened, Session, State

LEMMA DoomedAged ==
  ASSUME NEW t, Aged(t)
  PROVE  Aged(Doomed(t)) /\ Doomed(t).state = "ending"
<1> DEFINE u == Doomed(t)
<1>1. u \in Session /\ u.state = "ending" /\ u.age = 0
  BY DEF Aged, Doomed, Session, State
<1> HIDE DEF u
<1>2. u.limit \in Nat
  BY <1>1 DEF Session
<1>3. Aged(u)
  BY <1>1, <1>2 DEF Aged
<1> QED BY <1>1, <1>3 DEF u

LEMMA OlderAged ==
  ASSUME NEW t, Aged(t)
  PROVE  /\ Aged(Older(t))
         /\ Older(t).state = t.state /\ Older(t).limit = t.limit /\ Older(t).age <= t.age + 1
BY DEF Aged, Older, Session

LEMMA CheckedAged ==
  ASSUME NEW t, Aged(t), NEW n
  PROVE  /\ Aged(Checked(t, n))
         /\ Checked(t, n).state = "live" => Checked(t, n) = t /\ ~Overdue(t, n)
<1>1. Aged(Ended(t)) /\ Ended(t).state # "live"
  <2>1. CASE t.proto = "icmp"
    BY <2>1, EmptyAged DEF Ended, Empty
  <2>2. CASE t.proto # "icmp"
    <3> DEFINE k == KeepTimeout[t.proto]
    <3>1. k \in Nat
      BY <2>2, TimeoutsAssumption DEF Aged, Session, Protocol
    <3>2. Ended(t) = [t EXCEPT !.state = "ended", !.age = 0, !.limit = k]
      BY <2>2 DEF Ended, Lingering
    <3> HIDE DEF k
    <3> DEFINE u == [t EXCEPT !.state = "ended", !.age = 0, !.limit = k]
    <3>3. u \in Session /\ u.state = "ended" /\ u.age = 0 /\ u.proto = t.proto /\ u.limit = k
      BY <3>1 DEF Aged, Session, State
    <3> HIDE DEF u
    <3>4. Aged(u)
      BY <2>2, <3>1, <3>3 DEF Aged
    <3> QED BY <3>2, <3>3, <3>4 DEF u
  <2> QED BY <2>1, <2>2
<1>2. Empty.state # "live"
  BY DEF Empty
<1>3. \/ Checked(t, n) = Ended(t) \/ Checked(t, n) = Empty
      \/ Checked(t, n) = t /\ ~(t.state = "live" /\ Overdue(t, n))
  BY DEF Checked
<1> QED BY <1>1, <1>2, <1>3, EmptyAged

-----------------------------------------------------------------------------
(***************************************************************************)
(* The inductive invariant.  The timeout is chosen for the sessions that   *)
(* were counted, so those must still be at least as many as there are when *)
(* the check runs: between the two a session can be doomed, but no session *)
(* begins.                                                                 *)
(***************************************************************************)
Counted == phase = "check" => sessions >= Cardinality(Live)

IInv == TypeOK /\ Counted /\ NeverOverdue

LEMMA TableIs ==
  (table \in [Slots -> Session] /\ \A i \in Slots : table[i].age <= table[i].limit + 1
                      /\ (table[i].proto = "icmp" => table[i].state # "ended"))
    <=> (table = [i \in Slots |-> table[i]] /\ \A i \in Slots : Aged(table[i]))
BY DEF Aged

\* Sessions are counted by a number.
LEMMA LiveCount ==
  ASSUME NEW L \in SUBSET Slots, NEW M \in SUBSET L
  PROVE  /\ Cardinality(M) \in Nat /\ Cardinality(L) \in Nat
         /\ Cardinality(M) <= Cardinality(L) /\ Cardinality(L) <= Cardinality(Slots)
         /\ Cardinality(Slots) \in Nat
<1>1. IsFiniteSet(L) /\ IsFiniteSet(M) /\ IsFiniteSet(Slots)
  BY TableAssumption, FS_Subset
<1> QED BY <1>1, FS_Subset, FS_CardinalityType

LEMMA InitIInv == Init => IInv
<1> SUFFICES ASSUME Init PROVE IInv
  OBVIOUS
<1>1. TypeOK
  <2>1. Cardinality(Slots) \in Nat /\ EPOLL_TIMEOUT \in Nat
    BY TableAssumption, TimeoutsAssumption, FS_CardinalityType
  <2>2. \A i \in Slots : table[i] = Empty
    BY DEF Init
  <2>3. table = [i \in Slots |-> table[i]]
    BY DEF Init
  <2>4. \A i \in Slots : Aged(table[i])
    BY <2>2, EmptyAged
  <2>5. /\ table \in [Slots -> Session]
        /\ \A i \in Slots : table[i].age <= table[i].limit + 1
                           /\ (table[i].proto = "icmp" => table[i].state # "ended")
    BY <2>3, <2>4, TableIs
  <2>6. phase = "count" /\ sessions = 0 /\ recheck = FALSE /\ recent = FALSE /\ left = 0
    BY DEF Init
  <2>7. sessions \in 0 .. Cardinality(Slots) /\ left \in 0 .. EPOLL_TIMEOUT
    BY <2>1, <2>6
  <2>8. phase \in Phase /\ recheck \in BOOLEAN /\ recent \in BOOLEAN
    BY <2>6, Zenon DEF Phase
  <2> QED BY <2>5, <2>7, <2>8 DEF TypeOK
<1>2. Counted /\ NeverOverdue
  BY DEF Init, Counted, NeverOverdue
<1> QED BY <1>1, <1>2 DEF IInv

LEMMA StepIInv == IInv /\ [Next]_vars => IInv'
<1> SUFFICES ASSUME IInv, [Next]_vars PROVE IInv'
  OBVIOUS
<1>1. /\ \A i \in Slots : Aged(table[i])
      /\ phase \in Phase /\ sessions \in 0 .. Cardinality(Slots)
      /\ recheck \in BOOLEAN /\ recent \in BOOLEAN /\ left \in 0 .. EPOLL_TIMEOUT
      /\ table = [i \in Slots |-> table[i]]
      /\ EPOLL_TIMEOUT \in Nat \ {0} /\ Cardinality(Slots) \in Nat
  BY TableIs, TimeoutsAssumption, LiveCount DEF IInv, TypeOK
<1>2. Live \subseteq Slots /\ Cardinality(Live) \in 0 .. Cardinality(Slots)
  <2>1. Live \subseteq Slots
    BY DEF Live
  <2> QED BY <2>1, LiveCount
\* The type of a step, once that of the table is known.
<1>3. ASSUME \A i \in Slots : Aged(table'[i]), table' = [i \in Slots |-> table'[i]],
             phase' \in Phase, sessions' \in 0 .. Cardinality(Slots),
             recheck' \in BOOLEAN, recent' \in BOOLEAN, left' \in 0 .. EPOLL_TIMEOUT
      PROVE  TypeOK'
  <2>1. (table' \in [Slots -> Session] /\ \A i \in Slots : table'[i].age <= table'[i].limit + 1
                      /\ (table'[i].proto = "icmp" => table'[i].state # "ended"))
    BY <1>3 DEF Aged
  <2> QED BY <1>3, <2>1 DEF TypeOK
\* A step that ends outside check and wait.
<1>4. ASSUME TypeOK', phase' \notin {"check", "wait"}
      PROVE  IInv'
  BY <1>4 DEF IInv, Counted, NeverOverdue
\* A step that only moves the loop on, to another phase than wait.
<1>5. ASSUME UNCHANGED <<table, sessions>>, phase' \in {"count", "dispatch"},
             recheck' \in BOOLEAN, recent' \in BOOLEAN, left' \in 0 .. EPOLL_TIMEOUT
      PROVE  IInv'
  <2>1. TypeOK'
    BY <1>1, <1>3, <1>5 DEF Phase
  <2> QED BY <1>4, <1>5, <2>1
<1>6. CASE Count
  <2>1. PICK failed \in SUBSET Slots :
          table' = [i \in Slots |-> IF i \in failed THEN Doomed(table[i]) ELSE table[i]]
    BY <1>6 DEF Count
  <2>2. \A i \in Slots : Aged(table'[i]) /\ (table'[i].state = "live" => table[i].state = "live")
    BY <1>1, <2>1, DoomedAged
  <2>3. /\ sessions' = Cardinality(Live) /\ phase' = "check"
        /\ recheck' \in BOOLEAN /\ recent' = recent /\ left' = left
    BY <1>6 DEF Count
  <2>4. TypeOK'
    BY <1>1, <1>2, <1>3, <2>1, <2>2, <2>3 DEF Phase
  <2>5. Live' \subseteq Live
    BY <2>2 DEF Live
  <2>6. Counted'
    BY <1>2, <2>3, <2>5, LiveCount DEF Counted
  <2> QED BY <2>3, <2>4, <2>6 DEF IInv, NeverOverdue
<1>7. CASE Check
  <2>1. /\ phase' = "wait" /\ recent' = TRUE /\ recheck' = recheck /\ sessions' = 0
        /\ table' = [i \in Slots |-> Checked(table[i], sessions)]
        /\ left' = IF recheck THEN 1 ELSE Timeout(table', sessions)
        /\ phase = "check"
    BY <1>7 DEF Check
  <2>2. \A i \in Slots : /\ Aged(table'[i])
                         /\ table'[i].state = "live" => table'[i] = table[i] /\ ~Overdue(table[i], sessions)
    BY <1>1, <2>1, CheckedAged
  <2>3. table' \in [Slots -> Session] /\ sessions \in Nat
    BY <1>1, <2>1, <2>2 DEF Aged
  <2>4. /\ Timeout(table', sessions) \in 1 .. EPOLL_TIMEOUT
        /\ \A i \in Slots : table'[i].state = "live" /\ ~Overdue(table'[i], sessions)
              => Timeout(table', sessions) <= Remaining(table'[i], sessions)
    BY <2>3, TimeoutIs
  <2>5. TypeOK'
    <3>1. left' \in 0 .. EPOLL_TIMEOUT
      BY <1>1, <2>1, <2>4
    <3> QED BY <1>1, <1>3, <2>1, <2>2, <3>1 DEF Phase
  <2>6. Live' \subseteq Live
    BY <2>2 DEF Live
  <2>7. /\ Cardinality(Live') <= sessions /\ Cardinality(Live') \in Nat
    <3>1. Cardinality(Live') <= Cardinality(Live) /\ Cardinality(Live') \in Nat
      BY <1>2, <2>6, LiveCount
    <3>2. Cardinality(Live) <= sessions
      BY <2>1 DEF IInv, Counted
    <3> QED BY <1>2, <2>3, <3>1, <3>2
  <2>8. ASSUME ~recheck', NEW i \in Live'
        PROVE  table'[i].age + left' <= Scaled(table'[i].limit, Cardinality(Live')) + 1
    <3>1. i \in Slots /\ table'[i].state = "live" /\ ~Overdue(table'[i], sessions)
      BY <2>2, <2>8 DEF Live
    <3>2. left' <= Remaining(table'[i], sessions)
      BY <2>1, <2>4, <2>8, <3>1
    <3>3. table'[i].limit \in Nat /\ table'[i].age \in Nat
      BY <2>3, <3>1 DEF Session
    <3>4. /\ Scaled(table'[i].limit, sessions) <= Scaled(table'[i].limit, Cardinality(Live'))
          /\ Scaled(table'[i].limit, sessions) \in Int
          /\ Scaled(table'[i].limit, Cardinality(Live')) \in Int
      BY <2>3, <2>7, <3>3, ScaledShrinks
    <3>5. left' \in Int
      BY <2>1, <2>4, <2>8
    <3> QED BY <3>2, <3>3, <3>4, <3>5 DEF Remaining
  <2>9. NeverOverdue'
    BY <2>8 DEF NeverOverdue
  <2> QED BY <2>1, <2>5, <2>9 DEF IInv, Counted
<1>8. CASE SkipCheck
  <2>1. TypeOK'
    BY <1>1, <1>3, <1>8 DEF SkipCheck, Phase
  <2> QED BY <1>8, <2>1 DEF SkipCheck, IInv, Counted, NeverOverdue
<1>9. CASE EpollTimeout
  <2>1. /\ UNCHANGED <<table, sessions>> /\ phase' = "count" /\ recheck' = FALSE
        /\ recent' = recent /\ left' = 0
    BY <1>9 DEF EpollTimeout
  <2>2. recheck' \in BOOLEAN /\ recent' \in BOOLEAN
    BY <1>1, <2>1, Zenon
  <2>3. left' \in 0 .. EPOLL_TIMEOUT
    BY <1>1, <2>1
  <2> QED BY <1>5, <2>1, <2>2, <2>3
<1>10. CASE EpollReady
  <2>1. /\ UNCHANGED <<table, sessions>> /\ phase' = "dispatch" /\ recheck' = FALSE
        /\ recent' = recent /\ left' = 0
    BY <1>10 DEF EpollReady
  <2>2. recheck' \in BOOLEAN /\ recent' \in BOOLEAN
    BY <1>1, <2>1, Zenon
  <2>3. left' \in 0 .. EPOLL_TIMEOUT
    BY <1>1, <2>1
  <2> QED BY <1>5, <2>1, <2>2, <2>3
<1>11. ASSUME NEW i \in Slots, Dispatch(i)
       PROVE  IInv'
  <2>1. PICK p \in Protocol, limit \in Nat, state \in {"live", "ending"} :
          table' = [table EXCEPT ![i] = Opened(p, limit, state)]
    BY <1>11, TimeoutsAssumption DEF Dispatch
  <2>2. Aged(Opened(p, limit, state))
    BY OpenedAged
  <2> DEFINE o == Opened(p, limit, state)
  <2> HIDE DEF o
  <2>3. table' = [j \in Slots |-> IF j = i THEN o ELSE table[j]]
    BY <1>1, <2>1 DEF o
  <2>4. \A j \in Slots : Aged(table'[j])
    BY <1>1, <2>2, <2>3 DEF o
  <2>5. /\ phase' = phase /\ phase = "dispatch" /\ sessions' = sessions
        /\ recheck' = recheck /\ recent' = recent /\ left' = left
    BY <1>11 DEF Dispatch
  <2>6. TypeOK'
    BY <1>1, <1>3, <2>3, <2>4, <2>5
  <2> QED BY <1>4, <2>5, <2>6
<1>12. CASE EndBatch
  BY <1>1, <1>5, <1>12 DEF EndBatch
<1>13. CASE Second
  <2>1. /\ table' = [i \in Slots |-> Older(table[i])]
        /\ phase = "wait" => left > 0
        /\ left' = IF phase = "wait" THEN left - 1 ELSE left
        /\ UNCHANGED <<phase, sessions, recheck, recent>>
    BY <1>13 DEF Second
  <2>2. \A i \in Slots :
          /\ Aged(table'[i]) /\ table'[i].state = table[i].state
          /\ table'[i].limit = table[i].limit /\ table'[i].age <= table[i].age + 1
    BY <1>1, <2>1, OlderAged
  <2>3. TypeOK'
    BY <1>1, <1>3, <2>1, <2>2
  <2>4. Live' = Live
    BY <2>2 DEF Live
  <2>5. Counted'
    BY <2>1, <2>4 DEF IInv, Counted
  <2>6. ASSUME phase' = "wait", ~recheck', NEW i \in Live'
        PROVE  table'[i].age + left' <= Scaled(table'[i].limit, Cardinality(Live')) + 1
    <3>1. i \in Slots /\ i \in Live
      BY <2>4, <2>6 DEF Live
    <3>2. table[i].age + left <= Scaled(table[i].limit, Cardinality(Live)) + 1
      BY <2>1, <2>6, <3>1 DEF IInv, NeverOverdue
    <3>3. left' = left - 1
      BY <2>1, <2>6
    <3>4. table[i].limit \in Nat /\ table[i].age \in Nat /\ table'[i].age \in Nat
      BY <1>1, <2>2, <3>1 DEF Aged, Session
    <3>5. Scaled(table[i].limit, Cardinality(Live)) \in Int
      BY <1>2, <3>4, ScaledShrinks
    <3> QED BY <1>1, <2>2, <2>4, <3>1, <3>2, <3>3, <3>4, <3>5
  <2>7. NeverOverdue'
    BY <2>6 DEF NeverOverdue
  <2> QED BY <2>3, <2>5, <2>7 DEF IInv
<1>14. CASE Moment \/ UNCHANGED vars
  <2>1. UNCHANGED <<table, phase, sessions, recheck, left>> /\ recent' \in BOOLEAN
    BY <1>1, <1>14 DEF Moment, vars
  <2>2. TypeOK'
    BY <1>1, <1>3, <2>1
  <2> QED BY <2>1, <2>2 DEF IInv, Counted, NeverOverdue, Live
<1> QED BY <1>6, <1>7, <1>8, <1>9, <1>10, <1>11, <1>12, <1>13, <1>14 DEF Next, Loop

LEMMA Invariance == Spec => []IInv
BY InitIInv, StepIInv, PTL DEF Spec

-----------------------------------------------------------------------------
\* The variables keep their types; a session of ICMP never lingers, and the loop
\* never sleeps longer than EPOLL_TIMEOUT.
THEOREM TypeCorrect == Spec => []TypeOK
BY Invariance, PTL DEF IInv

\* The loop wakes for the session that times out next, however many sessions
\* there are and whichever of them was doomed since they were counted.
THEOREM WakesInTime == Spec => []NeverOverdue
BY Invariance, PTL DEF IInv
=============================================================================
