----------------------- MODULE ServiceLifecycleProofs -----------------------
(***************************************************************************)
(* Theorems about ServiceLifecycle, for any number of objects: the type    *)
(* invariant, that the VPN is held open only by an object that can be told *)
(* to stop, and that a retry finds the data that were saved for it, also   *)
(* in a process begun after the stop that asked for it was cut short.      *)
(***************************************************************************)
EXTENDS ServiceLifecycle, FiniteSetTheorems, TLAPS

-----------------------------------------------------------------------------
(***************************************************************************)
(* The inductive invariant.  An object with an open interface has an       *)
(* executor; and one with an executor is alive and registered, because     *)
(* stopServiceNow, which ends either, shuts the executor down.  So a start *)
(* that reaches any other object opens an interface only to close it when  *)
(* the executor refuses the task.                                          *)
(***************************************************************************)
Sane(x) ==
  /\ x \in Object
  /\ x.task # "none" => x.vpn # "null"
  /\ x.vpn = "open" => ~x.shut
  /\ x.stage # "unborn" /\ ~x.shut => x.stage = "alive" /\ x.registered
  /\ x.stage = "unborn" => ~x.registered /\ x.vpn = "null"

\* The messages that lead to a retry.
Retrying == {"retry", "RETRY_START_VPN"}

\* A retry is under way: in the task of an object or in a message, or about to be
\* asked for by the main thread or a task that is half-way through the stop.
Promised(a) ==
  \/ \E o \in Objects : a.object[o].retry \/ a.object[o].task = "asking"
  \/ a.sent \intersect Retrying # {}
  \/ a.destroying

\* Of the process a.
Consistent(a) ==
  /\ a \in App
  /\ \A o \in Objects : Sane(a.object[o])
  /\ \A o, p \in Alive(a) : o = p
  /\ Promised(a) => a.saved

IInv == Consistent(app)

LEMMA Implications ==
  ASSUME IInv
  PROVE  TypeOK /\ NoOrphanInterface /\ RetryFindsData
<1>1. /\ app \in App /\ \A o \in Objects : Sane(app.object[o])
      /\ \A o, p \in Alive(app) : o = p
      /\ \A o \in Objects : app.object[o].retry => app.saved
  BY DEF IInv, Consistent, Promised
<1>2. Cardinality(Alive(app)) <= 1
  <2>1. CASE Alive(app) = {}
    BY <2>1, FS_EmptySet
  <2>2. CASE Alive(app) # {}
    <3>1. PICK o : Alive(app) = {o}
      BY <1>1, <2>2
    <3>2. Cardinality({o}) = 1
      BY FS_Singleton
    <3> QED BY <3>1, <3>2
  <2> QED BY <2>1, <2>2
<1>3. \A o \in Objects : app.object[o].task # "none" => app.object[o].vpn # "null"
  BY <1>1 DEF Sane
<1>4. NoOrphanInterface
  BY <1>1 DEF Sane, NoOrphanInterface
<1> QED BY <1>1, <1>2, <1>3, <1>4 DEF TypeOK, RetryFindsData

\* The process b is a, but for the state x of object o and the flags.
Differs(a, b, o, x) ==
  /\ b \in App
  /\ b.object = [a.object EXCEPT ![o] = x]

LEMMA DiffersIs ==
  ASSUME NEW a, Consistent(a), NEW o \in Objects, NEW x, Sane(x),
         x.stage = "alive" => Alive(a) \subseteq {o},
         NEW b, Differs(a, b, o, x),
         (a.saved \/ x.retry \/ x.task = "asking" \/ b.destroying
            \/ b.sent \intersect Retrying # {}) => b.saved
  PROVE  Consistent(b)
<1>1. a.object \in [Objects -> Object] /\ x \in Object
  BY DEF Consistent, App, Sane
<1>2. b.object[o] = x /\ \A p \in Objects \ {o} : b.object[p] = a.object[p]
  BY <1>1 DEF Differs
<1>3. \A p \in Objects : Sane(b.object[p])
  BY <1>2 DEF Consistent
<1>4. \A p, q \in Alive(b) : p = q
  <2>1. CASE x.stage = "alive"
    BY <1>2, <2>1 DEF Alive
  <2>2. CASE x.stage # "alive"
    <3>1. Alive(b) \subseteq Alive(a)
      BY <1>2, <2>2 DEF Alive
    <3> QED BY <3>1 DEF Consistent
  <2> QED BY <2>1, <2>2
<1>5. Promised(b) => b.saved
  BY <1>2 DEF Consistent, Promised
<1> QED BY <1>3, <1>4, <1>5 DEF Consistent, Differs

\* Sending and taking messages.
LEMMA SentIs ==
  ASSUME NEW a, Consistent(a), NEW sent \in SUBSET Message,
         sent \intersect Retrying # {} => a.saved
  PROVE  Consistent([a EXCEPT !.sent = sent])
<1> DEFINE b == [a EXCEPT !.sent = sent]
<1>1. a \in App
  BY DEF Consistent
<1>2. b \in App /\ b.object = a.object /\ b.saved = a.saved /\ b.sent = sent
      /\ b.destroying = a.destroying
  BY <1>1 DEF App
<1> HIDE DEF b
<1>3. Alive(b) = Alive(a)
  BY <1>2 DEF Alive
<1>4. Consistent(b)
  BY <1>2, <1>3 DEF Consistent, Promised
<1> QED BY <1>4 DEF b

LEMMA TakenIs ==
  ASSUME IInv, NEW m
  PROVE  Consistent(Taken(m))
<1>1. app \in App /\ app.sent \in SUBSET Message
  BY DEF IInv, Consistent, App
<1>2. app.sent \ {m} \in SUBSET Message
  BY <1>1
<1>3. (app.sent \ {m}) \intersect Retrying # {} => app.saved
  BY DEF IInv, Consistent, Promised
<1>4. Taken(m) = [app EXCEPT !.sent = app.sent \ {m}]
  BY DEF Taken
<1> QED BY <1>2, <1>3, <1>4, SentIs DEF IInv

LEMMA SendIs ==
  ASSUME NEW a, Consistent(a), NEW m \in Message, m \in Retrying => a.saved
  PROVE  Consistent(Send(a, m))
<1>1. a \in App /\ a.sent \in SUBSET Message
  BY DEF Consistent, App
<1>2. a.sent \union {m} \in SUBSET Message
  BY <1>1
<1>3. (a.sent \union {m}) \intersect Retrying # {} => a.saved
  BY DEF Consistent, Promised
<1>4. Send(a, m) = [a EXCEPT !.sent = a.sent \union {m}]
  BY DEF Send
<1> QED BY <1>2, <1>3, <1>4, SentIs

-----------------------------------------------------------------------------
(* The functions of the process.                                           *)

\* What stopping makes of an object.
Cleaned(x) ==
  [x EXCEPT !.shut = TRUE, !.vpn = IF x.vpn = "open" THEN "closed" ELSE x.vpn]

Stopped(x, retry) == IF retry THEN Cleaned(x) ELSE [Cleaned(x) EXCEPT !.registered = FALSE]

LEMMA StoppedIs ==
  ASSUME NEW x \in Object, NEW retry \in BOOLEAN,
         x.task # "none" => x.vpn # "null",
         x.stage = "unborn" => ~x.registered /\ x.vpn = "null"
  PROVE  /\ Sane(Cleaned(x)) /\ Sane(Stopped(x, retry))
         /\ Cleaned(x).stage = x.stage /\ Stopped(x, retry).stage = x.stage
         /\ Cleaned(x).retry = x.retry /\ Stopped(x, retry).retry = x.retry
         /\ Cleaned(x).task = x.task /\ Stopped(x, retry).task = x.task
<1> DEFINE y == Cleaned(x)
           z == [y EXCEPT !.registered = FALSE]
<1>1. /\ y \in Object /\ y.shut = TRUE /\ y.stage = x.stage /\ y.registered = x.registered
      /\ y.task = x.task /\ y.retry = x.retry
      /\ y.vpn = IF x.vpn = "open" THEN "closed" ELSE x.vpn
  BY DEF Cleaned, Object
<1> HIDE DEF y
<1>2. /\ z \in Object /\ z.shut = TRUE /\ z.stage = x.stage /\ z.registered = FALSE
      /\ z.task = x.task /\ z.retry = x.retry /\ z.vpn = y.vpn
  BY <1>1 DEF Object
<1> HIDE DEF z
<1>3. Sane(y) /\ Sane(z)
  BY <1>1, <1>2 DEF Sane
<1>4. Cleaned(x) = y /\ Stopped(x, retry) \in {y, z}
  BY DEF y, z, Stopped
<1> QED BY <1>1, <1>2, <1>3, <1>4

LEMMA CleanupIs ==
  ASSUME NEW a \in App, NEW o \in Objects, NEW b, b = Cleanup(a, o)
  PROVE  /\ Differs(a, b, o, Cleaned(a.object[o]))
         /\ b.saved = a.saved /\ b.sent = a.sent /\ b.destroying = a.destroying
<1>1. a.object \in [Objects -> Object] /\ a.object[o] \in Object
  BY DEF App
<1> DEFINE x == a.object[o]
           y == Cleaned(x)
<1>2. y \in Object
  BY <1>1 DEF Cleaned, Object
<1>3. b = [a EXCEPT !.object = [a.object EXCEPT ![o] = y]]
  BY <1>1 DEF Cleanup, Cleaned, App, Object
<1> HIDE DEF y
<1>4. [a.object EXCEPT ![o] = y] \in [Objects -> Object]
  BY <1>1, <1>2
<1>5. b \in App /\ b.object = [a.object EXCEPT ![o] = y] /\ b.saved = a.saved
      /\ b.sent = a.sent /\ b.destroying = a.destroying
  BY <1>3, <1>4 DEF App
<1> QED BY <1>5 DEF Differs, y

LEMMA StopServiceNowIs ==
  ASSUME NEW a \in App, NEW o \in Objects, NEW retry \in BOOLEAN,
         NEW b, b = StopServiceNow(a, o, retry)
  PROVE  /\ Differs(a, b, o, Stopped(a.object[o], retry))
         /\ b.saved = IF retry THEN TRUE ELSE a.saved
         /\ b.sent = a.sent /\ b.destroying = a.destroying
<1> DEFINE c == Cleanup(a, o)
           d == [c EXCEPT !.isRunning = FALSE]
           x == a.object[o]
           y == Cleaned(x)
           z == [y EXCEPT !.registered = FALSE]
<1>1. a.object \in [Objects -> Object] /\ x \in Object
  BY DEF App
<1>2. c \in App /\ c.object = [a.object EXCEPT ![o] = y] /\ c.saved = a.saved /\ c.sent = a.sent
      /\ c.destroying = a.destroying
  BY CleanupIs DEF Differs
<1>3. y \in Object
  BY <1>1 DEF Cleaned, Object
<1> HIDE DEF c
<1>4. d \in App /\ d.object = c.object /\ d.saved = c.saved /\ d.sent = c.sent
      /\ d.destroying = c.destroying
  BY <1>2 DEF App
<1> HIDE DEF d
<1>5. CASE retry
  <2>1. b = [d EXCEPT !.saved = TRUE]
    BY <1>5 DEF StopServiceNow, AskForRetry, d, c
  <2>2. /\ b \in App /\ b.object = d.object /\ b.saved = TRUE /\ b.sent = d.sent
        /\ b.destroying = d.destroying
    BY <1>4, <2>1 DEF App
  <2>3. Stopped(x, retry) = y
    BY <1>5 DEF Stopped
  <2> QED BY <1>2, <1>4, <1>5, <2>2, <2>3 DEF Differs
<1>6. CASE ~retry
  <2>1. b = [d EXCEPT !.object[o].registered = FALSE, !.notice = FALSE]
    BY <1>6 DEF StopServiceNow, d, c
  <2>2. d.object = [a.object EXCEPT ![o] = y] /\ d.object \in [Objects -> Object]
    BY <1>2, <1>4 DEF App
  <2> HIDE DEF y
  <2>3. d.object[o] = y
    BY <1>1, <2>2
  <2>4. b = [d EXCEPT !.object = [d.object EXCEPT ![o] = z], !.notice = FALSE]
    BY <2>1, <2>3
  <2>5. z \in Object
    BY <1>3 DEF Object
  <2> HIDE DEF z
  <2>6. [d.object EXCEPT ![o] = z] = [a.object EXCEPT ![o] = z]
    BY <1>1, <2>2
  <2>7. [d.object EXCEPT ![o] = z] \in [Objects -> Object]
    BY <2>2, <2>5
  <2>8. /\ b \in App /\ b.object = [d.object EXCEPT ![o] = z] /\ b.saved = d.saved
        /\ b.sent = d.sent /\ b.destroying = d.destroying
    BY <1>4, <2>4, <2>7 DEF App
  <2>9. Stopped(x, retry) = z
    BY <1>6 DEF Stopped, y, z
  <2> QED BY <1>2, <1>4, <1>6, <2>6, <2>8, <2>9 DEF Differs
<1> QED BY <1>5, <1>6

LEMMA DiffersTwice ==
  ASSUME NEW a \in App, NEW o \in Objects, NEW x, NEW y, NEW b, NEW c,
         Differs(a, b, o, x), Differs(b, c, o, y)
  PROVE  Differs(a, c, o, y)
<1>1. DOMAIN a.object = Objects
  BY DEF App
<1>2. [[a.object EXCEPT ![o] = x] EXCEPT ![o] = y] = [a.object EXCEPT ![o] = y]
  BY <1>1
<1> QED BY <1>2 DEF Differs

\* The objects remain, and data that are not saved are not asked for.
LEMMA FlagsAre ==
  ASSUME NEW a, Consistent(a), NEW b \in App, b.object = a.object,
         (a.saved \/ b.destroying \/ b.sent \intersect Retrying # {}) => b.saved
  PROVE  Consistent(b)
<1>1. Alive(b) = Alive(a)
  BY DEF Alive
<1>2. Promised(b) => b.saved
  BY DEF Consistent, Promised
<1> QED BY <1>1, <1>2 DEF Consistent

\* The second half of a stop with retry, by whoever had begun it.
LEMMA AskedIs ==
  ASSUME NEW a, Consistent(a), a.saved
  PROVE  Consistent(Asked(a))
<1> DEFINE b == Send(a, "RETRY_START_VPN")
           c == Asked(a)
<1>1. Consistent(b)
  BY SendIs DEF Message
<1>2. a \in App /\ b = [a EXCEPT !.sent = a.sent \union {"RETRY_START_VPN"}]
  BY DEF Consistent, Send
<1>3. b \in App /\ b.saved = TRUE
  BY <1>1, <1>2 DEF Consistent, App
<1>4. c = [b EXCEPT !.notice = FALSE]
  BY DEF Asked, AskForRetry
<1> HIDE DEF b, c
<1>5. c \in App /\ c.object = b.object /\ c.saved = TRUE
  BY <1>3, <1>4 DEF App
<1>6. Consistent(c)
  BY <1>1, <1>5, FlagsAre
<1> QED BY <1>6 DEF c

LEMMA HistoryIs ==
  ASSUME NEW a, Consistent(a), NEW stopped \in BOOLEAN
  PROVE  Consistent([a EXCEPT !.stopped = stopped])
<1> DEFINE b == [a EXCEPT !.stopped = stopped]
<1>1. a \in App
  BY DEF Consistent
<1>2. b \in App /\ b.object = a.object /\ b.saved = a.saved /\ b.sent = a.sent
      /\ b.destroying = a.destroying
  BY <1>1 DEF App
<1> HIDE DEF b
<1>3. (a.saved \/ b.destroying \/ b.sent \intersect Retrying # {}) => b.saved
  BY <1>2 DEF Consistent, Promised
<1>4. Consistent(b)
  BY <1>2, <1>3, FlagsAre
<1> QED BY <1>4 DEF b

\* What setting up the VPN and loading the rules make of an object.
Prepared(x) == [x EXCEPT !.vpn = "open"]

Loading(x, retry) == [Prepared(x) EXCEPT !.task = "loading", !.retry = retry]

LEMMA LoadingIs ==
  ASSUME NEW x \in Object, Sane(x), NEW retry \in BOOLEAN
  PROVE  /\ Prepared(x) \in Object /\ Prepared(x).stage = x.stage /\ Prepared(x).vpn = "open"
         /\ Prepared(x).retry = x.retry /\ Prepared(x).task = x.task
         /\ Loading(x, retry) \in Object /\ Loading(x, retry).stage = x.stage
         /\ Loading(x, retry).vpn = "open"
         /\ Loading(x, retry).retry = retry /\ Loading(x, retry).task = "loading"
         /\ x.stage # "unborn" /\ ~x.shut => Sane(Loading(x, retry)) /\ x.stage = "alive"
<1> DEFINE y == Prepared(x)
           z == Loading(x, retry)
<1>1. /\ y \in Object /\ y.stage = x.stage /\ y.vpn = "open" /\ y.retry = x.retry
      /\ y.shut = x.shut /\ y.registered = x.registered /\ y.task = x.task
  BY DEF Prepared, Object
<1>2. z = [y EXCEPT !.task = "loading", !.retry = retry]
  BY DEF Loading
<1> HIDE DEF y, z
<1>3. /\ z \in Object /\ z.stage = x.stage /\ z.vpn = "open" /\ z.retry = retry
      /\ z.shut = x.shut /\ z.registered = x.registered /\ z.task = "loading"
  BY <1>1, <1>2 DEF Object, Task
<1>4. x.stage # "unborn" /\ ~x.shut => Sane(z) /\ x.stage = "alive"
  BY <1>3 DEF Sane
<1> QED BY <1>1, <1>3, <1>4 DEF y, z

\* However a start ends, an object that may not hold the VPN open does not.
LEMMA StartServiceNowIs ==
  ASSUME NEW a, Consistent(a), NEW o \in Objects, a.object[o].stage # "unborn",
         NEW retry \in BOOLEAN, retry => a.saved,
         NEW b \in StartServiceNow(a, o, retry)
  PROVE  Consistent(b)
<1> DEFINE x == a.object[o]
           c == [a EXCEPT !.isWaiting = FALSE, !.object[o].vpn = "open"]
<1>1. /\ a \in App /\ a.object \in [Objects -> Object] /\ x \in Object /\ Sane(x)
      /\ (a.sent \intersect Retrying # {} \/ a.destroying) => a.saved
      /\ x.retry \/ x.task = "asking" => a.saved
  BY DEF Consistent, App, Promised
<1>2. \/ b = a
      \/ b = [a EXCEPT !.isWaiting = TRUE]
      \/ b \in Launched(c, o, retry)
  BY DEF StartServiceNow
<1>3. CASE b = [a EXCEPT !.isWaiting = TRUE]
  <2>1. b \in App /\ b.object = a.object /\ b.saved = a.saved /\ b.sent = a.sent
        /\ b.destroying = a.destroying
    BY <1>1, <1>3 DEF App
  <2> QED BY <1>1, <2>1, FlagsAre
<1>4. CASE b \in Launched(c, o, retry)
  <2> DEFINE y == Prepared(x)
             z == Loading(x, retry)
  <2>1. /\ y \in Object /\ y.stage = x.stage /\ y.vpn = "open" /\ y.retry = x.retry
        /\ y.task = x.task
        /\ z \in Object /\ z.stage = x.stage /\ z.retry = retry /\ z.vpn = "open"
        /\ z.task = "loading"
        /\ ~x.shut => Sane(z) /\ x.stage = "alive"
    BY <1>1, LoadingIs
  <2>2. Differs(a, c, o, y) /\ c.saved = a.saved /\ c.sent = a.sent
        /\ c.destroying = a.destroying
    <3>1. c = [a EXCEPT !.isWaiting = FALSE, !.object = [a.object EXCEPT ![o] = y]]
      BY <1>1 DEF Prepared
    <3> HIDE DEF y, c
    <3>2. [a.object EXCEPT ![o] = y] \in [Objects -> Object]
      BY <1>1, <2>1
    <3> QED BY <1>1, <3>1, <3>2 DEF Differs, App
  <2> HIDE DEF c
  <2>3. c.object[o] = y /\ c \in App
    BY <1>1, <2>2 DEF Differs
  <2>4. CASE x.shut
    <3> DEFINE d == [c EXCEPT !.isRunning = TRUE]
    <3>1. c.object[o].shut
      BY <1>1, <2>3, <2>4 DEF Prepared, Object
    <3>2. b = Cleanup(d, o)
      BY <1>4, <3>1 DEF Launched
    <3>3. d \in App /\ d.object = c.object /\ d.saved = c.saved /\ d.sent = c.sent
          /\ d.destroying = c.destroying
      BY <2>3 DEF App
    <3> HIDE DEF d
    <3>4. Differs(d, b, o, Cleaned(y)) /\ b.saved = d.saved /\ b.sent = d.sent
          /\ b.destroying = d.destroying
      BY <2>3, <3>2, <3>3, CleanupIs
    <3>5. Differs(a, b, o, Cleaned(y))
      BY <1>1, <2>2, <3>3, <3>4, DiffersTwice DEF Differs
    <3>6. Sane(Cleaned(y)) /\ Cleaned(y).stage = x.stage /\ Cleaned(y).retry = x.retry
          /\ Cleaned(y).task = x.task
      BY <2>1, StoppedIs
    <3>7. x.stage = "alive" => Alive(a) \subseteq {o}
      BY DEF Consistent, Alive
    <3> QED BY <1>1, <2>2, <3>3, <3>4, <3>5, <3>6, <3>7, DiffersIs
  <2>5. CASE ~x.shut
    <3> DEFINE d == [c EXCEPT !.isRunning = TRUE, !.object[o].task = "loading",
                              !.object[o].retry = retry]
    <3>1. ~c.object[o].shut
      BY <1>1, <2>3, <2>5 DEF Prepared, Object
    <3>2. b = [d EXCEPT !.notice = TRUE] \/ b = Cleanup(d, o)
      BY <1>4, <3>1 DEF Launched
    <3>3. Differs(c, d, o, z) /\ d.saved = c.saved /\ d.sent = c.sent
          /\ d.destroying = c.destroying
      <4>1. d = [c EXCEPT !.isRunning = TRUE, !.object = [c.object EXCEPT ![o] = z]]
        BY <2>3 DEF Loading, App
      <4> HIDE DEF d, z
      <4>2. [c.object EXCEPT ![o] = z] \in [Objects -> Object]
        BY <2>1, <2>3 DEF App
      <4> QED BY <2>3, <4>1, <4>2 DEF Differs, App
    <3> HIDE DEF d, y, z
    <3>4. Differs(a, d, o, z) /\ d.object[o] = z
      BY <1>1, <2>2, <3>3, DiffersTwice DEF Differs
    <3>5. Alive(a) \subseteq {o}
      BY <2>1, <2>5 DEF Consistent, Alive
    <3>6. CASE b = [d EXCEPT !.notice = TRUE]
      <4>1. b \in App /\ b.object = d.object /\ b.saved = d.saved /\ b.sent = d.sent
            /\ b.destroying = d.destroying
        BY <3>4, <3>6 DEF Differs, App
      <4>2. Differs(a, b, o, z)
        BY <3>4, <4>1 DEF Differs
      <4> QED BY <1>1, <2>1, <2>2, <2>5, <3>3, <3>5, <4>1, <4>2, DiffersIs
    <3>7. CASE b = Cleanup(d, o)
      <4>1. Differs(d, b, o, Cleaned(z)) /\ b.saved = d.saved /\ b.sent = d.sent
            /\ b.destroying = d.destroying
        BY <3>4, <3>7, CleanupIs DEF Differs
      <4>2. Differs(a, b, o, Cleaned(z))
        BY <1>1, <3>4, <4>1, DiffersTwice
      <4>3. Sane(Cleaned(z)) /\ Cleaned(z).retry = retry /\ Cleaned(z).task = "loading"
        BY <2>1, StoppedIs
      <4> QED BY <1>1, <2>2, <3>3, <3>5, <4>1, <4>2, <4>3, DiffersIs
    <3> QED BY <3>2, <3>6, <3>7
  <2> QED BY <2>4, <2>5
<1> QED BY <1>2, <1>3, <1>4

\* onCreate, of an object that Android may create.
LEMMA CreatedIs ==
  ASSUME NEW a, Consistent(a), NEW o \in Objects,
         a.object[o].stage = "alive" \/ (a.object[o].stage = "unborn" /\ Alive(a) = {})
  PROVE  Consistent(Created(a, o)) /\ Created(a, o).object[o].stage # "unborn"
         /\ Created(a, o).saved = a.saved
<1> DEFINE x == a.object[o]
           y == [x EXCEPT !.stage = "alive", !.registered = TRUE]
           b == Created(a, o)
<1>1. /\ a \in App /\ a.object \in [Objects -> Object] /\ x \in Object /\ Sane(x)
      /\ (x.retry \/ x.task = "asking" \/ a.sent \intersect Retrying # {} \/ a.destroying)
           => a.saved
  BY DEF Consistent, App, Promised
<1>2. CASE x.stage = "alive"
  BY <1>2 DEF Created
<1>3. CASE x.stage # "alive"
  <2>1. x.stage = "unborn" /\ Alive(a) = {}
    BY <1>3
  <2>2. b = [a EXCEPT !.object = [a.object EXCEPT ![o] = y]]
    BY <1>1, <1>3 DEF Created
  <2>3. /\ y \in Object /\ y.stage = "alive" /\ y.registered = TRUE /\ y.vpn = x.vpn
        /\ y.task = x.task /\ y.retry = x.retry
    BY <1>1 DEF Object, Stage
  <2> HIDE DEF y, b
  <2>4. Sane(y)
    BY <1>1, <2>1, <2>3 DEF Sane
  <2>5. [a.object EXCEPT ![o] = y] \in [Objects -> Object]
    BY <1>1, <2>3
  <2>6. Differs(a, b, o, y) /\ b.saved = a.saved /\ b.sent = a.sent /\ b.object[o] = y
        /\ b.destroying = a.destroying
    BY <1>1, <2>2, <2>5 DEF Differs, App
  <2>7. Consistent(b)
    BY <1>1, <2>1, <2>3, <2>4, <2>6, DiffersIs
  <2> QED BY <2>3, <2>6, <2>7 DEF b
<1> QED BY <1>2, <1>3

\* The first half of a stop with retry, whether the object was just destroyed or
\* its task fails: what is promised from now on is saved.
LEMMA StopWithRetryIs ==
  ASSUME NEW a \in App, NEW o \in Objects,
         a.object[o].task # "none" => a.object[o].vpn # "null",
         a.object[o].stage # "unborn",
         \A p \in Objects \ {o} : Sane(a.object[p]),
         \A p, q \in Alive(a) : p = q,
         NEW b, b = StopServiceNow(a, o, TRUE)
  PROVE  Consistent(b)
<1> DEFINE x == a.object[o]
           y == Stopped(x, TRUE)
<1>1. a.object \in [Objects -> Object] /\ x \in Object
  BY DEF App
<1>2. Differs(a, b, o, y) /\ b.saved = TRUE
  BY StopServiceNowIs
<1>3. Sane(y) /\ y.stage = x.stage
  BY <1>1, StoppedIs
<1> HIDE DEF y
<1>4. b.object[o] = y /\ \A p \in Objects \ {o} : b.object[p] = a.object[p]
  BY <1>1, <1>2 DEF Differs
<1>5. \A p \in Objects : Sane(b.object[p])
  BY <1>3, <1>4
<1>6. Alive(b) = Alive(a)
  BY <1>3, <1>4 DEF Alive
<1> QED BY <1>2, <1>5, <1>6 DEF Differs, Consistent

LEMMA AllStoppedIs ==
  ASSUME NEW a, Consistent(a)
  PROVE  Consistent(AllStopped(a))
<1> DEFINE b == AllStopped(a)
           f == [o \in Objects |-> IF o \in Receivers(a) THEN StopServiceNow(a, o, FALSE).object[o]
                                   ELSE a.object[o]]
<1>1. /\ a \in App /\ a.object \in [Objects -> Object]
      /\ \A o \in Objects : Sane(a.object[o]) /\ a.object[o] \in Object
  BY DEF Consistent, App
<1>2. CASE Receivers(a) = {}
  BY <1>2 DEF AllStopped
<1>3. CASE Receivers(a) # {}
  <2>1. b = [a EXCEPT !.object = f, !.isRunning = FALSE, !.notice = FALSE]
    BY <1>3 DEF AllStopped
  <2>2. ASSUME NEW o \in Objects
        PROVE  /\ Sane(f[o]) /\ f[o].stage = a.object[o].stage /\ f[o].retry = a.object[o].retry
               /\ f[o].task = a.object[o].task /\ f[o] \in Object
    <3>1. CASE o \in Receivers(a)
      <4> DEFINE c == StopServiceNow(a, o, FALSE)
                 y == Stopped(a.object[o], FALSE)
      <4>1. Differs(a, c, o, y)
        BY <1>1, StopServiceNowIs
      <4>2. f[o] = c.object[o]
        BY <3>1
      <4>3. Sane(y) /\ y.stage = a.object[o].stage /\ y.retry = a.object[o].retry
            /\ y.task = a.object[o].task
        BY <1>1, StoppedIs DEF Sane
      <4> HIDE DEF c, y, f
      <4>4. c.object[o] = y
        BY <1>1, <4>1 DEF Differs
      <4> QED BY <4>2, <4>3, <4>4 DEF Sane
    <3>2. CASE o \notin Receivers(a)
      BY <1>1, <3>2
    <3> QED BY <3>1, <3>2
  <2>3. f \in [Objects -> Object]
    <3>1. f = [o \in Objects |-> f[o]]
      OBVIOUS
    <3> HIDE DEF f
    <3> QED BY <2>2, <3>1
  <2> HIDE DEF f, b
  <2>4. b \in App /\ b.object = f /\ b.saved = a.saved /\ b.sent = a.sent
        /\ b.destroying = a.destroying
    BY <1>1, <2>1, <2>3 DEF App
  <2>5. Alive(b) = Alive(a)
    BY <2>2, <2>4 DEF Alive
  <2>6. Promised(b) => b.saved
    BY <2>2, <2>4 DEF Consistent, Promised
  <2>7. Consistent(b)
    BY <2>2, <2>4, <2>5, <2>6 DEF Consistent
  <2> QED BY <2>7 DEF b
<1> QED BY <1>2, <1>3

\* A task goes on, is over, or is about to stop the service.
LEMMA BecomesIs ==
  ASSUME IInv, NEW o \in Objects, app.object[o].task # "none", NEW task \in Task \ {"none"},
         NEW b, b = Becomes(o, task)
  PROVE  /\ b \in App /\ b.saved = app.saved /\ Alive(b) = Alive(app)
         /\ \A p \in Objects : Sane(b.object[p])
         /\ b.object[o].stage # "unborn"
         /\ task # "asking" => Consistent(b)
<1> DEFINE x == app.object[o]
           y == [x EXCEPT !.task = task]
<1>1. /\ app \in App /\ app.object \in [Objects -> Object] /\ x \in Object /\ Sane(x)
      /\ (x.retry \/ app.sent \intersect Retrying # {} \/ app.destroying) => app.saved
  BY DEF IInv, Consistent, App, Promised
<1>2. b = [app EXCEPT !.object = [app.object EXCEPT ![o] = y]]
  BY <1>1 DEF Becomes
<1>3. /\ y \in Object /\ y.stage = x.stage /\ y.registered = x.registered /\ y.vpn = x.vpn
      /\ y.shut = x.shut /\ y.retry = x.retry /\ y.task = task
  BY <1>1 DEF Object
<1> HIDE DEF y
<1>4. Sane(y) /\ y.stage # "unborn"
  BY <1>1, <1>3 DEF Sane
<1>5. [app.object EXCEPT ![o] = y] \in [Objects -> Object]
  BY <1>1, <1>3
<1>6. Differs(app, b, o, y) /\ b.saved = app.saved /\ b.sent = app.sent
      /\ b.destroying = app.destroying
  BY <1>1, <1>2, <1>5 DEF Differs, App
<1>7. b.object[o] = y /\ \A p \in Objects \ {o} : b.object[p] = app.object[p]
  BY <1>1, <1>6 DEF Differs
<1>8. Alive(b) = Alive(app) /\ \A p \in Objects : Sane(b.object[p])
  BY <1>3, <1>4, <1>7 DEF IInv, Consistent, Alive
<1>9. y.stage = "alive" => Alive(app) \subseteq {o}
  BY <1>3 DEF IInv, Consistent, Alive
<1>10. task # "asking" => Consistent(b)
  BY <1>1, <1>3, <1>4, <1>6, <1>9, DiffersIs DEF IInv
<1> QED BY <1>4, <1>6, <1>7, <1>8, <1>10 DEF Differs

-----------------------------------------------------------------------------
(* The steps.                                                              *)

\* A process that has begun, with what was saved and what Android holds.
LEMMA FreshIs ==
  /\ Fresh \in App /\ Fresh.sent = {} /\ Fresh.destroying = FALSE
  /\ \A b \in App : b.object = Fresh.object /\ ~b.destroying
                      /\ (b.sent \intersect Retrying # {} => b.saved) => Consistent(b)
<1>1. Unborn \in Object
  BY DEF Unborn, Object, Stage, Task
<1>2. Sane(Unborn) /\ ~Unborn.retry /\ Unborn.stage = "unborn" /\ Unborn.task = "none"
  BY <1>1 DEF Sane, Unborn
<1>3. Fresh \in App /\ Fresh.object = [o \in Objects |-> Unborn] /\ Fresh.sent = {}
      /\ Fresh.destroying = FALSE
  BY <1>1 DEF Fresh, App
<1>4. ASSUME NEW b \in App, b.object = Fresh.object, ~b.destroying,
             b.sent \intersect Retrying # {} => b.saved
      PROVE  Consistent(b)
  <2>1. \A o \in Objects : b.object[o] = Unborn
    BY <1>3, <1>4
  <2>2. Alive(b) = {} /\ \A o \in Objects : Sane(b.object[o])
    BY <1>2, <2>1 DEF Alive
  <2>3. Promised(b) => b.saved
    BY <1>2, <1>4, <2>1 DEF Promised
  <2> QED BY <1>4, <2>2, <2>3 DEF Consistent
<1> QED BY <1>3, <1>4

LEMMA InitIInv == Init => IInv
BY FreshIs DEF Init, IInv

LEMMA StepIInv == IInv /\ [Next]_vars => IInv'
<1> SUFFICES ASSUME IInv, [Next]_vars PROVE Consistent(app')
  BY DEF IInv
<1>1. /\ Consistent(app) /\ app \in App /\ app.saved \in BOOLEAN
      /\ \A o \in Objects : Sane(app.object[o]) /\ app.object[o] \in Object
      /\ (app.sent \intersect Retrying # {} \/ app.destroying) => app.saved
      /\ \A o \in Objects : app.object[o].task = "asking" => app.saved
  BY DEF IInv, Consistent, App, Promised
\* A message is taken; nothing else changes.
<1>2. ASSUME NEW m
      PROVE  /\ Consistent(Taken(m)) /\ Taken(m) \in App
             /\ Taken(m).object = app.object /\ Taken(m).saved = app.saved
             /\ Alive(Taken(m)) = Alive(app) /\ Receivers(Taken(m)) = Receivers(app)
  <2>1. Taken(m).object = app.object /\ Taken(m).saved = app.saved
    BY <1>1 DEF Taken, App
  <2> QED BY <2>1, TakenIs DEF Consistent, Alive, Receivers
<1>3. CASE UserStarts
  <2>1. PICK m \in {"start", "START_VPN"} : app' = [Send(app, m) EXCEPT !.stopped = FALSE]
    BY <1>3 DEF UserStarts
  <2>2. Consistent(Send(app, m))
    BY <1>1, SendIs DEF Message, Retrying
  <2> QED BY <2>1, <2>2, HistoryIs
<1>4. CASE UserStops \/ Revoked
  <2>1. PICK m \in {"STOP_VPN", "destroy"} : app' = Send(app, m)
    BY <1>4 DEF UserStops, Revoked
  <2> QED BY <1>1, <2>1, SendIs DEF Message, Retrying
<1>5. CASE OnStartCommand
  <2>1. PICK m \in {"start", "retry"} \intersect app.sent, o \in Target(app) :
          app' \in StartServiceNow(Created(Taken(m), o), o, m = "retry")
    BY <1>5 DEF OnStartCommand
  <2>2. o \in Objects /\ (app.object[o].stage = "alive"
                            \/ (app.object[o].stage = "unborn" /\ Alive(app) = {}))
    <3>1. CASE Alive(app) # {}
      BY <2>1, <3>1 DEF Target, Alive
    <3>2. CASE Alive(app) = {}
      <4>1. o \in Objects /\ (app.object[o].stage = "unborn" <=> o <= o)
        BY <2>1, <3>2 DEF Target, NextObject
      <4> QED BY <3>2, <4>1 DEF Objects
    <3> QED BY <3>1, <3>2
  <2> DEFINE a == Taken(m)
             c == Created(a, o)
  <2>3. Consistent(c) /\ c.object[o].stage # "unborn" /\ c.saved = app.saved
    BY <1>2, <2>2, CreatedIs
  <2>4. m = "retry" => app.saved
    BY <1>1, <2>1 DEF Retrying
  <2> HIDE DEF c
  <2> DEFINE retry == (m = "retry")
  <2>5. retry \in BOOLEAN /\ (retry => c.saved)
    BY <2>3, <2>4
  <2>6. app' \in StartServiceNow(c, o, retry)
    BY <2>1 DEF c
  <2> HIDE DEF retry
  <2> QED BY <2>2, <2>3, <2>5, <2>6, StartServiceNowIs
<1>6. CASE OnStart
  <2> DEFINE a == Taken("START_VPN")
  <2>1. Consistent(a) /\ a.object = app.object
    BY <1>2
  <2>2. (\E o \in Receivers(app) : app' \in StartServiceNow(a, o, FALSE)) \/ app' = a
    BY <1>6 DEF OnStart
  <2> HIDE DEF a
  <2>3. ASSUME NEW o \in Receivers(app), app' \in StartServiceNow(a, o, FALSE)
        PROVE  Consistent(app')
    <3>1. o \in Objects /\ app.object[o].registered
      BY DEF Receivers
    <3>2. app.object[o].stage # "unborn"
      BY <1>1, <3>1 DEF Sane
    <3> QED BY <2>1, <2>3, <3>1, <3>2, StartServiceNowIs
  <2> QED BY <2>1, <2>2, <2>3
<1>7. CASE OnStop
  <2> DEFINE stopped == Heard(AllStopped(Taken("STOP_VPN")))
  <2>1. Consistent(stopped)
    BY <1>2, AllStoppedIs, HistoryIs DEF Heard
  <2>2. app' = stopped \/ app' = Send(stopped, "destroy")
    BY <1>7 DEF OnStop
  <2> HIDE DEF stopped
  <2>3. Consistent(Send(stopped, "destroy"))
    BY <2>1, SendIs DEF Message, Retrying
  <2> QED BY <2>1, <2>2, <2>3
<1>8. CASE OnDestroy
  <2> DEFINE a == Taken("destroy")
  <2>1. PICK o \in Alive(app) : app' = StopServiceNow(Destroyed(a, o), o, TRUE)
    BY <1>8 DEF OnDestroy
  <2> DEFINE x == app.object[o]
             y == [x EXCEPT !.stage = "destroyed"]
             c == Destroyed(a, o)
  <2>2. /\ Consistent(a) /\ a \in App /\ a.object = app.object /\ o \in Objects
        /\ x.stage = "alive" /\ x \in Object /\ Sane(x)
        /\ a.object \in [Objects -> Object]
    BY <1>1, <1>2 DEF Alive, App
  <2>3. y \in Object /\ y.stage = "destroyed" /\ y.task = x.task /\ y.vpn = x.vpn
    BY <2>2 DEF Object, Stage
  <2>4. c = [a EXCEPT !.object = [a.object EXCEPT ![o] = y], !.destroying = TRUE]
    BY <2>2 DEF Destroyed
  <2> HIDE DEF a, c, y
  <2>5. [a.object EXCEPT ![o] = y] \in [Objects -> Object]
    BY <2>2, <2>3
  <2>6. c \in App /\ c.object = [a.object EXCEPT ![o] = y]
    BY <2>2, <2>4, <2>5 DEF App
  <2>7. c.object[o] = y /\ \A p \in Objects \ {o} : c.object[p] = app.object[p]
    BY <2>2, <2>6
  <2>8. \A p, q \in Alive(c) : p = q
    <3>1. Alive(c) \subseteq Alive(app)
      BY <2>3, <2>7 DEF Alive
    <3> QED BY <1>1, <3>1 DEF Consistent
  <2>9. c.object[o].task # "none" => c.object[o].vpn # "null"
    BY <2>2, <2>3, <2>7 DEF Sane
  <2>10. app' = StopServiceNow(c, o, TRUE)
    BY <2>1 DEF c
  <2>11. c.object[o].stage # "unborn" /\ \A p \in Objects \ {o} : Sane(c.object[p])
    BY <1>1, <2>3, <2>7
  <2> QED BY <2>2, <2>6, <2>8, <2>9, <2>10, <2>11, StopWithRetryIs
<1>14. CASE OnDestroyEnds
  <2> DEFINE a == [app EXCEPT !.destroying = FALSE]
  <2>1. a \in App /\ a.object = app.object /\ a.saved = app.saved /\ a.sent = app.sent
        /\ a.destroying = FALSE
    BY <1>1 DEF App
  <2>2. app.saved /\ app' = Asked(a)
    BY <1>1, <1>14 DEF OnDestroyEnds
  <2> HIDE DEF a
  <2>3. Consistent(a)
    BY <1>1, <2>1, <2>2, FlagsAre
  <2> QED BY <2>1, <2>2, <2>3, AskedIs
<1>9. CASE OnReceive
  <2>1. app.saved /\ app' = Send(Taken("RETRY_START_VPN"), "retry")
    BY <1>1, <1>9 DEF OnReceive, Retrying
  <2> QED BY <1>2, <2>1, SendIs DEF Message
<1>10. CASE RetryLost
  BY <1>2, <1>10 DEF RetryLost
<1>11. ASSUME NEW o \in Objects, Worker(o) \/ EngineExits(o)
       PROVE  Consistent(app')
  <2> DEFINE quiet == {"over", "preparing", "starting", "engine", "exited"}
             a == Becomes(o, "asking")
             c == Becomes(o, "over")
  <2>1. app.object[o].task # "none"
    BY <1>11 DEF Worker, EngineExits, LoadAppData, StopEnds, Prepare, JniRun
  <2>2. \A task \in quiet : Consistent(Becomes(o, task))
    BY <2>1, BecomesIs DEF Task
  <2>3. \/ \E task \in quiet : app' = Becomes(o, task)
        \/ app' = StopServiceNow(a, o, TRUE)
        \/ app.saved /\ app' = Asked(c)
    BY <1>1, <1>11 DEF Worker, EngineExits, LoadAppData, StopEnds, Prepare, JniRun
  <2>4. "asking" \in Task \ {"none"} /\ "over" \in Task \ {"none"}
    BY DEF Task
  <2>5. /\ a \in App /\ Alive(a) = Alive(app) /\ \A p \in Objects : Sane(a.object[p])
        /\ a.object[o].stage # "unborn"
    BY <2>1, <2>4, BecomesIs
  <2>6. Consistent(c) /\ c.saved = app.saved
    BY <2>1, <2>4, BecomesIs
  <2> HIDE DEF a, c, quiet
  <2>7. ASSUME app' = StopServiceNow(a, o, TRUE)
        PROVE  Consistent(app')
    <3>1. a.object[o].task # "none" => a.object[o].vpn # "null"
      BY <2>5 DEF Sane
    <3>2. \A p, q \in Alive(a) : p = q
      BY <1>1, <2>5 DEF Consistent
    <3> QED BY <2>5, <2>7, <3>1, <3>2, StopWithRetryIs
  <2> QED BY <2>2, <2>3, <2>6, <2>7, AskedIs
<1>12. CASE ProcessDies
  <2> DEFINE held == app.sent \intersect Held
  <2>1. app' = [Fresh EXCEPT !.saved = app.saved, !.sent = held, !.stopped = app.stopped]
    BY <1>12 DEF ProcessDies
  <2>2. held \in SUBSET Message /\ app.stopped \in BOOLEAN
        /\ (held \intersect Retrying # {} => app.saved)
    BY <1>1 DEF App
  <2> HIDE DEF held
  <2>3. app' \in App /\ app'.object = Fresh.object /\ app'.sent = held
        /\ app'.saved = app.saved /\ ~app'.destroying
    BY <1>1, <2>1, <2>2, FreshIs DEF App
  <2> QED BY <2>2, <2>3, FreshIs
<1>13. CASE UNCHANGED vars
  BY <1>1, <1>13 DEF vars
<1> QED BY <1>3, <1>4, <1>5, <1>6, <1>7, <1>8, <1>9, <1>10, <1>11, <1>12, <1>13, <1>14
        DEF Next, MainThread

LEMMA Invariance == Spec => []IInv
BY InitIInv, StepIInv, PTL DEF Spec

-----------------------------------------------------------------------------
\* The process keeps its type; at most one object is alive, and no task is
\* without an interface.
THEOREM TypeCorrect == Spec => []TypeOK
BY Invariance, Implications, PTL

\* The VPN is held open by the object that is alive and registered, or by none.
THEOREM NoInterfaceIsForgotten == Spec => []NoOrphanInterface
BY Invariance, Implications, PTL

\* A retry finds the data that were saved for it, in whatever process it begins
\* and wherever the one before it was cut short: whoever is to send
\* RETRY_START_VPN, or has sent it, has seen the data on the disk.
THEOREM RetryIsPrepared == Spec => []RetryFindsData
BY Invariance, Implications, PTL
=============================================================================
