-------------------------- MODULE ServiceLifecycle --------------------------
(***************************************************************************)
(* The life of the firewall service (vpn/FirewallService.java): objects of *)
(* the service that Android creates and destroys one after the other, the  *)
(* static flags they share, their worker threads up to the call of jni_run,*)
(* and the messages from the screens, from Android and among themselves.   *)
(*                                                                         *)
(* onStartCommand, onDestroy and onReceive run on the main thread, one     *)
(* after the other; the tasks of the executors run beside it.  A task      *)
(* submits the next one, so that an object has one at a time; the          *)
(* notificator, the refreshing of the traffic data and the floating view   *)
(* are left out.                                                           *)
(***************************************************************************)
EXTENDS Naturals, FiniteSets

CONSTANT MaxObjects  \* bound: objects of the service in one process

ASSUME ObjectsAssumption == MaxObjects \in Nat \ {0}

VARIABLE app  \* the process, and the messages sent to it

vars == <<app>>

-----------------------------------------------------------------------------
Objects == 1 .. MaxObjects

Stage == {"unborn", "alive", "destroyed"}

\* loadAppData; then VPNRunnable; then the task that calls jni_run; then the
\* event loop in it, until it exits.  A task that fails before is over; one that
\* stops the service is half-way through that while asking.
Task == {"none", "loading", "asking", "preparing", "starting", "engine", "exited", "over"}

\* A FirewallService: vpnInterface, whether EventReceiver is registered and
\* executorService is shut down, and its task with the flag retry.
Object ==
  [stage : Stage, vpn : {"null", "open", "closed"}, registered : BOOLEAN,
   shut : BOOLEAN, task : Task, retry : BOOLEAN]

Unborn ==
  [stage |-> "unborn", vpn |-> "null", registered |-> FALSE,
   shut |-> FALSE, task |-> "none", retry |-> FALSE]

\* Intents that start the service (with RETRY_START_VPN or without), local
\* broadcasts, the stop of the service, and the broadcast to
\* FirewallServiceReceiver.
Message == {"start", "retry", "START_VPN", "STOP_VPN", "destroy", "RETRY_START_VPN"}

\* isRunning and isWaiting, the notification that the service is running,
\* whether the traffic data are in the preferences, and whether the main thread
\* is half-way through onDestroy.  stopped is history: the user has stopped the
\* service, and has asked for nothing since.
App ==
  [object : [Objects -> Object], isRunning : BOOLEAN, isWaiting : BOOLEAN,
   notice : BOOLEAN, saved : BOOLEAN, destroying : BOOLEAN, sent : SUBSET Message,
   stopped : BOOLEAN]

Fresh ==
  [object |-> [o \in Objects |-> Unborn], isRunning |-> FALSE, isWaiting |-> FALSE,
   notice |-> FALSE, saved |-> FALSE, destroying |-> FALSE, sent |-> {},
   stopped |-> FALSE]

Send(a, m) == [a EXCEPT !.sent = @ \union {m}]

Alive(a) == {o \in Objects : a.object[o].stage = "alive"}

\* The objects whose EventReceiver a local broadcast reaches, destroyed or not.
Receivers(a) == {o \in Objects : a.object[o].registered}

-----------------------------------------------------------------------------
(* Starting and stopping, as functions of the process.                     *)

\* Leaving the descriptor of the VPN to the garbage collector (plausible slip).
CleanupKeepsVpn(a, o) == [a EXCEPT !.object[o].shut = TRUE]

Cleanup(a, o) ==
  [a EXCEPT !.object[o].shut = TRUE,
            !.object[o].vpn = IF @ = "open" THEN "closed" ELSE @]

\* Asking for a restart before the data are saved (plausible slip).
AskForRetryFirst(a, half) ==
  IF half = 1 THEN Send(a, "RETRY_START_VPN") ELSE [a EXCEPT !.saved = TRUE]

\* commit returns when the data are on the disk; only then the broadcast is
\* given to Android.
AskForRetry(a, half) ==
  IF half = 1 THEN [a EXCEPT !.saved = TRUE] ELSE Send(a, "RETRY_START_VPN")

\* Shared by all ways to stop; the native loop is not told.  With retry, this is
\* the first half, up to the save.
StopServiceNow(a, o, retry) ==
  LET stopped == [Cleanup(a, o) EXCEPT !.isRunning = FALSE]
  IN  IF retry THEN AskForRetry(stopped, 1)
      ELSE [stopped EXCEPT !.object[o].registered = FALSE, !.notice = FALSE]

\* The second half of a stop with retry.
Asked(a) == [AskForRetry(a, 2) EXCEPT !.notice = FALSE]

\* The executor refuses the task when it is shut down, and anything else up to
\* the notification may fail as well: the resources are closed again, but
\* isRunning remains.
Launched(a, o, retry) ==
  LET loading == [a EXCEPT !.isRunning = TRUE, !.object[o].task = "loading",
                           !.object[o].retry = retry]
  IN  IF a.object[o].shut THEN {Cleanup([a EXCEPT !.isRunning = TRUE], o)}
      ELSE {[loading EXCEPT !.notice = TRUE], Cleanup(loading, o)}

\* Starting although setupVPN failed (plausible slip).
StartServiceNowUnprepared(a, o, retry) ==
  IF a.isRunning THEN {a} ELSE Launched(a, o, retry)

\* setupVPN works once per object, and only if Android agrees.
StartServiceNow(a, o, retry) ==
  IF a.isRunning THEN {a}
  ELSE {[a EXCEPT !.isWaiting = TRUE]} \union
       IF a.object[o].vpn # "null" THEN {}
       ELSE Launched([a EXCEPT !.isWaiting = FALSE, !.object[o].vpn = "open"], o, retry)

-----------------------------------------------------------------------------
(* The screens.                                                            *)

\* HomeFragment and MainActivity.  A consent that Android asks for again leads
\* to startService whatever isWaiting says.
UserStarts ==
  /\ ~app.destroying /\ ~app.isRunning
  /\ \E m \in {"start"} \union (IF app.isWaiting THEN {"START_VPN"} ELSE {}) :
       app' = [Send(app, m) EXCEPT !.stopped = FALSE]

UserStops ==
  /\ app.isRunning
  /\ app' = Send(app, "STOP_VPN")

-----------------------------------------------------------------------------
(* The main thread, which takes no message while it is in onDestroy.       *)

Taken(m) == [app EXCEPT !.sent = @ \ {m}]

\* The object that is created next, if the bound allows one.
NextObject(a) ==
  {o \in Objects : \A p \in Objects : a.object[p].stage = "unborn" <=> o <= p}

\* Android creates an object if there is none.
Target(a) == IF Alive(a) # {} THEN Alive(a) ELSE NextObject(a)

\* onCreate.
Created(a, o) ==
  IF a.object[o].stage = "alive" THEN a
  ELSE [a EXCEPT !.object[o].stage = "alive", !.object[o].registered = TRUE]

\* An object that is to be destroyed goes first.
OnStartCommand ==
  \E m \in {"start", "retry"} \intersect app.sent :
    /\ "destroy" \notin app.sent /\ ~app.destroying
    /\ \E o \in Target(app) : app' \in StartServiceNow(Created(Taken(m), o), o, m = "retry")

\* The receivers are asked one after the other.  The one that starts resets
\* isWaiting, whatever those before it made of it, and those after it see that
\* the service is running; if none starts, isWaiting is set, by one or by all.
OnStart ==
  /\ "START_VPN" \in app.sent /\ ~app.destroying
  /\ \/ \E o \in Receivers(app) : app' \in StartServiceNow(Taken("START_VPN"), o, FALSE)
     \/ Receivers(app) = {} /\ app' = Taken("START_VPN")

\* All receivers stop.  Each of them changes its own state and resets the flags.
AllStopped(a) ==
  IF Receivers(a) = {} THEN a
  ELSE [a EXCEPT !.object = [o \in Objects |-> IF o \in Receivers(a)
                                               THEN StopServiceNow(a, o, FALSE).object[o] ELSE @[o]],
                 !.isRunning = FALSE, !.notice = FALSE]

\* A start that the user asked for before and that is still on its way is the
\* user's.
Heard(a) == [a EXCEPT !.stopped = a.sent \intersect {"start", "START_VPN"} = {}]

\* stopSelf follows, which does nothing for an object already destroyed.
OnStop ==
  /\ "STOP_VPN" \in app.sent /\ ~app.destroying
  /\ LET stopped == Heard(AllStopped(Taken("STOP_VPN")))
     IN  app' = IF Alive(app) \intersect Receivers(app) # {}
                THEN Send(stopped, "destroy") ELSE stopped

Destroyed(a, o) == [a EXCEPT !.object[o].stage = "destroyed", !.destroying = TRUE]

OnDestroy ==
  /\ "destroy" \in app.sent /\ ~app.destroying
  /\ \E o \in Alive(app) :
       app' = StopServiceNow(Destroyed(Taken("destroy"), o), o, TRUE)

OnDestroyEnds ==
  /\ app.destroying
  /\ app' = Asked([app EXCEPT !.destroying = FALSE])

\* FirewallServiceReceiver.
OnReceive ==
  /\ "RETRY_START_VPN" \in app.sent /\ ~app.destroying
  /\ app' = Send(Taken("RETRY_START_VPN"), "retry")

MainThread ==
  OnStartCommand \/ OnStart \/ OnStop \/ OnDestroy \/ OnDestroyEnds \/ OnReceive

-----------------------------------------------------------------------------
(* The tasks of object o.                                                  *)

Becomes(o, task) == [app EXCEPT !.object[o].task = task]

\* The rules are loaded; if the next task is refused, the service is stopped.
LoadAppData(o) ==
  /\ app.object[o].task = "loading"
  /\ app' = IF app.object[o].shut THEN StopServiceNow(Becomes(o, "asking"), o, TRUE)
            ELSE Becomes(o, "preparing")

StopEnds(o) ==
  /\ app.object[o].task = "asking"
  /\ app' = Asked(Becomes(o, "over"))

\* VPNRunnable: after a retry it reads the saved data, of which X_KEY was put as
\* a long and is got as an int, an exception that nobody catches.
Prepare(o) ==
  /\ app.object[o].task = "preparing"
  /\ app' = IF (app.object[o].retry /\ app.saved) \/ app.object[o].shut
            THEN Becomes(o, "over") ELSE Becomes(o, "starting")

\* getFd of a closed interface throws.
JniRun(o) ==
  /\ app.object[o].task = "starting"
  /\ app' = IF app.object[o].shut \/ app.object[o].vpn # "open"
            THEN Becomes(o, "over") ELSE Becomes(o, "engine")

\* An error of the tun or of epoll ends the loop; nativeExit does nothing.
EngineExits(o) ==
  /\ app.object[o].task = "engine"
  /\ app' = Becomes(o, "exited")

Worker(o) == LoadAppData(o) \/ StopEnds(o) \/ Prepare(o) \/ JniRun(o)

-----------------------------------------------------------------------------
(* Android.                                                                *)

\* Another VPN is chosen, or the consent is withdrawn: onRevoke is that of
\* VpnService, which stops the service.
Revoked ==
  /\ Alive(app) # {}
  /\ app' = Send(app, "destroy")

\* Android does not deliver such a broadcast since version 8.
RetryLost ==
  /\ "RETRY_START_VPN" \in app.sent
  /\ app' = Taken("RETRY_START_VPN")

\* The broadcast to a receiver of the manifest and the intents that start the
\* service are with Android until they are delivered; a new process is begun for
\* them if need be.
Held == {"start", "retry", "RETRY_START_VPN"}

\* Between any two steps; the preferences survive, and what Android holds.
\* START_STICKY restarts the service with no intent, on which onStartCommand
\* fails, so that nothing follows from it.
ProcessDies ==
  app' = [Fresh EXCEPT !.saved = app.saved, !.sent = app.sent \intersect Held,
                       !.stopped = app.stopped]

Init == app = Fresh

Next ==
  \/ UserStarts
  \/ UserStops
  \/ MainThread
  \/ \E o \in Objects : Worker(o) \/ EngineExits(o)
  \/ Revoked
  \/ RetryLost
  \/ ProcessDies

Spec == Init /\ [][Next]_vars

\* The main thread takes its messages in the order in which they were sent, and
\* each of the tasks runs; the user, the engine and Android need not do anything.
Fairness ==
  /\ WF_vars(OnStartCommand) /\ WF_vars(OnStart) /\ WF_vars(OnStop)
  /\ WF_vars(OnDestroy) /\ WF_vars(OnDestroyEnds) /\ WF_vars(OnReceive)
  /\ \A o \in Objects : WF_vars(Worker(o))

FairSpec == Spec /\ Fairness

-----------------------------------------------------------------------------
(* Properties.                                                             *)

\* The process keeps its type; Android's object is the only one alive, and no
\* task is without an interface to work on.
TypeOK ==
  /\ app \in App
  /\ Cardinality(Alive(app)) <= 1
  /\ \A o \in Objects : app.object[o].task # "none" => app.object[o].vpn # "null"

\* The VPN is held open by the object that is alive and can still be told to
\* stop, or not at all, although the receiver of a destroyed object can still be
\* asked to start, and although a start can fail half-way.
NoOrphanInterface ==
  \A o \in Objects : app.object[o].vpn = "open" =>
    app.object[o].stage = "alive" /\ app.object[o].registered

\* Whoever is started by a retry finds saved data, although the process may die
\* half-way through the stop that asks for it, or while the broadcast is with
\* Android, and although a task of a destroyed object may ask as well.
RetryFindsData ==
  \A o \in Objects : app.object[o].retry => app.saved

\* The user who presses "STOP" (strings.xml:9) is told that "the FireWall service
\* is stopped..." (strings.xml:25), so no VPN is open after that until the user
\* asks for one.
StopLasts ==
  app.stopped => \A o \in Objects : app.object[o].vpn # "open"

\* When "the FireWall service is running..." is shown (strings.xml:24), either
\* its engine begins to run or the notification goes.
NoticeIsTrue ==
  app.notice ~>
    ~app.notice \/ \E o \in Alive(app) : app.object[o].task \in {"engine", "exited"}
=============================================================================
