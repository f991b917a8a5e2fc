# A TLA+ model of jlab.Firewall

jlab.Firewall is an Android app that lets the user decide which apps reach the
Internet.  It opens a VPN whose far end is the app itself: every IP packet of
the device arrives on a *tun* descriptor, is attributed to the app that sent it,
and is either dropped or spliced to a kernel socket of the firewall's own.  The
splicing is done by a native engine derived from NetGuard (`jni/netguard`), the
policy and the user interface by Java (`java/jlab/firewall`).  All paths below
are relative to `src/app/src/main/`.

## Inventory

| component | state | operations | interacts with |
|---|---|---|---|
| TCP sessions, `jni/netguard/tcp.c` | per session: state, SOCKS5 state, descriptor, epoll mask, sequence numbers, windows, queue of segments, byte counters, time | `handle_tcp`, `queue_tcp`, `check_tcp_socket`, `check_tcp_session`, `monitor_tcp_session`, `write_*` | tun, kernel sockets, event loop, accounting |
| sequence arithmetic, `util.c` `compare_u32`, `tcp.c` `get_send_window` | none | comparison and window on `uint32_t` | TCP sessions |
| event loop, `session.c` | list of sessions, epoll set, batch of ready events, `stopping` | count and monitor, check and free, `epoll_wait`, dispatch; `check_allowed`, `clear` | all sessions, stop pipe, Java (through JNI) |
| UDP sessions, `udp.c` | state (ACTIVE, FINISHING, CLOSED, BLOCKED), descriptor, time, counters | `handle_udp`, `check_udp_socket`, `check_udp_session`, `block_udp` (never reached) | tun, DNS parser, accounting |
| ICMP sessions, `icmp.c` | `stop`, descriptor, time, id | `handle_icmp`, `check_icmp_socket`, `check_icmp_session` | tun |
| dispatch and policy, `ip.c` | cache of connection owners (30 s) | `check_tun`, `handle_ip`, `get_uid_q` | all protocols, Java policy |
| JNI entry points, `netguard.c` | context, pipe, SOCKS5 settings | init, start, run, stop, clear, done, get_stats | service, event loop |
| service, `vpn/FirewallService.java` | `isRunning`, `isWaiting`, `vpnInterface`, pending notification | start, stop, retry, `setupVPN`, `isAddressAllowed`, `notifyUid`, notificator and traffic threads | JNI, rules, Android |
| rules, `vpn/Utils.java`, `db/*` | three sorted lists of uids in memory, rows of an SQLite table | `loadAppData`, lookups, edits | service, UI, receiver |
| package receiver, `vpn/PackChangeReceiver.java` | none | app installed, app removed | rules |
| rule lists of the UI, `view/AppListFragment.java`, `view/NotifiedAppListFragment.java` | selection | allow, block, dismiss | rules |
| DNS, DHCP, pcap, checksums, screens | - | parsing, formatting, drawing | - |

What is hard here, and what makes each component correct:

* **TCP sessions.**  One thread runs everything, but the steps it interleaves
  are those of two peers, the kernel and the clock.  A batch of epoll events is
  captured first and handled later, after packets of the same batch; every write
  to the tun can fail in the middle of a handler; packets are lost, repeated and
  reordered only by the app's own stack, but segments may be sent again with
  other lengths.  Correct means: the descriptor is given back exactly once, what
  is acknowledged was forwarded, FIN and SYN count once, nothing follows an
  abort, the app's window is respected, usage is reported before a session is
  freed, a dead session neither revives nor stays for ever.
* **Event loop.**  Correct means: every session is checked in time and every idle one
  ends.  Hard: time-outs that shrink with the number of sessions, to zero and below,
  while the time to sleep was chosen earlier; checks skipped under load.
* **UDP, ICMP.**  Like TCP, with fewer states.  Hard: several datagrams of one
  event after the session was finished; a second ICMP session for the same
  addresses beside one that is stopped and still in the batch.
* **Policy.**  Correct means: a packet goes out only by the right of the app that owns
  the socket.  Hard: a cache of owners that are out of date, tables that cannot be
  read to the end, rules changed while sessions live.
* **Service.**  Correct means: the VPN is open while a service that can be stopped
  holds it, and what the notification says is true.  Hard: static flags shared by
  objects that Android creates and destroys, receivers that outlive their object,
  tasks that outlive a stop, the death of the process.
* **Rules.**  Correct means: the lists agree with the table.  Hard: four threads
  write both without a common lock, and rows are written back whole.

`PROJECT.json` lists these as components, and the places where they bite as
hazards, each with the properties that would catch it or the reason why none does.

## Modules

| module | models |
|---|---|
| `SeqArith` | `compare_u32` and `get_send_window` over words of any width |
| `MCSeqArith` | every triple of words, and the properties of the two operators |
| `SessionLife` | what a session of any protocol promises (abstract specification) |
| `TcpSession` | one TCP session and the loop of `handle_events` that drives it |
| `MCTcpSession` | packets and bounds for TLC |
| `UdpSession` | one UDP session in the same loop |
| `IcmpSession` | the ICMP sessions of one pair of addresses in the same loop |
| `UidCache` | `get_uid`: the tables of the kernel and the cache of their lines |
| `HandleIp` | `check_tun`, `handle_ip` and the policy; extends `UidCache` |
| `MCHandleIp` | protocols, versions and sources of owners for TLC |
| `EventLoop` | the table of all sessions, their time-outs and the sleep of the loop |
| `MCEventLoop` | time-outs for TLC |
| `ServiceLifecycle` | the objects, flags, tasks and messages of the firewall service |
| `SeqArithProofs`, `TcpSessionProofs`, `UdpSessionProofs`, `IcmpSessionProofs`, `HandleIpProofs`, `EventLoopProofs`, `ServiceLifecycleProofs` | theorems about each |
| `NumberFacts` | lemmas about numbers for all of them |

How they fit together.  `TcpSession`, `UdpSession` and `IcmpSession` leave open when a
time-out is noticed (any time after it may); `EventLoop` has the clock and shows that
it is noticed in time, for the sessions of all protocols together.  The three implement
`SessionLife`.  They take a packet that was let through; `HandleIp` decides which
packets those are, and knows of a session only whether there is one.  `JniRun` and
`EngineExits` of `ServiceLifecycle` begin and end the loop that the others model.

### SeqArith

`Half` stands for `0x7FFFFFFF` and `Modulus = 2 (Half + 1)` for 2^32, so the
code's comparison is kept literally while TLC uses 4 bit words.  `WrapWindow` and
`Header` stand for the literals `0x10000` and 40 of `get_send_window`.

### TcpSession

State:

* `s` is the session: `struct ng_session` and its `tcp_session`.  State `"none"`
  means that the list has no entry for the 4-tuple.  `open` is `socket >= 0`,
  `polled` membership of the epoll set, `mask` the events asked for besides
  `EPOLLERR`, `fresh` that the time-out has not expired, `unreported` that `sent`
  or `received` is not zero, `window_open` that `recv_window` is not zero.  The
  last fields are history used by the properties: `synIn`, `finIn`, `given`,
  `twice`, `received`, `reached`, `finOut`, `lateOut`, `lost`.  `open` cannot show that
  a descriptor is closed a second time.
* `phase` is the place in the loop: monitor, check, wait, dispatch.
* `ready` is the event `epoll_wait` captured for the socket and that has not been
  handled; `tun` is the number of packets that the batch may still read.

Actions and code:

| action | code |
|---|---|
| `MonitorTcpSession` | `monitor_tcp_session`: mask, keep-alive, `EPOLL_CTL_MOD` |
| `CheckTcpSession`, `SkipCheck` | `check_tcp_session` and the freeing in `handle_events`; the skip within `EPOLL_MIN_CHECK` |
| `EpollWait`, `TunDrained`, `EndBatch` | `epoll_wait` and the dispatch loop |
| `TunSyn` ... `TunFutureAck` (`HandleTcp`) | `handle_tcp`, one disjunct per way through it, `queue_tcp` included |
| `SocketError`, `SocketConnect`, `SocketStream` (`CheckTcpSocket`) | `check_tcp_socket`: error; connect and SOCKS5; forward, acknowledge, read |
| `TimePasses` | `time(NULL)` |

A handler of the code is one action, because the single thread runs it to its
end.  The operators named after the parts of a handler (`QueueTcp`, `TakeFin`,
`Forwarded`, `Acknowledged`, `Read`, ...) map a session to the session, or the set
of sessions, which that part can leave; results of system calls are the
nondeterminism.

Abstractions, and why they lose nothing the properties tell apart:

* A payload is a number of bytes; `given` records which sequence numbers went to
  the server.  Options, checksums, addresses and urgent data are left out.
* `EPOLL_CTL_MOD` fails exactly when the socket is not in the epoll set, because
  the earlier `EPOLL_CTL_ADD`, whose failure the code only logs, failed.
* `EPOLLERR` hides the other bits from `check_tcp_socket`; `EPOLLHUP`, never looked
  at, may come alone.
* `recv_window` is only compared with zero, so only that is kept.
* Free space of the socket's buffer is any member of `Rooms`, read anew wherever
  the code reads it.
* A clock is replaced by `fresh`: the time-out may expire at any moment after it
  was last restarted.  The scale of the time-out therefore does not matter here.
* An interrupted `epoll_wait` is an empty batch.
* `handle_tcp`'s `!allowed` branch is not reached: `handle_ip` calls it only for
  packets that are allowed.
* A SOCKS5 proxy is configured through `jni_socks5`; whether it is, is the
  constant `UseSocks5`.  Nothing in this app calls that function: the dialogue that `tcp_socks5`
  goes through is code that the engine has and the app never reaches; the other runs are about
  direct connections.  `FinishedIsFreed` is checked only in `tcp_socks5`, whose sessions are
  fewer than those of `tcp_direct` and take every step of theirs after the dialogue.

Operators marked as a plausible slip, in every module just before the operator they
differ from, are not used by the specifications.  They are what the mutation of each
run puts in its place, to show that the property can fail.

### SessionLife, the abstract specification

A session owns one descriptor and owes the report of its traffic.  `Begin`, `Serve`,
`Finish`, `Retire`, `Report`, `Free`: it goes from absent over live and ending to
ended and back to absent, never backwards; and the descriptor is opened once, at the
beginning.  A protocol whose sessions linger (`Lingers`: TCP and UDP) frees one only after
it has ended, with the descriptor closed and the traffic reported; one whose sessions do
not (ICMP) closes the descriptor in the step that frees.  A session that has been freed
has no descriptor and no counters left to look at, so each protocol remembers in the
history field `lost` whether it still had them when it was freed.  Such a session is mapped to
the life "lost", which no step of `SessionLife` leads to.  Each protocol maps its states to
it at the end of its module:

| protocol | live | ending | ended |
|---|---|---|---|
| TCP | `LISTEN` to `LAST_ACK` | `CLOSING` | `CLOSE` |
| UDP | `ACTIVE` | `FINISHING` | `CLOSED` |
| ICMP | not `stop` | `stop` | never: freed at once |

### UdpSession

`s` is the session, `phase`, `ready` and `tun` are as for TCP, `count` is the number
of datagrams read for the current event (`UDP_YIELD`).  `usage` is `sent` and
`received` together, counted in datagrams.  `moved` and `reported` are history.

| action | code |
|---|---|
| `CheckUdpSession`, `SkipCheck` | `check_udp_session`, freeing |
| `TunIgnored`, `TunUnopened`, `TunNew`, `TunForward` (`HandleUdp`) | `handle_udp` for a finished, an impossible, a new and an active session; `check_dhcp` answers instead of sending |
| `CheckUdpSocket`, `EndEvent` | one round and the end of the loop over datagrams in `handle_events` |

The loop calls `check_udp_socket` only while the event has no `EPOLLERR`, so that the
error branch of that function is not reached, and the model has no such step.

### IcmpSession

`table` maps places in memory to sessions of one pair of addresses.  `handle_icmp`
does not find a session whose `stop` is set, so that several overlap; a place
is free again when the check has freed its session.  The batch captured by
`epoll_wait` refers to places.  `reply` is the last answer written to the tun: whose
request it answers, the identifier it was given, and whether no other identifier went
through its session.

### UidCache and HandleIp

Of a line of `/proc/net` it matters only whether it matches the addresses and ports of
the packet, and its uid; the cache and the scan apply the same test.  A table is a
sequence of such lines, which the kernel changes at any place.  A scan replaces
entries that are out of date, in order, and appends the rest (`Cached`); it ends early
when a line is invalid (`ReadError`).  `GetUid` asks the table of IPv6 first.  Ages are
counted in ticks up to `UID_MAX_AGE + 1`.  History: `owned` (how long ago a user last
owned a matching socket) and `settled` (for how long the tables have not changed).

`HandleIp` has one action per way through `handle_ip`: `TunInvalid`, `TunUnknown`
(protocols that are not supported and, because of the loop over extension headers,
every IPv6 packet that has one), `TunSyn`, `TunSegment`, `TunDatagram`, `TunPing`.  The owner
comes from `UidCache` or, above Android 9, from the connectivity service, which tells
the owner that there is.  That service is assumed not to throw: after an exception
`get_uid_q` (`netguard.c:715-718`) goes on with what the call returned, normally 0, which is root, so that
a packet would be let through that nobody may send.  `Admits` is `isAddressAllowed`.  `EditRule`, `EndSession` and
`Kernel` go on beside it.  `last` and the two kinds of session are history: whether
what went out did so by the right of an app.

### EventLoop

`table` maps places to sessions of any protocol, with the time-out that applies
(`limit`, before it is scaled) and `now - time` (`age`).  `Count` is the loop that counts
sessions and calls `monitor_tcp_session`; `Check` calls the three check functions with
the scaled time-outs (`Scaled`, with the division of C) and chooses `timeout`;
`SkipCheck` is the skip; `EpollTimeout` and `EpollReady` end the sleep; `Dispatch` begins,
refreshes or dooms a session.  `Second` and `Moment` are the two clocks: `time(NULL)`,
and `get_ms` against `EPOLL_MIN_CHECK`.

### ServiceLifecycle

`app` is the process: the objects of the service that Android has created, the static
`isRunning` and `isWaiting`, the notification, what is saved in the preferences, and the
messages on their way.  An object has `vpnInterface`, its receiver, its executor and one
task at a time: `LoadAppData`, then `Prepare` (`VPNRunnable`), then `JniRun`.
`startServiceNow`, `stopServiceNow` and `cleanup` are operators, because several
handlers share them: `OnStartCommand`, `OnStart` and `OnStop` (the receiver), `OnDestroy`.
`Revoked`, `RetryLost` and `ProcessDies` are Android's.

`stopServiceNow(true)` has two halves: the first ends when `commit` returns, with the
data on the disk, the second sends the broadcast.  `OnDestroy` and `OnDestroyEnds` are
the halves on the main thread (`destroying` in between), `LoadAppData` and `StopEnds` those of
a task that fails (`"asking"`).  `ProcessDies` may come between them, as between any two
steps.  It keeps what is on the disk and what Android holds (`Held`: the broadcast to
`FirewallServiceReceiver` and the intents that start the service), for which Android
begins a new process; local broadcasts and the stop of an object die with the process.
`stopped` is history: a stop of the user has been carried out, and the user has asked for no
start since.

Abstractions: of the traffic data only whether they are saved; the screens start the
service when it is not running and stop it when it is; the broadcast to
`FirewallServiceReceiver` may be lost, because Android restricts implicit broadcasts.
`startServiceNow`, a stop without retry and each half of one with retry are single steps
beside the tasks of the executors, although a task could run in the middle of them.

## Runs

| run | configuration | question | states |
|---|---|---|---|
| `seq_arith` | 4 bit words, all triples | do comparison and window hold at every wrap? | 4,096 |
| `tcp_direct` | no proxy, segments of 1 and 2 bytes at 2 places, windows 0 and 3, batches of 2 packets | all safety properties of a session, and `SessionLife` | 216,970 |
| `tcp_socks5` | a proxy, 1 byte segments, batches of 1 packet, fairness | is the app told only after the proxy is connected, and is a finished session freed? | 10,561 |
| `tcp_syn_data` | SYN with one byte | is queued data unforwarded? (no, see findings) | - |
| `udp_session` | batches of 2 packets, 3 datagrams per event, 6 datagrams in all, fairness | safety, `SessionLife`, and is a finished session freed? | 8,715 |
| `icmp_session` | 2 places, 2 identifiers, batches of 2 packets, fairness | the same for overlapping sessions | 688,163 |
| `policy` | 6 links, 2 uids, one of them root, 2 sockets, 2 entries of the cache | who can get a packet out? | 387,042 |
| `policy_udp` | as above, 1 socket | does UDP follow the rules? (no, see findings) | - |
| `event_loop` | 3 sessions, `maxsessions` = 2, time-outs 1 and 3, fairness | does the loop wake in time, and does every idle session end? | 167,018 |
| `service` | 3 objects | is the VPN ever open without a service that can be stopped, or a retry without its data? | 2,003,216 |
| `service_stop` | 2 objects | does a stop by the user last? (no, see findings) | - |
| `service_retry` | 2 objects, fairness | is the notification true? (no, see findings) | - |

Bounds of the TCP runs.  Sequence numbers have 4 bits and both initial numbers are two below the
wrap, so every run crosses it with the first bytes of both streams.  The streams
carry at most 3 bytes from the app (`DataSpan` and `Lengths`) and `MaxReceived` from the
server: enough for a partly sent head, a second segment behind it, an overlap, a
retransmission with another length, and a FIN behind all of them.  `AckSpan`
covers the acknowledgement of nothing, of the SYN, of data and of the FIN, and one
number too many.  `Rooms = {0, 3}` gives a full buffer, and one that takes a
segment but not two.  Batches of two packets allow a reset, a FIN or a window of zero
behind another packet and in front of the captured event.  Only one session is
modelled: sessions share no state but the batch, the accounting and the number of
sessions, which scales the time-outs.

Bounds of the other runs.  *UDP*: three datagrams per event allow one that finishes the
session and one behind it; six datagrams in all are enough for two sessions one
after the other with traffic in both directions.  *ICMP*: two places allow a stopped
and a new session in one batch, and a place used again; two identifiers are two apps.
*Policy*: with two sockets the first and the last match differ, and so do an
entry used again and one appended; `UID_MAX_AGE = 0` makes an entry stale with the first
tick; with root among the users, one is admitted without a rule and one by a rule.
*Event loop*: three sessions and `maxsessions` = 2 make the scale 100, 50, 0 and
-50 %; of time-outs 1 and 3 either can come first, and a change of scale moves them past
each other.  Ages stop when they exceed the limit, where nothing depends on them any
more.  *Service*: three objects are a destroyed one whose receiver and task remain, one
that a retry created, and one after that.

Fairness.  *Sessions* (`tcp_socks5`, `udp_session`, `icmp_session`): weak fairness of `Loop`
(the thread runs as long as it is not stopped, and `epoll_wait` has a time-out), weak
fairness of `TimePasses` where a property waits for a time-out (the clock advances), and
strong fairness of the check: the loop skips the checks only within 100 ms of the
last one, so that while it runs they are not skipped for ever.  *Event loop*: the same
is not assumed but modelled: weak fairness of the loop, of the end of a batch (it
is finite) and of both clocks.  *Service* (only `service_retry`): weak fairness of each handler of the
main thread, which takes its messages in order, and of the tasks of each object.  Nothing
is assumed of the apps, the servers, the results of system calls, the user or Android.

## Properties

* `SocketMatchesState`, `EventFindsSocket`: the descriptor.  The second says, for each
  protocol, that an event of the batch is handled on an open socket of a session that
  is still the one it was captured for; nothing in the code tests that.
* `AckedIsForwarded`, `GivenOnce`, `FinComesLast`, `QueueSorted`: the stream from the
  app.  The first is the central one: `remote_seq` is the app's SYN, the bytes
  the server was given, without a gap, and the FIN.
* `DataFitsWindow`, `NothingAfterEnd`: the stream to the app.
* `ServerReachedFirst`, `NothingLost`, `NeverBackwards`, `FinishedIsFreed`,
  `StoppedIsFreed`, `ImplementsLife`: the life of a session.
* `UsageReportedOnce`: across all UDP sessions, what was moved is what was reported
  and what the session still counts.
* `OneLiveSession`, `RestoresSoleId`: ICMP sessions of the same addresses do not mix,
  unless two apps share one.
* `AnswerIsRecent`, `SettledAnswerIsOwner`: how wrong the cache of owners can be.
* `NothingLeaks`: no TCP connection and no ping gets out without the right of an app.
* `NeverOverdue`, `IdleEnds`: the sleep of the loop, and the end of idle sessions.
* `NoOrphanInterface`, `RetryFindsData`: start, destruction and retry.  The second depends on
  the order of save and broadcast, because the process may die between the two and
  the broadcast is then with Android.

## Findings

* The payload of a SYN (`tcp.c:764`) is queued at the number of the SYN.  When the
  SYN is counted, the segment falls below `remote_seq`; the forwarding loop takes
  only a head at `remote_seq`, so the segment is never sent and everything behind
  it waits.

* `handle_ip` lets every UDP packet through (`ip.c:290`), because it "could be a
  lingering/blocked session", and asks for no owner's rule.  A datagram that belongs to
  no session opens one; `block_udp` is never called and the blocked session of the
  comment never exists.  UDP is not filtered at all.
* `stopServiceNow(true)` saves `X_KEY` with `putLong`, `VPNRunnable` reads it with
  `getInt` in a `finally` block (`FirewallService.java:775`).  The exception ends the task, so
  that after a retry the VPN is established and the notification shown, but the engine
  never runs: no packet of the device is handled.
* A stop by the user does not last.  `stopSelf` leads to `onDestroy`, which calls
  `stopServiceNow(true)` whatever the reason (`FirewallService.java:423`), and the retry it
  broadcasts starts the service again, after the user was told that it is stopped.
  That needs Android to deliver the broadcast to the receiver of the manifest, which it
  does before version 8 (the app supports 5 and later).

The run `tcp_syn_data` stops at the segment that is below `remote_seq`; in the other runs a SYN
carries no data (`SynLengths = {0}`), so that their properties speak of the rest.

`tcp_direct` and `tcp_socks5` set `WrapWindow` to 2, so that the windows of the packets fit half the
space of 4 bit numbers as the windows of a real app fit half of 32 bits (`WindowsFitHalf`).

Observations for which no run is kept, and that the models have as
they are: `compare_u32` (`util.c:50`) has the threshold `0x7FFFFFFF` where RFC 1982, which its comment
cites, has 2^31, so that numbers exactly 2^31 - 1 apart, which `CompareFollowsDistance` leaves
out and which the engine does not meet, are "greater" in both directions; the error branch of `check_udp_socket` is dead, so that an error of a UDP
socket wakes the loop until the session times out; two apps that ping the same host share
a session, and the replies to both get the identifier of the first; no IPv6 packet with
an extension header gets through; a stop of the service does not end the native loop,
which nothing in the Java code can; a start that fails after `isRunning` was set leaves
it set.

## Proofs

Each proof module extends the module it is about and proves its theorems for all constants
that satisfy the assumptions named there: words of any width, any packets, windows, initial
numbers, buffer sizes, batch sizes, places, identifiers, users, ages, time-outs and objects.
Where a theorem needs more than those, its statement says so.

| module | theorem | property |
|---|---|---|
| `SeqArithProofs` | `ComparisonFollowsDistance` | `CompareFollowsDistance` |
| | `ComparisonIsTransitive` | `CompareIsTransitiveInWindow` |
| | `WindowIsNeverOvershot` | `NeverOvershoots` |
| `TcpSessionProofs` | `TypeCorrect` | `TypeOK` |
| | `SocketFollowsState` | `SocketMatchesState` |
| | `EventIsFresh` | `EventFindsSocket` |
| | `NeverGoesBack` | `NeverBackwards` |
| | `NothingIsLost` | `NothingLost` |
| | `ServerIsReachedFirst` | `ServerReachedFirst` |
| | `NothingIsLate` | `NothingAfterEnd` |
| | `FinIsLast` | `FinComesLast` |
| | `DataFits`, if `WindowsFitHalf` | `DataFitsWindow` |
| | `QueueIsSorted`, if `StreamFitsHalf` | `QueueSorted` |
| | `AckedWasForwarded`, if `StreamFitsHalf` | `AckedIsForwarded` |
| | `NoByteTwice`, if `StreamFitsHalf` | `GivenOnce` |
| | `Refinement` | `ImplementsLife` |
| `UdpSessionProofs` | `TypeCorrect` | `TypeOK` |
| | `EventIsFresh` | `EventFindsSocket` |
| | `UsageIsComplete` | `UsageReportedOnce` |
| | `Refinement` | `ImplementsLife` |
| `IcmpSessionProofs` | `TypeCorrect` | `TypeOK` |
| | `EventIsFresh` | `EventFindsSocket` |
| | `LiveIsOne` | `OneLiveSession` |
| | `IdIsRestored` | `RestoresSoleId` |
| | `Refinement` | `ImplementsLife` |
| `HandleIpProofs` | `TypeCorrect` | `TypeOK` |
| | `AnswerFollowsSockets` | `AnswerIsRecent` |
| | `CacheIsForgotten` | `SettledAnswerIsOwner` |
| | `RulesAreFollowed` | `NothingLeaks` |
| `EventLoopProofs` | `TypeCorrect` | `TypeOK` |
| | `WakesInTime` | `NeverOverdue` |
| `ServiceLifecycleProofs` | `TypeCorrect` | `TypeOK` |
| | `NoInterfaceIsForgotten` | `NoOrphanInterface` |
| | `RetryIsPrepared` | `RetryFindsData` |

`NumberFacts` has the arithmetic that they share: `%` and `\div` over words, and the least and
greatest elements of sets of numbers, which take the place of induction.

*TCP.*  The invariant is built in layers.  `IInv == TypeOK /\ SocketMatchesState /\
EventFindsSocket`: the three need each other, because an event finds an open socket only as
packets never touch the descriptor (`Keeps`) and events exist only in the dispatch
phase, where neither the monitor nor the check runs; a socket event may leave the session
half-closed without a descriptor only because the event has then been handled; and
without the types no arithmetic result is known to be a word.  Each operator has one
lemma, the lemmas of the actions combine them to `StepAgrees`, and `StepIInv` and
`NeverGoesBack` follow.  `HInv` adds what the session went through: `Accounted` (in which states
a FIN was sent, a server reached, a SYN counted; nothing written late, nothing lost) and
`FinCounted` (a counted FIN has an empty queue before it, and FIN_WAIT1 and LAST_ACK have no
queue).  The four theorems about histories and the refinement of `SessionLife`, step by step
in `LifeStep`, follow from it.  `Windowed` is what `DataFits` needs besides: the window and the constants that
`get_send_window` adds fit half the sequence space, no segment is unconfirmed beyond
the window, and `local_seq` is at most half the space past `acked`.  `WindowsFitHalf` is the
hypothesis that the app announces such windows (a TCP after RFC 7323 announces at most
2^30); without it `get_send_window` takes data in flight for an acknowledgement that wraps.

`Placed` is what the stream from the app needs.  The place of a number is its distance ahead of
the number the app starts from, and below half the space `compare_u32` is the order of
the places (`PlaceOrder`).  The queue is in order by place and no segment reaches half the
space (`QueuePlaced`); the bytes given to the server are exactly those from the place
after the SYN to that of `remote_seq`, its FIN taken away, and the sent part of the head of the
queue (`Run`).  That what is sent next has not been given, and that the run stays whole, is
the lemma `SentBytes`: the loop takes a segment only at `remote_seq` or where the one before it
ends, and the comparison of the unsigned `len - sent` with the free space refuses a head that
was sent further than it now reaches, as after a retransmission that is shorter
(`SendableIs`); for that the free space, an `int`, is at most half the space
(`RoomsAssumption`).  `FinCounted` keeps the FIN after the last byte.  `StreamFitsHalf` is the
hypothesis that the stream, its SYN and FIN included, takes fewer than half of the numbers; the
packets may still come in any order, overlap, repeat and be cut anew.  A longer
stream uses numbers again: beyond half the space the order of `compare_u32` is
none, and a given byte could no longer be told from a new one by its number, which is how the
three properties know it, so that they say nothing of it, neither here nor in the runs.

*UDP, ICMP.*  `Consistent` ties the descriptor to the state.  For UDP the counter is zero once
the descriptor is closed, which makes `UsageReportedOnce` inductive; for ICMP the identifier
of a session is one of its users', and what the kernel was asked came from them, which makes
`RestoresSoleId` inductive.  In both refinements the step that frees is the one to show: it
maps to `Free` only because what is freed has no descriptor and owes nothing.

*Policy.*  `CacheSound` says of every entry that matches: its user owned a socket no longer ago
than the age of the entry, and an entry that is younger than the tables are settled names
an owner of now (`SoundEntry`).  A scan reads lines in order and replaces the first entry that is out of
date; the proof takes the entries by position, without following the scan.

*Event loop.*  `NeverOverdue` is inductive once the number of sessions counted before the check is
known not to be less than the number of those alive (`Counted`): the scaled time-out
only grows when sessions are freed.  It needs `Scaled` to be monotonous, `\div` included.

*Service.*  `Consistent` says of each object that it is `Sane` (an open VPN means an
executor that is not shut down, and such an object is alive and registered), that at most one
is alive, and that data are saved whenever a retry is `Promised`: on its way in a message, in the
task of an object, or about to be asked for in the second half of a stop.

What stays with TLC: liveness (`FinishedIsFreed`, `StoppedIsFreed`, `IdleEnds`),
which is outside the reach of the prover, as is `ENABLED`.

## Plan

Every safety property that a passing run checks is now a theorem.  What is left to prove is what the theorems
leave open: the stream from the app for streams of any length, for which the model would have to
name a byte by its place in the stream and bound instead how far the app runs ahead of
`remote_seq`; and under which conditions on the app's segments `QueuedIsNotForwarded`, which the
code violates, does hold.

## Not modelled

* The rules in memory and in the database, the package receiver, the rule lists of the
  user interface and the notification of new requests.  They share three unsynchronised
  `ArrayList`s and whole rows of a table between threads of the app; no comment, document
  or test says what should hold between them, and what their races do to the lists is
  undefined by Java's library.  `HandleIp` changes the rule of an app in one step.  Their
  hazards are listed without a property.
* A client that retransmits with other segment boundaries, beside `TcpSession`: packets are
  taken from a set instead, which contains what such a client could send, but also more, so
  that nothing can be said of delivery in the end.
* In the native engine: `check_allowed`, which runs only when the loop starts, on a context
  that has just been created and has no session; `clear`, `jni_stop`, `jni_done`,
  `jni_get_stats`, `jni_pcap` and `jni_socks5`, which have no caller
  (`UseSocks5` stands for what `jni_socks5` would have set); `block_udp`, which is never
  reached; the shortcut of
  `has_udp_session` for `fwd53` = false, which is always true.
* DNS and DHCP parsing, packet capture, checksums, logging, JNI reflection and allocation
  tracking are data conversion or glue without state of their own.  That a descriptor leaks
  when `protect_socket` fails, and the growth of the cache of owners, are outside the
  state that the models have.
* Screens, widgets, layouts and resources are presentation.  The byte pool and the
  `NetConnections` cache have no caller that affects the engine.
