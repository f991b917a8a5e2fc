------------------------------ MODULE UidCache ------------------------------
(***************************************************************************)
(* Who owns a connection: get_uid and its cache (jni/netguard/ip.c), used  *)
(* up to Android 9.  The owner is found in the tables /proc/net/tcp6 and   *)
(* /proc/net/tcp (or udp, icmp), which the kernel changes as apps open and *)
(* close sockets.  Whenever a table is read, all its lines are cached for  *)
(* UID_MAX_AGE, so that answers may be out of date.                        *)
(*                                                                         *)
(* The protocol, addresses and ports asked about are fixed.  Of a line it  *)
(* matters only whether it matches them: the same local port, and each of  *)
(* the other numbers the same or a wildcard.  The scan and the cache apply *)
(* the same test.                                                          *)
(*                                                                         *)
(* HandleIp extends this module: it asks for the owner of a packet.        *)
(***************************************************************************)
EXTENDS Integers, Sequences, SequencesExt

CONSTANTS
  Uids,         \* the users that own sockets
  UID_MAX_AGE,  \* how long a cached line may be used, in ticks (netguard.h:70)
  MaxSockets,   \* bound: lines of the two tables together
  MaxCache      \* bound: entries of the cache

ASSUME UidsAssumption == Uids \subseteq Nat /\ Uids # {}
ASSUME AgeAssumption == UID_MAX_AGE \in Nat
ASSUME BoundsAssumption == MaxSockets \in Nat /\ MaxCache \in Nat

VARIABLES
  tables,   \* per IP version, the lines of the table of the kernel
  cache,    \* uid_cache
  answer,   \* what get_uid returned, if the last step called it
  owned,    \* history: how long ago a user last owned a matching socket
  settled   \* history: for how long the tables have not changed

vars == <<tables, cache, answer, owned, settled>>

-----------------------------------------------------------------------------
Version == {4, 6}

NotFound  == -1
ReadError == -2
NoAnswer  == -3

\* Ages are counted up to the first at which a line is out of date.
Expired == UID_MAX_AGE + 1
Age == 0 .. Expired
Older(age) == IF age = Expired THEN Expired ELSE age + 1

Line == [matches : BOOLEAN, uid : Uids]

\* struct uid_cache_entry; age is now - time.
Entry == [version : Version, matches : BOOLEAN, uid : Uids, age : Age]

-----------------------------------------------------------------------------
(* The cache.                                                              *)

\* Using entries however old they are (plausible slip).
FreshAlways(e) == TRUE

Fresh(e) == e.age <= UID_MAX_AGE

Hits(c, v) ==
  {i \in DOMAIN c : Fresh(c[i]) /\ c[i].version = v /\ c[i].matches}

\* The first hit.
FirstOf(indices) == CHOOSE i \in indices : \A j \in indices : i <= j

\* What is cached of the lines.
Entries(v, lines) ==
  [n \in DOMAIN lines |->
     [version |-> v, matches |-> lines[n].matches, uid |-> lines[n].uid, age |-> 0]]

\* The lines read replace the entries that are out of date, in order; what is
\* left over is appended.
Cached(c, v, lines) ==
  LET old    == {i \in DOMAIN c : ~Fresh(c[i])}
      nth(i) == Cardinality({j \in old : j <= i})
      reused == [i \in DOMAIN c |->
                  IF i \in old /\ nth(i) <= Len(lines) THEN Entries(v, lines)[nth(i)] ELSE c[i]]
  IN  reused \o SubSeq(Entries(v, lines), Cardinality(old) + 1, Len(lines))

Matching(lines) == {i \in DOMAIN lines : lines[i].matches}

LastOf(indices) == CHOOSE i \in indices : \A j \in indices : j <= i

\* Taking a connection without an owner for one of root (plausible slip).
OwnerRoot(lines) ==
  IF Matching(lines) = {} THEN 0 ELSE lines[LastOf(Matching(lines))].uid

\* The owner according to the last line that matches.
Owner(lines) ==
  IF Matching(lines) = {} THEN NotFound ELSE lines[LastOf(Matching(lines))].uid

\* Caching what was found although it is nothing (plausible slip).
ScanCachesMiss(c, v, n, whole) ==
  LET lines == SubSeq(tables[v], 1, n)
  IN  [uid   |-> IF whole THEN Owner(lines) ELSE ReadError,
       cache |-> Append(Cached(c, v, lines),
                        [version |-> v, matches |-> TRUE, uid |-> Owner(lines), age |-> 0])]

\* get_uid_sub reads the table of version v, all of it or, because the file
\* cannot be opened or a line is invalid, only the first n lines.
Scan(c, v, n, whole) ==
  LET lines == SubSeq(tables[v], 1, n)
  IN  [uid   |-> IF whole THEN Owner(lines) ELSE ReadError,
       cache |-> Cached(c, v, lines)]

GetUidSub(c, v) ==
  IF Hits(c, v) # {}
  THEN {[uid |-> c[FirstOf(Hits(c, v))].uid, cache |-> c]}
  ELSE {Scan(c, v, n, FALSE) : n \in 0 .. Len(tables[v])}
         \union {Scan(c, v, Len(tables[v]), TRUE)}

\* The table of IPv6 is asked first, also for a packet of IPv4, whose own table
\* is asked only if there was no error.
GetUid(v) ==
  LET first == IF v = 4 THEN GetUidSub(cache, 6) ELSE {[uid |-> NotFound, cache |-> cache]}
  IN  UNION {IF r.uid = NotFound THEN GetUidSub(r.cache, v) ELSE {r} : r \in first}

\* One call of get_uid for a packet of version v; uid is what it returns.
Asked(v, uid) ==
  \E r \in GetUid(v) :
    /\ r.uid = uid
    /\ Len(r.cache) <= MaxCache
    /\ cache' = r.cache
    /\ answer' = uid

-----------------------------------------------------------------------------
(* The kernel and the clock.                                               *)

\* The owners of matching sockets in the tables t.
Owners(t) == {u \in Uids : \E v \in Version : \E i \in DOMAIN t[v] :
                             t[v][i].matches /\ t[v][i].uid = u}

TablesBecome(t) ==
  /\ tables' = t
  /\ owned' = [u \in Uids |-> IF u \in Owners(t) THEN 0 ELSE owned[u]]
  /\ settled' = 0
  /\ answer' = NoAnswer
  /\ UNCHANGED cache

\* A socket can appear anywhere in its table.
OpenSocket(v, line) ==
  /\ Len(tables[4]) + Len(tables[6]) < MaxSockets
  /\ \E i \in 1 .. Len(tables[v]) + 1 :
       TablesBecome([tables EXCEPT ![v] = InsertAt(@, i, line)])

CloseSocket(v) ==
  \E i \in DOMAIN tables[v] : TablesBecome([tables EXCEPT ![v] = RemoveAt(@, i)])

TimePasses ==
  /\ cache' = [i \in DOMAIN cache |-> [cache[i] EXCEPT !.age = Older(@)]]
  /\ owned' = [u \in Uids |-> IF u \in Owners(tables) THEN 0 ELSE Older(owned[u])]
  /\ settled' = Older(settled)
  /\ answer' = NoAnswer
  /\ UNCHANGED tables

-----------------------------------------------------------------------------
UidInit ==
  /\ tables = [v \in Version |-> << >>]
  /\ cache = << >>
  /\ answer = NoAnswer
  /\ owned = [u \in Uids |-> Expired]
  /\ settled = 0

-----------------------------------------------------------------------------
(* Properties.                                                             *)

\* Every variable keeps its type.
UidTypeOK ==
  /\ tables \in [Version -> Seq(Line)]
  /\ cache \in Seq(Entry)
  /\ answer \in Uids \union {NotFound, ReadError, NoAnswer}
  /\ owned \in [Uids -> Age]
  /\ settled \in Age

\* However the tables change, and although entries are written over and a read
\* may stop half-way, the owner that is returned did own a socket that matches
\* at most UID_MAX_AGE ago: a port taken over by another app is attributed to
\* the first one for no longer than that.
AnswerIsRecent == answer \in Uids => owned[answer] <= UID_MAX_AGE

\* Once the sockets have not changed for longer than UID_MAX_AGE, the cache no
\* longer shows: the owner is one of a matching line that is there now, and
\* "not found" means that there is none.
SettledAnswerIsOwner ==
  settled = Expired /\ answer \in Uids \union {NotFound} =>
    IF answer = NotFound THEN Owners(tables) = {} ELSE answer \in Owners(tables)
=============================================================================
