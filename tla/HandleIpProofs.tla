--------------------------- MODULE HandleIpProofs ---------------------------
(***************************************************************************)
(* Theorems about HandleIp and the UidCache it extends, for any users, any *)
(* UID_MAX_AGE and tables and caches of any length: the type invariant,    *)
(* how far the answer of get_uid may be from the truth, and that nothing   *)
(* of TCP or ICMP goes out without the right of an app.                    *)
(***************************************************************************)
EXTENDS HandleIp, NumberFacts, FiniteSetTheorems, SequenceTheorems

-----------------------------------------------------------------------------
(* Sequences.                                                              *)

\* A sequence with an element inserted.
LEMMA InsertAtIs ==
  ASSUME NEW S, NEW q \in Seq(S), NEW i \in 1 .. Len(q) + 1, NEW e \in S
  PROVE  InsertAt(q, i, e) \in Seq(S)
<1>1. Len(q) \in Nat /\ \A j \in 1 .. Len(q) : q[j] \in S
  BY LenProperties, ElementOfSeq
<1>2. SubSeq(q, 1, i - 1) \in Seq(S)
  BY <1>1, SubSeqProperties
<1>3. SubSeq(q, i, Len(q)) \in Seq(S)
  BY <1>1, SubSeqProperties
<1>4. <<e>> \in Seq(S)
  OBVIOUS
<1>5. SubSeq(q, 1, i - 1) \o <<e>> \in Seq(S)
  BY <1>2, <1>4, ConcatProperties
<1> QED BY <1>3, <1>5, ConcatProperties DEF InsertAt

\* And with one removed.
LEMMA RemoveAtIs ==
  ASSUME NEW S, NEW q \in Seq(S), NEW i \in 1 .. Len(q)
  PROVE  RemoveAt(q, i) \in Seq(S)
<1>1. Len(q) \in Nat /\ \A j \in 1 .. Len(q) : q[j] \in S
  BY LenProperties, ElementOfSeq
<1>2. SubSeq(q, 1, i - 1) \in Seq(S)
  BY <1>1, SubSeqProperties
<1>3. SubSeq(q, i + 1, Len(q)) \in Seq(S)
  BY <1>1, SubSeqProperties
<1> QED BY <1>2, <1>3, ConcatProperties DEF RemoveAt

-----------------------------------------------------------------------------
(* The cache and the scan of a table.                                      *)

\* What is cached of lines.
LEMMA EntriesAre ==
  ASSUME NEW v \in Version, NEW lines \in Seq(Line)
  PROVE  /\ Len(lines) \in Nat
         /\ Entries(v, lines) = [n \in 1 .. Len(lines) |->
              [version |-> v, matches |-> lines[n].matches, uid |-> lines[n].uid, age |-> 0]]
         /\ Entries(v, lines) \in Seq(Entry)
         /\ Len(Entries(v, lines)) = Len(lines)
<1>1. DOMAIN lines = 1 .. Len(lines) /\ Len(lines) \in Nat
      /\ \A n \in 1 .. Len(lines) : lines[n] \in Line
  BY LenProperties, ElementOfSeq
<1>2. 0 \in Age
  BY AgeAssumption DEF Age, Expired
<1>3. ASSUME NEW n \in 1 .. Len(lines)
      PROVE  [version |-> v, matches |-> lines[n].matches, uid |-> lines[n].uid, age |-> 0] \in Entry
  <2>1. lines[n] \in Line
    BY <1>1
  <2>2. lines[n].matches \in BOOLEAN /\ lines[n].uid \in Uids
    BY <2>1 DEF Line
  <2> QED BY <1>2, <2>2 DEF Entry
<1>4. Entries(v, lines) = [n \in 1 .. Len(lines) |->
              [version |-> v, matches |-> lines[n].matches, uid |-> lines[n].uid, age |-> 0]]
  BY <1>1 DEF Entries
<1>5. Entries(v, lines) \in [1 .. Len(lines) -> Entry]
  BY <1>3, <1>4
<1>6. Entries(v, lines) \in Seq(Entry)
  BY <1>1, <1>5, IsASeq
<1>7. Len(Entries(v, lines)) = Len(lines)
  <2> DEFINE es == Entries(v, lines)
  <2>1. DOMAIN es = 1 .. Len(lines)
    BY <1>5
  <2> HIDE DEF es
  <2> QED BY <1>1, <1>6, <2>1, LenProperties DEF es
<1> QED BY <1>1, <1>4, <1>6, <1>7

\* Whatever the entries of the cache and of the lines have in common, those of
\* the resulting cache have as well.
LEMMA CachedIs ==
  ASSUME NEW T, NEW c \in Seq(T), NEW v \in Version, NEW lines \in Seq(Line),
         \A n \in 1 .. Len(lines) : Entries(v, lines)[n] \in T
  PROVE  Cached(c, v, lines) \in Seq(T)
<1> DEFINE es     == Entries(v, lines)
           old    == {i \in DOMAIN c : ~Fresh(c[i])}
           nth(i) == Cardinality({j \in old : j <= i})
           reused == [i \in DOMAIN c |->
                       IF i \in old /\ nth(i) <= Len(lines) THEN es[nth(i)] ELSE c[i]]
           rest   == SubSeq(es, Cardinality(old) + 1, Len(lines))
<1>1. DOMAIN c = 1 .. Len(c) /\ Len(c) \in Nat /\ \A i \in 1 .. Len(c) : c[i] \in T
  BY LenProperties, ElementOfSeq
<1>2. Len(lines) \in Nat
  BY LenProperties
<1>3. old \subseteq 1 .. Len(c) /\ IsFiniteSet(old) /\ Cardinality(old) \in Nat
  <2>1. old \subseteq 1 .. Len(c)
    BY <1>1
  <2>2. IsFiniteSet(1 .. Len(c))
    BY <1>1, FS_Interval
  <2> HIDE DEF old
  <2> QED BY <2>1, <2>2, FS_Subset, FS_CardinalityType
<1>4. ASSUME NEW i \in old, nth(i) <= Len(lines)
      PROVE  es[nth(i)] \in T
  <2> DEFINE before == {j \in old : j <= i}
  <2>1. before \subseteq old /\ i \in before
    BY <1>1, <1>3
  <2>2. IsFiniteSet(before)
    <3> HIDE DEF before, old
    <3> QED BY <1>3, <2>1, FS_Subset
  <2>3. Cardinality(before) \in Nat /\ Cardinality(before) # 0
    <3> HIDE DEF before, old
    <3> QED BY <2>1, <2>2, FS_CardinalityType, FS_EmptySet
  <2>4. nth(i) \in 1 .. Len(lines)
    <3> HIDE DEF before
    <3>1. nth(i) = Cardinality(before)
      BY DEF before
    <3> QED BY <1>2, <1>4, <2>3, <3>1
  <2> HIDE DEF nth, old
  <2> QED BY <2>4
<1>5. reused \in Seq(T)
  <2>1. \A i \in 1 .. Len(c) :
          (IF i \in old /\ nth(i) <= Len(lines) THEN es[nth(i)] ELSE c[i]) \in T
    <3> HIDE DEF es, nth, old
    <3> QED BY <1>1, <1>4
  <2>2. reused \in [1 .. Len(c) -> T]
    <3> HIDE DEF es, nth, old
    <3> QED BY <1>1, <2>1
  <2> HIDE DEF reused
  <2> QED BY <1>1, <2>2, IsASeq
<1>6. rest \in Seq(T)
  <2>1. \A n \in Cardinality(old) + 1 .. Len(lines) : es[n] \in T
    <3> HIDE DEF es, old
    <3> QED BY <1>2, <1>3 DEF es
  <2> HIDE DEF es, old
  <2> QED BY <1>2, <1>3, <2>1, SubSeqProperties
<1>7. Cached(c, v, lines) = reused \o rest
  BY DEF Cached
<1> HIDE DEF reused, rest
<1> QED BY <1>5, <1>6, <1>7, ConcatProperties

\* The owner is that of a line that matches, if there is one.
LEMMA OwnerIs ==
  ASSUME NEW lines \in Seq(Line)
  PROVE  /\ Owner(lines) = NotFound <=> Matching(lines) = {}
         /\ Matching(lines) # {} =>
              \E i \in DOMAIN lines : lines[i].matches /\ Owner(lines) = lines[i].uid
         /\ Owner(lines) \in Uids \union {NotFound}
<1>1. DOMAIN lines = 1 .. Len(lines) /\ Len(lines) \in Nat
      /\ \A n \in 1 .. Len(lines) : lines[n] \in Line
  BY LenProperties, ElementOfSeq
<1>2. CASE Matching(lines) = {}
  BY <1>2 DEF Owner
<1>3. CASE Matching(lines) # {}
  <2> DEFINE M == Matching(lines)
             k == LastOf(M)
  <2>1. M \subseteq 1 .. Len(lines)
    BY <1>1 DEF Matching
  <2>2. M \in SUBSET (0 .. Len(lines))
    BY <1>1, <2>1
  <2>3. \E n \in M : \A m \in M : m <= n
    <3> HIDE DEF M
    <3>1. M # {}
      BY <1>3 DEF M
    <3> QED BY <1>1, <2>2, <3>1, GreatestElement
  <2>4. k \in M
    <3> HIDE DEF M
    <3> QED BY <2>3 DEF LastOf
  <2>5. k \in DOMAIN lines /\ lines[k].matches
    <3> HIDE DEF k
    <3> QED BY <2>4 DEF Matching
  <2>6. Owner(lines) = lines[k].uid
    BY <1>3 DEF Owner
  <2>7. lines[k].uid \in Uids /\ NotFound \notin Uids
    <3> HIDE DEF k
    <3>1. lines[k] \in Line
      BY <1>1, <2>5
    <3> QED BY <3>1, UidsAssumption DEF Line, NotFound
  <2> HIDE DEF k, M
  <2>8. \E i \in DOMAIN lines : lines[i].matches /\ Owner(lines) = lines[i].uid
    BY <2>5, <2>6
  <2> QED BY <1>3, <2>6, <2>7, <2>8
<1> QED BY <1>2, <1>3

-----------------------------------------------------------------------------
(***************************************************************************)
(* The inductive invariant.  An entry of the cache that may still be used  *)
(* was true when it was read, so that its user owned a matching socket no  *)
(* longer ago than the entry is old; and if the tables have not changed    *)
(* since, he owns it still.  Sockets appear only in the tables that a      *)
(* packet of the link asks.                                                *)
(***************************************************************************)
SoundEntry ==
  {e \in Entry : Fresh(e) /\ e.matches =>
                   /\ owned[e.uid] <= e.age
                   /\ e.age < settled => e.uid \in Owners(tables)}

CacheSound ==
  /\ cache \in Seq(SoundEntry)
  /\ \A u \in Owners(tables) : owned[u] = 0
  /\ \A v \in Version \ TablesAsked : tables[v] = << >>

IInv == TypeOK /\ CacheSound /\ AnswerIsRecent /\ SettledAnswerIsOwner /\ NothingLeaks

\* The part of it about get_uid.
UidInv == UidTypeOK /\ CacheSound

\* What get_uid may say of the table of version v.
True(v, uid) ==
  /\ uid \in Uids \union {NotFound, ReadError}
  /\ uid \in Uids => /\ owned[uid] <= UID_MAX_AGE
                     /\ settled = Expired => uid \in Owners(tables)
  /\ uid = NotFound => Matching(tables[v]) = {}

LEMMA AgesAre ==
  /\ UID_MAX_AGE \in Nat /\ Age = 0 .. UID_MAX_AGE + 1 /\ Expired = UID_MAX_AGE + 1
  /\ \A a \in Age : Older(a) \in Age /\ a <= Older(a) /\ Older(a) <= a + 1
  /\ Uids \subseteq Nat
  /\ NotFound \notin Uids /\ ReadError \notin Uids /\ NoAnswer \notin Uids
BY AgeAssumption, UidsAssumption DEF Age, Expired, Older, NotFound, ReadError, NoAnswer

\* Who is in a table is an owner now.
LEMMA OwnerNow ==
  ASSUME UidInv, NEW v \in Version, NEW i \in DOMAIN tables[v], tables[v][i].matches
  PROVE  /\ tables[v][i].uid \in Uids
         /\ tables[v][i].uid \in Owners(tables) /\ owned[tables[v][i].uid] = 0
<1>1. tables[v] \in Seq(Line)
  BY DEF UidInv, UidTypeOK
<1>2. tables[v][i] \in Line
  BY <1>1, LenProperties, ElementOfSeq
<1>3. tables[v][i].uid \in Uids
  BY <1>2 DEF Line
<1>4. tables[v][i].uid \in Owners(tables)
  BY <1>3 DEF Owners
<1> QED BY <1>3, <1>4 DEF UidInv, CacheSound

\* A scan, also one that ends early.
LEMMA ScanIs ==
  ASSUME UidInv, NEW c \in Seq(SoundEntry), NEW v \in Version,
         NEW n \in 0 .. Len(tables[v]), NEW whole \in BOOLEAN,
         whole => n = Len(tables[v])
  PROVE  /\ True(v, Scan(c, v, n, whole).uid)
         /\ Scan(c, v, n, whole).cache \in Seq(SoundEntry)
<1> DEFINE lines == SubSeq(tables[v], 1, n)
<1>1. /\ tables[v] \in Seq(Line) /\ Len(tables[v]) \in Nat /\ DOMAIN tables[v] = 1 .. Len(tables[v])
      /\ \A i \in 1 .. Len(tables[v]) : tables[v][i] \in Line
      /\ settled \in Age
  BY LenProperties, ElementOfSeq DEF UidInv, UidTypeOK
<1>2. lines \in Seq(Line) /\ Len(lines) = n /\ \A i \in 1 .. n : lines[i] = tables[v][i]
  BY <1>1, SubSeqProperties
<1>3. whole => lines = tables[v]
  BY <1>1, SubSeqFull
<1>4. Scan(c, v, n, whole) =
        [uid |-> IF whole THEN Owner(lines) ELSE ReadError, cache |-> Cached(c, v, lines)]
  BY DEF Scan
<1> HIDE DEF lines
<1>5. True(v, Scan(c, v, n, whole).uid)
  <2>1. CASE ~whole
    BY <1>4, <2>1, AgesAre DEF True, ReadError, NotFound
  <2>2. CASE whole
    <3>1. Scan(c, v, n, whole).uid = Owner(tables[v])
      BY <1>3, <1>4, <2>2
    <3>2. /\ Owner(tables[v]) = NotFound <=> Matching(tables[v]) = {}
          /\ Matching(tables[v]) # {} =>
               \E i \in DOMAIN tables[v] : tables[v][i].matches /\ Owner(tables[v]) = tables[v][i].uid
          /\ Owner(tables[v]) \in Uids \union {NotFound}
      BY <1>1, OwnerIs
    <3>3. Owner(tables[v]) \in Uids =>
            Owner(tables[v]) \in Owners(tables) /\ owned[Owner(tables[v])] = 0
      BY <3>2, OwnerNow, AgesAre
    <3> QED BY <3>1, <3>2, <3>3, AgesAre DEF True
  <2> QED BY <2>1, <2>2
<1>6. Cached(c, v, lines) \in Seq(SoundEntry)
  <2>1. ASSUME NEW i \in 1 .. Len(lines)
        PROVE  Entries(v, lines)[i] \in SoundEntry
    <3> DEFINE e == Entries(v, lines)[i]
    <3>1. e = [version |-> v, matches |-> lines[i].matches, uid |-> lines[i].uid, age |-> 0]
      BY <1>2, EntriesAre
    <3>2. e \in Entry
      BY <1>2, EntriesAre, ElementOfSeq
    <3>3. i \in DOMAIN tables[v] /\ lines[i] = tables[v][i]
      BY <1>1, <1>2
    <3> HIDE DEF e
    <3>4. e.matches => e.uid \in Owners(tables) /\ owned[e.uid] = 0
      BY <3>1, <3>3, OwnerNow
    <3>5. e.age = 0
      BY <3>1
    <3>6. e \in SoundEntry
      BY <3>2, <3>4, <3>5 DEF SoundEntry
    <3> QED BY <3>6 DEF e
  <2> QED BY <1>2, <2>1, CachedIs
<1> QED BY <1>4, <1>5, <1>6

\* The cache or a scan.
LEMMA GetUidSubIs ==
  ASSUME UidInv, NEW c \in Seq(SoundEntry), NEW v \in Version, NEW r \in GetUidSub(c, v)
  PROVE  True(v, r.uid) /\ r.cache \in Seq(SoundEntry)
<1>1. CASE Hits(c, v) # {}
  <2> DEFINE h == FirstOf(Hits(c, v))
  <2>1. DOMAIN c = 1 .. Len(c) /\ Len(c) \in Nat /\ \A i \in 1 .. Len(c) : c[i] \in SoundEntry
    BY LenProperties, ElementOfSeq
  <2>2. Hits(c, v) \in SUBSET Nat
    BY <2>1 DEF Hits
  <2>3. \E n \in Hits(c, v) : \A m \in Hits(c, v) : n <= m
    BY <1>1, <2>2, LeastElement
  <2>4. h \in Hits(c, v)
    BY <2>3 DEF FirstOf
  <2>5. r.uid = c[h].uid /\ r.cache = c
    BY <1>1 DEF GetUidSub
  <2> HIDE DEF h
  <2>6. h \in 1 .. Len(c) /\ Fresh(c[h]) /\ c[h].matches
    BY <2>1, <2>4 DEF Hits
  <2> DEFINE e == c[h]
  <2>7. e \in SoundEntry
    BY <2>1, <2>6
  <2> HIDE DEF e
  <2>8. Fresh(e) /\ e.matches
    BY <2>6 DEF e
  <2>9. e \in Entry /\ owned[e.uid] <= e.age /\ (e.age < settled => e.uid \in Owners(tables))
    BY <2>7, <2>8 DEF SoundEntry
  <2>10. e.uid \in Uids /\ e.age \in Age /\ e.age <= UID_MAX_AGE
    BY <2>8, <2>9 DEF Entry, Fresh
  <2>11. owned[e.uid] \in Age /\ settled \in Age
    BY <2>10 DEF UidInv, UidTypeOK
  <2>12. True(v, e.uid)
    <3>1. owned[e.uid] <= UID_MAX_AGE /\ (settled = Expired => e.age < settled)
      <4>1. owned[e.uid] \in Nat /\ e.age \in Nat /\ UID_MAX_AGE \in Nat
        BY <2>10, <2>11, AgeAssumption DEF Age, Expired
      <4>2. owned[e.uid] <= e.age
        BY <2>9
      <4> QED BY <2>10, <4>1, <4>2 DEF Expired
    <3>2. e.uid # NotFound
      BY <2>10, AgesAre
    <3> QED BY <2>9, <2>10, <3>1, <3>2 DEF True
  <2> QED BY <2>5, <2>12 DEF e
<1>2. CASE Hits(c, v) = {}
  <2>1. Len(tables[v]) \in Nat
    BY LenProperties DEF UidInv, UidTypeOK
  <2>2. \/ \E n \in 0 .. Len(tables[v]) : r = Scan(c, v, n, FALSE)
        \/ r = Scan(c, v, Len(tables[v]), TRUE)
    BY <1>2 DEF GetUidSub
  <2>3. CASE \E n \in 0 .. Len(tables[v]) : r = Scan(c, v, n, FALSE)
    BY <2>3, ScanIs
  <2>4. CASE r = Scan(c, v, Len(tables[v]), TRUE)
    <3>1. Len(tables[v]) \in 0 .. Len(tables[v])
      BY <2>1
    <3> QED BY <2>4, <3>1, ScanIs
  <2> QED BY <2>2, <2>3, <2>4
<1> QED BY <1>1, <1>2

\* No owner means that no table has a line that matches.
LEMMA NoOwners ==
  ASSUME \A v \in Version : Matching(tables[v]) = {}
  PROVE  Owners(tables) = {}
BY DEF Owners, Matching

\* The answer of get_uid.
LEMMA AskedIs ==
  ASSUME UidInv, link \in Links, NEW uid, Asked(link.version, uid)
  PROVE  /\ cache' \in Seq(SoundEntry)
         /\ answer' = uid
         /\ uid \in Uids \union {NotFound, ReadError}
         /\ uid \in Uids => /\ owned[uid] <= UID_MAX_AGE
                            /\ settled = Expired => uid \in Owners(tables)
         /\ uid = NotFound => Owners(tables) = {}
<1> DEFINE v == link.version
<1>1. v \in Version /\ 6 \in Version /\ 4 \in Version
  BY LinksAssumption DEF Version
<1>2. PICK r \in GetUid(v) : r.uid = uid /\ cache' = r.cache /\ answer' = uid
  BY DEF Asked
<1>3. cache \in Seq(SoundEntry)
  BY DEF UidInv, CacheSound
<1>4. True(v, r.uid) /\ r.cache \in Seq(SoundEntry)
      /\ (r.uid = NotFound => v = 6 \/ Matching(tables[6]) = {})
  <2> DEFINE first == IF v = 4 THEN GetUidSub(cache, 6) ELSE {[uid |-> NotFound, cache |-> cache]}
  <2>1. PICK f \in first : r \in (IF f.uid = NotFound THEN GetUidSub(f.cache, v) ELSE {f})
    BY <1>2 DEF GetUid
  <2>2. f.cache \in Seq(SoundEntry) /\ (v = 4 => True(6, f.uid)) /\ (v # 4 => f.uid = NotFound)
    <3>1. CASE v = 4
      BY <1>1, <1>3, <2>1, <3>1, GetUidSubIs
    <3>2. CASE v # 4
      BY <1>3, <2>1, <3>2
    <3> QED BY <3>1, <3>2
  <2> HIDE DEF first, v
  <2>3. CASE f.uid = NotFound
    <3>1. r \in GetUidSub(f.cache, v)
      BY <2>1, <2>3
    <3>2. True(v, r.uid) /\ r.cache \in Seq(SoundEntry)
      BY <1>1, <2>2, <3>1, GetUidSubIs
    <3>3. v = 4 => Matching(tables[6]) = {}
      BY <2>2, <2>3 DEF True
    <3> QED BY <1>1, <3>2, <3>3 DEF Version
  <2>4. CASE f.uid # NotFound
    <3>1. r = f /\ v = 4
      BY <2>1, <2>2, <2>4
    <3> QED BY <2>2, <2>4, <3>1 DEF True
  <2> QED BY <2>3, <2>4
<1>5. ASSUME uid = NotFound PROVE Owners(tables) = {}
  <2>1. Matching(tables[v]) = {} /\ (v = 6 \/ Matching(tables[6]) = {})
    BY <1>2, <1>4, <1>5 DEF True
  <2>2. v = 6 => tables[4] = << >>
    <3> SUFFICES ASSUME v = 6 PROVE tables[4] = << >>
      OBVIOUS
    <3>1. 4 \notin TablesAsked
      BY DEF TablesAsked
    <3> QED BY <1>1, <3>1 DEF UidInv, CacheSound
  <2>3. Matching(<< >>) = {}
    BY DEF Matching
  <2>4. Matching(tables[4]) = {} /\ Matching(tables[6]) = {}
    BY <1>1, <2>1, <2>2, <2>3 DEF Version
  <2> QED BY <2>4, NoOwners DEF Version
<1> HIDE DEF v
<1> QED BY <1>2, <1>4, <1>5 DEF True

-----------------------------------------------------------------------------
(* The steps.                                                              *)

\* Sockets appear and disappear, whatever they are.
LEMMA TablesBecomeIs ==
  ASSUME UidInv, NEW v \in TablesAsked, v \in Version, NEW lines \in Seq(Line),
         TablesBecome([tables EXCEPT ![v] = lines]), UNCHANGED link
  PROVE  UidInv'
<1> DEFINE t == [tables EXCEPT ![v] = lines]
<1>1. tables \in [Version -> Seq(Line)]
  BY DEF UidInv, UidTypeOK
<1>2. t \in [Version -> Seq(Line)] /\ \A w \in Version \ {v} : t[w] = tables[w]
  BY <1>1
<1>3. /\ tables' = t /\ settled' = 0 /\ answer' = NoAnswer /\ cache' = cache
      /\ owned' = [u \in Uids |-> IF u \in Owners(t) THEN 0 ELSE owned[u]]
  BY DEF TablesBecome
<1> HIDE DEF t
<1>4. 0 \in Age /\ owned \in [Uids -> Age]
  BY AgesAre DEF UidInv, UidTypeOK
<1>5. \A u \in Uids : owned'[u] \in Age /\ owned'[u] <= owned[u]
  <2> TAKE u \in Uids
  <2>1. owned[u] \in Age
    BY <1>4
  <2> QED BY <1>3, <1>4, <2>1, AgesAre
<1>6. UidTypeOK'
  <2>1. owned' \in [Uids -> Age]
    BY <1>3, <1>5
  <2>2. cache \in Seq(Entry)
    BY DEF UidInv, UidTypeOK
  <2> QED BY <1>2, <1>3, <1>4, <2>1, <2>2 DEF UidTypeOK
<1>7. cache' \in Seq(SoundEntry')
  <2>1. ASSUME NEW e \in SoundEntry PROVE e \in SoundEntry'
    <3>1. e \in Entry /\ e.uid \in Uids /\ e.age \in Age
      BY DEF SoundEntry, Entry
    <3>2. Fresh(e) /\ e.matches => owned[e.uid] <= e.age
      BY DEF SoundEntry
    <3>3. ~(e.age < settled')
      BY <1>3, <3>1, AgesAre
    <3>4. Fresh(e) /\ e.matches => owned'[e.uid] <= e.age
      <4>1. owned[e.uid] \in Age
        BY <1>4, <3>1
      <4>2. owned[e.uid] \in Nat /\ owned'[e.uid] \in Nat /\ e.age \in Nat
        BY <1>5, <3>1, <4>1, AgeAssumption DEF Age, Expired
      <4>3. owned'[e.uid] <= owned[e.uid]
        BY <1>5, <3>1
      <4> QED BY <3>2, <4>2, <4>3
    <3> QED BY <3>1, <3>3, <3>4 DEF SoundEntry
  <2>2. SoundEntry \subseteq SoundEntry'
    BY <2>1
  <2>3. cache \in Seq(SoundEntry) /\ cache' = cache
    BY <1>3 DEF UidInv, CacheSound
  <2>4. ASSUME NEW S, NEW T, S \subseteq T, NEW c \in Seq(S) PROVE c \in Seq(T)
    <3>1. Len(c) \in Nat /\ c \in [1 .. Len(c) -> S]
      BY LenProperties
    <3>2. c \in [1 .. Len(c) -> T]
      BY <2>4, <3>1
    <3> QED BY <3>1, <3>2, IsASeq
  <2> HIDE DEF SoundEntry
  <2> QED BY <2>2, <2>3, <2>4
<1>8. \A u \in Owners(tables)' : owned'[u] = 0
  BY <1>3 DEF Owners
<1>9. \A w \in Version \ TablesAsked' : tables'[w] = << >>
  <2>1. TablesAsked' = TablesAsked
    BY DEF TablesAsked
  <2> QED BY <1>2, <1>3, <2>1 DEF UidInv, CacheSound
<1> QED BY <1>6, <1>7, <1>8, <1>9 DEF UidInv, CacheSound

LEMMA TimePassesIs ==
  ASSUME UidInv, TimePasses, UNCHANGED link
  PROVE  UidInv'
<1>1. /\ cache' = [i \in DOMAIN cache |-> [cache[i] EXCEPT !.age = Older(@)]]
      /\ owned' = [u \in Uids |-> IF u \in Owners(tables) THEN 0 ELSE Older(owned[u])]
      /\ settled' = Older(settled) /\ answer' = NoAnswer /\ tables' = tables
  BY DEF TimePasses
<1>2. /\ 0 \in Age /\ owned \in [Uids -> Age] /\ settled \in Age
      /\ cache \in Seq(SoundEntry) /\ tables \in [Version -> Seq(Line)]
      /\ DOMAIN cache = 1 .. Len(cache) /\ Len(cache) \in Nat
      /\ \A i \in 1 .. Len(cache) : cache[i] \in SoundEntry
  BY AgesAre, LenProperties, ElementOfSeq DEF UidInv, UidTypeOK, CacheSound
<1>3. \A u \in Uids : owned'[u] \in Age /\ owned[u] \in Age /\ owned'[u] <= owned[u] + 1
  <2> TAKE u \in Uids
  <2>1. owned[u] \in Age
    BY <1>2
  <2>2. Older(owned[u]) \in Age /\ Older(owned[u]) <= owned[u] + 1
    BY <2>1, AgesAre
  <2>3. owned'[u] = 0 \/ owned'[u] = Older(owned[u])
    BY <1>1
  <2> QED BY <1>2, <2>1, <2>2, <2>3, AgesAre, SMTT(30)
<1>4. Owners(tables)' = Owners(tables)
  BY <1>1 DEF Owners
<1>5. ASSUME NEW e \in SoundEntry
      PROVE  [e EXCEPT !.age = Older(@)] \in SoundEntry'
  <2> DEFINE f == [e EXCEPT !.age = Older(@)]
  <2>1. e \in Entry /\ e.uid \in Uids /\ e.age \in Age
    BY DEF SoundEntry, Entry
  <2>2. Older(e.age) \in Age
    BY <2>1, AgesAre
  <2>3. f \in Entry /\ f.matches = e.matches /\ f.uid = e.uid /\ f.age = Older(e.age)
    BY <2>1, <2>2 DEF Entry
  <2> HIDE DEF f
  <2>4. ASSUME Fresh(f)
        PROVE  Fresh(e) /\ f.age = e.age + 1
    BY <2>1, <2>3, <2>4, AgesAre DEF Fresh, Older
  <2>5. ASSUME Fresh(f), f.matches
        PROVE  owned'[f.uid] <= f.age /\ (f.age < settled' => f.uid \in Owners(tables)')
    <3>1. owned[e.uid] <= e.age /\ (e.age < settled => e.uid \in Owners(tables))
      BY <2>3, <2>4, <2>5 DEF SoundEntry
    <3>2. owned'[f.uid] <= f.age
      <4>1. owned'[e.uid] <= owned[e.uid] + 1 /\ owned[e.uid] \in Age /\ owned'[e.uid] \in Age
        BY <1>3, <2>1
      <4>2. owned[e.uid] \in Nat /\ owned'[e.uid] \in Nat /\ e.age \in Nat
        BY <2>1, <4>1, AgeAssumption DEF Age, Expired
      <4>3. f.age = e.age + 1 /\ f.uid = e.uid /\ owned[e.uid] <= e.age
        BY <2>3, <2>4, <2>5, <3>1
      <4> QED BY <4>1, <4>2, <4>3
    <3>3. f.age < settled' => e.age < settled
      BY <1>1, <1>2, <2>1, <2>3, <2>4, <2>5, AgesAre DEF Older
    <3> QED BY <1>4, <2>3, <3>1, <3>2, <3>3
  <2>6. f \in SoundEntry'
    BY <2>3, <2>5 DEF SoundEntry
  <2> QED BY <2>6 DEF f
<1>6. cache' \in Seq(SoundEntry')
  <2>1. cache' \in [1 .. Len(cache) -> SoundEntry']
    <3> HIDE DEF SoundEntry
    <3> QED BY <1>1, <1>2, <1>5
  <2> HIDE DEF SoundEntry
  <2> QED BY <1>2, <2>1, IsASeq
<1>7. UidTypeOK'
  <2>1. owned' \in [Uids -> Age]
    BY <1>1, <1>3
  <2>2. settled' \in Age
    BY <1>1, <1>2, AgesAre
  <2>3. cache' \in Seq(Entry)
    <3>1. SoundEntry' \subseteq Entry
      BY DEF SoundEntry
    <3>2. Len(cache') \in Nat /\ cache' \in [1 .. Len(cache') -> SoundEntry']
      BY <1>6, LenProperties
    <3>3. cache' \in [1 .. Len(cache') -> Entry]
      BY <3>1, <3>2
    <3> QED BY <3>2, <3>3, IsASeq
  <2> QED BY <1>1, <1>2, <2>1, <2>2, <2>3 DEF UidTypeOK
<1>8. \A u \in Owners(tables)' : owned'[u] = 0
  BY <1>1, <1>4 DEF Owners
<1>9. \A w \in Version \ TablesAsked' : tables'[w] = << >>
  BY <1>1 DEF TablesAsked, UidInv, CacheSound
<1> QED BY <1>6, <1>7, <1>8, <1>9 DEF UidInv, CacheSound

\* get_uid is not called, and the clock stands still.
LEMMA SilentIs ==
  ASSUME UidInv, NoLookup, UNCHANGED <<link, tables, owned, settled>>
  PROVE  UidInv'
<1>1. UidTypeOK'
  BY DEF UidInv, UidTypeOK, NoLookup
<1>2. SoundEntry' = SoundEntry
  BY DEF SoundEntry, Owners
<1>3. cache' = cache /\ Owners(tables)' = Owners(tables) /\ TablesAsked' = TablesAsked
  BY DEF NoLookup, Owners, TablesAsked
<1>4. CacheSound'
  BY <1>2, <1>3 DEF UidInv, CacheSound
<1> QED BY <1>1, <1>4 DEF UidInv

\* No answer is no wrong answer.
LEMMA NoAnswerIs ==
  ASSUME answer' = NoAnswer
  PROVE  AnswerIsRecent' /\ SettledAnswerIsOwner'
<1>1. NoAnswer \notin Uids /\ NoAnswer # NotFound
  BY AgesAre DEF NoAnswer, NotFound
<1> QED BY <1>1 DEF AnswerIsRecent, SettledAnswerIsOwner

\* The owner of a packet is looked up.  If he may use the Internet, then there
\* is an app by whose right the packet goes out.
LEMMA LookupIs ==
  ASSUME IInv, CheckTun, NEW uid, Lookup(uid)
  PROVE  /\ UidInv' /\ AnswerIsRecent' /\ SettledAnswerIsOwner'
         /\ Admits(uid) => Entitled
<1>1. UidInv /\ link \in Links /\ allowed \subseteq Uids
  BY DEF IInv, TypeOK, UidInv
<1>2. UNCHANGED <<link, allowed, tables, owned, settled>>
  BY DEF CheckTun
<1>3. Admits(uid) => uid \in Nat
  <2>1. allowed \subseteq Nat /\ 0 \in Nat
    BY <1>1, UidsAssumption
  <2> QED BY <2>1, Zenon DEF Admits, Allowed
<1>4. CASE link.q
  <2>1. NoLookup /\ (uid \in Owners(tables) \/ uid = NotFound)
    BY <1>4 DEF Lookup
  <2>2. UidInv'
    BY <1>1, <1>2, <2>1, SilentIs
  <2>3. AnswerIsRecent' /\ SettledAnswerIsOwner'
    BY <2>1, NoAnswerIs DEF NoLookup
  <2>4. Admits(uid) => uid \in Owners(tables)
    BY <1>3, <2>1 DEF NotFound
  <2>5. Admits(uid) => Entitled
    BY <1>4, <2>4 DEF Entitled, RecentOwners, Admits
  <2> QED BY <2>2, <2>3, <2>5
<1>5. CASE ~link.q
  <2>1. Asked(link.version, uid)
    BY <1>5 DEF Lookup
  <2>2. /\ cache' \in Seq(SoundEntry) /\ answer' = uid /\ uid \in Uids \union {NotFound, ReadError}
        /\ uid \in Uids => /\ owned[uid] <= UID_MAX_AGE
                           /\ settled = Expired => uid \in Owners(tables)
        /\ uid = NotFound => Owners(tables) = {}
    BY <1>1, <2>1, AskedIs
  <2>3. SoundEntry' = SoundEntry /\ Owners(tables)' = Owners(tables) /\ TablesAsked' = TablesAsked
    BY <1>2 DEF SoundEntry, Owners, TablesAsked
  <2>4. cache' \in Seq(Entry)
    <3>1. SoundEntry \subseteq Entry
      BY DEF SoundEntry
    <3>2. Len(cache') \in Nat /\ cache' \in [1 .. Len(cache') -> SoundEntry]
      BY <2>2, LenProperties
    <3>3. cache' \in [1 .. Len(cache') -> Entry]
      BY <3>1, <3>2
    <3> QED BY <3>2, <3>3, IsASeq
  <2>5. UidTypeOK'
    BY <1>1, <1>2, <2>2, <2>4 DEF UidInv, UidTypeOK
  <2>6. CacheSound'
    BY <1>1, <1>2, <2>2, <2>3 DEF UidInv, CacheSound
  <2>7. AnswerIsRecent' /\ SettledAnswerIsOwner'
    <3>1. NotFound \notin Uids
      BY AgesAre
    <3> QED BY <1>2, <2>2, <2>3, <3>1 DEF AnswerIsRecent, SettledAnswerIsOwner
  <2>8. Admits(uid) => uid \in RecentOwners
    <3>1. Admits(uid) => uid \in Uids
      BY <1>3, <2>2 DEF NotFound, ReadError
    <3> QED BY <1>5, <2>2, <3>1 DEF RecentOwners
  <2>9. Admits(uid) => Entitled
    BY <2>8 DEF Entitled, Admits
  <2> QED BY <2>5, <2>6, <2>7, <2>9 DEF UidInv
<1> QED BY <1>4, <1>5

\* What the handler of the protocol does, if there is the right for it, or if
\* it opens no session and asks only what is in one.
LEMMA HandledIs ==
  ASSUME IInv, UNCHANGED link, NEW opens \in BOOLEAN, Handled(opens),
         link.proto # "udp" => Entitled \/ (link.proto = "tcp" /\ ~opens)
  PROVE  session' \in SessionKind /\ last' \in Outcome /\ NothingLeaks'
<1>1. session \in SessionKind /\ (link.proto # "udp" => session # "ungranted")
  BY DEF IInv, TypeOK, NothingLeaks
<1>2. CASE session = "none" /\ opens /\ session' = (IF Entitled THEN "granted" ELSE "ungranted")
           /\ last' = IF Entitled THEN "sent" ELSE "leaked"
  BY <1>2, Zenon DEF SessionKind, Outcome, NothingLeaks
<1>3. CASE session # "none" /\ UNCHANGED session
           /\ last' = IF Entitled \/ (link.proto # "icmp" /\ session = "granted")
                      THEN "sent" ELSE "leaked"
  <2>1. link.proto # "udp" => last' # "leaked"
    BY <1>1, <1>3 DEF SessionKind
  <2> QED BY <1>1, <1>3, <2>1 DEF Outcome, NothingLeaks
<1>4. CASE Refused
  BY <1>1, <1>4 DEF Refused, Outcome, NothingLeaks
<1> QED BY <1>2, <1>3, <1>4 DEF Handled

LEMMA InitIInv == Init => IInv
<1> SUFFICES ASSUME Init PROVE IInv
  OBVIOUS
<1>1. /\ tables = [v \in Version |-> << >>] /\ cache = << >> /\ answer = NoAnswer
      /\ owned = [u \in Uids |-> Expired] /\ settled = 0
      /\ link \in Links /\ allowed = {} /\ session = "none" /\ last = "none"
  BY DEF Init, UidInit
<1>2. Expired \in Age /\ 0 \in Age
  BY AgesAre
<1>3. TypeOK
  BY <1>1, <1>2 DEF TypeOK, UidTypeOK, SessionKind, Outcome
<1>4. Owners(tables) = {} /\ \A v \in Version : tables[v] = << >>
  BY <1>1 DEF Owners
<1>5. CacheSound
  BY <1>1, <1>4 DEF CacheSound
<1>6. AnswerIsRecent /\ SettledAnswerIsOwner
  BY <1>1, AgesAre DEF AnswerIsRecent, SettledAnswerIsOwner, NoAnswer, NotFound
<1> QED BY <1>1, <1>3, <1>5, <1>6 DEF IInv, NothingLeaks

LEMMA StepIInv == IInv /\ [Next]_allVars => IInv'
<1> SUFFICES ASSUME IInv, [Next]_allVars PROVE IInv'
  OBVIOUS
<1>1. /\ UidInv /\ link \in Links /\ allowed \subseteq Uids
      /\ session \in SessionKind /\ last \in Outcome
  BY DEF IInv, TypeOK, UidInv
\* What is left to show of a step that is about a packet, or about none.
<1>2. ASSUME UidInv', AnswerIsRecent', SettledAnswerIsOwner', UNCHANGED <<link, allowed>>,
             session' \in SessionKind, last' \in Outcome, NothingLeaks'
      PROVE  IInv'
  BY <1>1, <1>2 DEF IInv, TypeOK, UidInv
<1>3. ASSUME NoLookup, UNCHANGED <<link, tables, owned, settled>>
      PROVE  UidInv' /\ AnswerIsRecent' /\ SettledAnswerIsOwner'
  BY <1>1, <1>3, SilentIs, NoAnswerIs DEF NoLookup
<1>4. ASSUME Refused, UNCHANGED link
      PROVE  session' \in SessionKind /\ last' \in Outcome /\ NothingLeaks'
  BY <1>1, <1>4 DEF Refused, Outcome, NothingLeaks, IInv
<1>5. CASE TunInvalid \/ TunUnknown
  <2>1. CheckTun /\ NoLookup /\ Refused
    BY <1>5 DEF TunInvalid, TunUnknown
  <2> QED BY <1>2, <1>3, <1>4, <2>1 DEF CheckTun
<1>6. CASE TunSyn \/ TunPing
  <2>1. PICK uid : CheckTun /\ Lookup(uid) /\ IF Admits(uid) THEN Handled(TRUE) ELSE Refused
    BY <1>6 DEF TunSyn, TunPing, Recognised
  <2>2. UidInv' /\ AnswerIsRecent' /\ SettledAnswerIsOwner' /\ (Admits(uid) => Entitled)
    BY <2>1, LookupIs
  <2>3. UNCHANGED <<link, allowed>>
    BY <2>1 DEF CheckTun
  <2>4. session' \in SessionKind /\ last' \in Outcome /\ NothingLeaks'
    BY <1>4, <2>1, <2>2, <2>3, HandledIs
  <2> QED BY <1>2, <2>2, <2>3, <2>4
<1>7. CASE TunSegment
  <2>1. CheckTun /\ link.proto = "tcp" /\ NoLookup /\ Handled(FALSE)
    BY <1>7 DEF TunSegment, Recognised, Opens
  <2>2. UNCHANGED <<link, allowed, tables, owned, settled>>
    BY <2>1 DEF CheckTun
  <2>3. session' \in SessionKind /\ last' \in Outcome /\ NothingLeaks'
    BY <2>1, <2>2, HandledIs
  <2> QED BY <1>2, <1>3, <2>1, <2>2, <2>3
<1>8. CASE TunDatagram
  <2>1. CheckTun /\ link.proto = "udp" /\ Handled(TRUE)
    BY <1>8 DEF TunDatagram, Recognised
  <2>2. UNCHANGED <<link, allowed, tables, owned, settled>>
    BY <2>1 DEF CheckTun
  <2>3. session' \in SessionKind /\ last' \in Outcome /\ NothingLeaks'
    BY <2>1, <2>2, HandledIs
  <2>4. UidInv' /\ AnswerIsRecent' /\ SettledAnswerIsOwner'
    <3>1. NoLookup \/ \E uid : Lookup(uid)
      BY <1>8 DEF TunDatagram
    <3> QED BY <1>3, <2>1, <2>2, <3>1, LookupIs
  <2> QED BY <1>2, <2>2, <2>3, <2>4
<1>9. CASE \E uid \in Uids \ {0} : EditRule(uid)
  <2>1. PICK uid \in Uids : EditRule(uid)
    BY <1>9
  <2>2. /\ NoLookup /\ UNCHANGED <<link, tables, owned, settled>> /\ allowed' \subseteq Uids
        /\ last' = "none" /\ session' = session
    BY <1>1, <2>1 DEF EditRule
  <2>3. UidInv' /\ AnswerIsRecent' /\ SettledAnswerIsOwner'
    BY <1>3, <2>2
  <2> QED BY <1>1, <2>2, <2>3 DEF IInv, TypeOK, UidInv, Outcome, NothingLeaks
<1>10. CASE EndSession
  <2>1. /\ NoLookup /\ UNCHANGED <<link, allowed, tables, owned, settled>>
        /\ last' = "none" /\ session' = "none"
    BY <1>10 DEF EndSession
  <2>2. UidInv' /\ AnswerIsRecent' /\ SettledAnswerIsOwner'
    BY <1>3, <2>1
  <2> QED BY <1>2, <2>1, <2>2 DEF SessionKind, Outcome, NothingLeaks
<1>11. CASE Kernel
  <2>1. UNCHANGED <<link, allowed, session>> /\ last' = "none"
    BY <1>11 DEF Kernel
  <2>2. \A v \in TablesAsked : v \in Version
    BY <1>1, LinksAssumption DEF TablesAsked, Version
  <2>3. UidInv' /\ answer' = NoAnswer
    <3>1. ASSUME NEW v \in TablesAsked, NEW line \in Line, OpenSocket(v, line)
          PROVE  UidInv' /\ answer' = NoAnswer
      <4>1. PICK i \in 1 .. Len(tables[v]) + 1 :
              TablesBecome([tables EXCEPT ![v] = InsertAt(@, i, line)])
        BY <3>1 DEF OpenSocket
      <4>2. InsertAt(tables[v], i, line) \in Seq(Line)
        BY <1>1, <2>2, InsertAtIs DEF UidInv, UidTypeOK
      <4>3. TablesBecome([tables EXCEPT ![v] = InsertAt(tables[v], i, line)])
        BY <4>1
      <4> QED BY <1>1, <2>1, <2>2, <4>2, <4>3, TablesBecomeIs DEF TablesBecome
    <3>2. ASSUME NEW v \in TablesAsked, CloseSocket(v)
          PROVE  UidInv' /\ answer' = NoAnswer
      <4>1. PICK i \in DOMAIN tables[v] : TablesBecome([tables EXCEPT ![v] = RemoveAt(@, i)])
        BY <3>2 DEF CloseSocket
      <4>2. tables[v] \in Seq(Line)
        BY <1>1, <2>2 DEF UidInv, UidTypeOK
      <4>3. RemoveAt(tables[v], i) \in Seq(Line)
        BY <4>2, RemoveAtIs, LenProperties
      <4>4. TablesBecome([tables EXCEPT ![v] = RemoveAt(tables[v], i)])
        BY <4>1
      <4> QED BY <1>1, <2>1, <2>2, <4>3, <4>4, TablesBecomeIs DEF TablesBecome
    <3>3. ASSUME TimePasses
          PROVE  UidInv' /\ answer' = NoAnswer
      BY <1>1, <2>1, <3>3, TimePassesIs DEF TimePasses
    <3> QED BY <1>11, <3>1, <3>2, <3>3 DEF Kernel
  <2>4. AnswerIsRecent' /\ SettledAnswerIsOwner'
    BY <2>3, NoAnswerIs
  <2>5. session' \in SessionKind /\ last' \in Outcome /\ NothingLeaks'
    BY <1>1, <2>1 DEF Outcome, NothingLeaks, IInv
  <2> QED BY <1>2, <2>1, <2>3, <2>4, <2>5
<1>12. CASE UNCHANGED allVars
  <2>1. SoundEntry' = SoundEntry
    BY <1>12 DEF allVars, vars, SoundEntry, Owners
  <2>2. CacheSound'
    BY <1>12, <2>1 DEF allVars, ipVars, vars, CacheSound, IInv, Owners, TablesAsked
  <2>3. TypeOK'
    BY <1>12 DEF allVars, ipVars, vars, TypeOK, UidTypeOK, IInv
  <2>4. AnswerIsRecent' /\ SettledAnswerIsOwner' /\ NothingLeaks'
    BY <1>12 DEF allVars, ipVars, vars, IInv, AnswerIsRecent, SettledAnswerIsOwner, NothingLeaks, Owners
  <2> QED BY <2>2, <2>3, <2>4 DEF IInv
<1> QED BY <1>5, <1>6, <1>7, <1>8, <1>9, <1>10, <1>11, <1>12 DEF Next, HandleIp

LEMMA Invariance == Spec => []IInv
BY InitIInv, StepIInv, PTL DEF Spec

-----------------------------------------------------------------------------
\* Every variable keeps its type: no entry of the cache gets an owner who is not
\* a user, however entries are written over.
THEOREM TypeCorrect == Spec => []TypeOK
BY Invariance, PTL DEF IInv

\* The owner that get_uid returns did own a matching socket no longer than
\* UID_MAX_AGE ago, from whichever entry or table it comes.
THEOREM AnswerFollowsSockets == Spec => []AnswerIsRecent
BY Invariance, PTL DEF IInv

\* When the sockets have been the same for longer than UID_MAX_AGE, get_uid says
\* who owns one of them, and "not found" only if there is none.
THEOREM CacheIsForgotten == Spec => []SettledAnswerIsOwner
BY Invariance, PTL DEF IInv

\* Nothing of TCP or ICMP goes out without the right of an app that owns the
\* socket or did so lately, by whatever way the owner is found.
THEOREM RulesAreFollowed == Spec => []NothingLeaks
BY Invariance, PTL DEF IInv
=============================================================================
