--------------------------- MODULE SeqArithProofs ---------------------------
(***************************************************************************)
(* What MCSeqArith checks on words of 4 bits holds for words of any width, *)
(* those of 32 bits of the engine included.                                *)
(***************************************************************************)
EXTENDS MCSeqArith, NumberFacts

\* There are at least four words.
LEMMA ModulusType == Modulus \in Nat \ {0} /\ Modulus = 2 * Half + 2
BY HalfAssumption DEF Modulus

\* Wrapping adds or takes away at most one Modulus if no more is needed.
LEMMA WrapNear ==
  ASSUME NEW n \in Int, 0 - Modulus <= n, n < 2 * Modulus
  PROVE  Wrap(n) = IF n < 0 THEN n + Modulus ELSE IF n < Modulus THEN n ELSE n - Modulus
BY ModulusType, ModNear DEF Wrap

\* The distance between two words.
LEMMA AheadIs ==
  ASSUME NEW x \in Word, NEW y \in Word
  PROVE  Ahead(x, y) = IF x <= y THEN y - x ELSE y - x + Modulus
<1>1. x \in Int /\ y \in Int /\ 0 - Modulus <= y - x /\ y - x < Modulus
  BY ModulusType DEF Word
<1>2. y - x < 2 * Modulus
  BY <1>1, ModulusType
<1> QED BY <1>1, <1>2, WrapNear DEF Ahead

-----------------------------------------------------------------------------
\* compare_u32 orders any two words that are less than Half apart.
LEMMA CompareOrders ==
  ASSUME NEW x \in Word, NEW y \in Word
  PROVE  /\ Ahead(x, y) \in 1 .. Half - 1 => Compare(x, y) = -1 /\ Compare(y, x) = 1
         /\ Compare(x, y) = 0 <=> x = y
         /\ Compare(x, y) = -1 => Ahead(x, y) \in 1 .. Half + 1
<1>1. x \in Int /\ y \in Int /\ 0 <= x /\ x < Modulus /\ 0 <= y /\ y < Modulus
  BY ModulusType DEF Word
<1>2. Half \in Nat \ {0}
  BY HalfAssumption
<1> QED BY <1>1, <1>2, AheadIs, ModulusType DEF Compare

\* A word before another one of the same window is nearer to its start.
LEMMA CompareFollowsWindow ==
  ASSUME NEW x \in Word, NEW y \in Word, NEW z \in Word,
         Ahead(x, y) < Half, Ahead(x, z) < Half, Compare(y, z) = -1
  PROVE  Ahead(x, y) < Ahead(x, z)
<1>1. /\ x \in Int /\ y \in Int /\ z \in Int
      /\ 0 <= x /\ x < Modulus /\ 0 <= y /\ y < Modulus /\ 0 <= z /\ z < Modulus
  BY ModulusType DEF Word
<1>2. Half \in Nat \ {0}
  BY HalfAssumption
<1>3. Ahead(x, y) = (IF x <= y THEN y - x ELSE y - x + Modulus)
      /\ Ahead(x, z) = (IF x <= z THEN z - x ELSE z - x + Modulus)
  BY AheadIs
<1>4. (y < z /\ z - y < Half) \/ (y > z /\ y - z > Half)
  BY <1>1, <1>2 DEF Compare
<1> QED BY <1>1, <1>2, <1>3, <1>4, ModulusType

\* What get_send_window allows fits the window, as long as its sum of what is
\* in flight and the headers does not wrap.
LEMMA SendWindowFits ==
  ASSUME NEW local \in Word, NEW acked \in Word, NEW unconfirmed \in Nat, NEW window \in Nat,
         Ahead(acked, local) + WrapWindow + (unconfirmed + 1) * Header < Modulus,
         SendWindow(local, acked, unconfirmed, window) > 0
  PROVE  Ahead(acked, local) + SendWindow(local, acked, unconfirmed, window)
           + (unconfirmed + 1) * Header <= window
<1> DEFINE h == (unconfirmed + 1) * Header
           d == Ahead(acked, local)
           inflight == IF acked <= local THEN local - acked
                       ELSE Wrap(WrapWindow + local - acked)
           behind == Wrap(inflight + h)
<1>1. h \in Nat /\ WrapWindow \in Nat
  BY WindowAssumption
<1>2. /\ local \in Int /\ acked \in Int
      /\ 0 <= local /\ local < Modulus /\ 0 <= acked /\ acked < Modulus
  BY ModulusType DEF Word
<1>3. d = (IF acked <= local THEN local - acked ELSE local - acked + Modulus)
  BY AheadIs
<1>4. SendWindow(local, acked, unconfirmed, window)
        = IF behind < window THEN window - behind ELSE 0
  BY DEF SendWindow
<1>5. d + WrapWindow + h < Modulus
  OBVIOUS
<1> HIDE DEF h, d, behind
<1>6. inflight \in Nat /\ d <= inflight /\ inflight + h < Modulus
  <2>1. CASE acked <= local
    BY <1>1, <1>2, <1>3, <1>5, <2>1, ModulusType
  <2>2. CASE acked > local
    <3> DEFINE n == WrapWindow + local - acked
    <3>1. n \in Int /\ n = WrapWindow + d - Modulus /\ n < 0 /\ 0 - Modulus <= n
      BY <1>1, <1>2, <1>3, <1>5, <2>2, ModulusType
    <3>2. inflight = WrapWindow + d
      <4>1. n < 2 * Modulus
        BY <3>1, ModulusType
      <4> HIDE DEF n
      <4>2. Wrap(n) = n + Modulus
        BY <3>1, <4>1, WrapNear
      <4>3. inflight = Wrap(n)
        BY <1>2, <2>2 DEF n
      <4> QED BY <1>1, <1>2, <1>3, <2>2, <3>1, <4>2, <4>3, ModulusType
    <3> QED BY <1>1, <1>2, <1>3, <1>5, <2>2, <3>2, ModulusType
  <2> QED BY <1>2, <2>1, <2>2
<1> HIDE DEF inflight
<1>7. behind = inflight + h
  <2>1. inflight + h \in Int /\ 0 - Modulus <= inflight + h /\ inflight + h < 2 * Modulus
    BY <1>1, <1>6, ModulusType
  <2> QED BY <1>1, <1>6, <2>1, WrapNear DEF behind
<1>8. behind < window
  BY <1>4
<1>9. d + (window - behind) + h <= window
  BY <1>1, <1>2, <1>3, <1>6, <1>7, <1>8, ModulusType
<1> QED BY <1>4, <1>8, <1>9 DEF h, d

-----------------------------------------------------------------------------
\* The registers hold words.
Words == a \in Word /\ b \in Word /\ c \in Word

LEMMA WordsStay == Spec => []Words
<1>1. Init => Words
  BY ModulusType DEF Init, Words, Word
<1>2. \A w \in Word : Wrap(w + 1) \in Word
  <2>1. \A w \in Word : /\ w + 1 \in Int /\ 0 <= w + 1 /\ w + 1 <= Modulus
    BY ModulusType DEF Word
  <2> QED BY <2>1, WrapNear, ModulusType DEF Word
<1>3. Words /\ [Next]_vars => Words'
  BY <1>2 DEF Words, Next, StepA, StepB, StepC, vars
<1> QED BY <1>1, <1>3, PTL DEF Spec

\* compare_u32 orders sequence numbers by their distance around the circle,
\* at every wrap of a word of any width.
THEOREM ComparisonFollowsDistance == Spec => []CompareFollowsDistance
<1>1. Words => CompareFollowsDistance
  BY CompareOrders DEF Words, CompareFollowsDistance
<1> QED BY <1>1, WordsStay, PTL

\* compare_u32 is a strict order inside every window shorter than Half, so that
\* the queue that queue_tcp sorts with it can be sorted.
THEOREM ComparisonIsTransitive == Spec => []CompareIsTransitiveInWindow
<1>1. Words => CompareIsTransitiveInWindow
  BY CompareFollowsWindow DEF Words, CompareIsTransitiveInWindow
<1> QED BY <1>1, WordsStay, PTL

\* Writing as many bytes as get_send_window allows never exceeds the window of
\* the app, headers included, at any wrap of local_seq past acked.
THEOREM WindowIsNeverOvershot == Spec => []NeverOvershoots
<1>1. ASSUME Words, NEW unconfirmed \in 0 .. 1, NEW window \in 0 .. MaxWindow,
             Ahead(b, a) + WrapWindow + (unconfirmed + 1) * Header < Modulus,
             SendWindow(a, b, unconfirmed, window) > 0
      PROVE  Ahead(b, a) + SendWindow(a, b, unconfirmed, window)
               + (unconfirmed + 1) * Header <= window
  BY <1>1, SendWindowFits, MaxWindowAssumption DEF Words
<1>2. Words => NeverOvershoots
  BY <1>1 DEF NeverOvershoots
<1> QED BY <1>2, WordsStay, PTL
=============================================================================
