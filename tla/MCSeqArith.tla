----------------------------- MODULE MCSeqArith -----------------------------
(***************************************************************************)
(* SeqArith on every triple of words: three registers that step around     *)
(* the circle independently, and the properties of the two operators that  *)
(* the TCP engine relies on.                                               *)
(***************************************************************************)
EXTENDS SeqArith, FiniteSets

CONSTANT MaxWindow   \* largest scaled client window enumerated (bound)

ASSUME MaxWindowAssumption == MaxWindow \in Nat

VARIABLES a, b, c

vars == <<a, b, c>>

Init == a = 0 /\ b = 0 /\ c = 0

StepA == a' = Wrap(a + 1) /\ UNCHANGED <<b, c>>
StepB == b' = Wrap(b + 1) /\ UNCHANGED <<a, c>>
StepC == c' = Wrap(c + 1) /\ UNCHANGED <<a, b>>

Next == StepA \/ StepB \/ StepC

Spec == Init /\ [][Next]_vars

-----------------------------------------------------------------------------
\* compare_u32 orders two numbers that lie less than Half apart by their
\* distance around the circle, whether or not the pair straddles zero.
CompareFollowsDistance ==
  /\ Ahead(a, b) \in 1 .. Half - 1 => Compare(a, b) = -1 /\ Compare(b, a) = 1
  /\ Compare(a, b) = 0 <=> a = b

\* Inside any window shorter than Half compare_u32 is a strict order, which
\* the sorted insertion of queue_tcp (tcp.c:987-992) needs: it walks the list
\* with it and stops at the first segment that is not before the new one.
CompareIsTransitiveInWindow ==
  /\ Ahead(a, b) < Half
  /\ Ahead(a, c) < Half
  /\ Compare(b, c) = -1
  => Ahead(a, b) < Ahead(a, c)

\* Writing as many bytes as get_send_window allows never leaves more bytes
\* plus headers in flight than the client's window, at any wrap of local_seq
\* past acked (tcp.c:169-183), as long as the sum itself does not wrap.
NeverOvershoots ==
  \A unconfirmed \in 0 .. 1, window \in 0 .. MaxWindow :
    LET room == SendWindow(a, b, unconfirmed, window) IN
    /\ Ahead(b, a) + WrapWindow + (unconfirmed + 1) * Header < Modulus
    /\ room > 0
    => Ahead(b, a) + room + (unconfirmed + 1) * Header <= window
=============================================================================
