------------------------------ MODULE SeqArith ------------------------------
(***************************************************************************)
(* The arithmetic on TCP sequence numbers that the native engine does on   *)
(* uint32_t values: compare_u32 (util.c) and get_send_window (tcp.c).      *)
(*                                                                         *)
(* The width is a parameter.  Half stands for 0x7FFFFFFF, so Modulus       *)
(* stands for 2^32; WrapWindow stands for the literal 0x10000 and Header   *)
(* for the literal 40 of get_send_window.                                  *)
(***************************************************************************)
EXTENDS Integers

CONSTANTS
  Half,        \* 0x7FFFFFFF, the threshold of compare_u32
  WrapWindow,  \* 0x10000, what get_send_window adds when acked > local_seq
  Header       \* 40, the header size get_send_window keeps free per segment

ASSUME HalfAssumption == Half \in Nat \ {0}
ASSUME WindowAssumption == WrapWindow \in Nat /\ Header \in Nat

Modulus == 2 * (Half + 1)

\* The values of a uint32_t.
Word == 0 .. Modulus - 1

\* What is left of an integer stored in a uint32_t.
Wrap(n) == n % Modulus

-----------------------------------------------------------------------------
\* Comparison without the wrap-around alternative.
CompareLinear(s1, s2) ==
  IF s1 = s2 THEN 0 ELSE IF s1 < s2 THEN -1 ELSE 1

\* compare_u32: -1 when s1 precedes s2, 0 when equal, 1 otherwise.
Compare(s1, s2) ==
  IF s1 = s2 THEN 0
  ELSE IF \/ s1 < s2 /\ s2 - s1 < Half
          \/ s1 > s2 /\ s1 - s2 > Half
       THEN -1 ELSE 1

\* The header reserve left out of the bytes already in flight.
SendWindowNoWrap(local_seq, acked, unconfirmed, send_window) ==
  LET behind == Wrap((local_seq - acked) + (unconfirmed + 1) * Header)
  IN  IF acked > local_seq THEN send_window
      ELSE IF behind < send_window THEN send_window - behind ELSE 0

\* get_send_window: how many bytes may still be written to the tun device.
SendWindow(local_seq, acked, unconfirmed, send_window) ==
  LET inflight == IF acked <= local_seq
                  THEN local_seq - acked
                  ELSE Wrap(WrapWindow + local_seq - acked)
      behind   == Wrap(inflight + (unconfirmed + 1) * Header)
  IN  IF behind < send_window THEN send_window - behind ELSE 0

-----------------------------------------------------------------------------
\* How far sequence number s2 lies ahead of s1 on the circle of words.
Ahead(s1, s2) == Wrap(s2 - s1)
=============================================================================
