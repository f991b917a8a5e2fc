---------------------------- MODULE MCTcpSession ----------------------------
(***************************************************************************)
(* Packets of the app for TcpSession on small instances.  The app's first  *)
(* sequence number is the last but one word, so that its stream and the    *)
(* engine's wrap within two bytes.                                         *)
(***************************************************************************)
EXTENDS TcpSession

CONSTANTS
  Lengths,    \* payload lengths of data segments (bound)
  Windows,    \* scaled windows the app advertises (bound)
  AckSpan,    \* how far beyond its first number local_seq is acknowledged (bound)
  DataSpan,   \* how far beyond its first number the app's data starts (bound)
  SynLengths  \* payload lengths of a SYN (bound)

\* The app's first sequence number and the engine's.
AppISN == Modulus - 2
MCLocalISNs == {Modulus - 2}

Segments(flags, seqs, acks, lens, windows) ==
  [flags : flags, seq : seqs, ack : acks, len : lens, window : windows]

Acks == {Wrap(isn + d) : isn \in MCLocalISNs, d \in 0 .. AckSpan}
DataSeqs == {Wrap(AppISN + d) : d \in 1 .. DataSpan}
LargestWindow == CHOOSE w \in Windows : \A v \in Windows : v <= w

Syns  == Segments({{"SYN"}}, {AppISN}, {0}, SynLengths, {LargestWindow})
Datas == Segments({{"ACK"}}, DataSeqs, Acks, Lengths, {LargestWindow})
PureAcks == Segments({{"ACK"}}, {AppISN}, Acks, {0}, Windows)
Fins  == Segments({{"FIN", "ACK"}}, {Wrap(AppISN + 1)}, Acks, {0, 1}, {LargestWindow})
Odd   == Segments({{"RST"}, {"URG"}, {}}, {AppISN}, {0}, {0}, {LargestWindow})

MCPackets == Syns \union Datas \union PureAcks \union Fins \union Odd

ASSUME WindowsFitHalf
ASSUME StreamFitsHalf
=============================================================================
