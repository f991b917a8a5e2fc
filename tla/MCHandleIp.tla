----------------------------- MODULE MCHandleIp -----------------------------
(* Instances of HandleIp for TLC. *)
EXTENDS HandleIp

\* TCP with owners from the tables of both versions and from the connectivity
\* service, ICMP with owners from the tables, UDP with both.
MCLinks ==
  {[proto |-> "tcp", version |-> 4, q |-> FALSE], [proto |-> "tcp", version |-> 6, q |-> TRUE],
   [proto |-> "udp", version |-> 6, q |-> FALSE], [proto |-> "udp", version |-> 4, q |-> TRUE],
   [proto |-> "icmp", version |-> 4, q |-> FALSE], [proto |-> "icmp", version |-> 6, q |-> TRUE]}
=============================================================================
