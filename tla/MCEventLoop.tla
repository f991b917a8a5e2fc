---------------------------- MODULE MCEventLoop ----------------------------
(* The instance of EventLoop for TLC. *)
EXTENDS EventLoop

\* Of the timeouts it matters which of two sessions comes first, and whether the
\* scale makes a difference.
MCTimeouts == [icmp |-> {1}, udp |-> {3}, tcp |-> {1, 3}]

MCKeepTimeout == [udp |-> 0, tcp |-> 1]
=============================================================================
