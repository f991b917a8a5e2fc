---------------------------- MODULE SessionLife ----------------------------
(***************************************************************************)
(* What the sessions of every protocol of the engine promise, whatever the *)
(* states they go through: a session owns one descriptor and owes the      *)
(* report of its traffic, and it is freed only when it is over, with the   *)
(* descriptor given back and the traffic reported.  It never goes back,    *)
(* and a new session for the same addresses begins only after that.        *)
(*                                                                         *)
(* UdpSession, IcmpSession and TcpSession each implement this module; the  *)
(* refinement mappings are at the end of those modules.  The record of a   *)
(* freed session says nothing of its descriptor and its traffic.  So the   *)
(* step that frees remembers whether either was lost with it, and such a   *)
(* session is mapped to the life "lost", which this module does not allow. *)
(***************************************************************************)

CONSTANT Lingers  \* whether a session that is over stays until it is freed

VARIABLES
  life,  \* absent, live, ending (doomed, not yet closed) or ended (lingering)
  fd,    \* the descriptor is open
  owes   \* there is traffic that account_usage has not been told of

vars == <<life, fd, owes>>

\* Not yet closed by the check.
Current == {"live", "ending"}

TypeOK ==
  /\ life \in {"absent", "live", "ending", "ended"}
  /\ fd \in BOOLEAN
  /\ owes \in BOOLEAN

Init == life = "absent" /\ ~fd /\ ~owes

\* A packet of the app opens a session; what is wrong with the packet or with
\* the socket may already doom it.
Begin ==
  /\ life = "absent"
  /\ life' \in Current
  /\ fd' = TRUE
  /\ owes' \in BOOLEAN

\* Traffic adds to what is owed, may doom the session, and may give the
\* descriptor back early; it never opens another one.
Serve ==
  /\ life \in Current
  /\ life' \in {life, "ending"}
  /\ fd' \in {fd, FALSE}
  /\ owes' \in {owes, TRUE}

\* Both sides are done after the descriptor was given back.
Finish ==
  /\ life \in Current /\ ~fd
  /\ life' = "ended"
  /\ UNCHANGED <<fd, owes>>

\* The check closes the descriptor and reports the traffic.
Retire ==
  /\ life \in Current
  /\ life' = "ended" /\ fd' = FALSE /\ owes' = FALSE

\* The check reports the traffic of a session that finished by itself.
Report ==
  /\ life = "ended"
  /\ owes' = FALSE
  /\ UNCHANGED <<life, fd>>

\* The check frees a session that lingers and has given its descriptor back, if
\* need be after a last report; one that need not linger it closes, reports and
\* frees in one step.
Free ==
  /\ IF Lingers THEN life = "ended" /\ ~fd ELSE life \in Current
  /\ life' = "absent" /\ fd' = FALSE /\ owes' = FALSE

Next == Begin \/ Serve \/ Finish \/ Retire \/ Report \/ Free

Spec == Init /\ [][Next]_vars
=============================================================================
