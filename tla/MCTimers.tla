------------------------------ MODULE MCTimers ------------------------------
(* Timers with the values MCTimers.cfg gives its constants. *)
EXTENDS Timers
=============================================================================
