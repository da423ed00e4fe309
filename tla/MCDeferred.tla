----------------------------- MODULE MCDeferred -----------------------------
(* Deferred callbacks with the values MCDeferred.cfg gives its constants. *)
EXTENDS Deferred
=============================================================================
