------------------------------ MODULE MCStream ------------------------------
(* A two-byte header, a buffer that starts with three bytes, payloads of    *)
(* one byte, which the first buffer holds, and of three, which it does not. *)
EXTENDS Stream
Payloads == {1, 3}
=============================================================================
