------------------------------ MODULE MCReceive ------------------------------
(* An instance of Receive for TLC: a queue of two events and lines of two   *)
(* bytes, so that the ring wraps, overflows, and lines are too long.        *)
EXTENDS Receive
=============================================================================
