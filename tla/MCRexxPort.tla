----------------------------- MODULE MCRexxPort -----------------------------
(* An instance of RexxPort for TLC: two scripts besides the hook.           *)
EXTENDS RexxPort

CONSTANTS s1, s2    \* scripts of the user

TwoScripts == {s1, s2}
=============================================================================
