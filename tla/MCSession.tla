----------------------------- MODULE MCSession -----------------------------
(* Instances of Session for TLC: two descriptors, so that a second          *)
(* connection would be seen, and a delay cap that, like 30, is not a power   *)
(* of two.                                                                  *)
EXTENDS Session

CONSTANTS f1, f2,       \* descriptors
          n1, n2        \* nicks

TwoFds     == {f1, f2}
OneNick    == {n1}
TwoNicks   == {n1, n2}
AllClients == Command
=============================================================================
