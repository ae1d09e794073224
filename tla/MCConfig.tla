------------------------------ MODULE MCConfig ------------------------------
(* An instance of Config for TLC: lines that set, unset and misspell keys   *)
(* of each kind, in and out of sections; two sections and one channel at    *)
(* most, so that each limit is passed.                                      *)
EXTENDS Config

SomeText  == {"", "a", "b", "7000", "8000", "AMBNC", "PLAIN", "UPSTREAM", "OFF"}
Numeral   == {"7000", "8000"}
Started   ==
  {[host |-> "a", port |-> "8000", nick |-> "a",
    user |-> "b", pass |-> "a", owner |-> "a"],
   [host |-> "", port |-> "8000", nick |-> "a",
    user |-> "", pass |-> "", owner |-> ""]}
SomeLines ==
  {[key |-> Section, text |-> "a"],
   [key |-> "HOST", text |-> "b"],
   [key |-> "HOST", text |-> ""],
   [key |-> "PORT", text |-> "7000"],
   [key |-> "PORT", text |-> "a"],
   [key |-> "UPSTREAM", text |-> "AMBNC"],
   [key |-> "UPSTREAM", text |-> "OFF"],
   [key |-> "TLS", text |-> "UPSTREAM"],
   [key |-> "SASL", text |-> "PLAIN"],
   [key |-> "CHANNEL", text |-> "a"],
   [key |-> "CHANNEL", text |-> "b"]}
=============================================================================
