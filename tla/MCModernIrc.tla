----------------------------- MODULE MCModernIrc -----------------------------
(* Servers for ModernIrc: sasl is named in the only line of a listing or    *)
(* not at all, and a CAP REQ is granted, or may be refused.                 *)
EXTENDS ModernIrc

Listed  == {<<"LS">>, <<"LS_sasl">>, <<"LS", "LS">>}
Grants  == {"ACK", "903", "904"}
Refuses == {"ACK", "NAK", "903", "904"}

(* The hypothesis of the theorems about the dialogue.                       *)
ASSUME OneLineAssumption == SaslInOneLine
=============================================================================
