----------------------------- MODULE NetworkSet -----------------------------
(***************************************************************************)
(* What the multi-network runtime promises, with no loop, counter or       *)
(* descriptor in it: every network of the set is a little machine of its   *)
(* own, one network changes at a time, the set is given up only when       *)
(* each of its networks is disabled, and a disabled network comes back     *)
(* only with a new set.  MultiNet implements this (docs/M7.md:5-12, 50).   *)
(***************************************************************************)
CONSTANT Net

VARIABLES phase,    \* "down", "starting", "serving", "exhausted", "stopped"
          members,  \* the networks of the set
          status    \* what each network is doing

vars == <<phase, members, status>>

Status == {"off", "up", "retry", "disabled"}
AllOff == [n \in Net |-> "off"]

TypeOK ==
  /\ phase \in {"down", "starting", "serving", "exhausted", "stopped"}
  /\ members \subseteq Net
  /\ status \in [Net -> Status]

Init == phase = "down" /\ members = {} /\ status = AllOff

Start ==
  /\ phase = "down"
  /\ phase' = "starting"
  /\ members' \in (SUBSET Net) \ {{}}
  /\ UNCHANGED status

Become(n, old, new) ==
  /\ n \in members /\ status[n] \in old
  /\ \E s \in new : status' = [status EXCEPT ![n] = s]
  /\ UNCHANGED <<phase, members>>

FirstTry(n) == phase = "starting" /\ Become(n, {"off"}, {"up", "retry"})

Started ==
  /\ phase = "starting"
  /\ \A n \in members : status[n] # "off"
  /\ phase' = "serving"
  /\ UNCHANGED <<members, status>>

Recover(n) == phase = "serving" /\ Become(n, {"retry"}, {"up"})
Lose(n)    == phase = "serving" /\ Become(n, {"up"}, {"retry"})
Disable(n) == phase = "serving" /\ Become(n, {"up"}, {"disabled"})

GiveUp ==
  /\ phase = "serving"
  /\ \A n \in members : status[n] = "disabled"
  /\ phase' = "exhausted" /\ status' = AllOff /\ members' = {}

(* A stop, a disconnect, a reload or a failed wait ends the set.            *)
TearDown ==
  /\ phase \in {"serving", "exhausted"}
  /\ phase' = "down" /\ status' = AllOff /\ members' = {}

Stop ==
  /\ phase \in {"down", "exhausted"}
  /\ phase' = "stopped"
  /\ UNCHANGED <<members, status>>

Next ==
  \/ Start \/ Started \/ GiveUp \/ TearDown \/ Stop
  \/ \E n \in Net : FirstTry(n) \/ Recover(n) \/ Lose(n) \/ Disable(n)

Spec == Init /\ [][Next]_vars
=============================================================================
