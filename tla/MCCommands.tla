----------------------------- MODULE MCCommands -----------------------------
(* An instance of Commands for TLC: answers of one and two members and      *)
(* every answer that differs from one of them in one token; with a header   *)
(* line the answers of two members just fill the buffer.                    *)
EXTENDS Commands, SequencesExt

One == {<<"{", k, ":", "short", "}">> : k \in {"text", "short"}}
Two == {<<"{", k, ":", "short", ",", l, ":", "short", "}">> :
          k \in {"text", "short"}, l \in {"text", "short"}}

Base    == {<<"200", "blank">> \o b : b \in One \cup Two}
Changed == UNION {{[a EXCEPT ![j] = t] : j \in DOMAIN a, t \in Token} :
                    a \in Base}
Resized == UNION {{RemoveAt(a, j) : j \in DOMAIN a}
                    \cup {Append(a, t) : t \in Token} : a \in Base}

SomeAnswers ==
  UNION {Changed, Resized,
         {<<"200", "header", "blank">> \o b : b \in Two},
         {<<"200", "blank", "version">>, <<"200", "blank", "version", "}">>}}
=============================================================================
