---------------------------- MODULE MCCoTenancy ----------------------------
(* CoTenancy on small sets of API clients beside the terminal interface. *)
EXTENDS CoTenancy

CONSTANTS c1, c2, t

OneClient == {c1}
TwoClients == {c1, c2}
Writers1 == {c1, t}
Writers2 == {c1, c2, t}
OnlyTui == {t}

Moves == {"start", "tick", "policy"}
All == {"start", "tick", "policy", "invest", "decompose"}
=============================================================================
