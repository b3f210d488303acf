------------------------------ MODULE MCBatch -------------------------------
(* Instances of Batch for TLC, with the constants of MCFlow.                *)
EXTENDS Batch

CONSTANTS a, b, parent, c1, c2, one, two

MCChildren == [t \in {parent} |-> {c1, c2}]
MCTeam == <<one, two>>
MCRecruits == <<>>
MCExperience == [d \in {one, two} |-> [p \in Phases |-> "Medium"]]
MCCaps == [q \in {3} |-> 1]
MCCost == [o \in {"hire"} |-> 5]
=============================================================================
