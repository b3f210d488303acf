------------------------------ MODULE MCReplay ------------------------------
(* Instances of Replay for TLC: as those of Flow, with a smaller backlog.   *)
EXTENDS Replay

CONSTANTS a, parent, c1, c2, senior, mid, recruit

MCChildren == [t \in {parent} |-> {c1, c2}]
MCTeam == <<senior, mid>>
MCRecruits == <<recruit>>
MCExperience == [d \in {senior, mid, recruit} |-> [p \in Phases |->
  IF d = senior \/ (d = mid /\ p = Review) THEN "High"
  ELSE IF d = recruit \/ p = CICD THEN "Low" ELSE "Medium"]]
MCCaps == [q \in {} |-> 1]
MCCost == [o \in {"hire", "cicd-slot"} |-> IF o = "hire" THEN 5 ELSE 3]
=============================================================================
