------------------------------- MODULE MCFlow -------------------------------
(* Instances of Flow for TLC: three phases, of which the second is CI/CD    *)
(* and the last the review.  The senior is the only one with experience of  *)
(* everything; mid has none of CI/CD and much of reviews, and a recruit,    *)
(* like everyone who is hired, has none at all.                             *)
EXTENDS Flow

CONSTANTS a, b, parent, c1, c2, senior, mid, recruit

MCChildren == [t \in {parent} |-> {c1, c2}]
MCTeam == <<senior, mid>>
MCRecruits == <<recruit>>
MCExperience == [d \in {senior, mid, recruit} |-> [p \in Phases |->
  IF d = senior \/ (d = mid /\ p = Review) THEN "High"
  ELSE IF d = recruit \/ p = CICD THEN "Low" ELSE "Medium"]]
MCCaps == [q \in {} |-> 1]
ResearchCap == [q \in {1} |-> 1]
MCCost == [o \in {"hire", "cicd-slot"} |-> IF o = "hire" THEN 5 ELSE 3]
=============================================================================
