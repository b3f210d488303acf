---------------------------- MODULE MCConstraint ----------------------------
(* Instances of Constraint for TLC.                                         *)
EXTENDS Constraint, TLC

CONSTANTS t1, t2, t3, t4

Two == {t1, t2}
Three == {t1, t2, t3}
Four == {t1, t2, t3, t4}

\* A tracker that is followed is updated several times a day.
Days == [d \in {"handlers", "runner", "followed"} |-> CASE d = "handlers" -> 5 [] d = "runner" -> 6 [] d = "followed" -> 3]
SixDays == [d \in {"handlers"} |-> 6]

Symmetry == Permutations(Tickets)
=============================================================================
