--------------------------- MODULE MCCrisisLesson ---------------------------
(* Instances of CrisisLesson for TLC: a completion gives some of the buffer *)
(* back or takes half of it.                                                *)
EXTENDS CrisisLesson

MCVariances == {-40, 50}
=============================================================================
