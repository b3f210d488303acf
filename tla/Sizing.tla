------------------------------- MODULE Sizing -------------------------------
(***************************************************************************)
(* The loop that decomposes all a policy would split before a sprint       *)
(* (decomposeEligible of batch/runner.go, decomposeEligibleTickets of      *)
(* api/handlers.go) over the sizing policies (engine/policies.go).         *)
(*                                                                         *)
(* Decompose seeds its random numbers with the simulation's seed and the   *)
(* first letter of the ticket's name.  All names of a simulation begin     *)
(* alike, and a child's name begins with its parent's, so every            *)
(* decomposition draws the same numbers: as many children, and the same    *)
(* ones of them with a better understanding.                               *)
(*                                                                         *)
(* The loop ends exactly if no line of descent in the backlog can be       *)
(* split for ever; the state is one such line, any child of each split.    *)
(* A size is how often it takes to halve an estimate, roughly, to come     *)
(* down to the limit of five days; a child's estimate is at most 0.72      *)
(* times its parent's.                                                     *)
(***************************************************************************)
EXTENDS Naturals

CONSTANTS
  Policies,   \* of "None", "DORAStrict", "TameFlowCognitive", "Hybrid"
  MaxSize     \* bound on the size of the first ticket

Low == 0
High == 2

VARIABLES policy, improves, ticket, pc
vars == <<policy, improves, ticket, pc>>

\* Two to four children; improves[i]: the draw for the i-th raises it a level.
Init ==
  /\ policy \in Policies
  /\ \E n \in 2..4 : improves \in [1..n -> BOOLEAN]
  /\ ticket \in [understanding : Low..High, size : 0..MaxSize]
  /\ pc = "scan"

ShouldDecompose(t) ==
  \/ policy = "DORAStrict" /\ t.size > 0
  \/ policy = "TameFlowCognitive" /\ t.understanding = Low
  \/ policy = "Hybrid" /\ t.size > 0 /\ t.understanding < High

Improved(u, i) == IF u < High /\ improves[i] THEN u + 1 ELSE u

\* The i-th child: smaller, and understood as well as its parent or better.
Child(t, i) ==
  [understanding : {Improved(t.understanding, i)},
   size : IF t.size = 0 THEN {0} ELSE 0..(t.size - 1)]

\* The scan of the backlog finds the ticket to split, or the loop ends.
Scan ==
  /\ pc = "scan"
  /\ pc' = IF ShouldDecompose(ticket) THEN "split" ELSE "done"
  /\ UNCHANGED <<policy, improves, ticket>>

\* TicketDecomposed, and the scan starts again.
Split ==
  /\ pc = "split"
  /\ \E i \in DOMAIN improves : ticket' \in Child(ticket, i)
  /\ pc' = "scan"
  /\ UNCHANGED <<policy, improves>>

Next == Scan \/ Split
Spec == Init /\ [][Next]_vars /\ WF_vars(Next)

\* batch/runner.go:252: the loop is "Idempotent; safe to call repeatedly", and
\* design.md:1164 leaves children that match to "subsequent sprints".  So it
\* ends, whatever the policy and the seed.
LoopEnds == <>(pc = "done")
=============================================================================
