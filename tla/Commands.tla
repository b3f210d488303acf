------------------------------ MODULE Commands ------------------------------
(***************************************************************************)
(* What one command does to a simulation, as the block of events the       *)
(* engine emits for it (engine/engine.go): which commands the state        *)
(* allows, and the blocks each may produce.  The state is the history of   *)
(* events applied so far.  The tail of a StartSprint (triage, commitment)  *)
(* and of a Tick (work, hand-offs, assignments, incidents) is abstracted   *)
(* to up to MaxWork events of kind "Work".                                 *)
(***************************************************************************)
EXTENDS Naturals, Sequences, FiniteSets

CONSTANTS
  SprintLength,   \* ticks in a sprint
  MaxWork         \* bound on the "Work" events of one block

ASSUME BlockAssumption == SprintLength \in Nat \ {0} /\ MaxWork \in Nat

EventKinds == {"SimulationCreated", "SprintStarted", "SprintEnded", "Ticked",
               "PolicyChanged", "TicketAssigned", "TicketDecomposed",
               "InvestmentApplied", "Work"}

Requests == {"create", "start", "tick", "policy", "assign", "decompose",
             "invest"}

Work(n) == [i \in 1..n |-> "Work"]

Positions(h, kind) == {i \in 1..Len(h) : h[i].kind = kind}

\* CurrentSprintOption is set: a start that no end follows.
SprintActive(h) ==
  \E i \in Positions(h, "SprintStarted") :
    \A j \in Positions(h, "SprintEnded") : j < i

\* A sprint is running and the ticks since its start, plus the one being
\* emitted, reach its EndDay.
SprintEnds(h) ==
  \E i \in Positions(h, "SprintStarted") :
    /\ \A j \in Positions(h, "SprintEnded") : j < i
    /\ Cardinality({k \in Positions(h, "Ticked") : k > i}) + 1 >= SprintLength

\* Between sprints, once a first sprint has run (IsInvestmentWindowOpen).
WindowOpen(h) == ~SprintActive(h) /\ Positions(h, "SprintStarted") # {}

\* Mutation: the handlers check nothing but that the simulation exists.
AllowedOnceCreated(r, h) == (r = "create") <=> (h = <<>>)

\* The requests whose precondition the handler checks on the state it read.
Allowed(r, h) ==
  CASE r = "create" -> h = <<>>
    [] r = "start"  -> h # <<>> /\ ~SprintActive(h)
    [] r = "tick"   -> h # <<>> /\ SprintActive(h)
    [] r = "invest" -> h # <<>> /\ WindowOpen(h)
    [] OTHER        -> h # <<>>

\* CreateSimulation: the creation, then the team and the backlog.
CreateBlocks == {<<"SimulationCreated">> \o Work(n) : n \in 0..MaxWork}

\* StartSprint: the start, then triage and commitment.
StartBlocks == {<<"SprintStarted">> \o Work(n) : n \in 0..MaxWork}

\* Tick: the day, its work, and the end of a sprint whose last day it is.
TickBlocks(h) ==
  {<<"Ticked">> \o Work(n) \o
     (IF SprintEnds(h) THEN <<"SprintEnded">> ELSE <<>>) : n \in 0..MaxWork}

\* The blocks of events request r may emit from state h.
Blocks(r, h) ==
  CASE r = "create" -> CreateBlocks
    [] r = "start"  -> StartBlocks
    [] r = "tick"   -> TickBlocks(h)
    [] r = "policy"    -> {<<"PolicyChanged">>}
    [] r = "assign"    -> {<<"TicketAssigned">>}
    [] r = "decompose" -> {<<"TicketDecomposed">>}
    [] r = "invest"    -> {<<"InvestmentApplied">>}
=============================================================================
