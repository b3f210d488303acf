------------------------------- MODULE Office -------------------------------
(***************************************************************************)
(* The office animation (internal/office): what each animation event makes *)
(* of an office, a function from developers to their animations, and the   *)
(* two ways the events are derived from a simulation: after each change in *)
(* the terminal interface (updateDeveloperAnimationStates) and after each  *)
(* tick of the API (deriveOfficeEvents).                                   *)
(*                                                                         *)
(* Of an animation are kept its state, how many frames its walk can still  *)
(* take, and how many its "Late!" bubble still shows.  Positions, faces    *)
(* and drinks decide nothing and are left out.  A developer's job is none, *)
(* fresh (within its estimate) or overdue (ActualDays > EstimatedDays).    *)
(***************************************************************************)
EXTENDS Naturals

CONSTANTS
  NumDevs,        \* developers, in the order of the simulation
  WalkFrames,     \* frames a walk takes at most (MovementDuration)
  BubbleFrames    \* frames a bubble shows (10 in the code)

ASSUME OfficeAssumption == {NumDevs, WalkFrames, BubbleFrames} \subseteq Nat \ {0}

Devs == 1..NumDevs
Jobs == {"none", "fresh", "overdue"}
Walking == {"toConference", "toCubicle"}
Animation ==
  [at : {"idle", "conference", "working", "frustrated"} \cup Walking,
   walk : 0..WalkFrames, bubble : 0..BubbleFrames]

NewOfficeState == [d \in Devs |-> [at |-> "idle", walk |-> 0, bubble |-> 0]]

-----------------------------------------------------------------------------
(* applyOfficeEvent, case by case *)

StartMoving(o, d, to) == [o EXCEPT ![d].at = to, ![d].walk = WalkFrames]
SetState(o, d, s) == [o EXCEPT ![d].at = s, ![d].walk = 0]

DevAssignedToTicket(o, d) == StartMoving(o, d, "toCubicle")
DevStartedMovingToConference(o, d) == StartMoving(o, d, "toConference")
DevStartedWorking(o, d) == SetState(o, d, "working")
DevCompletedTicket(o, d) == SetState(o, d, "idle")
DevEnteredConference(o, d) == SetState(o, d, "conference")

\* BecomeFrustrated shows the bubble.
DevBecameFrustrated(o, d) ==
  [SetState(o, d, "frustrated") EXCEPT ![d].bubble = BubbleFrames]

BubblesExpired(o) == [d \in Devs |-> [o[d] EXCEPT !.bubble = 0]]

AllEnterConference(o) ==
  [d \in Devs |-> [o[d] EXCEPT !.at = "conference", !.walk = 0]]

IsActive(a) == a.at \in {"working", "frustrated"}
Walks(a) == a.at \in Walking

\* Mutation: only the way to the conference room has an end.
ArriveInConference(a) ==
  [a EXCEPT !.walk = 0,
            !.at = IF a.at = "toConference" THEN "conference" ELSE a.at]

\* AdvanceMovement: a walk goes on or, its time being over, arrives.
Arrive(a) ==
  [a EXCEPT !.walk = 0,
            !.at = IF a.at = "toConference" THEN "conference" ELSE "working"]

\* AnimationFrameAdvanced: the walkers among those arrived have used their
\* time up; frames may come late, so a walk may take fewer of them than
\* WalkFrames.  Bubbles run only while their developer is at work.
AnimationFrame(o, arrived) ==
  [d \in Devs |->
     IF Walks(o[d])
       THEN IF d \in arrived THEN Arrive(o[d]) ELSE [o[d] EXCEPT !.walk = @ - 1]
     ELSE IF IsActive(o[d]) /\ o[d].bubble > 0
       THEN [o[d] EXCEPT !.bubble = @ - 1]
     ELSE o[d]]

MayArrive(o) ==
  {A \in SUBSET {d \in Devs : Walks(o[d])} :
     \A d \in Devs : Walks(o[d]) /\ o[d].walk <= 1 => d \in A}

-----------------------------------------------------------------------------
(* From a simulation to the events *)

ShouldBecomeFrustrated(a, job) == a.at # "frustrated" /\ job = "overdue"

\* Mutation: developers in the conference room are taken for busy.
ShouldStartWorkingAtDesk(a) == a.at = "idle"

ShouldStartWorking(a) == ~IsActive(a) /\ ~Walks(a)

\* updateDeveloperAnimationStates, for one developer; each only touches their
\* own animation.
Updated(o, d, job) ==
  IF job = "none"
    THEN IF IsActive(o[d]) THEN DevCompletedTicket(o, d) ELSE o
  ELSE IF ShouldBecomeFrustrated(o[d], job) THEN DevBecameFrustrated(o, d)
  ELSE IF ShouldStartWorking(o[d]) THEN DevStartedWorking(o, d)
  ELSE o

UpdateDeveloperAnimationStates(o, jobs) ==
  [d \in Devs |-> Updated(o, d, jobs[d])[d]]

-----------------------------------------------------------------------------
(* The office the API keeps in the registry, of which only the states count *)

Picture(o) == [d \in Devs |-> o[d].at]
InConference == [d \in Devs |-> "conference"]

\* deriveOfficeEvents, for one developer.  One who was idle and has been given
\* a ticket from a queue gets no event unless the ticket is overdue.
Derived(at, before, after) ==
  CASE after = "overdue" -> "frustrated"
    [] after = "none" /\ before # "none" -> "idle"
    [] OTHER -> at

\* handleTick, with the jobs before and after the tick.
DeriveOfficeEvents(p, before, after, ended) ==
  IF ended THEN InConference
  ELSE [d \in Devs |-> Derived(p[d], before[d], after[d])]

\* handleAssignTicket: who is assigned is at work at once.
AssignedByRequest(p, d) == [p EXCEPT ![d] = "working"]
=============================================================================
