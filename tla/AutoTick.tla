------------------------------ MODULE AutoTick ------------------------------
(***************************************************************************)
(* The timer that drives a simulation in the terminal interface            *)
(* (tui/app.go, engine mode): which messages arm it, what its message does *)
(* when it fires, and how pausing, views, sprints and another writer of    *)
(* the stream bear on it.                                                  *)
(***************************************************************************)
EXTENDS Naturals

CONSTANTS
  SprintLength,   \* ticks in a sprint
  MaxTimers       \* bound: no key arms a timer beyond this many (model only)

ASSUME AutoTickAssumption == SprintLength \in Nat \ {0} /\ MaxTimers \in Nat

VARIABLES
  timers,     \* tickCmd timers pending
  paused,
  view,
  left,       \* ticks the sprint still has to run, 0 when there is none
  wrote,      \* this interface has appended to the stream
  behind,     \* another writer has appended what is not yet handled here
  readOnly    \* coTenantWriteObserved

vars == <<timers, paused, view, left, wrote, behind, readOnly>>

Views == {"planning", "execution", "metrics", "comparison"}

NextView == [planning |-> "execution", execution |-> "metrics",
             metrics |-> "comparison", comparison |-> "planning"]

TypeOK ==
  /\ timers \in Nat /\ left \in 0..SprintLength /\ view \in Views
  /\ paused \in BOOLEAN /\ wrote \in BOOLEAN /\ behind \in BOOLEAN
  /\ readOnly \in BOOLEAN

Init ==
  /\ timers = 0 /\ paused = TRUE /\ view = "planning" /\ left = 0
  /\ wrote = FALSE /\ behind = FALSE /\ readOnly = FALSE

Arm == timers' = timers + 1

-----------------------------------------------------------------------------
(* Keys *)

Tab == /\ view' = NextView[view]
       /\ UNCHANGED <<timers, paused, left, wrote, behind, readOnly>>

Space ==
  /\ timers < MaxTimers
  /\ paused' = ~paused
  /\ IF paused THEN Arm ELSE UNCHANGED timers
  /\ UNCHANGED <<view, left, wrote, behind, readOnly>>

StartSprint ==
  /\ timers < MaxTimers
  /\ ~readOnly /\ view = "planning" /\ left = 0 /\ ~behind
  /\ left' = SprintLength
  /\ view' = "execution" /\ paused' = FALSE /\ wrote' = TRUE
  /\ Arm
  /\ UNCHANGED <<behind, readOnly>>

-----------------------------------------------------------------------------
(* tickMsg: the timer that fired is always replaced *)

\* Mutation: the handler returns without a new timer.
RearmForgotten == timers >= 1 /\ timers' = timers - 1

Rearm == timers >= 1 /\ UNCHANGED timers

Ticks == ~readOnly /\ ~paused /\ view = "execution"

FireIdle ==
  /\ Rearm
  /\ ~Ticks
  /\ UNCHANGED <<paused, view, left, wrote, behind, readOnly>>

FireConflict ==
  /\ Rearm
  /\ Ticks /\ behind
  /\ UNCHANGED <<paused, view, left, wrote, behind, readOnly>>

\* Mutation: ticks are counted down whether or not a sprint is running.
FireTickBlindly ==
  /\ Rearm
  /\ Ticks /\ ~behind
  /\ left' = left - 1
  /\ paused' = (left' = 0)
  /\ wrote' = TRUE
  /\ UNCHANGED <<view, behind, readOnly>>

\* Mutation: the last tick of a sprint does not end it.
FireTickNeverEnds ==
  /\ Rearm
  /\ Ticks /\ ~behind
  /\ left' = IF left > 1 THEN left - 1 ELSE left
  /\ paused' = (left' = 0)
  /\ wrote' = TRUE
  /\ UNCHANGED <<view, behind, readOnly>>

\* A tick is emitted with or without a sprint; none running afterwards pauses.
FireTick ==
  /\ Rearm
  /\ Ticks /\ ~behind
  /\ left' = IF left > 0 THEN left - 1 ELSE 0
  /\ paused' = (left' = 0)
  /\ wrote' = TRUE
  /\ UNCHANGED <<view, behind, readOnly>>

Fire == FireIdle \/ FireConflict \/ FireTick

-----------------------------------------------------------------------------
(* Another writer; one that comes second is refused by the store *)

OtherWrites ==
  /\ ~wrote
  /\ behind' = TRUE
  /\ UNCHANGED <<timers, paused, view, left, wrote, readOnly>>

\* eventMsg with an event of the other writer.
HandleStarted ==
  /\ left' = SprintLength /\ paused' = TRUE /\ view' = "execution"

HandleEnded == left' = 0 /\ paused' = TRUE /\ UNCHANGED view

HandleOther == UNCHANGED <<left, paused, view>>

HandleEvent ==
  /\ behind
  /\ readOnly' = TRUE
  /\ behind' \in BOOLEAN
  /\ HandleStarted \/ HandleEnded \/ HandleOther
  /\ UNCHANGED <<timers, wrote>>

Next == \/ Tab \/ Space \/ StartSprint \/ Fire \/ OtherWrites \/ HandleEvent

Spec == Init /\ [][Next]_vars

\* A timer that is pending fires.
FairSpec == Spec /\ WF_vars(FireTick)

-----------------------------------------------------------------------------
(* Properties *)

\* An unpaused interface always has a timer pending: neither a conflict nor a
\* read-only period lets the chain of timers die.
RunningHasTimer == ~paused => timers >= 1

\* A sprint the interface runs is over, unless its operator pauses, looks at
\* another view, or another writer steps in.
SprintRunsOut ==
  wrote /\ left > 0 ~> left = 0 \/ paused \/ view # "execution"

\* Pausing stops the simulation's tick timer and resuming resumes it (UC33),
\* so there is never a second one, which would tick twice per interval.
OneTimer == timers <= 1
=============================================================================
