-------------------------------- MODULE Batch -------------------------------
(***************************************************************************)
(* The unattended drivers of the ticket flow: a batch run                  *)
(* (batch/runner.go, runOne) and the API's comparison (api/handlers.go),   *)
(* which decompose what the policy would before each sprint, and the       *)
(* comparison of the terminal interface (tui/app.go), which decomposes     *)
(* when it hands a ticket out.  After the start of a sprint and after each *)
(* tick every idle developer gets the next ticket not yet started.  They   *)
(* run a given number of sprints; here they go on for ever, so that what   *)
(* must eventually happen can be asked.                                    *)
(***************************************************************************)
EXTENDS Flow

CONSTANTS Drivers   \* of "batch" and "tui"

ASSUME BatchAssumption == Drivers \subseteq {"batch", "tui"}

VARIABLES
  driver,
  eligible,   \* the tickets the policy would split
  stage,      \* "plan", "hand-out", "child" or "tick"
  parted      \* the ticket just split, whose first child is handed out next

driverVars == <<driver, eligible>>
batchVars == <<vars, driverVars, stage, parted>>

\* Which tickets the policy would split is free.
BatchInit ==
  /\ Init
  /\ driver \in Drivers
  /\ eligible \in SUBSET Split
  /\ stage = "plan" /\ parted = None

\* decomposeEligible, decomposeEligibleTickets: one ticket after the other.
Split1 ==
  /\ stage = "plan" /\ driver = "batch"
  /\ \E t \in eligible : Decompose(t)
  /\ UNCHANGED <<driverVars, stage, parted>>

\* The sprint starts when nothing is left to split; the interface does not look.
Plan ==
  /\ stage = "plan"
  /\ driver = "batch" => backlog \cap eligible = {}
  /\ StartSprint
  /\ stage' = "hand-out"
  /\ UNCHANGED <<driverVars, parted>>

IdleDevs == {i \in DOMAIN team : current[team[i]] = None}

\* autoAssignIdle, autoAssignForComparison: the idle developers in order,
\* mentors among them; committed tickets first, then those of the backlog.
Unstarted == IF committed # {} THEN committed ELSE backlog

HandOut ==
  /\ stage = "hand-out" /\ IdleDevs # {}
  /\ \E t \in Unstarted :
       /\ driver = "tui" => t \notin backlog \cap eligible
       /\ AssignTicket(t, team[Least(IdleDevs)])
  /\ UNCHANGED <<driverVars, stage, parted>>

\* runSprintWithAutoAssign tries to decompose what it hands out, and then hands
\* out the first of the children.
SplitChosen ==
  /\ stage = "hand-out" /\ IdleDevs # {} /\ driver = "tui"
  /\ \E t \in Unstarted \cap eligible : Decompose(t) /\ parted' = t
  /\ stage' = "child"
  /\ UNCHANGED driverVars

HandChild ==
  /\ stage = "child"
  /\ \E t \in Children[parted] : AssignTicket(t, team[Least(IdleDevs)])
  /\ stage' = "hand-out" /\ parted' = None
  /\ UNCHANGED driverVars

\* Nobody idle or nothing left: the next tick, or the next sprint.
HandedOut ==
  /\ stage = "hand-out" /\ (IdleDevs = {} \/ backlog \cup committed = {})
  /\ stage' = IF sprint THEN "tick" ELSE "plan"
  /\ UNCHANGED <<vars, driverVars, parted>>

BatchTick ==
  /\ stage = "tick"
  /\ Tick
  /\ stage' = IF pc' = "idle" THEN "hand-out" ELSE "tick"
  /\ UNCHANGED <<driverVars, parted>>

BatchNext ==
  Split1 \/ Plan \/ HandOut \/ SplitChosen \/ HandChild \/ HandedOut \/ BatchTick

\* A driver is one loop that never waits.
BatchSpec == BatchInit /\ [][BatchNext]_batchVars /\ WF_batchVars(BatchNext)

-----------------------------------------------------------------------------
(* Properties *)

\* Head-of-line queues, caps and busy developers delay tickets but never block
\* one another: every ticket that is started gets through all its phases.
StartedIsFinished == \A t \in Tickets : t \in active ~> t \in completed

\* And every ticket is started: carry-over, queues and priorities of later
\* phases cannot starve the backlog, in either release mode.
EverythingIsDone ==
  <>[](backlog \cup committed \cup active = {})

\* The warm-up of demand mode cannot last: it is exited or it fails.
WarmupEnds == [](sprintNumber >= WarmupLimit => <>(~warmupActive \/ warmupFailed))

\* use-cases.md:1632: "New tickets enter Research only when headroom is
\* positive; otherwise they wait in the ready backlog."  In demand mode, with
\* the warm-up over, a ticket is started only once it was released.
ReleaseIsGated ==
  [][Released => backlog \cap active' = {}]_batchVars

\* app.go:1175: "Try decomposition first based on policy", so no ticket the
\* policy would split is ever worked on whole.
PolicyIsApplied == eligible \cap active = {}
=============================================================================
