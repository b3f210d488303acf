------------------------------- MODULE Replay -------------------------------
(***************************************************************************)
(* The engine as it is written: a step of a command decides, on the state   *)
(* of its projection, which events to emit (engine/engine.go), each event   *)
(* is a value (events/types.go), and the state is nothing but the fold of   *)
(* the events (events/projection.go), for the engine and, one event at a    *)
(* time, for everyone who follows the store.  The module shows that this    *)
(* implements Flow, what a reader sees between two events of one step, and  *)
(* what a save and a load keep.                                             *)
(*                                                                         *)
(* The decisions are those of Flow, asked of the state the events give; the *)
(* constants are Flow's.  A sprint is kept as its days left instead of two  *)
(* absolute days.                                                           *)
(***************************************************************************)
EXTENDS Integers, Sequences, FiniteSets, SequencesExt

CONSTANTS Tickets, Children, Large, Devs, Team0, Recruits, Experience, None,
          NumPhases, CICD, Review, Caps, Slots0, Demand, Drip, WarmupLimit,
          SprintLength, Budget0, Cost, MaxEffort, MaxNoise

VARIABLES
  sim,             \* what the events so far give: model.Simulation
  plan,            \* the events the running step has still to emit
  pc, todo, slot,  \* where a tick is
  noise, hands     \* as in Flow

vars == <<sim, plan, pc, todo, slot, noise, hands>>

Phases == 1..NumPhases
Done == NumPhases + 1
Offspring == UNION {Children[t] : t \in DOMAIN Children}
InOrder(S, Event(_)) == LET s == SetToSeq(S) IN [i \in DOMAIN s |-> Event(s[i])]
When(c, event) == IF c THEN <<event>> ELSE <<>>

-----------------------------------------------------------------------------
(* Events: what each carries that a property tells apart *)

SimulationCreated(demand) == [type |-> "SimulationCreated", demand |-> demand]
DeveloperAdded(d) == [type |-> "DeveloperAdded", dev |-> d]
TicketCreated(t, triaged, big) ==
  [type |-> "TicketCreated", ticket |-> t, triaged |-> triaged, big |-> big]
SprintStarted(n, left) == [type |-> "SprintStarted", number |-> n, left |-> left]
SprintEnded == [type |-> "SprintEnded"]
Ticked == [type |-> "Ticked"]
TicketTriaged(t) == [type |-> "TicketTriaged", ticket |-> t]
TicketCommitted(t) == [type |-> "TicketCommitted", ticket |-> t]
TicketAssigned(t, d, p, e) ==
  [type |-> "TicketAssigned", ticket |-> t, dev |-> d, phase |-> p, effort |-> e]
TicketStateRestored(t, d, p, e) ==
  [type |-> "TicketStateRestored", ticket |-> t, dev |-> d, phase |-> p, effort |-> e]
WorkProgressed(t) == [type |-> "WorkProgressed", ticket |-> t]
DeveloperReleased(d) == [type |-> "DeveloperReleased", dev |-> d]
TicketQueued(t, p, d) ==
  [type |-> "TicketQueued", ticket |-> t, phase |-> p, previous |-> d]
TicketCompleted(t, d) == [type |-> "TicketCompleted", ticket |-> t, dev |-> d]
MentorPaired(m, t, p) ==
  [type |-> "MentorPaired", mentor |-> m, ticket |-> t, phase |-> p]
MentorReleased(m, t, p) ==
  [type |-> "MentorReleased", mentor |-> m, ticket |-> t, phase |-> p]
TicketDecomposed(t) == [type |-> "TicketDecomposed", ticket |-> t]
InvestmentApplied(o) == [type |-> "InvestmentApplied", option |-> o]
BugDiscovered(t) == [type |-> "BugDiscovered", ticket |-> t]
ScopeCreepOccurred(t, grown) ==
  [type |-> "ScopeCreepOccurred", ticket |-> t, grown |-> grown]
IncidentStarted(t) == [type |-> "IncidentStarted", ticket |-> t]
IncidentResolved(t) == [type |-> "IncidentResolved", ticket |-> t]
WarmupExited == [type |-> "WarmupExited"]
WarmupTimedOut == [type |-> "WarmupTimedOut"]

-----------------------------------------------------------------------------
(* The projection: one operator per case of Apply *)

Blank == [backlog |-> {}]      \* NewProjection; SimulationCreated comes first

OnSimulationCreated(e) ==
  [backlog |-> {}, triaged |-> {}, committed |-> {}, active |-> {}, completed |-> {},
   large |-> {}, team |-> <<>>, hired |-> 0, cursor |-> 1,
   phase |-> [t \in Tickets |-> 0], effort |-> [t \in Tickets |-> 0],
   assignedTo |-> [t \in Tickets |-> None],
   contributors |-> [t \in Tickets |-> {}],
   queue |-> [p \in Phases |-> <<>>],
   current |-> [d \in Devs |-> None], mentorIndex |-> [d \in Devs |-> None],
   ticketMentors |-> [t \in Tickets |-> [p \in Phases |-> None]],
   slots |-> Slots0, budget |-> Budget0,
   sprint |-> FALSE, number |-> 0, left |-> 0,
   demand |-> e.demand, warmup |-> e.demand, failed |-> FALSE,
   incidents |-> <<>>, caused |-> {}]

OnDeveloperAdded(s, e) == [s EXCEPT !.team = Append(@, e.dev)]

OnTicketCreated(s, e) ==
  [s EXCEPT !.backlog = @ \cup {e.ticket},
            !.triaged = IF e.triaged THEN @ \cup {e.ticket} ELSE @,
            !.large = IF e.big THEN @ \cup {e.ticket} ELSE @]

OnTicked(s) == [s EXCEPT !.left = IF s.sprint THEN @ - 1 ELSE @]

OnSprintStarted(s, e) ==
  [s EXCEPT !.sprint = TRUE, !.left = e.left,
            !.number = IF e.number < WarmupLimit THEN e.number ELSE WarmupLimit]

OnSprintEnded(s) == [s EXCEPT !.sprint = FALSE]

OnTicketTriaged(s, e) ==
  [s EXCEPT !.triaged = IF e.ticket \in s.backlog THEN @ \cup {e.ticket} ELSE @]

OnTicketCommitted(s, e) ==
  IF e.ticket \notin s.backlog THEN s
  ELSE [s EXCEPT !.backlog = @ \ {e.ticket}, !.triaged = @ \ {e.ticket},
                 !.committed = @ \cup {e.ticket}]

Place(s, d) == CHOOSE i \in DOMAIN s.team : s.team[i] = d

\* A ticket that starts moves to the active ones; one handed on leaves the
\* queue of its phase.
OnTicketAssigned(s, e) ==
  LET new == e.ticket \in s.backlog \cup s.committed
      known == new \/ e.ticket \in s.active IN
  [s EXCEPT !.backlog = @ \ {e.ticket}, !.triaged = @ \ {e.ticket},
            !.committed = @ \ {e.ticket},
            !.active = IF new THEN @ \cup {e.ticket} ELSE @,
            !.phase[e.ticket] = IF new THEN e.phase ELSE @,
            !.assignedTo[e.ticket] = IF known THEN e.dev ELSE @,
            !.effort[e.ticket] = IF known THEN e.effort ELSE @,
            !.queue[e.phase] = IF new THEN @ ELSE RemoveFirst(@, e.ticket),
            !.current[e.dev] = e.ticket,
            !.cursor = Place(s, e.dev)]

\* As written by a load: nobody's ticket has the empty developer.
OnTicketStateRestored(s, e) ==
  IF e.ticket \notin s.backlog THEN s
  ELSE [s EXCEPT !.backlog = @ \ {e.ticket}, !.triaged = @ \ {e.ticket},
                 !.active = @ \cup {e.ticket},
                 !.phase[e.ticket] = e.phase, !.effort[e.ticket] = e.effort,
                 !.assignedTo[e.ticket] = e.dev,
                 !.current = [d \in Devs |-> IF d = e.dev THEN e.ticket ELSE @[d]]]

OnTicketCompleted(s, e) ==
  [s EXCEPT !.active = @ \ {e.ticket}, !.completed = @ \cup {e.ticket},
            !.phase[e.ticket] = Done, !.current[e.dev] = None]

OnWorkProgressed(s, e) ==
  [s EXCEPT !.effort[e.ticket] = IF @ > 0 THEN @ - 1 ELSE 0]

\* Mutation: whoever hands a ticket on is not remembered.
OnTicketQueuedBlind(s, e) ==
  [s EXCEPT !.queue[e.phase] = Append(@, e.ticket),
            !.phase[e.ticket] = e.phase,
            !.assignedTo[e.ticket] = None]

OnTicketQueued(s, e) ==
  [s EXCEPT !.queue[e.phase] = Append(@, e.ticket),
            !.phase[e.ticket] = e.phase,
            !.contributors[e.ticket] = @ \cup {e.previous},
            !.assignedTo[e.ticket] = None]

OnDeveloperReleased(s, e) == [s EXCEPT !.current[e.dev] = None]

OnMentorPaired(s, e) ==
  [s EXCEPT !.mentorIndex[e.mentor] = e.ticket,
            !.ticketMentors[e.ticket][e.phase] = e.mentor,
            !.contributors[e.ticket] = @ \cup {e.mentor}]

OnMentorReleased(s, e) ==
  [s EXCEPT !.mentorIndex[e.mentor] = None,
            !.ticketMentors[e.ticket][e.phase] = None]

OnTicketDecomposed(s, e) ==
  [s EXCEPT !.backlog = (@ \ {e.ticket}) \cup Children[e.ticket],
            !.triaged = @ \ {e.ticket}]

\* One event spends and delivers; a new developer is named by a counter.
OnInvestmentApplied(s, e) ==
  LET paid == [s EXCEPT !.budget = @ - Cost[e.option]] IN
  CASE e.option = "hire" ->
         [paid EXCEPT !.hired = @ + 1, !.team = Append(@, Recruits[s.hired + 1])]
    [] e.option = "cicd-slot" -> [paid EXCEPT !.slots = @ + 1]
    [] OTHER -> paid

OnBugDiscovered(s, e) == [s EXCEPT !.effort[e.ticket] = @ + 1]

OnScopeCreepOccurred(s, e) ==
  [s EXCEPT !.effort[e.ticket] = @ + 1,
            !.large = IF e.grown THEN @ \cup {e.ticket} ELSE @]

\* Mutation: the ticket is not marked as the cause.
OnIncidentStartedUnmarked(s, e) == [s EXCEPT !.incidents = Append(@, e.ticket)]

OnIncidentStarted(s, e) ==
  [s EXCEPT !.incidents = Append(@, e.ticket), !.caused = @ \cup {e.ticket}]

OnIncidentResolved(s, e) == [s EXCEPT !.incidents = RemoveFirst(@, e.ticket)]

OnWarmupExited(s) == [s EXCEPT !.warmup = FALSE]
OnWarmupTimedOut(s) == [s EXCEPT !.failed = TRUE]

Apply(s, e) ==
  CASE e.type = "SimulationCreated" -> OnSimulationCreated(e)
    [] e.type = "DeveloperAdded" -> OnDeveloperAdded(s, e)
    [] e.type = "TicketCreated" -> OnTicketCreated(s, e)
    [] e.type = "Ticked" -> OnTicked(s)
    [] e.type = "SprintStarted" -> OnSprintStarted(s, e)
    [] e.type = "SprintEnded" -> OnSprintEnded(s)
    [] e.type = "TicketTriaged" -> OnTicketTriaged(s, e)
    [] e.type = "TicketCommitted" -> OnTicketCommitted(s, e)
    [] e.type = "TicketAssigned" -> OnTicketAssigned(s, e)
    [] e.type = "TicketStateRestored" -> OnTicketStateRestored(s, e)
    [] e.type = "TicketCompleted" -> OnTicketCompleted(s, e)
    [] e.type = "WorkProgressed" -> OnWorkProgressed(s, e)
    [] e.type = "TicketQueued" -> OnTicketQueued(s, e)
    [] e.type = "DeveloperReleased" -> OnDeveloperReleased(s, e)
    [] e.type = "MentorPaired" -> OnMentorPaired(s, e)
    [] e.type = "MentorReleased" -> OnMentorReleased(s, e)
    [] e.type = "TicketDecomposed" -> OnTicketDecomposed(s, e)
    [] e.type = "InvestmentApplied" -> OnInvestmentApplied(s, e)
    [] e.type = "BugDiscovered" -> OnBugDiscovered(s, e)
    [] e.type = "ScopeCreepOccurred" -> OnScopeCreepOccurred(s, e)
    [] e.type = "IncidentStarted" -> OnIncidentStarted(s, e)
    [] e.type = "IncidentResolved" -> OnIncidentResolved(s, e)
    [] e.type = "WarmupExited" -> OnWarmupExited(s)
    [] e.type = "WarmupTimedOut" -> OnWarmupTimedOut(s)

\* The state once the running step has emitted everything.
Whole == FoldLeft(Apply, sim, plan)

F == INSTANCE Flow WITH
  backlog <- Whole.backlog, triaged <- Whole.triaged, committed <- Whole.committed,
  active <- Whole.active, completed <- Whole.completed, large <- Whole.large,
  phase <- Whole.phase, assignedTo <- Whole.assignedTo, effort <- Whole.effort,
  contributors <- Whole.contributors, queue <- Whole.queue, team <- Whole.team,
  current <- Whole.current, cursor <- Whole.cursor,
  mentorIndex <- Whole.mentorIndex, ticketMentors <- Whole.ticketMentors,
  cicdSlots <- Whole.slots, budget <- Whole.budget, sprint <- Whole.sprint,
  sprintNumber <- Whole.number, daysLeft <- Whole.left,
  warmupActive <- Whole.warmup, warmupFailed <- Whole.failed

ASSUME ReplayAssumption == F!FlowAssumption

-----------------------------------------------------------------------------
(* Steps that decide *)

\* EmitCreated, AddDeveloper and AddTicket.
SetUp(triaged) ==
  <<SimulationCreated(Demand)>>
  \o [i \in DOMAIN Team0 |-> DeveloperAdded(Team0[i])]
  \o InOrder(Tickets \ Offspring,
             LAMBDA t : TicketCreated(t, t \in triaged, FALSE))

Init ==
  /\ \E triaged \in SUBSET (Tickets \ Offspring) :
       sim = [FoldLeft(Apply, Blank, SetUp(triaged)) EXCEPT !.large = Large]
  /\ plan = <<>>
  /\ pc = "idle" /\ todo = <<>> /\ slot = 1 /\ noise = 0
  /\ hands = [t \in Tickets |-> {}]

\* What a step decides is emitted event by event before the next one.
Decide(events) == plan = <<>> /\ plan' = events /\ UNCHANGED sim
Unticked == UNCHANGED <<pc, todo, slot, noise>>

StartSprint ==
  /\ pc = "idle" /\ ~sim.sprint
  /\ \E C \in SUBSET sim.backlog :
       /\ ~F!Bulk => C = {}
       /\ Decide(<<SprintStarted(sim.number + 1, SprintLength)>>
                 \o InOrder(sim.backlog \ sim.triaged, TicketTriaged)
                 \o InOrder(C, TicketCommitted))
  /\ Unticked /\ UNCHANGED hands

AssignTicket(t, d) ==
  /\ pc = "idle"
  /\ t \in sim.backlog \cup sim.committed
  /\ d \in ToSet(sim.team) /\ sim.current[d] = None
  /\ \E e \in 1..MaxEffort : Decide(<<TicketAssigned(t, d, 1, e)>>)
  /\ hands' = [hands EXCEPT ![t] = @ \cup {d}]
  /\ Unticked

Decompose(t) ==
  /\ pc = "idle" /\ t \in sim.backlog \cap DOMAIN Children
  /\ Decide(<<TicketDecomposed(t)>>)
  /\ Unticked /\ UNCHANGED hands

Invest(o) ==
  /\ pc = "idle" /\ ~sim.sprint /\ sim.number > 0 /\ Cost[o] <= sim.budget
  /\ o = "hire" => sim.hired < Len(Recruits)
  /\ Decide(<<InvestmentApplied(o)>>)
  /\ Unticked /\ UNCHANGED hands

BeginTick ==
  /\ pc = "idle"
  /\ Decide(<<Ticked>>)
  /\ pc' = "work" /\ todo' = sim.team
  /\ UNCHANGED <<slot, noise, hands>>

Mentor(t) == sim.ticketMentors[t][sim.phase[t]]
MentorGone(t) ==
  When(Mentor(t) # None, MentorReleased(Mentor(t), t, sim.phase[t]))

\* Mutations: the ticket is queued before its developer is released; the
\* mentor is released last.
HandOffEventsQueuedFirst(d, t) ==
  MentorGone(t) \o <<TicketQueued(t, sim.phase[t] + 1, d), DeveloperReleased(d)>>
HandOffEventsMentorLast(d, t) ==
  <<DeveloperReleased(d), TicketQueued(t, sim.phase[t] + 1, d)>> \o MentorGone(t)

\* advancePhaseEmitOnly, not into Done.
HandOffEvents(d, t) ==
  MentorGone(t) \o <<DeveloperReleased(d), TicketQueued(t, sim.phase[t] + 1, d)>>

\* advancePhaseEmitOnly, into Done.
CompleteEvents(d, t) == MentorGone(t) \o <<TicketCompleted(t, d)>>

\* The turn of a developer: the day's work, and what follows from it.
TurnEvents(d) ==
  LET t == sim.current[d] IN
  IF t = None \/ t \notin sim.active THEN <<>>
  ELSE <<WorkProgressed(t)>>
       \o (IF sim.effort[t] > 1 THEN <<>>
           ELSE IF sim.phase[t] = NumPhases THEN CompleteEvents(d, t)
           ELSE HandOffEvents(d, t))

Work ==
  /\ pc = "work" /\ todo # <<>>
  /\ Decide(TurnEvents(Head(todo)))
  /\ todo' = Tail(todo)
  /\ UNCHANGED <<pc, slot, noise, hands>>

\* runReleaseController.
Control ==
  /\ pc = "work" /\ todo = <<>>
  /\ \E locked \in BOOLEAN, room \in 0..Drip :
       \E A \in SUBSET sim.triaged :
         /\ IF F!Admits(locked)
              THEN Cardinality(A) = room \/ (Cardinality(A) < room /\ A = sim.triaged)
              ELSE A = {}
         /\ Decide(When(F!Locks(locked), WarmupExited)
                   \o When(F!TimesOut(locked), WarmupTimedOut)
                   \o InOrder(A, TicketCommitted))
  /\ pc' = "assign" /\ slot' = 1
  /\ UNCHANGED <<todo, noise, hands>>

AssignHead ==
  /\ pc = "assign" /\ slot <= NumPhases /\ F!Assignable(F!Turn(slot))
  /\ LET p == F!Turn(slot)
         t == Head(sim.queue[p])
         d == F!SelectDev(t, p)
         m == F!SelectMentor(d, p)
     IN /\ \E e \in 1..MaxEffort :
             Decide(<<TicketAssigned(t, d, p, e)>> \o When(m # None, MentorPaired(m, t, p)))
        /\ hands' = [hands EXCEPT ![t] = @ \cup ({d, m} \ {None})]
  /\ Unticked

NextSlot ==
  /\ pc = "assign" /\ slot <= NumPhases /\ ~F!Assignable(F!Turn(slot))
  /\ Decide(<<>>)
  /\ slot' = slot + 1
  /\ UNCHANGED <<pc, todo, noise, hands>>

\* Bugs and creeps of active tickets, incidents resolved, then new ones of
\* completed tickets that have caused none; last the end of the sprint.  How
\* recent a ticket has to be is left free: the code asks a date no event sets.
EndTick ==
  /\ pc = "assign" /\ slot > NumPhases
  /\ \E bugs \in SUBSET sim.active, creeps \in SUBSET sim.active,
        fixed \in SUBSET ToSet(sim.incidents),
        failing \in SUBSET (sim.completed \ sim.caused) :
       /\ noise' = noise + Cardinality(bugs) + Cardinality(creeps)
       /\ noise' <= MaxNoise
       /\ \E grown \in SUBSET creeps :
            Decide(InOrder(bugs, BugDiscovered)
                   \o InOrder(creeps, LAMBDA t : ScopeCreepOccurred(t, t \in grown))
                   \o InOrder(fixed, IncidentResolved)
                   \o InOrder(failing, IncidentStarted)
                   \o When(sim.sprint /\ sim.left <= 0, SprintEnded))
  /\ pc' = "idle" /\ slot' = 1
  /\ UNCHANGED <<todo, hands>>

\* emit: the projection, the store and every follower take the next event.
Emit ==
  /\ plan # <<>>
  /\ sim' = Apply(sim, Head(plan)) /\ plan' = Tail(plan)
  /\ Unticked /\ UNCHANGED hands

Command ==
  \/ StartSprint
  \/ \E t \in Tickets, d \in Devs : AssignTicket(t, d)
  \/ \E t \in Tickets : Decompose(t)
  \/ \E o \in DOMAIN Cost : Invest(o)
Tick == BeginTick \/ Work \/ Control \/ AssignHead \/ NextSlot \/ EndTick
Next == Command \/ Tick \/ Emit

Spec == Init /\ [][Next]_vars

-----------------------------------------------------------------------------
(* Saving and loading *)

\* The slices and fields of PersistableSimulation, and whether the load finds
\* the simulation in a sprint.
Saved(s) ==
  [backlog |-> s.backlog, triaged |-> s.triaged, active |-> s.active,
   completed |-> s.completed, large |-> s.large, phase |-> s.phase,
   assignedTo |-> s.assignedTo, effort |-> s.effort, team |-> s.team,
   sprint |-> s.sprint, number |-> s.number, left |-> s.left]

Recreated(v, t) == TicketCreated(t, t \in v.triaged, t \in v.large)

\* Mutation: active tickets are restored like new ones.
LoadActiveAnew(v, t) ==
  <<Recreated(v, t)>>
  \o When(v.assignedTo[t] # None, TicketAssigned(t, v.assignedTo[t], 1, v.effort[t]))

LoadActive(v, t) ==
  <<Recreated(v, t), TicketStateRestored(t, v.assignedTo[t], v.phase[t], v.effort[t])>>

LoadCompleted(v, t) ==
  <<Recreated(v, t), TicketAssigned(t, v.assignedTo[t], 1, 1),
    TicketCompleted(t, v.assignedTo[t])>>

\* EmitLoadedState.
LoadEvents(v) ==
  <<SimulationCreated(FALSE)>>
  \o [i \in DOMAIN v.team |-> DeveloperAdded(v.team[i])]
  \o InOrder(v.backlog, LAMBDA t : Recreated(v, t))
  \o FlattenSeq(InOrder(v.active, LAMBDA t : LoadActive(v, t)))
  \o FlattenSeq(InOrder(v.completed, LAMBDA t : LoadCompleted(v, t)))
  \o When(v.sprint, SprintStarted(v.number, v.left))

\* The interface folds them into a fresh engine.
LoadFile(v) == FoldLeft(Apply, Blank, LoadEvents(v))

\* What has been saved and is loaded again; the file keeps every field.
Loaded == LoadFile(Saved(sim))

Idle == pc = "idle" /\ plan = <<>>

-----------------------------------------------------------------------------
(* Properties *)

\* Refinement: deciding on a projection and emitting one event at a time
\* implements the engine of Flow, where a step changes everything at once.
\* The step takes effect when it decides; the events it emits are stutters.
ImplementsFlow == F!Spec

\* Whoever reads between two events of a step (the interface draws after each,
\* the server answers at any time) finds no developer on a ticket that is not
\* active or is somebody else's: advancePhaseEmitOnly releases the developer
\* before it queues the ticket.
WorkersAgree ==
  \A d \in Devs : LET t == sim.current[d] IN
    t # None => t \in sim.active /\ sim.assignedTo[t] = d

\* Nor a mentor of a phase the ticket has left: MentorReleased comes first.
MentorsOnTheJob ==
  \A t \in Tickets, p \in Phases : LET m == sim.ticketMentors[t][p] IN
    m # None => /\ t \in sim.active /\ sim.phase[t] = p
                /\ sim.assignedTo[t] # None /\ sim.mentorIndex[m] = t

\* A completed ticket causes at most one incident, ever: the projection marks
\* the ticket in the event that opens the incident, and the generator asks.
IncidentsOnce ==
  /\ ToSet(sim.incidents) \subseteq sim.caused /\ sim.caused \subseteq sim.completed
  /\ Cardinality(ToSet(sim.incidents)) = Len(sim.incidents)

\* A load brings back the backlog, the active and the completed tickets as
\* they were saved, with their phases, their remaining work and whose they
\* are, and the team and the sprint: every moment between commands survives
\* the fold of EmitLoadedState's events.
LoadKeepsTickets ==
  Idle =>
    /\ \A f \in {"backlog", "triaged", "active", "completed", "team", "sprint"} :
         Loaded[f] = sim[f]
    /\ \A t \in sim.active \cup sim.completed :
         /\ Loaded.phase[t] = sim.phase[t]
         /\ Loaded.assignedTo[t] = sim.assignedTo[t]
    /\ \A t \in sim.active : Loaded.effort[t] = sim.effort[t]
    /\ sim.sprint => Loaded.number = sim.number /\ Loaded.left = sim.left

\* use-cases.md:472: "System restores simulation to saved state", and :110, it
\* "continues from exactly where they left off": no ticket is gone, and one
\* that waited for a developer still waits in the queue of its phase.
Everywhere(s) == s.backlog \cup s.committed \cup s.active \cup s.completed
LoadStrandsNothing ==
  Idle =>
    /\ Everywhere(sim) \subseteq Everywhere(Loaded)
    /\ \A p \in Phases : ToSet(sim.queue[p]) \subseteq ToSet(Loaded.queue[p])
=============================================================================
