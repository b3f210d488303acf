-------------------------------- MODULE Flow --------------------------------
(***************************************************************************)
(* How tickets flow through one simulation (engine/engine.go,              *)
(* engine/assignment.go, engine/release_controller.go and the projection   *)
(* of their events): intake and commitment, the phases with their queues   *)
(* and caps, the hand-offs, the round-robin assignment with mentors, the   *)
(* release controller and the investments.  An engine is a value that one  *)
(* caller runs at a time, so commands do not overlap; a tick is a sequence *)
(* of steps, one per developer and per assignment.                         *)
(*                                                                         *)
(* Phases are numbered as in the code: 0 is the backlog, 1 is Research and *)
(* NumPhases + 1 is Done.  Effort is counted in the working days a phase   *)
(* still needs; what decides it (estimate, type, understanding, velocity,  *)
(* variance) is a free choice when the phase is assigned.  The rope is     *)
(* left out: no event ever enables it.                                     *)
(***************************************************************************)
EXTENDS Integers, Sequences, FiniteSets

CONSTANTS
  Tickets,        \* every ticket there may be
  Children,       \* Children[t]: what a ticket is split into, if it may be
  Large,          \* tickets estimated above LowMaxEstimate at the start
  Devs,           \* every developer there may be
  Team0,          \* the first team, in order
  Recruits,       \* developers still to be hired, in order
  Experience,     \* Experience[d][p]: "Low", "Medium" or "High" in phase p
  None,
  NumPhases, CICD, Review,
  Caps,           \* PhaseWIPConfig: explicit caps of some phases
  Slots0,         \* CICDSlots at the start
  Demand,         \* release mode is demand rather than push
  Drip,           \* MaxBacklogDrip, which is 1 everywhere
  WarmupLimit,    \* warmupSprintLimit
  SprintLength,
  Budget0, Cost,  \* Cost[o]: price of an investment
  MaxEffort,      \* bound on the working days of a phase
  MaxNoise        \* bound on the bugs and scope creeps of a behaviour

Phases == 1..NumPhases
Done == NumPhases + 1
Split == DOMAIN Children
Options == DOMAIN Cost
Members(s) == {s[i] : i \in DOMAIN s}
Offspring == UNION {Children[t] : t \in Split}

ASSUME FlowAssumption ==
  /\ IsFiniteSet(Tickets) /\ None \notin Tickets \cup Devs
  /\ Children \in [Split -> SUBSET Tickets] /\ Split \subseteq Tickets
  /\ Split \cap Offspring = {}     \* one generation of children
  /\ \A t, u \in Split : t # u => Children[t] \cap Children[u] = {}
  /\ Large \subseteq Tickets
  /\ Team0 \in Seq(Devs) /\ Recruits \in Seq(Devs) /\ Team0 # <<>>
  /\ Members(Team0) \cap Members(Recruits) = {}
  /\ \A s \in {Team0, Recruits} : \A i, j \in DOMAIN s : s[i] = s[j] => i = j
  /\ Experience \in [Devs -> [Phases -> {"Low", "Medium", "High"}]]
  /\ NumPhases \in Nat /\ {CICD, Review} \subseteq Phases \ {1} /\ CICD # Review
  /\ DOMAIN Caps \subseteq Phases /\ \A p \in DOMAIN Caps : Caps[p] \in Nat \ {0}
  /\ {Slots0, WarmupLimit, SprintLength, MaxEffort} \subseteq Nat \ {0}
  /\ Drip \in {0, 1} /\ {Budget0, MaxNoise} \subseteq Nat /\ Demand \in BOOLEAN
  /\ Cost \in [Options -> Nat]

VARIABLES
  backlog, triaged, committed, active, completed,   \* where tickets are
  phase, assignedTo, effort, contributors, large,   \* tickets
  queue,                                            \* PhaseQueues
  team, current, cursor,                            \* developers
  mentorIndex, ticketMentors,                       \* mentor -> ticket, and back
  cicdSlots, budget,                                \* what investments change
  sprint, sprintNumber, daysLeft,                   \* the sprint
  warmupActive, warmupFailed,                       \* the release controller
  pc, todo, slot,                                   \* where a tick is
  noise,                                            \* random events so far
  hands               \* history: who has worked on or mentored each ticket

ticketVars == <<phase, assignedTo, effort, contributors, hands>>
devVars == <<team, current, cursor, mentorIndex, ticketMentors>>
placeVars == <<backlog, triaged, committed, active, completed>>
releaseVars == <<warmupActive, warmupFailed>>
sprintVars == <<sprint, sprintNumber, daysLeft>>
assetVars == <<cicdSlots, budget>>
tickVars == <<pc, todo, slot>>
vars == <<placeVars, ticketVars, large, queue, devVars, assetVars, sprintVars,
          releaseVars, tickVars, noise>>

TypeOK ==
  /\ {backlog, triaged, committed, active, completed, large} \subseteq SUBSET Tickets
  /\ phase \in [Tickets -> 0..Done]
  /\ assignedTo \in [Tickets -> Devs \cup {None}]
  /\ effort \in [Tickets -> Nat]
  /\ contributors \in [Tickets -> SUBSET Devs]
  /\ hands \in [Tickets -> SUBSET Devs]
  /\ queue \in [Phases -> Seq(Tickets)]
  /\ team \in Seq(Devs) /\ team # <<>> /\ cursor \in DOMAIN team
  /\ current \in [Devs -> Tickets \cup {None}]
  /\ mentorIndex \in [Devs -> Tickets \cup {None}]
  /\ ticketMentors \in [Tickets -> [Phases -> Devs \cup {None}]]
  /\ cicdSlots \in Nat /\ budget \in Nat
  /\ sprint \in BOOLEAN /\ sprintNumber \in 0..WarmupLimit
  /\ daysLeft \in 0..SprintLength
  /\ warmupActive \in BOOLEAN /\ warmupFailed \in BOOLEAN
  /\ pc \in {"idle", "work", "assign"}
  /\ todo \in Seq(Devs) /\ slot \in 1..(NumPhases + 1)
  /\ noise \in 0..MaxNoise

\* SimulationCreated, the team, and the backlog: in production every ticket
\* starts untriaged or triaged, and no event has happened to it.
Init ==
  /\ backlog = Tickets \ Offspring
  /\ triaged \in SUBSET backlog
  /\ committed = {} /\ active = {} /\ completed = {}
  /\ phase = [t \in Tickets |-> 0]
  /\ assignedTo = [t \in Tickets |-> None]
  /\ effort = [t \in Tickets |-> 0]
  /\ contributors = [t \in Tickets |-> {}]
  /\ hands = [t \in Tickets |-> {}]
  /\ large = Large
  /\ queue = [p \in Phases |-> <<>>]
  /\ team = Team0 /\ cursor = 1
  /\ current = [d \in Devs |-> None]
  /\ mentorIndex = [d \in Devs |-> None]
  /\ ticketMentors = [t \in Tickets |-> [p \in Phases |-> None]]
  /\ cicdSlots = Slots0 /\ budget = Budget0
  /\ sprint = FALSE /\ sprintNumber = 0 /\ daysLeft = 0
  /\ warmupActive = Demand /\ warmupFailed = FALSE
  /\ pc = "idle" /\ todo = <<>> /\ slot = 1
  /\ noise = 0

-----------------------------------------------------------------------------
(* Commands between ticks *)

\* Mutation: demand mode commits in bulk until its warm-up has failed.
BulkUnlessFailed == ~Demand \/ ~warmupFailed

Bulk == ~Demand \/ warmupActive \/ warmupFailed

\* StartSprint: triage the backlog, then, unless the release controller has
\* taken over, commit what fits the capacity; which tickets fit is free.
StartSprint ==
  /\ pc = "idle" /\ ~sprint
  /\ sprint' = TRUE /\ daysLeft' = SprintLength
  /\ sprintNumber' = IF sprintNumber < WarmupLimit THEN sprintNumber + 1
                     ELSE sprintNumber
  /\ \E C \in SUBSET backlog :
       /\ ~Bulk => C = {}
       /\ backlog' = backlog \ C
       /\ committed' = committed \cup C
       /\ triaged' = backlog'
  /\ UNCHANGED <<active, completed, ticketVars, large, queue, devVars, assetVars,
                 releaseVars, tickVars, noise>>

Position(d) == CHOOSE i \in DOMAIN team : team[i] = d

\* Mutation: a developer may take any number of tickets.
IdleAlways(d) == TRUE

Idle(d) == current[d] = None

\* AssignTicket: a ticket not yet started goes to an idle developer.
AssignTicket(t, d) ==
  /\ pc = "idle"
  /\ t \in backlog \cup committed
  /\ d \in Members(team) /\ Idle(d)
  /\ backlog' = backlog \ {t} /\ triaged' = triaged \ {t}
  /\ committed' = committed \ {t}
  /\ active' = active \cup {t}
  /\ phase' = [phase EXCEPT ![t] = 1]
  /\ assignedTo' = [assignedTo EXCEPT ![t] = d]
  /\ hands' = [hands EXCEPT ![t] = @ \cup {d}]
  /\ \E e \in 1..MaxEffort : effort' = [effort EXCEPT ![t] = e]
  /\ current' = [current EXCEPT ![d] = t]
  /\ cursor' = Position(d)
  /\ UNCHANGED <<completed, contributors, large, queue, team, mentorIndex,
                 ticketMentors, assetVars, sprintVars, releaseVars, tickVars, noise>>

\* Mutation: the parent stays in the backlog beside its children.
DecomposeKeepsParent(t) ==
  /\ pc = "idle"
  /\ t \in backlog \cap Split
  /\ backlog' = backlog \cup Children[t]
  /\ triaged' = triaged \ {t}
  /\ UNCHANGED <<committed, active, completed, ticketVars, large, queue, devVars,
                 assetVars, sprintVars, releaseVars, tickVars, noise>>

\* TryDecompose, of a ticket the policy would split: the children are new,
\* untriaged tickets.
Decompose(t) ==
  /\ pc = "idle"
  /\ t \in backlog \cap Split
  /\ backlog' = (backlog \ {t}) \cup Children[t]
  /\ triaged' = triaged \ {t}
  /\ UNCHANGED <<committed, active, completed, ticketVars, large, queue, devVars,
                 assetVars, sprintVars, releaseVars, tickVars, noise>>

\* SpendInvestment; the two options that change a speed change no flow here.
Invest(o) ==
  /\ pc = "idle" /\ ~sprint /\ sprintNumber > 0
  /\ Cost[o] <= budget
  /\ budget' = budget - Cost[o]
  /\ cicdSlots' = IF o = "cicd-slot" THEN cicdSlots + 1 ELSE cicdSlots
  /\ LET hired == Len(team) - Len(Team0) IN
       IF o = "hire"
         THEN /\ hired < Len(Recruits)
              /\ team' = Append(team, Recruits[hired + 1])
         ELSE team' = team
  /\ UNCHANGED <<placeVars, ticketVars, large, queue, current, cursor, mentorIndex,
                 ticketMentors, sprintVars, releaseVars, tickVars, noise>>

-----------------------------------------------------------------------------
(* A tick: work and hand-offs *)

\* The day begins, in a sprint or outside; the loop is over the developers
\* there are now.
BeginTick ==
  /\ pc = "idle"
  /\ daysLeft' = IF sprint THEN daysLeft - 1 ELSE daysLeft
  /\ pc' = "work"
  /\ todo' = team
  /\ UNCHANGED <<placeVars, ticketVars, large, queue, devVars, assetVars, sprint,
                 sprintNumber, releaseVars, slot, noise>>

\* An idle developer is passed over.
PassOver(d) ==
  /\ Idle(d)
  /\ UNCHANGED <<placeVars, ticketVars, queue, devVars>>

\* The developer's turn, the phase not finished by it.
Progress(d, t) ==
  /\ effort[t] > 1
  /\ effort' = [effort EXCEPT ![t] = @ - 1]
  /\ UNCHANGED <<placeVars, phase, assignedTo, contributors, hands, queue, devVars>>

\* Mutation: only one of the two indexes forgets the mentor.
ReleaseMentorHalf(t, p) ==
  LET m == ticketMentors[t][p] IN
  IF m = None THEN UNCHANGED <<mentorIndex, ticketMentors>>
  ELSE /\ mentorIndex' = [mentorIndex EXCEPT ![m] = None]
       /\ UNCHANGED ticketMentors

\* MentorReleased, if the phase has a mentor.
ReleaseMentor(t, p) ==
  LET m == ticketMentors[t][p] IN
  IF m = None THEN UNCHANGED <<mentorIndex, ticketMentors>>
  ELSE /\ mentorIndex' = [mentorIndex EXCEPT ![m] = None]
       /\ ticketMentors' = [ticketMentors EXCEPT ![t][p] = None]

\* TicketCompleted after the last phase.  The ticket keeps its developer.
Complete(d, t) ==
  /\ effort[t] <= 1 /\ phase[t] = NumPhases
  /\ effort' = [effort EXCEPT ![t] = 0]
  /\ ReleaseMentor(t, phase[t])
  /\ active' = active \ {t} /\ completed' = completed \cup {t}
  /\ phase' = [phase EXCEPT ![t] = Done]
  /\ current' = [current EXCEPT ![d] = None]
  /\ UNCHANGED <<backlog, triaged, committed, assignedTo, contributors, hands, queue,
                 team, cursor>>

\* Mutation: the ticket joins the queue of the phase it has just left.
QueueBehind(t) == [queue EXCEPT ![phase[t]] = Append(@, t)]

\* The ticket goes to the end of the next phase's queue.
QueueAhead(t) == [queue EXCEPT ![phase[t] + 1] = Append(@, t)]

\* DeveloperReleased and TicketQueued after any other phase.
HandOff(d, t) ==
  /\ effort[t] <= 1 /\ phase[t] < NumPhases
  /\ effort' = [effort EXCEPT ![t] = 0]
  /\ ReleaseMentor(t, phase[t])
  /\ phase' = [phase EXCEPT ![t] = @ + 1]
  /\ queue' = QueueAhead(t)
  /\ contributors' = [contributors EXCEPT ![t] = @ \cup {d}]
  /\ assignedTo' = [assignedTo EXCEPT ![t] = None]
  /\ current' = [current EXCEPT ![d] = None]
  /\ UNCHANGED <<placeVars, hands, team, cursor>>

\* One turn of the loop over developers.  The loop would also skip one whose
\* ticket is not active; OneWorkerEach says there is none.
Work ==
  /\ pc = "work" /\ todo # <<>>
  /\ LET d == Head(todo)
         t == current[d]
     IN \/ PassOver(d)
        \/ /\ t \in active
           /\ Progress(d, t) \/ Complete(d, t) \/ HandOff(d, t)
  /\ todo' = Tail(todo)
  /\ UNCHANGED <<large, assetVars, sprintVars, releaseVars, pc, slot, noise>>

-----------------------------------------------------------------------------
(* A tick: the release controller *)

\* Mutations: a failed warm-up may still be exited; the limit is looked at
\* between sprints only, when no tick runs.
LocksAfterFailure(l) == Demand /\ warmupActive /\ l
TimesOutBetween(l) == /\ Demand /\ ~warmupFailed /\ warmupActive /\ ~l
                      /\ sprintNumber >= WarmupLimit /\ ~sprint

Locks(l) == Demand /\ ~warmupFailed /\ warmupActive /\ l
TimesOut(l) == /\ Demand /\ ~warmupFailed /\ warmupActive /\ ~l
               /\ sprintNumber >= WarmupLimit
Admits(l) == Demand /\ ~warmupFailed /\ (~warmupActive \/ l)

\* runReleaseController, once all have worked.  The analyzer's signal is
\* free: whether it has locked a constraint, and how many tickets the
\* buffer leaves room for.
Control ==
  /\ pc = "work" /\ todo = <<>>
  /\ \E locked \in BOOLEAN, room \in 0..Drip :
       /\ warmupActive' = (warmupActive /\ ~Locks(locked))
       /\ warmupFailed' = (warmupFailed \/ TimesOut(locked))
       /\ \E A \in SUBSET triaged :
            /\ IF Admits(locked)
                 THEN \/ Cardinality(A) = room
                      \/ Cardinality(A) < room /\ A = triaged
                 ELSE A = {}
            /\ committed' = committed \cup A
            /\ backlog' = backlog \ A /\ triaged' = triaged \ A
  /\ pc' = "assign" /\ slot' = 1
  /\ UNCHANGED <<active, completed, ticketVars, large, queue, devVars, assetVars,
                 sprintVars, todo, noise>>

-----------------------------------------------------------------------------
(* A tick: the assignment pass *)

\* phaseOrder: Review and CICD first, then the others in workflow order.
Rank(p) == IF p = Review THEN 1 ELSE IF p = CICD THEN 2
           ELSE 2 + p - (IF CICD < p THEN 1 ELSE 0) - (IF Review < p THEN 1 ELSE 0)
Turn(n) == CHOOSE p \in Phases : Rank(p) = n

\* Mutation: queued tickets count too ("Counting them would deadlock the
\* gate", simulation.go:243).
InFlightOrQueued(p) == {t \in active : phase[t] = p}

InFlight(p) == {t \in active : phase[t] = p /\ assignedTo[t] # None}

\* Mutation: one too many.
AtCapLate(p) ==
  \/ p \in DOMAIN Caps /\ Cardinality(InFlight(p)) > Caps[p]
  \/ p \notin DOMAIN Caps /\ p = CICD /\ Cardinality(InFlight(p)) > cicdSlots

\* PhaseWIPCount has reached PhaseWIPCap, when there is one.
AtCap(p) ==
  \/ p \in DOMAIN Caps /\ Cardinality(InFlight(p)) >= Caps[p]
  \/ p \notin DOMAIN Caps /\ p = CICD /\ Cardinality(InFlight(p)) >= cicdSlots

Available(d) == Idle(d) /\ mentorIndex[d] = None

\* Without experience in the phase a developer gets no large ticket.
MayTake(d, t, p) == Available(d) /\ ~(Experience[d][p] = "Low" /\ t \in large)

\* Mutation: contributors are not asked for.
IsFreshAnyone(d, t, p) == MayTake(d, t, p)

IsFresh(d, t, p) == MayTake(d, t, p) /\ ~(p = Review /\ d \in contributors[t])

Least(S) == CHOOSE i \in S : \A j \in S : i <= j

\* The developer i turns after the cursor.
After(i) == team[((cursor + i) % Len(team)) + 1]

\* Mutations: only the very next in turn is considered; a review finds nobody
\* when all have contributed.
SelectDevNext(t, p) == IF MayTake(After(0), t, p) THEN After(0) ELSE None
SelectDevNoFallback(t, p) ==
  LET fresh == {i \in 0..(Len(team) - 1) : IsFresh(After(i), t, p)}
  IN IF fresh # {} THEN After(Least(fresh)) ELSE None

\* SelectDev: the next in turn who has not contributed, or else for a review
\* the next in turn who has; None if nobody may take the ticket.
SelectDev(t, p) ==
  LET turns == 0..(Len(team) - 1)
      fresh == {i \in turns : IsFresh(After(i), t, p)}
      any == {i \in turns : MayTake(After(i), t, p)}
  IN IF fresh # {} THEN After(Least(fresh))
     ELSE IF any # {} THEN After(Least(any)) ELSE None

\* A developer of low experience in the phase gets the first available senior
\* of that phase, if any.
SelectMentor(d, p) ==
  LET seniors == {i \in DOMAIN team : /\ team[i] # d /\ Available(team[i])
                                      /\ Experience[team[i]][p] = "High"}
  IN IF Experience[d][p] = "Low" /\ seniors # {} THEN team[Least(seniors)] ELSE None

\* TicketAssigned from the queue of phase p, and MentorPaired.
Assign(t, p, d, m) ==
  /\ queue' = [queue EXCEPT ![p] = Tail(@)]
  /\ assignedTo' = [assignedTo EXCEPT ![t] = d]
  /\ \E e \in 1..MaxEffort : effort' = [effort EXCEPT ![t] = e]
  /\ current' = [current EXCEPT ![d] = t]
  /\ cursor' = Position(d)
  /\ IF m = None
       THEN /\ hands' = [hands EXCEPT ![t] = @ \cup {d}]
            /\ UNCHANGED <<mentorIndex, ticketMentors, contributors>>
       ELSE /\ hands' = [hands EXCEPT ![t] = @ \cup {d, m}]
            /\ mentorIndex' = [mentorIndex EXCEPT ![m] = t]
            /\ ticketMentors' = [ticketMentors EXCEPT ![t][p] = m]
            /\ contributors' = [contributors EXCEPT ![t] = @ \cup {m}]

\* The head of a queue may be assigned: the phase has room and somebody may
\* take it.  (An entry whose ticket is not active would be dropped by
\* TicketQueueRepaired; QueuesExact says there is none.)
Assignable(p) ==
  /\ queue[p] # <<>> /\ Head(queue[p]) \in active
  /\ ~AtCap(p) /\ SelectDev(Head(queue[p]), p) # None

\* One assignment of the phase whose turn it is.
AssignHead ==
  /\ pc = "assign" /\ slot <= NumPhases
  /\ Assignable(Turn(slot))
  /\ LET p == Turn(slot)
         t == Head(queue[p])
         d == SelectDev(t, p)
     IN Assign(t, p, d, SelectMentor(d, p))
  /\ UNCHANGED <<placeVars, phase, large, team, assetVars, sprintVars,
                 releaseVars, tickVars, noise>>

\* Nothing more can be assigned in this phase: the head of the queue waits,
\* and so does everything behind it.
NextSlot ==
  /\ pc = "assign" /\ slot <= NumPhases
  /\ ~Assignable(Turn(slot))
  /\ slot' = slot + 1
  /\ UNCHANGED <<placeVars, ticketVars, large, queue, devVars, assetVars, sprintVars,
                 releaseVars, pc, todo, noise>>

\* Mutation: the last day is missed.
SprintOverLate == daysLeft < 0

\* CurrentTick has reached EndDay.
SprintOver == daysLeft <= 0

\* The random events, then the end of a sprint whose last day it is.  Scope
\* creep can raise an estimate over the limit.
EndTick ==
  /\ pc = "assign" /\ slot > NumPhases
  /\ \E bugs \in SUBSET active, creeps \in SUBSET active :
       /\ noise' = noise + Cardinality(bugs) + Cardinality(creeps)
       /\ noise' <= MaxNoise
       /\ effort' = [t \in Tickets |-> effort[t] + (IF t \in bugs THEN 1 ELSE 0)
                                                 + (IF t \in creeps THEN 1 ELSE 0)]
       /\ \E grown \in SUBSET creeps : large' = large \cup grown
  /\ sprint' = (sprint /\ ~SprintOver)
  /\ pc' = "idle" /\ slot' = 1
  /\ UNCHANGED <<placeVars, phase, assignedTo, contributors, hands, queue, devVars,
                 assetVars, sprintNumber, daysLeft, releaseVars, todo>>

-----------------------------------------------------------------------------
Tick == BeginTick \/ Work \/ Control \/ AssignHead \/ NextSlot \/ EndTick

Next ==
  \/ StartSprint
  \/ \E t \in Tickets, d \in Devs : AssignTicket(t, d)
  \/ \E t \in Tickets : Decompose(t)
  \/ \E o \in Options : Invest(o)
  \/ Tick

Spec == Init /\ [][Next]_vars

-----------------------------------------------------------------------------
(* Properties *)

Lists == <<backlog, committed, active, completed>>
Somewhere == backlog \cup committed \cup active \cup completed

\* The moves between the four lists of tickets, each a removal from one slice
\* and an append to another (projection.go), lose no ticket and double none:
\* each is in exactly one list, a parent until it is split and its children
\* from then on.
OnePlace ==
  /\ \A i, j \in 1..4 : i # j => Lists[i] \cap Lists[j] = {}
  /\ Tickets \ (Split \cup Offspring) \subseteq Somewhere
  /\ \A t \in Split : IF t \in Somewhere THEN Children[t] \cap Somewhere = {}
                      ELSE Children[t] \subseteq Somewhere

\* The queues, which repeat what the tickets say of themselves, stay exact
\* through hand-offs and assignments: an active ticket without a developer
\* is queued once, in the queue of its phase, and nothing else is queued.
\* So TicketQueueRepaired is never needed, and no ticket is stranded.
Waiting(t, p) == t \in active /\ assignedTo[t] = None /\ phase[t] = p
QueuesExact ==
  \A p \in Phases :
    /\ \A t \in Tickets : Waiting(t, p) <=> \E i \in DOMAIN queue[p] : queue[p][i] = t
    /\ \A i, j \in DOMAIN queue[p] : queue[p][i] = queue[p][j] => i = j

\* CurrentTicket of the developers and AssignedTo of the tickets are kept in
\* two places by four events; they never disagree.  Nobody works on two
\* tickets, and no ticket has two workers.
OneWorkerEach ==
  \A t \in Tickets, d \in Devs :
    current[d] = t <=> (t \in active /\ assignedTo[t] = d)

\* The two indexes of mentors stay inverse to each other; a mentored ticket is
\* being worked on in that phase, by a junior, and the mentor is a senior who
\* is neither the worker nor on two tickets.
MentorsAgree ==
  /\ \A m \in Devs, t \in Tickets, p \in Phases : ticketMentors[t][p] = m =>
       /\ mentorIndex[m] = t /\ Experience[m][p] = "High"
       /\ t \in active /\ phase[t] = p
       /\ assignedTo[t] \in Devs \ {m} /\ Experience[assignedTo[t]][p] = "Low"
  /\ \A m \in Devs : mentorIndex[m] # None =>
       ticketMentors[mentorIndex[m]][phase[mentorIndex[m]]] = m

OverCap(p) ==
  LET n == Cardinality(InFlight(p)) IN
  \/ p \in DOMAIN Caps /\ n > Caps[p]
  \/ p \notin DOMAIN Caps /\ p = CICD /\ n > cicdSlots

\* No phase has more work in flight than its cap, the CI/CD slots included:
\* the check before each assignment of the pass is enough.  Research is left
\* out, see ResearchCapHolds.
CapsHold == \A p \in Phases \ {1} : ~OverCap(p)

\* use-cases.md:1572: "when a phase is at cap, the next-tick active-work
\* assignment count for that phase does not exceed the cap"; :1579 "tickets
\* are pulled into Research up to its cap".
ResearchCapHolds == ~OverCap(1)

\* design.md:220: the mentor "is locked as mentor for the full phase
\* duration".
MentorsLocked == \A m \in Devs : mentorIndex[m] # None => current[m] = None

\* The assignment pass leaves no work undone that could have been done: when
\* it is over, whoever is available may not take the head of any queue with
\* room.  Later phases never make an earlier one assignable again, so one pass
\* in a fixed order suffices.
WorkConserving ==
  pc = "assign" /\ slot > NumPhases =>
    \A p \in Phases : queue[p] # <<>> /\ ~AtCap(p) =>
      \A d \in Members(team) : ~MayTake(d, Head(queue[p]), p)

\* Self-review: a ticket is reviewed by somebody who has never worked on it or
\* mentored it, unless all who could take it have (hands is the history the
\* code keeps only in part, as contributors).
ReviewerIsFresh ==
  [][\A t \in Tickets, d \in Devs :
       /\ t \in active /\ phase[t] = Review
       /\ assignedTo[t] = None /\ assignedTo'[t] = d /\ d \in hands[t]
       => \A e \in Members(team) : MayTake(e, t, Review) => e \in hands[t]]_vars

\* The warm-up of demand mode ends once and for all, in one of two ways: after
\* it was exited it does not fail, after it failed it is not exited.
WarmupDecidedOnce ==
  [][/\ (~warmupActive => ~warmupActive') /\ (warmupFailed => warmupFailed')
     /\ ~(warmupFailed' /\ ~warmupActive')]_vars

\* Once the release controller has taken over, nothing but its drip commits
\* tickets: at most MaxBacklogDrip in a tick, and none at the start of a sprint.
Released == Demand /\ ~warmupActive /\ ~warmupFailed
DripOnly ==
  [][Released => /\ Cardinality(committed' \ committed) <= Drip
                 /\ pc = "idle" => committed' \subseteq committed]_vars
=============================================================================
