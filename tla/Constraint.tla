----------------------------- MODULE Constraint -----------------------------
(***************************************************************************)
(* The search for the constraint (metrics/toc.go, toc_state.go) and what   *)
(* is steered by it: the demand-driven release of tickets                  *)
(* (engine/release_controller.go) and the lesson about elevation without   *)
(* exploitation (lessons/triggers.go).  Two analyzers watch a simulation:  *)
(* the engine's, in the middle of each tick, for the release, and the      *)
(* tracker's, for what is shown, whenever the driver of the simulation     *)
(* updates it: "handlers" (the interface alone, or requests alone) after   *)
(* each tick; "runner" (batch and comparison) after each sprint; and when  *)
(* an interface follows a writer of the API, "followed", that writer's     *)
(* handler after each tick and the interface with each event, late, both   *)
(* the same analyzer.                                                      *)
(*                                                                         *)
(* Which developer works on what is left out (it is in Flow): a day moves  *)
(* any of the assigned tickets on, and assigns any of the waiting ones.    *)
(* Every active ticket without a developer waits in its phase's queue, so  *)
(* there is a busy developer only if there is an active ticket.            *)
(***************************************************************************)
EXTENDS Naturals, FiniteSets, Sequences, SequencesExt

CONSTANTS
  Tickets,
  NumPhases,    \* workflow phases between backlog and done
  Window,       \* defaultWindowSize, in the code 10
  Hysteresis,   \* hysteresisCount, in the code 10
  Fade,         \* what is left of a confidence that fades, in percent: 90
  Drip,         \* MaxBacklogDrip
  WarmupLimit,  \* warmupSprintLimit
  SprintLength,
  Options,      \* of investment
  Budget,       \* how many investments can be afforded
  Drivers,      \* the drivers considered
  MaxDay,       \* MaxDay[d]: bound on the length of a behaviour driven by d
  None

ASSUME ConstraintAssumption ==
  /\ IsFiniteSet(Tickets)
  /\ NumPhases \in Nat \ {0} /\ Window \in Nat \ {0} /\ Hysteresis \in Nat \ {0}
  /\ Fade \in 0..100
  /\ Drivers \subseteq {"handlers", "runner", "followed"}
  /\ Budget \in Nat /\ Drip \in Nat /\ WarmupLimit \in Nat /\ SprintLength \in Nat \ {0}

VARIABLES
  day,          \* CurrentTick
  phase,        \* 0: in the backlog or committed; NumPhases + 1: done
  entered,      \* PhaseEnteredTick
  waiting,      \* the tickets in the phase queues
  committed,    \* CommittedTickets
  endDay,       \* EndDay of the current sprint, 0 when there is none
  sprintNumber,
  warmup,       \* "active", "exited" or "failed"
  invested,     \* LastInvestmentApplied
  budget,       \* what is left of Budget
  driver,       \* what ticks the simulation
  own,          \* the engine's TOCState, shared by all copies of the engine
  shown,        \* the tracker's, shared by all copies of the tracker
  unseen,       \* "followed": the simulation after each of the events that
                \* the interface has still to handle
  spentAfter,   \* history: the sprint after which was last invested
  starts        \* history: how full the phases were before each entry of
                \* the engine's ring

ticketVars == <<phase, entered, waiting, committed>>
vars == <<day, ticketVars, endDay, sprintNumber, warmup, invested, budget, driver, own,
          shown, unseen, spentAfter, starts>>

Phases == 1..NumPhases
Smaller(x, y) == IF x < y THEN x ELSE y

-----------------------------------------------------------------------------
(* One analyzer: an update is a function of its state and the simulation's *)

\* A simulation as an analyzer sees it.
SimOf(d, ph, en, wait, spr, number, inv) ==
  [day |-> d, sprint |-> spr, number |-> number, invested |-> inv,
   tickets |-> [t \in {u \in Tickets : ph[u] \in Phases} |->
                  [phase |-> ph[t], entered |-> en[t], waits |-> t \in wait]]]

\* Mutation: only the tickets somebody works on.
SnapshotOfAssigned(sim) ==
  [t \in {u \in DOMAIN sim.tickets : ~sim.tickets[u].waits} |-> sim.tickets[t]]

NewPhaseSnapshot(sim) == sim.tickets

NewTOCState ==
  [prev |-> <<>>, ring |-> <<>>, candidate |-> 0, consecutive |-> 0,
   constraint |-> 0, confidence |-> 0, buffer |-> None,
   lastSprint |-> 0, investment |-> FALSE,
   prevNumber |-> 0, prevSprint |-> FALSE, prevInvested |-> None]

\* Mutation: completed tickets are forgotten.
DepartedActive(prev, curr, p) ==
  {t \in DOMAIN prev \cap DOMAIN curr : prev[t].phase = p /\ curr[t].phase # p}

\* The tickets that have left phase p since the last snapshot.
Departed(prev, curr, p) ==
  {t \in DOMAIN prev : prev[t].phase = p /\ (t \in DOMAIN curr => curr[t].phase # p)}

\* What is in phase p and was not at the last snapshot.
Arrived(prev, curr, p) ==
  {t \in DOMAIN curr : curr[t].phase = p /\ (t \in DOMAIN prev => prev[t].phase # p)}

\* Dwell times are sampled when a ticket leaves; one that entered its phase
\* before the first tick, or on this one, has none.
CollectTickData(prev, curr, today) ==
  [p \in Phases |->
     [arrivals   |-> Cardinality(Arrived(prev, curr, p)),
      departures |-> Cardinality(Departed(prev, curr, p)),
      dwell      |-> {<<t, today - prev[t].entered>> : t \in
                        {u \in Departed(prev, curr, p) :
                           prev[u].entered > 0 /\ prev[u].entered < today}}]]

\* The ring buffer keeps the last Window entries.
Push(ring, entry) ==
  IF Len(ring) < Window THEN Append(ring, entry) ELSE Append(Tail(ring), entry)

\* Sums over the window, and the dwell times of a phase.
Sum(s) == FoldLeft(LAMBDA x, y : x + y, 0, s)
Arrivals(ring, p) == Sum([i \in DOMAIN ring |-> ring[i][p].arrivals])
Departures(ring, p) == Sum([i \in DOMAIN ring |-> ring[i][p].departures])
Samples(ring, p) ==
  UNION {{<<i, s[1], s[2]>> : s \in ring[i][p].dwell} : i \in DOMAIN ring}

\* The k-th smallest of the samples, and twice their median.
Nth(S, k) ==
  CHOOSE d \in {s[3] : s \in S} :
    /\ Cardinality({s \in S : s[3] < d}) < k
    /\ Cardinality({s \in S : s[3] <= d}) >= k
MedianTwice(S) ==
  LET n == Cardinality(S) IN Nth(S, (n + 1) \div 2) + Nth(S, (n \div 2) + 1)

\* minDepartures: phases with two departures in the window are ranked.
Candidates(ring) ==
  {p \in Phases : Samples(ring, p) # {} /\ Departures(ring, p) >= 2}

\* The winner leads every other candidate by a tenth of its own dwell time;
\* 0 if there is none.
Winner(ring) ==
  LET dwell == [p \in Candidates(ring) |-> MedianTwice(Samples(ring, p))]
      leads(p) == \A q \in Candidates(ring) \ {p} : 10 * dwell[q] <= 9 * dwell[p]
  IN IF \E p \in Candidates(ring) : leads(p)
       THEN CHOOSE p \in Candidates(ring) : leads(p)
       ELSE 0

\* Confidence in thousandths: half when nothing is sustained, one when twice
\* the hysteresis is.
Sustained(n) == 500 + (500 * Smaller(n, 2 * Hysteresis)) \div (2 * Hysteresis)

\* Confidence in the phase confirmed before fades with every new candidate,
\* to Fade percent of what it was.
Faded(toc) ==
  LET left == (Fade * toc.confidence) \div 100 IN
  IF toc.constraint = 0 THEN toc
  ELSE IF left < 100 THEN [toc EXCEPT !.constraint = 0, !.confidence = 0]
  ELSE [toc EXCEPT !.confidence = left]

\* The hysteresis: a new candidate starts its count, the same one goes on.
Follow(toc, p) ==
  IF p = toc.candidate THEN [toc EXCEPT !.consecutive = @ + 1]
  ELSE [Faded(toc) EXCEPT !.candidate = p, !.consecutive = 1]

Confirm(toc) ==
  IF toc.consecutive >= Hysteresis
    THEN [toc EXCEPT !.constraint = toc.candidate, !.confidence = Sustained(toc.consecutive)]
    ELSE toc

\* Mutation: the hysteresis goes on counting.
ResetConstraint(toc) == [toc EXCEPT !.constraint = 0, !.confidence = 0]

\* No phase is clearly the slowest.
Reset(toc) ==
  [toc EXCEPT !.candidate = 0, !.consecutive = 0, !.constraint = 0, !.confidence = 0]

IdentifyConstraint(toc) ==
  IF Len(toc.ring) < Window THEN toc
  ELSE IF Winner(toc.ring) = 0 THEN Reset(toc)
  ELSE Confirm(Follow(toc, Winner(toc.ring)))

\* Twice the departures of the window, and at least two.
TargetBuffer(toc) ==
  LET n == 2 * Departures(toc.ring, toc.constraint) IN IF n < 2 THEN 2 ELSE n

\* What waits in front of the constraint against what should.
UpdateConstraintBuffer(toc, sim) ==
  [toc EXCEPT !.buffer =
     IF toc.constraint = 0 THEN None
     ELSE [phase |-> toc.constraint, target |-> TargetBuffer(toc),
           queue |-> Cardinality({t \in DOMAIN sim.tickets :
                       sim.tickets[t].phase = toc.constraint /\ sim.tickets[t].waits})]]

\* Mutation: the end of a sprint does not close the cycle.
DetectStarts(toc, sim) ==
  [toc EXCEPT
     !.lastSprint = IF sim.number > toc.prevNumber THEN toc.constraint ELSE @,
     !.investment = @ \/ (sim.invested # toc.prevInvested /\ sim.invested # None),
     !.prevNumber = sim.number,
     !.prevSprint = sim.sprint,
     !.prevInvested = sim.invested]

\* What changed since the last update: a new sprint, an investment, the end of
\* a sprint.
DetectTransitions(toc, sim) ==
  [toc EXCEPT
     !.lastSprint = IF sim.number > toc.prevNumber THEN toc.constraint ELSE @,
     !.investment = IF toc.prevSprint /\ ~sim.sprint THEN FALSE
                    ELSE @ \/ (sim.invested # toc.prevInvested /\ sim.invested # None),
     !.prevNumber = sim.number,
     !.prevSprint = sim.sprint,
     !.prevInvested = sim.invested]

\* After an update with no active ticket the next one only takes a snapshot.
Update(toc, sim) ==
  LET seen == [DetectTransitions(toc, sim) EXCEPT !.prev = NewPhaseSnapshot(sim)]
      today == CollectTickData(toc.prev, NewPhaseSnapshot(sim), sim.day)
      pushed == [seen EXCEPT !.ring = Push(@, today)]
  IN IF DOMAIN toc.prev = {} THEN seen
     ELSE UpdateConstraintBuffer(IdentifyConstraint(pushed), sim)

\* HasElevationWithoutExploitation: an investment, and the constraint has not
\* moved since the sprint before.
HasElevationWithoutExploitation(toc) ==
  toc.investment /\ toc.constraint # 0 /\ toc.constraint = toc.lastSprint

-----------------------------------------------------------------------------
(* The release controller *)

\* floor((1 - Penetration) * drip); without a buffer the penetration is 0.
\* In floating point the code's value is one less for a drip of 3 or 5 and
\* some targets, e.g. 2 of 6; with a drip of 1 or 2 the two are equal.
ShouldAdmit(toc) ==
  IF toc.buffer = None THEN Drip
  ELSE (Smaller(toc.buffer.queue, toc.buffer.target) * Drip) \div toc.buffer.target

\* Mutation: a candidate is enough.
WarmupExitUnconfirmed(toc) == toc.candidate # 0

\* A constraint is locked, with at least medium confidence.
WarmupExit(toc) == toc.constraint # 0 /\ toc.confidence >= 500

NextWarmup(toc) ==
  IF warmup # "active" THEN warmup
  ELSE IF WarmupExit(toc) THEN "exited"
  ELSE IF sprintNumber >= WarmupLimit THEN "failed"
  ELSE "active"

Active == {t \in Tickets : phase[t] \in Phases}
Backlog == {t \in Tickets : phase[t] = 0} \ committed

\* The start of a sprint triages the backlog.
Triaged == IF sprintNumber = 0 THEN {} ELSE Backlog

\* The head of the backlog is committed, as far as there is headroom.
RunReleaseController(toc, chosen) ==
  /\ chosen \subseteq Triaged
  /\ Cardinality(chosen) =
       IF NextWarmup(toc) = "exited" THEN Smaller(ShouldAdmit(toc), Cardinality(Triaged)) ELSE 0

-----------------------------------------------------------------------------
(* The simulation *)

sprint == endDay > 0

\* The simulation as an analyzer sees it now.
Now == SimOf(day, phase, entered, waiting, sprint, sprintNumber, invested)

Init ==
  /\ day = 0
  /\ phase = [t \in Tickets |-> 0] /\ entered = [t \in Tickets |-> 0]
  /\ waiting = {} /\ committed = {}
  /\ endDay = 0 /\ sprintNumber = 0
  /\ warmup = "active" /\ invested = None /\ budget = Budget
  /\ driver \in Drivers
  /\ own = NewTOCState /\ shown = NewTOCState /\ unseen = <<>>
  /\ spentAfter = 0 /\ starts = <<>>

\* The events of a step reach an interface that follows.  Of those after which
\* an analyzer sees the same one is kept.
Emitted(sims) == unseen' = IF driver = "followed" THEN unseen \o sims ELSE unseen

\* The runner has not updated its tracker since the sprint began.
Untracked == shown.prevNumber < sprintNumber

\* StartSprint: as much as there is capacity for is committed, unless the
\* release controller has taken over.
StartSprint ==
  /\ ~sprint /\ day < MaxDay[driver]
  /\ driver = "runner" => ~Untracked
  /\ endDay' = day + SprintLength /\ sprintNumber' = sprintNumber + 1
  /\ \E more \in SUBSET Backlog :
       /\ warmup = "exited" => more = {}
       /\ committed' = committed \cup more
  /\ UNCHANGED <<day, phase, entered, waiting, warmup, invested, budget, driver, own,
                 shown, spentAfter, starts>>
  /\ Emitted(<<Now'>>)

\* AssignTicket: between ticks, to an idle developer, from either list.  The
\* runner assigns after it has started the sprint and after each tick.
AssignTicket(t) ==
  /\ phase[t] = 0 /\ day < MaxDay[driver]
  /\ driver = "runner" => Untracked
  /\ phase' = [phase EXCEPT ![t] = 1]
  /\ entered' = [entered EXCEPT ![t] = day]
  /\ committed' = committed \ {t}
  /\ UNCHANGED <<day, waiting, endDay, sprintNumber, warmup, invested, budget, driver,
                 own, shown, spentAfter, starts>>
  /\ Emitted(<<Now'>>)

\* SpendInvestment, between sprints, if it can be afforded; the runner never does.
SpendInvestment(o) ==
  /\ ~sprint /\ sprintNumber > 0 /\ day < MaxDay[driver] /\ driver # "runner"
  /\ budget > 0 /\ budget' = budget - 1
  /\ invested' = o
  /\ spentAfter' = sprintNumber
  /\ UNCHANGED <<day, ticketVars, endDay, sprintNumber, warmup, driver, own, shown, starts>>
  /\ Emitted(<<Now'>>)

Occupancy(snapshot, p) == Cardinality({t \in DOMAIN snapshot : snapshot[t].phase = p})

\* Mutation: the handlers update their tracker with the state they read.
TrackStale(sim) == shown' = IF driver = "runner" THEN shown ELSE Update(shown, Now)

\* The handler that ticks updates its tracker with the state it has got.
Track(sim) == shown' = IF driver = "runner" THEN shown ELSE Update(shown, sim)

\* A tick: the day, work, the engine's analyzer, the release controller, the
\* assignment pass and the end of the sprint; then the tracker.  Only the
\* interface ticks without a sprint.
Tick ==
  /\ day < MaxDay[driver]
  /\ sprint \/ driver = "handlers"
  /\ UNCHANGED <<sprintNumber, invested, budget, driver, spentAfter>>
  /\ day' = day + 1
  /\ endDay' = IF day' >= endDay THEN 0 ELSE endDay
  /\ \E moved \in SUBSET (Active \ waiting) :
       LET queued == waiting \cup {t \in moved : phase[t] < NumPhases}
           seen(ph, en, wait) == SimOf(day', ph, en, wait, sprint, sprintNumber, invested)
       IN /\ phase' = [t \in Tickets |-> IF t \in moved THEN phase[t] + 1 ELSE phase[t]]
          /\ entered' = [t \in Tickets |-> IF t \in moved THEN day' ELSE entered[t]]
          /\ own' = Update(own, seen(phase', entered', queued))
          /\ \E taken \in SUBSET queued : waiting' = queued \ taken
          /\ Emitted(<<seen(phase, entered, waiting), seen(phase', entered', queued),
                       seen(phase', entered', waiting'), Now'>>)
  /\ warmup' = NextWarmup(own')
  /\ \E chosen \in SUBSET Backlog :
       RunReleaseController(own', chosen) /\ committed' = committed \cup chosen
  /\ Track(Now')
  /\ starts' = IF DOMAIN own.prev = {} THEN starts
                ELSE Push(starts, [p \in Phases |-> Occupancy(own.prev, p)])

\* The batch runner and the comparison look once the sprint is over.
TrackSprint ==
  /\ driver = "runner" /\ ~sprint /\ Untracked
  /\ shown' = Update(shown, Now)
  /\ UNCHANGED <<day, ticketVars, endDay, sprintNumber, warmup, invested, budget, driver,
                 own, unseen, spentAfter, starts>>

\* eventMsg: the interface handles an event of another writer, long after that
\* writer's handler has updated the same tracker, perhaps.
FollowEvent ==
  /\ unseen # <<>>
  /\ shown' = Update(shown, Head(unseen)) /\ unseen' = Tail(unseen)
  /\ UNCHANGED <<day, ticketVars, endDay, sprintNumber, warmup, invested, budget, driver,
                 own, spentAfter, starts>>

Next ==
  \/ StartSprint \/ Tick \/ TrackSprint \/ FollowEvent
  \/ \E t \in Tickets : AssignTicket(t)
  \/ \E o \in Options : SpendInvestment(o)

Spec == Init /\ [][Next]_vars

-----------------------------------------------------------------------------
(* Properties *)

\* The two analyzers identify the same constraint with the same confidence.
AnalyzersAgree ==
  /\ own.ring = shown.ring
  /\ own.candidate = shown.candidate /\ own.consecutive = shown.consecutive
  /\ own.constraint = shown.constraint /\ own.confidence = shown.confidence

\* The handlers that update the tracker after each tick, and only then, keep the
\* two analyzers together: they look at different moments of the tick, but
\* nothing between them moves a ticket.
HandlersAgree == driver = "handlers" => AnalyzersAgree

\* engine.go:75: the tracker's analyzer is "deterministic from same sim ->
\* consistent values at the same tick" as the engine's: once the interface has
\* handled every event, or the runner updated its tracker.
SameTickAgrees ==
  unseen = <<>> /\ (driver = "runner" => ~Untracked) => AnalyzersAgree

\* What the release controller acts on is what is displayed.
BuffersAgree == driver = "handlers" => own.buffer = shown.buffer

\* A candidate is what the analyzer's present window says: no early return of
\* the identification and no pause without tickets leaves an old one in place.
\* So a constraint is never kept without a winner, and never before the window
\* is full.
FollowsWindow(toc) ==
  IF Len(toc.ring) < Window THEN toc.candidate = 0 /\ toc.constraint = 0
  ELSE toc.candidate = Winner(toc.ring) /\ (toc.constraint # 0 => toc.candidate # 0)

\* The analyzer that steers the release, updated once a day by the engine.
CandidateIsWinner == FollowsWindow(own)

\* The analyzer that is shown, however often it is updated, in the middle of
\* ticks and with states older than it has seen.
ShownIsWinner == FollowsWindow(shown)

\* The window counts no arrival twice and no departure that was not there: what
\* was in a phase before the window, with the arrivals and without the
\* departures, is not more than what is in it now.  It can be less, since
\* tickets that arrive after a day without any are not counted.
WindowBalances ==
  starts # <<>> =>
    \A p \in Phases :
      starts[1][p] + Arrivals(own.ring, p)
        <= Occupancy(own.prev, p) + Departures(own.ring, p)

\* toc_state.go:40: "tickets entering each phase this tick".
ArrivalsAreCounted ==
  starts # <<>> =>
    \A p \in Phases :
      starts[1][p] + Arrivals(own.ring, p)
        = Occupancy(own.prev, p) + Departures(own.ring, p)

\* The warm-up is exited on the very day the first constraint is confirmed, by
\* the phase that has won every evaluation of the hysteresis: the threshold on
\* the confidence, which fades, never lets an older constraint decide.
ExitIsConfirmation ==
  [][warmup = "active" /\ warmup' = "exited" =>
       /\ own'.constraint = own'.candidate /\ own.constraint = 0
       /\ own'.consecutive = Hysteresis]_vars

\* use-cases.md:1691: the "trigger fires when an investment was applied this
\* cycle AND the constraint phase did not change".
LessonSeesInvestment ==
  driver = "handlers" /\ sprint /\ spentAfter > 0 /\ spentAfter = sprintNumber - 1
    /\ shown.prevSprint /\ shown.constraint # 0 /\ shown.constraint = shown.lastSprint
    => HasElevationWithoutExploitation(shown)

\* use-cases.md:1639: the release is throttled to zero only "until penetration
\* recovers".  With nothing in flight the analyzer is not updated, so what is
\* zero then stays zero.
ReleaseResumes ==
  warmup = "exited" /\ Backlog # {} /\ committed = {} /\ Active = {} /\ DOMAIN own.prev = {}
    => ShouldAdmit(own) > 0
=============================================================================
