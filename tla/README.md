# Formal model of sofdevsim

sofdevsim simulates a software team: tickets flow through phases, sprints start
and end, a day is a *tick*. The simulation is event sourced: an engine value
holds a projection of the events, every operation emits events, and an
in-memory store keeps the stream and checks versions. A REST API and a terminal
interface may run one simulation together. This directory holds TLA+
specifications of that system, TLC configurations that check them on small
instances, and proofs checked by TLAPS.

## Inventory

| part | state it keeps | operations | talks to | what is hard | what makes it correct |
|---|---|---|---|---|---|
| event store (`events/store.go`) | events and subscriber channels per simulation, a lock | Append with expected version, Replay, Subscribe, Unsubscribe | engines append; subscribers receive | versions are the only concurrency control; a full channel loses events | appends happen at the end only; subscribers see the stream in order |
| projection (`events/projection.go`) | simulation, version, set of processed event IDs | Apply | engine, subscribers | own events come back through the subscription | each event is applied once; a projection is a function of the stream |
| engine (`engine/engine.go`) | projection, seeded models, TOC analyzer (shared pointer) | Tick, StartSprint, AssignTicket, TryDecompose, SetPolicy, SpendInvestment, loading | store | a tick emits many events one by one; a failure half way | all of an operation's events or none |
| registry (`registry/registry.go`) | one instance per simulation, a lock | CreateSimulation, GetInstanceOption, SetInstance, UpdateOffice, SpendInvestment | handlers, terminal interface | read, run and write back under separate locks | the registry's engine is the newest |
| API (`api/`) | none of its own; goroutine per request | create, start, tick, assign, decompose, policy, invest, reads | registry, engine, dedup | concurrent requests, retries, partial emits | a request takes effect once or not at all |
| deduplication (`api/dedup.go`) | cached responses with expiry, a lock | lookup, store, clean-up loop | wraps the API | duplicates in flight, expiry, clean-up | a duplicate does not run again |
| terminal interface, engine mode (`tui/app.go`) | its own engine, subscription, read-only flag, pause, view, timers | keys, tickMsg, eventMsg, save and load | store, registry | its event loop races the API; timers | one writer; every event seen; one timer |
| terminal interface, client mode (`tui/client.go`) | last state, in-flight flag, pause, view | HTTP calls | API | late answers, requests given up and yet executed, other clients | what is shown never goes back, and a key goes on |
| ticket flow (`engine/engine.go`, `engine/assignment.go`, `model/simulation.go`) | the lists of tickets, the phase queues, who works on what and who mentors whom | the turns of the developers, hand-offs, the assignment pass, decomposition | release controller, investments, batch driver | the same facts are kept in several places and changed by different events; caps, queues and busy people delay one another | no ticket is lost, doubled or stuck; the copies agree |
| release controller, investments, rope, WIP caps | warm-up flags, budget, CI/CD slots, caps | run within Tick and between sprints | engine | many interacting limits | limits hold; the warm-up ends, once |
| batch driver (`batch/runner.go`, and the comparisons of API and interface) and sizing policies (`engine/policies.go`) | none of their own | decompose, start, hand out, tick | engine | loops that only the state ends | every ticket gets done; every loop ends |
| office animation (`office/`) | a state, a walk and a bubble per developer | Record of events | interface, handlers, registry | keys, ticks, frames and requests move the same people; two writers of one picture | the office tells the truth about the simulation, in both places |
| start-up (`cmd/`, `tui/server.go`) | who holds the port, which simulations a process has | probe, listen, create, run, idle shutdown | interfaces, headless servers | every start is several steps and others start too | no two interfaces on one simulation by accident; no start hangs |
| constraint analyzer (`metrics/toc_state.go`) | a window of days, candidate, constraint, confidence, buffer | Update once a day | engine, release controller, display, lessons | two copies fed at different moments; early returns; fading | the copies agree; the window counts right |
| lesson on buffer crises (`lesson/`, `zkproof/detector.go`) | flags and ticks of the crisis, recorded zone changes | days, answers of the user, detection | an engine of its own | the same story is told twice | a recovered lesson can be proved |
| persistence (`persistence/`) | files | save, load as a stream of events | interface | what the loader does not emit is lost | tickets, team and sprint come back |
| other metrics, selection of lessons, export, telemetry | derived data, files | reads of the simulation | all | rounding | what is reported is what happened |

`PROJECT.json` lists the same parts with their files, what is modelled of each,
and the hazards of the code line by line.

## Modules

| module | models | state and actions |
|---|---|---|
| `EventStore` | `MemoryStore` of one simulation and `Projection` | `log` is the stream, `chan` the subscriber channels. A projection is the *sequence of events it has applied*: its version is the length, its processed set the range. `StoreAppend` is `Append`, `Receive` a channel receive |
| `Commands` | which commands a state allows and the block of events each emits | pure operators over a history: `Allowed`, `Blocks`, `SprintActive`, `SprintEnds`, `WindowOpen` |
| `AtomicSim` | the promise to API clients | one history and what readers are shown of it; a request adds its whole block and is answered "ok" (`Serve`), or adds nothing (`Decline`); one that has nothing to add may put an older state back on show (`Miss`) |
| `SharedSim` | registry and handlers on one simulation | one process per request: `Begin`, `Read` (or `ReadCreate`), `Emit` once per event, `EmitConflict` (retry or give up), `SetInstance`/`Insert`; `Invest` is one step since `SpendInvestment` holds the registry lock. `ends` and `setBack` are history: the lengths of the stream between operations, and whether a decomposition that found nothing has set the registry back |
| `MCSharedSim` | instance for TLC | sets of clients, symmetry |
| `SharedSim_proofs` | theorems about `SharedSim`, and about `CoTenancy` | its first part, on the requests, uses nothing of `CoTenancy` |
| `CoTenancy` | `SharedSim` with the terminal interface | the interface registers the simulation, keeps `tui`, and runs an event loop: `Act`, `TuiEmit`, `TuiConflict`, `HandleOwn`, `HandleExternal`; the listener is `Take` |
| `MCCoTenancy` | instance for TLC | |
| `AutoTick` (used by `Interface`) | the timers of the interface | keys `Tab`, `Space`, `StartSprint`; `Fire*` is tickMsg; another writer |
| `Dedup`, `MCDedup` | the deduplication middleware | `Lookup` (read lock), `Decide` (clock), `Store` (write lock), `CleanUp`, `Pass`; its specification is `DedupSpec`, so that a module can extend it beside the client's |
| `Flow` | the engine on one simulation | commands `StartSprint`, `AssignTicket`, `Decompose`, `Invest`; a tick is `BeginTick`, one `Work` per developer (`PassOver`, `Progress`, `HandOff` or `Complete`), `Control`, then `AssignHead`/`NextSlot` per assignment of the pass, `EndTick`. The variables are the fields of the simulation, its tickets and developers, under their names in the code; `hands` alone is history |
| `MCFlow` | instance for TLC | a senior, a developer who is new to CI/CD and senior in reviews, and a recruit |
| `Flow_proofs` | theorems about `Flow` | |
| `Batch` (extends `Flow`), `MCBatch` | the loop that drives a run unattended | `Split1`, `Plan`, `HandOut`, `HandedOut`, `BatchTick` over the actions of `Flow` |
| `Sizing` | the loop that decomposes a backlog | one line of descent: `Scan`, `Split` |
| `Replay`, `MCReplay` | the engine as it is written: a step decides which events to emit, the projection applies one after the other | `sim` is the simulation the events give, `plan` what the running step has still to emit. An event is a record, `On...` what the projection makes of it, `Decide` ends a step of a command, `Emit` is one append. `Saved`, `LoadEvents` and `LoadFile` are a save and a load |
| `Office` | the office's events and their two derivations | pure operators: an office is a function from developers to animations; `UpdateDeveloperAnimationStates` is the interface's derivation, `DeriveOfficeEvents` the API's |
| `Interface` (extends `AutoTick` and `Office`) | the interface as its user sees it, and the registry's office | keys, tick timer, animation timer (`Frame`, with the opening), events of another writer, and that writer's request: it reads, appends or is refused or finds nothing to append, and writes back (`RequestReads`, `RequestAppends`, `RequestRefused`, `RequestMisses`, `RequestWritesBack`) |
| `ClientMode` | the interface as an HTTP client | a call is sent, served, answered, given up or served late; `OtherClient` |
| `Constraint`, `MCConstraint` | the constraint analyzers, the release controller that acts on one of them, and the lesson that is triggered by the other | an analyzer is a record and `Update` a function; `Tick` updates the engine's analyzer, and the controller acts on it. Who updates the tracker's depends on `driver`: the handler that ticks (`Track`), the runner once a sprint (`TrackSprint`), or handlers and an interface that follows their events (`FollowEvent`), through one pointer |
| `CrisisLesson`, `MCCrisisLesson` | the lesson on buffer crises and the detector | the loop of days, looks and questions; `Accumulate` and `DetectBufferCrisis` are the detector's fold |
| `Startup` | the processes of one machine | one action per step of a `main`, `DiscoverOrStart` and the idle monitor |
| `Replay_proofs` | theorems about `Replay` | uses those of `Flow_proofs` on the state that a step's events lead to |
| `ClientMode_proofs` | theorems about `ClientMode`, the client of the API, and about `Dedup`, which stands before it | its two parts use nothing of each other |
| `Interface_proofs`, `Constraint_proofs`, `CrisisLesson_proofs`, `Startup_proofs` | theorems about the module of that name | |

How they fit together: `EventStore` and `Commands` are used by `AtomicSim`,
`SharedSim` and `CoTenancy`; `CoTenancy` instantiates `SharedSim` with one more
writer; `SharedSim` refines `AtomicSim`. These see an operation as a block of
events and do not look into it. `Flow` is the other half: it looks into the
operations of one engine, and since an engine is a value that one caller runs at
a time it needs no concurrency. `Batch` drives `Flow` as its callers do. `Replay` opens the steps of `Flow` into
events and implements it, so what is checked and proved of `Flow` holds of the
engine as written, between steps. `Interface` is the part of the program that
looks at a simulation rather than changes it; `ClientMode` the same from afar;
`Startup` decides which of the two a process becomes.

Abstractions, by module:

- *Events* carry a kind, their writer and the version they were emitted at; the
  last two stand for the globally unique event ID. That an event's stamp is its
  position (`Stamped`) is proved, not assumed.
- *Blocks*: the events of a tick between its `Ticked` and its `SprintEnded`
  (work, hand-offs, assignments, incidents) are up to `MaxWork` events of kind
  `Work`. How many there are does not depend on other writers.
- *Assign* may be refused by the engine in any state (unknown ticket, busy
  developer); *decompose* may find nothing to do in any state (unknown ticket, one the
  policy does not split), and then writes its copy back all the same.
- *Registry locks* are steps: an action is what happens under one lock.
- In `CoTenancy` views are left out, so the interface may press every key in
  every view; saving and loading, the office and ticket selection are left out;
  the interface has subscribed before the API serves its first request.
- In `Flow`, experience is a value for each developer and phase, and a tick needs
  no sprint. Effort is counted in the working days a phase still needs, chosen
  freely when the phase is assigned; what decides it in the code (estimate,
  type, understanding, velocity, variance) is left out. Phases are numbered,
  0 the backlog, 1 Research, `NumPhases + 1` Done. The analyzer's signal to the
  release controller is free. The buffer and the fields that only
  metrics read are left out. The rope is left out: its guards ask for a
  configuration that no event sets. Incidents are in `Replay`, where they
  change nothing `Flow` sees. `FlowAssumption` has `Drip` at most 1, as it
  is wherever a simulation is made: the code's loop over the drip shortens the
  slice it ranges over.
- In `Batch` a driver is chosen for good: "batch" stands for `runOne` and for the
  API's comparison, which do the same, "tui" for the interface's comparison, which
  splits at the moment it hands out. Which tickets the policy would split is
  free, and the number of sprints is not limited, so that what must eventually happen can
  be asked.
- In `Sizing` a size is the number of halvings an estimate needs to come under
  the limit. The draws are fixed at the start, as they are in the code, where
  seed and first letter decide them.
- In `Replay` the saved form keeps the fields that `PersistableSimulation` has.
  How recent a completed ticket must be to cause an incident is free: the code
  asks a date that no event sets, so as written no ticket ever is (a finding). Experience is a constant; a load
  gives everybody Medium (a finding).
- `Interface` leaves what a tick or an event does to developers' work free. The
  states of the registry's office are kept, not its walks. One request of
  another writer is in progress at most; it reads, appends and writes back, and
  once the interface has written, it is refused by the store, unless it has nothing to append.
- In `ClientMode` a simulation is how often it has changed and what is left of its
  sprint. The client's timeout may strike any call at any time.
- In `Constraint` medians are kept doubled and confidences in thousandths, rounded
  down; the code's are floating point. Which ticket moves on a day, and which is
  assigned, is free. Of the events after which an analyzer sees the same one is
  kept. Two updates of one analyzer by two goroutines at once, which no lock
  prevents, are not modelled (a finding).
- In `CrisisLesson` tickets are counted, and what a completion takes from the
  buffer is one of a few values.
- In `Startup` a simulation is created in one step, whoever creates it. Two callers
  of `NewAppWithRegistry` are different processes with registries of their own.
- Operations marked "Mutation" in a comment are plausible bugs. Nothing uses
  them; each property below is violated when one of them replaces the
  definition it is a variant of.

## Runs

| run | instance | shows |
|---|---|---|
| `SharedSim_safety` | 2 requests of all 7 kinds, decompositions that find nothing included, sprint of 1 tick, up to 1 event of work per block, no request begins on a log of 3 or more | operations are all or nothing (`NeverHalfApplied`, and `SharedSim` implements `AtomicSim`), nothing acknowledged is lost or repeated (`AckExactlyOnce`), and the registry is the whole stream unless a decomposition that found nothing has set it back (`RegistryCurrent`); under fairness the registry moves on past every length a request has begun to emit from, however late stale copies are written back (`SomeoneSucceeds`) |
| `CoTenancy_safety` | interface and 2 requests, channel of 1 (so events are lost) | `SingleWriter`, `TuiInOrder`, `ReadOnlyIsComplete` |
| `CoTenancy_follow` | interface and 1 request, channel of 5, five kinds of command, decompositions that find nothing included | `TuiCatchesUp`, `EveryRequestAnswered` |
| `Interface` | 2 developers, 2 tickets, sprint of 2, at most 2 tick timers by keys, walks of up to 2 frames, 1 request of another writer, which may append nothing | `OfficeTellsTruth`, `OfficePublished` (until a request that appended nothing has overwritten it); a sprint left alone ends (`SprintRunsOut`), and so does the opening (`OpeningEnds`) |
| `Dedup` | 3 sends, 2 IDs, lifetime 2, clock to 4 | `NoSequentialRerun`, `AnswerIsNewest` |
| `Flow_safety` | 4 tickets, one of which splits into two; 3 phases, CI/CD second and review third; a senior, one who is new to CI/CD and senior in reviews, and a recruit; 1 slot, warm-up limit and sprint of 2 | nothing lost (`OnePlace`); the copies agree (`QueuesExact`, `OneWorkerEach`, `MentorsAgree`); limits (`CapsHold`); the assignment pass (`WorkConserving`, `ReviewerIsFresh`); the release controller (`DripOnly`) |
| `Batch_live` | the same tickets, 2 developers, a cap of 1 on review, efforts of up to 2 days, both drivers | `EverythingIsDone`, `WarmupEnds` |
| `Replay` | a ticket that splits into two; 3 phases, the team of `Flow_safety` | the engine as written implements `Flow` (`ImplementsFlow`); followers between two events of a step see no worker on a ticket that is not theirs (`WorkersAgree`); `LoadKeepsTickets` at every moment between commands |
| `ClientMode` | 2 requests outstanding, sprint of 2, 4 changes | `ShownIsServer`, `ShownMovesForward`, `CanGoOn` |
| `Constraint` | 3 tickets, 2 phases, window and hysteresis of 2, sprint of 3, warm-up limit 2, one investment; 5 days driven by handlers, 6 by the runner, 3 by handlers and an interface that handles their events late | the handlers' tracker agrees with the engine's analyzer (`HandlersAgree`), whose window counts right (`CandidateIsWinner`, `WindowBalances`); whoever updates the tracker, what is shown is the winner of its own window (`ShownIsWinner`; that it is the engine's constraint is violated, below); the release begins on a confirmed constraint (`ExitIsConfirmation`) |
| `CrisisLesson` | 3 sprints of 4 days, 3 tickets, 3 developers | `LessonIsProvable` |
| `Startup` | 3 interfaces (one `--client`, two with a seed), a headless server, a user of `DiscoverOrStart`; each starts once more at most | `SharingNeedsALostServer`, `StartupEnds` |

The bounds. Two requests are enough for every race of two holders, and the
proofs cover any number. A sprint of one tick makes `Ticked` and `SprintEnded`
one block, the case in which a tick could be cut short; with an event
of work between them it has three. With a log of three both requests begin on a
created or a started simulation, run into a conflict and read again, and go on
after a decomposition that found nothing has set the registry back; what has
begun runs to its end. In
`CoTenancy_safety` a channel of one and a log of four lose events in the middle
of an operation. `MaxLog`, `MaxWork`, `MaxNow`, `MaxTimers`, `MaxRequests`,
`MaxChanges`, `MaxDay`, `MaxStarts` and `MaxTickets` bound the models only.
`MaxTimers` also stops the space bar and `s` at the bound; the timers are
replaced one for one when they fire, so nothing else needs it. Two developers
make those of `Interface` walk, work and be assigned apart from each other; two
frames let a walk end in time or early. `Dedup`, `Constraint` and `Startup` stop
at their bounds, so their deadlock check is off. In `Flow_safety` three phases
are the fewest that have one before, one between and one after, and make the
order of the assignment pass differ from that of the workflow; one slot of CI/CD
and two developers make a head of a queue wait; a split and a hire change the
sets the other actions range over. Every phase takes one day (`MaxEffort` 1)
unless one random event (`MaxNoise` 1) makes it longer, so hand-offs of both
developers in one tick, in either order, all occur; the budget pays one
investment, of either kind. A warm-up limit and a sprint of two make the warm-up
fail, be exited or go on. `Replay` has the same team and one ticket less at
first: a step is several states here. `Batch_live` has efforts of two days and
the cap on the last phase, so developers wait for one another; nothing bounds
the number of sprints. In `Constraint` a window of two is full on the third
day and slides from then on, which in six days is enough for a constraint to be
confirmed, fade, be lost and be replaced, and for a day with nothing in flight. A
tracker that is followed takes four events a day on top of the handlers' update,
so three days fill its window many times over, and the queue of unseen events is not
bounded. Two sprints let the warm-up fail on a day on which it might have ended.
`Budget` bounds the investments. The code's window and hysteresis
are ten, and neither module nor proof uses more of them than their being
positive. In `CrisisLesson` three sprints let a crisis outlive the sprint it began
in. In `Startup` three interfaces are a server, a follower and one that comes when
the server has gone.

Each property is violated by at least one plausible bug in the code it is about;
`PROJECT.json` names it under `mutants`.

Disagreements between the code and its documentation that the models show are
quoted in `PROJECT.json` under `findings`. Some have a configuration of their own
here, which TLC answers with a counterexample:

| configuration | what TLC finds |
|---|---|
| `SharedSim_stale_decompose` (`RegistryIsStream`) | a decompose that emits nothing writes an old engine back over a tick; from then on every append conflicts |
| `SharedSim_create_race` (`LosingCreateIsAlreadyExists`) | the loser of two creations meets the store's conflict, which no mapping knows, and is answered 500 |
| `CoTenancy_tui_writes` (`RegistryFollowsWriter`) | the interface never writes its engine to the registry, so API writes conflict for ever |
| `CoTenancy_overflow` (`TuiCatchesUp`) | an event dropped by a full channel never reaches the interface |
| `AutoTick_resume` (`OneTimer`) | pause and resume leave two timers, which tick twice per interval |
| `Dedup_overlap` (`NeverRunTogether`) | two duplicates in flight both run the handler |
| `Flow_research_cap` (`ResearchCapHolds`) | a manual assignment puts a ticket into Research without asking for its cap |
| `Batch_gate` (`ReleaseIsGated`) | the batch driver starts tickets of the backlog that the release controller has not let through |
| `Sizing_loop` (`LoopEnds`) | under TameFlow-Cognitive a child may split exactly as its parent did, and the loop never ends; with the other three policies it does |
| `Constraint_starved` (`ReleaseResumes`) | a release throttled to zero stays so once nothing is in flight |
| `Interface_frustrated` (`FrustratedIsOverdue`) | a frustrated developer who gets a fresh ticket stays frustrated |
| `Interface_missed` (`OfficeAlwaysPublished`) | the same decompose writes the office it has read over the one the interface has published since |
| `Startup_seed` (`DefaultSeedStarts`) | the second interface without `--seed` on one server is refused |

The others are properties defined in the modules that TLC finds violated with
the constants of the module's listed run: `MentorsLocked` (`Flow`); `LoadStrandsNothing`
(`Replay`); `SameTickAgrees` (`Constraint`, driven by the runner or followed), `BuffersAgree`
and `ArrivalsAreCounted` (`Constraint`), and `LessonSeesInvestment` (`Constraint` with
handlers only, sprints of 2 and a `Budget` of 2); `RecoveryNeedsWork` (`CrisisLesson`); `SameOffice`,
`OpeningAlwaysEnds` and `BubblesVanish` (`Interface`); `OneTickAtATime`,
`FlagTellsTruth` and `CanGoOnAfterTimeout` (`ClientMode`); `PolicyIsApplied`
(`Batch`); `NoRequestIsCut` and `ServesOrFollows` (`Startup`). Those without a
property were read off the code while it was modelled; the largest is that no
simulation can ever have an incident (`engine/events.go:88`).

## Fairness

- `SharedSim`: weak fairness of each request's step: a goroutine that can run
  does, and no lock is held across steps. Nobody is obliged to send a request.
- `CoTenancy`: the same for requests; weak fairness of the operation in
  progress and of the listener goroutine; *strong* fairness of handling an
  event, since the listener's send waits in the line of the event loop's channel
  while key presses keep interrupting it, and Go's select serves it eventually.
- `Interface`: weak fairness of the tick timer's tick and of the animation timer's
  frame, both of which always arm their next. Keys, events and requests are
  never fair.
- `Dedup`: the clock runs and the clean-up loop runs.
- `Batch`: weak fairness of the whole loop: it is one goroutine that never
  waits. No choice within it is fair; which ticket is handed out, how long a
  phase takes and what the analyzer says may be as bad as they can.
- `Startup`: seconds pass, and each step of a start is taken in the end. Nobody
  is obliged to start, to send a request or to quit.
- `Sizing` and `CrisisLesson`: weak fairness of the loop. `ClientMode` states that
  every request is answered or given up; the properties run are safety.

## What is proved

Each theorem of a `_proofs` module holds for every value of the constants that
the named assumptions of its model allow; `PROJECT.json` lists them with the
property of the runs each of them states. In every module the argument is one
inductive invariant, one lemma per action (or group of actions that change the
same variables) and a theorem per property.

**`SharedSim`** (any clients, sprint length and block size; no bound on the
stream other than that of `Begin`).

    Inv == TypeOK /\ Stamped /\ PhaseOK /\ EnginesArePrefixes /\ HolderAhead

is invariant (`Invariance`). A request is *holding* from its first accepted
append to its write-back. No lock covers that interval; the argument is that the
version check makes it exclusive. A holder's copy *is* the stream, and every
other copy, the registry's included, is strictly shorter (`HolderAhead`), so no
other request can append. The append of a request that is not holding needs a
copy as long as the stream; being a prefix (`EnginesArePrefixes`) it then is the
stream, so by `HolderAhead` nobody else is holding. `Stamped` is needed for
`Apply`, which would ignore an event it took for one it knows. From `Inv` follow
`TypeCorrect`, `PrefixesHold`, `MutualExclusion` and `NoPartialBlock`.

`TicksCountOnce` (`AckExactlyOnce`) counts: the ticks of the stream are those
acknowledged plus those of requests that hold a tick they have appended. A
request with `Ticked` as its next event has not appended one (`TickAhead`), or
the count could grow twice; the version check makes it grow by one.

What is said of the registry has to reckon with a decompose that found nothing: it
meets no version check and writes back whatever copy it has read
(`handlers.go:626`). `CurrentInv == RegistryCurrent /\ Lockstep` does so with the
history `setBack`: as long as no such write-back has shortened the registry,
its engine is the stream when nobody is holding, and a holder's base is its present
length. `RegistryIsCurrent` states the first. `RegistryGoesBackOnlyByMiss` says
that nothing else takes back what a reader has seen, `DoubleCheckIsDead` that
not even such a write-back makes the simulation disappear. None of them
restricts the requests; that the registry without the exception is not current
is the counterexample of `SharedSim_stale_decompose`.

`RefinesAtomic` is the refinement, step by step and for all requests:
`SharedSim` implements `AtomicSim` with the stream up to the last whole operation
(`Settled`) as its history and the registry's engine as what is shown. Reads and
appends stutter, a write-back with events is `Serve`, one without is `Miss`. A
registry that has been set back does no harm to the history: whoever reads it
has a copy too short to append. `BlockInv` carries a block from the read to the
write-back: what a request has appended and what it still has to append are
together a block that the state it read allows, for a state, kind of request and
block that are remembered by existence only.

**`CoTenancy`** (in the same module). `CoInv` adds to `Inv` that either the
interface or the API has extended the stream after its creation
(`TuiAlone \/ ApiAlone`), where the event loop is (`Loop`), and what the interface
has heard and what is on its way (`Heard`). `CoInvariance` holds with
any channel, also one that is full: nothing that is said of the order depends on an
event not being lost. `OnlyOneWrites` is the argument of `Inv` with one more
writer, whose engine is never written to the registry: whoever comes second has
an engine too old for ever. `AppliedInOrder`, `BadgeIsEarned` and `BadgeIsObeyed`
follow from `Heard`, and the last because the badge is set between operations.

**`Flow`** (any tickets, developers, team, phases, caps, slots, investments and
lengths).

    IInv == TypeOK /\ Apart /\ Family /\ Steady /\ OneWorkerEach /\ QueuesExact

is invariant (`FlowInvariance`). `Apart` and `Family`
are `OnePlace` taken apart: that only the backlog is triaged is needed for the
release controller, which moves triaged tickets only. `Steady` carries what the
types need: a sprint that goes on has a day left, or `daysLeft` would become
negative; the team never shrinks below the first one, or the next recruit could
not be counted; an active ticket is in one of the phases, or a hand-off would
have no queue to go to. It also says that a completed ticket's phase is Done,
which a load relies on. `OneWorkerEach` and `QueuesExact` need each other: the
head of a queue is free to be assigned *because* `QueuesExact` says that it
waits, which says that it has no developer; and a hand-off may append *because*
`OneWorkerEach` says that the ticket has one and so is in no queue. That a
queue holds nothing twice makes `Tail` remove the ticket and not only one of its
entries. From `IInv` follow `FlowTypeCorrect`, `TicketsInOnePlace`,
`QueuesStayExact` and `OneWorker`.

With `IInv`, and one more part each:

- `MentorsStayInverse`: a mentor's ticket is active (`MInv`), so that completing
  a ticket is the one place where the entries of its phases could be left behind.
- `CapsAreKept`: what is in flight in a phase changes by one at a time, and grows only
  behind the guard; the cap of CI/CD grows with the slots and no cap shrinks.
- `NothingLeftUndone`: `WInv` says it of the queues the pass has been through
  (`Passed`). It is inductive because an assignment takes a developer away and
  fills phases, never the reverse: what could not be assigned still cannot,
  although the pass does not follow the order of the workflow.
- `ReviewersAreFresh`: `HInv` ties the contributors, which the code records at a
  hand-off, to the history of who has worked on a ticket. They differ in the one who
  works on it now, who is not there when it waits for review.
- `OnlyDripCommits` and `WarmupIsDecidedOnce` from `IInv` alone.

**`Replay`** (any constants `Flow` is proved for). `Whole`, the state that what
is left of a step's events leads to, is the state of `Flow`.

    RInv == P!IInv /\ IsList(plan) /\ Good(sim, plan) /\ ...

is invariant (`ReplayInvariance`): `Whole` satisfies Flow's `IInv`, and after
any number of the planned events workers and tickets agree (`Good`). A step that
decides extends `plan` by events whose fold is what the action of `Flow` does at
once, one lemma per action (`...Maps`), with an `After...` lemma for what each
event changes and leaves; the emission of an event moves it from `plan` to `sim`
and leaves `Whole` as it is. So `EventsImplementFlow`: every theorem about
`Flow` holds of the engine that emits. `ReadersSeeOneWorker` is the other half,
about the moments `Flow` does not have: a hand-off releases the developer in an
event before the ticket is queued, a completion takes the ticket from the active
ones and its developer in one, a start and a hand-off's next assignment set both
in one, and most other events leave both alone (`IsQuiet`).
`LoadRestores` folds a load's events list by list: the new projection, the
team, the backlog; then the active tickets and the completed ones, each created
and moved on in a few events (`RestoreOne`, `FinishOne`) without touching what
the others have become. It needs of the saved state that the lists are apart,
that only the backlog is triaged, that completed tickets are Done (their phase
is not restored: they are completed anew) and that a sprint's number is not
above the limit at which `SprintStarted` cuts it off: all of it is `IInv`.

Folds are reasoned about without induction over sequences. `FoldLeft` is defined
by a recursive function over sets of indices; the lemma `FoldExists` shows by
the least counterexample that there is such a function, and from there a fold
over events is a sequence of states each of which is one event from the one
before (`RunExists`, `RunBoth`). `CrisisLesson_proofs` and `Constraint_proofs` do
the same for the detector's fold and for the sums of a window.

**`Dedup`** (any sends, IDs, lifetime; in `ClientMode_proofs`). Between the
lookup and the decision the cache may change, so the invariant speaks of what a send has *seen* and what it
has *hit*: `HitIsNewest` and `HitIsComplete` are `CacheIsNewest` and
`CacheIsComplete` at the moment of the lookup, and they stay true since entries
only get older. `CacheIsComplete` is what the clean-up could break: an entry may
be gone only if it is not fresh. `DedupInvariance`, `CachedIsNewest`, `NoRerun`.

**`ClientMode`** (any number of outstanding requests, sprint length and number
of changes). As long as requests follow one another one is awaited at a time
(`OneAwaited`) and what is shown lies before what is answered, which lies before the server
(`ShownIsPast`): `NeverBackInTime`. `Follows` says how far the one request of a
client that nothing has disturbed has come, among it the window between the
assignment and its refresh: `ShowsTheServer`, `NeverStuck`. The proof found
guards of a CASE in `Executes` that overlapped, which TLA+ leaves open and TLC
decides by their order; they now exclude one another.

**`Constraint`** (any tickets, phases, window, hysteresis and fading).
Handlers feed the tracker's analyzer at another moment of the day than the
engine feeds its own. The snapshots then differ in what has arrived but waits,
and nothing that is measured depends on that (`Alike`):
`HandlersNeverDisagree`. It says nothing of a runner or of an interface that follows: there
the two do disagree (`SameTickAgrees`). `Tracks` is the state machine of one
analyzer, of either and under any sequence of updates: `CandidateIsPresent`,
`ShownIsPresent`, and with "no constraint is known while the warm-up goes
on" `WarmupExitsOnConfirmation`: the confidence never decides the exit, whatever
the fading. `WInv` is about the window: its days form a chain (`Links`), in which
what was in a phase and what was counted in is left or has been counted out, the
last link ends in what is in flight now, and a new day adds a link and drops the
first. A sum over the window is the last of its partial sums (`SumIs`), which the
chain adds up: `WindowsBalance`. The tickets are assumed to be finitely many,
since what is in a phase is counted.

**`Interface`** (any team, sprint, walks and bubbles). `OfficeTellsTruth` is not
inductive: of a sprint that has not ticked it says nothing, and the first tick
must find people where it can move them from. `Place` adds that such a sprint
leaves everybody where the time between sprints left them, and that nobody is on
the way to conference once the office has opened; `Before` that nothing happens
until then. `RegistryShowsTheScreen` needs to know of a request what it may still
write: one that appended has left the interface behind, one that was refused
writes nothing, and one that had nothing to append is the one that
`overwritten` remembers. `OfficeIsTrue`, `TimersNeverDie`: the last is the safety half of
`SprintRunsOut`.

**`CrisisLesson`** (any number and length of sprints). A change is recorded at the
clock of the day that is looked at, and the clock passes it before the next
(`InThePast`), so the changes are one unbroken story (`ChangesAreAChain`, `OneStory`). `PInv` adds what the detector makes of the changes so
far (`SameStory`): it is in a crisis, begun at the lesson's tick, while the
lesson is, and it has completed none until the lesson is over. A new change
takes the detector's fold one step further (`FoldAppend`), whatever it has seen
before; that ticks are positive (`Dated`) is why 0 may stand for "not yet" in
the lesson's flags. `LessonCanBeProved`.

**`Startup`** (any interfaces, servers and library callers, flags, and number of
starts). `HomesServe`: the server an interface has found, and has not lost, still
has the port, so two of them have found the same; `OneEach`: in one registry no
two of them created the same simulation, since a seed that is taken is refused.
`NoAccidentalSharing`, `OwnServerIsThere`.

Assumptions are those named in the models. `SharedSim`: clients are writers,
the event kinds are among the kinds of the store, bounds are naturals, a sprint
has at least one tick. `CoTenancy`: the interface is a writer and no client, and
the one subscriber. `Flow`: children have one parent and
no children of their own; no developer is twice in the team or to be hired; CI/CD
and review are two different phases, neither of them the first; caps, slots and
lengths are positive. `Startup`: the three kinds of process are different
programs. The others ask for positive lengths and limits, and for bounds that
are naturals.

Every safety property of a run is proved. The liveness properties stay with
TLC (`SomeoneSucceeds`, `TuiCatchesUp`, `EveryRequestAnswered`, `SprintRunsOut`,
`OpeningEnds`, `EverythingIsDone`, `WarmupEnds`, `StartupEnds`): they rest on
fairness, which the prover does not reason about. `Batch` adds to `Flow` an order
of its steps, about which its liveness is all that is claimed; `Sizing` is
checked by its own configuration only.

## Plan

Done: the event-sourced core with its API (`SharedSim`), the terminal interface
beside it (`CoTenancy`, `AutoTick`, `Interface` with `Office`), from afar
(`ClientMode`), deduplication (`Dedup`), the ticket flow with its policies and
drivers (`Flow`, `Batch`, `Sizing`), as events and through a save and load
(`Replay`), the constraint analyzer with the release controller (`Constraint`),
the lesson on buffer crises (`CrisisLesson`), start-up (`Startup`); the
safety properties of all runs proved, and the refinements of `AtomicSim` by
`SharedSim` and of `Flow` by `Replay`. Next, in this order:

1. *Registration and subscription* as two steps in `CoTenancy`.
2. *A load beside the API* (`app.go:1000-1070`) in `CoTenancy`.

## Not modelled

Rendering, styles and the view models: functions of a state, for the eye. HTML
and CSV export, aggregation and telemetry: they read finished runs and write
files. DORA averages, the fever chart and the comparison's verdict: floating
point arithmetic over finished tickets; reading them gave two findings. The
selection of lessons: a list of conditions on one state, of which the one with a
history is in `Constraint`. The rope: its guards ask for a configuration no event
sets. Upcasting: no upcaster is registered. The prover behind the lesson: an
external program. Flags and configuration files.
