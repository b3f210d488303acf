----------------------------- MODULE Interface ------------------------------
(***************************************************************************)
(* The terminal interface in engine mode as its user sees it: the timer    *)
(* that drives the simulation (AutoTick) together with the animated office *)
(* (Office), which has a timer of its own, opens with everybody walking to *)
(* the conference room while keys are blocked, and is published to the     *)
(* registry, where the requests of another writer put offices of their own *)
(* (tui/app.go, api/handlers.go).                                          *)
(*                                                                         *)
(* What a tick or another writer's event does to the developers' jobs is   *)
(* free here; Flow says what it can be.                                    *)
(***************************************************************************)
EXTENDS AutoTick, Office

CONSTANTS
  Stagger,      \* frames between two developers setting out (6 in the code)
  Stock,        \* tickets in the backlog: bounds the assignments (model only)
  MaxRequests   \* requests of another writer (model only)

ASSUME InterfaceAssumption ==
  Stagger \in Nat \ {0} /\ Stock \in Nat /\ MaxRequests \in Nat

VARIABLES
  office,       \* officeProjection
  jobs,         \* what each developer works on in the simulation
  opening,      \* openingAnimation
  nextDev,      \* openingNextDevIdx, from 1
  staggered,    \* openingStaggerTicks, counted up to Stagger
  backlog,      \* tickets left to assign
  ticked,       \* history: this sprint has ticked here
  published,    \* the states of the registry's office
  requests,     \* how many have been sent by another writer
  request,      \* another writer's request in progress, with the office of
                \* the instance it has read and will write back
  overwritten   \* history: a decompose that missed has put an older office
                \* back, and nothing has been published since

officeVars == <<office, jobs, opening, nextDev, staggered, backlog, ticked,
                published, requests, request, overwritten>>
allVars == <<vars, officeVars>>

NoRequest == [at |-> "none", office |-> InConference]

Pictures == [Devs -> {"idle", "conference", "working", "frustrated"} \cup Walking]

IType ==
  /\ TypeOK
  /\ office \in [Devs -> Animation] /\ jobs \in [Devs -> Jobs]
  /\ opening \in BOOLEAN /\ nextDev \in 1..(NumDevs + 1) /\ staggered \in 0..Stagger
  /\ backlog \in 0..Stock /\ ticked \in BOOLEAN
  /\ published \in Pictures /\ requests \in 0..MaxRequests
  /\ request.office \in Pictures
  /\ request.at \in {"none", "read", "appended"} /\ overwritten \in BOOLEAN

\* NewAppWithRegistry, then EnableOpeningAnimation: the registry has everybody
\* in conference already, the interface starts at the cubicles.
IInit ==
  /\ Init
  /\ office = NewOfficeState /\ jobs = [d \in Devs |-> "none"]
  /\ opening = TRUE /\ nextDev = 1 /\ staggered = 0
  /\ backlog = Stock /\ ticked = FALSE
  /\ published = InConference /\ requests = 0 /\ request = NoRequest
  /\ overwritten = FALSE

Published(p) == published' = p /\ overwritten' = FALSE
Unpublished == UNCHANGED <<published, overwritten>>

\* syncOfficeToRegistry: UpdateOffice with the office as it is now.
Publish == Published(Picture(office'))

-----------------------------------------------------------------------------
(* Keys, blocked during the opening *)

\* Mutation: keys work from the start.
KeysNeverBlocked == TRUE

KeysWork == ~opening

\* Only changing the view publishes the office.
PlainKey ==
  /\ KeysWork
  /\ UNCHANGED <<office, jobs, opening, nextDev, staggered, backlog, requests, request>>
  /\ \/ Tab /\ Publish /\ UNCHANGED ticked
     \/ Space /\ Unpublished /\ UNCHANGED ticked
     \/ StartSprint /\ Unpublished /\ ticked' = FALSE

\* Mutation: the office is changed without being published.
AssignUnpublished(d) ==
  /\ jobs' = [jobs EXCEPT ![d] = "fresh"]
  /\ office' = DevAssignedToTicket(office, d)
  /\ Unpublished

\* The chosen developer leaves for the cubicle, and the registry is told.
Assigned(d) ==
  /\ jobs' = [jobs EXCEPT ![d] = "fresh"]
  /\ office' = DevAssignedToTicket(office, d)
  /\ Publish

\* 'a': the selected ticket of the backlog goes to the first idle developer.
\* A conflict changes nothing.
AssignKey ==
  /\ KeysWork /\ ~readOnly /\ view = "planning" /\ backlog > 0 /\ ~behind
  /\ \E d \in Devs : /\ jobs[d] = "none"
                     /\ \A e \in 1..(d - 1) : jobs[e] # "none"
                     /\ Assigned(d)
  /\ backlog' = backlog - 1
  /\ wrote' = TRUE
  /\ UNCHANGED <<timers, paused, view, left, behind, readOnly,
                 opening, nextDev, staggered, ticked, requests, request>>

-----------------------------------------------------------------------------
(* The tick timer *)

\* Mutation: the end of a sprint sends nobody back.
AfterTickStay(o) == UpdateDeveloperAnimationStates(o, jobs')

\* The states are updated and, without a sprint, everybody returns.
AfterTick(o) ==
  LET p == UpdateDeveloperAnimationStates(o, jobs')
  IN IF left' = 0 THEN AllEnterConference(p) ELSE p

TickFires ==
  \/ (FireIdle \/ FireConflict) /\ UNCHANGED officeVars
  \/ /\ FireTick
     /\ jobs' \in [Devs -> Jobs]
     /\ office' = AfterTick(office)
     /\ ticked' = TRUE /\ Publish
     /\ UNCHANGED <<opening, nextDev, staggered, backlog, requests, request>>

-----------------------------------------------------------------------------
(* Another writer *)

\* What a request makes of the office of the instance it read: a tick derives
\* events, an assignment moves the developer, any other leaves it alone.
RequestedOffice(p) ==
  {p} \cup {AssignedByRequest(p, d) : d \in Devs}
      \cup {DeriveOfficeEvents(p, before, after, ended) :
              before \in [Devs -> Jobs], after \in [Devs -> Jobs], ended \in BOOLEAN}

RequestReads ==
  /\ request = NoRequest /\ requests < MaxRequests
  /\ requests' = requests + 1
  /\ request' = [at |-> "read", office |-> published]
  /\ Unpublished
  /\ UNCHANGED <<vars, office, jobs, opening, nextDev, staggered, backlog, ticked>>

\* It appends its events.
RequestAppends ==
  /\ request.at = "read"
  /\ OtherWrites
  /\ \E p \in RequestedOffice(request.office) :
       request' = [at |-> "appended", office |-> p]
  /\ Unpublished
  /\ UNCHANGED <<office, jobs, opening, nextDev, staggered, backlog, ticked, requests>>

\* The stream has moved on by this interface's events, which the registry's
\* engine lacks: every attempt is refused and nothing written back.
RequestRefused ==
  /\ request.at = "read" /\ wrote
  /\ request' = NoRequest
  /\ Unpublished
  /\ UNCHANGED <<vars, office, jobs, opening, nextDev, staggered, backlog, ticked, requests>>

\* A decompose that finds nothing to split appends nothing, so no version is
\* checked, and writes back what it has read, its office included.
RequestMisses ==
  /\ request.at = "read"
  /\ published' = request.office /\ request' = NoRequest
  /\ overwritten' = (overwritten \/ request.office # published)
  /\ UNCHANGED <<vars, office, jobs, opening, nextDev, staggered, backlog, ticked, requests>>

\* SetInstance, with its office; its events may have been handled meanwhile.
RequestWritesBack ==
  /\ request.at = "appended"
  /\ published' = request.office /\ request' = NoRequest
  /\ UNCHANGED <<vars, office, jobs, opening, nextDev, staggered, backlog, ticked,
                 requests, overwritten>>

\* eventMsg: bubbles go, whoever was given a ticket walks, the states are
\* updated, and the end of a sprint sends everybody back.
AfterEvent(o) ==
  LET assigned(d) == jobs[d] = "none" /\ jobs'[d] # "none"
      p == [d \in Devs |-> IF assigned(d) THEN DevAssignedToTicket(BubblesExpired(o), d)[d]
                           ELSE BubblesExpired(o)[d]]
      q == UpdateDeveloperAnimationStates(p, jobs')
  IN IF left > 0 /\ left' = 0 THEN AllEnterConference(q) ELSE q

\* One event changes one developer's job at most.
EventArrives ==
  /\ HandleEvent
  /\ \E d \in Devs, j \in Jobs : jobs' = [jobs EXCEPT ![d] = j]
  /\ office' = AfterEvent(office)
  /\ Publish
  /\ UNCHANGED <<opening, nextDev, staggered, backlog, ticked, requests, request>>

-----------------------------------------------------------------------------
(* The animation timer, which always arms its next *)

\* Mutation: everybody but the last sets out.
SetsOutButLast == nextDev < NumDevs /\ (nextDev = 1 \/ staggered + 1 >= Stagger)

\* The first sets out at once, the others Stagger frames after each other.
SetsOut == nextDev <= NumDevs /\ (nextDev = 1 \/ staggered + 1 >= Stagger)

\* The opening's part of a frame, once walks have advanced to o.
Opening(o) ==
  IF opening
    THEN LET p == IF SetsOut THEN DevStartedMovingToConference(o, nextDev) ELSE o
         IN /\ office' = p
            /\ nextDev' = IF SetsOut THEN nextDev + 1 ELSE nextDev
            /\ staggered' = IF SetsOut THEN 0
                            ELSE IF staggered < Stagger THEN staggered + 1 ELSE Stagger
            /\ opening' = ~ \A d \in Devs : p[d].at = "conference"
    ELSE office' = o /\ UNCHANGED <<opening, nextDev, staggered>>

\* The registry is told when a walk has ended, before the next one begins.
Frame ==
  /\ \E arrived \in MayArrive(office) :
       LET o == AnimationFrame(office, arrived)
       IN /\ Opening(o)
          /\ IF arrived # {} THEN Published(Picture(o)) ELSE Unpublished
  /\ UNCHANGED <<vars, jobs, backlog, ticked, requests, request>>

-----------------------------------------------------------------------------
INext == \/ PlainKey \/ AssignKey \/ TickFires \/ EventArrives \/ Frame
         \/ RequestReads \/ RequestAppends \/ RequestRefused
         \/ RequestMisses \/ RequestWritesBack

ISpec == IInit /\ [][INext]_allVars

\* Both timers fire.
IFairSpec == ISpec /\ WF_allVars(TickFires /\ FireTick) /\ WF_allVars(Frame)

-----------------------------------------------------------------------------
(* Properties *)

Alone == ~behind /\ ~readOnly

\* While this interface is the only writer, four handlers and two timers keep
\* the office true to the simulation: between sprints everybody is in the
\* conference room but those who have been given a ticket since; in a sprint
\* that has ticked nobody who has a ticket, however old, sits in conference or
\* looks idle; and nobody is frustrated without a ticket.
OfficeTellsTruth ==
  Alone /\ ~opening =>
    \A d \in Devs :
      /\ left = 0 => \/ office[d].at = "conference"
                     \/ jobs[d] # "none" /\ office[d].at \in {"toCubicle", "working"}
      /\ left > 0 /\ ticked /\ jobs[d] # "none" =>
           office[d].at \in {"toCubicle", "working", "frustrated"}
      /\ office[d].at = "frustrated" => jobs[d] # "none"

\* What the API shows of the office is what the screen shows, but for the
\* opening, until another writer has come, and with one exception: a decompose
\* that missed has put the office it had read back over a newer one, which
\* lasts until the next handler publishes.  Each that changes a state does
\* (syncOfficeToRegistry).
OfficePublished ==
  Alone /\ ~opening /\ ~overwritten => published = Picture(office)

\* Nobody else has appended anything: "see same office rendering as TUI user"
\* (use-cases.md:170) would need no exception.
OfficeAlwaysPublished ==
  Alone /\ ~opening /\ request = NoRequest => published = Picture(office)

\* use-cases.md:170 has API users "see same office rendering as TUI user":
\* whenever no request is in progress and every event has been handled here.
SameOffice ==
  ~behind /\ request = NoRequest /\ ~opening => published = Picture(office)

\* A walk that has begun ends.
WalkersArrive ==
  \A d \in Devs : Walks(office[d]) /\ Alone ~> ~Walks(office[d]) \/ ~Alone

\* Everybody sits down and the keys come alive, unless another writer's events
\* move somebody meanwhile.
OpeningEnds == opening ~> ~opening \/ ~Alone

\* design.md:3087 says developers "walk to the conference room one by one
\* before user input is allowed": the opening is over some time, whoever else
\* writes.
OpeningAlwaysEnds == opening ~> ~opening

\* design.md:2657: the bubble shows "for ~1 second (10 animation frames), then
\* disappears".
BubblesVanish == \A d \in Devs : office[d].bubble > 0 ~> office[d].bubble = 0

\* design.md:2650 has the frustrated animation "when ActualDays >
\* EstimatedDays".
FrustratedIsOverdue ==
  Alone => \A d \in Devs : office[d].at = "frustrated" => jobs[d] = "overdue"
=============================================================================
