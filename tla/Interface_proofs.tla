---------------------------- MODULE Interface_proofs ----------------------------
(***************************************************************************)
(* Theorems about Interface, for any number of developers, length of a     *)
(* sprint, of a walk and of a bubble, and any requests of another writer.  *)
(***************************************************************************)
EXTENDS Interface, TLAPS

\* Until the office has opened nothing else has happened: no sprint, no ticket
\* given out, and somebody is not yet in the conference room.
Before ==
  Alone /\ opening =>
    /\ paused /\ left = 0 /\ ~wrote
    /\ jobs = [d \in Devs |-> "none"]
    /\ \E d \in Devs : office[d].at # "conference"

\* Where one developer may be, once the office has opened.  A sprint that has
\* not ticked yet finds everybody where the time between sprints left them.
Place(d) ==
  /\ office[d].at # "toConference"
  /\ left = 0 \/ ~ticked => \/ office[d].at = "conference"
                            \/ jobs[d] # "none" /\ office[d].at \in {"toCubicle", "working"}
  /\ left > 0 /\ ticked /\ jobs[d] # "none" =>
       office[d].at \in {"toCubicle", "working", "frustrated"}
  /\ office[d].at = "frustrated" => jobs[d] # "none"

Places == Alone /\ ~opening => \A d \in Devs : Place(d)

\* A request that has been appended is another writer's, and not handled yet.
Late == request.at = "appended" => ~Alone

\* A step that moves nothing on the screen and, unless it puts an older office
\* back, nothing in the registry.
Still ==
  /\ UNCHANGED <<paused, left, wrote, office, jobs, opening, nextDev, ticked>>
  /\ ~overwritten' => ~overwritten /\ UNCHANGED published

IInv == IType /\ Before /\ Places /\ OfficePublished /\ Late /\ RunningHasTimer

-----------------------------------------------------------------------------
(* Lemmas about the office *)

\* Every animation event makes an office of an office.
LEMMA EventTypes ==
  ASSUME NEW o \in [Devs -> Animation], NEW d \in Devs
  PROVE  /\ DevAssignedToTicket(o, d) \in [Devs -> Animation]
         /\ DevStartedMovingToConference(o, d) \in [Devs -> Animation]
         /\ DevStartedWorking(o, d) \in [Devs -> Animation]
         /\ DevCompletedTicket(o, d) \in [Devs -> Animation]
         /\ DevBecameFrustrated(o, d) \in [Devs -> Animation]
         /\ BubblesExpired(o) \in [Devs -> Animation]
         /\ AllEnterConference(o) \in [Devs -> Animation]
<1>1. WalkFrames \in 0..WalkFrames /\ BubbleFrames \in 0..BubbleFrames
      /\ 0 \in 0..WalkFrames /\ 0 \in 0..BubbleFrames
  BY OfficeAssumption
<1>2. DevAssignedToTicket(o, d) \in [Devs -> Animation]
  BY <1>1 DEF DevAssignedToTicket, StartMoving, Animation, Walking
<1>3. DevStartedMovingToConference(o, d) \in [Devs -> Animation]
  BY <1>1 DEF DevStartedMovingToConference, StartMoving, Animation, Walking
<1>4. DevStartedWorking(o, d) \in [Devs -> Animation]
  BY <1>1 DEF DevStartedWorking, SetState, Animation, Walking
<1>5. DevCompletedTicket(o, d) \in [Devs -> Animation]
  BY <1>1 DEF DevCompletedTicket, SetState, Animation, Walking
<1>6. DevBecameFrustrated(o, d) \in [Devs -> Animation]
  BY <1>1 DEF DevBecameFrustrated, SetState, Animation, Walking
<1>7. BubblesExpired(o) \in [Devs -> Animation]
  BY <1>1 DEF BubblesExpired, Animation
<1>8. AllEnterConference(o) \in [Devs -> Animation]
  BY <1>1 DEF AllEnterConference, Animation
<1> QED
  BY <1>2, <1>3, <1>4, <1>5, <1>6, <1>7, <1>8

\* What the update after a change makes of one developer's state: without a
\* job nobody is at work, with one nobody sits about.
LEMMA UpdateFacts ==
  ASSUME NEW o \in [Devs -> Animation], NEW js \in [Devs -> Jobs]
  PROVE  LET p == UpdateDeveloperAnimationStates(o, js)
         IN /\ p \in [Devs -> Animation]
            /\ \A d \in Devs :
                 /\ js[d] = "none" => ~IsActive(p[d])
                 /\ js[d] # "none" => IsActive(p[d]) \/ (p[d].at = o[d].at /\ Walks(o[d]))
                 /\ p[d].at = "toConference" => o[d].at = "toConference"
<1> DEFINE p == UpdateDeveloperAnimationStates(o, js)
<1>1. ASSUME NEW d \in Devs
      PROVE  /\ Updated(o, d, js[d]) \in [Devs -> Animation]
             /\ js[d] = "none" => ~IsActive(Updated(o, d, js[d])[d])
             /\ js[d] # "none" => \/ IsActive(Updated(o, d, js[d])[d])
                                  \/ Updated(o, d, js[d])[d].at = o[d].at /\ Walks(o[d])
             /\ Updated(o, d, js[d])[d].at = "toConference" => o[d].at = "toConference"
  <2>1. Updated(o, d, js[d]) \in [Devs -> Animation]
    BY <1>1, EventTypes DEF Updated
  <2>2. CASE js[d] = "none"
    BY <1>1, <2>1, <2>2 DEF Updated, DevCompletedTicket, SetState, IsActive, Animation
  <2>3. CASE js[d] # "none" /\ ShouldBecomeFrustrated(o[d], js[d])
    BY <1>1, <2>1, <2>3 DEF Updated, DevBecameFrustrated, SetState, IsActive, Animation
  <2>4. CASE js[d] # "none" /\ ~ShouldBecomeFrustrated(o[d], js[d]) /\ ShouldStartWorking(o[d])
    BY <1>1, <2>1, <2>4 DEF Updated, DevStartedWorking, SetState, IsActive, Animation
  <2>5. CASE js[d] # "none" /\ ~ShouldBecomeFrustrated(o[d], js[d]) /\ ~ShouldStartWorking(o[d])
    BY <1>1, <2>1, <2>5 DEF Updated, ShouldStartWorking
  <2> QED
    BY <2>1, <2>2, <2>3, <2>4, <2>5
<1>2. p \in [Devs -> Animation] /\ \A d \in Devs : p[d] = Updated(o, d, js[d])[d]
  BY <1>1 DEF UpdateDeveloperAnimationStates
<1> HIDE DEF p
<1>3. \A d \in Devs :
        /\ js[d] = "none" => ~IsActive(p[d])
        /\ js[d] # "none" => IsActive(p[d]) \/ (p[d].at = o[d].at /\ Walks(o[d]))
        /\ p[d].at = "toConference" => o[d].at = "toConference"
  BY <1>1, <1>2 DEF IsActive, Walks
<1> QED
  BY <1>2, <1>3 DEF p

\* Whoever arrives is where the walk led.
LEMMA ArriveFacts ==
  ASSUME NEW a \in Animation
  PROVE  /\ Arrive(a) \in Animation
         /\ Arrive(a).at = IF a.at = "toConference" THEN "conference" ELSE "working"
<1>1. 0 \in 0..WalkFrames
  BY OfficeAssumption
<1> QED
  BY <1>1 DEF Arrive, Animation

\* A frame moves walkers on or lets them arrive, and changes nobody else's
\* state; without an arrival it changes no state at all.
LEMMA FrameFacts ==
  ASSUME NEW o \in [Devs -> Animation], NEW A \in MayArrive(o)
  PROVE  LET p == AnimationFrame(o, A)
         IN /\ p \in [Devs -> Animation]
            /\ \A d \in Devs :
                 \/ p[d].at = o[d].at
                 \/ o[d].at = "toConference" /\ p[d].at = "conference" /\ d \in A
                 \/ o[d].at = "toCubicle" /\ p[d].at = "working" /\ d \in A
<1> DEFINE p == AnimationFrame(o, A)
<1>1. ASSUME NEW d \in Devs
      PROVE  /\ p[d] \in Animation
             /\ \/ p[d].at = o[d].at
                \/ o[d].at = "toConference" /\ p[d].at = "conference" /\ d \in A
                \/ o[d].at = "toCubicle" /\ p[d].at = "working" /\ d \in A
  <2>1. o[d] \in Animation /\ WalkFrames \in Nat /\ BubbleFrames \in Nat
    BY <1>1, OfficeAssumption
  <2>2. CASE Walks(o[d]) /\ d \in A
    <3>1. p[d] = Arrive(o[d])
      BY <1>1, <2>2 DEF AnimationFrame
    <3>2. o[d].at \in {"toConference", "toCubicle"}
      BY <2>2 DEF Walks, Walking
    <3> QED
      BY <2>1, <2>2, <3>1, <3>2, ArriveFacts
  <2>3. CASE Walks(o[d]) /\ d \notin A
    <3>1. p[d] = [o[d] EXCEPT !.walk = @ - 1] /\ o[d].walk > 1
      BY <1>1, <2>1, <2>3 DEF AnimationFrame, MayArrive, Animation
    <3> QED
      BY <2>1, <3>1 DEF Animation
  <2>4. CASE ~Walks(o[d]) /\ IsActive(o[d]) /\ o[d].bubble > 0
    <3>1. p[d] = [o[d] EXCEPT !.bubble = @ - 1]
      BY <1>1, <2>4 DEF AnimationFrame
    <3> QED
      BY <2>1, <2>4, <3>1 DEF Animation
  <2>5. CASE ~Walks(o[d]) /\ ~(IsActive(o[d]) /\ o[d].bubble > 0)
    <3>1. p[d] = o[d]
      BY <1>1, <2>5 DEF AnimationFrame
    <3> QED
      BY <2>1, <3>1
  <2> QED
    BY <2>2, <2>3, <2>4, <2>5
<1>2. p \in [Devs -> Animation]
  BY <1>1 DEF AnimationFrame
<1> HIDE DEF p
<1> QED
  BY <1>1, <1>2 DEF p

\* The picture of an office is one the registry can hold.
LEMMA PictureType ==
  ASSUME NEW o \in [Devs -> Animation]
  PROVE  Picture(o) \in Pictures /\ \A d \in Devs : Picture(o)[d] = o[d].at
  BY DEF Picture, Pictures, Animation

\* Whatever a request makes of the office it has read is an office's picture.
LEMMA RequestedType ==
  ASSUME NEW p \in Pictures, NEW q \in RequestedOffice(p)
  PROVE  q \in Pictures
<1>1. CASE q = p
  BY <1>1
<1>2. ASSUME NEW d \in Devs, q = AssignedByRequest(p, d)
      PROVE  q \in Pictures
  BY <1>2 DEF AssignedByRequest, Pictures
<1>3. ASSUME NEW before \in [Devs -> Jobs], NEW after \in [Devs -> Jobs], NEW ended \in BOOLEAN,
             q = DeriveOfficeEvents(p, before, after, ended)
      PROVE  q \in Pictures
  <2>1. \A d \in Devs : Derived(p[d], before[d], after[d]) \in {p[d], "frustrated", "idle"}
    BY DEF Derived
  <2> QED
    BY <1>3, <2>1 DEF DeriveOfficeEvents, InConference, Pictures
<1> QED
  BY <1>1, <1>2, <1>3 DEF RequestedOffice

-----------------------------------------------------------------------------
(* The invariant *)

\* At the start everybody stands at the cubicle and nothing has happened.
LEMMA StartsRight == IInit => IInv
<1> SUFFICES ASSUME IInit PROVE IInv
  OBVIOUS
<1> USE DEF IInit, Init
<1>1. NumDevs \in Nat \ {0} /\ 1 \in Devs /\ 0 \in 0..WalkFrames /\ 0 \in 0..BubbleFrames
  BY OfficeAssumption DEF Devs
<1>2. IType
  <2>1. office \in [Devs -> Animation] /\ jobs \in [Devs -> Jobs]
    BY <1>1 DEF NewOfficeState, Animation, Jobs
  <2>2. published \in Pictures /\ request.office \in Pictures /\ request.at = "none"
    BY DEF InConference, Pictures, NoRequest
  <2>3. TypeOK
    <3>1. timers \in Nat /\ left \in 0..SprintLength /\ view \in Views
      BY AutoTickAssumption DEF Views
    <3> QED
      BY <3>1 DEF TypeOK
  <2>4. nextDev \in 1..(NumDevs + 1) /\ staggered \in 0..Stagger
        /\ backlog \in 0..Stock /\ requests \in 0..MaxRequests
    BY <1>1, InterfaceAssumption
  <2> QED
    BY <2>1, <2>2, <2>3, <2>4 DEF IType
<1>3. Before
  BY <1>1 DEF Before, NewOfficeState
<1> QED
  BY <1>2, <1>3 DEF IInv, Places, OfficePublished, Late, RunningHasTimer, NoRequest

\* Who has been joined by another writer is not alone again, and what has
\* opened stays open.
LEMMA NoWayBack ==
  ASSUME INext
  PROVE  (Alone' => Alone) /\ (opening' => opening)
<1>1. CASE PlainKey
  BY <1>1 DEF PlainKey, Tab, Space, StartSprint, Alone
<1>2. CASE AssignKey
  BY <1>2 DEF AssignKey, Alone
<1>3. CASE TickFires
  BY <1>3 DEF TickFires, FireIdle, FireConflict, FireTick, officeVars, Alone
<1>4. CASE EventArrives
  BY <1>4 DEF EventArrives, HandleEvent, Alone
<1>5. CASE Frame
  BY <1>5 DEF Frame, Opening, Alone, vars
<1>6. CASE RequestReads \/ RequestAppends \/ RequestRefused \/ RequestMisses \/ RequestWritesBack
  BY <1>6 DEF RequestReads, RequestAppends, RequestRefused, RequestMisses,
              RequestWritesBack, OtherWrites, Alone, vars
<1> QED
  BY <1>1, <1>2, <1>3, <1>4, <1>5, <1>6 DEF INext

\* The timer's part of the state keeps its type and a pending timer while the
\* interface runs, whatever happens.
LEMMA TimerKept ==
  ASSUME TypeOK, RunningHasTimer, INext
  PROVE  TypeOK' /\ RunningHasTimer'
<1> DEFINE Kept == TypeOK' /\ RunningHasTimer'
           Fits(t, l, v) == t \in Nat /\ l \in 0..SprintLength /\ v \in Views
<1>1. /\ Fits(timers, left, view) /\ timers + 1 \in Nat /\ timers + 1 >= 1
      /\ \A v \in Views : NextView[v] \in Views
      /\ Fits(timers, 0, view) /\ Fits(timers, SprintLength, "execution")
      /\ Fits(timers, IF left > 0 THEN left - 1 ELSE 0, view)
  BY AutoTickAssumption DEF TypeOK, Views, NextView
<1>2. /\ paused \in BOOLEAN /\ wrote \in BOOLEAN /\ behind \in BOOLEAN /\ readOnly \in BOOLEAN
      /\ ~paused => timers >= 1
  BY DEF TypeOK, RunningHasTimer
<1> HIDE DEF Kept
<1>3. ASSUME UNCHANGED vars PROVE Kept
  BY <1>3 DEF Kept, vars, TypeOK, RunningHasTimer
<1>4. ASSUME Tab PROVE Kept
  BY <1>1, <1>2, <1>4 DEF Kept, TypeOK, RunningHasTimer, Tab
<1>5. ASSUME Space PROVE Kept
  <2>1. UNCHANGED <<view, left, wrote, behind, readOnly>> /\ paused' \in BOOLEAN
    BY <1>2, <1>5 DEF Space
  <2>2. timers' \in Nat /\ (~paused' => timers' >= 1)
    <3>1. CASE paused
      BY <1>1, <1>5, <3>1 DEF Space, Arm
    <3>2. CASE ~paused
      BY <1>1, <1>2, <1>5, <3>2 DEF Space
    <3> QED
      BY <3>1, <3>2
  <2> QED
    BY <1>1, <1>2, <2>1, <2>2 DEF Kept, TypeOK, RunningHasTimer
<1>6. ASSUME StartSprint PROVE Kept
  <2>1. /\ left' = SprintLength /\ view' = "execution" /\ timers' = timers + 1
        /\ paused' \in BOOLEAN /\ wrote' \in BOOLEAN /\ UNCHANGED <<behind, readOnly>>
    BY <1>6 DEF StartSprint, Arm
  <2> QED
    BY <1>1, <1>2, <2>1 DEF Kept, TypeOK, RunningHasTimer
<1>7. ASSUME AssignKey PROVE Kept
  <2>1. UNCHANGED <<timers, paused, view, left, behind, readOnly>> /\ wrote' \in BOOLEAN
    BY <1>7 DEF AssignKey
  <2> QED
    BY <1>1, <1>2, <2>1 DEF Kept, TypeOK, RunningHasTimer
<1>8. ASSUME FireTick PROVE Kept
  <2>1. /\ UNCHANGED <<timers, view, behind, readOnly>> /\ timers >= 1
        /\ left' = IF left > 0 THEN left - 1 ELSE 0
        /\ paused' \in BOOLEAN /\ wrote' \in BOOLEAN
    BY <1>8 DEF FireTick, Rearm
  <2> QED
    BY <1>1, <1>2, <2>1 DEF Kept, TypeOK, RunningHasTimer
<1>9. ASSUME OtherWrites PROVE Kept
  <2>1. UNCHANGED <<timers, paused, view, left, wrote, readOnly>> /\ behind' \in BOOLEAN
    BY <1>9 DEF OtherWrites
  <2> QED
    BY <1>1, <1>2, <2>1 DEF Kept, TypeOK, RunningHasTimer
<1>10. ASSUME HandleEvent PROVE Kept
  <2>1. UNCHANGED <<timers, wrote>> /\ behind' \in BOOLEAN /\ readOnly' \in BOOLEAN
    BY <1>10 DEF HandleEvent
  <2>2. Fits(timers, left', view') /\ paused' \in BOOLEAN /\ (~paused' => ~paused)
    <3>1. CASE HandleStarted
      BY <1>1, <3>1 DEF HandleStarted
    <3>2. CASE HandleEnded
      BY <1>1, <3>2 DEF HandleEnded
    <3>3. CASE HandleOther
      BY <1>1, <1>2, <3>3 DEF HandleOther
    <3> QED
      BY <1>10, <3>1, <3>2, <3>3 DEF HandleEvent
  <2> QED
    BY <1>2, <2>1, <2>2 DEF Kept, TypeOK, RunningHasTimer
<1> QED
  <2>1. \/ UNCHANGED vars \/ Tab \/ Space \/ StartSprint \/ AssignKey
        \/ FireTick \/ OtherWrites \/ HandleEvent
    <3>1. ASSUME FireIdle \/ FireConflict PROVE UNCHANGED vars
      BY <3>1 DEF FireIdle, FireConflict, Rearm, vars
    <3> QED
      BY <3>1 DEF INext, PlainKey, TickFires, EventArrives, Frame,
                  RequestReads, RequestAppends, RequestRefused, RequestMisses, RequestWritesBack
  <2> QED
    BY <1>3, <1>4, <1>5, <1>6, <1>7, <1>8, <1>9, <1>10, <2>1 DEF Kept

\* Every handler leaves an office, jobs and counters of their types.
LEMMA OfficeKept ==
  ASSUME IType, INext
  PROVE  /\ office' \in [Devs -> Animation] /\ jobs' \in [Devs -> Jobs]
         /\ opening' \in BOOLEAN /\ nextDev' \in 1..(NumDevs + 1) /\ staggered' \in 0..Stagger
         /\ backlog' \in 0..Stock /\ ticked' \in BOOLEAN
<1> DEFINE Kept == /\ office' \in [Devs -> Animation] /\ jobs' \in [Devs -> Jobs]
                   /\ opening' \in BOOLEAN /\ nextDev' \in 1..(NumDevs + 1)
                   /\ staggered' \in 0..Stagger
                   /\ backlog' \in 0..Stock /\ ticked' \in BOOLEAN
<1>1. /\ office \in [Devs -> Animation] /\ jobs \in [Devs -> Jobs]
      /\ opening \in BOOLEAN /\ nextDev \in 1..(NumDevs + 1) /\ staggered \in 0..Stagger
      /\ backlog \in 0..Stock /\ ticked \in BOOLEAN
  BY DEF IType
<1>2. NumDevs \in Nat \ {0} /\ Stagger \in Nat \ {0} /\ Stock \in Nat
  BY OfficeAssumption, InterfaceAssumption
<1>3. ASSUME PlainKey PROVE Kept
  BY <1>1, <1>3 DEF PlainKey
<1>4. ASSUME AssignKey PROVE Kept
  <2>1. PICK d \in Devs : Assigned(d)
    BY <1>4 DEF AssignKey
  <2>2. office' \in [Devs -> Animation] /\ jobs' \in [Devs -> Jobs]
    BY <1>1, <2>1, EventTypes DEF Assigned, Jobs
  <2>3. UNCHANGED <<opening, nextDev, staggered, ticked>> /\ backlog > 0 /\ backlog' = backlog - 1
    BY <1>4 DEF AssignKey
  <2>4. backlog' \in 0..Stock
    BY <1>1, <1>2, <2>3
  <2> QED
    BY <1>1, <2>2, <2>3, <2>4
<1>5. ASSUME TickFires PROVE Kept
  <2>1. CASE UNCHANGED officeVars
    BY <1>1, <2>1 DEF officeVars
  <2>2. CASE jobs' \in [Devs -> Jobs] /\ office' = AfterTick(office) /\ ticked' = TRUE
             /\ UNCHANGED <<opening, nextDev, staggered, backlog>>
    <3>1. UpdateDeveloperAnimationStates(office, jobs') \in [Devs -> Animation]
      BY <1>1, <2>2, UpdateFacts
    <3>2. office' \in [Devs -> Animation]
      <4>1. 1 \in Devs
        BY <1>2 DEF Devs
      <4> QED
        BY <2>2, <3>1, <4>1, EventTypes DEF AfterTick
    <3> QED
      BY <1>1, <2>2, <3>2
  <2> QED
    BY <1>5, <2>1, <2>2 DEF TickFires
<1>6. ASSUME EventArrives PROVE Kept
  <2>1. PICK d \in Devs, j \in Jobs : jobs' = [jobs EXCEPT ![d] = j]
    BY <1>6 DEF EventArrives
  <2>2. jobs' \in [Devs -> Jobs]
    BY <1>1, <2>1
  <2> DEFINE p == [e \in Devs |-> IF jobs[e] = "none" /\ jobs'[e] # "none"
                                  THEN DevAssignedToTicket(BubblesExpired(office), e)[e]
                                  ELSE BubblesExpired(office)[e]]
             q == UpdateDeveloperAnimationStates(p, jobs')
  <2>3. p \in [Devs -> Animation]
    <3>1. \A e \in Devs : /\ BubblesExpired(office) \in [Devs -> Animation]
                          /\ DevAssignedToTicket(BubblesExpired(office), e) \in [Devs -> Animation]
      BY <1>1, EventTypes
    <3> QED
      BY <3>1
  <2>4. office' = IF left > 0 /\ left' = 0 THEN AllEnterConference(q) ELSE q
    BY <1>6 DEF EventArrives, AfterEvent
  <2> HIDE DEF p
  <2>5. q \in [Devs -> Animation]
    BY <2>2, <2>3, UpdateFacts
  <2> HIDE DEF q
  <2>6. office' \in [Devs -> Animation]
    BY <2>1, <2>4, <2>5, EventTypes
  <2> QED
    BY <1>1, <1>6, <2>2, <2>6 DEF EventArrives
<1>7. ASSUME Frame PROVE Kept
  <2>1. PICK A \in MayArrive(office) : Opening(AnimationFrame(office, A))
    BY <1>7 DEF Frame
  <2> DEFINE o == AnimationFrame(office, A)
  <2>2. o \in [Devs -> Animation]
    BY <1>1, FrameFacts
  <2> HIDE DEF o
  <2>3. Opening(o)
    BY <2>1 DEF o
  <2>4. /\ office' \in [Devs -> Animation] /\ nextDev' \in 1..(NumDevs + 1)
        /\ staggered' \in 0..Stagger /\ opening' \in BOOLEAN
    <3>1. CASE opening /\ SetsOut
      <4>1. nextDev \in Devs /\ nextDev + 1 \in 1..(NumDevs + 1) /\ 0 \in 0..Stagger
        BY <1>1, <1>2, <3>1 DEF SetsOut, Devs
      <4>2. DevStartedMovingToConference(o, nextDev) \in [Devs -> Animation]
        BY <2>2, <4>1, EventTypes
      <4> QED
        BY <2>3, <3>1, <4>1, <4>2 DEF Opening
    <3>2. CASE opening /\ ~SetsOut
      <4>1. (IF staggered < Stagger THEN staggered + 1 ELSE Stagger) \in 0..Stagger
        BY <1>1, <1>2
      <4> QED
        BY <1>1, <2>2, <2>3, <3>2, <4>1 DEF Opening
    <3>3. CASE ~opening
      BY <1>1, <2>2, <2>3, <3>3 DEF Opening
    <3> QED
      BY <3>1, <3>2, <3>3
  <2> QED
    BY <1>1, <1>7, <2>4 DEF Frame
<1>8. ASSUME RequestReads \/ RequestAppends \/ RequestRefused \/ RequestMisses \/ RequestWritesBack
      PROVE  Kept
  BY <1>1, <1>8 DEF RequestReads, RequestAppends, RequestRefused, RequestMisses, RequestWritesBack
<1> QED
  BY <1>3, <1>4, <1>5, <1>6, <1>7, <1>8 DEF INext

\* What the registry has and what a request holds stay pictures of an office.
LEMMA RegistryKept ==
  ASSUME IType, INext, office' \in [Devs -> Animation]
  PROVE  /\ published' \in Pictures /\ requests' \in 0..MaxRequests
         /\ request'.office \in Pictures /\ request'.at \in {"none", "read", "appended"}
         /\ overwritten' \in BOOLEAN
<1> DEFINE Kept == /\ published' \in Pictures /\ requests' \in 0..MaxRequests
                   /\ request'.office \in Pictures
                   /\ request'.at \in {"none", "read", "appended"}
                   /\ overwritten' \in BOOLEAN
<1>1. /\ published \in Pictures /\ requests \in 0..MaxRequests
      /\ request.office \in Pictures /\ request.at \in {"none", "read", "appended"}
      /\ office \in [Devs -> Animation] /\ MaxRequests \in Nat
      /\ overwritten \in BOOLEAN
  BY InterfaceAssumption DEF IType
<1>2. Picture(office') \in Pictures /\ NoRequest.office \in Pictures /\ NoRequest.at = "none"
  BY PictureType DEF NoRequest, InConference, Pictures
<1>3. ASSUME PlainKey \/ AssignKey \/ TickFires \/ EventArrives PROVE Kept
  BY <1>1, <1>2, <1>3
  DEF PlainKey, AssignKey, Assigned, TickFires, EventArrives, Publish, Published,
      Unpublished, officeVars
<1>4. ASSUME Frame PROVE Kept
  <2>1. PICK A \in MayArrive(office) :
          IF A # {} THEN Published(Picture(AnimationFrame(office, A))) ELSE Unpublished
    BY <1>4 DEF Frame
  <2>2. AnimationFrame(office, A) \in [Devs -> Animation]
    BY <1>1, FrameFacts
  <2>3. published' \in Pictures /\ overwritten' \in BOOLEAN
    BY <1>1, <2>1, <2>2, PictureType DEF Published, Unpublished
  <2> QED
    BY <1>1, <1>4, <2>3 DEF Frame
<1>5. ASSUME RequestReads PROVE Kept
  BY <1>1, <1>5 DEF RequestReads, Unpublished
<1>6. ASSUME RequestAppends PROVE Kept
  <2>1. \E p \in RequestedOffice(request.office) : request' = [at |-> "appended", office |-> p]
    BY <1>6 DEF RequestAppends
  <2>2. request'.office \in Pictures /\ request'.at \in {"none", "read", "appended"}
    BY <1>1, <1>2, <2>1, RequestedType
  <2> QED
    BY <1>1, <1>6, <2>2 DEF RequestAppends, Unpublished
<1>7. ASSUME RequestRefused PROVE Kept
  BY <1>1, <1>2, <1>7 DEF RequestRefused, Unpublished
<1>8. ASSUME RequestMisses PROVE Kept
  BY <1>1, <1>2, <1>8 DEF RequestMisses
<1>9. ASSUME RequestWritesBack PROVE Kept
  BY <1>1, <1>2, <1>9 DEF RequestWritesBack
<1> QED
  BY <1>3, <1>4, <1>5, <1>6, <1>7, <1>8, <1>9 DEF INext

\* A request that has appended has made the interface one of two writers.
LEMMA LateKept ==
  ASSUME IType, Late, INext
  PROVE  Late'
<1> SUFFICES ASSUME request'.at = "appended" PROVE ~Alone'
  BY DEF Late
<1>1. CASE RequestAppends
  BY <1>1 DEF RequestAppends, OtherWrites, Alone
<1>2. CASE RequestReads \/ RequestRefused \/ RequestMisses \/ RequestWritesBack
  BY <1>2 DEF RequestReads, RequestRefused, RequestMisses, RequestWritesBack, NoRequest
<1>3. CASE PlainKey \/ AssignKey \/ TickFires \/ EventArrives \/ Frame
  <2>1. request' = request
    BY <1>3 DEF PlainKey, AssignKey, TickFires, EventArrives, Frame, officeVars
  <2> QED
    BY <2>1, NoWayBack DEF Late
<1> QED
  BY <1>1, <1>2, <1>3 DEF INext

\* While it is alone in a stream, only keys, ticks and frames move the
\* interface; a request only reads.
LEMMA AloneSteps ==
  ASSUME IType, Late, INext, Alone'
  PROVE  /\ Alone
         /\ PlainKey \/ AssignKey \/ Frame \/ (TickFires /\ FireTick) \/ Still
<1>1. Alone /\ overwritten \in BOOLEAN
  BY NoWayBack DEF IType
<1>2. ASSUME TickFires PROVE (TickFires /\ FireTick) \/ Still
  BY <1>2 DEF TickFires, FireIdle, FireConflict, officeVars, Still
<1>3. ~EventArrives /\ ~RequestWritesBack
  BY <1>1 DEF EventArrives, HandleEvent, RequestWritesBack, Late, Alone
<1>4. ~RequestAppends
  BY DEF RequestAppends, OtherWrites, Alone
<1>5. ASSUME RequestReads \/ RequestRefused PROVE Still
  BY <1>5 DEF RequestReads, RequestRefused, Unpublished, Still, vars
<1>6. ASSUME RequestMisses PROVE Still
  BY <1>1, <1>6 DEF RequestMisses, Still, vars
<1> QED
  BY <1>1, <1>2, <1>3, <1>4, <1>5, <1>6 DEF INext

\* What a frame does while the office opens, and what it does afterwards.
LEMMA FrameCases ==
  ASSUME IType, Frame
  PROVE  \E A \in MayArrive(office), o \in [Devs -> Animation] :
           /\ o = AnimationFrame(office, A)
           /\ IF A # {} THEN Published(Picture(o)) ELSE Unpublished
           /\ A = {} => \A d \in Devs : o[d].at = office[d].at
           /\ \/ ~opening /\ ~opening' /\ office' = o
              \/ /\ opening
                 /\ opening' <=> \E d \in Devs : office'[d].at # "conference"
                 /\ ~opening' => office' = o
<1>1. office \in [Devs -> Animation] /\ NumDevs \in Nat \ {0} /\ nextDev \in 1..(NumDevs + 1)
      /\ opening \in BOOLEAN
  BY OfficeAssumption DEF IType
<1>2. PICK A \in MayArrive(office) :
        /\ Opening(AnimationFrame(office, A))
        /\ IF A # {} THEN Published(Picture(AnimationFrame(office, A))) ELSE Unpublished
  BY DEF Frame
<1> DEFINE o == AnimationFrame(office, A)
<1>3. /\ o \in [Devs -> Animation]
      /\ A = {} => \A d \in Devs : o[d].at = office[d].at
  BY <1>1, FrameFacts
<1> HIDE DEF o
<1>4. \/ ~opening /\ ~opening' /\ office' = o
      \/ /\ opening
         /\ opening' <=> \E d \in Devs : office'[d].at # "conference"
         /\ ~opening' => office' = o
  <2>1. Opening(o)
    BY <1>2 DEF o
  <2>2. CASE ~opening
    BY <2>1, <2>2 DEF Opening
  <2>3. CASE opening /\ ~SetsOut
    BY <2>1, <2>3 DEF Opening
  <2>4. CASE opening /\ SetsOut
    <3>1. nextDev \in Devs
      BY <1>1, <2>4 DEF SetsOut, Devs
    <3>2. office' = DevStartedMovingToConference(o, nextDev)
          /\ (opening' <=> \E d \in Devs : office'[d].at # "conference")
      BY <2>1, <2>4 DEF Opening
    <3>3. office'[nextDev].at = "toConference"
      BY <1>3, <3>1, <3>2 DEF DevStartedMovingToConference, StartMoving, Animation
    <3> QED
      BY <2>4, <3>1, <3>2, <3>3
  <2> QED
    BY <2>2, <2>3, <2>4
<1> QED
  BY <1>2, <1>3, <1>4 DEF o

\* Nothing happens before the office has opened.
LEMMA BeforeKept ==
  ASSUME IType, Before, Late, INext
  PROVE  Before'
<1> SUFFICES ASSUME Alone', opening'
             PROVE  /\ paused' /\ left' = 0 /\ ~wrote'
                    /\ jobs' = [d \in Devs |-> "none"]
                    /\ \E d \in Devs : office'[d].at # "conference"
  BY DEF Before
<1>1. Alone /\ opening
  BY NoWayBack
<1>2. /\ paused /\ left = 0 /\ ~wrote /\ jobs = [d \in Devs |-> "none"]
      /\ \E d \in Devs : office[d].at # "conference"
  BY <1>1 DEF Before
<1>3. ~PlainKey /\ ~AssignKey /\ ~FireTick
  BY <1>1, <1>2 DEF PlainKey, AssignKey, KeysWork, FireTick, Ticks
<1>4. CASE Frame
  <2>1. \E d \in Devs : office'[d].at # "conference"
    BY <1>1, <1>4, FrameCases
  <2> QED
    BY <1>2, <1>4, <2>1 DEF Frame, vars
<1>5. CASE Still
  BY <1>2, <1>5 DEF Still
<1> QED
  BY <1>3, <1>4, <1>5, AloneSteps

\* A handler that changes the office tells the registry, and a frame that ends
\* the opening or a walk does.
LEMMA PublishedKept ==
  ASSUME IType, Before, Late, OfficePublished, INext
  PROVE  OfficePublished'
<1> SUFFICES ASSUME Alone', ~opening', ~overwritten' PROVE published' = Picture(office')
  BY DEF OfficePublished
<1>1. Alone /\ office \in [Devs -> Animation]
  BY NoWayBack DEF IType
<1>2. ASSUME ~opening, ~overwritten PROVE published = Picture(office)
  BY <1>1, <1>2 DEF OfficePublished
<1>3. CASE PlainKey
  <2>1. ~opening /\ UNCHANGED office
    BY <1>3 DEF PlainKey, KeysWork
  <2> QED
    BY <1>2, <1>3, <2>1 DEF PlainKey, Publish, Published, Unpublished
<1>4. CASE AssignKey
  BY <1>4 DEF AssignKey, Assigned, Publish, Published
<1>5. CASE TickFires /\ FireTick
  <2>1. ~(FireIdle \/ FireConflict)
    BY <1>5 DEF FireTick, FireIdle, FireConflict
  <2> QED
    BY <1>5, <2>1 DEF TickFires, Publish, Published
<1>6. CASE Frame
  <2>1. PICK A \in MayArrive(office), o \in [Devs -> Animation] :
          /\ o = AnimationFrame(office, A)
          /\ IF A # {} THEN Published(Picture(o)) ELSE Unpublished
          /\ A = {} => \A d \in Devs : o[d].at = office[d].at
          /\ \/ ~opening /\ ~opening' /\ office' = o
             \/ /\ opening
                /\ opening' <=> \E d \in Devs : office'[d].at # "conference"
                /\ ~opening' => office' = o
    BY <1>6, FrameCases
  <2>2. office' = o
    BY <2>1
  <2>3. CASE A # {}
    BY <2>1, <2>2, <2>3 DEF Published
  <2>4. CASE A = {}
    <3>1. ~opening
      BY <1>1, <2>1, <2>2, <2>4 DEF Before
    <3>2. Picture(o) = Picture(office)
      BY <2>1, <2>4 DEF Picture
    <3> QED
      BY <1>2, <2>1, <2>2, <2>4, <3>1, <3>2 DEF Unpublished
  <2> QED
    BY <2>3, <2>4
<1>7. CASE Still
  BY <1>2, <1>7 DEF Still, Picture
<1> QED
  BY <1>3, <1>4, <1>5, <1>6, <1>7, AloneSteps

\* Everybody is where they may be after a tick: at the end of a sprint, or
\* without one, in the conference room, otherwise at work if they have a job.
LEMMA TickPlaces ==
  ASSUME IType, Places, Alone, ~opening, TickFires, FireTick
  PROVE  \A d \in Devs : Place(d)'
<1> DEFINE p == UpdateDeveloperAnimationStates(office, jobs')
<1>1. /\ jobs' \in [Devs -> Jobs] /\ office' = AfterTick(office) /\ ticked' = TRUE
      /\ office \in [Devs -> Animation]
  <2>1. ~(FireIdle \/ FireConflict)
    BY DEF FireTick, FireIdle, FireConflict
  <2> QED
    BY <2>1 DEF TickFires, IType
<1>2. /\ p \in [Devs -> Animation]
      /\ \A d \in Devs :
           /\ jobs'[d] = "none" => ~IsActive(p[d])
           /\ jobs'[d] # "none" => IsActive(p[d]) \/ (p[d].at = office[d].at /\ Walks(office[d]))
           /\ p[d].at = "toConference" => office[d].at = "toConference"
  BY <1>1, UpdateFacts
<1>3. office' = IF left' = 0 THEN AllEnterConference(p) ELSE p
  BY <1>1 DEF AfterTick
<1> HIDE DEF p
<1>4. CASE left' = 0
  <2>1. ASSUME NEW d \in Devs PROVE office'[d].at = "conference"
    BY <1>2, <1>3, <1>4, <2>1 DEF AllEnterConference, Animation
  <2> QED
    BY <1>4, <2>1 DEF Place
<1>5. CASE left' # 0
  <2> SUFFICES ASSUME NEW d \in Devs PROVE Place(d)'
    OBVIOUS
  <2>1. office[d].at # "toConference"
    BY DEF Places, Place
  <2>2. p[d].at # "toConference"
    BY <1>2, <2>1
  <2>3. p[d].at = "frustrated" => jobs'[d] # "none"
    BY <1>2 DEF IsActive
  <2>4. jobs'[d] # "none" => p[d].at \in {"toCubicle", "working", "frustrated"}
    BY <1>2, <2>1 DEF IsActive, Walks, Walking
  <2> QED
    BY <1>1, <1>3, <1>5, <2>2, <2>3, <2>4 DEF Place
<1> QED
  BY <1>4, <1>5

\* Once the office is open, everybody stays where the simulation has them.
LEMMA PlacesKept ==
  ASSUME IType, Before, Places, Late, INext
  PROVE  Places'
<1> SUFFICES ASSUME Alone', ~opening' PROVE \A d \in Devs : Place(d)'
  BY DEF Places
<1>1. Alone /\ office \in [Devs -> Animation] /\ jobs \in [Devs -> Jobs] /\ left \in Nat
  BY NoWayBack, AutoTickAssumption DEF IType, TypeOK
<1>2. ASSUME ~opening PROVE \A d \in Devs : Place(d)
  BY <1>1, <1>2 DEF Places
<1>3. CASE PlainKey
  <2>1. ~opening /\ UNCHANGED <<office, jobs>>
    BY <1>3 DEF PlainKey, KeysWork
  <2>2. \/ UNCHANGED <<left, ticked>>
        \/ left = 0 /\ ticked' = FALSE
    BY <1>3 DEF PlainKey, Tab, Space, StartSprint
  <2> QED
    BY <1>2, <2>1, <2>2 DEF Place
<1>4. CASE AssignKey
  <2>1. PICK d \in Devs : jobs[d] = "none" /\ Assigned(d)
    BY <1>4 DEF AssignKey
  <2>2. ~opening /\ UNCHANGED <<left, ticked>>
    BY <1>4 DEF AssignKey, KeysWork
  <2>3. /\ jobs'[d] = "fresh" /\ office'[d].at = "toCubicle"
        /\ \A e \in Devs \ {d} : jobs'[e] = jobs[e] /\ office'[e].at = office[e].at
    BY <1>1, <2>1 DEF Assigned, DevAssignedToTicket, StartMoving, Animation
  <2> SUFFICES ASSUME NEW e \in Devs PROVE Place(e)'
    OBVIOUS
  <2>4. CASE e = d
    BY <2>3, <2>4 DEF Place
  <2>5. CASE e # d
    BY <1>2, <2>2, <2>3, <2>5 DEF Place
  <2> QED
    BY <2>4, <2>5
<1>5. CASE TickFires /\ FireTick
  <2>1. ~opening
    BY <1>1, <1>5 DEF Before, FireTick, Ticks
  <2> QED
    BY <1>1, <1>5, <2>1, TickPlaces
<1>6. CASE Frame
  <2>1. UNCHANGED <<left, ticked, jobs>>
    BY <1>6 DEF Frame, vars
  <2>2. CASE opening
    <3>1. \A d \in Devs : office'[d].at = "conference"
      BY <1>6, <2>2, FrameCases
    <3>2. left' = 0
      BY <1>1, <2>1, <2>2 DEF Before
    <3> QED
      BY <3>1, <3>2 DEF Place
  <2>3. CASE ~opening
    <3>1. PICK A \in MayArrive(office) : office' = AnimationFrame(office, A)
      BY <1>6, <2>3, FrameCases
    <3>2. \A d \in Devs :
            \/ office'[d].at = office[d].at
            \/ office[d].at = "toConference" /\ office'[d].at = "conference"
            \/ office[d].at = "toCubicle" /\ office'[d].at = "working"
      BY <1>1, <3>1, FrameFacts
    <3> SUFFICES ASSUME NEW d \in Devs PROVE Place(d)'
      OBVIOUS
    <3> QED
      BY <1>2, <2>1, <2>3, <3>2 DEF Place
  <2> QED
    BY <2>2, <2>3
<1>7. CASE Still
  BY <1>2, <1>7 DEF Still, Place
<1> QED
  BY <1>3, <1>4, <1>5, <1>6, <1>7, AloneSteps

-----------------------------------------------------------------------------
(* Theorems *)

\* The invariant holds in every state the interface can be in.
THEOREM InterfaceInvariance == ISpec => []IInv
<1>1. IInv /\ [INext]_allVars => IInv'
  <2> SUFFICES ASSUME IInv, [INext]_allVars PROVE IInv'
    OBVIOUS
  <2>1. CASE INext
    <3>1. TypeOK' /\ RunningHasTimer'
      BY <2>1, TimerKept DEF IInv, IType
    <3>2. office' \in [Devs -> Animation] /\ jobs' \in [Devs -> Jobs]
          /\ opening' \in BOOLEAN /\ nextDev' \in 1..(NumDevs + 1) /\ staggered' \in 0..Stagger
          /\ backlog' \in 0..Stock /\ ticked' \in BOOLEAN
      BY <2>1, OfficeKept DEF IInv
    <3>3. IType'
      BY <2>1, <3>1, <3>2, RegistryKept DEF IInv, IType
    <3>4. Before' /\ Places' /\ OfficePublished' /\ Late'
      BY <2>1, BeforeKept, PlacesKept, PublishedKept, LateKept DEF IInv
    <3> QED
      BY <3>1, <3>3, <3>4 DEF IInv
  <2>2. CASE UNCHANGED allVars
    <3>1. TypeOK' /\ RunningHasTimer'
      BY <2>2 DEF allVars, vars, IInv, IType, TypeOK, RunningHasTimer
    <3>2. IType'
      BY <2>2, <3>1 DEF allVars, vars, officeVars, IInv, IType
    <3>3. Before' /\ Places' /\ Late'
      BY <2>2 DEF allVars, vars, officeVars, IInv, Before, Places, Place, Late, Alone
    <3>4. OfficePublished'
      BY <2>2 DEF allVars, vars, officeVars, IInv, OfficePublished, Alone, Picture
    <3> QED
      BY <3>1, <3>2, <3>3, <3>4 DEF IInv
  <2> QED
    BY <2>1, <2>2
<1> QED
  BY <1>1, StartsRight, PTL DEF ISpec

\* OfficeTellsTruth for any team and any sprint: while nobody else writes, the
\* keys, the tick timer and the animation timer keep the office true to the
\* simulation (updateDeveloperAnimationStates, handleKey and tickMsg).
THEOREM OfficeIsTrue == ISpec => []OfficeTellsTruth
<1>1. IInv => OfficeTellsTruth
  BY DEF IInv, Places, Place, OfficeTellsTruth
<1> QED
  BY <1>1, InterfaceInvariance, PTL

\* OfficePublished for any team and any sprint, whatever requests read, miss or
\* are refused meanwhile: no handler that changes a developer's state forgets
\* syncOfficeToRegistry, and only a decompose that missed takes the registry's
\* office away from the screen's.
THEOREM RegistryShowsTheScreen == ISpec => []OfficePublished
<1>1. IInv => OfficePublished
  BY DEF IInv
<1> QED
  BY <1>1, InterfaceInvariance, PTL

\* RunningHasTimer for any sprint: neither a conflict nor another writer's
\* event lets the chain of tick timers of a running interface die.
THEOREM TimersNeverDie == ISpec => []RunningHasTimer
<1>1. IInv => RunningHasTimer
  BY DEF IInv
<1> QED
  BY <1>1, InterfaceInvariance, PTL
=============================================================================
