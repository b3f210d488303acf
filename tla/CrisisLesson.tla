---------------------------- MODULE CrisisLesson ----------------------------
(***************************************************************************)
(* The lesson on buffer crises (lesson/buffer_crisis.go) and the detector   *)
(* that finds in its zone changes the sequence a proof is made of           *)
(* (zkproof/detector.go).  The lesson runs an engine of its own, day by     *)
(* day, looks at the buffer after each, and asks its user what to do when   *)
(* the zone changes.                                                        *)
(*                                                                         *)
(* Tickets are counted, all of one size; the buffer and the debt are in     *)
(* percent of a sprint's buffer.  Which tickets finish on a day, what they  *)
(* take from the buffer, what the sprint commits and who is idle are free.  *)
(***************************************************************************)
EXTENDS Integers, Sequences, SequencesExt

CONSTANTS
  Sprints,             \* sprints the lesson lasts at most: 4
  Days,                \* SprintLength
  Tickets,             \* in the backlog at first: 3
  Team,                \* developers: 3
  Variances,           \* what a day's completions may take from the buffer
  MaxSequenceEvents,
  MaxTickets           \* bound on the tickets there may be

ASSUME LessonAssumption ==
  /\ {Sprints, Days, MaxSequenceEvents} \subseteq Nat \ {0}
  /\ {Tickets, Team, MaxTickets} \subseteq Nat
  /\ Variances \subseteq Int

VARIABLES
  pc,                  \* "start", "tick", "look", "answer", "over"
  sprint, day,         \* sprintNum, and the day of the sprint
  backlog, committed, active, done,
  buffer,              \* BufferPctUsed, in percent
  debt,                \* accumulatedDebt
  zone, lastZone,
  changes,             \* collectedZoneChanges
  crisisTick, recoveryTick,
  doneAtCrisis         \* history: how much was done when the crisis began

work == <<backlog, committed, active, done>>
seen == <<zone, lastZone, changes, crisisTick, recoveryTick, doneAtCrisis>>
vars == <<pc, sprint, day, work, buffer, debt, seen>>

Green == "Green"
Yellow == "Yellow"
Red == "Red"
Least(m, n) == IF m < n THEN m ELSE n
CurrentTick == sprint * Days + day

Init ==
  /\ pc = "start" /\ sprint = 0 /\ day = 0
  /\ backlog = Tickets /\ committed = 0 /\ active = 0 /\ done = 0
  /\ buffer = 0 /\ debt = 0
  /\ zone = Yellow /\ lastZone = Yellow /\ changes = <<>>
  /\ crisisTick = 0 /\ recoveryTick = 0 /\ doneAtCrisis = 0

-----------------------------------------------------------------------------
(* The days *)

\* assignAvailableWork hands tickets of the backlog to idle developers; the
\* committed ones it does not look at.
AssignAvailableWork(added) ==
  \E k \in 0..Least(backlog + added, Team) :
    /\ backlog' = backlog + added - k
    /\ active' = active + k

\* StartSprint commits what fits of the backlog; the debt is taken from the
\* new sprint's buffer.
StartSprint ==
  /\ pc = "start" /\ pc' = "tick"
  /\ day' = 0 /\ buffer' = IF sprint > 0 THEN debt ELSE 0
  /\ \E c \in 0..backlog :
       /\ committed' = committed + c
       /\ \E k \in 0..Least(backlog - c, Team) :
            backlog' = backlog - c - k /\ active' = active + k
  /\ UNCHANGED <<sprint, done, debt, seen>>

\* One day.  Buffer is consumed where tickets complete, and only there.
Tick ==
  /\ pc = "tick"
  /\ day' = day + 1
  /\ \E n \in 0..Least(active, Team), v \in Variances :
       /\ active' = active - n /\ done' = done + n
       /\ buffer' = IF n = 0 THEN buffer ELSE buffer + v
  /\ pc' = "look"
  /\ UNCHANGED <<sprint, backlog, committed, debt, seen>>

\* The diagonal boundaries, for a progress of done / total.
Total == IF backlog + active + done = 0 THEN 1 ELSE backlog + active + done
ZoneNow ==
  IF buffer * Total <= 66 * done THEN Green
  ELSE IF buffer * Total >= 33 * Total + 67 * done THEN Red
  ELSE Yellow

\* Mutation: the sprints are not counted.
NextDayUncounted ==
  IF recoveryTick' # 0 THEN pc' = "over" /\ UNCHANGED sprint
  ELSE pc' = (IF day < Days THEN "tick" ELSE "start") /\ UNCHANGED sprint

\* The day, or the sprint, or the lesson is over.
NextDay ==
  IF recoveryTick' # 0 THEN pc' = "over" /\ UNCHANGED sprint
  ELSE IF day < Days THEN pc' = "tick" /\ UNCHANGED sprint
  ELSE IF sprint + 1 < Sprints THEN pc' = "start" /\ sprint' = sprint + 1
  ELSE pc' = "over" /\ UNCHANGED sprint

\* Nothing new: the zone is the same, or the sprint ended with this day and
\* there is no status to look at.
NothingNew ==
  /\ pc = "look"
  /\ day = Days \/ ZoneNow = lastZone
  /\ UNCHANGED <<day, work, buffer, debt, seen>>
  /\ NextDay

Changed ==
  /\ pc = "look" /\ day < Days /\ ZoneNow # lastZone
  /\ zone' = ZoneNow
  /\ pc' = "answer"
  /\ UNCHANGED <<sprint, day, work, buffer, debt, lastZone, changes, crisisTick,
                 recoveryTick, doneAtCrisis>>

-----------------------------------------------------------------------------
(* The decisions *)

Costs(added, more) ==
  /\ backlog + committed + active + done + added <= MaxTickets
  /\ AssignAvailableWork(added)
  /\ debt' = debt + more

NoNewWork == UNCHANGED <<backlog, active, debt>>

\* From green to yellow: overtime brings two bugs, waiting a mild debt.
YellowDecision ==
  /\ zone = Yellow /\ lastZone = Green
  /\ Costs(2, 30) \/ Costs(0, 10) \/ NoNewWork

\* Into red: a meeting brings action items, new people their onboarding.
RedDecision ==
  /\ zone = Red
  /\ Costs(1, 25) \/ Costs(2, 50) \/ NoNewWork

NoDecision ==
  /\ zone # Red /\ ~(zone = Yellow /\ lastZone = Green)
  /\ NoNewWork

\* Mutation: any better zone counts as the recovery.
RecoversEarly == zone # Red /\ crisisTick > 0 /\ recoveryTick = 0

Record ==
  /\ changes' = Append(changes, [tick |-> CurrentTick, old |-> lastZone, new |-> zone])
  /\ lastZone' = zone

Recovers == zone = Green /\ crisisTick > 0 /\ recoveryTick = 0

\* The user answers, and the change is recorded.
Answer ==
  /\ pc = "answer"
  /\ YellowDecision \/ RedDecision \/ NoDecision
  /\ Record
  /\ IF zone = Red /\ crisisTick = 0
       THEN crisisTick' = CurrentTick /\ doneAtCrisis' = done
       ELSE UNCHANGED <<crisisTick, doneAtCrisis>>
  /\ recoveryTick' = IF Recovers THEN CurrentTick ELSE recoveryTick
  /\ NextDay
  /\ UNCHANGED <<day, committed, done, buffer, zone>>

\* The lesson is over and waits for nothing.
Over == pc = "over" /\ UNCHANGED vars

Next == StartSprint \/ Tick \/ NothingNew \/ Changed \/ Answer \/ Over

\* Days follow one another, and a prompt is asked until it is answered.
Spec == Init /\ [][Next]_vars /\ WF_vars(Next)

-----------------------------------------------------------------------------
(* The detector *)

\* Mutation: the crisis ends as soon as the zone is no longer red.
EndsCrisisEarly(e) == e.new # Red
EndsCrisis(e) == e.new = Green

\* accumulate: one event of the fold.
Accumulate(s, e) ==
  IF ~s.inCrisis /\ e.new = Red
    THEN [s EXCEPT !.inCrisis = TRUE, !.start = e.tick, !.evts = <<e>>]
  ELSE IF s.inCrisis /\ EndsCrisis(e)
    THEN LET evts == Append(s.evts, e) IN
         [inCrisis |-> FALSE, start |-> 0, evts |-> <<>>,
          completed |-> Append(s.completed,
            [crisis |-> s.start, recovery |-> e.tick,
             events |-> SubSeq(evts, 1, Least(Len(evts), MaxSequenceEvents))])]
  ELSE IF s.inCrisis THEN [s EXCEPT !.evts = Append(@, e)]
  ELSE s

DetectBufferCrisis(evts) ==
  FoldLeft(Accumulate,
           [inCrisis |-> FALSE, start |-> 0, evts |-> <<>>, completed |-> <<>>],
           evts).completed

-----------------------------------------------------------------------------
(* Properties *)

\* A completed lesson can be proved: the lesson tracks the crisis with flags
\* of its own while the detector folds over the recorded changes, and they
\* agree: the detector finds a sequence exactly when the lesson recovered,
\* and its ticks are the ones the user was told.
LessonIsProvable ==
  pc = "over" =>
    LET found == DetectBufferCrisis(changes) IN
    IF recoveryTick = 0 THEN found = <<>>
    ELSE /\ Len(found) = 1
         /\ found[1].crisis = crisisTick /\ found[1].recovery = recoveryTick

\* What the proof is made of is one unbroken story: each change starts where
\* the last one ended, on a later day, and none is from a zone to itself.
ChangesAreAChain ==
  \A i \in DOMAIN changes :
    /\ changes[i].old # changes[i].new
    /\ i > 1 => /\ changes[i].old = changes[i - 1].new
                /\ changes[i].tick > changes[i - 1].tick

\* Whatever the user answers, the lesson comes to an end.
LessonEnds == <>(pc = "over")

\* buffer_crisis.go:117: "Recovery requires completing work, not just waiting
\* for new sprint".
RecoveryNeedsWork == recoveryTick # 0 => done > doneAtCrisis
=============================================================================
