-------------------------- MODULE CrisisLesson_proofs --------------------------
(***************************************************************************)
(* Theorems about CrisisLesson, for any length of the lesson and of a      *)
(* sprint, any team and backlog, and whatever completions cost.            *)
(***************************************************************************)
EXTENDS CrisisLesson, WellFoundedInduction, TLAPS

Zones == {Green, Yellow, Red}
Change == [tick : Nat, old : Zones, new : Zones]

\* What the recorded changes and the clock they are stamped with are made of.
StoryType ==
  /\ pc \in {"start", "tick", "look", "answer", "over"}
  /\ sprint \in Nat /\ day \in 0..Days
  /\ zone \in Zones /\ lastZone \in Zones
  /\ changes \in Seq(Change)

\* The day is asked about while it is not the last of its sprint, and a new
\* zone only.
Asked ==
  /\ pc \in {"tick", "answer"} => day < Days
  /\ pc = "answer" => zone # lastZone

\* The last change is where the lesson has come to.
UpToDate == changes # <<>> => changes[Len(changes)].new = lastZone

\* The clock the lesson has reached when it next looks: no change is later.
Clock == IF pc = "start" THEN sprint * Days ELSE CurrentTick
InThePast ==
  \A i \in DOMAIN changes :
    /\ pc \in {"look", "answer"} => changes[i].tick < Clock
    /\ pc \in {"start", "tick"} => changes[i].tick <= Clock

LInv == StoryType /\ Asked /\ UpToDate /\ InThePast /\ ChangesAreAChain

\* What the detector has made of the changes so far.
NothingSeen == [inCrisis |-> FALSE, start |-> 0, evts |-> <<>>, completed |-> <<>>]
Detector == FoldLeft(Accumulate, NothingSeen, changes)

IsState(d) == d = [inCrisis |-> d.inCrisis, start |-> d.start,
                   evts |-> d.evts, completed |-> d.completed]

\* The detector tells the story the lesson's flags tell: it is in a crisis
\* while the lesson is, it has found none before the lesson has recovered, and
\* then the lesson is over.
SameStory ==
  /\ {crisisTick, recoveryTick} \subseteq Nat
  /\ IsState(Detector)
  /\ IF recoveryTick = 0
       THEN /\ Detector.completed = <<>>
            /\ IF crisisTick = 0 THEN Detector.inCrisis = FALSE
               ELSE Detector.inCrisis = TRUE /\ Detector.start = crisisTick
       ELSE /\ pc = "over" /\ Len(Detector.completed) = 1
            /\ Detector.completed[1].crisis = crisisTick
            /\ Detector.completed[1].recovery = recoveryTick

\* A tick of 0 says that nothing has happened; what happens, does later.
Dated == pc \in {"look", "answer"} => day > 0

PInv == LInv /\ Dated /\ SameStory

-----------------------------------------------------------------------------
(* Lemmas about the clock *)

\* The lesson begins in yellow, with nothing recorded.
LEMMA BeginsQuiet == Init => LInv
<1> SUFFICES ASSUME Init PROVE LInv
  OBVIOUS
<1>1. StoryType
  BY LessonAssumption DEF Init, StoryType, Zones
<1> QED
  BY <1>1 DEF Init, LInv, Asked, UpToDate, InThePast, ChangesAreAChain

\* A sprint is as long as the others, wherever it begins.
LEMMA SprintTakes ==
  ASSUME NEW n \in Nat
  PROVE  /\ Days \in Nat \ {0} /\ n * Days \in Nat
         /\ (n + 1) * Days = n * Days + Days
<1>1. Days \in Nat \ {0}
  BY LessonAssumption
<1> QED
  BY <1>1

\* After a day nothing was recorded on, or that has just been recorded, the
\* next one is later.
LEMMA NextDayIsLater ==
  ASSUME StoryType, NextDay, day' = day, pc \in {"look", "answer"},
         NEW t \in Nat, t <= CurrentTick, day = Days => t < CurrentTick
  PROVE  /\ pc' \in {"start", "tick", "over"} /\ sprint' \in Nat
         /\ pc' = "tick" => day' < Days
         /\ pc' \in {"start", "tick"} => t <= Clock'
<1>1. /\ sprint \in Nat /\ day \in 0..Days /\ Days \in Nat \ {0}
      /\ sprint * Days \in Nat /\ (sprint + 1) * Days = sprint * Days + Days
  BY SprintTakes DEF StoryType
<1>2. CASE recoveryTick' # 0
  BY <1>1, <1>2 DEF NextDay
<1>3. CASE recoveryTick' = 0 /\ day < Days
  <2>1. pc' = "tick" /\ sprint' = sprint
    BY <1>3 DEF NextDay
  <2> QED
    BY <1>1, <1>3, <2>1 DEF Clock, CurrentTick
<1>4. CASE recoveryTick' = 0 /\ ~(day < Days)
  <2>1. day = Days /\ t < sprint * Days + Days
    BY <1>1, <1>4 DEF CurrentTick
  <2>2. \/ pc' = "start" /\ sprint' = sprint + 1
        \/ pc' = "over" /\ sprint' = sprint
    BY <1>4 DEF NextDay
  <2>3. CASE pc' = "start" /\ sprint' = sprint + 1
    <3>1. Clock' = sprint * Days + Days
      BY <1>1, <2>3 DEF Clock
    <3> QED
      BY <1>1, <2>1, <2>3, <3>1
  <2>4. CASE pc' = "over" /\ sprint' = sprint
    BY <1>1, <2>4
  <2> QED
    BY <2>2, <2>3, <2>4
<1> QED
  BY <1>2, <1>3, <1>4

\* A change of the chain is of its type.
LEMMA ChangeType ==
  ASSUME StoryType
  PROVE  /\ Len(changes) \in Nat /\ DOMAIN changes = 1..Len(changes)
         /\ \A i \in DOMAIN changes : changes[i].tick \in Nat
<1>1. /\ Len(changes) \in Nat /\ DOMAIN changes = 1..Len(changes)
      /\ \A i \in DOMAIN changes : changes[i] \in Change
  BY DEF StoryType
<1> QED
  BY <1>1 DEF Change

-----------------------------------------------------------------------------
(* The steps *)

\* A sprint begins on the clock its last one ended at.
LEMMA StartSprintKeeps ==
  ASSUME LInv, StartSprint
  PROVE  LInv'
<1>1. /\ pc = "start" /\ pc' = "tick" /\ day' = 0 /\ UNCHANGED <<sprint, zone, lastZone, changes>>
      /\ StoryType /\ sprint * Days \in Nat /\ Days \in Nat \ {0}
  BY SprintTakes DEF LInv, StoryType, StartSprint, seen
<1>2. StoryType' /\ Asked'
  BY <1>1 DEF StoryType, Asked
<1>3. InThePast'
  <2>1. Clock' = Clock
    BY <1>1 DEF Clock, CurrentTick
  <2> QED
    BY <1>1, <2>1 DEF LInv, InThePast
<1> QED
  BY <1>1, <1>2, <1>3 DEF LInv, UpToDate, ChangesAreAChain

\* A day makes everything recorded a thing of the past.
LEMMA TickKeeps ==
  ASSUME LInv, Tick
  PROVE  LInv'
<1>1. /\ pc = "tick" /\ pc' = "look" /\ day' = day + 1
      /\ UNCHANGED <<sprint, zone, lastZone, changes>>
      /\ StoryType /\ day < Days /\ sprint * Days \in Nat /\ Days \in Nat \ {0}
  BY SprintTakes DEF LInv, StoryType, Asked, Tick, seen
<1>2. day \in Nat /\ sprint \in Nat
  BY <1>1 DEF StoryType
<1>3. StoryType' /\ Asked'
  BY <1>1, <1>2 DEF StoryType, Asked
<1>4. InThePast'
  <2>1. Clock' = Clock + 1 /\ Clock \in Nat
    BY <1>1, <1>2 DEF Clock, CurrentTick
  <2>2. \A i \in DOMAIN changes : changes[i].tick <= Clock /\ changes[i].tick \in Nat
    BY <1>1, ChangeType DEF LInv, InThePast
  <2> QED
    BY <1>1, <2>1, <2>2 DEF InThePast
<1> QED
  BY <1>1, <1>3, <1>4 DEF LInv, UpToDate, ChangesAreAChain

\* A look that finds nothing new, or no status, lets the next day come.
LEMMA NothingNewKeeps ==
  ASSUME LInv, NothingNew
  PROVE  LInv'
<1>1. /\ pc = "look" /\ UNCHANGED <<day, zone, lastZone, changes>> /\ NextDay
      /\ StoryType /\ sprint * Days \in Nat /\ Days \in Nat \ {0}
  BY SprintTakes DEF LInv, StoryType, NothingNew, seen
<1>2. CurrentTick \in Nat /\ Clock = CurrentTick
  BY <1>1 DEF StoryType, CurrentTick, Clock
<1>3. /\ pc' \in {"start", "tick", "over"} /\ sprint' \in Nat
      /\ pc' = "tick" => day' < Days
  <2>1. CurrentTick > 0 \/ day # Days
    BY <1>1 DEF StoryType, CurrentTick
  <2> QED
    BY <1>1, <1>2, <2>1, NextDayIsLater
<1>4. StoryType' /\ Asked'
  BY <1>1, <1>3 DEF StoryType, Asked
<1>5. InThePast'
  <2> SUFFICES ASSUME NEW i \in DOMAIN changes, pc' \in {"start", "tick"}
               PROVE  changes[i].tick <= Clock'
    BY <1>1, <1>3 DEF InThePast
  <2>1. changes[i].tick \in Nat /\ changes[i].tick < CurrentTick
    BY <1>1, <1>2, ChangeType DEF LInv, InThePast
  <2> QED
    BY <1>1, <1>2, <2>1, NextDayIsLater
<1> QED
  BY <1>1, <1>4, <1>5 DEF LInv, UpToDate, ChangesAreAChain

\* A new zone is asked about on the day it is seen.
LEMMA ChangedKeeps ==
  ASSUME LInv, Changed
  PROVE  LInv'
<1>1. /\ pc = "look" /\ pc' = "answer" /\ day < Days /\ ZoneNow # lastZone /\ zone' = ZoneNow
      /\ UNCHANGED <<sprint, day, lastZone, changes>> /\ StoryType
  BY DEF LInv, Changed
<1>2. ZoneNow \in Zones
  BY DEF ZoneNow, Zones
<1>3. StoryType' /\ Asked'
  BY <1>1, <1>2 DEF StoryType, Asked
<1>4. InThePast'
  <2>1. Clock' = Clock
    BY <1>1 DEF Clock, CurrentTick
  <2> QED
    BY <1>1, <2>1 DEF LInv, InThePast
<1> QED
  BY <1>1, <1>3, <1>4 DEF LInv, UpToDate, ChangesAreAChain

\* The answer's record continues the chain.
LEMMA AnswerKeeps ==
  ASSUME LInv, Answer
  PROVE  LInv'
<1> DEFINE new == [tick |-> CurrentTick, old |-> lastZone, new |-> zone]
           n == Len(changes)
<1>1. /\ pc = "answer" /\ UNCHANGED <<day, zone>> /\ NextDay
      /\ changes' = Append(changes, new) /\ lastZone' = zone
      /\ StoryType /\ day < Days /\ zone # lastZone
      /\ sprint * Days \in Nat /\ Days \in Nat \ {0}
  BY SprintTakes DEF LInv, StoryType, Asked, Answer, Record
<1>2. CurrentTick \in Nat /\ Clock = CurrentTick
  BY <1>1 DEF StoryType, CurrentTick, Clock
<1>3. new \in Change /\ new.tick = CurrentTick /\ new.old = lastZone /\ new.new = zone
  BY <1>1, <1>2 DEF StoryType, Change
<1> HIDE DEF new
<1>4. /\ n \in Nat /\ DOMAIN changes = 1..n /\ DOMAIN changes' = 1..(n + 1)
      /\ changes'[n + 1] = new /\ \A i \in 1..n : changes'[i] = changes[i]
      /\ changes' \in Seq(Change) /\ Len(changes') = n + 1
  BY <1>1, <1>3 DEF StoryType
<1>5. \A i \in 1..n : changes[i].tick \in Nat /\ changes[i].tick < CurrentTick
  BY <1>1, <1>2, <1>4, ChangeType DEF LInv, InThePast
<1>6. n > 0 => changes[n].new = lastZone
  BY <1>4 DEF LInv, UpToDate
<1> HIDE DEF n
<1>7. /\ pc' \in {"start", "tick", "over"} /\ sprint' \in Nat
      /\ pc' = "tick" => day' < Days
      /\ pc' \in {"start", "tick"} => CurrentTick <= Clock'
  BY <1>1, <1>2, NextDayIsLater
<1>8. StoryType' /\ Asked'
  BY <1>1, <1>4, <1>7 DEF StoryType, Asked
<1>9. UpToDate'
  BY <1>1, <1>3, <1>4 DEF UpToDate
<1>10. InThePast'
  <2> SUFFICES ASSUME NEW i \in 1..(n + 1), pc' \in {"start", "tick"}
               PROVE  changes'[i].tick <= Clock'
    BY <1>4, <1>7 DEF InThePast
  <2>1. changes'[i].tick \in Nat /\ changes'[i].tick <= CurrentTick
    <3>1. CASE i = n + 1
      BY <1>2, <1>3, <1>4, <3>1
    <3>2. CASE i # n + 1
      <4>1. i \in 1..n
        BY <1>4, <3>2
      <4> QED
        BY <1>2, <1>4, <1>5, <4>1
    <3> QED
      BY <3>1, <3>2
  <2>2. \A t \in Nat : t <= CurrentTick => t <= Clock'
    BY <1>1, <1>7, NextDayIsLater
  <2> QED
    BY <2>1, <2>2
<1>11. ChangesAreAChain'
  <2> SUFFICES ASSUME NEW i \in 1..(n + 1)
               PROVE  /\ changes'[i].old # changes'[i].new
                      /\ i > 1 => /\ changes'[i].old = changes'[i - 1].new
                                  /\ changes'[i].tick > changes'[i - 1].tick
    BY <1>4 DEF ChangesAreAChain
  <2>1. CASE i = n + 1
    <3>1. changes'[i] = new
      BY <1>4, <2>1
    <3>2. ASSUME i > 1
          PROVE  changes'[i - 1] = changes[n] /\ changes[n].new = lastZone
                 /\ changes[n].tick < CurrentTick /\ changes[n].tick \in Nat
      <4>1. n \in 1..n /\ i - 1 = n /\ n > 0
        BY <1>4, <2>1, <3>2
      <4> QED
        BY <1>4, <1>5, <1>6, <4>1
    <3> QED
      BY <1>1, <1>2, <1>3, <3>1, <3>2
  <2>2. CASE i # n + 1
    <3>1. i \in 1..n /\ (i > 1 => i - 1 \in 1..n)
      BY <1>4, <2>2
    <3>2. changes'[i] = changes[i] /\ (i > 1 => changes'[i - 1] = changes[i - 1])
      BY <1>4, <3>1
    <3> QED
      BY <1>4, <3>1, <3>2 DEF LInv, ChangesAreAChain
  <2> QED
    BY <2>1, <2>2
<1> QED
  BY <1>8, <1>9, <1>10, <1>11 DEF LInv

-----------------------------------------------------------------------------
(* The detector's fold.  A recursive function over sets of indices is what   *)
(* defines FoldLeft; the lemmas below make of it "one event after another".   *)

\* Every set of naturals with a member has a least one.
LEMMA LeastOf ==
  ASSUME NEW S \in SUBSET Nat, S # {}
  PROVE  \E m \in S : \A i \in S : m <= i
<1> DEFINE R == {ss \in Nat \X Nat : ss[1] < ss[2]}
<1>1. IsWellFoundedOn(R, Nat)
  BY NatLessThanWellFounded DEF OpToRel
<1>2. PICK m \in S : \A i \in S : ~(<<i, m>> \in R)
  <2> HIDE DEF R
  <2> QED BY <1>1, WFMin
<1>3. ASSUME NEW i \in S PROVE m <= i
  <2>1. m \in Nat /\ i \in Nat /\ <<i, m>> \in Nat \X Nat
    OBVIOUS
  <2>2. ~(i < m)
    BY <1>2, <2>1
  <2> QED BY <2>1, <2>2
<1> QED BY <1>3

\* One step of the function that defines the fold of s.
Rec(s, f, T) == IF T = {} THEN NothingSeen ELSE Accumulate(f[T \ {Max(T)}], s[Max(T)])

\* f is the function by which the fold over the first n events is defined.
IsFold(f, s, n) == f = [T \in SUBSET (1..n) |-> Rec(s, f, T)]

\* Without its greatest member, a set of indices ends earlier.
LEMMA GreatestOf ==
  ASSUME NEW n \in Nat, NEW T, T \subseteq 1..n, T # {}
  PROVE  /\ n > 0 /\ Max(T) \in 1..n
         /\ T \ {Max(T)} \subseteq 1..(n - 1)
         /\ n \in T => Max(T) = n
<1> DEFINE U == {i \in Nat : \A y \in T : y <= i}
<1>1. n \in U
  OBVIOUS
<1>2. PICK m \in U : \A i \in U : m <= i
  <2>1. U \in SUBSET Nat /\ U # {}
    BY <1>1
  <2> HIDE DEF U
  <2> QED BY <2>1, LeastOf
<1>3. m \in Nat /\ (\A y \in T : y <= m) /\ \A y \in T : y \in 1..n
  BY <1>2
<1>4. m \in T
  <2>1. SUFFICES ASSUME m \notin T PROVE FALSE
    OBVIOUS
  <2>2. PICK z : z \in T
    OBVIOUS
  <2>3. m - 1 \in Nat
    BY <1>3, <2>2
  <2>4. \A y \in T : y <= m - 1
    BY <1>3, <2>1
  <2>5. m - 1 \in U
    BY <2>3, <2>4
  <2> QED BY <1>2, <1>3, <2>5
<1>5. \A x \in T : (\A y \in T : x >= y) => x = m
  BY <1>3, <1>4
<1>6. Max(T) = m
  BY <1>3, <1>4, <1>5 DEF Max
<1>7. \A y \in T \ {m} : y \in 1..(n - 1)
  BY <1>3, <1>4
<1> QED BY <1>3, <1>4, <1>6, <1>7

\* s and u have the same first n events.
Begins(s, u, n) == \A i \in 1..n : s[i] = u[i]

\* That function exists: it is found for ever longer sets of indices.
LEMMA FoldExists ==
  ASSUME NEW s, NEW n \in Nat
  PROVE  \E f : IsFold(f, s, n)
<1> DEFINE Good(k, f) == /\ f = [T \in SUBSET (1..n) |-> f[T]]
                         /\ \A T \in SUBSET (1..n) : T \subseteq 1..k => f[T] = Rec(s, f, T)
<1> DEFINE Bad == {k \in Nat : ~ \E f : Good(k, f)}
<1>1. 0 \notin Bad
  <2> DEFINE f == [T \in SUBSET (1..n) |-> NothingSeen]
  <2>1. ASSUME NEW T \in SUBSET (1..n), T \subseteq 1..0 PROVE f[T] = Rec(s, f, T)
    <3>1. T = {}
      BY <2>1
    <3> QED BY <3>1 DEF Rec
  <2> QED BY <2>1
<1>2. ASSUME NEW k \in Nat, NEW f, Good(k, f) PROVE \E g : Good(k + 1, g)
  <2> DEFINE g == [T \in SUBSET (1..n) |-> Rec(s, f, T)]
  <2>1. ASSUME NEW T \in SUBSET (1..n), T \subseteq 1..(k + 1)
        PROVE  g[T] = Rec(s, g, T)
    <3>1. CASE T = {}
      BY <3>1 DEF Rec
    <3>2. CASE T # {}
      <4>1. T \ {Max(T)} \subseteq 1..((k + 1) - 1)
        BY <2>1, <3>2, GreatestOf, k + 1 \in Nat
      <4>2. T \ {Max(T)} \in SUBSET (1..n) /\ T \ {Max(T)} \subseteq 1..k
        BY <4>1
      <4>3. g[T \ {Max(T)}] = f[T \ {Max(T)}]
        BY <1>2, <4>2
      <4>4. g[T] = Rec(s, f, T)
        OBVIOUS
      <4> HIDE DEF g
      <4> QED BY <3>2, <4>3, <4>4 DEF Rec
    <3> QED BY <3>1, <3>2
  <2>2. g = [T \in SUBSET (1..n) |-> g[T]]
    OBVIOUS
  <2> HIDE DEF g
  <2> QED BY <2>1, <2>2
<1> HIDE DEF Good
<1>3. Bad = {}
  <2>1. SUFFICES ASSUME Bad # {} PROVE FALSE
    OBVIOUS
  <2>2. PICK k \in Bad : \A i \in Bad : k <= i
    BY <2>1, LeastOf
  <2>3. k # 0 /\ k - 1 \in Nat /\ k - 1 \notin Bad /\ (k - 1) + 1 = k
    BY <1>1, <2>2
  <2>4. PICK f : Good(k - 1, f)
    BY <2>3
  <2>5. \E g : Good((k - 1) + 1, g)
    BY <1>2, <2>3, <2>4
  <2> QED BY <2>2, <2>3, <2>5
<1>4. PICK f : Good(n, f)
  BY <1>3
<1>5. IsFold(f, s, n)
  BY <1>4 DEF Good, IsFold
<1> QED BY <1>5

\* So it is what the fold is defined by.
LEMMA FoldIs ==
  ASSUME NEW s, NEW n \in Nat, DOMAIN s = 1..n
  PROVE  \E f : /\ IsFold(f, s, n)
                /\ FoldLeft(Accumulate, NothingSeen, s) = f[1..n]
<1> DEFINE g == CHOOSE f : IsFold(f, s, n)
<1>2. IsFold(g, s, n)
  BY FoldExists DEF IsFold
<1>3. FoldLeft(Accumulate, NothingSeen, s) = g[1..n]
  BY DEF FoldLeft, MapThenFoldSet, Rec, IsFold
<1> QED BY <1>2, <1>3

\* The fold of a prefix does not look at what follows.
LEMMA FoldAgree ==
  ASSUME NEW s, NEW u, NEW n \in Nat, NEW k \in Nat, NEW f, NEW g,
         IsFold(f, s, n), IsFold(g, u, k), n <= k, Begins(s, u, n)
  PROVE  f[1..n] = g[1..n]
<1> DEFINE Bad == {c \in Nat : \E T \in SUBSET (1..n) : T \subseteq 1..c /\ f[T] # g[T]}
<1>1. ASSUME Bad # {} PROVE FALSE
  <2>1. PICK c \in Bad : \A i \in Bad : c <= i
    <3>1. Bad \in SUBSET Nat
      OBVIOUS
    <3> HIDE DEF Bad
    <3> QED BY <1>1, <3>1, LeastOf
  <2>2. PICK T \in SUBSET (1..n) : T \subseteq 1..c /\ f[T] # g[T]
    BY <2>1
  <2>3. f[T] = Rec(s, f, T) /\ g[T] = Rec(u, g, T)
    <3>1. T \in SUBSET (1..k)
      OBVIOUS
    <3> QED BY <3>1 DEF IsFold
  <2>4. T # {}
    BY <2>2, <2>3 DEF Rec
  <2>5. c > 0 /\ c \in Nat /\ Max(T) \in 1..n /\ T \ {Max(T)} \subseteq 1..(c - 1)
    <3>1. T \subseteq 1..n /\ T \subseteq 1..c /\ c \in Nat
      BY <2>1, <2>2
    <3>2. Max(T) \in 1..n
      BY <2>4, <3>1, GreatestOf
    <3>3. c > 0 /\ T \ {Max(T)} \subseteq 1..(c - 1)
      BY <2>4, <3>1, GreatestOf
    <3> QED BY <3>1, <3>2, <3>3
  <2>6. c - 1 \notin Bad /\ c - 1 \in Nat
    <3>1. c - 1 \in Nat /\ ~(c <= c - 1)
      BY <2>5
    <3> HIDE DEF Bad
    <3> QED BY <2>1, <3>1
  <2>7. f[T \ {Max(T)}] = g[T \ {Max(T)}]
    BY <2>5, <2>6
  <2> QED BY <2>2, <2>3, <2>4, <2>5, <2>7 DEF Rec, Begins
<1> QED BY <1>1

\* The fold of no event.
LEMMA FoldOfNone == FoldLeft(Accumulate, NothingSeen, <<>>) = NothingSeen
<1>1. DOMAIN <<>> = 1..0
  OBVIOUS
<1>2. PICK f : /\ IsFold(f, <<>>, 0)
               /\ FoldLeft(Accumulate, NothingSeen, <<>>) = f[1..0]
  BY <1>1, FoldIs
<1>3. 1..0 = {} /\ {} \in SUBSET (1..0)
  OBVIOUS
<1> QED BY <1>2, <1>3 DEF Rec, IsFold

\* The fold of one event more.
LEMMA FoldAppend ==
  ASSUME NEW S, NEW s \in Seq(S), NEW e \in S
  PROVE  FoldLeft(Accumulate, NothingSeen, Append(s, e)) = Accumulate(FoldLeft(Accumulate, NothingSeen, s), e)
<1> DEFINE u == Append(s, e)
<1>1. PICK n \in Nat : Len(s) = n
  OBVIOUS
<1>2. /\ DOMAIN s = 1..n /\ DOMAIN u = 1..(n + 1)
      /\ u[n + 1] = e /\ \A i \in 1..n : s[i] = u[i]
  BY <1>1
<1> HIDE DEF u
<1>3. PICK k \in Nat : k = n + 1
  OBVIOUS
<1>3a. n <= k /\ k \in 1..k /\ (1..k) \ {k} = 1..n
  BY <1>3
<1>4. PICK f : /\ IsFold(f, s, n)
               /\ FoldLeft(Accumulate, NothingSeen, s) = f[1..n]
  BY <1>2, FoldIs
<1>5. PICK g : /\ IsFold(g, u, k)
               /\ FoldLeft(Accumulate, NothingSeen, u) = g[1..k]
  BY <1>2, <1>3, <1>3a, FoldIs
<1>6. f[1..n] = g[1..n]
  <2>1. Begins(s, u, n)
    BY <1>2 DEF Begins
  <2>2. IsFold(f, s, n)
    BY <1>4
  <2>3. IsFold(g, u, k)
    BY <1>5
  <2> QED BY <1>3, <1>3a, <2>1, <2>2, <2>3, FoldAgree
<1>7. Max(1..k) = k
  BY <1>3, <1>3a, GreatestOf
<1>8. g[1..k] = Rec(u, g, 1..k)
  BY <1>5 DEF IsFold
<1> QED BY <1>2, <1>3, <1>3a, <1>4, <1>5, <1>6, <1>7, <1>8 DEF Rec, u
-----------------------------------------------------------------------------
(* The lesson and the detector *)

\* At the start neither has seen anything.
LEMMA NothingToTell == Init => Dated /\ SameStory
<1> SUFFICES ASSUME Init PROVE Dated /\ SameStory
  OBVIOUS
<1>1. Detector = NothingSeen
  BY FoldOfNone DEF Detector, Init
<1>2. /\ NothingSeen = [inCrisis |-> FALSE, start |-> 0, evts |-> <<>>, completed |-> <<>>]
      /\ IsState(NothingSeen) /\ NothingSeen.inCrisis = FALSE /\ NothingSeen.start = 0 /\ NothingSeen.completed = <<>>
  BY DEF NothingSeen, IsState
<1> QED
  BY <1>1, <1>2 DEF Init, Dated, SameStory

\* What records nothing keeps both stories.
LEMMA NoChangeKeeps ==
  ASSUME PInv, [Next]_vars, UNCHANGED changes
  PROVE  Dated' /\ SameStory'
<1>1. UNCHANGED <<crisisTick, recoveryTick, Detector>>
  <2>1. ~Answer
    <3>1. ASSUME Answer PROVE FALSE
      <4>1. Len(changes') = Len(changes) + 1 /\ Len(changes) \in Nat
        BY <3>1 DEF PInv, LInv, StoryType, Answer, Record
      <4> QED
        BY <4>1
    <3> QED
      BY <3>1
  <2> QED
    BY <2>1 DEF Next, vars, seen, StartSprint, Tick, NothingNew, Changed, Over, Detector
<1>2. recoveryTick # 0 => pc' = "over"
  <2> SUFFICES ASSUME recoveryTick # 0 PROVE pc' = "over"
    OBVIOUS
  <2>1. pc = "over"
    BY DEF PInv, SameStory
  <2> QED
    BY <2>1 DEF Next, vars, StartSprint, Tick, NothingNew, Changed, Answer, Over
<1>3. Dated'
  <2>1. day \in Nat
    BY DEF PInv, LInv, StoryType
  <2>2. CASE StartSprint
    BY <2>2 DEF StartSprint, Dated
  <2>3. CASE Tick
    BY <2>1, <2>3 DEF Tick, Dated
  <2>4. CASE NothingNew \/ Answer
    <3>1. pc' \in {"tick", "start", "over"}
      BY <2>4 DEF NothingNew, Answer, NextDay
    <3> QED
      BY <3>1 DEF Dated
  <2>5. CASE Changed
    BY <2>5 DEF Changed, Dated, PInv
  <2>6. CASE Over \/ UNCHANGED vars
    BY <2>6 DEF Over, vars, Dated, PInv
  <2> QED
    BY <2>2, <2>3, <2>4, <2>5, <2>6 DEF Next
<1> QED
  BY <1>1, <1>2, <1>3 DEF PInv, SameStory

\* An event more changes nothing else of the detector.
LEMMA EventsOnly ==
  ASSUME NEW d, NEW i, NEW n, NEW c, NEW x,
         d = [inCrisis |-> i, start |-> n, evts |-> d.evts, completed |-> c]
  PROVE  [d EXCEPT !.evts = x] = [inCrisis |-> i, start |-> n, evts |-> x, completed |-> c]
OBVIOUS

\* An answer is told to both.
LEMMA AnswerTold ==
  ASSUME PInv, Answer
  PROVE  Dated' /\ SameStory'
<1> DEFINE e == [tick |-> CurrentTick, old |-> lastZone, new |-> zone]
<1>1. /\ pc = "answer" /\ NextDay /\ changes' = Append(changes, e)
      /\ changes \in Seq(Change) /\ zone \in Zones /\ lastZone \in Zones
      /\ recoveryTick' = IF Recovers THEN CurrentTick ELSE recoveryTick
      /\ IF zone = Red /\ crisisTick = 0 THEN crisisTick' = CurrentTick
         ELSE crisisTick' = crisisTick
  BY DEF PInv, LInv, StoryType, Answer, Record
<1>2. CurrentTick \in Nat \ {0}
  <2>1. sprint \in Nat /\ day \in Nat /\ day > 0 /\ sprint * Days \in Nat
    <3>1. sprint \in Nat /\ day \in 0..Days /\ day > 0
      BY <1>1 DEF PInv, LInv, StoryType, Dated
    <3>2. Days \in Nat /\ sprint * Days \in Nat
      BY <3>1, SprintTakes
    <3> QED
      BY <3>1, <3>2
  <2> QED
    BY <2>1 DEF CurrentTick
<1>3. e \in Change /\ e.tick = CurrentTick /\ e.new = zone
  BY <1>1, <1>2 DEF Change
<1> HIDE DEF e
<1>4. Detector' = Accumulate(Detector, e)
  BY <1>1, <1>3, FoldAppend DEF Detector
<1>5. recoveryTick = 0 /\ crisisTick \in Nat
  BY <1>1 DEF PInv, SameStory
<1> DEFINE d == Detector
<1>6. IsState(d)
  BY DEF PInv, SameStory
<1>7. /\ d.completed = <<>>
      /\ crisisTick = 0 => d.inCrisis = FALSE
      /\ crisisTick # 0 => d.inCrisis = TRUE /\ d.start = crisisTick
  BY <1>5 DEF PInv, SameStory
<1> HIDE DEF d
<1>8. Detector' = Accumulate(d, e)
  BY <1>4 DEF d
<1>9. CASE crisisTick = 0 /\ zone = Red
  <2>1. Detector' = [d EXCEPT !.inCrisis = TRUE, !.start = e.tick, !.evts = <<e>>]
    BY <1>3, <1>7, <1>8, <1>9 DEF Accumulate
  <2>2. Detector' = [inCrisis |-> TRUE, start |-> CurrentTick, evts |-> <<e>>, completed |-> <<>>]
    BY <1>3, <1>6, <1>7, <2>1 DEF IsState
  <2>3. crisisTick' = CurrentTick /\ recoveryTick' = 0
    BY <1>1, <1>5, <1>9 DEF Recovers
  <2>4. /\ IsState(Detector') /\ Detector'.inCrisis = TRUE /\ Detector'.start = CurrentTick
        /\ Detector'.completed = <<>>
    BY <2>2 DEF IsState
  <2> QED
    BY <1>1, <1>2, <2>3, <2>4 DEF SameStory, Dated, NextDay
<1>10. CASE crisisTick = 0 /\ zone # Red
  <2>1. Detector' = d
    BY <1>3, <1>7, <1>8, <1>10 DEF Accumulate
  <2>2. crisisTick' = 0 /\ recoveryTick' = 0
    BY <1>1, <1>5, <1>10 DEF Recovers
  <2> QED
    BY <1>1, <1>6, <1>7, <1>10, <2>1, <2>2 DEF SameStory, Dated, NextDay
<1>11. CASE crisisTick # 0 /\ zone = Green
  <2>1. PICK x : Detector' =
          [inCrisis |-> FALSE, start |-> 0, evts |-> <<>>,
           completed |-> Append(d.completed,
                           [crisis |-> d.start, recovery |-> e.tick, events |-> x])]
    BY <1>3, <1>7, <1>8, <1>11 DEF Accumulate, EndsCrisis, Green, Red
  <2>2. Detector'.completed = <<[crisis |-> crisisTick, recovery |-> CurrentTick, events |-> x]>>
    BY <1>3, <1>7, <1>11, <2>1
  <2>3. /\ Len(Detector'.completed) = 1
        /\ Detector'.completed[1].crisis = crisisTick
        /\ Detector'.completed[1].recovery = CurrentTick
    BY <2>2
  <2>4. crisisTick' = crisisTick /\ recoveryTick' = CurrentTick /\ pc' = "over"
    BY <1>1, <1>2, <1>5, <1>11 DEF Recovers, Green, Red, NextDay
  <2>5. IsState(Detector')
    BY <2>1 DEF IsState
  <2> QED
    BY <1>2, <1>5, <2>3, <2>4, <2>5 DEF SameStory, Dated
<1>12. CASE crisisTick # 0 /\ zone # Green
  <2>1. Detector' = [d EXCEPT !.evts = Append(@, e)]
    BY <1>3, <1>7, <1>8, <1>12 DEF Accumulate, EndsCrisis
  <2>2. Detector' = [inCrisis |-> TRUE, start |-> crisisTick,
                     evts |-> Append(d.evts, e), completed |-> <<>>]
    <3>1. d = [inCrisis |-> TRUE, start |-> crisisTick, evts |-> d.evts, completed |-> <<>>]
      BY <1>6, <1>7, <1>12 DEF IsState
    <3>2. PICK i, n, c, x : /\ i = TRUE /\ n = crisisTick /\ c = <<>> /\ x = Append(d.evts, e)
      OBVIOUS
    <3>3. d = [inCrisis |-> i, start |-> n, evts |-> d.evts, completed |-> c]
      BY <3>1, <3>2
    <3>4. [d EXCEPT !.evts = x] = [inCrisis |-> i, start |-> n, evts |-> x, completed |-> c]
      BY <3>3, EventsOnly
    <3>5. Detector' = [d EXCEPT !.evts = x]
      BY <2>1, <3>2
    <3> QED
      BY <3>2, <3>4, <3>5
  <2>3. crisisTick' = crisisTick /\ recoveryTick' = 0
    BY <1>1, <1>5, <1>12 DEF Recovers
  <2>4. /\ IsState(Detector') /\ Detector'.inCrisis = TRUE /\ Detector'.start = crisisTick
        /\ Detector'.completed = <<>>
    BY <2>2 DEF IsState
  <2> QED
    BY <1>1, <1>5, <1>12, <2>3, <2>4 DEF SameStory, Dated, NextDay
<1> QED
  BY <1>9, <1>10, <1>11, <1>12

-----------------------------------------------------------------------------
(* Theorems *)

\* The invariant holds on every day of the lesson.
THEOREM LessonInvariance == Spec => []LInv
<1>1. LInv /\ [Next]_vars => LInv'
  <2> SUFFICES ASSUME LInv, [Next]_vars PROVE LInv'
    OBVIOUS
  <2>1. CASE Next /\ ~Over
    BY <2>1, StartSprintKeeps, TickKeeps, NothingNewKeeps, ChangedKeeps, AnswerKeeps DEF Next
  <2>2. CASE Over \/ UNCHANGED vars
    <3>1. UNCHANGED <<pc, sprint, day, zone, lastZone, changes>>
      BY <2>2 DEF Over, vars, seen
    <3>2. StoryType' /\ Asked' /\ UpToDate' /\ ChangesAreAChain'
      BY <3>1 DEF LInv, StoryType, Asked, UpToDate, ChangesAreAChain
    <3>3. InThePast'
      BY <3>1 DEF LInv, InThePast, Clock, CurrentTick
    <3> QED
      BY <3>2, <3>3 DEF LInv
  <2> QED
    BY <2>1, <2>2
<1> QED
  BY <1>1, BeginsQuiet, PTL DEF Spec

\* ChangesAreAChain for any lesson: the changes buffer_crisis.go records, from
\* which the detector and then the prover start, are one unbroken story on
\* strictly later days.
THEOREM OneStory == Spec => []ChangesAreAChain
<1>1. LInv => ChangesAreAChain
  BY DEF LInv
<1> QED
  BY <1>1, LessonInvariance, PTL

\* The flags of the lesson and the fold of the detector tell one story, for any
\* number of changes.
THEOREM TwoStories == Spec => []PInv
<1>1. LInv' /\ PInv /\ [Next]_vars => PInv'
  <2> SUFFICES ASSUME LInv', PInv, [Next]_vars PROVE PInv'
    OBVIOUS
  <2>1. Answer \/ UNCHANGED changes
    BY DEF Next, vars, seen, StartSprint, Tick, NothingNew, Changed, Over
  <2> QED
    BY <2>1, AnswerTold, NoChangeKeeps DEF PInv
<1>2. Init => PInv
  BY BeginsQuiet, NothingToTell DEF PInv
<1> QED
  BY <1>1, <1>2, LessonInvariance, PTL DEF Spec

\* LessonIsProvable for any lesson: what the user was told, zkproof/detector.go
\* finds, whatever their answers and however long the crisis.
THEOREM LessonCanBeProved == Spec => []LessonIsProvable
<1>1. PInv => LessonIsProvable
  <2> SUFFICES ASSUME PInv PROVE LessonIsProvable
    OBVIOUS
  <2>1. DetectBufferCrisis(changes) = Detector.completed
    BY DEF DetectBufferCrisis, Detector, NothingSeen
  <2> QED
    BY <2>1 DEF PInv, SameStory, LessonIsProvable
<1> QED
  BY <1>1, TwoStories, PTL
=============================================================================
