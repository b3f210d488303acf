--------------------------- MODULE Constraint_proofs ---------------------------
(***************************************************************************)
(* Theorems about Constraint, for any tickets, phases, window, hysteresis  *)
(* and fading of the confidence.                                           *)
(***************************************************************************)
EXTENDS Constraint, FiniteSetTheorems, WellFoundedInduction, TLAPS

\* What an analyzer is made of, as far as the proofs need to know.
IsTOC(toc) ==
  /\ DOMAIN toc = {"prev", "ring", "candidate", "consecutive", "constraint", "confidence",
                   "buffer", "lastSprint", "investment", "prevNumber", "prevSprint",
                   "prevInvested"}
  /\ toc.consecutive \in Nat
  /\ \E S : toc.ring \in Seq(S)

\* What AnalyzersAgree compares.
Same(a, b) ==
  /\ a.ring = b.ring
  /\ a.candidate = b.candidate /\ a.consecutive = b.consecutive
  /\ a.constraint = b.constraint /\ a.confidence = b.confidence

\* Two snapshots that differ in what waits only, which no dwell time and no
\* count of arrivals or departures depends on.
Alike(x, y) ==
  /\ DOMAIN x = DOMAIN y
  /\ \A t \in DOMAIN x : x[t].phase = y[t].phase /\ x[t].entered = y[t].entered

\* The candidate follows the window, and is confirmed as soon as it may be.
Tracks(toc) ==
  /\ FollowsWindow(toc)
  /\ toc.constraint = 0 => toc.consecutive < Hysteresis

\* Both analyzers follow their windows, they have seen the same if handlers
\* drive the simulation, and no constraint is known while the warm-up goes on.
CInv ==
  /\ IsTOC(own) /\ IsTOC(shown)
  /\ driver = "handlers" => Same(own, shown) /\ Alike(own.prev, shown.prev)
  /\ unseen # <<>> => driver = "followed"
  /\ Tracks(own) /\ Tracks(shown)
  /\ warmup = "active" => own.constraint = 0

-----------------------------------------------------------------------------
(* Lemmas about one update *)

\* A sequence over a set is one over a larger set.
LEMMA SeqWiden ==
  ASSUME NEW S, NEW T, S \subseteq T, NEW s \in Seq(S)
  PROVE  s \in Seq(T)
  OBVIOUS

\* The ring stays a sequence and never becomes shorter.
LEMMA PushFacts ==
  ASSUME NEW S, NEW ring \in Seq(S), NEW entry
  PROVE  /\ \E T : Push(ring, entry) \in Seq(T)
         /\ Len(Push(ring, entry)) \in Nat /\ Len(Push(ring, entry)) >= Len(ring)
<1> DEFINE T == S \cup {entry}
<1>1. ring \in Seq(T) /\ entry \in T /\ Window \in Nat \ {0}
  BY SeqWiden, ConstraintAssumption
<1> HIDE DEF T
<1>2. CASE Len(ring) < Window
  <2>1. /\ Append(ring, entry) \in Seq(T)
        /\ Len(Append(ring, entry)) = Len(ring) + 1 /\ Len(ring) \in Nat
    BY <1>1
  <2> QED BY <1>2, <2>1 DEF Push
<1>3. CASE ~(Len(ring) < Window)
  <2>1. ring # <<>> /\ Len(ring) \in Nat
    BY <1>1, <1>3
  <2>2. Tail(ring) \in Seq(T) /\ Len(Tail(ring)) = Len(ring) - 1
    BY <1>1, <2>1
  <2>3. /\ Append(Tail(ring), entry) \in Seq(T)
        /\ Len(Append(Tail(ring), entry)) = Len(ring)
    BY <1>1, <2>1, <2>2
  <2> QED BY <1>3, <2>1, <2>3 DEF Push
<1> QED BY <1>2, <1>3

\* Like snapshots give the same data of the day.
LEMMA CollectAlike ==
  ASSUME NEW x, NEW y, NEW x1, NEW y1, NEW n, Alike(x, x1), Alike(y, y1)
  PROVE  CollectTickData(x, y, n) = CollectTickData(x1, y1, n)
<1>1. ASSUME NEW p \in Phases
      PROVE  /\ Arrived(x, y, p) = Arrived(x1, y1, p)
             /\ Departed(x, y, p) = Departed(x1, y1, p)
  BY DEF Alike, Arrived, Departed
<1>2. ASSUME NEW p \in Phases
      PROVE  {<<t, n - x[t].entered>> : t \in
                {u \in Departed(x, y, p) : x[u].entered > 0 /\ x[u].entered < n}}
             = {<<t, n - x1[t].entered>> : t \in
                {u \in Departed(x, y, p) : x1[u].entered > 0 /\ x1[u].entered < n}}
  <2>1. \A t \in Departed(x, y, p) : x[t].entered = x1[t].entered
    BY DEF Alike, Departed
  <2> QED BY <2>1
<1> QED BY <1>1, <1>2 DEF CollectTickData

\* Sustained evidence is worth medium confidence at least.
LEMMA SustainedIsMedium ==
  ASSUME NEW n \in Nat
  PROVE  Sustained(n) >= 500
<1>1. Hysteresis \in Nat \ {0}
  BY ConstraintAssumption
<1>2. PICK h \in Nat \ {0} : h = 2 * Hysteresis
  BY <1>1
<1>3. PICK m \in Nat : m = 500 * Smaller(n, h)
  BY <1>2 DEF Smaller
<1>4. m \div h \in Nat
  BY <1>2, <1>3
<1>5. Sustained(n) = 500 + (m \div h)
  BY <1>2, <1>3 DEF Sustained
<1> QED BY <1>4, <1>5

\* What a new winner makes of the count, the candidate and the constraint.
LEMMA FollowFacts ==
  ASSUME NEW toc, IsTOC(toc), NEW p
  PROVE  /\ IsTOC(Follow(toc, p))
         /\ Follow(toc, p).ring = toc.ring /\ Follow(toc, p).prev = toc.prev
         /\ Follow(toc, p).candidate = p
         /\ Follow(toc, p).consecutive = (IF p = toc.candidate THEN toc.consecutive + 1 ELSE 1)
         /\ Follow(toc, p).constraint \in {0, toc.constraint}
<1>1. /\ IsTOC(Faded(toc)) /\ Faded(toc).ring = toc.ring /\ Faded(toc).prev = toc.prev
      /\ Faded(toc).consecutive = toc.consecutive
      /\ Faded(toc).constraint \in {0, toc.constraint}
  BY DEF IsTOC, Faded
<1> QED BY <1>1 DEF IsTOC, Follow

\* What the identification makes of an analyzer whose ring has just grown.
LEMMA IdentifyFacts ==
  ASSUME NEW toc, IsTOC(toc), NEW old, Len(old) \in Nat, Len(toc.ring) \in Nat,
         Len(toc.ring) >= Len(old), Tracks([toc EXCEPT !.ring = old])
  PROVE  LET new == IdentifyConstraint(toc) IN
         /\ IsTOC(new) /\ new.ring = toc.ring /\ new.prev = toc.prev
         /\ Tracks(new)
         /\ toc.constraint = 0 /\ new.constraint # 0 =>
              /\ new.constraint = new.candidate
              /\ new.consecutive = Hysteresis /\ new.confidence >= 500
<1> DEFINE f == Follow(toc, Winner(toc.ring))
<1>1. /\ Window \in Nat \ {0} /\ Hysteresis \in Nat \ {0} /\ toc.consecutive \in Nat
      /\ IF Len(old) < Window THEN toc.candidate = 0 /\ toc.constraint = 0
         ELSE toc.candidate = Winner(old) /\ (toc.constraint # 0 => toc.candidate # 0)
      /\ toc.constraint = 0 => toc.consecutive < Hysteresis
  BY ConstraintAssumption DEF IsTOC, Tracks, FollowsWindow
<1>2. CASE Len(toc.ring) < Window
  BY <1>1, <1>2 DEF IdentifyConstraint, Tracks, FollowsWindow
<1>3. CASE Len(toc.ring) >= Window /\ Winner(toc.ring) = 0
  BY <1>1, <1>3 DEF IdentifyConstraint, Reset, IsTOC, Tracks, FollowsWindow
<1>4. CASE Len(toc.ring) >= Window /\ Winner(toc.ring) # 0
  <2>1. IdentifyConstraint(toc) = Confirm(f)
    BY <1>1, <1>4 DEF IdentifyConstraint
  <2>2. /\ IsTOC(f) /\ f.ring = toc.ring /\ f.prev = toc.prev
        /\ f.candidate = Winner(toc.ring)
        /\ f.consecutive = (IF Winner(toc.ring) = toc.candidate
                            THEN toc.consecutive + 1 ELSE 1)
        /\ f.constraint \in {0, toc.constraint}
    BY FollowFacts
  <2>3. f.consecutive \in Nat /\ Sustained(f.consecutive) >= 500
    BY <2>2, SustainedIsMedium DEF IsTOC
  <2> HIDE DEF f
  <2>4. CASE f.consecutive >= Hysteresis
    <3>1. Confirm(f) = [f EXCEPT !.constraint = f.candidate,
                                 !.confidence = Sustained(f.consecutive)]
      BY <2>4 DEF Confirm
    <3>2. /\ IsTOC(Confirm(f)) /\ Confirm(f).ring = f.ring /\ Confirm(f).prev = f.prev
          /\ Confirm(f).candidate = f.candidate /\ Confirm(f).constraint = f.candidate
          /\ Confirm(f).consecutive = f.consecutive
          /\ Confirm(f).confidence = Sustained(f.consecutive)
      BY <2>2, <3>1 DEF IsTOC
    <3>3. toc.constraint = 0 => f.consecutive = Hysteresis
      BY <1>1, <2>2, <2>4
    <3>4. Tracks(Confirm(f))
      BY <1>1, <1>4, <2>2, <3>2 DEF Tracks, FollowsWindow
    <3> QED BY <2>1, <2>2, <2>3, <3>2, <3>3, <3>4
  <2>5. CASE ~(f.consecutive >= Hysteresis)
    <3>1. Confirm(f) = f
      BY <2>5 DEF Confirm
    <3>2. f.consecutive < Hysteresis
      BY <1>1, <2>3, <2>5
    <3>3. Tracks(f)
      BY <1>1, <1>4, <2>2, <3>2 DEF Tracks, FollowsWindow
    <3> QED BY <2>1, <2>2, <3>1, <3>3
  <2> QED BY <2>4, <2>5
<1> QED BY <1>1, <1>2, <1>3, <1>4

-----------------------------------------------------------------------------
(* One update *)

\* Analyzers that agree make the same of the same day.
LEMMA IdentifySame ==
  ASSUME NEW a, NEW b, IsTOC(a), IsTOC(b), Same(a, b)
  PROVE  Same(IdentifyConstraint(a), IdentifyConstraint(b))
<1>1. Same(Reset(a), Reset(b))
  BY DEF IsTOC, Same, Reset
<1>2. ASSUME NEW p PROVE Same(Confirm(Follow(a, p)), Confirm(Follow(b, p)))
  <2>1. /\ IsTOC(Faded(a)) /\ IsTOC(Faded(b)) /\ Same(Faded(a), Faded(b))
    BY DEF IsTOC, Same, Faded
  <2>2. /\ IsTOC(Follow(a, p)) /\ IsTOC(Follow(b, p)) /\ Same(Follow(a, p), Follow(b, p))
    BY <2>1 DEF IsTOC, Same, Follow
  <2> QED BY <2>2 DEF IsTOC, Same, Confirm
<1> QED BY <1>1, <1>2 DEF Same, IdentifyConstraint

\* An update takes a snapshot, and identifies only if there was one with
\* tickets before.
LEMMA UpdateFacts ==
  ASSUME NEW toc, IsTOC(toc), NEW sim
  PROVE  LET new == Update(toc, sim)
             pushed == [DetectTransitions(toc, sim) EXCEPT !.prev = sim.tickets,
                          !.ring = Push(toc.ring,
                                        CollectTickData(toc.prev, sim.tickets, sim.day))]
         IN /\ IsTOC(new) /\ new.prev = sim.tickets
            /\ DOMAIN toc.prev = {} => Same(new, toc)
            /\ DOMAIN toc.prev # {} =>
                 /\ IsTOC(pushed)
                 /\ pushed.ring = Push(toc.ring,
                                       CollectTickData(toc.prev, sim.tickets, sim.day))
                 /\ pushed.candidate = toc.candidate /\ pushed.constraint = toc.constraint
                 /\ pushed.consecutive = toc.consecutive
                 /\ pushed.confidence = toc.confidence
                 /\ Same(new, IdentifyConstraint(pushed))
<1> DEFINE today == CollectTickData(toc.prev, sim.tickets, sim.day)
           seen == [DetectTransitions(toc, sim) EXCEPT !.prev = sim.tickets]
           pushed == [seen EXCEPT !.ring = Push(toc.ring, today)]
<1>1. /\ IsTOC(seen) /\ seen.prev = sim.tickets /\ Same(seen, toc)
  BY DEF IsTOC, Same, DetectTransitions
<1>2. /\ IsTOC(pushed) /\ pushed.prev = sim.tickets /\ pushed.ring = Push(toc.ring, today)
      /\ pushed.candidate = toc.candidate /\ pushed.constraint = toc.constraint
      /\ pushed.consecutive = toc.consecutive /\ pushed.confidence = toc.confidence
  <2>1. \E S : Push(toc.ring, today) \in Seq(S)
    <3>1. PICK S : toc.ring \in Seq(S)
      BY DEF IsTOC
    <3> QED BY <3>1, PushFacts
  <2> HIDE DEF seen, today
  <2> QED BY <1>1, <2>1 DEF IsTOC, Same
<1>3. Update(toc, sim) = IF DOMAIN toc.prev = {} THEN seen
                         ELSE UpdateConstraintBuffer(IdentifyConstraint(pushed), sim)
  <2>1. seen.ring = toc.ring
    BY <1>1 DEF Same
  <2>2. Update(toc, sim) =
          IF DOMAIN toc.prev = {} THEN seen
          ELSE UpdateConstraintBuffer(
                 IdentifyConstraint([seen EXCEPT !.ring = Push(seen.ring, today)]), sim)
    BY Zenon DEF Update, NewPhaseSnapshot
  <2> HIDE DEF seen, today
  <2> QED BY <2>1, <2>2
<1>4. ASSUME NEW x, IsTOC(x)
      PROVE  LET y == UpdateConstraintBuffer(x, sim) IN
             IsTOC(y) /\ Same(y, x) /\ y.prev = x.prev
  BY <1>4 DEF UpdateConstraintBuffer, IsTOC, Same
<1> HIDE DEF seen
<1>5. IsTOC(IdentifyConstraint(pushed)) /\ IdentifyConstraint(pushed).prev = pushed.prev
  <2> HIDE DEF pushed
  <2>1. IsTOC(Reset(pushed)) /\ Reset(pushed).prev = pushed.prev
    BY <1>2 DEF IsTOC, Reset
  <2>2. ASSUME NEW p
        PROVE  LET y == Confirm(Follow(pushed, p)) IN IsTOC(y) /\ y.prev = pushed.prev
    <3>1. IsTOC(Follow(pushed, p)) /\ Follow(pushed, p).prev = pushed.prev
      BY <1>2, FollowFacts
    <3> QED BY <3>1 DEF Confirm, IsTOC
  <2> QED BY <1>2, <2>1, <2>2 DEF IdentifyConstraint
<1> HIDE DEF pushed
<1>6. CASE DOMAIN toc.prev = {}
  BY <1>1, <1>3, <1>6
<1>7. CASE DOMAIN toc.prev # {}
  <2>1. /\ IsTOC(Update(toc, sim)) /\ Update(toc, sim).prev = sim.tickets
        /\ Same(Update(toc, sim), IdentifyConstraint(pushed))
    BY <1>2, <1>3, <1>4, <1>5, <1>7
  <2> QED BY <1>2, <1>7, <2>1 DEF pushed, seen
<1> QED BY <1>6, <1>7

\* An update keeps the analyzer on the track of its window, and a constraint
\* that was not known is the winner of exactly so many days as the hysteresis
\* asks for, with the confidence that exits a warm-up.
LEMMA UpdateTracks ==
  ASSUME NEW toc, IsTOC(toc), Tracks(toc), NEW sim
  PROVE  LET new == Update(toc, sim) IN
         /\ IsTOC(new) /\ Tracks(new)
         /\ toc.constraint = 0 /\ new.constraint # 0 =>
              /\ new.constraint = new.candidate
              /\ new.consecutive = Hysteresis /\ new.confidence >= 500
<1> DEFINE new == Update(toc, sim)
           pushed == [DetectTransitions(toc, sim) EXCEPT !.prev = sim.tickets,
                        !.ring = Push(toc.ring,
                                      CollectTickData(toc.prev, sim.tickets, sim.day))]
<1>1. IsTOC(new)
  BY UpdateFacts
<1>2. CASE DOMAIN toc.prev = {}
  <2>1. Same(new, toc)
    BY <1>2, UpdateFacts
  <2> QED BY <1>1, <2>1 DEF Same, Tracks, FollowsWindow
<1>3. CASE DOMAIN toc.prev # {}
  <2>1. /\ IsTOC(pushed)
        /\ pushed.ring = Push(toc.ring, CollectTickData(toc.prev, sim.tickets, sim.day))
        /\ pushed.candidate = toc.candidate /\ pushed.constraint = toc.constraint
        /\ pushed.consecutive = toc.consecutive
        /\ Same(new, IdentifyConstraint(pushed))
    BY <1>3, UpdateFacts
  <2>2. /\ Len(toc.ring) \in Nat /\ Len(pushed.ring) \in Nat
        /\ Len(pushed.ring) >= Len(toc.ring)
    <3>1. PICK S : toc.ring \in Seq(S)
      BY DEF IsTOC
    <3> QED BY <2>1, <3>1, PushFacts
  <2> HIDE DEF pushed
  <2>3. Tracks([pushed EXCEPT !.ring = toc.ring])
    BY <2>1 DEF IsTOC, Tracks, FollowsWindow
  <2>4. LET i == IdentifyConstraint(pushed) IN
        /\ Tracks(i)
        /\ pushed.constraint = 0 /\ i.constraint # 0 =>
             /\ i.constraint = i.candidate
             /\ i.consecutive = Hysteresis /\ i.confidence >= 500
    BY <2>1, <2>2, <2>3, IdentifyFacts
  <2> QED BY <1>1, <2>1, <2>4 DEF Same, Tracks, FollowsWindow
<1> QED BY <1>2, <1>3

\* Analyzers that have seen the same go on agreeing, though they look at
\* different moments of the day.
LEMMA UpdateAgree ==
  ASSUME NEW a, NEW b, IsTOC(a), IsTOC(b), Same(a, b), Alike(a.prev, b.prev),
         NEW x, NEW y, x.day = y.day, Alike(x.tickets, y.tickets)
  PROVE  /\ Same(Update(a, x), Update(b, y))
         /\ Alike(Update(a, x).prev, Update(b, y).prev)
<1>1. Update(a, x).prev = x.tickets /\ Update(b, y).prev = y.tickets
  BY UpdateFacts
<1>2. CASE DOMAIN a.prev = {}
  <2>1. DOMAIN b.prev = {}
    BY <1>2 DEF Alike
  <2>2. Same(Update(a, x), a) /\ Same(Update(b, y), b)
    BY <1>2, <2>1, UpdateFacts
  <2> QED BY <1>1, <2>2 DEF Same
<1>3. CASE DOMAIN a.prev # {}
  <2>1. DOMAIN b.prev # {}
    BY <1>3 DEF Alike
  <2>2. PICK p : /\ IsTOC(p)
                 /\ p.ring = Push(a.ring, CollectTickData(a.prev, x.tickets, x.day))
                 /\ p.candidate = a.candidate /\ p.constraint = a.constraint
                 /\ p.consecutive = a.consecutive /\ p.confidence = a.confidence
                 /\ Same(Update(a, x), IdentifyConstraint(p))
    BY <1>3, UpdateFacts
  <2>3. PICK q : /\ IsTOC(q)
                 /\ q.ring = Push(b.ring, CollectTickData(b.prev, y.tickets, y.day))
                 /\ q.candidate = b.candidate /\ q.constraint = b.constraint
                 /\ q.consecutive = b.consecutive /\ q.confidence = b.confidence
                 /\ Same(Update(b, y), IdentifyConstraint(q))
    BY <2>1, UpdateFacts
  <2>4. CollectTickData(a.prev, x.tickets, x.day) = CollectTickData(b.prev, y.tickets, x.day)
    BY CollectAlike
  <2>5. Same(p, q)
    BY <2>2, <2>3, <2>4 DEF Same
  <2>6. Same(IdentifyConstraint(p), IdentifyConstraint(q))
    BY <2>2, <2>3, <2>5, IdentifySame
  <2> QED BY <1>1, <2>2, <2>3, <2>6 DEF Same
<1> QED BY <1>2, <1>3

-----------------------------------------------------------------------------
(* The balance of the window *)

\* The occupancy of the phases in the engine's last snapshot.
Occupied == [p \in Phases |-> Occupancy(own.prev, p)]

\* From each entry of the window to the next one, and from the last to now:
\* what was in a phase and what arrived is left or has departed.
Links(ring, st, now) ==
  \A i \in 1..Len(ring), p \in Phases :
    st[i][p] + ring[i][p].arrivals
      <= ring[i][p].departures + (IF i = Len(ring) THEN now[p] ELSE st[i + 1][p])

\* Every entry of the window counts, and has its start.
Counted(ring, st) ==
  /\ Len(ring) \in Nat /\ Len(st) = Len(ring)
  /\ \E S : ring \in Seq(S)
  /\ st \in Seq([Phases -> Nat])
  /\ \A i \in 1..Len(ring), p \in Phases :
       ring[i][p].arrivals \in Nat /\ ring[i][p].departures \in Nat

\* The window is a chain of days, each of which begins with what the one
\* before has left.
WInv ==
  /\ CInv
  /\ DOMAIN own.prev \subseteq Tickets
  /\ Counted(own.ring, starts) /\ Links(own.ring, starts, Occupied)

\* Every set of naturals with a member has a least one.
LEMMA LeastOf ==
  ASSUME NEW S \in SUBSET Nat, S # {}
  PROVE  \E m \in S : \A i \in S : m <= i
<1> DEFINE R == {ss \in Nat \X Nat : ss[1] < ss[2]}
<1>1. IsWellFoundedOn(R, Nat)
  BY NatLessThanWellFounded DEF OpToRel
<1>2. PICK m \in S : \A i \in S : ~(<<i, m>> \in R)
  <2> HIDE DEF R
  <2> QED BY <1>1, WFMin
<1>3. ASSUME NEW i \in S PROVE m <= i
  <2>1. m \in Nat /\ i \in Nat /\ <<i, m>> \in Nat \X Nat
    OBVIOUS
  <2>2. ~(i < m)
    BY <1>2, <2>1
  <2> QED BY <2>1, <2>2
<1> QED BY <1>3

\* One step of the function that defines the sum of s.
Rec(s, f, T) == IF T = {} THEN 0 ELSE f[T \ {Max(T)}] + s[Max(T)]

\* f is the function by which the sum of n numbers is defined.
IsFold(f, s, n) == f = [T \in SUBSET (1..n) |-> Rec(s, f, T)]

\* Without its greatest member, a set of indices ends earlier.
LEMMA GreatestOf ==
  ASSUME NEW n \in Nat, NEW T, T \subseteq 1..n, T # {}
  PROVE  /\ n > 0 /\ Max(T) \in 1..n
         /\ T \ {Max(T)} \subseteq 1..(n - 1)
         /\ n \in T => Max(T) = n
<1> DEFINE U == {i \in Nat : \A y \in T : y <= i}
<1>1. n \in U
  OBVIOUS
<1>2. PICK m \in U : \A i \in U : m <= i
  <2>1. U \in SUBSET Nat /\ U # {}
    BY <1>1
  <2> HIDE DEF U
  <2> QED BY <2>1, LeastOf
<1>3. m \in Nat /\ (\A y \in T : y <= m) /\ \A y \in T : y \in 1..n
  BY <1>2
<1>4. m \in T
  <2>1. SUFFICES ASSUME m \notin T PROVE FALSE
    OBVIOUS
  <2>2. PICK z : z \in T
    OBVIOUS
  <2>3. m - 1 \in Nat
    BY <1>3, <2>2
  <2>4. \A y \in T : y <= m - 1
    BY <1>3, <2>1
  <2>5. m - 1 \in U
    BY <2>3, <2>4
  <2> QED BY <1>2, <1>3, <2>5
<1>5. \A x \in T : (\A y \in T : x >= y) => x = m
  BY <1>3, <1>4
<1>6. Max(T) = m
  BY <1>3, <1>4, <1>5 DEF Max
<1>7. \A y \in T \ {m} : y \in 1..(n - 1)
  BY <1>3, <1>4
<1> QED BY <1>3, <1>4, <1>6, <1>7

\* That function exists: it is found for ever longer sets of indices.
LEMMA FoldExists ==
  ASSUME NEW s, NEW n \in Nat
  PROVE  \E f : IsFold(f, s, n)
<1> DEFINE Good(k, f) == /\ f = [T \in SUBSET (1..n) |-> f[T]]
                         /\ \A T \in SUBSET (1..n) : T \subseteq 1..k => f[T] = Rec(s, f, T)
<1> DEFINE Bad == {k \in Nat : ~ \E f : Good(k, f)}
<1>1. 0 \notin Bad
  <2> DEFINE f == [T \in SUBSET (1..n) |-> 0]
  <2>1. ASSUME NEW T \in SUBSET (1..n), T \subseteq 1..0 PROVE f[T] = Rec(s, f, T)
    <3>1. T = {}
      BY <2>1
    <3> QED BY <3>1 DEF Rec
  <2> QED BY <2>1
<1>2. ASSUME NEW k \in Nat, NEW f, Good(k, f) PROVE \E g : Good(k + 1, g)
  <2> DEFINE g == [T \in SUBSET (1..n) |-> Rec(s, f, T)]
  <2>1. ASSUME NEW T \in SUBSET (1..n), T \subseteq 1..(k + 1)
        PROVE  g[T] = Rec(s, g, T)
    <3>1. CASE T = {}
      BY <3>1 DEF Rec
    <3>2. CASE T # {}
      <4>1. T \ {Max(T)} \subseteq 1..((k + 1) - 1)
        BY <2>1, <3>2, GreatestOf, k + 1 \in Nat
      <4>2. T \ {Max(T)} \in SUBSET (1..n) /\ T \ {Max(T)} \subseteq 1..k
        BY <4>1
      <4>3. g[T \ {Max(T)}] = f[T \ {Max(T)}]
        BY <1>2, <4>2
      <4>4. g[T] = Rec(s, f, T)
        OBVIOUS
      <4> HIDE DEF g
      <4> QED BY <3>2, <4>3, <4>4 DEF Rec
    <3> QED BY <3>1, <3>2
  <2>2. g = [T \in SUBSET (1..n) |-> g[T]]
    OBVIOUS
  <2> HIDE DEF g
  <2> QED BY <2>1, <2>2
<1> HIDE DEF Good
<1>3. Bad = {}
  <2>1. SUFFICES ASSUME Bad # {} PROVE FALSE
    OBVIOUS
  <2>2. PICK k \in Bad : \A i \in Bad : k <= i
    BY <2>1, LeastOf
  <2>3. k # 0 /\ k - 1 \in Nat /\ k - 1 \notin Bad /\ (k - 1) + 1 = k
    BY <1>1, <2>2
  <2>4. PICK f : Good(k - 1, f)
    BY <2>3
  <2>5. \E g : Good((k - 1) + 1, g)
    BY <1>2, <2>3, <2>4
  <2> QED BY <2>2, <2>3, <2>5
<1>4. PICK f : Good(n, f)
  BY <1>3
<1>5. IsFold(f, s, n)
  BY <1>4 DEF Good, IsFold
<1> QED BY <1>5

\* f holds the sums of ever more of the numbers of s.
IsTally(f, s, n) ==
  /\ f = [k \in 0..n |-> f[k]] /\ f[0] = 0
  /\ \A k \in 1..n : f[k] = f[k - 1] + s[k]

\* A sum is the last of the sums of ever more.
LEMMA SumIs ==
  ASSUME NEW s, NEW n \in Nat, DOMAIN s = 1..n
  PROVE  \E f : IsTally(f, s, n) /\ Sum(s) = f[n]
<1> DEFINE g == CHOOSE f : IsFold(f, s, n)
           f == [k \in 0..n |-> g[1..k]]
<1>1. IsFold(g, s, n)
  BY FoldExists DEF IsFold
<1>2. Sum(s) = g[1..n]
  BY DEF Sum, FoldLeft, MapThenFoldSet, Rec, IsFold
<1> HIDE DEF g
<1>3. f[0] = 0
  <2>1. 1..0 = {} /\ {} \in SUBSET (1..n)
    OBVIOUS
  <2>2. g[{}] = 0
    BY <1>1, <2>1 DEF IsFold, Rec
  <2> QED BY <2>1, <2>2
<1>4. ASSUME NEW k \in 1..n
      PROVE  f[k] = f[k - 1] + s[k]
  <2>1. /\ k \in Nat /\ k \in 1..k /\ 1..k # {} /\ 1..k \subseteq 1..k
        /\ k \in 0..n /\ k - 1 \in 0..n
    OBVIOUS
  <2>2. Max(1..k) = k
    BY <2>1, GreatestOf
  <2>3. (1..k) \ {k} = 1..(k - 1)
    BY <2>1
  <2>4. 1..k \in SUBSET (1..n)
    <3>1. \A i \in 1..k : i \in 1..n
      OBVIOUS
    <3> QED BY <3>1
  <2>5. g[1..k] = Rec(s, g, 1..k)
    BY <1>1, <2>4 DEF IsFold
  <2>6. g[1..k] = g[1..(k - 1)] + s[k]
    BY <2>1, <2>2, <2>3, <2>5 DEF Rec
  <2> QED BY <2>1, <2>6
<1>5. IsTally(f, s, n)
  BY <1>3, <1>4 DEF IsTally
<1>6. Sum(s) = f[n]
  BY <1>2
<1> QED BY <1>5, <1>6

\* Two links make one.
LEMMA AddUp ==
  ASSUME NEW first \in Nat, NEW f \in Nat, NEW g \in Nat, NEW x \in Nat,
         NEW a \in Nat, NEW d \in Nat, NEW z \in Nat,
         first + f <= g + x, x + a <= d + z
  PROVE  first + (f + a) <= (g + d) + z
  OBVIOUS

\* Links that hold from day to day hold from the first to the last.
LEMMA LinksAddUp ==
  ASSUME NEW ring, NEW st, Counted(ring, st), NEW now \in [Phases -> Nat],
         Links(ring, st, now), NEW p \in Phases, Len(ring) > 0
  PROVE  st[1][p] + Arrivals(ring, p) <= now[p] + Departures(ring, p)
<1> DEFINE n == Len(ring)
           a == [i \in DOMAIN ring |-> ring[i][p].arrivals]
           d == [i \in DOMAIN ring |-> ring[i][p].departures]
<1>1. n \in Nat /\ DOMAIN ring = 1..n /\ DOMAIN a = 1..n /\ DOMAIN d = 1..n
  BY DEF Counted
<1>2. /\ \A i \in 1..n : a[i] \in Nat /\ d[i] \in Nat /\ st[i][p] \in Nat
      /\ now[p] \in Nat
  BY <1>1 DEF Counted
<1>3. \A i \in 1..n :
        st[i][p] + a[i] <= d[i] + (IF i = n THEN now[p] ELSE st[i + 1][p])
  BY <1>1 DEF Links
<1> HIDE DEF a, d
<1>4. PICK f : IsTally(f, a, n) /\ Sum(a) = f[n]
  BY <1>1, SumIs
<1>5. PICK g : IsTally(g, d, n) /\ Sum(d) = g[n]
  BY <1>1, SumIs
<1> HIDE DEF n
<1> DEFINE Fits(k) == /\ f[k] \in Nat /\ g[k] \in Nat
                      /\ st[1][p] + f[k] <= g[k] + (IF k = n THEN now[p] ELSE st[k + 1][p])
           Bad == {k \in 0..n : ~Fits(k)}
<1>6. 0 \notin Bad
  <2>1. n > 0 /\ 1 \in 1..n
    BY <1>1 DEF n
  <2> QED BY <1>2, <1>4, <1>5, <2>1 DEF IsTally
<1>7. Bad = {}
  <2>1. SUFFICES ASSUME Bad # {} PROVE FALSE
    OBVIOUS
  <2>2. PICK k \in Bad : \A i \in Bad : k <= i
    <3>1. Bad \in SUBSET Nat
      BY <1>1
    <3> HIDE DEF Bad
    <3> QED BY <2>1, <3>1, LeastOf
  <2>3. k \in 1..n /\ k - 1 \in 0..n /\ k - 1 \notin Bad /\ k - 1 # n /\ (k - 1) + 1 = k
    BY <1>1, <1>6, <2>2
  <2>4. /\ f[k - 1] \in Nat /\ g[k - 1] \in Nat
        /\ st[1][p] + f[k - 1] <= g[k - 1] + st[k][p]
    BY <2>3
  <2>5. f[k] = f[k - 1] + a[k] /\ g[k] = g[k - 1] + d[k]
    BY <1>4, <1>5, <2>3 DEF IsTally
  <2>6. st[k][p] + a[k] <= d[k] + (IF k = n THEN now[p] ELSE st[k + 1][p])
    BY <1>3, <2>3
  <2>7. k # n => st[k + 1][p] \in Nat
    BY <1>1, <1>2, <2>3
  <2>8. 1 \in 1..n
    BY <1>1, <2>3
  <2>9. PICK z \in Nat : z = IF k = n THEN now[p] ELSE st[k + 1][p]
    BY <1>2, <2>7
  <2>10. {a[k], d[k], st[k][p], st[1][p]} \subseteq Nat
    BY <1>2, <2>3, <2>8
  <2>11. st[1][p] + (f[k - 1] + a[k]) <= (g[k - 1] + d[k]) + z
    BY <2>4, <2>6, <2>9, <2>10, AddUp
  <2>12. f[k] \in Nat /\ g[k] \in Nat
    BY <2>4, <2>5, <2>10
  <2>13. Fits(k)
    BY <2>5, <2>9, <2>11, <2>12
  <2> QED BY <2>2, <2>13
<1>8. Fits(n)
  BY <1>1, <1>7
<1> QED BY <1>4, <1>5, <1>8 DEF Arrivals, Departures, a, d

\* A day moves what it moves: what was there and what arrived is what is there
\* and what has departed.
LEMMA DayBalances ==
  ASSUME NEW x, NEW y, DOMAIN x \subseteq Tickets, DOMAIN y \subseteq Tickets,
         NEW p \in Phases
  PROVE  /\ {Occupancy(x, p), Occupancy(y, p)} \subseteq Nat
         /\ Cardinality(Arrived(x, y, p)) \in Nat /\ Cardinality(Departed(x, y, p)) \in Nat
         /\ Occupancy(x, p) + Cardinality(Arrived(x, y, p))
              = Cardinality(Departed(x, y, p)) + Occupancy(y, p)
<1> DEFINE A == {t \in DOMAIN x : x[t].phase = p}
           B == {t \in DOMAIN y : y[t].phase = p}
<1>1. IsFiniteSet(Tickets) /\ A \subseteq Tickets /\ B \subseteq Tickets
  BY ConstraintAssumption
<1>2. Arrived(x, y, p) = B \ A /\ Departed(x, y, p) = A \ B
  BY DEF Arrived, Departed
<1>3. Occupancy(x, p) = Cardinality(A) /\ Occupancy(y, p) = Cardinality(B)
  BY DEF Occupancy
<1> HIDE DEF A, B
<1>4. /\ IsFiniteSet(A) /\ IsFiniteSet(B) /\ IsFiniteSet(A \ B) /\ IsFiniteSet(B \ A)
  BY <1>1, FS_Subset
<1>5. A \cup B = A \cup (B \ A) /\ A \cup B = B \cup (A \ B)
      /\ A \cap (B \ A) = {} /\ B \cap (A \ B) = {}
  OBVIOUS
<1>6. /\ Cardinality(A \cup B) = Cardinality(A) + Cardinality(B \ A)
      /\ Cardinality(A \cup B) = Cardinality(B) + Cardinality(A \ B)
  <2>1. ASSUME NEW X, NEW Y, IsFiniteSet(X), IsFiniteSet(Y), X \cap Y = {}
        PROVE  Cardinality(X \cup Y) = Cardinality(X) + Cardinality(Y)
    <3>1. Cardinality(X \cap Y) = 0
      BY <2>1, FS_EmptySet
    <3>2. Cardinality(X) \in Nat /\ Cardinality(Y) \in Nat
      BY <2>1, FS_CardinalityType
    <3>3. Cardinality(X \cup Y) = Cardinality(X) + Cardinality(Y) - Cardinality(X \cap Y)
      BY <2>1, FS_Union
    <3> QED BY <3>1, <3>2, <3>3
  <2>2. Cardinality(A \cup (B \ A)) = Cardinality(A) + Cardinality(B \ A)
    BY <1>4, <1>5, <2>1
  <2>3. Cardinality(B \cup (A \ B)) = Cardinality(B) + Cardinality(A \ B)
    BY <1>4, <1>5, <2>1
  <2> QED BY <1>5, <2>2, <2>3
<1>7. {Cardinality(A), Cardinality(B), Cardinality(A \ B), Cardinality(B \ A)} \subseteq Nat
  BY <1>4, FS_CardinalityType
<1> QED BY <1>2, <1>3, <1>6, <1>7

\* Where the entries are after one more.
LEMMA PushIs ==
  ASSUME NEW S, NEW ring \in Seq(S), NEW entry
  PROVE  LET n == Len(ring)
             new == Push(ring, entry)
         IN IF n < Window
              THEN /\ Len(new) = n + 1 /\ new[n + 1] = entry
                   /\ \A i \in 1..n : new[i] = ring[i]
              ELSE /\ n > 0 /\ Len(new) = n /\ new[n] = entry
                   /\ \A i \in 1..(n - 1) : new[i] = ring[i + 1]
<1> DEFINE T == S \cup {entry}
           n == Len(ring)
           new == Push(ring, entry)
<1>1. ring \in Seq(T) /\ entry \in T /\ Window \in Nat \ {0} /\ n \in Nat
  BY SeqWiden, ConstraintAssumption
<1> HIDE DEF T
<1>2. CASE n < Window
  BY <1>1, <1>2 DEF Push
<1>3. CASE ~(n < Window)
  <2>1. n > 0 /\ ring # <<>>
    BY <1>1, <1>3
  <2>2. PICK rest \in Seq(T) : /\ rest = Tail(ring) /\ Len(rest) = n - 1
                               /\ \A i \in 1..(n - 1) : rest[i] = ring[i + 1]
    <3>1. /\ Tail(ring) \in Seq(T) /\ Len(Tail(ring)) = n - 1
          /\ \A i \in 1..(n - 1) : Tail(ring)[i] = ring[i + 1]
      BY <1>1, <2>1
    <3> QED BY <3>1
  <2>3. new = Append(rest, entry)
    BY <1>3, <2>2 DEF Push
  <2>4. /\ Len(new) = n /\ new[n] = entry
        /\ \A i \in 1..(n - 1) : new[i] = rest[i]
    BY <1>1, <2>1, <2>2, <2>3
  <2> QED BY <1>3, <2>1, <2>2, <2>4
<1> QED BY <1>2, <1>3

\* One more day continues the chain.
LEMMA PushLinks ==
  ASSUME NEW ring, NEW st, Counted(ring, st), NEW now \in [Phases -> Nat],
         Links(ring, st, now), NEW entry, NEW then \in [Phases -> Nat],
         \A p \in Phases : /\ entry[p].arrivals \in Nat /\ entry[p].departures \in Nat
                           /\ now[p] + entry[p].arrivals <= entry[p].departures + then[p]
  PROVE  /\ Counted(Push(ring, entry), Push(st, now))
         /\ Links(Push(ring, entry), Push(st, now), then)
<1> DEFINE n == Len(ring)
           r == Push(ring, entry)
           u == Push(st, now)
<1>1. n \in Nat /\ Len(st) = n /\ Window \in Nat \ {0}
  BY ConstraintAssumption DEF Counted
<1>2. PICK S : ring \in Seq(S)
  BY DEF Counted
<1>3. st \in Seq([Phases -> Nat])
  BY DEF Counted
<1>4. (\E T : r \in Seq(T)) /\ Len(r) \in Nat
  BY <1>2, PushFacts
<1>5. IF n < Window
        THEN /\ Len(r) = n + 1 /\ r[n + 1] = entry /\ \A i \in 1..n : r[i] = ring[i]
        ELSE /\ n > 0 /\ Len(r) = n /\ r[n] = entry
             /\ \A i \in 1..(n - 1) : r[i] = ring[i + 1]
  BY <1>2, PushIs
<1>6. IF n < Window
        THEN /\ Len(u) = n + 1 /\ u[n + 1] = now /\ \A i \in 1..n : u[i] = st[i]
        ELSE /\ n > 0 /\ Len(u) = n /\ u[n] = now
             /\ \A i \in 1..(n - 1) : u[i] = st[i + 1]
  BY <1>1, <1>3, PushIs
<1>7. u \in Seq([Phases -> Nat])
  <2>1. CASE n < Window
    BY <1>1, <1>3, <2>1 DEF Push
  <2>2. CASE ~(n < Window)
    <3>1. st # <<>>
      BY <1>1, <1>3, <2>2
    <3>2. Tail(st) \in Seq([Phases -> Nat])
      BY <1>3, <3>1
    <3> QED BY <1>1, <2>2, <3>2 DEF Push
  <2> QED BY <2>1, <2>2
<1>8. \A i \in 1..n, p \in Phases :
        /\ ring[i][p].arrivals \in Nat /\ ring[i][p].departures \in Nat
        /\ st[i][p] + ring[i][p].arrivals
             <= ring[i][p].departures + (IF i = n THEN now[p] ELSE st[i + 1][p])
  BY DEF Counted, Links
<1> HIDE DEF n, r, u
<1>9. CASE n < Window
  <2>1. /\ Len(r) = n + 1 /\ Len(u) = n + 1
        /\ r[n + 1] = entry /\ u[n + 1] = now
        /\ \A i \in 1..n : r[i] = ring[i] /\ u[i] = st[i]
    BY <1>5, <1>6, <1>9
  <2>2. ASSUME NEW i \in 1..(n + 1), NEW p \in Phases
        PROVE  /\ r[i][p].arrivals \in Nat /\ r[i][p].departures \in Nat
               /\ u[i][p] + r[i][p].arrivals
                    <= r[i][p].departures + (IF i = n + 1 THEN then[p] ELSE u[i + 1][p])
    <3>1. CASE i = n + 1
      BY <2>1, <3>1
    <3>2. CASE i # n + 1
      <4>1. i \in 1..n /\ (i # n => i + 1 \in 1..n)
        BY <1>1, <3>2
      <4>2. r[i] = ring[i] /\ u[i] = st[i]
            /\ u[i + 1][p] = (IF i = n THEN now[p] ELSE st[i + 1][p])
        BY <1>1, <2>1, <4>1
      <4> QED BY <1>8, <3>2, <4>1, <4>2
    <3> QED BY <3>1, <3>2
  <2>3. Counted(r, u)
    BY <1>4, <1>7, <2>1, <2>2 DEF Counted
  <2>4. Links(r, u, then)
    BY <2>1, <2>2 DEF Links
  <2> QED BY <2>3, <2>4 DEF r, u
<1>10. CASE ~(n < Window)
  <2>1. /\ n > 0 /\ Len(r) = n /\ Len(u) = n
        /\ r[n] = entry /\ u[n] = now
        /\ \A i \in 1..(n - 1) : r[i] = ring[i + 1] /\ u[i] = st[i + 1]
    BY <1>5, <1>6, <1>10
  <2>2. ASSUME NEW i \in 1..n, NEW p \in Phases
        PROVE  /\ r[i][p].arrivals \in Nat /\ r[i][p].departures \in Nat
               /\ u[i][p] + r[i][p].arrivals
                    <= r[i][p].departures + (IF i = n THEN then[p] ELSE u[i + 1][p])
    <3>1. CASE i = n
      BY <2>1, <3>1
    <3>2. CASE i # n
      <4>1. /\ i \in 1..(n - 1) /\ i + 1 \in 1..n /\ (i + 1 = n \/ i + 1 \in 1..(n - 1))
            /\ i + 1 # n => i + 1 \in 1..(n - 1)
        BY <1>1, <3>2
      <4>2. r[i] = ring[i + 1] /\ u[i] = st[i + 1]
            /\ u[i + 1][p] = (IF i + 1 = n THEN now[p] ELSE st[(i + 1) + 1][p])
        BY <2>1, <4>1
      <4>3. /\ ring[i + 1][p].arrivals \in Nat /\ ring[i + 1][p].departures \in Nat
            /\ st[i + 1][p] + ring[i + 1][p].arrivals
                 <= ring[i + 1][p].departures
                      + (IF i + 1 = n THEN now[p] ELSE st[(i + 1) + 1][p])
        BY <1>8, <4>1
      <4> QED BY <3>2, <4>2, <4>3
    <3> QED BY <3>1, <3>2
  <2>3. Counted(r, u)
    BY <1>1, <1>4, <1>7, <2>1, <2>2 DEF Counted
  <2>4. Links(r, u, then)
    BY <2>1, <2>2 DEF Links
  <2> QED BY <2>3, <2>4 DEF r, u
<1> QED BY <1>9, <1>10

-----------------------------------------------------------------------------
(* The theorems *)

\* New analyzers agree, and know nothing.
LEMMA CInitOK == Init => CInv
<1> SUFFICES ASSUME Init PROVE CInv
  OBVIOUS
<1>1. own = NewTOCState /\ shown = NewTOCState /\ unseen = <<>>
  BY DEF Init
<1>2. Window \in Nat \ {0} /\ Hysteresis \in Nat \ {0}
  BY ConstraintAssumption
<1>3. <<>> \in Seq({}) /\ Len(<<>>) = 0
  OBVIOUS
<1>4. IsTOC(NewTOCState)
  <2>1. NewTOCState.ring \in Seq({}) /\ NewTOCState.consecutive \in Nat
    BY <1>3 DEF NewTOCState
  <2> QED BY <2>1 DEF IsTOC, NewTOCState
<1>5. Same(own, shown) /\ Alike(own.prev, shown.prev)
  BY <1>1, <1>3 DEF Same, Alike, NewTOCState
<1>6. Tracks(own) /\ Tracks(shown) /\ own.constraint = 0
  BY <1>1, <1>2, <1>3 DEF Tracks, FollowsWindow, NewTOCState
<1> QED BY <1>1, <1>4, <1>5, <1>6 DEF CInv

\* What a tick does to the analyzers: the tracker's is updated with a state of
\* the same day, or left to the runner.
LEMMA TickFacts ==
  ASSUME Tick
  PROVE  \E x, y : /\ own' = Update(own, x)
                   /\ shown' = IF driver = "runner" THEN shown ELSE Update(shown, y)
                   /\ x.day = y.day /\ Alike(x.tickets, y.tickets)
<1>1. PICK queued :
        own' = Update(own, SimOf(day', phase', entered', queued, sprint, sprintNumber, invested))
  BY DEF Tick
<1> DEFINE x == SimOf(day', phase', entered', queued, sprint, sprintNumber, invested)
           y == SimOf(day', phase', entered', waiting', sprint', sprintNumber', invested')
<1>2. x.day = y.day /\ Alike(x.tickets, y.tickets)
  BY DEF SimOf, Alike
<1>3. shown' = IF driver = "runner" THEN shown ELSE Update(shown, y)
  BY DEF Tick, Track, Now
<1> HIDE DEF x, y
<1> QED BY <1>1, <1>2, <1>3 DEF x

\* Every step keeps the analyzers on their tracks.
LEMMA CStepKeeps == CInv /\ [Next]_vars => CInv'
<1> SUFFICES ASSUME CInv, [Next]_vars PROVE CInv'
  OBVIOUS
<1>1. CASE Tick
  <2>1. PICK x, y : /\ own' = Update(own, x)
                    /\ shown' = IF driver = "runner" THEN shown ELSE Update(shown, y)
                    /\ x.day = y.day /\ Alike(x.tickets, y.tickets)
    BY <1>1, TickFacts
  <2>2. IsTOC(own) /\ Tracks(own) /\ IsTOC(shown) /\ Tracks(shown) /\ driver' = driver
    BY <1>1 DEF CInv, Tick
  <2>3. /\ IsTOC(own') /\ Tracks(own')
        /\ own.constraint = 0 /\ own'.constraint # 0 => own'.confidence >= 500
    BY <2>1, <2>2, UpdateTracks
  <2>4. IsTOC(shown') /\ Tracks(shown')
    <3>1. IsTOC(Update(shown, y)) /\ Tracks(Update(shown, y))
      BY <2>2, UpdateTracks
    <3> QED BY <2>1, <2>2, <3>1
  <2>5. driver' = "handlers" => Same(own', shown') /\ Alike(own'.prev, shown'.prev)
    BY <2>1, <2>2, UpdateAgree DEF CInv
  <2>6. warmup' = NextWarmup(own')
    BY <1>1 DEF Tick
  <2>7. warmup' = "active" => own'.constraint = 0
    BY <2>3, <2>6 DEF NextWarmup, WarmupExit, CInv
  <2>8. unseen' # <<>> => driver' = "followed"
    BY <1>1, <2>2 DEF Tick, Emitted, CInv
  <2> QED BY <2>3, <2>4, <2>5, <2>7, <2>8
          DEF CInv, IsTOC, Same, Alike, Tracks, FollowsWindow
<1>2. CASE TrackSprint \/ FollowEvent
  <2>1. /\ UNCHANGED <<own, warmup, driver>> /\ driver # "handlers"
        /\ unseen' # <<>> => driver = "followed"
        /\ \E x : shown' = Update(shown, x)
    BY <1>2 DEF TrackSprint, FollowEvent, CInv
  <2>2. IsTOC(shown') /\ Tracks(shown')
    BY <2>1, UpdateTracks DEF CInv
  <2> QED BY <2>1, <2>2 DEF CInv, IsTOC, Same, Alike, Tracks, FollowsWindow
<1>3. CASE ~(Tick \/ TrackSprint \/ FollowEvent)
  <2>1. /\ UNCHANGED <<own, shown, warmup, driver>>
        /\ unseen' # <<>> => driver = "followed"
    BY <1>3 DEF Next, StartSprint, AssignTicket, SpendInvestment, Emitted, vars, CInv
  <2> QED BY <2>1 DEF CInv, IsTOC, Same, Alike, Tracks, FollowsWindow
<1> QED BY <1>1, <1>2, <1>3

\* What a day makes of the engine's window.
LEMMA TickWindow ==
  ASSUME CInv, Tick
  PROVE  /\ DOMAIN own'.prev \subseteq Tickets
         /\ DOMAIN own.prev = {} => own'.ring = own.ring /\ starts' = starts
         /\ DOMAIN own.prev # {} =>
              /\ own'.ring = Push(own.ring, CollectTickData(own.prev, own'.prev, day'))
              /\ starts' = Push(starts, Occupied)
<1>1. PICK queued :
        own' = Update(own, SimOf(day', phase', entered', queued, sprint, sprintNumber, invested))
  BY DEF Tick
<1> DEFINE x == SimOf(day', phase', entered', queued, sprint, sprintNumber, invested)
           pushed == [DetectTransitions(own, x) EXCEPT !.prev = x.tickets,
                        !.ring = Push(own.ring, CollectTickData(own.prev, x.tickets, x.day))]
<1>2. x.day = day' /\ DOMAIN x.tickets \subseteq Tickets
  BY DEF SimOf
<1> HIDE DEF x
<1>3. IsTOC(own) /\ Tracks(own)
  BY DEF CInv
<1>4. own'.prev = x.tickets /\ (DOMAIN own.prev = {} => Same(own', own))
  BY <1>1, <1>3, UpdateFacts DEF x
<1>5. starts' = IF DOMAIN own.prev = {} THEN starts ELSE Push(starts, Occupied)
  BY DEF Tick, Occupied
<1>6. ASSUME DOMAIN own.prev # {}
      PROVE  own'.ring = Push(own.ring, CollectTickData(own.prev, own'.prev, day'))
  <2>1. /\ IsTOC(pushed)
        /\ pushed.ring = Push(own.ring, CollectTickData(own.prev, x.tickets, x.day))
        /\ pushed.candidate = own.candidate /\ pushed.constraint = own.constraint
        /\ pushed.consecutive = own.consecutive
        /\ Same(own', IdentifyConstraint(pushed))
    BY <1>1, <1>3, <1>6, UpdateFacts DEF x
  <2>2. /\ Len(own.ring) \in Nat /\ Len(pushed.ring) \in Nat
        /\ Len(pushed.ring) >= Len(own.ring)
    <3>1. PICK S : own.ring \in Seq(S)
      BY <1>3 DEF IsTOC
    <3> QED BY <2>1, <3>1, PushFacts
  <2> HIDE DEF pushed
  <2>3. Tracks([pushed EXCEPT !.ring = own.ring])
    BY <1>3, <2>1 DEF IsTOC, Tracks, FollowsWindow
  <2>4. IdentifyConstraint(pushed).ring = pushed.ring
    BY <2>1, <2>2, <2>3, IdentifyFacts
  <2> QED BY <1>2, <1>4, <2>1, <2>4 DEF Same
<1> QED BY <1>2, <1>4, <1>5, <1>6 DEF Same

\* The window begins empty.
LEMMA WInitOK == Init => WInv
<1> SUFFICES ASSUME Init PROVE WInv
  OBVIOUS
<1>1. own.prev = <<>> /\ own.ring = <<>> /\ starts = <<>>
  BY DEF Init, NewTOCState
<1>2. <<>> \in Seq({}) /\ <<>> \in Seq([Phases -> Nat]) /\ Len(<<>>) = 0 /\ 1..0 = {}
      /\ DOMAIN <<>> = {}
  OBVIOUS
<1> QED BY <1>1, <1>2, CInitOK DEF WInv, Counted, Links

\* How full the phases are is a number.
LEMMA OccupiedType ==
  ASSUME DOMAIN own.prev \subseteq Tickets
  PROVE  Occupied \in [Phases -> Nat]
  BY DayBalances DEF Occupied

\* Every step keeps the chain.
LEMMA WStepKeeps == WInv /\ [Next]_vars => WInv'
<1> SUFFICES ASSUME WInv, [Next]_vars PROVE WInv'
  OBVIOUS
<1>1. CInv'
  BY CStepKeeps DEF WInv
<1>2. CASE Tick
  <2>1. /\ DOMAIN own.prev \subseteq Tickets
        /\ Counted(own.ring, starts) /\ Links(own.ring, starts, Occupied)
    BY DEF WInv
  <2>2. /\ DOMAIN own'.prev \subseteq Tickets
        /\ DOMAIN own.prev = {} => own'.ring = own.ring /\ starts' = starts
        /\ DOMAIN own.prev # {} =>
             /\ own'.ring = Push(own.ring, CollectTickData(own.prev, own'.prev, day'))
             /\ starts' = Push(starts, Occupied)
    BY <1>2, TickWindow DEF WInv
  <2> DEFINE then == [p \in Phases |-> Occupancy(own'.prev, p)]
  <2>3. Occupied \in [Phases -> Nat] /\ then \in [Phases -> Nat]
    BY <2>1, <2>2, OccupiedType, DayBalances
  <2>4. Occupied' = then
    BY DEF Occupied
  <2>5. \A p \in Phases : Occupied[p] = Occupancy(own.prev, p)
                          /\ then[p] = Occupancy(own'.prev, p)
    BY DEF Occupied
  <2> HIDE DEF then
  <2>6. CASE DOMAIN own.prev = {}
    <3>1. \A p \in Phases : Occupied[p] = 0
      <4>1. \A p \in Phases : Occupancy(own.prev, p) = Cardinality({})
        BY <2>6 DEF Occupancy
      <4> QED BY <2>5, <4>1, FS_EmptySet
    <3>2. Links(own.ring, starts, then)
      <4> SUFFICES ASSUME NEW i \in 1..Len(own.ring), NEW p \in Phases
                   PROVE  starts[i][p] + own.ring[i][p].arrivals
                            <= own.ring[i][p].departures
                               + (IF i = Len(own.ring) THEN then[p] ELSE starts[i + 1][p])
        BY DEF Links
      <4>1. starts[i][p] + own.ring[i][p].arrivals
              <= own.ring[i][p].departures
                 + (IF i = Len(own.ring) THEN 0 ELSE starts[i + 1][p])
        BY <2>1, <3>1 DEF Links
      <4>2. starts[i][p] \in Nat /\ own.ring[i][p].arrivals \in Nat
            /\ own.ring[i][p].departures \in Nat /\ then[p] \in Nat
        BY <2>1, <2>3 DEF Counted
      <4> QED BY <4>1, <4>2
    <3> QED BY <1>1, <2>1, <2>2, <2>4, <2>6, <3>2 DEF WInv
  <2>7. CASE DOMAIN own.prev # {}
    <3> DEFINE entry == CollectTickData(own.prev, own'.prev, day')
    <3>1. ASSUME NEW p \in Phases
          PROVE  /\ entry[p].arrivals \in Nat /\ entry[p].departures \in Nat
                 /\ Occupied[p] + entry[p].arrivals <= entry[p].departures + then[p]
      <4>1. /\ entry[p].arrivals = Cardinality(Arrived(own.prev, own'.prev, p))
            /\ entry[p].departures = Cardinality(Departed(own.prev, own'.prev, p))
        BY DEF CollectTickData
      <4> HIDE DEF entry
      <4> QED BY <2>1, <2>2, <2>5, <4>1, DayBalances
    <3> HIDE DEF entry
    <3>2. /\ Counted(Push(own.ring, entry), Push(starts, Occupied))
          /\ Links(Push(own.ring, entry), Push(starts, Occupied), then)
      BY <2>1, <2>3, <3>1, PushLinks
    <3> QED BY <1>1, <2>2, <2>4, <2>7, <3>2 DEF WInv, entry
  <2> QED BY <2>6, <2>7
<1>3. CASE ~Tick
  <2>1. UNCHANGED <<own, starts>>
    BY <1>3 DEF Next, StartSprint, AssignTicket, SpendInvestment, TrackSprint, FollowEvent, vars
  <2> QED BY <1>1, <2>1 DEF WInv, Counted, Links, Occupied, Occupancy
<1> QED BY <1>2, <1>3

\* The invariant of the two analyzers.
THEOREM ConstraintInvariance == Spec => []CInv
<1> QED BY CInitOK, CStepKeeps, PTL DEF Spec

\* What is shown after a handler's tick is what the release was steered by
\* during it: the two analyzers identify the same constraint with the same
\* confidence, as long as nobody but the handlers updates the tracker.
THEOREM HandlersNeverDisagree == Spec => []HandlersAgree
<1>1. CInv => HandlersAgree
  BY DEF CInv, Same, HandlersAgree, AnalyzersAgree
<1> QED BY <1>1, ConstraintInvariance, PTL

\* The release controller never acts on a constraint that the present window
\* does not have.
THEOREM CandidateIsPresent == Spec => []CandidateIsWinner
<1>1. CInv => CandidateIsWinner
  BY DEF CInv, Tracks, CandidateIsWinner
<1> QED BY <1>1, ConstraintInvariance, PTL

\* Nor is one shown, whoever updates the tracker, however often in a tick, and
\* in whatever order the updates of the handlers and the interface fall.
THEOREM ShownIsPresent == Spec => []ShownIsWinner
<1>1. CInv => ShownIsWinner
  BY DEF CInv, Tracks, ShownIsWinner
<1> QED BY <1>1, ConstraintInvariance, PTL

\* The warm-up is exited on the day the first constraint is confirmed, however
\* slowly confidence fades and whatever the window and the hysteresis are.
THEOREM WarmupExitsOnConfirmation == Spec => ExitIsConfirmation
<1>1. CInv /\ [Next]_vars =>
        [warmup = "active" /\ warmup' = "exited" =>
           /\ own'.constraint = own'.candidate /\ own.constraint = 0
           /\ own'.consecutive = Hysteresis]_vars
  <2> SUFFICES ASSUME CInv, [Next]_vars, warmup = "active", warmup' = "exited"
               PROVE  /\ own'.constraint = own'.candidate /\ own.constraint = 0
                      /\ own'.consecutive = Hysteresis
    OBVIOUS
  <2>1. Tick
    BY DEF Next, StartSprint, AssignTicket, SpendInvestment, TrackSprint, FollowEvent, vars
  <2>2. PICK x : own' = Update(own, x)
    BY <2>1, TickFacts
  <2>3. own.constraint = 0
    BY DEF CInv
  <2>4. own'.constraint # 0
    BY <2>1 DEF Tick, NextWarmup, WarmupExit
  <2> QED BY <2>2, <2>3, <2>4, UpdateTracks DEF CInv
<1> QED BY <1>1, ConstraintInvariance, PTL DEF Spec, ExitIsConfirmation

\* The invariant of the window.
THEOREM WindowInvariance == Spec => []WInv
<1> QED BY WInitOK, WStepKeeps, PTL DEF Spec

\* However long the window and whatever moves, it counts no arrival twice and
\* no departure that was not there.
THEOREM WindowsBalance == Spec => []WindowBalances
<1>1. WInv => WindowBalances
  <2> SUFFICES ASSUME WInv, starts # <<>>, NEW p \in Phases
               PROVE  starts[1][p] + Arrivals(own.ring, p)
                        <= Occupancy(own.prev, p) + Departures(own.ring, p)
    BY DEF WindowBalances
  <2>1. /\ Counted(own.ring, starts) /\ Links(own.ring, starts, Occupied)
        /\ Occupied \in [Phases -> Nat]
    BY OccupiedType DEF WInv
  <2>2. Len(own.ring) > 0
    BY <2>1 DEF Counted
  <2>3. Occupied[p] = Occupancy(own.prev, p)
    BY DEF Occupied
  <2> QED BY <2>1, <2>2, <2>3, LinksAddUp
<1> QED BY <1>1, WindowInvariance, PTL
=============================================================================
