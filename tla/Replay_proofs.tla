---------------------------- MODULE Replay_proofs ---------------------------
(***************************************************************************)
(* Theorems about Replay, for any tickets, developers, phases, caps and    *)
(* investments: the engine that emits events and folds them implements     *)
(* Flow, so what is proved of Flow holds of it; whoever reads between two  *)
(* events finds workers and tickets in agreement; and a load brings back   *)
(* what was saved.                                                         *)
(***************************************************************************)
EXTENDS Replay, FiniteSetTheorems, WellFoundedInduction, TLAPS

\* Flow, with its theorems, on the state the events give.
P == INSTANCE Flow_proofs WITH
  backlog <- Whole.backlog, triaged <- Whole.triaged, committed <- Whole.committed,
  active <- Whole.active, completed <- Whole.completed, large <- Whole.large,
  phase <- Whole.phase, assignedTo <- Whole.assignedTo, effort <- Whole.effort,
  contributors <- Whole.contributors, queue <- Whole.queue, team <- Whole.team,
  current <- Whole.current, cursor <- Whole.cursor,
  mentorIndex <- Whole.mentorIndex, ticketMentors <- Whole.ticketMentors,
  cicdSlots <- Whole.slots, budget <- Whole.budget, sprint <- Whole.sprint,
  sprintNumber <- Whole.number, daysLeft <- Whole.left,
  warmupActive <- Whole.warmup, warmupFailed <- Whole.failed

-----------------------------------------------------------------------------
(* Folds: the state after a sequence of events.  A recursive function over   *)
(* sets of indices is what defines FoldLeft; the lemmas below make of it     *)
(* "one event after another".                                                *)

\* The state after the events es from the state b.
Run(b, es) == FoldLeft(Apply, b, es)

\* What holds at 0 and from each number to the next holds up to n.
LEMMA UpTo ==
  ASSUME NEW n \in Nat, NEW K, 0 \in K, \A k \in 1..n : k - 1 \in K => k \in K
  PROVE  n \in K /\ \A k \in 0..n : k \in K
<1> DEFINE Bad == {k \in 0..n : k \notin K}
           R == {ss \in Nat \X Nat : ss[1] < ss[2]}
<1>1. SUFFICES ASSUME Bad # {} PROVE FALSE
  OBVIOUS
<1>2. IsWellFoundedOn(R, Nat)
  BY NatLessThanWellFounded DEF OpToRel
<1>3. PICK m \in Bad : \A i \in Bad : ~(<<i, m>> \in R)
  <2>1. Bad \subseteq Nat
    OBVIOUS
  <2> HIDE DEF R, Bad
  <2> QED BY <1>1, <1>2, <2>1, WFMin
<1>4. m \in 1..n /\ m - 1 \in 0..n /\ m - 1 < m
  OBVIOUS
<1>5. m - 1 \notin Bad
  <2>1. <<m - 1, m>> \in R
    BY <1>4
  <2> QED BY <1>3, <2>1
<1> QED BY <1>4, <1>5

\* One step of the function that defines the fold of es from b.
Rec(b, es, f, T) == IF T = {} THEN b ELSE Apply(f[T \ {Max(T)}], es[Max(T)])

\* f is the function by which the fold of n events is defined.
IsFold(f, b, es, n) == f = [T \in SUBSET (1..n) |-> Rec(b, es, f, T)]

\* Without its greatest member, a set of indices ends earlier.
LEMMA GreatestOf ==
  ASSUME NEW n \in Nat, NEW T, T \subseteq 1..n, T # {}
  PROVE  /\ n > 0 /\ Max(T) \in 1..n
         /\ T \ {Max(T)} \subseteq 1..(n - 1)
         /\ n \in T => Max(T) = n
<1> DEFINE K == {k \in 0..n : T \cap 1..k # {} => \E m \in T : \A y \in T \cap 1..k : y <= m}
<1>1. 0 \in K
  OBVIOUS
<1>2. ASSUME NEW k \in 1..n, k - 1 \in K PROVE k \in K
  <2>1. CASE k \in T
    BY <2>1
  <2>2. CASE k \notin T
    <3>1. T \cap 1..k = T \cap 1..(k - 1)
      BY <2>2
    <3> QED BY <1>2, <3>1
  <2> QED BY <2>1, <2>2
<1>3. n \in K
  <2> HIDE DEF K
  <2> QED BY <1>1, <1>2, UpTo
<1>4. PICK m \in T : \A y \in T : y <= m
  BY <1>3
<1>5. \A y \in T : y \in 1..n
  OBVIOUS
<1>6. \A x \in T : (\A y \in T : x >= y) => x = m
  BY <1>4, <1>5
<1>7. Max(T) = m
  BY <1>4, <1>5, <1>6 DEF Max
<1>8. \A y \in T \ {m} : y \in 1..(n - 1)
  BY <1>4, <1>5
<1> QED BY <1>4, <1>5, <1>7, <1>8

\* That function exists: it is found for ever longer sets of indices.
LEMMA FoldExists ==
  ASSUME NEW b, NEW es, NEW n \in Nat
  PROVE  \E f : IsFold(f, b, es, n)
<1> DEFINE Good(k, f) == /\ f = [T \in SUBSET (1..n) |-> f[T]]
                         /\ \A T \in SUBSET (1..n) :
                              T \subseteq 1..k => f[T] = Rec(b, es, f, T)
           K == {k \in 0..n : \E f : Good(k, f)}
<1>1. 0 \in K
  <2> DEFINE f == [T \in SUBSET (1..n) |-> b]
  <2>1. ASSUME NEW T \in SUBSET (1..n), T \subseteq 1..0 PROVE f[T] = Rec(b, es, f, T)
    <3>1. T = {}
      BY <2>1
    <3> QED BY <3>1 DEF Rec
  <2>2. f = [T \in SUBSET (1..n) |-> f[T]]
    OBVIOUS
  <2> HIDE DEF f
  <2>3. Good(0, f)
    BY <2>1, <2>2
  <2> HIDE DEF Good
  <2> QED BY <2>3
<1>2. ASSUME NEW k \in Nat, NEW f, Good(k, f) PROVE \E g : Good(k + 1, g)
  <2> DEFINE g == [T \in SUBSET (1..n) |-> Rec(b, es, f, T)]
  <2>1. ASSUME NEW T \in SUBSET (1..n), T \subseteq 1..(k + 1)
        PROVE  g[T] = Rec(b, es, g, T)
    <3>1. CASE T = {}
      BY <3>1 DEF Rec
    <3>2. CASE T # {}
      <4>1. T \ {Max(T)} \subseteq 1..((k + 1) - 1)
        BY <2>1, <3>2, GreatestOf, k + 1 \in Nat
      <4>2. T \ {Max(T)} \in SUBSET (1..n) /\ T \ {Max(T)} \subseteq 1..k
        BY <4>1
      <4>3. g[T \ {Max(T)}] = f[T \ {Max(T)}]
        BY <1>2, <4>2
      <4>4. g[T] = Rec(b, es, f, T)
        OBVIOUS
      <4> HIDE DEF g
      <4> QED BY <3>2, <4>3, <4>4 DEF Rec
    <3> QED BY <3>1, <3>2
  <2>2. g = [T \in SUBSET (1..n) |-> g[T]]
    OBVIOUS
  <2> HIDE DEF g
  <2> QED BY <2>1, <2>2
<1> HIDE DEF Good
<1>3. ASSUME NEW k \in 1..n, k - 1 \in K PROVE k \in K
  <2>1. k - 1 \in Nat /\ (k - 1) + 1 = k
    OBVIOUS
  <2>2. PICK f : Good(k - 1, f)
    BY <1>3
  <2>3. \E g : Good((k - 1) + 1, g)
    BY <1>2, <2>1, <2>2
  <2> QED BY <2>1, <2>3
<1>4. n \in K
  <2> HIDE DEF K
  <2> QED BY <1>1, <1>3, UpTo
<1>5. PICK f : Good(n, f)
  BY <1>4
<1>6. IsFold(f, b, es, n)
  BY <1>5 DEF Good, IsFold
<1> QED BY <1>6

\* f[k] is the state after the first k of the n events es from b.
IsRun(f, b, es, n) ==
  /\ f = [k \in 0..n |-> f[k]] /\ f[0] = b
  /\ \A k \in 1..n : f[k] = Apply(f[k - 1], es[k])

\* There are such states, and the last of them is the fold.
LEMMA RunExists ==
  ASSUME NEW b, NEW es, NEW n \in Nat, DOMAIN es = 1..n
  PROVE  \E f : IsRun(f, b, es, n) /\ Run(b, es) = f[n]
<1> DEFINE g == CHOOSE f : IsFold(f, b, es, n)
           f == [k \in 0..n |-> g[1..k]]
<1>1. IsFold(g, b, es, n)
  BY FoldExists DEF IsFold
<1>2. Run(b, es) = g[1..n]
  BY DEF Run, FoldLeft, MapThenFoldSet, Rec, IsFold
<1> HIDE DEF g
<1>3. f[0] = b
  <2>1. 1..0 = {} /\ {} \in SUBSET (1..n)
    OBVIOUS
  <2>2. g[{}] = b
    BY <1>1, <2>1 DEF IsFold, Rec
  <2> QED BY <2>1, <2>2
<1>4. ASSUME NEW k \in 1..n
      PROVE  f[k] = Apply(f[k - 1], es[k])
  <2>1. /\ k \in Nat /\ k \in 1..k /\ 1..k # {} /\ 1..k \subseteq 1..k
        /\ k \in 0..n /\ k - 1 \in 0..n
    OBVIOUS
  <2>2. Max(1..k) = k
    BY <2>1, GreatestOf
  <2>3. (1..k) \ {k} = 1..(k - 1)
    BY <2>1
  <2>4. 1..k \in SUBSET (1..n)
    <3>1. \A i \in 1..k : i \in 1..n
      OBVIOUS
    <3> QED BY <3>1
  <2>5. g[1..k] = Rec(b, es, g, 1..k)
    BY <1>1, <2>4 DEF IsFold
  <2>6. g[1..k] = Apply(g[1..(k - 1)], es[k])
    BY <2>1, <2>2, <2>3, <2>5 DEF Rec
  <2> QED BY <2>1, <2>6
<1>5. IsRun(f, b, es, n)
  BY <1>3, <1>4 DEF IsRun
<1>6. Run(b, es) = f[n]
  BY <1>2
<1> QED BY <1>5, <1>6

\* Events that begin the same give the same states.
LEMMA RunAgree ==
  ASSUME NEW b, NEW es, NEW es1, NEW n \in Nat, NEW n1 \in Nat, NEW f, NEW g,
         IsRun(f, b, es, n), IsRun(g, b, es1, n1), n <= n1,
         \A i \in 1..n : es[i] = es1[i]
  PROVE  \A k \in 0..n : f[k] = g[k]
<1> DEFINE K == {k \in 0..n : f[k] = g[k]}
<1>1. 0 \in K
  BY DEF IsRun
<1>2. ASSUME NEW k \in 1..n, k - 1 \in K PROVE k \in K
  <2>1. k \in 1..n1 /\ k \in 0..n
    OBVIOUS
  <2>2. f[k] = Apply(f[k - 1], es[k]) /\ g[k] = Apply(g[k - 1], es1[k])
    BY <2>1 DEF IsRun
  <2> QED BY <1>2, <2>1, <2>2
<1>3. \A k \in 0..n : k \in K
  <2> HIDE DEF K
  <2> QED BY <1>1, <1>2, UpTo
<1> QED BY <1>3

\* Whatever lists the states in order, the last one is the fold.
LEMMA RunIs ==
  ASSUME NEW b, NEW es, NEW n \in Nat, DOMAIN es = 1..n, NEW f, IsRun(f, b, es, n)
  PROVE  Run(b, es) = f[n]
<1>1. PICK g : IsRun(g, b, es, n) /\ Run(b, es) = g[n]
  BY RunExists
<1>2. f[n] = g[n]
  BY <1>1, RunAgree
<1> QED BY <1>1, <1>2

\* No event, one event, one more event.
LEMMA RunNone ==
  ASSUME NEW b
  PROVE  Run(b, <<>>) = b
<1>1. DOMAIN <<>> = 1..0 /\ 0 \in Nat
  OBVIOUS
<1>2. PICK f : IsRun(f, b, <<>>, 0) /\ Run(b, <<>>) = f[0]
  BY <1>1, RunExists
<1> QED BY <1>2 DEF IsRun

\* Events one after another: the state after both runs.
LEMMA RunBoth ==
  ASSUME NEW b, NEW S, NEW x \in Seq(S), NEW y \in Seq(S)
  PROVE  Run(b, x \o y) = Run(Run(b, x), y)
<1> DEFINE n == Len(x)
           m == Len(y)
           z == x \o y
<1>1. /\ n \in Nat /\ m \in Nat /\ n + m \in Nat
      /\ DOMAIN x = 1..n /\ DOMAIN y = 1..m /\ DOMAIN z = 1..(n + m)
      /\ \A i \in 1..n : z[i] = x[i]
      /\ \A i \in 1..m : z[n + i] = y[i]
  OBVIOUS
<1> HIDE DEF n, m, z
<1>2. PICK f : IsRun(f, b, z, n + m) /\ Run(b, z) = f[n + m]
  BY <1>1, RunExists
<1> DEFINE g == [k \in 0..n |-> f[k]]
           h == [k \in 0..m |-> f[n + k]]
<1>3. IsRun(g, b, x, n)
  <2>1. ASSUME NEW k \in 1..n PROVE g[k] = Apply(g[k - 1], x[k])
    <3>1. k \in 1..(n + m) /\ k \in 0..n /\ k - 1 \in 0..n
      BY <1>1
    <3> QED BY <1>1, <1>2, <3>1 DEF IsRun
  <2>2. g[0] = b
    BY <1>1, <1>2 DEF IsRun
  <2> QED BY <2>1, <2>2 DEF IsRun
<1>4. Run(b, x) = f[n]
  <2>1. g[n] = f[n]
    BY <1>1
  <2> HIDE DEF g
  <2> QED BY <1>1, <1>3, <2>1, RunIs
<1>5. IsRun(h, f[n], y, m)
  <2>1. ASSUME NEW k \in 1..m PROVE h[k] = Apply(h[k - 1], y[k])
    <3>1. /\ n + k \in 1..(n + m) /\ k \in 0..m /\ k - 1 \in 0..m
          /\ (n + k) - 1 = n + (k - 1)
      BY <1>1
    <3> QED BY <1>1, <1>2, <3>1 DEF IsRun
  <2>2. h[0] = f[n]
    BY <1>1
  <2> QED BY <2>1, <2>2 DEF IsRun
<1>6. Run(f[n], y) = f[n + m]
  <2>1. h[m] = f[n + m]
    BY <1>1
  <2> HIDE DEF h
  <2> QED BY <1>1, <1>5, <2>1, RunIs
<1> QED BY <1>2, <1>4, <1>6 DEF z

\* A single event.
LEMMA RunOne ==
  ASSUME NEW b, NEW e
  PROVE  Run(b, <<e>>) = Apply(b, e)
<1>1. DOMAIN <<e>> = 1..1 /\ 1 \in Nat /\ <<e>>[1] = e
  OBVIOUS
<1>2. PICK f : IsRun(f, b, <<e>>, 1) /\ Run(b, <<e>>) = f[1]
  BY <1>1, RunExists
<1>3. 1 \in 1..1 /\ 1 - 1 = 0
  OBVIOUS
<1> QED BY <1>1, <1>2, <1>3 DEF IsRun

-----------------------------------------------------------------------------
(* What each event changes, and what it leaves *)

Fields == {"backlog", "triaged", "committed", "active", "completed", "large", "team",
           "hired", "cursor", "phase", "effort", "assignedTo", "contributors", "queue",
           "current", "mentorIndex", "ticketMentors", "slots", "budget", "sprint",
           "number", "left", "demand", "warmup", "failed", "incidents", "caused"}

IsSim(s) == DOMAIN s = Fields

\* u is s but for the fields of Fs.
Kept(u, s, Fs) == IsSim(u) /\ \A f \in Fields \ Fs : u[f] = s[f]

\* A tick takes a day off the sprint, if there is one.
LEMMA AfterTicked ==
  ASSUME NEW s, IsSim(s)
  PROVE  LET u == Apply(s, Ticked) IN
         /\ Kept(u, s, {"left"})
         /\ u.left = IF s.sprint THEN s.left - 1 ELSE s.left
BY DEF Apply, Ticked, OnTicked, Kept, IsSim, Fields

\* A sprint starts with its days; its number stops at the warm-up limit.
LEMMA AfterSprintStarted ==
  ASSUME NEW s, IsSim(s), NEW n, NEW l
  PROVE  LET u == Apply(s, SprintStarted(n, l)) IN
         /\ Kept(u, s, {"sprint", "left", "number"})
         /\ u.sprint = TRUE /\ u.left = l
         /\ u.number = IF n < WarmupLimit THEN n ELSE WarmupLimit
BY DEF Apply, SprintStarted, OnSprintStarted, Kept, IsSim, Fields

\* A sprint ends; its days stay.
LEMMA AfterSprintEnded ==
  ASSUME NEW s, IsSim(s)
  PROVE  LET u == Apply(s, SprintEnded) IN
         /\ Kept(u, s, {"sprint"})
         /\ u.sprint = FALSE
BY DEF Apply, SprintEnded, OnSprintEnded, Kept, IsSim, Fields

\* A developer joins at the end of the team.
LEMMA AfterDeveloperAdded ==
  ASSUME NEW s, IsSim(s), NEW d
  PROVE  LET u == Apply(s, DeveloperAdded(d)) IN
         /\ Kept(u, s, {"team"})
         /\ u.team = Append(s.team, d)
BY DEF Apply, DeveloperAdded, OnDeveloperAdded, Kept, IsSim, Fields

\* A ticket is created in the backlog, as its event says.
LEMMA AfterTicketCreated ==
  ASSUME NEW s, IsSim(s), NEW e, e.type = "TicketCreated"
  PROVE  LET u == Apply(s, e) IN
         /\ Kept(u, s, {"backlog", "triaged", "large"})
         /\ u.backlog = s.backlog \cup {e.ticket}
         /\ u.triaged = IF e.triaged THEN s.triaged \cup {e.ticket} ELSE s.triaged
         /\ u.large = IF e.big THEN s.large \cup {e.ticket} ELSE s.large
BY DEF Apply, OnTicketCreated, Kept, IsSim, Fields

\* Triage marks a ticket that is in the backlog.
LEMMA AfterTriaged ==
  ASSUME NEW s, IsSim(s), NEW t
  PROVE  LET u == Apply(s, TicketTriaged(t)) IN
         /\ Kept(u, s, {"triaged"})
         /\ u.triaged = IF t \in s.backlog THEN s.triaged \cup {t} ELSE s.triaged
BY DEF Apply, TicketTriaged, OnTicketTriaged, Kept, IsSim, Fields

\* A committed ticket leaves the backlog.
LEMMA AfterCommitted ==
  ASSUME NEW s, IsSim(s), NEW t, t \in s.backlog
  PROVE  LET u == Apply(s, TicketCommitted(t)) IN
         /\ Kept(u, s, {"backlog", "triaged", "committed"})
         /\ u.backlog = s.backlog \ {t} /\ u.triaged = s.triaged \ {t}
         /\ u.committed = s.committed \cup {t}
BY DEF Apply, TicketCommitted, OnTicketCommitted, Kept, IsSim, Fields

\* A ticket that starts, and one that waited in a queue.
LEMMA AfterStarted ==
  ASSUME NEW s, IsSim(s), NEW e, e.type = "TicketAssigned",
         e.ticket \in s.backlog \cup s.committed
  PROVE  LET u == Apply(s, e) IN
         /\ Kept(u, s, {"backlog", "triaged", "committed", "active", "phase", "assignedTo",
                        "effort", "queue", "current", "cursor"})
         /\ u.backlog = s.backlog \ {e.ticket} /\ u.triaged = s.triaged \ {e.ticket}
         /\ u.committed = s.committed \ {e.ticket}
         /\ u.active = s.active \cup {e.ticket}
         /\ u.phase = [s.phase EXCEPT ![e.ticket] = e.phase]
         /\ u.queue = [s.queue EXCEPT ![e.phase] = @]
         /\ u.current = [s.current EXCEPT ![e.dev] = e.ticket] /\ u.cursor = Place(s, e.dev)
         /\ u.assignedTo = [s.assignedTo EXCEPT ![e.ticket] = e.dev]
         /\ u.effort = [s.effort EXCEPT ![e.ticket] = e.effort]
<1> DEFINE u == OnTicketAssigned(s, e)
<1>1. Apply(s, e) = u
  BY DEF Apply
<1>2. /\ DOMAIN u = Fields
      /\ \A f \in Fields \ {"backlog", "triaged", "committed", "active", "phase", "assignedTo",
                            "effort", "queue", "current", "cursor"} : u[f] = s[f]
  BY DEF OnTicketAssigned, IsSim, Fields
<1>3. /\ u.backlog = s.backlog \ {e.ticket} /\ u.triaged = s.triaged \ {e.ticket}
      /\ u.committed = s.committed \ {e.ticket}
  BY DEF OnTicketAssigned, IsSim, Fields
<1>4. u.current = [s.current EXCEPT ![e.dev] = e.ticket] /\ u.cursor = Place(s, e.dev)
  BY DEF OnTicketAssigned, IsSim, Fields
<1>5. /\ u.active = s.active \cup {e.ticket}
      /\ u.phase = [s.phase EXCEPT ![e.ticket] = e.phase]
      /\ u.queue = [s.queue EXCEPT ![e.phase] = @]
  BY DEF OnTicketAssigned, IsSim, Fields
<1>6. /\ u.assignedTo = [s.assignedTo EXCEPT ![e.ticket] = e.dev]
      /\ u.effort = [s.effort EXCEPT ![e.ticket] = e.effort]
  BY DEF OnTicketAssigned, IsSim, Fields
<1> HIDE DEF u
<1> QED BY <1>1, <1>2, <1>3, <1>4, <1>5, <1>6 DEF Kept, IsSim

\* An active ticket that is assigned again goes to its worker in the phase it has reached.
LEMMA AfterHandedOn ==
  ASSUME NEW s, IsSim(s), NEW e, e.type = "TicketAssigned",
         e.ticket \in s.active, e.ticket \notin s.backlog \cup s.committed
  PROVE  LET u == Apply(s, e) IN
         /\ Kept(u, s, {"backlog", "triaged", "committed", "active", "phase", "assignedTo",
                        "effort", "queue", "current", "cursor"})
         /\ u.backlog = s.backlog \ {e.ticket} /\ u.triaged = s.triaged \ {e.ticket}
         /\ u.committed = s.committed \ {e.ticket}
         /\ u.active = s.active
         /\ u.phase = [s.phase EXCEPT ![e.ticket] = @]
         /\ u.queue = [s.queue EXCEPT ![e.phase] = RemoveFirst(@, e.ticket)]
         /\ u.current = [s.current EXCEPT ![e.dev] = e.ticket] /\ u.cursor = Place(s, e.dev)
         /\ u.assignedTo = [s.assignedTo EXCEPT ![e.ticket] = e.dev]
         /\ u.effort = [s.effort EXCEPT ![e.ticket] = e.effort]
<1> DEFINE u == OnTicketAssigned(s, e)
<1>1. Apply(s, e) = u
  BY DEF Apply
<1>2. /\ DOMAIN u = Fields
      /\ \A f \in Fields \ {"backlog", "triaged", "committed", "active", "phase", "assignedTo",
                            "effort", "queue", "current", "cursor"} : u[f] = s[f]
  BY DEF OnTicketAssigned, IsSim, Fields
<1>3. /\ u.backlog = s.backlog \ {e.ticket} /\ u.triaged = s.triaged \ {e.ticket}
      /\ u.committed = s.committed \ {e.ticket}
  BY DEF OnTicketAssigned, IsSim, Fields
<1>4. u.current = [s.current EXCEPT ![e.dev] = e.ticket] /\ u.cursor = Place(s, e.dev)
  BY DEF OnTicketAssigned, IsSim, Fields
<1>5. /\ u.active = s.active
      /\ u.phase = [s.phase EXCEPT ![e.ticket] = @]
      /\ u.queue = [s.queue EXCEPT ![e.phase] = RemoveFirst(@, e.ticket)]
  BY DEF OnTicketAssigned, IsSim, Fields
<1>6. /\ u.assignedTo = [s.assignedTo EXCEPT ![e.ticket] = e.dev]
      /\ u.effort = [s.effort EXCEPT ![e.ticket] = e.effort]
  BY DEF OnTicketAssigned, IsSim, Fields
<1> HIDE DEF u
<1> QED BY <1>1, <1>2, <1>3, <1>4, <1>5, <1>6 DEF Kept, IsSim

\* A completed ticket leaves its worker and the active tickets.
LEMMA AfterCompleted ==
  ASSUME NEW s, IsSim(s), NEW e, e.type = "TicketCompleted"
  PROVE  LET u == Apply(s, e) IN
         /\ Kept(u, s, {"active", "completed", "phase", "current"})
         /\ u.active = s.active \ {e.ticket} /\ u.completed = s.completed \cup {e.ticket}
         /\ u.phase = [s.phase EXCEPT ![e.ticket] = Done]
         /\ u.current = [s.current EXCEPT ![e.dev] = None]
BY DEF Apply, OnTicketCompleted, Kept, IsSim, Fields

\* A day of work takes a unit of effort off the ticket.
LEMMA AfterProgressed ==
  ASSUME NEW s, IsSim(s), NEW t
  PROVE  LET u == Apply(s, WorkProgressed(t)) IN
         /\ Kept(u, s, {"effort"})
         /\ u.effort = [s.effort EXCEPT ![t] = IF @ > 0 THEN @ - 1 ELSE 0]
BY DEF Apply, WorkProgressed, OnWorkProgressed, Kept, IsSim, Fields

\* A ticket that is queued joins the end of its phase's queue, unowned.
LEMMA AfterQueued ==
  ASSUME NEW s, IsSim(s), NEW e, e.type = "TicketQueued"
  PROVE  LET u == Apply(s, e) IN
         /\ Kept(u, s, {"queue", "phase", "contributors", "assignedTo"})
         /\ u.queue = [s.queue EXCEPT ![e.phase] = Append(@, e.ticket)]
         /\ u.phase = [s.phase EXCEPT ![e.ticket] = e.phase]
         /\ u.contributors = [s.contributors EXCEPT ![e.ticket] = @ \cup {e.previous}]
         /\ u.assignedTo = [s.assignedTo EXCEPT ![e.ticket] = None]
BY DEF Apply, OnTicketQueued, Kept, IsSim, Fields

\* Releasing a worker frees them and leaves the ticket.
LEMMA AfterReleased ==
  ASSUME NEW s, IsSim(s), NEW d
  PROVE  LET u == Apply(s, DeveloperReleased(d)) IN
         /\ Kept(u, s, {"current"})
         /\ u.current = [s.current EXCEPT ![d] = None]
BY DEF Apply, DeveloperReleased, OnDeveloperReleased, Kept, IsSim, Fields

\* A mentor is paired with a ticket for one phase.
LEMMA AfterPaired ==
  ASSUME NEW s, IsSim(s), NEW e, e.type = "MentorPaired"
  PROVE  LET u == Apply(s, e) IN
         /\ Kept(u, s, {"mentorIndex", "ticketMentors", "contributors"})
         /\ u.mentorIndex = [s.mentorIndex EXCEPT ![e.mentor] = e.ticket]
         /\ u.ticketMentors = [s.ticketMentors EXCEPT ![e.ticket][e.phase] = e.mentor]
         /\ u.contributors = [s.contributors EXCEPT ![e.ticket] = @ \cup {e.mentor}]
BY DEF Apply, OnMentorPaired, Kept, IsSim, Fields

\* A mentor is released from the ticket and the phase.
LEMMA AfterMentorReleased ==
  ASSUME NEW s, IsSim(s), NEW e, e.type = "MentorReleased"
  PROVE  LET u == Apply(s, e) IN
         /\ Kept(u, s, {"mentorIndex", "ticketMentors"})
         /\ u.mentorIndex = [s.mentorIndex EXCEPT ![e.mentor] = None]
         /\ u.ticketMentors = [s.ticketMentors EXCEPT ![e.ticket][e.phase] = None]
BY DEF Apply, OnMentorReleased, Kept, IsSim, Fields

\* A decomposed ticket makes room in the backlog for its children.
LEMMA AfterDecomposed ==
  ASSUME NEW s, IsSim(s), NEW t
  PROVE  LET u == Apply(s, TicketDecomposed(t)) IN
         /\ Kept(u, s, {"backlog", "triaged"})
         /\ u.backlog = (s.backlog \ {t}) \cup Children[t] /\ u.triaged = s.triaged \ {t}
BY DEF Apply, TicketDecomposed, OnTicketDecomposed, Kept, IsSim, Fields

\* An investment spends of the budget, and hires or adds a slot if it is one for that.
LEMMA AfterInvestment ==
  ASSUME NEW s, IsSim(s), NEW o
  PROVE  LET u == Apply(s, InvestmentApplied(o)) IN
         /\ Kept(u, s, {"budget", "hired", "team", "slots"})
         /\ u.budget = s.budget - Cost[o]
         /\ u.hired = IF o = "hire" THEN s.hired + 1 ELSE s.hired
         /\ u.team = IF o = "hire" THEN Append(s.team, Recruits[s.hired + 1]) ELSE s.team
         /\ u.slots = IF o = "cicd-slot" THEN s.slots + 1 ELSE s.slots
BY DEF Apply, InvestmentApplied, OnInvestmentApplied, Kept, IsSim, Fields

\* A bug adds effort to its ticket.
LEMMA AfterBug ==
  ASSUME NEW s, IsSim(s), NEW t
  PROVE  LET u == Apply(s, BugDiscovered(t)) IN
         /\ Kept(u, s, {"effort"})
         /\ u.effort = [s.effort EXCEPT ![t] = @ + 1]
BY DEF Apply, BugDiscovered, OnBugDiscovered, Kept, IsSim, Fields

\* Scope creep adds effort to its ticket.
LEMMA AfterCreep ==
  ASSUME NEW s, IsSim(s), NEW e, e.type = "ScopeCreepOccurred"
  PROVE  LET u == Apply(s, e) IN
         /\ Kept(u, s, {"effort", "large"})
         /\ u.effort = [s.effort EXCEPT ![e.ticket] = @ + 1]
         /\ u.large = IF e.grown THEN s.large \cup {e.ticket} ELSE s.large
BY DEF Apply, OnScopeCreepOccurred, Kept, IsSim, Fields

\* An incident opens for the ticket that caused it.
LEMMA AfterIncident ==
  ASSUME NEW s, IsSim(s), NEW t
  PROVE  LET u == Apply(s, IncidentStarted(t)) IN
         /\ Kept(u, s, {"incidents", "caused"})
         /\ u.incidents = Append(s.incidents, t)
BY DEF Apply, IncidentStarted, OnIncidentStarted, Kept, IsSim, Fields

\* A resolved incident is taken out where it occurs first.
LEMMA AfterResolved ==
  ASSUME NEW s, IsSim(s), NEW t
  PROVE  LET u == Apply(s, IncidentResolved(t)) IN
         /\ Kept(u, s, {"incidents"})
         /\ u.incidents = RemoveFirst(s.incidents, t)
BY DEF Apply, IncidentResolved, OnIncidentResolved, Kept, IsSim, Fields

\* The warm-up ends.
LEMMA AfterExited ==
  ASSUME NEW s, IsSim(s)
  PROVE  LET u == Apply(s, WarmupExited) IN
         /\ Kept(u, s, {"warmup"})
         /\ u.warmup = FALSE
BY DEF Apply, WarmupExited, OnWarmupExited, Kept, IsSim, Fields

\* The warm-up is given up.
LEMMA AfterTimedOut ==
  ASSUME NEW s, IsSim(s)
  PROVE  LET u == Apply(s, WarmupTimedOut) IN
         /\ Kept(u, s, {"failed"})
         /\ u.failed = TRUE
BY DEF Apply, WarmupTimedOut, OnWarmupTimedOut, Kept, IsSim, Fields

-----------------------------------------------------------------------------
(* Events for every member of a set, in some order *)

\* The first k members of the list q.
FirstOf(q, k) == {q[i] : i \in 1..k}

\* q lists the n members of S, each once.
Lists(q, n, S) ==
  /\ n \in Nat /\ DOMAIN q = 1..n
  /\ FirstOf(q, 0) = {} /\ FirstOf(q, n) = S
  /\ \A k \in 1..n : /\ q[k] \in S /\ q[k] \notin FirstOf(q, k - 1)
                     /\ FirstOf(q, k) = FirstOf(q, k - 1) \cup {q[k]}

\* A finite set can be listed.
LEMMA ListOf ==
  ASSUME NEW S, IsFiniteSet(S)
  PROVE  \E n : Lists(SetToSeq(S), n, S)
<1> DEFINE n == Cardinality(S)
           q == SetToSeq(S)
<1>1. n \in Nat
  BY FS_CardinalityType
<1>2. PICK g \in [1..n -> S] : IsInjective(g)
  <2>1. PICK g : g \in Bijection(1..n, S)
    BY FS_CardinalityType DEF ExistsBijection
  <2>2. g \in [1..n -> S] /\ IsInjective(g)
    BY <2>1 DEF Bijection, Injection, IsInjective
  <2> QED BY <2>2
<1>3. q \in [1..n -> S] /\ IsInjective(q)
  BY <1>2 DEF SetToSeq
<1> HIDE DEF q
<1>4. FirstOf(q, n) = S
  <2>1. q \in Surjection(1..n, FirstOf(q, n)) /\ q \in Injection(1..n, FirstOf(q, n))
    BY <1>3 DEF Surjection, Injection, IsInjective, FirstOf
  <2>2. q \in Bijection(1..n, FirstOf(q, n))
    BY <2>1 DEF Bijection
  <2>3. ExistsBijection(1..n, FirstOf(q, n))
    BY <2>2 DEF ExistsBijection
  <2>4. IsFiniteSet(FirstOf(q, n)) /\ Cardinality(FirstOf(q, n)) = n
    BY <1>1, <2>3, FS_CountingElements, FS_NatBijection
  <2>5. FirstOf(q, n) \subseteq S
    BY <1>3 DEF FirstOf
  <2> QED BY <2>4, <2>5, FS_Subset
<1>5. ASSUME NEW k \in 1..n
      PROVE  /\ q[k] \in S /\ q[k] \notin FirstOf(q, k - 1)
             /\ FirstOf(q, k) = FirstOf(q, k - 1) \cup {q[k]}
  <2>1. q[k] \in S
    BY <1>3
  <2>2. \A i \in 1..(k - 1) : i \in 1..n /\ i # k
    BY <1>1
  <2>3. q[k] \notin FirstOf(q, k - 1)
    BY <1>3, <2>2 DEF FirstOf, IsInjective
  <2>4. 1..k = (1..(k - 1)) \cup {k}
    BY <1>1
  <2>5. FirstOf(q, k) = FirstOf(q, k - 1) \cup {q[k]}
    BY <2>4 DEF FirstOf
  <2> QED BY <2>1, <2>3, <2>5
<1>6. DOMAIN q = 1..n /\ FirstOf(q, 0) = {}
  BY <1>3 DEF FirstOf
<1> QED BY <1>1, <1>4, <1>5, <1>6 DEF Lists, q

\* The events of a step for all members of a set.
Triages(S) == InOrder(S, TicketTriaged)
Commits(S) == InOrder(S, TicketCommitted)
Bugs(S) == InOrder(S, BugDiscovered)
Creeps(S, grown) == InOrder(S, LAMBDA t : ScopeCreepOccurred(t, t \in grown))
Fixes(S) == InOrder(S, IncidentResolved)
Fails(S) == InOrder(S, IncidentStarted)
Creates(S, known) == InOrder(S, LAMBDA t : TicketCreated(t, t \in known, FALSE))
Joins(all) == [i \in DOMAIN all |-> DeveloperAdded(all[i])]

\* All of S are triaged.
LEMMA TriageAll ==
  ASSUME NEW b, IsSim(b), NEW S, IsFiniteSet(S), S \subseteq b.backlog
  PROVE  LET u == Run(b, Triages(S)) IN
         /\ Kept(u, b, {"triaged"})
         /\ u.triaged = b.triaged \cup S
<1> DEFINE q == SetToSeq(S)
           es == Triages(S)
<1>1. PICK n : Lists(q, n, S)
  BY ListOf
<1>2. DOMAIN es = 1..n /\ n \in Nat /\ \A k \in 1..n : es[k] = TicketTriaged(q[k])
  BY <1>1 DEF InOrder, Triages, Lists
<1> HIDE DEF q, es
<1>3. PICK f : IsRun(f, b, es, n) /\ Run(b, es) = f[n]
  BY <1>2, RunExists
<1> DEFINE K == {k \in 0..n : /\ Kept(f[k], b, {"triaged"})
                             /\ f[k].triaged = b.triaged \cup FirstOf(q, k)}
<1>4. 0 \in K
  BY <1>1, <1>2, <1>3 DEF IsRun, Kept, Lists
<1>5. ASSUME NEW k \in 1..n, k - 1 \in K PROVE k \in K
  <2>1. f[k] = Apply(f[k - 1], TicketTriaged(q[k]))
    BY <1>2, <1>3 DEF IsRun
  <2>2. /\ Kept(f[k - 1], b, {"triaged"})
        /\ f[k - 1].triaged = b.triaged \cup FirstOf(q, k - 1)
    BY <1>5
  <2>3. /\ q[k] \in S /\ q[k] \notin FirstOf(q, k - 1)
        /\ FirstOf(q, k) = FirstOf(q, k - 1) \cup {q[k]}
    BY <1>1 DEF Lists
  <2>4. IsSim(f[k - 1]) /\ f[k - 1].backlog = b.backlog
    BY <2>2 DEF Kept, Fields
  <2>5. /\ Kept(f[k], f[k - 1], {"triaged"})
        /\ f[k].triaged = f[k - 1].triaged \cup {q[k]}
    BY <2>1, <2>3, <2>4, AfterTriaged
  <2> QED BY <2>2, <2>3, <2>5 DEF Kept
<1>6. n \in K
  <2> HIDE DEF K
  <2> QED BY <1>2, <1>4, <1>5, UpTo
<1> QED BY <1>1, <1>3, <1>6 DEF Lists, es

\* All of S are committed.
LEMMA CommitAll ==
  ASSUME NEW b, IsSim(b), NEW S, IsFiniteSet(S), S \subseteq b.backlog
  PROVE  LET u == Run(b, Commits(S)) IN
         /\ Kept(u, b, {"backlog", "triaged", "committed"})
         /\ u.backlog = b.backlog \ S /\ u.triaged = b.triaged \ S
         /\ u.committed = b.committed \cup S
<1> DEFINE q == SetToSeq(S)
           es == Commits(S)
<1>1. PICK n : Lists(q, n, S)
  BY ListOf
<1>2. DOMAIN es = 1..n /\ n \in Nat /\ \A k \in 1..n : es[k] = TicketCommitted(q[k])
  BY <1>1 DEF InOrder, Commits, Lists
<1> HIDE DEF q, es
<1>3. PICK f : IsRun(f, b, es, n) /\ Run(b, es) = f[n]
  BY <1>2, RunExists
<1> DEFINE K == {k \in 0..n : /\ Kept(f[k], b, {"backlog", "triaged", "committed"})
                             /\ f[k].backlog = b.backlog \ FirstOf(q, k) /\ f[k].triaged = b.triaged \ FirstOf(q, k)
                             /\ f[k].committed = b.committed \cup FirstOf(q, k)}
<1>4. 0 \in K
  BY <1>1, <1>2, <1>3 DEF IsRun, Kept, Lists
<1>5. ASSUME NEW k \in 1..n, k - 1 \in K PROVE k \in K
  <2>1. f[k] = Apply(f[k - 1], TicketCommitted(q[k]))
    BY <1>2, <1>3 DEF IsRun
  <2>2. /\ Kept(f[k - 1], b, {"backlog", "triaged", "committed"})
        /\ f[k - 1].backlog = b.backlog \ FirstOf(q, k - 1) /\ f[k - 1].triaged = b.triaged \ FirstOf(q, k - 1)
        /\ f[k - 1].committed = b.committed \cup FirstOf(q, k - 1)
    BY <1>5
  <2>3. /\ q[k] \in S /\ q[k] \notin FirstOf(q, k - 1)
        /\ FirstOf(q, k) = FirstOf(q, k - 1) \cup {q[k]}
    BY <1>1 DEF Lists
  <2>4. IsSim(f[k - 1]) /\ q[k] \in f[k - 1].backlog
    BY <2>2, <2>3 DEF Kept
  <2>5. /\ Kept(f[k], f[k - 1], {"backlog", "triaged", "committed"})
        /\ f[k].backlog = f[k - 1].backlog \ {q[k]} /\ f[k].triaged = f[k - 1].triaged \ {q[k]}
        /\ f[k].committed = f[k - 1].committed \cup {q[k]}
    BY <2>1, <2>4, AfterCommitted
  <2> QED BY <2>2, <2>3, <2>5 DEF Kept
<1>6. n \in K
  <2> HIDE DEF K
  <2> QED BY <1>2, <1>4, <1>5, UpTo
<1> QED BY <1>1, <1>3, <1>6 DEF Lists, es

\* A bug in each of S.
LEMMA BugAll ==
  ASSUME NEW b, IsSim(b), NEW S, IsFiniteSet(S), S \subseteq Tickets,
         b.effort \in [Tickets -> Nat]
  PROVE  LET u == Run(b, Bugs(S)) IN
         /\ Kept(u, b, {"effort"})
         /\ u.effort = [t \in Tickets |-> b.effort[t] + (IF t \in S THEN 1 ELSE 0)]
<1> DEFINE q == SetToSeq(S)
           es == Bugs(S)
<1>1. PICK n : Lists(q, n, S)
  BY ListOf
<1>2. DOMAIN es = 1..n /\ n \in Nat /\ \A k \in 1..n : es[k] = BugDiscovered(q[k])
  BY <1>1 DEF InOrder, Bugs, Lists
<1> HIDE DEF q, es
<1>3. PICK f : IsRun(f, b, es, n) /\ Run(b, es) = f[n]
  BY <1>2, RunExists
<1> DEFINE K == {k \in 0..n : /\ Kept(f[k], b, {"effort"})
                             /\ f[k].effort = [t \in Tickets |-> b.effort[t] + (IF t \in FirstOf(q, k) THEN 1 ELSE 0)]}
<1>4. 0 \in K
  BY <1>1, <1>2, <1>3 DEF IsRun, Kept, Lists
<1>5. ASSUME NEW k \in 1..n, k - 1 \in K PROVE k \in K
  <2>1. f[k] = Apply(f[k - 1], BugDiscovered(q[k]))
    BY <1>2, <1>3 DEF IsRun
  <2>2. /\ Kept(f[k - 1], b, {"effort"})
        /\ f[k - 1].effort = [t \in Tickets |-> b.effort[t] + (IF t \in FirstOf(q, k - 1) THEN 1 ELSE 0)]
    BY <1>5
  <2>3. /\ q[k] \in S /\ q[k] \notin FirstOf(q, k - 1)
        /\ FirstOf(q, k) = FirstOf(q, k - 1) \cup {q[k]}
    BY <1>1 DEF Lists
  <2>4. IsSim(f[k - 1])
    BY <2>2 DEF Kept
  <2>5. /\ Kept(f[k], f[k - 1], {"effort"})
        /\ f[k].effort = [f[k - 1].effort EXCEPT ![q[k]] = @ + 1]
    <3> HIDE DEF K
    <3> DEFINE v == f[k - 1]
    <3>1. IsSim(v)
      BY <2>4
    <3> HIDE DEF v
    <3>2. /\ Kept(Apply(v, BugDiscovered(q[k])), v, {"effort"})
          /\ Apply(v, BugDiscovered(q[k])).effort = [v.effort EXCEPT ![q[k]] = @ + 1]
      BY <3>1, AfterBug
    <3> QED BY <2>1, <3>2 DEF v
  <2>6. f[k].effort = [t \in Tickets |-> b.effort[t] + (IF t \in FirstOf(q, k) THEN 1 ELSE 0)]
    BY <2>2, <2>3, <2>5
  <2> QED BY <2>2, <2>5, <2>6 DEF Kept
<1>6. n \in K
  <2> HIDE DEF K
  <2>1. n \in Nat /\ 0 \in K /\ \A k \in 1..n : k - 1 \in K => k \in K
    BY <1>2, <1>4, <1>5
  <2> QED BY <2>1, UpTo
<1> QED BY <1>1, <1>3, <1>6 DEF Lists, es

\* Scope creep in each of S, which makes those of grown large.
LEMMA CreepAll ==
  ASSUME NEW b, IsSim(b), NEW S, IsFiniteSet(S), S \subseteq Tickets, NEW grown,
         b.effort \in [Tickets -> Nat]
  PROVE  LET u == Run(b, Creeps(S, grown)) IN
         /\ Kept(u, b, {"effort", "large"})
         /\ u.effort = [t \in Tickets |-> b.effort[t] + (IF t \in S THEN 1 ELSE 0)]
         /\ u.large = b.large \cup (grown \cap S)
<1> DEFINE q == SetToSeq(S)
           es == Creeps(S, grown)
<1>1. PICK n : Lists(q, n, S)
  BY ListOf
<1>2. DOMAIN es = 1..n /\ n \in Nat /\ \A k \in 1..n : es[k] = ScopeCreepOccurred(q[k], q[k] \in grown)
  BY <1>1 DEF InOrder, Creeps, Lists
<1> HIDE DEF q, es
<1>3. PICK f : IsRun(f, b, es, n) /\ Run(b, es) = f[n]
  BY <1>2, RunExists
<1> DEFINE K == {k \in 0..n : /\ Kept(f[k], b, {"effort", "large"})
                             /\ f[k].effort = [t \in Tickets |-> b.effort[t] + (IF t \in FirstOf(q, k) THEN 1 ELSE 0)]
                             /\ f[k].large = b.large \cup (grown \cap FirstOf(q, k))}
<1>4. 0 \in K
  BY <1>1, <1>2, <1>3 DEF IsRun, Kept, Lists
<1>5. ASSUME NEW k \in 1..n, k - 1 \in K PROVE k \in K
  <2>1. f[k] = Apply(f[k - 1], ScopeCreepOccurred(q[k], q[k] \in grown))
    BY <1>2, <1>3 DEF IsRun
  <2>2. /\ Kept(f[k - 1], b, {"effort", "large"})
        /\ f[k - 1].effort = [t \in Tickets |-> b.effort[t] + (IF t \in FirstOf(q, k - 1) THEN 1 ELSE 0)]
        /\ f[k - 1].large = b.large \cup (grown \cap FirstOf(q, k - 1))
    BY <1>5
  <2>3. /\ q[k] \in S /\ q[k] \notin FirstOf(q, k - 1)
        /\ FirstOf(q, k) = FirstOf(q, k - 1) \cup {q[k]}
    BY <1>1 DEF Lists
  <2>4. IsSim(f[k - 1])
    BY <2>2 DEF Kept
  <2>5. /\ Kept(f[k], f[k - 1], {"effort", "large"})
        /\ f[k].effort = [f[k - 1].effort EXCEPT ![q[k]] = @ + 1]
        /\ f[k].large = IF q[k] \in grown THEN f[k - 1].large \cup {q[k]} ELSE f[k - 1].large
    <3> HIDE DEF K
    <3> DEFINE v == f[k - 1]
               e == ScopeCreepOccurred(q[k], q[k] \in grown)
    <3>1. IsSim(v)
      BY <2>4
    <3>3. /\ e.type = "ScopeCreepOccurred" /\ e.ticket = q[k]
          /\ e.grown <=> q[k] \in grown
      BY DEF ScopeCreepOccurred
    <3>4. f[k] = Apply(v, e)
      BY <2>1
    <3> HIDE DEF v, e
    <3>2. /\ Kept(Apply(v, e), v, {"effort", "large"})
          /\ Apply(v, e).effort = [v.effort EXCEPT ![q[k]] = @ + 1]
          /\ Apply(v, e).large = IF q[k] \in grown THEN v.large \cup {q[k]} ELSE v.large
      BY <3>1, <3>3, AfterCreep
    <3> QED BY <3>2, <3>4 DEF v
  <2>6. f[k].effort = [t \in Tickets |-> b.effort[t] + (IF t \in FirstOf(q, k) THEN 1 ELSE 0)]
    BY <2>2, <2>3, <2>5
  <2>7. f[k].large = b.large \cup (grown \cap FirstOf(q, k))
    BY <2>2, <2>3, <2>5
  <2> QED BY <2>2, <2>5, <2>6, <2>7 DEF Kept
<1>6. n \in K
  <2> HIDE DEF K
  <2>1. n \in Nat /\ 0 \in K /\ \A k \in 1..n : k - 1 \in K => k \in K
    BY <1>2, <1>4, <1>5
  <2> QED BY <2>1, UpTo
<1> QED BY <1>1, <1>3, <1>6 DEF Lists, es

\* What is left of a sequence is one of its kind.
LEMMA RemoveFirstType ==
  ASSUME NEW T, NEW s \in Seq(T), NEW e
  PROVE  RemoveFirst(s, e) \in Seq(T)
<1> DEFINE I == {i \in 1..Len(s) : s[i] = e}
<1>1. CASE ~ \E i \in 1..Len(s) : s[i] = e
  BY <1>1 DEF RemoveFirst
<1>2. CASE \E i \in 1..Len(s) : s[i] = e
  <2>1. RemoveFirst(s, e) = RemoveAt(s, Min(I))
    BY <1>2 DEF RemoveFirst, SelectInSeq
  <2>2. PICK m \in 1..Len(s) : m = Min(I)
    <3>1. \E k \in I : \A j \in I : k <= j
      <4> DEFINE K == {k \in 0..Len(s) : (\E i \in I : i <= k) => \E i \in I : \A j \in I : i <= j}
      <4>1. 0 \in K
        OBVIOUS
      <4>2. ASSUME NEW k \in 1..Len(s), k - 1 \in K PROVE k \in K
        <5>1. CASE \E i \in I : i <= k - 1
          BY <4>2, <5>1
        <5>2. CASE ~ \E i \in I : i <= k - 1
          <6>1. \A i \in I : i >= k
            BY <5>2
          <6> QED BY <6>1
        <5> QED BY <5>1, <5>2
      <4>3. Len(s) \in K
        <5>1. Len(s) \in Nat /\ Len(s) \in 0..Len(s)
          OBVIOUS
        <5> HIDE DEF K
        <5> QED BY <4>1, <4>2, <5>1, UpTo
      <4> QED BY <1>2, <4>3
    <3> QED BY <3>1 DEF Min
  <2>3. RemoveAt(s, m) \in Seq(T)
    <3>1. SubSeq(s, 1, m - 1) \in Seq(T) /\ SubSeq(s, m + 1, Len(s)) \in Seq(T)
      OBVIOUS
    <3> QED BY <3>1 DEF RemoveAt
  <2> QED BY <2>1, <2>2, <2>3
<1> QED BY <1>1, <1>2

\* The head, if it is there only once or not, is what is removed first.
LEMMA RemoveHead ==
  ASSUME NEW T, NEW s \in Seq(T), s # <<>>
  PROVE  RemoveFirst(s, Head(s)) = Tail(s)
<1> DEFINE I == {i \in 1..Len(s) : s[i] = Head(s)}
<1>1. 1 \in I /\ Len(s) \in Nat
  OBVIOUS
<1>2. Min(I) = 1
  <2>1. \A j \in I : 1 <= j /\ j \in Nat
    OBVIOUS
  <2>2. \A x \in I : (\A y \in I : x =< y) => x = 1
    BY <1>1, <2>1
  <2> QED BY <1>1, <2>1, <2>2 DEF Min
<1>3. RemoveFirst(s, Head(s)) = RemoveAt(s, 1)
  BY <1>1, <1>2 DEF RemoveFirst, SelectInSeq
<1>4. RemoveAt(s, 1) = SubSeq(s, 1, 0) \o SubSeq(s, 2, Len(s))
  BY DEF RemoveAt
<1>5. SubSeq(s, 1, 0) = <<>> /\ SubSeq(s, 2, Len(s)) = Tail(s) /\ Tail(s) \in Seq(T)
  OBVIOUS
<1>6. <<>> \o Tail(s) = Tail(s)
  BY <1>5
<1> QED BY <1>3, <1>4, <1>5, <1>6

\* The incidents of S are resolved.
LEMMA FixAll ==
  ASSUME NEW b, IsSim(b), NEW S, IsFiniteSet(S), b.incidents \in Seq(Tickets)
  PROVE  LET u == Run(b, Fixes(S)) IN
         /\ Kept(u, b, {"incidents"})
         /\ u.incidents \in Seq(Tickets)
<1> DEFINE q == SetToSeq(S)
           es == Fixes(S)
<1>1. PICK n : Lists(q, n, S)
  BY ListOf
<1>2. DOMAIN es = 1..n /\ n \in Nat /\ \A k \in 1..n : es[k] = IncidentResolved(q[k])
  BY <1>1 DEF InOrder, Fixes, Lists
<1> HIDE DEF q, es
<1>3. PICK f : IsRun(f, b, es, n) /\ Run(b, es) = f[n]
  BY <1>2, RunExists
<1> DEFINE K == {k \in 0..n : /\ Kept(f[k], b, {"incidents"})
                             /\ f[k].incidents \in Seq(Tickets)}
<1>4. 0 \in K
  BY <1>1, <1>2, <1>3 DEF IsRun, Kept, Lists
<1>5. ASSUME NEW k \in 1..n, k - 1 \in K PROVE k \in K
  <2>1. f[k] = Apply(f[k - 1], IncidentResolved(q[k]))
    BY <1>2, <1>3 DEF IsRun
  <2>2. /\ Kept(f[k - 1], b, {"incidents"})
        /\ f[k - 1].incidents \in Seq(Tickets)
    BY <1>5
  <2>3. /\ q[k] \in S /\ q[k] \notin FirstOf(q, k - 1)
        /\ FirstOf(q, k) = FirstOf(q, k - 1) \cup {q[k]}
    BY <1>1 DEF Lists
  <2>4. IsSim(f[k - 1])
    BY <2>2 DEF Kept
  <2>5. /\ Kept(f[k], f[k - 1], {"incidents"})
        /\ f[k].incidents = RemoveFirst(f[k - 1].incidents, q[k])
    BY <2>1, <2>4, AfterResolved
  <2>6. f[k].incidents \in Seq(Tickets)
    BY <2>2, <2>5, RemoveFirstType
  <2> QED BY <2>2, <2>5, <2>6 DEF Kept
<1>6. n \in K
  <2> HIDE DEF K
  <2>1. n \in Nat /\ 0 \in K /\ \A k \in 1..n : k - 1 \in K => k \in K
    BY <1>2, <1>4, <1>5
  <2> QED BY <2>1, UpTo
<1> QED BY <1>1, <1>3, <1>6 DEF Lists, es

\* Each of S causes an incident.
LEMMA FailAll ==
  ASSUME NEW b, IsSim(b), NEW S, IsFiniteSet(S), S \subseteq Tickets, b.incidents \in Seq(Tickets)
  PROVE  LET u == Run(b, Fails(S)) IN
         /\ Kept(u, b, {"incidents", "caused"})
         /\ u.incidents \in Seq(Tickets)
<1> DEFINE q == SetToSeq(S)
           es == Fails(S)
<1>1. PICK n : Lists(q, n, S)
  BY ListOf
<1>2. DOMAIN es = 1..n /\ n \in Nat /\ \A k \in 1..n : es[k] = IncidentStarted(q[k])
  BY <1>1 DEF InOrder, Fails, Lists
<1> HIDE DEF q, es
<1>3. PICK f : IsRun(f, b, es, n) /\ Run(b, es) = f[n]
  BY <1>2, RunExists
<1> DEFINE K == {k \in 0..n : /\ Kept(f[k], b, {"incidents", "caused"})
                             /\ f[k].incidents \in Seq(Tickets)}
<1>4. 0 \in K
  BY <1>1, <1>2, <1>3 DEF IsRun, Kept, Lists
<1>5. ASSUME NEW k \in 1..n, k - 1 \in K PROVE k \in K
  <2>1. f[k] = Apply(f[k - 1], IncidentStarted(q[k]))
    BY <1>2, <1>3 DEF IsRun
  <2>2. /\ Kept(f[k - 1], b, {"incidents", "caused"})
        /\ f[k - 1].incidents \in Seq(Tickets)
    BY <1>5
  <2>3. /\ q[k] \in S /\ q[k] \notin FirstOf(q, k - 1)
        /\ FirstOf(q, k) = FirstOf(q, k - 1) \cup {q[k]}
    BY <1>1 DEF Lists
  <2>4. IsSim(f[k - 1])
    BY <2>2 DEF Kept
  <2>5. /\ Kept(f[k], f[k - 1], {"incidents", "caused"})
        /\ f[k].incidents = Append(f[k - 1].incidents, q[k])
    BY <2>1, <2>4, AfterIncident
  <2>6. f[k].incidents \in Seq(Tickets)
    BY <2>2, <2>3, <2>5
  <2>7. Kept(f[k], b, {"incidents", "caused"})
    BY <2>2, <2>5 DEF Kept
  <2> QED BY <2>6, <2>7
<1>6. n \in K
  <2> HIDE DEF K
  <2>1. n \in Nat /\ 0 \in K /\ \A k \in 1..n : k - 1 \in K => k \in K
    BY <1>2, <1>4, <1>5
  <2> QED BY <2>1, UpTo
<1> QED BY <1>1, <1>3, <1>6 DEF Lists, es

\* All of S are created, those of known triaged, none large.
LEMMA CreateAll ==
  ASSUME NEW b, IsSim(b), NEW S, IsFiniteSet(S), NEW known
  PROVE  LET u == Run(b, Creates(S, known)) IN
         /\ Kept(u, b, {"backlog", "triaged", "large"})
         /\ u.backlog = b.backlog \cup S
         /\ u.triaged = b.triaged \cup (known \cap S)
         /\ u.large = b.large
<1> DEFINE q == SetToSeq(S)
           es == Creates(S, known)
<1>1. PICK n : Lists(q, n, S)
  BY ListOf
<1>2. DOMAIN es = 1..n /\ n \in Nat /\ \A k \in 1..n : es[k] = TicketCreated(q[k], q[k] \in known, FALSE)
  BY <1>1 DEF InOrder, Creates, Lists
<1> HIDE DEF q, es
<1>3. PICK f : IsRun(f, b, es, n) /\ Run(b, es) = f[n]
  BY <1>2, RunExists
<1> DEFINE K == {k \in 0..n : /\ Kept(f[k], b, {"backlog", "triaged", "large"})
                             /\ f[k].backlog = b.backlog \cup FirstOf(q, k)
                             /\ f[k].triaged = b.triaged \cup (known \cap FirstOf(q, k))
                             /\ f[k].large = b.large}
<1>4. 0 \in K
  BY <1>1, <1>2, <1>3 DEF IsRun, Kept, Lists
<1>5. ASSUME NEW k \in 1..n, k - 1 \in K PROVE k \in K
  <2>1. f[k] = Apply(f[k - 1], TicketCreated(q[k], q[k] \in known, FALSE))
    BY <1>2, <1>3 DEF IsRun
  <2>2. /\ Kept(f[k - 1], b, {"backlog", "triaged", "large"})
        /\ f[k - 1].backlog = b.backlog \cup FirstOf(q, k - 1)
        /\ f[k - 1].triaged = b.triaged \cup (known \cap FirstOf(q, k - 1))
        /\ f[k - 1].large = b.large
    BY <1>5
  <2>3. /\ q[k] \in S /\ q[k] \notin FirstOf(q, k - 1)
        /\ FirstOf(q, k) = FirstOf(q, k - 1) \cup {q[k]}
    BY <1>1 DEF Lists
  <2>4. IsSim(f[k - 1])
    BY <2>2 DEF Kept
  <2>5. /\ Kept(f[k], f[k - 1], {"backlog", "triaged", "large"})
        /\ f[k].backlog = f[k - 1].backlog \cup {q[k]}
        /\ f[k].triaged = IF q[k] \in known THEN f[k - 1].triaged \cup {q[k]} ELSE f[k - 1].triaged
        /\ f[k].large = f[k - 1].large
    <3> HIDE DEF K
    <3> DEFINE v == f[k - 1]
               e == TicketCreated(q[k], q[k] \in known, FALSE)
    <3>1. IsSim(v)
      BY <2>4
    <3>3. /\ e.type = "TicketCreated" /\ e.ticket = q[k]
          /\ e.triaged <=> q[k] \in known
          /\ ~e.big
      BY DEF TicketCreated
    <3>4. f[k] = Apply(v, e)
      BY <2>1
    <3> HIDE DEF v, e
    <3>2. /\ Kept(Apply(v, e), v, {"backlog", "triaged", "large"})
          /\ Apply(v, e).backlog = v.backlog \cup {q[k]}
          /\ Apply(v, e).triaged = IF q[k] \in known THEN v.triaged \cup {q[k]} ELSE v.triaged
          /\ Apply(v, e).large = v.large
      <4>1. /\ Kept(Apply(v, e), v, {"backlog", "triaged", "large"})
            /\ Apply(v, e).backlog = v.backlog \cup {e.ticket}
            /\ Apply(v, e).triaged = IF e.triaged THEN v.triaged \cup {e.ticket} ELSE v.triaged
            /\ Apply(v, e).large = IF e.big THEN v.large \cup {e.ticket} ELSE v.large
        BY <3>1, <3>3, AfterTicketCreated
      <4> QED BY <3>3, <4>1
    <3> QED BY <3>2, <3>4 DEF v
  <2> QED BY <2>2, <2>3, <2>5 DEF Kept
<1>6. n \in K
  <2> HIDE DEF K
  <2>1. n \in Nat /\ 0 \in K /\ \A k \in 1..n : k - 1 \in K => k \in K
    BY <1>2, <1>4, <1>5
  <2> QED BY <2>1, UpTo
<1> QED BY <1>1, <1>3, <1>6 DEF Lists, es

\* The team joins, in order.
LEMMA JoinAll ==
  ASSUME NEW b, IsSim(b), b.team = <<>>, NEW T, NEW all \in Seq(T)
  PROVE  LET u == Run(b, Joins(all)) IN
         Kept(u, b, {"team"}) /\ u.team = all
<1> DEFINE n == Len(all)
           es == Joins(all)
<1>1. DOMAIN es = 1..n /\ n \in Nat /\ \A k \in 1..n : es[k] = DeveloperAdded(all[k])
  BY DEF Joins
<1> HIDE DEF es
<1>2. PICK f : IsRun(f, b, es, n) /\ Run(b, es) = f[n]
  BY <1>1, RunExists
<1> DEFINE K == {k \in 0..n : /\ Kept(f[k], b, {"team"})
                              /\ f[k].team \in Seq(T) /\ Len(f[k].team) = k
                              /\ \A i \in 1..k : f[k].team[i] = all[i]}
<1>3. 0 \in K
  <2>1. f[0] = b
    BY <1>2 DEF IsRun
  <2>2. Kept(b, b, {"team"}) /\ b.team \in Seq(T) /\ Len(b.team) = 0 /\ 0 \in 0..n
    BY <1>1 DEF Kept
  <2>3. \A i \in 1..0 : f[0].team[i] = all[i]
    OBVIOUS
  <2> QED BY <2>1, <2>2, <2>3
<1>4. ASSUME NEW k \in 1..n, k - 1 \in K PROVE k \in K
  <2>1. f[k] = Apply(f[k - 1], DeveloperAdded(all[k]))
    BY <1>1, <1>2 DEF IsRun
  <2>2. /\ Kept(f[k - 1], b, {"team"})
        /\ f[k - 1].team \in Seq(T) /\ Len(f[k - 1].team) = k - 1
        /\ \A i \in 1..(k - 1) : f[k - 1].team[i] = all[i]
    BY <1>4
  <2>3. Kept(f[k], f[k - 1], {"team"}) /\ f[k].team = Append(f[k - 1].team, all[k])
    BY <2>1, <2>2, AfterDeveloperAdded DEF Kept
  <2>4. all[k] \in T
    OBVIOUS
  <2>5. /\ f[k].team \in Seq(T) /\ Len(f[k].team) = k
        /\ \A i \in 1..k : f[k].team[i] = all[i]
    BY <2>2, <2>3, <2>4
  <2>6. Kept(f[k], b, {"team"})
    BY <2>2, <2>3 DEF Kept
  <2> QED BY <2>5, <2>6
<1>5. n \in K
  <2> HIDE DEF K
  <2> QED BY <1>1, <1>3, <1>4, UpTo
<1>6. f[n].team = all
  BY <1>5
<1> QED BY <1>2, <1>5, <1>6 DEF es

-----------------------------------------------------------------------------
(* The steps of Flow, by either name *)

\* Counting is the same under either name.
LEMMA SameCardinality == \A S : P!Cardinality(S) = Cardinality(S) /\ F!Cardinality(S) = Cardinality(S)
BY DEF P!Cardinality, F!Cardinality, Cardinality

\* And so is finiteness.
LEMMA SameFinite == \A S : (P!IsFiniteSet(S) <=> IsFiniteSet(S)) /\ (F!IsFiniteSet(S) <=> IsFiniteSet(S))
BY DEF P!IsFiniteSet, F!IsFiniteSet, IsFiniteSet

\* Starting a sprint is the same step under either name.
LEMMA SameStartSprint == P!StartSprint => F!StartSprint
BY DEF P!StartSprint, F!StartSprint, P!Bulk, F!Bulk, P!ticketVars, F!ticketVars, P!devVars,
       F!devVars, P!assetVars, F!assetVars, P!releaseVars, F!releaseVars, P!tickVars, F!tickVars

\* So is assigning a ticket,
LEMMA SameAssignTicket ==
  ASSUME NEW t, NEW d, P!AssignTicket(t, d)
  PROVE  F!AssignTicket(t, d)
BY DEF P!AssignTicket, F!AssignTicket, P!Idle, F!Idle, P!Position, F!Position, P!Members,
       F!Members, P!assetVars, F!assetVars, P!sprintVars, F!sprintVars, P!releaseVars,
       F!releaseVars, P!tickVars, F!tickVars

\* decomposing one,
LEMMA SameDecompose ==
  ASSUME NEW t, P!Decompose(t)
  PROVE  F!Decompose(t)
BY DEF P!Decompose, F!Decompose, P!Split, F!Split, P!ticketVars, F!ticketVars, P!devVars,
       F!devVars, P!assetVars, F!assetVars, P!sprintVars, F!sprintVars, P!releaseVars,
       F!releaseVars, P!tickVars, F!tickVars

\* investing,
LEMMA SameInvest ==
  ASSUME NEW o, P!Invest(o)
  PROVE  F!Invest(o)
BY DEF P!Invest, F!Invest, P!placeVars, F!placeVars, P!ticketVars, F!ticketVars,
       P!sprintVars, F!sprintVars, P!releaseVars, F!releaseVars, P!tickVars, F!tickVars

\* the beginning of a tick,
LEMMA SameBeginTick == P!BeginTick => F!BeginTick
BY DEF P!BeginTick, F!BeginTick, P!placeVars, F!placeVars, P!ticketVars, F!ticketVars,
       P!devVars, F!devVars, P!assetVars, F!assetVars, P!releaseVars, F!releaseVars

\* a worker's turn on a ticket,
LEMMA SameTurnOf ==
  ASSUME NEW d, NEW t, P!Progress(d, t) \/ P!Complete(d, t) \/ P!HandOff(d, t)
  PROVE  F!Progress(d, t) \/ F!Complete(d, t) \/ F!HandOff(d, t)
<1>1. \A p : P!ReleaseMentor(t, p) => F!ReleaseMentor(t, p)
  BY DEF P!ReleaseMentor, F!ReleaseMentor
<1>2. P!Progress(d, t) => F!Progress(d, t)
  BY DEF P!Progress, F!Progress, P!placeVars, F!placeVars, P!devVars, F!devVars
<1>3. P!Complete(d, t) => F!Complete(d, t)
  BY <1>1 DEF P!Complete, F!Complete, P!Done, F!Done
<1>4. P!HandOff(d, t) => F!HandOff(d, t)
  BY <1>1 DEF P!HandOff, F!HandOff, P!QueueAhead, F!QueueAhead, P!placeVars, F!placeVars
<1> QED BY <1>2, <1>3, <1>4

\* a day of work,
LEMMA SameWork == P!Work => F!Work
<1> DEFINE d == Head(todo)
           t == Whole.current[d]
<1>1. P!PassOver(d) => F!PassOver(d)
  BY DEF P!PassOver, F!PassOver, P!Idle, F!Idle, P!placeVars, F!placeVars, P!ticketVars,
         F!ticketVars, P!devVars, F!devVars
<1>2. P!Progress(d, t) \/ P!Complete(d, t) \/ P!HandOff(d, t)
      => F!Progress(d, t) \/ F!Complete(d, t) \/ F!HandOff(d, t)
  BY SameTurnOf
<1> QED BY <1>1, <1>2 DEF P!Work, F!Work, P!assetVars, F!assetVars, P!sprintVars,
           F!sprintVars, P!releaseVars, F!releaseVars

\* the controller,
LEMMA SameControl == P!Control => F!Control
<1>1. \A l : /\ P!Locks(l) <=> F!Locks(l)
             /\ P!TimesOut(l) <=> F!TimesOut(l)
             /\ P!Admits(l) <=> F!Admits(l)
  BY DEF P!Locks, F!Locks, P!TimesOut, F!TimesOut, P!Admits, F!Admits
<1> QED BY <1>1, SameCardinality DEF P!Control, F!Control, P!ticketVars, F!ticketVars, P!devVars, F!devVars,
           P!assetVars, F!assetVars, P!sprintVars, F!sprintVars

\* the order of the queues,
LEMMA SameTurn == \A n : P!Turn(n) = F!Turn(n)
BY DEF P!Turn, F!Turn, P!Rank, F!Rank, P!Phases, F!Phases

\* the cap of a phase,
LEMMA SameAtCap == \A p : P!AtCap(p) <=> F!AtCap(p)
<1>1. \A p : P!InFlight(p) = F!InFlight(p)
  BY DEF P!InFlight, F!InFlight
<1> QED BY <1>1, SameCardinality DEF P!AtCap, F!AtCap

\* the worker that is selected,
LEMMA SameSelectDev == \A t, p : P!SelectDev(t, p) = F!SelectDev(t, p)
BY DEF P!SelectDev, F!SelectDev, P!IsFresh, F!IsFresh, P!MayTake, F!MayTake, P!Available,
       F!Available, P!Idle, F!Idle, P!After, F!After, P!Least, F!Least

\* the mentor,
LEMMA SameSelectMentor == \A d, p : P!SelectMentor(d, p) = F!SelectMentor(d, p)
BY DEF P!SelectMentor, F!SelectMentor, P!Available, F!Available, P!Idle, F!Idle, P!Least, F!Least

\* what can be assigned,
LEMMA SameAssignable == \A p : P!Assignable(p) <=> F!Assignable(p)
BY SameAtCap, SameSelectDev DEF P!Assignable, F!Assignable

\* the assignment of a queue's head,
LEMMA SameAssignHead == P!AssignHead => F!AssignHead
BY SameTurn, SameAssignable, SameSelectDev, SameSelectMentor
   DEF P!AssignHead, F!AssignHead, P!Assign, F!Assign, P!Position, F!Position,
       P!placeVars, F!placeVars, P!assetVars, F!assetVars, P!sprintVars, F!sprintVars,
       P!releaseVars, F!releaseVars, P!tickVars, F!tickVars

\* passing on to the next queue,
LEMMA SameNextSlot == P!NextSlot => F!NextSlot
BY SameTurn, SameAssignable
   DEF P!NextSlot, F!NextSlot, P!placeVars, F!placeVars, P!ticketVars, F!ticketVars,
       P!devVars, F!devVars, P!assetVars, F!assetVars, P!sprintVars, F!sprintVars,
       P!releaseVars, F!releaseVars

\* and the end of a tick.
LEMMA SameEndTick == P!EndTick => F!EndTick
<1> SUFFICES ASSUME P!EndTick PROVE F!EndTick
  OBVIOUS
<1>1. PICK bugs \in SUBSET Whole.active, creeps \in SUBSET Whole.active :
        /\ noise' = noise + Cardinality(bugs) + Cardinality(creeps)
        /\ noise' <= MaxNoise
        /\ Whole.effort' = [t \in Tickets |-> Whole.effort[t] + (IF t \in bugs THEN 1 ELSE 0)
                                                   + (IF t \in creeps THEN 1 ELSE 0)]
        /\ \E grown \in SUBSET creeps : Whole.large' = Whole.large \cup grown
  BY SameCardinality DEF P!EndTick
<1>2. pc = "assign" /\ slot > NumPhases /\ Whole.sprint' = (Whole.sprint /\ ~F!SprintOver) /\ pc' = "idle" /\ slot' = 1
  BY DEF P!EndTick, P!SprintOver, F!SprintOver
<1> QED BY <1>1, <1>2, SameCardinality DEF P!EndTick, F!EndTick, P!placeVars, F!placeVars, P!devVars,
           F!devVars, P!assetVars, F!assetVars, P!releaseVars, F!releaseVars
-----------------------------------------------------------------------------
(* Workers and tickets between two events *)

\* What WorkersAgree says of a state.
Agree(s) ==
  \A d \in Devs : LET t == s.current[d] IN
    t # None => t \in s.active /\ s.assignedTo[t] = d

IsList(es) == es \in Seq(ToSet(es))

\* It holds now and after each of the events es.
Good(s, es) == \A k \in 0..Len(es) : Agree(Run(s, SubSeq(es, 1, k)))

\* An event that leaves workers and tickets alone.
IsQuiet(e) ==
  \A s : IsSim(s) => Kept(Apply(s, e), s, Fields \ {"active", "assignedTo", "current"})

\* A function on 1..n is a list of n entries.
LEMMA ListFun ==
  ASSUME NEW n \in Nat, NEW es, es = [i \in 1..n |-> es[i]]
  PROVE  IsList(es) /\ Len(es) = n
<1>1. ToSet(es) = {es[i] : i \in 1..n}
  BY DEF ToSet
<1>2. \A i \in 1..n : es[i] \in ToSet(es)
  BY <1>1
<1>3. es \in [1..n -> ToSet(es)]
  BY <1>2
<1> QED BY <1>3 DEF IsList

\* A sequence is a list.
LEMMA ListIs ==
  ASSUME NEW S, NEW z \in Seq(S)
  PROVE  IsList(z)
<1>1. Len(z) \in Nat /\ z = [i \in 1..Len(z) |-> z[i]]
  OBVIOUS
<1> QED BY <1>1, ListFun

\* The empty list is one.
LEMMA ListNone == IsList(<<>>) /\ Len(<<>>) = 0
BY DEF IsList

\* One event is a list.
LEMMA ListOne ==
  ASSUME NEW e
  PROVE  IsList(<<e>>) /\ Len(<<e>>) = 1
<1>1. <<e>> \in Seq({e}) /\ DOMAIN <<e>> = 1..1 /\ 1 \in 1..1 /\ <<e>>[1] = e
  OBVIOUS
<1>2. ToSet(<<e>>) = {e}
  BY <1>1 DEF ToSet
<1> QED BY <1>1, <1>2 DEF IsList

\* Two lists, one after the other.
LEMMA ListBoth ==
  ASSUME NEW x, NEW y, IsList(x), IsList(y)
  PROVE  /\ IsList(x \o y) /\ Len(x \o y) = Len(x) + Len(y)
         /\ \A b : Run(b, x \o y) = Run(Run(b, x), y)
<1> DEFINE S == ToSet(x) \cup ToSet(y)
           z == x \o y
           n == Len(x) + Len(y)
<1>1. x \in Seq(S) /\ y \in Seq(S)
  BY DEF IsList
<1>2. z \in Seq(S) /\ Len(z) = n /\ n \in Nat
  BY <1>1
<1>4. IsList(z)
  <2> HIDE DEF z, n
  <2> QED BY <1>2, ListIs
<1>5. \A b : Run(b, x \o y) = Run(Run(b, x), y)
  BY <1>1, RunBoth
<1> QED BY <1>2, <1>4, <1>5

\* The states of a run are those after the first events.
LEMMA RunFirst ==
  ASSUME NEW b, NEW es, IsList(es), NEW f, IsRun(f, b, es, Len(es)), NEW k \in 0..Len(es)
  PROVE  Run(b, SubSeq(es, 1, k)) = f[k]
<1> DEFINE s == SubSeq(es, 1, k)
           g == [j \in 0..k |-> f[j]]
<1>1. /\ es \in Seq(ToSet(es)) /\ Len(es) \in Nat /\ k \in Nat
      /\ DOMAIN s = 1..k /\ \A i \in 1..k : s[i] = es[i] /\ i \in 1..Len(es)
  BY DEF IsList
<1>2. IsRun(g, b, s, k)
  <2>1. g = [j \in 0..k |-> g[j]] /\ g[0] = b
    BY <1>1 DEF IsRun
  <2>2. ASSUME NEW i \in 1..k PROVE g[i] = Apply(g[i - 1], s[i])
    <3>1. i \in 0..k /\ i - 1 \in 0..k
      OBVIOUS
    <3>2. f[i] = Apply(f[i - 1], es[i]) /\ s[i] = es[i]
      BY <1>1 DEF IsRun
    <3> HIDE DEF s
    <3> QED BY <3>1, <3>2
  <2> HIDE DEF g, s
  <2> QED BY <2>1, <2>2 DEF IsRun
<1>3. g[k] = f[k]
  BY <1>1
<1> HIDE DEF g, s
<1>4. Run(b, s) = g[k]
  BY <1>1, <1>2, RunIs
<1> QED BY <1>3, <1>4 DEF s

\* No events are good where workers and tickets agree.
LEMMA GoodNone ==
  ASSUME NEW b
  PROVE  Good(b, <<>>) <=> Agree(b)
<1>1. Len(<<>>) = 0 /\ SubSeq(<<>>, 1, 0) = <<>> /\ 0..0 = {0}
  OBVIOUS
<1> QED BY <1>1, RunNone DEF Good

\* Good events stay so at their end, and when the first is over.
LEMMA GoodEnds ==
  ASSUME NEW b, NEW es, IsList(es), Good(b, es)
  PROVE  Agree(b) /\ Agree(Run(b, es))
<1>1. es \in Seq(ToSet(es)) /\ Len(es) \in Nat
  BY DEF IsList
<1>2. 0 \in 0..Len(es) /\ Len(es) \in 0..Len(es) /\ SubSeq(es, 1, 0) = <<>>
  BY <1>1
<1>3. SubSeq(es, 1, Len(es)) = es
  BY <1>1
<1> QED BY <1>2, <1>3, RunNone DEF Good

\* Good events after good events are good.
LEMMA GoodBoth ==
  ASSUME NEW b, NEW x, NEW y, IsList(x), IsList(y), Good(b, x), Good(Run(b, x), y)
  PROVE  Good(b, x \o y)
<1> DEFINE S == ToSet(x) \cup ToSet(y)
           n == Len(x)
           m == Len(y)
<1>1. /\ x \in Seq(S) /\ y \in Seq(S) /\ n \in Nat /\ m \in Nat
      /\ Len(x \o y) = n + m
  BY DEF IsList
<1>2. ASSUME NEW k \in 0..(n + m) PROVE Agree(Run(b, SubSeq(x \o y, 1, k)))
  <2>1. CASE k <= n
    <3>1. SubSeq(x \o y, 1, k) = SubSeq(x, 1, k) /\ k \in 0..n
      BY <1>1, <2>1
    <3> QED BY <3>1 DEF Good
  <2>2. CASE k > n
    <3>1. k - n \in 0..m
      BY <1>1, <2>2
    <3>2. SubSeq(x \o y, 1, k) = x \o SubSeq(y, 1, k - n)
      BY <1>1, <2>2
    <3>3. SubSeq(y, 1, k - n) \in Seq(S)
      BY <1>1, <3>1
    <3>4. Run(b, x \o SubSeq(y, 1, k - n)) = Run(Run(b, x), SubSeq(y, 1, k - n))
      <4> DEFINE z == SubSeq(y, 1, k - n)
      <4>1. z \in Seq(S)
        BY <3>3
      <4> HIDE DEF z, S
      <4>2. Run(b, x \o z) = Run(Run(b, x), z)
        BY <1>1, <4>1, RunBoth
      <4> QED BY <4>2 DEF z
    <3> QED BY <3>1, <3>2, <3>4 DEF Good
  <2> QED BY <1>1, <2>1, <2>2
<1> QED BY <1>1, <1>2 DEF Good

\* One event is good if workers and tickets agree before it and after.
LEMMA GoodOne ==
  ASSUME NEW b, NEW e, Agree(b), Agree(Apply(b, e))
  PROVE  Good(b, <<e>>)
<1>1. <<e>> \in Seq({e}) /\ Len(<<e>>) = 1 /\ 0..1 = {0, 1}
  OBVIOUS
<1>2. SubSeq(<<e>>, 1, 0) = <<>> /\ SubSeq(<<e>>, 1, 1) = <<e>>
  <2> DEFINE z == <<e>>
  <2>1. z \in Seq({e}) /\ Len(z) = 1
    BY <1>1
  <2> HIDE DEF z
  <2>2. SubSeq(z, 1, 0) = <<>> /\ SubSeq(z, 1, Len(z)) = z
    BY <2>1
  <2> QED BY <2>1, <2>2 DEF z
<1> QED BY <1>1, <1>2, RunNone, RunOne DEF Good

\* When the first is over the rest are good, and lead to the same state.
LEMMA GoodLater ==
  ASSUME NEW b, NEW es, IsList(es), es # <<>>, Good(b, es)
  PROVE  LET u == Apply(b, Head(es)) IN
         IsList(Tail(es)) /\ Good(u, Tail(es)) /\ Run(u, Tail(es)) = Run(b, es)
<1> DEFINE S == ToSet(es)
           y == Tail(es)
           u == Apply(b, Head(es))
<1>1. /\ es \in Seq(S) /\ Head(es) \in S /\ <<Head(es)>> \in Seq(S) /\ y \in Seq(S)
      /\ es = <<Head(es)>> \o y /\ Len(y) = Len(es) - 1 /\ Len(es) \in Nat /\ Len(y) \in Nat
  BY DEF IsList
<1>2. \A z \in Seq(S) : Run(b, <<Head(es)>> \o z) = Run(u, z)
  <2> DEFINE x == <<Head(es)>>
  <2>1. x \in Seq(S) /\ Run(b, x) = u
    BY <1>1, RunOne
  <2> HIDE DEF x, u, S
  <2>2. \A z \in Seq(S) : Run(b, x \o z) = Run(Run(b, x), z)
    BY <2>1, RunBoth
  <2> QED BY <2>1, <2>2 DEF x
<1>3. IsList(y)
  <2> HIDE DEF y, S
  <2> QED BY <1>1, ListIs
<1>4. ASSUME NEW k \in 0..Len(y) PROVE Agree(Run(u, SubSeq(y, 1, k)))
  <2>1. k + 1 \in 0..Len(es) /\ SubSeq(y, 1, k) \in Seq(S)
    BY <1>1
  <2>2. SubSeq(es, 1, k + 1) = <<Head(es)>> \o SubSeq(y, 1, k)
    BY <1>1
  <2>3. Run(b, SubSeq(es, 1, k + 1)) = Run(u, SubSeq(y, 1, k))
    BY <1>2, <2>1, <2>2
  <2> QED BY <2>1, <2>3 DEF Good
<1>5. Run(u, y) = Run(b, es)
  BY <1>1, <1>2
<1> HIDE DEF y, u
<1>6. Good(u, y)
  BY <1>4 DEF Good
<1> QED BY <1>3, <1>5, <1>6 DEF u, y

\* Quiet events are good ones.
LEMMA GoodQuiet ==
  ASSUME NEW b, IsSim(b), Agree(b), NEW es, IsList(es), \A i \in 1..Len(es) : IsQuiet(es[i])
  PROVE  Good(b, es)
<1> DEFINE n == Len(es)
<1>1. n \in Nat /\ DOMAIN es = 1..n
  BY DEF IsList
<1>2. PICK f : IsRun(f, b, es, n)
  BY <1>1, RunExists
<1> DEFINE Fs == Fields \ {"active", "assignedTo", "current"}
           K == {k \in 0..n : Kept(f[k], b, Fs)}
<1>3. 0 \in K
  BY <1>1, <1>2 DEF IsRun, Kept
<1>4. ASSUME NEW k \in 1..n, k - 1 \in K PROVE k \in K
  <2>1. f[k] = Apply(f[k - 1], es[k])
    BY <1>2 DEF IsRun
  <2>2. Kept(f[k - 1], b, Fs)
    BY <1>4
  <2>3. Kept(f[k], f[k - 1], Fs)
    BY <2>1, <2>2 DEF IsQuiet, Kept
  <2>4. Kept(f[k], b, Fs)
    BY <2>2, <2>3 DEF Kept
  <2> QED BY <2>4
<1>5. \A k \in 0..n : k \in K
  <2> HIDE DEF K
  <2>1. n \in Nat /\ 0 \in K /\ \A k \in 1..n : k - 1 \in K => k \in K
    BY <1>1, <1>3, <1>4
  <2> QED BY <2>1, UpTo
<1>6. \A k \in 0..n : Kept(f[k], b, Fs)
  BY <1>5
<1>7. \A k \in 0..n : Agree(f[k])
  <2> TAKE k \in 0..n
  <2>1. /\ f[k].active = b.active /\ f[k].assignedTo = b.assignedTo
        /\ f[k].current = b.current
    BY <1>6 DEF Kept, Fields
  <2> QED BY <2>1 DEF Agree
<1>8. \A k \in 0..n : Run(b, SubSeq(es, 1, k)) = f[k]
  BY <1>2, RunFirst
<1> QED BY <1>7, <1>8 DEF Good

\* A list of events that leave workers and tickets alone.
Quietly(es) == IsList(es) /\ \A i \in 1..Len(es) : IsQuiet(es[i])

\* An event is quiet if what it changes is neither active, assignedTo nor current.
LEMMA QuietIs ==
  ASSUME NEW e, NEW Fs, "active" \notin Fs, "assignedTo" \notin Fs, "current" \notin Fs,
         \A s : IsSim(s) => Kept(Apply(s, e), s, Fs)
  PROVE  IsQuiet(e)
<1> SUFFICES ASSUME NEW s, IsSim(s)
             PROVE  Kept(Apply(s, e), s, Fields \ {"active", "assignedTo", "current"})
  BY DEF IsQuiet
<1> DEFINE u == Apply(s, e)
<1>1. Kept(u, s, Fs)
  OBVIOUS
<1>2. \A f \in {"active", "assignedTo", "current"} : f \in Fields \ Fs
  BY DEF Fields
<1> HIDE DEF u
<1>3. Kept(u, s, Fields \ {"active", "assignedTo", "current"})
  BY <1>1, <1>2 DEF Kept
<1> QED BY <1>3 DEF u

\* The events that are quiet.
LEMMA QuietEvents ==
  /\ IsQuiet(Ticked) /\ IsQuiet(SprintEnded) /\ IsQuiet(WarmupExited) /\ IsQuiet(WarmupTimedOut)
  /\ \A n, l : IsQuiet(SprintStarted(n, l))
  /\ \A t : /\ IsQuiet(TicketTriaged(t)) /\ IsQuiet(TicketCommitted(t)) /\ IsQuiet(WorkProgressed(t))
            /\ IsQuiet(TicketDecomposed(t)) /\ IsQuiet(BugDiscovered(t))
            /\ IsQuiet(IncidentStarted(t)) /\ IsQuiet(IncidentResolved(t))
  /\ \A m, t, p : IsQuiet(MentorPaired(m, t, p)) /\ IsQuiet(MentorReleased(m, t, p))
  /\ \A o : IsQuiet(InvestmentApplied(o))
  /\ \A e : e.type = "ScopeCreepOccurred" => IsQuiet(e)
<1>1. IsQuiet(Ticked)
  <2>1. \A s : IsSim(s) => Kept(Apply(s, Ticked), s, {"left"})
    BY AfterTicked
  <2> QED BY <2>1, QuietIs
<1>2. IsQuiet(SprintEnded)
  <2>1. \A s : IsSim(s) => Kept(Apply(s, SprintEnded), s, {"sprint"})
    BY AfterSprintEnded
  <2> QED BY <2>1, QuietIs
<1>3. IsQuiet(WarmupExited)
  <2>1. \A s : IsSim(s) => Kept(Apply(s, WarmupExited), s, {"warmup"})
    BY AfterExited
  <2> QED BY <2>1, QuietIs
<1>4. IsQuiet(WarmupTimedOut)
  <2>1. \A s : IsSim(s) => Kept(Apply(s, WarmupTimedOut), s, {"failed"})
    BY AfterTimedOut
  <2> QED BY <2>1, QuietIs
<1>5. \A n, l : IsQuiet(SprintStarted(n, l))
  <2> TAKE n, l
  <2>1. \A s : IsSim(s) => Kept(Apply(s, SprintStarted(n, l)), s, {"sprint", "left", "number"})
    BY AfterSprintStarted
  <2> QED BY <2>1, QuietIs
<1>6. \A t : IsQuiet(TicketTriaged(t))
  <2> TAKE t
  <2>1. \A s : IsSim(s) => Kept(Apply(s, TicketTriaged(t)), s, {"triaged"})
    BY AfterTriaged
  <2> QED BY <2>1, QuietIs
<1>7. \A t : IsQuiet(TicketCommitted(t))
  <2> TAKE t
  <2>1. \A s : IsSim(s) => Kept(Apply(s, TicketCommitted(t)), s, {"backlog", "triaged", "committed"})
    <3> TAKE s
    <3>1. CASE t \in s.backlog
      BY <3>1, AfterCommitted
    <3>2. CASE t \notin s.backlog
      <4>1. Apply(s, TicketCommitted(t)) = s
        BY <3>2 DEF Apply, TicketCommitted, OnTicketCommitted
      <4> QED BY <4>1 DEF Kept
    <3> QED BY <3>1, <3>2
  <2> QED BY <2>1, QuietIs
<1>8. \A t : IsQuiet(WorkProgressed(t))
  <2> TAKE t
  <2>1. \A s : IsSim(s) => Kept(Apply(s, WorkProgressed(t)), s, {"effort"})
    BY AfterProgressed
  <2> QED BY <2>1, QuietIs
<1>9. \A t : IsQuiet(TicketDecomposed(t))
  <2> TAKE t
  <2>1. \A s : IsSim(s) => Kept(Apply(s, TicketDecomposed(t)), s, {"backlog", "triaged"})
    BY AfterDecomposed
  <2> QED BY <2>1, QuietIs
<1>10. \A t : IsQuiet(BugDiscovered(t))
  <2> TAKE t
  <2>1. \A s : IsSim(s) => Kept(Apply(s, BugDiscovered(t)), s, {"effort"})
    BY AfterBug
  <2> QED BY <2>1, QuietIs
<1>11. \A t : IsQuiet(IncidentStarted(t))
  <2> TAKE t
  <2>1. \A s : IsSim(s) => Kept(Apply(s, IncidentStarted(t)), s, {"incidents", "caused"})
    BY AfterIncident
  <2> QED BY <2>1, QuietIs
<1>12. \A t : IsQuiet(IncidentResolved(t))
  <2> TAKE t
  <2>1. \A s : IsSim(s) => Kept(Apply(s, IncidentResolved(t)), s, {"incidents"})
    BY AfterResolved
  <2> QED BY <2>1, QuietIs
<1>13. \A m, t, p : IsQuiet(MentorPaired(m, t, p))
  <2> TAKE m, t, p
  <2>1. MentorPaired(m, t, p).type = "MentorPaired"
    BY DEF MentorPaired
  <2>2. \A s : IsSim(s) => Kept(Apply(s, MentorPaired(m, t, p)), s,
                                {"mentorIndex", "ticketMentors", "contributors"})
    BY <2>1, AfterPaired
  <2> QED BY <2>2, QuietIs
<1>14. \A m, t, p : IsQuiet(MentorReleased(m, t, p))
  <2> TAKE m, t, p
  <2>1. MentorReleased(m, t, p).type = "MentorReleased"
    BY DEF MentorReleased
  <2>2. \A s : IsSim(s) => Kept(Apply(s, MentorReleased(m, t, p)), s, {"mentorIndex", "ticketMentors"})
    BY <2>1, AfterMentorReleased
  <2> QED BY <2>2, QuietIs
<1>15. \A o : IsQuiet(InvestmentApplied(o))
  <2> TAKE o
  <2>1. \A s : IsSim(s) => Kept(Apply(s, InvestmentApplied(o)), s, {"budget", "hired", "team", "slots"})
    BY AfterInvestment
  <2> QED BY <2>1, QuietIs
<1>16. \A e : e.type = "ScopeCreepOccurred" => IsQuiet(e)
  <2> SUFFICES ASSUME NEW e, e.type = "ScopeCreepOccurred" PROVE IsQuiet(e)
    OBVIOUS
  <2>1. \A s : IsSim(s) => Kept(Apply(s, e), s, {"effort", "large"})
    BY AfterCreep
  <2> QED BY <2>1, QuietIs
<1> QED BY <1>1, <1>2, <1>3, <1>4, <1>5, <1>6, <1>7, <1>8, <1>9, <1>10, <1>11, <1>12, <1>13,
           <1>14, <1>15, <1>16

\* No events are quiet,
LEMMA QuietNone == Quietly(<<>>)
BY ListNone DEF Quietly

\* a quiet event is,
LEMMA QuietOne ==
  ASSUME NEW e, IsQuiet(e)
  PROVE  Quietly(<<e>>)
<1>1. \A i \in 1..1 : <<e>>[i] = e
  OBVIOUS
<1> QED BY <1>1, ListOne DEF Quietly

\* and so are quiet events after quiet events.
LEMMA QuietBoth ==
  ASSUME NEW x, NEW y, Quietly(x), Quietly(y)
  PROVE  Quietly(x \o y)
<1> DEFINE S == ToSet(x) \cup ToSet(y)
<1>1. x \in Seq(S) /\ y \in Seq(S) /\ IsList(x \o y)
  BY ListBoth DEF Quietly, IsList
<1>2. ASSUME NEW i \in 1..Len(x \o y) PROVE IsQuiet((x \o y)[i])
  <2>1. CASE i <= Len(x)
    <3>1. (x \o y)[i] = x[i] /\ i \in 1..Len(x)
      BY <1>1, <2>1
    <3> QED BY <3>1 DEF Quietly
  <2>2. CASE i > Len(x)
    <3>1. (x \o y)[i] = y[i - Len(x)] /\ i - Len(x) \in 1..Len(y)
      BY <1>1, <2>2
    <3> QED BY <3>1 DEF Quietly
  <2> QED BY <1>1, <2>1, <2>2
<1> QED BY <1>1, <1>2 DEF Quietly

\* Triage is quiet,
LEMMA TriageQuiet ==
  ASSUME NEW S, IsFiniteSet(S)
  PROVE  Quietly(Triages(S))
<1> DEFINE q == SetToSeq(S)
           es == Triages(S)
<1>1. PICK n : Lists(q, n, S)
  BY ListOf
<1>2. n \in Nat /\ es = [i \in 1..n |-> es[i]] /\ \A k \in 1..n : es[k] = TicketTriaged(q[k])
  BY <1>1 DEF InOrder, Triages, Lists
<1> HIDE DEF es
<1>3. IsList(es) /\ Len(es) = n
  BY <1>2, ListFun
<1> QED BY <1>2, <1>3, QuietEvents DEF Quietly, es

\* and so are commitment,
LEMMA CommitQuiet ==
  ASSUME NEW S, IsFiniteSet(S)
  PROVE  Quietly(Commits(S))
<1> DEFINE q == SetToSeq(S)
           es == Commits(S)
<1>1. PICK n : Lists(q, n, S)
  BY ListOf
<1>2. n \in Nat /\ es = [i \in 1..n |-> es[i]] /\ \A k \in 1..n : es[k] = TicketCommitted(q[k])
  BY <1>1 DEF InOrder, Commits, Lists
<1> HIDE DEF es
<1>3. IsList(es) /\ Len(es) = n
  BY <1>2, ListFun
<1> QED BY <1>2, <1>3, QuietEvents DEF Quietly, es

\* bugs,
LEMMA BugQuiet ==
  ASSUME NEW S, IsFiniteSet(S)
  PROVE  Quietly(Bugs(S))
<1> DEFINE q == SetToSeq(S)
           es == Bugs(S)
<1>1. PICK n : Lists(q, n, S)
  BY ListOf
<1>2. n \in Nat /\ es = [i \in 1..n |-> es[i]] /\ \A k \in 1..n : es[k] = BugDiscovered(q[k])
  BY <1>1 DEF InOrder, Bugs, Lists
<1> HIDE DEF es
<1>3. IsList(es) /\ Len(es) = n
  BY <1>2, ListFun
<1> QED BY <1>2, <1>3, QuietEvents DEF Quietly, es

\* resolutions,
LEMMA FixQuiet ==
  ASSUME NEW S, IsFiniteSet(S)
  PROVE  Quietly(Fixes(S))
<1> DEFINE q == SetToSeq(S)
           es == Fixes(S)
<1>1. PICK n : Lists(q, n, S)
  BY ListOf
<1>2. n \in Nat /\ es = [i \in 1..n |-> es[i]] /\ \A k \in 1..n : es[k] = IncidentResolved(q[k])
  BY <1>1 DEF InOrder, Fixes, Lists
<1> HIDE DEF es
<1>3. IsList(es) /\ Len(es) = n
  BY <1>2, ListFun
<1> QED BY <1>2, <1>3, QuietEvents DEF Quietly, es

\* incidents
LEMMA FailQuiet ==
  ASSUME NEW S, IsFiniteSet(S)
  PROVE  Quietly(Fails(S))
<1> DEFINE q == SetToSeq(S)
           es == Fails(S)
<1>1. PICK n : Lists(q, n, S)
  BY ListOf
<1>2. n \in Nat /\ es = [i \in 1..n |-> es[i]] /\ \A k \in 1..n : es[k] = IncidentStarted(q[k])
  BY <1>1 DEF InOrder, Fails, Lists
<1> HIDE DEF es
<1>3. IsList(es) /\ Len(es) = n
  BY <1>2, ListFun
<1> QED BY <1>2, <1>3, QuietEvents DEF Quietly, es

\* and scope creep.
LEMMA CreepQuiet ==
  ASSUME NEW S, IsFiniteSet(S), NEW grown
  PROVE  Quietly(Creeps(S, grown))
<1> DEFINE q == SetToSeq(S)
           es == Creeps(S, grown)
<1>1. PICK n : Lists(q, n, S)
  BY ListOf
<1>2. n \in Nat /\ es = [i \in 1..n |-> es[i]] /\ \A k \in 1..n : es[k].type = "ScopeCreepOccurred"
  BY <1>1 DEF InOrder, Creeps, Lists, ScopeCreepOccurred
<1> HIDE DEF es
<1>3. IsList(es) /\ Len(es) = n
  BY <1>2, ListFun
<1> QED BY <1>2, <1>3, QuietEvents DEF Quietly, es
-----------------------------------------------------------------------------
(* The inductive invariant *)

\* Beside Flow's invariant of what a step will have done: what is counted
\* twice, and what readers of the events still to come will find.
RInv ==
  /\ P!IInv
  /\ IsSim(Whole) /\ IsList(plan) /\ Good(sim, plan)
  /\ Whole.hired = Len(Whole.team) - Len(Team0)
  /\ Whole.incidents \in Seq(Tickets)

\* What is assumed of the constants is assumed under either name.
LEMMA SameAssumption == P!FlowAssumption
BY ReplayAssumption, SameFinite
   DEF F!FlowAssumption, P!FlowAssumption, F!Members, P!Members, F!Split, P!Split,
       F!Offspring, P!Offspring, F!Options, P!Options, F!Phases, P!Phases

\* Every set of tickets is finite.
LEMMA FiniteTickets == \A S : S \subseteq Tickets => IsFiniteSet(S)
<1>1. IsFiniteSet(Tickets)
  BY ReplayAssumption, SameFinite DEF F!FlowAssumption
<1> QED BY <1>1, FS_Subset

\* A simulation starts where Flow does.
LEMMA InitMaps ==
  ASSUME Init
  PROVE  /\ P!Init /\ F!Init /\ IsSim(Whole) /\ IsList(plan) /\ Good(sim, plan)
         /\ Whole.hired = Len(Whole.team) - Len(Team0)
         /\ Whole.incidents \in Seq(Tickets)
<1>1. PICK triaged0 \in SUBSET (Tickets \ Offspring) :
        sim = [FoldLeft(Apply, Blank, SetUp(triaged0)) EXCEPT !.large = Large]
  BY DEF Init
<1> DEFINE S == Tickets \ Offspring
           e0 == SimulationCreated(Demand)
           joins == Joins(Team0)
           news == Creates(S, triaged0)
           s0 == Apply(Blank, e0)
           s1 == Run(s0, joins)
           s2 == Run(s1, news)
<1>2. IsFiniteSet(S)
  BY FiniteTickets
<1>3. /\ IsSim(s0) /\ s0 = OnSimulationCreated(e0)
  BY DEF Apply, SimulationCreated, OnSimulationCreated, IsSim, Fields
<1>4. Team0 \in Seq(Devs)
  BY ReplayAssumption DEF F!FlowAssumption
<1>5. IsList(joins)
  <2>1. Len(Team0) \in Nat /\ joins = [i \in 1..Len(Team0) |-> joins[i]]
    BY <1>4 DEF Joins
  <2> HIDE DEF joins
  <2> QED BY <2>1, ListFun
<1>7. IsList(news)
  <2>1. PICK n : Lists(SetToSeq(S), n, S)
    BY <1>2, ListOf
  <2>2. n \in Nat /\ news = [i \in 1..n |-> news[i]]
    BY <2>1 DEF Creates, InOrder, Lists
  <2> HIDE DEF news
  <2> QED BY <2>2, ListFun
<1>8. FoldLeft(Apply, Blank, SetUp(triaged0)) = s2
  <2>1. SetUp(triaged0) = (<<e0>> \o joins) \o news
    BY DEF SetUp, Joins, Creates
  <2>2. IsList(<<e0>>) /\ Run(Blank, <<e0>>) = s0
    BY ListOne, RunOne
  <2> DEFINE x == <<e0>>
  <2> HIDE DEF s0, x, joins, news
  <2>3. IsList(x \o joins) /\ Run(Blank, x \o joins) = s1
    BY <1>5, <2>2, ListBoth DEF x
  <2>4. Run(Blank, (x \o joins) \o news) = s2
    BY <1>7, <2>3, ListBoth
  <2> QED BY <2>1, <2>4 DEF Run, x
<1>9. s0.team = <<>>
  BY <1>3 DEF OnSimulationCreated
<1> HIDE DEF s0
<1>10. Kept(s1, s0, {"team"}) /\ s1.team = Team0
  BY <1>3, <1>4, <1>9, JoinAll
<1> HIDE DEF s1, S
<1>11. /\ Kept(s2, s1, {"backlog", "triaged", "large"})
       /\ s2.backlog = s1.backlog \cup S
       /\ s2.triaged = s1.triaged \cup (triaged0 \cap S)
  <2>1. IsSim(s1)
    BY <1>10 DEF Kept
  <2> QED BY <1>2, <2>1, CreateAll
<1> HIDE DEF s2
<1>12. Whole = sim /\ plan = <<>>
  BY RunNone DEF Init, Whole, Run
<1>13. /\ IsSim(sim) /\ sim.large = Large
       /\ \A f \in Fields \ {"large"} : sim[f] = s2[f]
  BY <1>1, <1>8, <1>11 DEF Kept, IsSim, Fields
<1>14. /\ \A f \in Fields \ {"backlog", "triaged", "large", "team"} : sim[f] = s0[f]
       /\ sim.team = Team0 /\ sim.backlog = S /\ sim.triaged = triaged0
  <2>1. \A f \in Fields \ {"backlog", "triaged", "large", "team"} : sim[f] = s0[f]
    BY <1>10, <1>11, <1>13 DEF Kept
  <2>2. sim.team = Team0
    BY <1>10, <1>11, <1>13 DEF Kept, Fields
  <2>3. s1.backlog = {} /\ s1.triaged = {}
    BY <1>3, <1>10 DEF Kept, Fields, OnSimulationCreated
  <2>4. sim.backlog = S /\ sim.triaged = triaged0 \cap S
    BY <1>11, <1>13, <2>3 DEF Fields
  <2> QED BY <2>1, <2>2, <2>4 DEF S
<1>15. /\ sim.committed = {} /\ sim.active = {} /\ sim.completed = {}
       /\ sim.phase = [t \in Tickets |-> 0] /\ sim.effort = [t \in Tickets |-> 0]
       /\ sim.assignedTo = [t \in Tickets |-> None]
       /\ sim.contributors = [t \in Tickets |-> {}]
       /\ sim.queue = [p \in Phases |-> <<>>]
       /\ sim.current = [d \in Devs |-> None] /\ sim.mentorIndex = [d \in Devs |-> None]
       /\ sim.ticketMentors = [t \in Tickets |-> [p \in Phases |-> None]]
       /\ sim.cursor = 1 /\ sim.slots = Slots0 /\ sim.budget = Budget0
       /\ sim.sprint = FALSE /\ sim.number = 0 /\ sim.left = 0
       /\ sim.warmup = Demand /\ sim.failed = FALSE
       /\ sim.hired = 0 /\ sim.incidents = <<>>
  <2>1. \A f \in Fields \ {"backlog", "triaged", "large", "team"} : sim[f] = OnSimulationCreated(e0)[f]
    BY <1>3, <1>14
  <2> QED BY <2>1 DEF OnSimulationCreated, SimulationCreated, Fields
<1>16. P!Init
  BY <1>12, <1>13, <1>14, <1>15
     DEF Init, P!Init, S, Offspring, P!Offspring, P!Split, Phases, P!Phases
<1>17. F!Init
  BY <1>12, <1>13, <1>14, <1>15
     DEF Init, F!Init, S, Offspring, F!Offspring, F!Split, Phases, F!Phases
<1>18. Good(sim, plan)
  BY <1>12, <1>15, GoodNone DEF Agree
<1>19. Whole.hired = Len(Whole.team) - Len(Team0)
  BY <1>4, <1>12, <1>14, <1>15
<1> QED BY <1>12, <1>13, <1>15, <1>16, <1>17, <1>18, <1>19, ListNone

\* When a step decides, everything has been emitted.
LEMMA WholeNow ==
  ASSUME RInv, plan = <<>>
  PROVE  Whole = sim /\ IsSim(sim) /\ Agree(sim)
<1>1. Whole = sim
  BY RunNone DEF Whole, Run
<1> QED BY <1>1, GoodNone DEF RInv

\* What is to come after a step that only plans is what its plan leads to.
LEMMA WholeThen ==
  ASSUME sim' = sim
  PROVE  Whole' = Run(sim, plan')
BY DEF Whole, Run

\* What a step of a command leaves for the rest of the invariant.
Rest ==
  /\ IsSim(Whole) /\ IsList(plan) /\ Good(sim, plan)
  /\ Whole.hired = Len(Whole.team) - Len(Team0)
  /\ Whole.incidents \in Seq(Tickets)

\* Events that change neither team nor incidents, and leave workers and tickets
\* in agreement, keep all that.
LEMMA RestGood ==
  ASSUME RInv, plan = <<>>, sim' = sim, IsList(plan'), Good(sim, plan'),
         NEW Fs, Kept(Whole', sim, Fs),
         "hired" \notin Fs, "team" \notin Fs, "incidents" \notin Fs
  PROVE  Rest'
<1>1. Whole = sim
  BY WholeNow
<1>2. /\ Whole'.hired = sim.hired /\ Whole'.team = sim.team
      /\ Whole'.incidents = sim.incidents
  BY DEF Kept, Fields
<1>3. sim.hired = Len(sim.team) - Len(Team0) /\ sim.incidents \in Seq(Tickets)
  BY <1>1 DEF RInv
<1> QED BY <1>2, <1>3 DEF Rest, Kept

\* Quiet events do.
LEMMA RestQuiet ==
  ASSUME RInv, plan = <<>>, sim' = sim, Quietly(plan'), NEW Fs, Kept(Whole', sim, Fs),
         "hired" \notin Fs, "team" \notin Fs, "incidents" \notin Fs
  PROVE  Rest'
<1>1. Whole = sim /\ IsSim(sim) /\ Agree(sim)
  BY WholeNow
<1>2. Good(sim, plan')
  BY <1>1, GoodQuiet DEF Quietly
<1> QED BY <1>2, RestGood DEF Quietly

\* What two steps keep, their sequence keeps.
LEMMA KeptBoth ==
  ASSUME NEW s, NEW u, NEW v, NEW A, NEW B, Kept(u, s, A), Kept(v, u, B)
  PROVE  Kept(v, s, A \cup B)
BY DEF Kept

-----------------------------------------------------------------------------
(* Every step that decides is a step of Flow *)

\* Starting a sprint is Flow's step,
LEMMA StartSprintMaps ==
  ASSUME RInv, StartSprint
  PROVE  P!StartSprint /\ Rest'
<1>1. PICK C \in SUBSET sim.backlog :
        /\ ~F!Bulk => C = {}
        /\ Decide((<<SprintStarted(sim.number + 1, SprintLength)>>
                   \o Triages(sim.backlog \ sim.triaged)) \o Commits(C))
  BY DEF StartSprint, Triages, Commits
<1> DEFINE e == SprintStarted(sim.number + 1, SprintLength)
           B == sim.backlog \ sim.triaged
           u1 == Apply(sim, e)
           u2 == Run(u1, Triages(B))
           u3 == Run(u2, Commits(C))
<1>2. /\ plan = <<>> /\ sim' = sim /\ plan' = (<<e>> \o Triages(B)) \o Commits(C)
      /\ Whole = sim /\ IsSim(sim)
  BY <1>1, WholeNow DEF Decide
<1>3. /\ P!TypeOK /\ sim.triaged \subseteq sim.backlog /\ sim.backlog \subseteq Tickets
      /\ sim.number \in 0..WarmupLimit /\ WarmupLimit \in Nat
  BY <1>2, ReplayAssumption DEF RInv, P!IInv, P!TypeOK, P!Apart, F!FlowAssumption
<1>4. IsFiniteSet(B) /\ IsFiniteSet(C)
  BY <1>3, FiniteTickets
<1>5. Quietly(<<e>>) /\ Quietly(Triages(B)) /\ Quietly(Commits(C))
  BY <1>4, QuietEvents, QuietOne, TriageQuiet, CommitQuiet
<1>6. Quietly(<<e>> \o Triages(B)) /\ Quietly(plan')
  BY <1>2, <1>5, QuietBoth
<1>7. Whole' = u3
  <2> DEFINE x == <<e>>
             y == Triages(B)
             z == Commits(C)
  <2>1. /\ IsList(x) /\ IsList(y) /\ IsList(z) /\ Run(sim, x) = u1
    BY <1>5, RunOne DEF Quietly
  <2> HIDE DEF x, y, z
  <2>2. IsList(x \o y) /\ Run(sim, x \o y) = Run(Run(sim, x), y)
    BY <2>1, ListBoth
  <2>3. Run(sim, (x \o y) \o z) = Run(Run(sim, x \o y), z)
    BY <2>1, <2>2, ListBoth
  <2> QED BY <1>2, <2>1, <2>2, <2>3, WholeThen DEF x, y, z
<1>8. /\ Kept(u1, sim, {"sprint", "left", "number"})
      /\ u1.sprint = TRUE /\ u1.left = SprintLength
      /\ u1.number = IF sim.number + 1 < WarmupLimit THEN sim.number + 1 ELSE WarmupLimit
  BY <1>2, AfterSprintStarted
<1> HIDE DEF u1
<1>9. IsSim(u1) /\ u1.backlog = sim.backlog /\ u1.triaged = sim.triaged /\ u1.committed = sim.committed
  BY <1>8 DEF Kept, Fields
<1>10. Kept(u2, u1, {"triaged"}) /\ u2.triaged = sim.triaged \cup B
  BY <1>4, <1>9, TriageAll
<1> HIDE DEF u2
<1>11. IsSim(u2) /\ u2.backlog = sim.backlog /\ u2.committed = sim.committed
  BY <1>9, <1>10 DEF Kept, Fields
<1>12. /\ Kept(u3, u2, {"backlog", "triaged", "committed"})
       /\ u3.backlog = sim.backlog \ C /\ u3.triaged = u2.triaged \ C
       /\ u3.committed = sim.committed \cup C
  BY <1>4, <1>11, CommitAll
<1> HIDE DEF u3
<1> DEFINE Fs == ({"sprint", "left", "number"} \cup {"triaged"})
                 \cup {"backlog", "triaged", "committed"}
<1>13. Kept(Whole', sim, Fs)
  BY <1>7, <1>8, <1>10, <1>12, KeptBoth
<1>14. /\ Whole'.sprint = TRUE /\ Whole'.left = SprintLength
       /\ Whole'.number = IF sim.number < WarmupLimit THEN sim.number + 1 ELSE sim.number
  BY <1>3, <1>7, <1>8, <1>10, <1>12 DEF Kept, Fields
<1>15. /\ Whole'.backlog = sim.backlog \ C /\ Whole'.committed = sim.committed \cup C
       /\ Whole'.triaged = Whole'.backlog
  BY <1>3, <1>7, <1>10, <1>12
<1>16. Rest'
  BY <1>2, <1>6, <1>13, RestQuiet
<1>17. UNCHANGED <<P!ticketVars, P!devVars, P!assetVars, P!releaseVars, P!tickVars, noise>>
  BY <1>2, <1>13 DEF StartSprint, Unticked, Kept, Fields, P!ticketVars, P!devVars, P!assetVars,
                     P!releaseVars, P!tickVars
<1>18. UNCHANGED <<Whole.active, Whole.completed, Whole.large, Whole.queue>>
  BY <1>2, <1>13 DEF Kept, Fields
<1>19. pc = "idle" /\ ~Whole.sprint
  BY <1>2 DEF StartSprint
<1>20. ~P!Bulk => C = {}
  BY <1>1 DEF F!Bulk, P!Bulk
<1>21. P!StartSprint
  BY <1>2, <1>14, <1>15, <1>17, <1>18, <1>19, <1>20 DEF P!StartSprint
<1> QED BY <1>16, <1>21

\* A plan of one event.
LEMMA WholeOne ==
  ASSUME RInv, NEW e, Decide(<<e>>)
  PROVE  /\ plan = <<>> /\ sim' = sim /\ plan' = <<e>> /\ IsList(plan')
         /\ Whole = sim /\ Whole' = Apply(sim, e) /\ IsSim(sim) /\ Agree(sim)
<1>1. plan = <<>> /\ sim' = sim /\ plan' = <<e>>
  BY DEF Decide
<1> QED BY <1>1, WholeNow, WholeThen, RunOne, ListOne

\* and so is an assignment by hand,
LEMMA AssignTicketMaps ==
  ASSUME RInv, NEW t \in Tickets, NEW d \in Devs, AssignTicket(t, d)
  PROVE  P!AssignTicket(t, d) /\ Rest'
<1>1. PICK n \in 1..MaxEffort : Decide(<<TicketAssigned(t, d, 1, n)>>)
  BY DEF AssignTicket
<1> DEFINE e == TicketAssigned(t, d, 1, n)
           u == Apply(sim, e)
           Fs == {"backlog", "triaged", "committed", "active", "phase", "assignedTo", "effort",
                  "queue", "current", "cursor"}
<1>2. /\ plan = <<>> /\ sim' = sim /\ plan' = <<e>> /\ IsList(plan')
      /\ Whole = sim /\ Whole' = u /\ IsSim(sim) /\ Agree(sim)
  BY <1>1, WholeOne
<1>3. /\ pc = "idle" /\ t \in sim.backlog \cup sim.committed
      /\ d \in ToSet(sim.team) /\ sim.current[d] = None
  BY DEF AssignTicket
<1>4. /\ t \notin sim.active /\ sim.current \in [Devs -> Tickets \cup {None}]
      /\ sim.queue \in [Phases -> Seq(Tickets)]
      /\ sim.assignedTo \in [Tickets -> Devs \cup {None}]
  BY <1>2, <1>3 DEF RInv, P!IInv, P!TypeOK, P!Apart, Phases, P!Phases
<1>5. /\ Kept(u, sim, Fs)
      /\ u.backlog = sim.backlog \ {t} /\ u.triaged = sim.triaged \ {t}
      /\ u.committed = sim.committed \ {t} /\ u.active = sim.active \cup {t}
      /\ u.current = [sim.current EXCEPT ![d] = t] /\ u.cursor = Place(sim, d)
      /\ u.assignedTo = [sim.assignedTo EXCEPT ![t] = d]
      /\ u.effort = [sim.effort EXCEPT ![t] = n]
      /\ u.phase = [sim.phase EXCEPT ![t] = 1]
      /\ u.queue = [sim.queue EXCEPT ![1] = @]
  <2>1. /\ e.type = "TicketAssigned" /\ e.ticket = t /\ e.dev = d /\ e.phase = 1
        /\ e.effort = n
    BY DEF TicketAssigned
  <2> HIDE DEF e
  <2> QED BY <1>2, <1>3, <2>1, AfterStarted
<1> HIDE DEF u
<1>6. u.queue = sim.queue
  BY <1>4, <1>5
<1>7. Agree(u)
  <2> SUFFICES ASSUME NEW c \in Devs, u.current[c] # None
               PROVE  u.current[c] \in u.active /\ u.assignedTo[u.current[c]] = c
    BY DEF Agree
  <2>1. CASE c = d
    BY <1>4, <1>5, <2>1
  <2>2. CASE c # d
    <3>1. /\ u.current[c] = sim.current[c] /\ sim.current[c] \in sim.active
          /\ sim.assignedTo[sim.current[c]] = c
      BY <1>2, <1>4, <1>5, <2>2 DEF Agree
    <3> QED BY <1>4, <1>5, <3>1
  <2> QED BY <2>1, <2>2
<1>8. Good(sim, plan')
  BY <1>2, <1>7, GoodOne DEF u
<1>9. Rest'
  BY <1>2, <1>5, <1>8, RestGood
<1>10. Whole.current[d] = None /\ d \in P!Members(Whole.team)
  BY <1>2, <1>3 DEF ToSet, P!Members
<1>11. u.cursor = P!Position(d)
  BY <1>2, <1>5 DEF Place, P!Position
<1>12. UNCHANGED <<P!assetVars, P!sprintVars, P!releaseVars, P!tickVars, noise>>
  BY <1>2, <1>5 DEF AssignTicket, Unticked, Kept, Fields, P!assetVars, P!sprintVars,
                    P!releaseVars, P!tickVars
<1>13. UNCHANGED <<Whole.completed, Whole.contributors, Whole.large, Whole.team,
                   Whole.mentorIndex, Whole.ticketMentors>>
  BY <1>2, <1>5 DEF Kept, Fields
<1>14. hands' = [hands EXCEPT ![t] = @ \cup {d}]
  BY DEF AssignTicket
<1>15. P!AssignTicket(t, d)
  BY <1>2, <1>3, <1>5, <1>6, <1>10, <1>11, <1>12, <1>13, <1>14 DEF P!AssignTicket, P!Idle
<1> QED BY <1>9, <1>15

\* a decomposition,
LEMMA DecomposeMaps ==
  ASSUME RInv, NEW t \in Tickets, Decompose(t)
  PROVE  P!Decompose(t) /\ Rest'
<1> DEFINE e == TicketDecomposed(t)
           u == Apply(sim, e)
<1>1. Decide(<<e>>) /\ pc = "idle" /\ t \in sim.backlog \cap DOMAIN Children
  BY DEF Decompose
<1>2. /\ plan = <<>> /\ sim' = sim /\ plan' = <<e>> /\ IsList(plan')
      /\ Whole = sim /\ Whole' = u /\ IsSim(sim) /\ Agree(sim)
  BY <1>1, WholeOne
<1>3. /\ Kept(u, sim, {"backlog", "triaged"})
      /\ u.backlog = (sim.backlog \ {t}) \cup Children[t] /\ u.triaged = sim.triaged \ {t}
  BY <1>2, AfterDecomposed
<1>4. Quietly(plan')
  BY <1>2, QuietEvents, QuietOne
<1> HIDE DEF u
<1>5. Rest'
  BY <1>2, <1>3, <1>4, RestQuiet
<1>6. UNCHANGED <<P!ticketVars, P!devVars, P!assetVars, P!sprintVars, P!releaseVars,
                  P!tickVars, noise>>
  BY <1>2, <1>3 DEF Decompose, Unticked, Kept, Fields, P!ticketVars, P!devVars, P!assetVars,
                    P!sprintVars, P!releaseVars, P!tickVars
<1>7. UNCHANGED <<Whole.committed, Whole.active, Whole.completed, Whole.large, Whole.queue>>
  BY <1>2, <1>3 DEF Kept, Fields
<1>8. P!Decompose(t)
  BY <1>1, <1>2, <1>3, <1>6, <1>7 DEF P!Decompose, P!Split
<1> QED BY <1>5, <1>8

\* an investment,
LEMMA InvestMaps ==
  ASSUME RInv, NEW o \in DOMAIN Cost, Invest(o)
  PROVE  P!Invest(o) /\ Rest'
<1> DEFINE e == InvestmentApplied(o)
           u == Apply(sim, e)
<1>1. /\ Decide(<<e>>) /\ pc = "idle" /\ ~sim.sprint /\ sim.number > 0
      /\ Cost[o] <= sim.budget
      /\ o = "hire" => sim.hired < Len(Recruits)
  BY DEF Invest
<1>2. /\ plan = <<>> /\ sim' = sim /\ plan' = <<e>> /\ IsList(plan')
      /\ Whole = sim /\ Whole' = u /\ IsSim(sim) /\ Agree(sim)
  BY <1>1, WholeOne
<1>3. /\ Kept(u, sim, {"budget", "hired", "team", "slots"})
      /\ u.budget = sim.budget - Cost[o]
      /\ u.hired = IF o = "hire" THEN sim.hired + 1 ELSE sim.hired
      /\ u.team = IF o = "hire" THEN Append(sim.team, Recruits[sim.hired + 1]) ELSE sim.team
      /\ u.slots = IF o = "cicd-slot" THEN sim.slots + 1 ELSE sim.slots
  BY <1>2, AfterInvestment
<1>4. Quietly(plan')
  BY <1>2, QuietEvents, QuietOne
<1> HIDE DEF u
<1>5. /\ sim.hired = Len(sim.team) - Len(Team0) /\ sim.incidents \in Seq(Tickets)
      /\ sim.team \in Seq(Devs) /\ Len(Team0) \in Nat
  BY <1>2, ReplayAssumption DEF RInv, P!IInv, P!TypeOK, F!FlowAssumption
<1>6. u.hired = Len(u.team) - Len(Team0)
  <2>1. Len(Append(sim.team, Recruits[sim.hired + 1])) = Len(sim.team) + 1
    BY <1>5
  <2> QED BY <1>3, <1>5, <2>1
<1>7. u.incidents = sim.incidents
  BY <1>3 DEF Kept, Fields
<1>8. Good(sim, plan')
  BY <1>2, <1>4, GoodQuiet DEF Quietly
<1>9. Rest'
  BY <1>2, <1>3, <1>5, <1>6, <1>7, <1>8 DEF Rest, Kept
<1>10. UNCHANGED <<P!placeVars, P!ticketVars, P!sprintVars, P!releaseVars, P!tickVars, noise>>
  BY <1>2, <1>3 DEF Invest, Unticked, Kept, Fields, P!placeVars, P!ticketVars,
                    P!sprintVars, P!releaseVars, P!tickVars
<1>11. UNCHANGED <<Whole.large, Whole.queue, Whole.current, Whole.cursor,
                   Whole.mentorIndex, Whole.ticketMentors>>
  BY <1>2, <1>3 DEF Kept, Fields
<1>12. LET hired == Len(Whole.team) - Len(Team0) IN
         IF o = "hire"
           THEN /\ hired < Len(Recruits)
                /\ Whole.team' = Append(Whole.team, Recruits[hired + 1])
           ELSE Whole.team' = Whole.team
  BY <1>1, <1>2, <1>3, <1>5
<1>13. /\ Whole.budget' = Whole.budget - Cost[o]
       /\ Whole.slots' = IF o = "cicd-slot" THEN Whole.slots + 1 ELSE Whole.slots
       /\ ~Whole.sprint /\ Whole.number > 0 /\ Cost[o] <= Whole.budget
  BY <1>1, <1>2, <1>3
<1>14. P!Invest(o)
  BY <1>1, <1>10, <1>11, <1>12, <1>13 DEF P!Invest
<1> QED BY <1>9, <1>14

\* the beginning of a tick,
LEMMA BeginTickMaps ==
  ASSUME RInv, BeginTick
  PROVE  P!BeginTick /\ Rest'
<1> DEFINE u == Apply(sim, Ticked)
<1>1. /\ Decide(<<Ticked>>) /\ pc = "idle" /\ pc' = "work" /\ todo' = sim.team
      /\ UNCHANGED <<slot, noise, hands>>
  BY DEF BeginTick
<1>2. /\ plan = <<>> /\ sim' = sim /\ plan' = <<Ticked>> /\ IsList(plan')
      /\ Whole = sim /\ Whole' = u /\ IsSim(sim) /\ Agree(sim)
  BY <1>1, WholeOne
<1>3. Kept(u, sim, {"left"}) /\ u.left = IF sim.sprint THEN sim.left - 1 ELSE sim.left
  BY <1>2, AfterTicked
<1>4. Quietly(plan')
  BY <1>2, QuietEvents, QuietOne
<1> HIDE DEF u
<1>5. Rest'
  BY <1>2, <1>3, <1>4, RestQuiet
<1>6. u.sprint = sim.sprint
  BY <1>3 DEF Kept, Fields
<1>7. UNCHANGED <<P!placeVars, P!ticketVars, P!devVars, P!assetVars, P!releaseVars>>
  BY <1>1, <1>2, <1>3 DEF Kept, Fields, P!placeVars, P!ticketVars, P!devVars, P!assetVars,
                          P!releaseVars
<1>8. UNCHANGED <<Whole.large, Whole.queue, Whole.sprint, Whole.number>>
  BY <1>2, <1>3 DEF Kept, Fields
<1>9. P!BeginTick
  BY <1>1, <1>2, <1>3, <1>7, <1>8 DEF P!BeginTick
<1> QED BY <1>1, <1>2, <1>5, <1>6, <1>9

\* passing on to the next queue,
LEMMA NextSlotMaps ==
  ASSUME RInv, NextSlot
  PROVE  P!NextSlot /\ Rest' /\ Whole' = Whole
<1>1. /\ plan = <<>> /\ sim' = sim /\ plan' = <<>> /\ Whole = sim /\ IsSim(sim) /\ Agree(sim)
  BY WholeNow DEF NextSlot, Decide
<1>2. Whole' = sim
  BY <1>1, RunNone, WholeThen
<1>3. Rest'
  BY <1>1, <1>2, QuietNone, RestQuiet DEF Kept
<1>4. ~P!Assignable(P!Turn(slot))
  BY SameAssignable, SameTurn DEF NextSlot
<1>5. UNCHANGED <<P!placeVars, P!ticketVars, Whole.large, Whole.queue, P!devVars, P!assetVars,
                  P!sprintVars, P!releaseVars, pc, todo, noise>>
  BY <1>1, <1>2 DEF NextSlot, P!placeVars, P!ticketVars, P!devVars, P!assetVars, P!sprintVars,
                    P!releaseVars
<1>6. P!NextSlot
  BY <1>4, <1>5 DEF NextSlot, P!NextSlot
<1> QED BY <1>1, <1>2, <1>3, <1>6

\* the controller,
LEMMA ControlMaps ==
  ASSUME RInv, Control
  PROVE  P!Control /\ Rest'
<1>1. PICK l \in BOOLEAN, room \in 0..Drip, A \in SUBSET sim.triaged :
        /\ IF F!Admits(l) THEN Cardinality(A) = room \/ (Cardinality(A) < room /\ A = sim.triaged)
           ELSE A = {}
        /\ Decide((When(F!Locks(l), WarmupExited) \o When(F!TimesOut(l), WarmupTimedOut))
                  \o Commits(A))
  BY DEF Control, Commits
<1> DEFINE x == When(F!Locks(l), WarmupExited)
           y == When(F!TimesOut(l), WarmupTimedOut)
           z == Commits(A)
           u1 == Run(sim, x)
           u2 == Run(u1, y)
           u3 == Run(u2, z)
<1>2. /\ plan = <<>> /\ sim' = sim /\ plan' = (x \o y) \o z /\ Whole = sim /\ IsSim(sim)
  BY <1>1, WholeNow DEF Decide
<1>3. /\ sim.triaged \subseteq sim.backlog /\ sim.backlog \subseteq Tickets
      /\ sim.warmup \in BOOLEAN /\ sim.failed \in BOOLEAN
  BY <1>2 DEF RInv, P!IInv, P!TypeOK, P!Apart
<1>4. IsFiniteSet(A) /\ A \subseteq sim.backlog
  BY <1>3, FiniteTickets
<1>5. /\ Quietly(x) /\ Kept(u1, sim, {"warmup"})
      /\ F!Locks(l) => u1.warmup = FALSE
      /\ ~F!Locks(l) => u1.warmup = sim.warmup
  <2>1. CASE F!Locks(l)
    <3>1. x = <<WarmupExited>> /\ u1 = Apply(sim, WarmupExited)
      BY <2>1, RunOne DEF When
    <3> HIDE DEF x, u1
    <3> QED BY <1>2, <2>1, <3>1, AfterExited, QuietOne, QuietEvents
  <2>2. CASE ~F!Locks(l)
    <3>1. x = <<>> /\ u1 = sim
      BY <2>2, RunNone DEF When
    <3> HIDE DEF x, u1
    <3> QED BY <1>2, <2>2, <3>1, QuietNone DEF Kept
  <2> QED BY <2>1, <2>2
<1> HIDE DEF x
<1>6. /\ Quietly(y) /\ Kept(u2, u1, {"failed"})
      /\ F!TimesOut(l) => u2.failed = TRUE
      /\ ~F!TimesOut(l) => u2.failed = u1.failed
  <2>1. IsSim(u1)
    BY <1>5 DEF Kept
  <2> HIDE DEF u1
  <2>2. CASE F!TimesOut(l)
    <3>1. y = <<WarmupTimedOut>> /\ u2 = Apply(u1, WarmupTimedOut)
      BY <2>2, RunOne DEF When
    <3> HIDE DEF y, u2
    <3> QED BY <2>1, <2>2, <3>1, AfterTimedOut, QuietOne, QuietEvents
  <2>3. CASE ~F!TimesOut(l)
    <3>1. y = <<>> /\ u2 = u1
      BY <2>3, RunNone DEF When
    <3> HIDE DEF y, u2
    <3> QED BY <2>1, <2>3, <3>1, QuietNone DEF Kept
  <2> QED BY <2>2, <2>3
<1>7. Quietly(z)
  BY <1>4, CommitQuiet
<1> HIDE DEF y, z
<1>8. Quietly(x \o y) /\ Quietly((x \o y) \o z)
  BY <1>5, <1>6, <1>7, QuietBoth
<1>9. Whole' = u3
  <2>1. Run(sim, x \o y) = u2
    BY <1>5, <1>6, ListBoth DEF Quietly
  <2>2. Run(sim, (x \o y) \o z) = u3
    BY <1>7, <1>8, <2>1, ListBoth DEF Quietly
  <2> QED BY <1>2, <2>2, WholeThen
<1> HIDE DEF u1
<1>10. /\ IsSim(u2) /\ u2.backlog = sim.backlog /\ u2.triaged = sim.triaged
       /\ u2.committed = sim.committed
  BY <1>5, <1>6 DEF Kept, Fields
<1> HIDE DEF u2
<1>11. /\ Kept(u3, u2, {"backlog", "triaged", "committed"})
       /\ u3.backlog = u2.backlog \ A /\ u3.triaged = u2.triaged \ A
       /\ u3.committed = u2.committed \cup A
  BY <1>4, <1>10, CommitAll DEF z
<1> HIDE DEF u3
<1>12. Kept(Whole', sim, ({"warmup"} \cup {"failed"}) \cup {"backlog", "triaged", "committed"})
  BY <1>5, <1>6, <1>9, <1>11, KeptBoth
<1>13. Rest'
  BY <1>2, <1>8, <1>12, RestQuiet
<1>14. /\ F!Locks(l) => Whole'.warmup = FALSE
       /\ ~F!Locks(l) => Whole'.warmup = sim.warmup
       /\ F!TimesOut(l) => Whole'.failed = TRUE
       /\ ~F!TimesOut(l) => Whole'.failed = sim.failed
  BY <1>5, <1>6, <1>9, <1>11 DEF Kept, Fields
<1>15. /\ P!Locks(l) <=> F!Locks(l)
       /\ P!TimesOut(l) <=> F!TimesOut(l)
       /\ P!Admits(l) <=> F!Admits(l)
  BY DEF P!Locks, F!Locks, P!TimesOut, F!TimesOut, P!Admits, F!Admits
<1>16. /\ Whole.warmup' = (Whole.warmup /\ ~P!Locks(l))
       /\ Whole.failed' = (Whole.failed \/ P!TimesOut(l))
  BY <1>2, <1>3, <1>14, <1>15
<1>17. /\ Whole.backlog' = Whole.backlog \ A /\ Whole.triaged' = Whole.triaged \ A
       /\ Whole.committed' = Whole.committed \cup A
  BY <1>2, <1>9, <1>10, <1>11
<1>18. IF P!Admits(l) THEN P!Cardinality(A) = room \/ (P!Cardinality(A) < room /\ A = Whole.triaged)
       ELSE A = {}
  BY <1>1, <1>2, <1>15, SameCardinality
<1>19. UNCHANGED <<P!ticketVars, P!devVars, P!assetVars, P!sprintVars, todo, noise>>
  BY <1>2, <1>12 DEF Control, Kept, Fields, P!ticketVars, P!devVars, P!assetVars, P!sprintVars
<1>20. UNCHANGED <<Whole.active, Whole.completed, Whole.large, Whole.queue>>
  BY <1>2, <1>12 DEF Kept, Fields
<1>21. pc = "work" /\ todo = <<>> /\ pc' = "assign" /\ slot' = 1
  BY DEF Control
<1>22. P!Control
  BY <1>2, <1>16, <1>17, <1>18, <1>19, <1>20, <1>21 DEF P!Control
<1> QED BY <1>13, <1>19, <1>22 DEF P!sprintVars

\* and the end of a tick.
LEMMA EndTickMaps ==
  ASSUME RInv, EndTick
  PROVE  P!EndTick /\ Rest'
<1>1. PICK bugs \in SUBSET sim.active, creeps \in SUBSET sim.active,
           fixed \in SUBSET ToSet(sim.incidents),
           failing \in SUBSET (sim.completed \ sim.caused) :
        /\ noise' = noise + Cardinality(bugs) + Cardinality(creeps) /\ noise' <= MaxNoise
        /\ \E grown \in SUBSET creeps :
             Decide((((Bugs(bugs) \o Creeps(creeps, grown)) \o Fixes(fixed)) \o Fails(failing))
                    \o When(sim.sprint /\ sim.left <= 0, SprintEnded))
  BY DEF EndTick, Bugs, Creeps, Fixes, Fails
<1>2. PICK grown \in SUBSET creeps :
        Decide((((Bugs(bugs) \o Creeps(creeps, grown)) \o Fixes(fixed)) \o Fails(failing))
               \o When(sim.sprint /\ sim.left <= 0, SprintEnded))
  BY <1>1
<1> DEFINE a == Bugs(bugs)
           b == Creeps(creeps, grown)
           c == Fixes(fixed)
           d == Fails(failing)
           e == When(sim.sprint /\ sim.left <= 0, SprintEnded)
           u1 == Run(sim, a)
           u2 == Run(u1, b)
           u3 == Run(u2, c)
           u4 == Run(u3, d)
           u5 == Run(u4, e)
<1>3. /\ plan = <<>> /\ sim' = sim /\ plan' = (((a \o b) \o c) \o d) \o e
      /\ Whole = sim /\ IsSim(sim) /\ Agree(sim)
  BY <1>2, WholeNow DEF Decide
<1>4. /\ sim.active \subseteq Tickets /\ sim.completed \subseteq Tickets
      /\ sim.effort \in [Tickets -> Nat] /\ sim.incidents \in Seq(Tickets)
      /\ sim.sprint \in BOOLEAN /\ sim.hired = Len(sim.team) - Len(Team0)
  BY <1>3 DEF RInv, P!IInv, P!TypeOK
<1>5. /\ bugs \subseteq Tickets /\ creeps \subseteq Tickets /\ fixed \subseteq Tickets
      /\ failing \subseteq Tickets
  <2>1. ToSet(sim.incidents) \subseteq Tickets
    BY <1>4 DEF ToSet
  <2> QED BY <1>4, <2>1
<1>6. /\ IsFiniteSet(bugs) /\ IsFiniteSet(creeps) /\ IsFiniteSet(fixed)
      /\ IsFiniteSet(failing)
  BY <1>5, FiniteTickets
<1>7. Quietly(a) /\ Quietly(b) /\ Quietly(c) /\ Quietly(d)
  BY <1>6, BugQuiet, CreepQuiet, FixQuiet, FailQuiet
<1>8. /\ Kept(u1, sim, {"effort"})
      /\ u1.effort = [t \in Tickets |-> sim.effort[t] + (IF t \in bugs THEN 1 ELSE 0)]
  BY <1>3, <1>4, <1>5, <1>6, BugAll
<1> HIDE DEF u1
<1>9. IsSim(u1) /\ u1.effort \in [Tickets -> Nat]
  BY <1>4, <1>8 DEF Kept
<1>10. /\ Kept(u2, u1, {"effort", "large"})
       /\ u2.effort = [t \in Tickets |-> u1.effort[t] + (IF t \in creeps THEN 1 ELSE 0)]
       /\ u2.large = u1.large \cup (grown \cap creeps)
  BY <1>5, <1>6, <1>9, CreepAll
<1> HIDE DEF u2
<1>11. IsSim(u2) /\ u2.incidents = sim.incidents
  BY <1>8, <1>10 DEF Kept, Fields
<1>12. Kept(u3, u2, {"incidents"}) /\ u3.incidents \in Seq(Tickets)
  BY <1>4, <1>6, <1>11, FixAll
<1> HIDE DEF u3
<1>13. IsSim(u3)
  BY <1>12 DEF Kept
<1>14. Kept(u4, u3, {"incidents", "caused"}) /\ u4.incidents \in Seq(Tickets)
  BY <1>5, <1>6, <1>12, <1>13, FailAll
<1> HIDE DEF u4
<1>15. u4.left = sim.left /\ u4.sprint = sim.sprint /\ IsSim(u4)
  BY <1>8, <1>10, <1>12, <1>14 DEF Kept, Fields
<1>16. /\ Quietly(e) /\ Kept(u5, u4, {"sprint"})
       /\ sim.sprint /\ sim.left <= 0 => u5.sprint = FALSE
       /\ ~(sim.sprint /\ sim.left <= 0) => u5.sprint = sim.sprint
  <2>1. CASE sim.sprint /\ sim.left <= 0
    <3>1. e = <<SprintEnded>> /\ u5 = Apply(u4, SprintEnded)
      BY <2>1, RunOne DEF When
    <3> HIDE DEF e, u5
    <3> QED BY <1>15, <2>1, <3>1, AfterSprintEnded, QuietOne, QuietEvents
  <2>2. CASE ~(sim.sprint /\ sim.left <= 0)
    <3>1. e = <<>> /\ u5 = u4
      BY <2>2, RunNone DEF When
    <3> HIDE DEF e, u5
    <3> QED BY <1>15, <2>2, <3>1, QuietNone DEF Kept
  <2> QED BY <2>1, <2>2
<1> HIDE DEF a, b, c, d, e
<1>17. /\ Quietly(a \o b) /\ Quietly((a \o b) \o c) /\ Quietly(((a \o b) \o c) \o d)
       /\ Quietly((((a \o b) \o c) \o d) \o e)
  BY <1>7, <1>16, QuietBoth
<1>18. Whole' = u5
  <2>1. Run(sim, a \o b) = u2
    BY <1>7, ListBoth DEF Quietly, u1, u2
  <2>2. Run(sim, (a \o b) \o c) = u3
    BY <1>7, <1>17, <2>1, ListBoth DEF Quietly, u3
  <2>3. Run(sim, ((a \o b) \o c) \o d) = u4
    BY <1>7, <1>17, <2>2, ListBoth DEF Quietly, u4
  <2>4. Run(sim, (((a \o b) \o c) \o d) \o e) = u5
    BY <1>16, <1>17, <2>3, ListBoth DEF Quietly
  <2> QED BY <1>3, <2>4, WholeThen
<1> HIDE DEF u5
<1> DEFINE Fs == {"effort", "large", "incidents", "caused", "sprint"}
<1>19. Kept(Whole', sim, Fs)
  BY <1>8, <1>10, <1>12, <1>14, <1>16, <1>18 DEF Kept, Fields
<1>20. Rest'
  <2>1. Good(sim, plan') /\ IsList(plan')
    BY <1>3, <1>17, GoodQuiet DEF Quietly
  <2>2. Whole'.incidents \in Seq(Tickets)
    BY <1>14, <1>16, <1>18 DEF Kept, Fields
  <2>3. Whole'.hired = sim.hired /\ Whole'.team = sim.team
    BY <1>19 DEF Kept, Fields
  <2> QED BY <1>3, <1>4, <1>19, <2>1, <2>2, <2>3 DEF Rest, Kept
<1>21. Whole'.effort = u2.effort /\ Whole'.large = u2.large /\ u1.large = sim.large
  BY <1>8, <1>12, <1>14, <1>16, <1>18 DEF Kept, Fields
<1>22. Whole.effort' = [t \in Tickets |-> Whole.effort[t] + (IF t \in bugs THEN 1 ELSE 0)
                                                     + (IF t \in creeps THEN 1 ELSE 0)]
  BY <1>3, <1>4, <1>8, <1>10, <1>21
<1>23. Whole.large' = Whole.large \cup grown
  BY <1>3, <1>10, <1>21
<1>24. Whole.sprint' = (Whole.sprint /\ ~P!SprintOver)
  BY <1>3, <1>4, <1>16, <1>18 DEF P!SprintOver
<1>25. UNCHANGED <<P!placeVars, Whole.phase, Whole.assignedTo, Whole.contributors, hands,
                   Whole.queue, P!devVars, P!assetVars, Whole.number, Whole.left,
                   P!releaseVars, todo>>
  BY <1>3, <1>19 DEF EndTick, Kept, Fields, P!placeVars, P!devVars, P!assetVars, P!releaseVars
<1>26. /\ noise' = noise + P!Cardinality(bugs) + P!Cardinality(creeps) /\ noise' <= MaxNoise
       /\ bugs \in SUBSET Whole.active /\ creeps \in SUBSET Whole.active
  BY <1>1, <1>3, SameCardinality
<1>27. pc = "assign" /\ slot > NumPhases /\ pc' = "idle" /\ slot' = 1
  BY DEF EndTick
<1>28. P!EndTick
  BY <1>22, <1>23, <1>24, <1>25, <1>26, <1>27 DEF P!EndTick
<1> QED BY <1>20, <1>28

\* A ticket taken from its queue, with or without a mentor.
LEMMA AssignHeadMaps ==
  ASSUME RInv, AssignHead
  PROVE  P!AssignHead /\ Rest'
<1>1. /\ plan = <<>> /\ sim' = sim /\ Whole = sim /\ IsSim(sim) /\ Agree(sim)
  BY WholeNow DEF AssignHead, Decide
<1>2. /\ sim.team \in Seq(Devs) /\ sim.team # <<>> /\ sim.cursor \in DOMAIN sim.team
      /\ sim.active \subseteq Tickets /\ sim.queue \in [Phases -> Seq(Tickets)]
      /\ sim.phase \in [Tickets -> 0..Done]
      /\ sim.assignedTo \in [Tickets -> Devs \cup {None}]
      /\ sim.current \in [Devs -> Tickets \cup {None}]
      /\ slot \in 1..(NumPhases + 1)
  BY <1>1 DEF RInv, P!IInv, P!TypeOK, Phases, P!Phases, Done, P!Done
<1>3. /\ pc = "assign" /\ slot <= NumPhases /\ P!Assignable(P!Turn(slot))
  BY SameAssignable, SameTurn DEF AssignHead
<1>4. PICK p \in Phases : p = P!Turn(slot) /\ p = F!Turn(slot)
  <2>1. slot \in 1..NumPhases
    BY <1>2, <1>3, SameAssumption DEF P!FlowAssumption
  <2>2. P!Turn(slot) \in P!Phases
    BY <2>1, SameAssumption, P!TurnOrder
  <2> QED BY <2>2, SameTurn DEF P!Phases, Phases
<1>5. /\ sim.queue[p] # <<>> /\ Head(sim.queue[p]) \in sim.active
      /\ ~P!AtCap(p) /\ P!SelectDev(Head(sim.queue[p]), p) # None
  BY <1>1, <1>3, <1>4 DEF P!Assignable
<1>6. PICK t \in sim.active : t = Head(sim.queue[p])
  BY <1>5
<1>7. PICK d \in Devs : d = P!SelectDev(t, p) /\ d = F!SelectDev(t, p)
  <2>1. P!SelectDev(t, p) \in P!Members(sim.team)
    BY <1>1, <1>2, <1>5, <1>6, SameAssumption, P!SelectDevType
  <2>2. P!Members(sim.team) \subseteq Devs
    BY <1>2 DEF P!Members
  <2> QED BY <2>1, <2>2, SameSelectDev
<1>8. PICK m : m = P!SelectMentor(d, p) /\ m = F!SelectMentor(d, p)
  BY SameSelectMentor
<1>9. /\ \E n \in 1..MaxEffort :
           Decide(<<TicketAssigned(t, d, p, n)>> \o When(m # None, MentorPaired(m, t, p)))
      /\ hands' = [hands EXCEPT ![t] = @ \cup ({d, m} \ {None})]
  BY <1>1, <1>4, <1>6, <1>7, <1>8 DEF AssignHead
<1>10. PICK n \in 1..MaxEffort :
        plan' = <<TicketAssigned(t, d, p, n)>> \o When(m # None, MentorPaired(m, t, p))
  BY <1>9 DEF Decide
<1> DEFINE e == TicketAssigned(t, d, p, n)
           y == When(m # None, MentorPaired(m, t, p))
           u == Apply(sim, e)
           v == Run(u, y)
           As == {"backlog", "triaged", "committed", "active", "phase", "assignedTo",
                  "effort", "queue", "current", "cursor"}
           Ms == {"mentorIndex", "ticketMentors", "contributors"}
<1>11. /\ t \in Tickets /\ t \notin sim.backlog \cup sim.committed /\ t \notin sim.triaged
       /\ sim.assignedTo[t] = None
  <2>1. t \in Tickets /\ t \notin sim.backlog \cup sim.committed /\ t \notin sim.triaged
    BY <1>1, <1>2 DEF RInv, P!IInv, P!Apart
  <2>2. sim.queue[p][1] = t /\ 1 \in DOMAIN sim.queue[p]
    BY <1>2, <1>5, <1>6
  <2>3. P!Waiting(t, p)
    BY <1>1, <2>1, <2>2 DEF RInv, P!IInv, P!QueuesExact, Phases, P!Phases
  <2> QED BY <1>1, <2>1, <2>3 DEF P!Waiting
<1>12. /\ Kept(u, sim, As)
       /\ u.backlog = sim.backlog /\ u.triaged = sim.triaged /\ u.committed = sim.committed
       /\ u.active = sim.active /\ u.phase = sim.phase
       /\ u.queue = [sim.queue EXCEPT ![p] = Tail(@)]
       /\ u.current = [sim.current EXCEPT ![d] = t] /\ u.cursor = Place(sim, d)
       /\ u.assignedTo = [sim.assignedTo EXCEPT ![t] = d]
       /\ u.effort = [sim.effort EXCEPT ![t] = n]
  <2>1. /\ e.type = "TicketAssigned" /\ e.ticket = t /\ e.dev = d /\ e.phase = p
        /\ e.effort = n
    BY DEF TicketAssigned
  <2> HIDE DEF e
  <2>2. /\ Kept(u, sim, As)
        /\ u.backlog = sim.backlog \ {t} /\ u.triaged = sim.triaged \ {t}
        /\ u.committed = sim.committed \ {t} /\ u.active = sim.active
        /\ u.phase = [sim.phase EXCEPT ![t] = @]
        /\ u.queue = [sim.queue EXCEPT ![p] = RemoveFirst(@, t)]
        /\ u.current = [sim.current EXCEPT ![d] = t] /\ u.cursor = Place(sim, d)
        /\ u.assignedTo = [sim.assignedTo EXCEPT ![t] = d]
        /\ u.effort = [sim.effort EXCEPT ![t] = n]
    BY <1>1, <1>11, <2>1, AfterHandedOn
  <2> HIDE DEF u
  <2>3. RemoveFirst(sim.queue[p], t) = Tail(sim.queue[p])
    BY <1>2, <1>5, <1>6, RemoveHead
  <2>4. u.queue = [sim.queue EXCEPT ![p] = Tail(@)]
    BY <1>2, <2>2, <2>3
  <2>5. u.phase = sim.phase
    BY <1>2, <2>2
  <2>6. /\ u.backlog = sim.backlog /\ u.triaged = sim.triaged
        /\ u.committed = sim.committed
    BY <1>11, <2>2
  <2> QED BY <2>2, <2>4, <2>5, <2>6
<1> HIDE DEF u
<1>13. Agree(u)
  <2>1. None \notin Devs /\ None \notin Tickets
    BY SameAssumption DEF P!FlowAssumption
  <2> SUFFICES ASSUME NEW c \in Devs, u.current[c] # None
               PROVE  u.current[c] \in u.active /\ u.assignedTo[u.current[c]] = c
    BY DEF Agree
  <2>2. CASE c = d
    BY <1>2, <1>11, <1>12, <2>2
  <2>3. CASE c # d
    <3>1. /\ u.current[c] = sim.current[c] /\ sim.current[c] \in sim.active
          /\ sim.assignedTo[sim.current[c]] = c
      BY <1>1, <1>2, <1>12, <2>3 DEF Agree
    <3>2. sim.current[c] # t
      BY <1>11, <2>1, <3>1
    <3> QED BY <1>2, <1>12, <3>1, <3>2
  <2> QED BY <2>2, <2>3
<1>14. /\ Quietly(y) /\ Kept(v, u, Ms)
       /\ m = None => v = u
       /\ m # None => /\ v.mentorIndex = [u.mentorIndex EXCEPT ![m] = t]
                      /\ v.ticketMentors = [u.ticketMentors EXCEPT ![t][p] = m]
                      /\ v.contributors = [u.contributors EXCEPT ![t] = @ \cup {m}]
  <2>1. IsSim(u)
    BY <1>12 DEF Kept
  <2>2. CASE m = None
    <3>1. y = <<>> /\ v = u
      BY <2>2, RunNone DEF When
    <3> HIDE DEF y, v
    <3> QED BY <2>1, <2>2, <3>1, QuietNone DEF Kept
  <2>3. CASE m # None
    <3> DEFINE a == MentorPaired(m, t, p)
    <3>1. y = <<a>> /\ v = Apply(u, a)
      BY <2>3, RunOne DEF When
    <3>2. a.type = "MentorPaired" /\ a.mentor = m /\ a.ticket = t /\ a.phase = p
      BY DEF MentorPaired
    <3>3. Quietly(<<a>>)
      BY QuietOne, QuietEvents
    <3> HIDE DEF y, v, a
    <3> QED BY <2>1, <2>3, <3>1, <3>2, <3>3, AfterPaired
  <2> QED BY <2>2, <2>3
<1> HIDE DEF y
<1>15. /\ IsList(<<e>>) /\ IsList(y) /\ IsList(plan') /\ Whole' = v /\ Good(sim, plan')
  <2>1. IsList(<<e>>) /\ IsList(y) /\ Run(sim, <<e>>) = u
    BY <1>14, ListOne, RunOne DEF Quietly, u
  <2> DEFINE x == <<e>>
  <2>2. Good(sim, x)
    BY <1>1, <1>13, GoodOne DEF u
  <2>3. IsList(x) /\ Run(sim, x) = u /\ plan' = x \o y
    BY <1>10, <2>1 DEF y
  <2> HIDE DEF x
  <2>4. Good(u, y)
    BY <1>12, <1>13, <1>14, GoodQuiet DEF Quietly, Kept
  <2>5. Good(sim, x \o y)
    BY <2>1, <2>2, <2>3, <2>4, GoodBoth
  <2>6. IsList(x \o y) /\ Run(sim, x \o y) = Run(Run(sim, x), y)
    BY <2>1, <2>3, ListBoth
  <2> QED BY <1>1, <2>1, <2>3, <2>5, <2>6, WholeThen
<1> HIDE DEF v
<1>16. Kept(Whole', sim, As \cup Ms)
  BY <1>12, <1>14, <1>15, KeptBoth
<1>17. Rest'
  BY <1>1, <1>15, <1>16, RestGood
<1>18. /\ Whole'.queue = [sim.queue EXCEPT ![p] = Tail(@)]
       /\ Whole'.current = [sim.current EXCEPT ![d] = t]
       /\ Whole'.cursor = P!Position(d)
       /\ Whole'.assignedTo = [sim.assignedTo EXCEPT ![t] = d]
       /\ Whole'.effort = [sim.effort EXCEPT ![t] = n]
       /\ Whole'.backlog = sim.backlog /\ Whole'.triaged = sim.triaged
       /\ Whole'.committed = sim.committed /\ Whole'.active = sim.active
       /\ Whole'.phase = sim.phase
  <2>1. u.cursor = P!Position(d)
    BY <1>1, <1>12 DEF Place, P!Position
  <2>2. \A f \in Fields \ Ms : Whole'[f] = u[f]
    BY <1>14, <1>15 DEF Kept
  <2> QED BY <1>12, <2>1, <2>2 DEF Fields
<1>19. IF m = None
         THEN /\ hands' = [hands EXCEPT ![t] = @ \cup {d}]
              /\ UNCHANGED <<Whole.mentorIndex, Whole.ticketMentors, Whole.contributors>>
         ELSE /\ hands' = [hands EXCEPT ![t] = @ \cup {d, m}]
              /\ Whole.mentorIndex' = [Whole.mentorIndex EXCEPT ![m] = t]
              /\ Whole.ticketMentors' = [Whole.ticketMentors EXCEPT ![t][p] = m]
              /\ Whole.contributors' = [Whole.contributors EXCEPT ![t] = @ \cup {m}]
  <2>1. /\ u.mentorIndex = sim.mentorIndex /\ u.ticketMentors = sim.ticketMentors
        /\ u.contributors = sim.contributors
    BY <1>12 DEF Kept, Fields
  <2>2. None \notin Devs
    BY SameAssumption DEF P!FlowAssumption
  <2>3. CASE m = None
    <3>1. {d, m} \ {None} = {d}
      BY <2>2, <2>3
    <3> QED BY <1>1, <1>9, <1>14, <1>15, <2>1, <2>3, <3>1
  <2>4. CASE m # None
    <3>1. {d, m} \ {None} = {d, m}
      BY <2>2, <2>4
    <3> QED BY <1>1, <1>9, <1>14, <1>15, <2>1, <2>4, <3>1
  <2> QED BY <2>3, <2>4
<1>20. P!Assign(t, p, d, m)
  BY <1>1, <1>18, <1>19 DEF P!Assign
<1>21. UNCHANGED <<Whole.completed, Whole.large, Whole.team, Whole.slots, Whole.budget,
                   Whole.sprint, Whole.number, Whole.left, Whole.warmup, Whole.failed>>
  BY <1>1, <1>16 DEF Kept, Fields
<1>22. UNCHANGED <<P!placeVars, Whole.phase, P!assetVars, P!sprintVars, P!releaseVars,
                   P!tickVars, noise>>
  BY <1>1, <1>18, <1>21 DEF AssignHead, Unticked, P!placeVars, P!assetVars, P!sprintVars,
                            P!releaseVars, P!tickVars
<1>23. P!AssignHead
  BY <1>1, <1>3, <1>4, <1>6, <1>7, <1>8, <1>20, <1>21, <1>22 DEF P!AssignHead
<1> QED BY <1>17, <1>21, <1>23

\* Lists are joined in any order.
LEMMA ListAssoc ==
  ASSUME NEW x, NEW y, NEW z, IsList(x), IsList(y), IsList(z)
  PROVE  x \o (y \o z) = (x \o y) \o z
<1> DEFINE S == (ToSet(x) \cup ToSet(y)) \cup ToSet(z)
<1>1. x \in Seq(S) /\ y \in Seq(S) /\ z \in Seq(S)
  BY DEF IsList
<1> HIDE DEF S
<1> QED BY <1>1

\* u is s after a day's work on the ticket t that ends its phase: the mentor of
\* that phase, if it has one, is released.
WorkedBy(s, t, u) ==
  LET p == s.phase[t]
      m == s.ticketMentors[t][p]
  IN
  /\ Kept(u, s, {"effort", "mentorIndex", "ticketMentors"})
  /\ u.effort = [s.effort EXCEPT ![t] = IF @ > 0 THEN @ - 1 ELSE 0]
  /\ IF m = None
       THEN u.mentorIndex = s.mentorIndex /\ u.ticketMentors = s.ticketMentors
       ELSE /\ u.mentorIndex = [s.mentorIndex EXCEPT ![m] = None]
            /\ u.ticketMentors = [s.ticketMentors EXCEPT ![t][p] = None]

\* Its two events do that.
LEMMA WorkedOn ==
  ASSUME NEW s, IsSim(s), NEW t, NEW y,
         s.ticketMentors[t][s.phase[t]] = None => y = <<>>,
         s.ticketMentors[t][s.phase[t]] # None =>
           y = <<MentorReleased(s.ticketMentors[t][s.phase[t]], t, s.phase[t])>>
  PROVE  /\ Quietly(<<WorkProgressed(t)>>) /\ Quietly(y)
         /\ Quietly(<<WorkProgressed(t)>> \o y)
         /\ WorkedBy(s, t, Run(s, <<WorkProgressed(t)>> \o y))
<1> DEFINE x == <<WorkProgressed(t)>>
           p == s.phase[t]
           m == s.ticketMentors[t][p]
           u1 == Apply(s, WorkProgressed(t))
           u == Run(u1, y)
<1>1. Quietly(x) /\ Run(s, x) = u1
  BY QuietOne, QuietEvents, RunOne
<1>2. /\ Kept(u1, s, {"effort"})
      /\ u1.effort = [s.effort EXCEPT ![t] = IF @ > 0 THEN @ - 1 ELSE 0]
  BY AfterProgressed
<1> HIDE DEF u1
<1>3. /\ IsSim(u1) /\ u1.mentorIndex = s.mentorIndex /\ u1.ticketMentors = s.ticketMentors
  BY <1>2 DEF Kept, Fields
<1>4. /\ Quietly(y) /\ Kept(u, u1, {"mentorIndex", "ticketMentors"})
      /\ IF m = None
           THEN u.mentorIndex = s.mentorIndex /\ u.ticketMentors = s.ticketMentors
           ELSE /\ u.mentorIndex = [s.mentorIndex EXCEPT ![m] = None]
                /\ u.ticketMentors = [s.ticketMentors EXCEPT ![t][p] = None]
  <2>1. CASE m = None
    <3>1. y = <<>> /\ u = u1
      BY <2>1, RunNone
    <3> HIDE DEF u
    <3> QED BY <1>3, <2>1, <3>1, QuietNone DEF Kept
  <2>2. CASE m # None
    <3> DEFINE a == MentorReleased(m, t, p)
    <3>1. y = <<a>> /\ u = Apply(u1, a)
      BY <2>2, RunOne
    <3>2. a.type = "MentorReleased" /\ a.mentor = m /\ a.ticket = t /\ a.phase = p
      BY DEF MentorReleased
    <3>3. Quietly(<<a>>)
      BY QuietOne, QuietEvents
    <3> HIDE DEF u, a
    <3>4. /\ Kept(u, u1, {"mentorIndex", "ticketMentors"})
          /\ u.mentorIndex = [u1.mentorIndex EXCEPT ![a.mentor] = None]
          /\ u.ticketMentors = [u1.ticketMentors EXCEPT ![a.ticket][a.phase] = None]
      BY <1>3, <3>1, <3>2, AfterMentorReleased
    <3>5. Quietly(y)
      BY <3>1, <3>3
    <3> HIDE DEF m, p
    <3> QED BY <1>3, <2>2, <3>2, <3>4, <3>5
  <2> QED BY <2>1, <2>2
<1> HIDE DEF x
<1>5. Quietly(x \o y) /\ Run(s, x \o y) = u
  <2>1. IsList(x) /\ IsList(y) /\ Quietly(x) /\ Quietly(y)
    BY <1>1, <1>4 DEF Quietly
  <2>2. Quietly(x \o y)
    BY <2>1, QuietBoth
  <2>3. Run(s, x \o y) = Run(Run(s, x), y)
    BY <2>1, ListBoth
  <2> QED BY <1>1, <2>2, <2>3
<1> HIDE DEF u
<1>6. u.effort = u1.effort
  BY <1>4 DEF Kept, Fields
<1>7. Kept(u, s, {"effort", "mentorIndex", "ticketMentors"})
  BY <1>2, <1>4 DEF Kept
<1> HIDE DEF m, p
<1> QED BY <1>1, <1>2, <1>4, <1>5, <1>6, <1>7 DEF x, m, p, WorkedBy

\* A developer's turn: nothing, a day's work, the end of a phase or of the ticket.
LEMMA PassOverMaps ==
  ASSUME RInv, Work, sim.current[Head(todo)] = None
  PROVE  P!Work /\ Rest'
<1>1. /\ plan = <<>> /\ sim' = sim /\ Whole = sim /\ IsSim(sim) /\ Agree(sim)
      /\ plan' = <<>> /\ pc = "work" /\ todo # <<>> /\ todo' = Tail(todo)
      /\ UNCHANGED <<pc, slot, noise, hands>>
  BY WholeNow DEF Work, Decide, TurnEvents
<1>2. Whole' = sim
  BY <1>1, RunNone, WholeThen
<1>3. Rest'
  <2>1. Quietly(plan') /\ Kept(Whole', sim, {})
    BY <1>1, <1>2, QuietNone DEF Kept
  <2> QED BY <1>1, <2>1, RestQuiet
<1>4. P!Work
  BY <1>1, <1>2 DEF P!Work, P!PassOver, P!Idle, P!placeVars, P!ticketVars, P!devVars,
                    P!assetVars, P!sprintVars, P!releaseVars
<1> QED BY <1>1, <1>2, <1>3, <1>4

\* A day of work that does not end a phase is Flow's.
LEMMA ProgressMaps ==
  ASSUME RInv, Work, NEW d \in Devs, d = Head(todo), NEW t \in sim.active,
         t = sim.current[d], t # None, sim.effort[t] > 1
  PROVE  P!Work /\ Rest'
<1> DEFINE e == WorkProgressed(t)
           u == Apply(sim, e)
<1>1. /\ Decide(<<e>>) /\ pc = "work" /\ todo # <<>> /\ todo' = Tail(todo)
      /\ UNCHANGED <<pc, slot, noise, hands>>
  <2>1. TurnEvents(d) = <<e>> \o <<>>
    BY DEF TurnEvents
  <2>2. <<e>> \o <<>> = <<e>>
    OBVIOUS
  <2> QED BY <2>1, <2>2 DEF Work
<1>2. /\ plan = <<>> /\ sim' = sim /\ plan' = <<e>> /\ IsList(plan')
      /\ Whole = sim /\ Whole' = u /\ IsSim(sim) /\ Agree(sim)
  BY <1>1, WholeOne
<1>3. /\ Kept(u, sim, {"effort"})
      /\ u.effort = [sim.effort EXCEPT ![t] = IF @ > 0 THEN @ - 1 ELSE 0]
  BY <1>2, AfterProgressed
<1>4. Quietly(plan')
  BY <1>2, QuietEvents, QuietOne
<1> HIDE DEF u
<1>5. Rest'
  BY <1>2, <1>3, <1>4, RestQuiet
<1>6. Whole.effort' = [Whole.effort EXCEPT ![t] = @ - 1]
  <2>1. t \in Tickets /\ sim.effort \in [Tickets -> Nat]
    BY <1>2 DEF RInv, P!IInv, P!TypeOK
  <2> QED BY <1>2, <1>3, <2>1
<1>7. UNCHANGED <<P!placeVars, Whole.phase, Whole.assignedTo, Whole.contributors, hands,
                  Whole.queue, P!devVars>>
  BY <1>1, <1>2, <1>3 DEF Kept, Fields, P!placeVars, P!devVars
<1>8. UNCHANGED <<Whole.large, P!assetVars, P!sprintVars, P!releaseVars, pc, slot, noise>>
  BY <1>1, <1>2, <1>3 DEF Kept, Fields, P!assetVars, P!sprintVars, P!releaseVars
<1>9. P!Progress(d, t)
  BY <1>2, <1>6, <1>7 DEF P!Progress
<1>10. P!Work
  BY <1>1, <1>2, <1>8, <1>9 DEF P!Work
<1> QED BY <1>5, <1>8, <1>10 DEF P!sprintVars

\* The last phase is over: TicketCompleted.
LEMMA CompleteMaps ==
  ASSUME RInv, Work, NEW d \in Devs, d = Head(todo), NEW t \in sim.active,
         t = sim.current[d], t # None, sim.effort[t] <= 1, sim.phase[t] = NumPhases
  PROVE  P!Work /\ Rest'
<1> DEFINE x == <<WorkProgressed(t)>>
           y == MentorGone(t)
           e == TicketCompleted(t, d)
           z == <<e>>
           u == Run(sim, x \o y)
           v == Apply(u, e)
           m == sim.ticketMentors[t][sim.phase[t]]
           Ws == {"effort", "mentorIndex", "ticketMentors"}
           Cs == {"active", "completed", "phase", "current"}
<1>1. /\ plan = <<>> /\ sim' = sim /\ Whole = sim /\ IsSim(sim) /\ Agree(sim)
      /\ pc = "work" /\ todo # <<>> /\ todo' = Tail(todo)
      /\ UNCHANGED <<pc, slot, noise, hands>>
  BY WholeNow DEF Work, Decide
<1>2. /\ t \in Tickets /\ sim.effort \in [Tickets -> Nat]
      /\ sim.current \in [Devs -> Tickets \cup {None}]
      /\ sim.assignedTo \in [Tickets -> Devs \cup {None}]
  BY <1>1 DEF RInv, P!IInv, P!TypeOK
<1>3. plan' = x \o (y \o z)
  <2>1. ~(sim.effort[t] > 1)
    BY <1>2
  <2> QED BY <2>1 DEF Work, Decide, TurnEvents, CompleteEvents
<1>4. /\ Quietly(x) /\ Quietly(y) /\ Quietly(x \o y) /\ Kept(u, sim, Ws)
      /\ u.effort = [sim.effort EXCEPT ![t] = IF @ > 0 THEN @ - 1 ELSE 0]
      /\ IF m = None
           THEN u.mentorIndex = sim.mentorIndex /\ u.ticketMentors = sim.ticketMentors
           ELSE /\ u.mentorIndex = [sim.mentorIndex EXCEPT ![m] = None]
                /\ u.ticketMentors = [sim.ticketMentors EXCEPT ![t][sim.phase[t]] = None]
  <2>1. /\ m = None => y = <<>>
        /\ m # None => y = <<MentorReleased(m, t, sim.phase[t])>>
    BY DEF MentorGone, Mentor, When
  <2> HIDE DEF y, m
  <2>2. Quietly(x) /\ Quietly(y) /\ Quietly(x \o y) /\ WorkedBy(sim, t, u)
    BY <1>1, <2>1, WorkedOn DEF m
  <2> HIDE DEF x, u
  <2> QED BY <2>2 DEF WorkedBy, m
<1> HIDE DEF x, y, u
<1>5. /\ IsSim(u) /\ u.active = sim.active /\ u.completed = sim.completed
      /\ u.phase = sim.phase /\ u.current = sim.current /\ u.assignedTo = sim.assignedTo
  BY <1>4 DEF Kept, Fields
<1>6. /\ Kept(v, u, Cs)
      /\ v.active = sim.active \ {t} /\ v.completed = sim.completed \cup {t}
      /\ v.phase = [sim.phase EXCEPT ![t] = Done]
      /\ v.current = [sim.current EXCEPT ![d] = None]
  <2>1. e.type = "TicketCompleted" /\ e.ticket = t /\ e.dev = d
    BY DEF TicketCompleted
  <2> HIDE DEF e
  <2> QED BY <1>5, <2>1, AfterCompleted
<1> HIDE DEF v
<1>7. Agree(u) /\ Agree(v)
  <2>1. Agree(u)
    BY <1>1, <1>5 DEF Agree
  <2>2. v.assignedTo = sim.assignedTo
    BY <1>5, <1>6 DEF Kept, Fields
  <2>3. ASSUME NEW c \in Devs, v.current[c] # None
        PROVE  v.current[c] \in v.active /\ v.assignedTo[v.current[c]] = c
    <3>1. c # d /\ v.current[c] = sim.current[c]
      BY <1>2, <1>6, <2>3
    <3>2. sim.current[c] \in sim.active /\ sim.assignedTo[sim.current[c]] = c
      BY <1>1, <2>3, <3>1 DEF Agree
    <3>3. sim.current[c] # t
      BY <1>1, <3>1, <3>2 DEF Agree
    <3> QED BY <1>6, <2>2, <3>1, <3>2, <3>3
  <2> QED BY <2>1, <2>3 DEF Agree
<1>8. IsList(x) /\ IsList(y) /\ IsList(z) /\ IsList(x \o y)
  BY <1>4, ListOne DEF Quietly
<1>9. Good(u, z) /\ Run(u, z) = v
  BY <1>7, GoodOne, RunOne DEF v
<1> HIDE DEF e, z
<1>10. plan' = (x \o y) \o z
  BY <1>3, <1>8, ListAssoc
<1>11. IsList(plan') /\ Whole' = v /\ Good(sim, plan')
  <2> DEFINE a == x \o y
  <2>1. Good(sim, a) /\ Run(sim, a) = u /\ IsList(a) /\ plan' = a \o z
    BY <1>1, <1>4, <1>10, GoodQuiet DEF Quietly, u
  <2> HIDE DEF a
  <2>2. Good(sim, a \o z) /\ IsList(a \o z) /\ Run(sim, a \o z) = Run(u, z)
    BY <1>8, <1>9, <2>1, GoodBoth, ListBoth
  <2> QED BY <1>1, <1>9, <2>1, <2>2, WholeThen
<1>12. Kept(Whole', sim, Ws \cup Cs)
  BY <1>4, <1>6, <1>11, KeptBoth
<1>13. Rest'
  BY <1>1, <1>11, <1>12, RestGood
<1>14. /\ Whole'.effort = u.effort /\ Whole'.mentorIndex = u.mentorIndex
       /\ Whole'.ticketMentors = u.ticketMentors
  BY <1>6, <1>11 DEF Kept, Fields
<1>15. Whole.effort' = [Whole.effort EXCEPT ![t] = 0]
  BY <1>1, <1>2, <1>4, <1>14
<1>16. P!ReleaseMentor(t, sim.phase[t])
  BY <1>1, <1>4, <1>14 DEF P!ReleaseMentor
<1>17. UNCHANGED <<Whole.backlog, Whole.triaged, Whole.committed, Whole.assignedTo,
                   Whole.contributors, hands, Whole.queue, Whole.team, Whole.cursor>>
  BY <1>1, <1>12 DEF Kept, Fields
<1>18. UNCHANGED <<Whole.large, P!assetVars, P!sprintVars, P!releaseVars, pc, slot, noise>>
  BY <1>1, <1>12 DEF Kept, Fields, P!assetVars, P!sprintVars, P!releaseVars
<1>19. P!Complete(d, t)
  BY <1>1, <1>6, <1>11, <1>15, <1>16, <1>17 DEF P!Complete, Done, P!Done
<1>20. P!Work
  BY <1>1, <1>18, <1>19 DEF P!Work
<1> QED BY <1>13, <1>18, <1>20 DEF P!sprintVars

\* A sequence of two.
LEMMA TwoIs ==
  ASSUME NEW S, NEW z \in Seq(S), NEW e, NEW f, Len(z) = 2, z[1] = e, z[2] = f
  PROVE  z = <<e, f>>
<1>1. DOMAIN z = 1..2 /\ z = [i \in 1..2 |-> z[i]]
  OBVIOUS
<1>2. DOMAIN <<e, f>> = 1..2 /\ <<e, f>>[1] = e /\ <<e, f>>[2] = f
  OBVIOUS
<1>3. <<e, f>> = [i \in 1..2 |-> <<e, f>>[i]]
  OBVIOUS
<1> QED BY <1>1, <1>2, <1>3

\* Two events are one after the other.
LEMMA PairIs ==
  ASSUME NEW e, NEW f
  PROVE  <<e, f>> = <<e>> \o <<f>>
<1> DEFINE S == {e, f}
           x == <<e>>
           y == <<f>>
           z == x \o y
<1>1. x \in Seq(S) /\ y \in Seq(S)
  OBVIOUS
<1>2. Len(x) = 1 /\ Len(y) = 1 /\ x[1] = e /\ y[1] = f
  OBVIOUS
<1> HIDE DEF x, y, S
<1>3. /\ z \in Seq(S) /\ Len(z) = Len(x) + Len(y)
      /\ \A i \in 1..Len(x) : z[i] = x[i]
      /\ \A i \in 1..Len(y) : z[Len(x) + i] = y[i]
  BY <1>1
<1> HIDE DEF z
<1>4. Len(z) = 2 /\ z[1] = e /\ z[2] = f
  BY <1>2, <1>3
<1>5. z = <<e, f>>
  BY <1>3, <1>4, TwoIs
<1> QED BY <1>5 DEF x, y, z

\* Any other phase is over: DeveloperReleased, then TicketQueued.
LEMMA HandOffMaps ==
  ASSUME RInv, Work, NEW d \in Devs, d = Head(todo), NEW t \in sim.active,
         t = sim.current[d], t # None, sim.effort[t] <= 1, sim.phase[t] # NumPhases
  PROVE  P!Work /\ Rest'
<1> DEFINE x == <<WorkProgressed(t)>>
           y == MentorGone(t)
           p == sim.phase[t] + 1
           e == DeveloperReleased(d)
           f == TicketQueued(t, p, d)
           u == Run(sim, x \o y)
           v == Apply(u, e)
           w == Apply(v, f)
           m == sim.ticketMentors[t][sim.phase[t]]
           Ws == {"effort", "mentorIndex", "ticketMentors"}
           Qs == {"queue", "phase", "contributors", "assignedTo"}
<1>1. /\ plan = <<>> /\ sim' = sim /\ Whole = sim /\ IsSim(sim) /\ Agree(sim)
      /\ pc = "work" /\ todo # <<>> /\ todo' = Tail(todo)
      /\ UNCHANGED <<pc, slot, noise, hands>>
  BY WholeNow DEF Work, Decide
<1>2. /\ t \in Tickets /\ sim.effort \in [Tickets -> Nat]
      /\ sim.current \in [Devs -> Tickets \cup {None}]
      /\ sim.assignedTo \in [Tickets -> Devs \cup {None}]
      /\ sim.phase \in [Tickets -> 0..Done] /\ sim.phase[t] \in Phases
  BY <1>1 DEF RInv, P!IInv, P!TypeOK, P!Steady, Phases, P!Phases, Done, P!Done
<1>3. plan' = x \o (y \o <<e, f>>)
  <2>1. ~(sim.effort[t] > 1)
    BY <1>2
  <2> QED BY <2>1 DEF Work, Decide, TurnEvents, HandOffEvents
<1>4. /\ Quietly(x) /\ Quietly(y) /\ Quietly(x \o y) /\ Kept(u, sim, Ws)
      /\ u.effort = [sim.effort EXCEPT ![t] = IF @ > 0 THEN @ - 1 ELSE 0]
      /\ IF m = None
           THEN u.mentorIndex = sim.mentorIndex /\ u.ticketMentors = sim.ticketMentors
           ELSE /\ u.mentorIndex = [sim.mentorIndex EXCEPT ![m] = None]
                /\ u.ticketMentors = [sim.ticketMentors EXCEPT ![t][sim.phase[t]] = None]
  <2>1. /\ m = None => y = <<>>
        /\ m # None => y = <<MentorReleased(m, t, sim.phase[t])>>
    BY DEF MentorGone, Mentor, When
  <2> HIDE DEF y, m
  <2>2. Quietly(x) /\ Quietly(y) /\ Quietly(x \o y) /\ WorkedBy(sim, t, u)
    BY <1>1, <2>1, WorkedOn DEF m
  <2> HIDE DEF x, u
  <2> QED BY <2>2 DEF WorkedBy, m
<1> HIDE DEF x, y, u
<1>5. /\ IsSim(u) /\ u.active = sim.active /\ u.queue = sim.queue /\ u.phase = sim.phase
      /\ u.current = sim.current /\ u.assignedTo = sim.assignedTo
      /\ u.contributors = sim.contributors
  BY <1>4 DEF Kept, Fields
<1>6. Kept(v, u, {"current"}) /\ v.current = [sim.current EXCEPT ![d] = None]
  BY <1>5, AfterReleased
<1> HIDE DEF v, e
<1>7. /\ IsSim(v) /\ v.active = sim.active /\ v.queue = sim.queue /\ v.phase = sim.phase
      /\ v.assignedTo = sim.assignedTo /\ v.contributors = sim.contributors
  BY <1>5, <1>6 DEF Kept, Fields
<1>8. /\ Kept(w, v, Qs)
      /\ w.queue = [sim.queue EXCEPT ![p] = Append(@, t)]
      /\ w.phase = [sim.phase EXCEPT ![t] = p]
      /\ w.contributors = [sim.contributors EXCEPT ![t] = @ \cup {d}]
      /\ w.assignedTo = [sim.assignedTo EXCEPT ![t] = None]
  <2>1. f.type = "TicketQueued" /\ f.ticket = t /\ f.phase = p /\ f.previous = d
    BY DEF TicketQueued
  <2> HIDE DEF f, p
  <2> QED BY <1>7, <2>1, AfterQueued
<1> HIDE DEF w, f
<1>9. Agree(u) /\ Agree(v) /\ Agree(w)
  <2>1. Agree(u)
    BY <1>1, <1>5 DEF Agree
  <2>2. w.current = v.current /\ w.active = sim.active
    BY <1>7, <1>8 DEF Kept, Fields
  <2>3. ASSUME NEW c \in Devs, v.current[c] # None
        PROVE  /\ v.current[c] # t /\ v.current[c] \in sim.active
               /\ sim.assignedTo[v.current[c]] = c
    <3>1. c # d /\ v.current[c] = sim.current[c]
      BY <1>2, <1>6, <2>3
    <3>2. sim.current[c] \in sim.active /\ sim.assignedTo[sim.current[c]] = c
      BY <1>1, <2>3, <3>1 DEF Agree
    <3>3. sim.current[c] # t
      BY <1>1, <3>1, <3>2 DEF Agree
    <3> QED BY <3>1, <3>2, <3>3
  <2>4. Agree(v)
    BY <1>7, <2>3 DEF Agree
  <2>5. Agree(w)
    <3> SUFFICES ASSUME NEW c \in Devs, w.current[c] # None
                 PROVE  w.current[c] \in w.active /\ w.assignedTo[w.current[c]] = c
      BY DEF Agree
    <3>1. w.current[c] # t /\ w.current[c] \in sim.active /\ sim.assignedTo[w.current[c]] = c
      BY <2>2, <2>3
    <3>2. w.current[c] \in Tickets
      BY <1>1, <3>1 DEF RInv, P!IInv, P!TypeOK
    <3> QED BY <1>2, <1>8, <2>2, <3>1, <3>2
  <2> QED BY <2>1, <2>4, <2>5
<1> DEFINE z == <<e>>
           q == <<f>>
<1>10. /\ IsList(x) /\ IsList(y) /\ IsList(z) /\ IsList(q) /\ IsList(x \o y)
       /\ <<e, f>> = z \o q
  <2>1. <<e, f>> = <<e>> \o <<f>>
    BY PairIs
  <2> QED BY <1>4, <2>1, ListOne DEF Quietly
<1>11. Good(u, z) /\ Run(u, z) = v /\ Good(v, q) /\ Run(v, q) = w
  BY <1>9, GoodOne, RunOne DEF v, w
<1> HIDE DEF z, q
<1>12. IsList(z \o q) /\ Good(u, z \o q) /\ Run(u, z \o q) = w
  BY <1>10, <1>11, GoodBoth, ListBoth
<1>13. plan' = (x \o y) \o (z \o q)
  <2> DEFINE b == z \o q
  <2>1. plan' = x \o (y \o b) /\ IsList(b)
    BY <1>3, <1>10, <1>12
  <2> HIDE DEF b
  <2>2. plan' = (x \o y) \o b
    BY <1>10, <2>1, ListAssoc
  <2> QED BY <2>2 DEF b
<1>14. IsList(plan') /\ Whole' = w /\ Good(sim, plan')
  <2> DEFINE a == x \o y
             b == z \o q
  <2>1. Good(sim, a) /\ Run(sim, a) = u /\ IsList(a) /\ plan' = a \o b
    BY <1>1, <1>4, <1>13, GoodQuiet DEF Quietly, u
  <2>2. IsList(b) /\ Good(u, b) /\ Run(u, b) = w
    BY <1>12
  <2> HIDE DEF a, b
  <2>3. Good(sim, a \o b) /\ IsList(a \o b) /\ Run(sim, a \o b) = Run(u, b)
    BY <2>1, <2>2, GoodBoth, ListBoth
  <2> QED BY <1>1, <2>1, <2>2, <2>3, WholeThen
<1>15. Kept(Whole', sim, (Ws \cup {"current"}) \cup Qs)
  <2>1. Kept(v, sim, Ws \cup {"current"})
    BY <1>4, <1>6, KeptBoth
  <2> QED BY <1>8, <1>14, <2>1, KeptBoth
<1>16. Rest'
  BY <1>1, <1>14, <1>15, RestGood
<1>17. /\ Whole'.effort = u.effort /\ Whole'.mentorIndex = u.mentorIndex
       /\ Whole'.ticketMentors = u.ticketMentors /\ Whole'.current = v.current
  BY <1>6, <1>8, <1>14 DEF Kept, Fields
<1>18. Whole.effort' = [Whole.effort EXCEPT ![t] = 0]
  <2>1. Whole'.effort = [sim.effort EXCEPT ![t] = IF @ > 0 THEN @ - 1 ELSE 0]
    BY <1>4, <1>17
  <2>2. (IF sim.effort[t] > 0 THEN sim.effort[t] - 1 ELSE 0) = 0
    BY <1>2
  <2>3. Whole'.effort = [sim.effort EXCEPT ![t] = 0]
    BY <2>1, <2>2
  <2> QED BY <1>1, <2>3
<1>19. P!ReleaseMentor(t, sim.phase[t])
  BY <1>1, <1>4, <1>17 DEF P!ReleaseMentor
<1>20. /\ Whole.phase' = [Whole.phase EXCEPT ![t] = @ + 1]
       /\ Whole.queue' = P!QueueAhead(t)
  BY <1>1, <1>2, <1>8, <1>14 DEF P!QueueAhead
<1>21. UNCHANGED <<P!placeVars, hands, Whole.team, Whole.cursor>>
  BY <1>1, <1>15 DEF Kept, Fields, P!placeVars
<1>22. UNCHANGED <<Whole.large, P!assetVars, P!sprintVars, P!releaseVars, pc, slot, noise>>
  BY <1>1, <1>15 DEF Kept, Fields, P!assetVars, P!sprintVars, P!releaseVars
<1>23. sim.phase[t] < NumPhases
  <2>1. NumPhases \in Nat
    BY SameAssumption DEF P!FlowAssumption
  <2> QED BY <1>2, <2>1 DEF Phases
<1>24. P!HandOff(d, t)
  BY <1>1, <1>6, <1>8, <1>14, <1>17, <1>18, <1>19, <1>20, <1>21, <1>23 DEF P!HandOff
<1>25. P!Work
  BY <1>1, <1>22, <1>24 DEF P!Work
<1> QED BY <1>16, <1>22, <1>25 DEF P!sprintVars

\* Whoever's turn it is: a developer at work is at work on an active ticket.
LEMMA WorkMaps ==
  ASSUME RInv, Work
  PROVE  P!Work /\ Rest'
<1>1. Whole = sim /\ Agree(sim)
  BY WholeNow DEF Work, Decide
<1>2. Head(todo) \in Devs
  <2>1. todo \in Seq(Devs) /\ todo # <<>>
    BY DEF Work, RInv, P!IInv, P!TypeOK
  <2> QED BY <2>1
<1>3. CASE sim.current[Head(todo)] = None
  BY <1>3, PassOverMaps
<1>4. CASE sim.current[Head(todo)] # None
  <2>1. PICK d \in Devs : d = Head(todo)
    BY <1>2
  <2>2. PICK t \in sim.active : t = sim.current[d]
    BY <1>1, <1>4, <2>1 DEF Agree
  <2>3. sim.effort[t] \in Nat
    BY <1>1 DEF RInv, P!IInv, P!TypeOK
  <2>4. CASE sim.effort[t] > 1
    BY <1>4, <2>1, <2>2, <2>4, ProgressMaps
  <2>5. CASE sim.effort[t] <= 1 /\ sim.phase[t] = NumPhases
    BY <1>4, <2>1, <2>2, <2>5, CompleteMaps
  <2>6. CASE sim.effort[t] <= 1 /\ sim.phase[t] # NumPhases
    BY <1>4, <2>1, <2>2, <2>6, HandOffMaps
  <2> QED BY <2>3, <2>4, <2>5, <2>6
<1> QED BY <1>3, <1>4

-----------------------------------------------------------------------------
(* The theorems *)

\* The rest of the invariant, once a step has kept that of Flow.
LEMMA RInvThen ==
  ASSUME P!IInv', Rest'
  PROVE  RInv'
BY DEF RInv, Rest

\* What a step will have done does not change when its events come in.
LEMMA EmitKeeps ==
  ASSUME RInv, Emit
  PROVE  RInv' /\ Whole' = Whole /\ UNCHANGED <<pc, todo, slot, noise, hands>>
<1>1. /\ plan # <<>> /\ sim' = Apply(sim, Head(plan)) /\ plan' = Tail(plan)
      /\ UNCHANGED <<pc, todo, slot, noise, hands>>
  BY DEF Emit, Unticked
<1>2. /\ IsList(plan') /\ Good(sim', plan') /\ Run(sim', plan') = Run(sim, plan)
  BY <1>1, GoodLater DEF RInv
<1>3. Whole' = Whole
  BY <1>2 DEF Whole, Run
<1>4. UNCHANGED P!vars
  BY <1>1, <1>3 DEF P!vars, P!ticketVars, P!devVars, P!placeVars, P!releaseVars,
                    P!sprintVars, P!assetVars, P!tickVars
<1>5. P!IInv'
  BY <1>4, SameAssumption, P!StutterKeeps DEF RInv
<1> QED BY <1>1, <1>2, <1>3, <1>5 DEF RInv

\* A step that changes nothing keeps the invariant and is a stutter.
LEMMA StutterIs ==
  ASSUME RInv, UNCHANGED vars
  PROVE  RInv' /\ Whole' = Whole
<1>1. UNCHANGED <<sim, plan, pc, todo, slot, noise, hands>>
  BY DEF vars
<1>2. Whole' = Whole
  BY <1>1 DEF Whole
<1>3. UNCHANGED P!vars
  BY <1>1, <1>2 DEF P!vars, P!ticketVars, P!devVars, P!placeVars, P!releaseVars,
                    P!sprintVars, P!assetVars, P!tickVars
<1>4. P!IInv'
  BY <1>3, SameAssumption, P!StutterKeeps DEF RInv
<1> QED BY <1>1, <1>2, <1>4 DEF RInv

\* Every step keeps the invariant, and is a step of Flow or changes nothing
\* that Flow knows of.
LEMMA NextKeeps ==
  ASSUME RInv, [Next]_vars
  PROVE  RInv' /\ [F!Next]_(F!vars)
<1>1. ASSUME StartSprint PROVE RInv' /\ F!Next
  <2>1. P!StartSprint /\ Rest' /\ P!IInv'
    BY <1>1, StartSprintMaps, SameAssumption, P!StartSprintKeeps DEF RInv
  <2> QED BY <2>1, RInvThen, SameStartSprint DEF F!Next
<1>2. ASSUME NEW t \in Tickets, NEW d \in Devs, AssignTicket(t, d) PROVE RInv' /\ F!Next
  <2>1. P!AssignTicket(t, d) /\ Rest' /\ P!IInv'
    BY <1>2, AssignTicketMaps, SameAssumption, P!AssignTicketKeeps DEF RInv
  <2> QED BY <2>1, RInvThen, SameAssignTicket DEF F!Next
<1>3. ASSUME NEW t \in Tickets, Decompose(t) PROVE RInv' /\ F!Next
  <2>1. P!Decompose(t) /\ Rest' /\ P!IInv'
    BY <1>3, DecomposeMaps, SameAssumption, P!DecomposeKeeps DEF RInv
  <2> QED BY <2>1, RInvThen, SameDecompose DEF F!Next
<1>4. ASSUME NEW o \in DOMAIN Cost, Invest(o) PROVE RInv' /\ F!Next
  <2>1. o \in P!Options /\ o \in F!Options
    BY ReplayAssumption, SameAssumption DEF F!FlowAssumption, P!FlowAssumption
  <2>2. P!Invest(o) /\ Rest' /\ P!IInv'
    BY <1>4, <2>1, InvestMaps, SameAssumption, P!InvestKeeps DEF RInv
  <2> QED BY <2>1, <2>2, RInvThen, SameInvest DEF F!Next
<1>5. ASSUME BeginTick PROVE RInv' /\ F!Next
  <2>1. P!BeginTick /\ Rest' /\ P!IInv'
    BY <1>5, BeginTickMaps, SameAssumption, P!BeginTickKeeps DEF RInv
  <2> QED BY <2>1, RInvThen, SameBeginTick DEF F!Next, F!Tick
<1>6. ASSUME Work PROVE RInv' /\ F!Next
  <2>1. P!Work /\ Rest' /\ P!IInv'
    BY <1>6, WorkMaps, SameAssumption, P!WorkKeeps DEF RInv
  <2> QED BY <2>1, RInvThen, SameWork DEF F!Next, F!Tick
<1>7. ASSUME Control PROVE RInv' /\ F!Next
  <2>1. P!Control /\ Rest' /\ P!IInv'
    BY <1>7, ControlMaps, SameAssumption, P!ControlKeeps DEF RInv
  <2> QED BY <2>1, RInvThen, SameControl DEF F!Next, F!Tick
<1>8. ASSUME AssignHead PROVE RInv' /\ F!Next
  <2>1. P!AssignHead /\ Rest' /\ P!IInv'
    BY <1>8, AssignHeadMaps, SameAssumption, P!AssignHeadKeeps DEF RInv
  <2> QED BY <2>1, RInvThen, SameAssignHead DEF F!Next, F!Tick
<1>9. ASSUME NextSlot PROVE RInv' /\ F!Next
  <2>1. P!NextSlot /\ Rest' /\ P!IInv' /\ Whole' = Whole
    BY <1>9, NextSlotMaps, SameAssumption, P!NextSlotKeeps DEF RInv
  <2> QED BY <2>1, RInvThen, SameNextSlot DEF F!Next, F!Tick
<1>10. ASSUME EndTick PROVE RInv' /\ F!Next
  <2>1. P!EndTick /\ Rest' /\ P!IInv'
    BY <1>10, EndTickMaps, SameAssumption, P!EndTickKeeps DEF RInv
  <2> QED BY <2>1, RInvThen, SameEndTick DEF F!Next, F!Tick
<1>11. ASSUME Emit \/ UNCHANGED vars PROVE RInv' /\ UNCHANGED F!vars
  <2>1. RInv' /\ Whole' = Whole /\ UNCHANGED <<pc, todo, slot, noise, hands>>
    BY <1>11, EmitKeeps, StutterIs DEF vars
  <2> QED BY <2>1 DEF F!vars, F!ticketVars, F!devVars, F!placeVars, F!releaseVars,
                      F!sprintVars, F!assetVars, F!tickVars
<1> QED BY <1>1, <1>2, <1>3, <1>4, <1>5, <1>6, <1>7, <1>8, <1>9, <1>10, <1>11
        DEF Next, Command, Tick

\* What the events of a step will have done satisfies the invariant of Flow,
\* and every event on the way leaves workers and tickets in agreement.
THEOREM ReplayInvariance == Spec => []RInv
<1>1. Init => RInv
  <2> SUFFICES ASSUME Init PROVE RInv
    OBVIOUS
  <2>1. P!IInv
    BY InitMaps, SameAssumption, P!InitInvariant
  <2> QED BY <2>1, InitMaps DEF RInv
<1>2. RInv /\ [Next]_vars => RInv'
  BY NextKeeps
<1> QED BY <1>1, <1>2, PTL DEF Spec

\* Whoever reads between two events of a step finds nobody on a ticket that is
\* not active or is somebody else's: advancePhaseEmitOnly releases the
\* developer before it queues the ticket.
THEOREM ReadersSeeOneWorker == Spec => []WorkersAgree
<1>1. RInv => WorkersAgree
  <2> SUFFICES ASSUME RInv PROVE WorkersAgree
    OBVIOUS
  <2>1. Agree(sim)
    BY GoodEnds DEF RInv
  <2> QED BY <2>1 DEF Agree, WorkersAgree
<1> QED BY <1>1, ReplayInvariance, PTL

\* The engine that decides on a projection and emits one event at a time
\* implements the engine of Flow, whose steps change everything at once: each
\* decision is the step of Flow it stands for, and each event a stutter.
THEOREM EventsImplementFlow == Spec => ImplementsFlow
<1>1. Init => F!Init
  BY InitMaps
<1>2. RInv /\ [Next]_vars => [F!Next]_(F!vars)
  BY NextKeeps
<1> QED BY <1>1, <1>2, ReplayInvariance, PTL DEF Spec, ImplementsFlow, F!Spec

-----------------------------------------------------------------------------
(* Lists of lists *)

\* The k-th of the lists in f joins the first k of zs.
JoinRec(f, zs, k) == IF k = 1 THEN zs[k] ELSE f[k - 1] \o zs[k]
IsJoin(f, zs, n) == f = [k \in 1..n |-> JoinRec(f, zs, k)]

\* There are such lists: they are found one after another.
LEMMA JoinExists ==
  ASSUME NEW zs, NEW n \in Nat
  PROVE  \E f : IsJoin(f, zs, n)
<1> DEFINE Upto(k, f) == /\ f = [i \in 1..n |-> f[i]]
                         /\ \A i \in 1..n : i <= k => f[i] = JoinRec(f, zs, i)
           K == {k \in 0..n : \E f : Upto(k, f)}
<1>1. 0 \in K
  <2> DEFINE f == [i \in 1..n |-> zs]
  <2>1. f = [i \in 1..n |-> f[i]]
    OBVIOUS
  <2> HIDE DEF f
  <2>2. Upto(0, f)
    BY <2>1
  <2> HIDE DEF Upto
  <2> QED BY <2>2
<1>2. ASSUME NEW k \in 1..n, NEW f, Upto(k - 1, f) PROVE \E g : Upto(k, g)
  <2> DEFINE g == [i \in 1..n |-> JoinRec(f, zs, i)]
  <2>1. ASSUME NEW i \in 1..n, i <= k PROVE g[i] = JoinRec(g, zs, i)
    <3>1. g[i] = JoinRec(f, zs, i)
      OBVIOUS
    <3>2. CASE i = 1
      BY <3>1, <3>2 DEF JoinRec
    <3>3. CASE i # 1
      <4>1. i - 1 \in 1..n /\ i - 1 <= k - 1
        BY <2>1, <3>3
      <4>2. g[i - 1] = JoinRec(f, zs, i - 1) /\ f[i - 1] = JoinRec(f, zs, i - 1)
        BY <1>2, <4>1
      <4> HIDE DEF g
      <4> QED BY <3>1, <3>3, <4>2 DEF JoinRec
    <3> QED BY <3>2, <3>3
  <2>2. g = [i \in 1..n |-> g[i]]
    OBVIOUS
  <2> HIDE DEF g
  <2> QED BY <2>1, <2>2
<1> HIDE DEF Upto
<1>3. ASSUME NEW k \in 1..n, k - 1 \in K PROVE k \in K
  <2>1. PICK f : Upto(k - 1, f)
    BY <1>3
  <2> QED BY <1>2, <2>1
<1>4. n \in K
  <2> HIDE DEF K
  <2> QED BY <1>1, <1>3, UpTo
<1>5. PICK f : Upto(n, f)
  BY <1>4
<1>6. /\ f = [i \in 1..n |-> f[i]]
      /\ \A i \in 1..n : f[i] = JoinRec(f, zs, i)
  BY <1>5 DEF Upto
<1>7. f = [i \in 1..n |-> JoinRec(f, zs, i)]
  BY <1>6
<1> QED BY <1>7 DEF IsJoin

\* s[k] is the state after the first k of the lists zs, from b.
IsWalk(s, b, zs, n) == s[0] = b /\ \A k \in 1..n : s[k] = Run(s[k - 1], zs[k])

\* Lists that are joined run one after another.
LEMMA RunLists ==
  ASSUME NEW b, NEW n \in Nat, NEW zs, zs = [i \in 1..n |-> zs[i]],
         \A i \in 1..n : IsList(zs[i])
  PROVE  /\ IsList(FlattenSeq(zs))
         /\ \E s : IsWalk(s, b, zs, n) /\ Run(b, FlattenSeq(zs)) = s[n]
<1>1. IsList(zs) /\ Len(zs) = n
  BY ListFun
<1>2. CASE n = 0
  <2>1. zs = <<>>
    BY <1>1, <1>2 DEF IsList
  <2>2. FlattenSeq(zs) = <<>>
    BY <1>1, <1>2, <2>1 DEF FlattenSeq
  <2> DEFINE s == [k \in 0..0 |-> b]
  <2>3. s[0] = b
    OBVIOUS
  <2> HIDE DEF s
  <2>4. IsWalk(s, b, zs, n)
    BY <1>2, <2>3 DEF IsWalk
  <2> QED BY <1>2, <2>2, <2>3, <2>4, ListNone, RunNone
<1>3. CASE n # 0
  <2> DEFINE f == CHOOSE g : IsJoin(g, zs, n)
             s == [k \in 0..n |-> IF k = 0 THEN b ELSE Run(b, f[k])]
             K == {k \in 0..n : k # 0 => IsList(f[k])}
  <2>1. IsJoin(f, zs, n)
    BY JoinExists
  <2>2. FlattenSeq(zs) = f[n]
    BY <1>1, <1>3 DEF FlattenSeq, IsJoin, JoinRec
  <2> HIDE DEF f
  <2>3. \A k \in 1..n : f[k] = IF k = 1 THEN zs[k] ELSE f[k - 1] \o zs[k]
    BY <2>1 DEF IsJoin, JoinRec
  <2>4. ASSUME NEW k \in 1..n, k - 1 \in K PROVE k \in K
    <3>1. CASE k = 1
      BY <2>3, <3>1
    <3>2. CASE k # 1
      <4>1. k - 1 # 0 /\ k \in 0..n
        BY <3>2
      <4>2. IsList(f[k - 1]) /\ IsList(zs[k])
        BY <2>4, <4>1
      <4>3. f[k] = f[k - 1] \o zs[k]
        BY <2>3, <3>2
      <4>4. IsList(f[k])
        BY <4>2, <4>3, ListBoth
      <4> QED BY <4>1, <4>4
    <3> QED BY <3>1, <3>2
  <2>5. \A k \in 1..n : IsList(f[k])
    <3>1. 0 \in K
      OBVIOUS
    <3>2. \A k \in 0..n : k \in K
      <4> HIDE DEF K
      <4> QED BY <2>4, <3>1, UpTo
    <3> QED BY <3>2
  <2>6. ASSUME NEW k \in 1..n PROVE s[k] = Run(s[k - 1], zs[k])
    <3>1. s[k] = Run(b, f[k])
      OBVIOUS
    <3>2. CASE k = 1
      <4>1. s[0] = b /\ f[1] = zs[1]
        BY <2>3, <3>2
      <4> HIDE DEF s
      <4> QED BY <3>1, <3>2, <4>1
    <3>3. CASE k # 1
      <4>1. k - 1 \in 1..n
        BY <3>3
      <4>2. s[k - 1] = Run(b, f[k - 1])
        BY <4>1
      <4>3. f[k] = f[k - 1] \o zs[k] /\ IsList(f[k - 1]) /\ IsList(zs[k])
        BY <2>3, <2>5, <3>3, <4>1
      <4> HIDE DEF s
      <4> QED BY <3>1, <4>2, <4>3, ListBoth
    <3> QED BY <3>2, <3>3
  <2>7. s[0] = b /\ s[n] = Run(b, f[n]) /\ n \in 1..n
    BY <1>3
  <2> HIDE DEF s
  <2>8. IsWalk(s, b, zs, n)
    BY <2>6, <2>7 DEF IsWalk
  <2> QED BY <2>2, <2>5, <2>7, <2>8
<1> QED BY <1>2, <1>3

-----------------------------------------------------------------------------
(* What a load brings back, ticket by ticket *)

\* A restored ticket is active again, as it was saved.
LEMMA AfterRestored ==
  ASSUME NEW s, IsSim(s), NEW e, e.type = "TicketStateRestored", e.ticket \in s.backlog
  PROVE  LET u == Apply(s, e) IN
         /\ Kept(u, s, {"backlog", "triaged", "active", "phase", "effort", "assignedTo", "current"})
         /\ u.backlog = s.backlog \ {e.ticket} /\ u.triaged = s.triaged \ {e.ticket}
         /\ u.active = s.active \cup {e.ticket}
         /\ u.phase = [s.phase EXCEPT ![e.ticket] = e.phase]
         /\ u.effort = [s.effort EXCEPT ![e.ticket] = e.effort]
         /\ u.assignedTo = [s.assignedTo EXCEPT ![e.ticket] = e.dev]
<1> DEFINE u == OnTicketStateRestored(s, e)
<1>1. Apply(s, e) = u
  BY DEF Apply
<1>2. /\ DOMAIN u = Fields
      /\ \A f \in Fields \ {"backlog", "triaged", "active", "phase", "effort", "assignedTo",
                            "current"} : u[f] = s[f]
  BY DEF OnTicketStateRestored, IsSim, Fields
<1>3. /\ u.backlog = s.backlog \ {e.ticket} /\ u.triaged = s.triaged \ {e.ticket}
      /\ u.active = s.active \cup {e.ticket}
  BY DEF OnTicketStateRestored, IsSim, Fields
<1>4. /\ u.phase = [s.phase EXCEPT ![e.ticket] = e.phase]
      /\ u.effort = [s.effort EXCEPT ![e.ticket] = e.effort]
      /\ u.assignedTo = [s.assignedTo EXCEPT ![e.ticket] = e.dev]
  BY DEF OnTicketStateRestored, IsSim, Fields
<1> HIDE DEF u
<1> QED BY <1>1, <1>2, <1>3, <1>4 DEF Kept, IsSim

\* A ticket that is created anew, of what was saved.
LEMMA AfterRecreated ==
  ASSUME NEW s, IsSim(s), NEW v, NEW t
  PROVE  LET u == Apply(s, Recreated(v, t)) IN
         /\ Kept(u, s, {"backlog", "triaged", "large"})
         /\ u.backlog = s.backlog \cup {t}
         /\ t \in v.triaged => u.triaged = s.triaged \cup {t}
         /\ t \notin v.triaged => u.triaged = s.triaged
<1> DEFINE e == Recreated(v, t)
<1>1. e.type = "TicketCreated" /\ e.ticket = t /\ (e.triaged <=> t \in v.triaged)
  BY DEF Recreated, TicketCreated
<1> HIDE DEF e
<1>2. /\ Kept(Apply(s, e), s, {"backlog", "triaged", "large"})
      /\ Apply(s, e).backlog = s.backlog \cup {e.ticket}
      /\ Apply(s, e).triaged = IF e.triaged THEN s.triaged \cup {e.ticket} ELSE s.triaged
  BY <1>1, AfterTicketCreated
<1>3. /\ Kept(Apply(s, e), s, {"backlog", "triaged", "large"})
      /\ Apply(s, e).backlog = s.backlog \cup {t}
      /\ t \in v.triaged => Apply(s, e).triaged = s.triaged \cup {t}
      /\ t \notin v.triaged => Apply(s, e).triaged = s.triaged
  BY <1>1, <1>2
<1> QED BY <1>3 DEF e

\* t is nowhere yet, and was saved untriaged.
Absent(s, v, t) ==
  /\ IsSim(s)
  /\ t \notin s.backlog \cup s.triaged \cup s.committed \cup s.active
  /\ t \notin v.triaged

\* u is s with the ticket t active, as it was saved.
Restores(u, s, v, t) ==
  /\ Kept(u, s, {"active", "phase", "effort", "assignedTo", "current", "large"})
  /\ u.active = s.active \cup {t}
  /\ u.phase = [s.phase EXCEPT ![t] = v.phase[t]]
  /\ u.effort = [s.effort EXCEPT ![t] = v.effort[t]]
  /\ u.assignedTo = [s.assignedTo EXCEPT ![t] = v.assignedTo[t]]

\* The two events of an active ticket do that.
LEMMA RestoreOne ==
  ASSUME NEW s, NEW v, NEW t, Absent(s, v, t)
  PROVE  IsList(LoadActive(v, t)) /\ Restores(Run(s, LoadActive(v, t)), s, v, t)
<1> DEFINE e == Recreated(v, t)
           f == TicketStateRestored(t, v.assignedTo[t], v.phase[t], v.effort[t])
           r == Apply(s, e)
           u == Apply(r, f)
<1>1. LoadActive(v, t) = <<e>> \o <<f>>
  BY PairIs DEF LoadActive
<1>2. /\ f.type = "TicketStateRestored" /\ f.ticket = t /\ f.phase = v.phase[t]
      /\ f.effort = v.effort[t] /\ f.dev = v.assignedTo[t]
  BY DEF TicketStateRestored
<1>3. /\ Kept(r, s, {"backlog", "triaged", "large"})
      /\ r.backlog = s.backlog \cup {t} /\ r.triaged = s.triaged
  BY AfterRecreated DEF Absent
<1>4. IsList(<<e>> \o <<f>>) /\ Run(s, <<e>> \o <<f>>) = u
  <2> HIDE DEF e, f
  <2>1. IsList(<<e>>) /\ IsList(<<f>>) /\ Run(s, <<e>>) = r /\ Run(r, <<f>>) = u
    BY ListOne, RunOne
  <2> QED BY <2>1, ListBoth
<1> HIDE DEF e, f, r
<1>5. /\ Kept(u, r, {"backlog", "triaged", "active", "phase", "effort", "assignedTo", "current"})
      /\ u.backlog = r.backlog \ {t} /\ u.triaged = r.triaged \ {t}
      /\ u.active = r.active \cup {t}
      /\ u.phase = [r.phase EXCEPT ![t] = v.phase[t]]
      /\ u.effort = [r.effort EXCEPT ![t] = v.effort[t]]
      /\ u.assignedTo = [r.assignedTo EXCEPT ![t] = v.assignedTo[t]]
  <2>1. IsSim(r) /\ f.ticket \in r.backlog
    BY <1>2, <1>3 DEF Kept
  <2> HIDE DEF u
  <2>2. /\ Kept(u, r, {"backlog", "triaged", "active", "phase", "effort", "assignedTo", "current"})
        /\ u.backlog = r.backlog \ {f.ticket} /\ u.triaged = r.triaged \ {f.ticket}
        /\ u.active = r.active \cup {f.ticket}
        /\ u.phase = [r.phase EXCEPT ![f.ticket] = f.phase]
        /\ u.effort = [r.effort EXCEPT ![f.ticket] = f.effort]
        /\ u.assignedTo = [r.assignedTo EXCEPT ![f.ticket] = f.dev]
    BY <1>2, <2>1, AfterRestored DEF u
  <2> QED BY <1>2, <2>2
<1> HIDE DEF u
<1>6. u.backlog = s.backlog /\ u.triaged = s.triaged
  BY <1>3, <1>5 DEF Absent
<1>7. /\ r.active = s.active /\ r.phase = s.phase /\ r.effort = s.effort
      /\ r.assignedTo = s.assignedTo
  BY <1>3 DEF Kept, Fields
<1>8. Kept(u, s, {"active", "phase", "effort", "assignedTo", "current", "large"})
  BY <1>3, <1>5, <1>6 DEF Kept, Fields
<1> QED BY <1>1, <1>4, <1>5, <1>7, <1>8 DEF Restores

\* u is s with the ticket t completed, whose it was.
Finishes(u, s, v, t) ==
  /\ Kept(u, s, {"completed", "phase", "effort", "assignedTo", "current", "large", "queue",
                 "cursor"})
  /\ u.completed = s.completed \cup {t}
  /\ u.phase = [s.phase EXCEPT ![t] = Done]
  /\ u.effort = [s.effort EXCEPT ![t] = 1]
  /\ u.assignedTo = [s.assignedTo EXCEPT ![t] = v.assignedTo[t]]

\* The three events of a completed ticket do that.
LEMMA FinishOne ==
  ASSUME NEW s, NEW v, NEW t, Absent(s, v, t)
  PROVE  IsList(LoadCompleted(v, t)) /\ Finishes(Run(s, LoadCompleted(v, t)), s, v, t)
<1> DEFINE e == Recreated(v, t)
           f == TicketAssigned(t, v.assignedTo[t], 1, 1)
           g == TicketCompleted(t, v.assignedTo[t])
           r == Apply(s, e)
           w == Apply(r, f)
           u == Apply(w, g)
<1>1. LoadCompleted(v, t) = (<<e>> \o <<f>>) \o <<g>>
  <2>1. \A x, y, z : <<x, y, z>> = <<x, y>> \o <<z>>
    OBVIOUS
  <2> QED BY <2>1, PairIs DEF LoadCompleted
<1>2. /\ f.type = "TicketAssigned" /\ f.ticket = t /\ f.phase = 1
      /\ f.effort = 1 /\ f.dev = v.assignedTo[t]
      /\ g.type = "TicketCompleted" /\ g.ticket = t
  BY DEF TicketAssigned, TicketCompleted
<1>3. /\ Kept(r, s, {"backlog", "triaged", "large"})
      /\ r.backlog = s.backlog \cup {t} /\ r.triaged = s.triaged
  BY AfterRecreated DEF Absent
<1>4. /\ IsList((<<e>> \o <<f>>) \o <<g>>)
      /\ Run(s, (<<e>> \o <<f>>) \o <<g>>) = u
  <2> HIDE DEF e, f, g
  <2>1. /\ IsList(<<e>>) /\ IsList(<<f>>) /\ IsList(<<g>>)
        /\ Run(s, <<e>>) = r /\ Run(r, <<f>>) = w /\ Run(w, <<g>>) = u
    BY ListOne, RunOne
  <2>2. IsList(<<e>> \o <<f>>) /\ Run(s, <<e>> \o <<f>>) = w
    BY <2>1, ListBoth
  <2> HIDE DEF w
  <2> QED BY <2>1, <2>2, ListBoth
<1> HIDE DEF e, f, g, r
<1>5. /\ Kept(w, r, {"backlog", "triaged", "committed", "active", "phase", "assignedTo",
                     "effort", "queue", "current", "cursor"})
      /\ w.backlog = r.backlog \ {t} /\ w.triaged = r.triaged \ {t}
      /\ w.committed = r.committed \ {t} /\ w.active = r.active \cup {t}
      /\ w.phase = [r.phase EXCEPT ![t] = 1]
      /\ w.assignedTo = [r.assignedTo EXCEPT ![t] = v.assignedTo[t]]
      /\ w.effort = [r.effort EXCEPT ![t] = 1]
  <2>1. IsSim(r) /\ f.ticket \in r.backlog \cup r.committed
    BY <1>2, <1>3 DEF Kept
  <2> HIDE DEF w
  <2>2. f.type = "TicketAssigned" /\ w = Apply(r, f)
    BY <1>2 DEF w
  <2>3. /\ Kept(w, r, {"backlog", "triaged", "committed", "active", "phase", "assignedTo",
                       "effort", "queue", "current", "cursor"})
        /\ w.backlog = r.backlog \ {f.ticket} /\ w.triaged = r.triaged \ {f.ticket}
        /\ w.committed = r.committed \ {f.ticket}
        /\ w.active = r.active \cup {f.ticket}
        /\ w.phase = [r.phase EXCEPT ![f.ticket] = f.phase]
        /\ w.queue = [r.queue EXCEPT ![f.phase] = @]
        /\ w.current = [r.current EXCEPT ![f.dev] = f.ticket] /\ w.cursor = Place(r, f.dev)
        /\ w.assignedTo = [r.assignedTo EXCEPT ![f.ticket] = f.dev]
        /\ w.effort = [r.effort EXCEPT ![f.ticket] = f.effort]
    BY <2>1, <2>2, AfterStarted
  <2> QED BY <1>2, <2>3
<1> HIDE DEF w
<1>6. /\ Kept(u, w, {"active", "completed", "phase", "current"})
      /\ u.active = w.active \ {t} /\ u.completed = w.completed \cup {t}
      /\ u.phase = [w.phase EXCEPT ![t] = Done]
  <2>1. IsSim(w)
    BY <1>5 DEF Kept
  <2> HIDE DEF u
  <2>2. /\ Kept(u, w, {"active", "completed", "phase", "current"})
        /\ u.active = w.active \ {g.ticket} /\ u.completed = w.completed \cup {g.ticket}
        /\ u.phase = [w.phase EXCEPT ![g.ticket] = Done]
    <3>1. g.type = "TicketCompleted" /\ u = Apply(w, g)
      BY <1>2 DEF u
    <3> QED BY <2>1, <3>1, AfterCompleted
  <2> QED BY <1>2, <2>2
<1> HIDE DEF u
<1>7. /\ u.backlog = s.backlog /\ u.triaged = s.triaged /\ u.committed = s.committed
      /\ u.active = s.active /\ u.completed = s.completed \cup {t}
  <2>1. /\ u.backlog = w.backlog /\ u.triaged = w.triaged /\ u.committed = w.committed
        /\ w.completed = r.completed /\ r.committed = s.committed /\ r.active = s.active
        /\ r.completed = s.completed
    BY <1>3, <1>5, <1>6 DEF Kept, Fields
  <2> QED BY <1>3, <1>5, <1>6, <2>1 DEF Absent
<1>8. /\ u.phase = [s.phase EXCEPT ![t] = Done] /\ u.effort = [s.effort EXCEPT ![t] = 1]
      /\ u.assignedTo = [s.assignedTo EXCEPT ![t] = v.assignedTo[t]]
  <2>1. /\ u.effort = w.effort /\ u.assignedTo = w.assignedTo
        /\ r.phase = s.phase /\ r.effort = s.effort /\ r.assignedTo = s.assignedTo
    BY <1>3, <1>5, <1>6 DEF Kept, Fields
  <2>2. [[s.phase EXCEPT ![t] = 1] EXCEPT ![t] = Done] = [s.phase EXCEPT ![t] = Done]
    OBVIOUS
  <2> QED BY <1>5, <1>6, <2>1, <2>2
<1>9. Kept(u, s, {"completed", "phase", "effort", "assignedTo", "current", "large", "queue",
                  "cursor"})
  BY <1>3, <1>5, <1>6, <1>7 DEF Kept, Fields
<1> QED BY <1>1, <1>4, <1>7, <1>8, <1>9 DEF Finishes

-----------------------------------------------------------------------------
(* What a load brings back, list by list *)

\* The events of a load for all tickets of a list.
Recreations(v, S) == InOrder(S, LAMBDA t : Recreated(v, t))
Restorations(v, S) == InOrder(S, LAMBDA t : LoadActive(v, t))
Completions(v, S) == InOrder(S, LAMBDA t : LoadCompleted(v, t))

\* All of S are created anew.
LEMMA RecreateAll ==
  ASSUME NEW b, IsSim(b), NEW v, NEW S, IsFiniteSet(S)
  PROVE  LET u == Run(b, Recreations(v, S)) IN
         /\ IsList(Recreations(v, S))
         /\ Kept(u, b, {"backlog", "triaged", "large"})
         /\ u.backlog = b.backlog \cup S
         /\ u.triaged = b.triaged \cup (v.triaged \cap S)
<1> DEFINE q == SetToSeq(S)
           es == Recreations(v, S)
<1>1. PICK n : Lists(q, n, S)
  BY ListOf
<1>2. /\ DOMAIN es = 1..n /\ n \in Nat /\ \A k \in 1..n : es[k] = Recreated(v, q[k])
      /\ es = [k \in 1..n |-> es[k]]
  BY <1>1 DEF InOrder, Recreations, Lists
<1> HIDE DEF q, es
<1>3. PICK f : IsRun(f, b, es, n) /\ Run(b, es) = f[n]
  <2>1. DOMAIN es = 1..n /\ n \in Nat
    BY <1>2
  <2> QED BY <2>1, RunExists
<1> DEFINE K == {k \in 0..n : /\ Kept(f[k], b, {"backlog", "triaged", "large"})
                             /\ f[k].backlog = b.backlog \cup FirstOf(q, k)
                             /\ f[k].triaged = b.triaged \cup (v.triaged \cap FirstOf(q, k))}
<1>4. 0 \in K
  BY <1>1, <1>2, <1>3 DEF IsRun, Kept, Lists
<1>5. ASSUME NEW k \in 1..n, k - 1 \in K PROVE k \in K
  <2>1. f[k] = Apply(f[k - 1], Recreated(v, q[k]))
    BY <1>2, <1>3 DEF IsRun
  <2>2. /\ Kept(f[k - 1], b, {"backlog", "triaged", "large"})
        /\ f[k - 1].backlog = b.backlog \cup FirstOf(q, k - 1)
        /\ f[k - 1].triaged = b.triaged \cup (v.triaged \cap FirstOf(q, k - 1))
    BY <1>5
  <2>3. FirstOf(q, k) = FirstOf(q, k - 1) \cup {q[k]}
    BY <1>1 DEF Lists
  <2>4. IsSim(f[k - 1])
    BY <2>2 DEF Kept
  <2>5. /\ Kept(f[k], f[k - 1], {"backlog", "triaged", "large"})
        /\ f[k].backlog = f[k - 1].backlog \cup {q[k]}
        /\ q[k] \in v.triaged => f[k].triaged = f[k - 1].triaged \cup {q[k]}
        /\ q[k] \notin v.triaged => f[k].triaged = f[k - 1].triaged
    <3> HIDE DEF K
    <3> QED BY <2>1, <2>4, AfterRecreated
  <2>6. f[k].triaged = b.triaged \cup (v.triaged \cap FirstOf(q, k))
    BY <2>2, <2>3, <2>5
  <2> QED BY <2>2, <2>3, <2>5, <2>6 DEF Kept
<1>6. n \in K
  <2> HIDE DEF K
  <2>1. n \in Nat /\ 0 \in K /\ \A k \in 1..n : k - 1 \in K => k \in K
    BY <1>2, <1>4, <1>5
  <2> QED BY <2>1, UpTo
<1>7. IsList(es)
  BY <1>2, ListFun
<1> QED BY <1>1, <1>3, <1>6, <1>7 DEF Lists, es

\* u is s with the tickets of A active, as they were saved.
RestoresAll(u, s, v, A) ==
  /\ Kept(u, s, {"active", "phase", "effort", "assignedTo", "current", "large"})
  /\ u.active = s.active \cup A
  /\ u.phase = [t \in Tickets |-> IF t \in A THEN v.phase[t] ELSE s.phase[t]]
  /\ u.effort = [t \in Tickets |-> IF t \in A THEN v.effort[t] ELSE s.effort[t]]
  /\ u.assignedTo = [t \in Tickets |-> IF t \in A THEN v.assignedTo[t] ELSE s.assignedTo[t]]

\* u is s with the tickets of A completed, whose they were.
FinishesAll(u, s, v, A) ==
  /\ Kept(u, s, {"completed", "phase", "effort", "assignedTo", "current", "large", "queue",
                 "cursor"})
  /\ u.completed = s.completed \cup A
  /\ u.phase = [t \in Tickets |-> IF t \in A THEN Done ELSE s.phase[t]]
  /\ u.effort = [t \in Tickets |-> IF t \in A THEN 1 ELSE s.effort[t]]
  /\ u.assignedTo = [t \in Tickets |-> IF t \in A THEN v.assignedTo[t] ELSE s.assignedTo[t]]

\* s says something of every ticket.
Covers(s) ==
  /\ s.phase = [t \in Tickets |-> s.phase[t]]
  /\ s.effort = [t \in Tickets |-> s.effort[t]]
  /\ s.assignedTo = [t \in Tickets |-> s.assignedTo[t]]

\* With one more ticket restored, one more of the list is as it was saved.
LEMMA RestoreMore ==
  ASSUME NEW u, NEW r, NEW s, NEW v, NEW A, NEW t \in Tickets,
         RestoresAll(r, s, v, A), Restores(u, r, v, t)
  PROVE  RestoresAll(u, s, v, A \cup {t})
<1>1. Kept(u, s, {"active", "phase", "effort", "assignedTo", "current", "large"})
  BY DEF RestoresAll, Restores, Kept
<1>2. u.active = s.active \cup (A \cup {t})
  BY DEF RestoresAll, Restores
<1>3. u.phase = [x \in Tickets |-> IF x \in A \cup {t} THEN v.phase[x] ELSE s.phase[x]]
  BY DEF RestoresAll, Restores
<1>4. u.effort = [x \in Tickets |-> IF x \in A \cup {t} THEN v.effort[x] ELSE s.effort[x]]
  BY DEF RestoresAll, Restores
<1>5. u.assignedTo =
        [x \in Tickets |-> IF x \in A \cup {t} THEN v.assignedTo[x] ELSE s.assignedTo[x]]
  BY DEF RestoresAll, Restores
<1> QED BY <1>1, <1>2, <1>3, <1>4, <1>5 DEF RestoresAll

\* With one more ticket completed, one more of the list is.
LEMMA FinishMore ==
  ASSUME NEW u, NEW r, NEW s, NEW v, NEW A, NEW t \in Tickets,
         FinishesAll(r, s, v, A), Finishes(u, r, v, t)
  PROVE  FinishesAll(u, s, v, A \cup {t})
<1>1. Kept(u, s, {"completed", "phase", "effort", "assignedTo", "current", "large", "queue",
                  "cursor"})
  BY DEF FinishesAll, Finishes, Kept
<1>2. u.completed = s.completed \cup (A \cup {t})
  BY DEF FinishesAll, Finishes
<1>3. u.phase = [x \in Tickets |-> IF x \in A \cup {t} THEN Done ELSE s.phase[x]]
  BY DEF FinishesAll, Finishes
<1>4. u.effort = [x \in Tickets |-> IF x \in A \cup {t} THEN 1 ELSE s.effort[x]]
  BY DEF FinishesAll, Finishes
<1>5. u.assignedTo =
        [x \in Tickets |-> IF x \in A \cup {t} THEN v.assignedTo[x] ELSE s.assignedTo[x]]
  BY DEF FinishesAll, Finishes
<1> QED BY <1>1, <1>2, <1>3, <1>4, <1>5 DEF FinishesAll

\* All of S are active again.
LEMMA RestoreAll ==
  ASSUME NEW b, NEW v, NEW S, IsFiniteSet(S), S \subseteq Tickets, IsSim(b), Covers(b),
         \A t \in S : Absent(b, v, t)
  PROVE  LET es == FlattenSeq(Restorations(v, S)) IN
         IsList(es) /\ RestoresAll(Run(b, es), b, v, S)
<1> DEFINE q == SetToSeq(S)
           zs == Restorations(v, S)
           es == FlattenSeq(zs)
<1>1. PICK n : Lists(q, n, S)
  BY ListOf
<1>2. /\ n \in Nat /\ zs = [k \in 1..n |-> zs[k]]
      /\ \A k \in 1..n : zs[k] = LoadActive(v, q[k]) /\ q[k] \in S
  BY <1>1 DEF InOrder, Restorations, Lists
<1> HIDE DEF q, zs
<1>3. \A k \in 1..n : IsList(zs[k])
  BY <1>2, RestoreOne
<1>4. IsList(es) /\ \E s : IsWalk(s, b, zs, n) /\ Run(b, es) = s[n]
  <2>1. n \in Nat /\ zs = [k \in 1..n |-> zs[k]]
    BY <1>2
  <2>2. /\ IsList(FlattenSeq(zs))
        /\ \E s : IsWalk(s, b, zs, n) /\ Run(b, FlattenSeq(zs)) = s[n]
    BY <1>3, <2>1, RunLists
  <2> QED BY <2>2
<1>5. PICK s : IsWalk(s, b, zs, n) /\ Run(b, es) = s[n]
  BY <1>4
<1> HIDE DEF es
<1> DEFINE K == {k \in 0..n : RestoresAll(s[k], b, v, FirstOf(q, k))}
<1>6. 0 \in K
  <2>1. s[0] = b /\ FirstOf(q, 0) = {}
    BY <1>1, <1>5 DEF IsWalk, Lists
  <2>2. RestoresAll(b, b, v, {})
    BY DEF RestoresAll, Kept, Covers
  <2>3. RestoresAll(s[0], b, v, FirstOf(q, 0))
    BY <2>1, <2>2
  <2>4. n \in Nat
    BY <1>2
  <2> QED BY <2>3, <2>4
<1>7. ASSUME NEW k \in 1..n, k - 1 \in K PROVE k \in K
  <2> DEFINE t == q[k]
             r == s[k - 1]
             A == FirstOf(q, k - 1)
  <2>1. t \in S /\ t \in Tickets /\ t \notin A /\ FirstOf(q, k) = A \cup {t} /\ k \in 0..n
    BY <1>1 DEF Lists
  <2>2. s[k] = Run(r, LoadActive(v, t))
    BY <1>2, <1>5 DEF IsWalk
  <2>3. RestoresAll(r, b, v, A)
    BY <1>7
  <2> HIDE DEF t, r, A, K
  <2>4. Absent(r, v, t)
    <3>1. Absent(b, v, t)
      BY <2>1
    <3> QED BY <2>1, <2>3, <3>1 DEF RestoresAll, Absent, Kept, Fields
  <2>5. Restores(s[k], r, v, t)
    BY <2>2, <2>4, RestoreOne
  <2>6. RestoresAll(s[k], b, v, FirstOf(q, k))
    BY <2>1, <2>3, <2>5, RestoreMore
  <2> QED BY <2>1, <2>6 DEF K
<1>8. n \in K
  <2> HIDE DEF K
  <2> QED BY <1>2, <1>6, <1>7, UpTo
<1>9. RestoresAll(Run(b, es), b, v, S)
  BY <1>1, <1>5, <1>8 DEF Lists
<1> QED BY <1>4, <1>9 DEF es, zs

\* All of S are completed again.
LEMMA FinishAll ==
  ASSUME NEW b, NEW v, NEW S, IsFiniteSet(S), S \subseteq Tickets, IsSim(b), Covers(b),
         \A t \in S : Absent(b, v, t)
  PROVE  LET es == FlattenSeq(Completions(v, S)) IN
         IsList(es) /\ FinishesAll(Run(b, es), b, v, S)
<1> DEFINE q == SetToSeq(S)
           zs == Completions(v, S)
           es == FlattenSeq(zs)
<1>1. PICK n : Lists(q, n, S)
  BY ListOf
<1>2. /\ n \in Nat /\ zs = [k \in 1..n |-> zs[k]]
      /\ \A k \in 1..n : zs[k] = LoadCompleted(v, q[k]) /\ q[k] \in S
  BY <1>1 DEF InOrder, Completions, Lists
<1> HIDE DEF q, zs
<1>3. \A k \in 1..n : IsList(zs[k])
  BY <1>2, FinishOne
<1>4. IsList(es) /\ \E s : IsWalk(s, b, zs, n) /\ Run(b, es) = s[n]
  <2>1. n \in Nat /\ zs = [k \in 1..n |-> zs[k]]
    BY <1>2
  <2>2. /\ IsList(FlattenSeq(zs))
        /\ \E s : IsWalk(s, b, zs, n) /\ Run(b, FlattenSeq(zs)) = s[n]
    BY <1>3, <2>1, RunLists
  <2> QED BY <2>2
<1>5. PICK s : IsWalk(s, b, zs, n) /\ Run(b, es) = s[n]
  BY <1>4
<1> HIDE DEF es
<1> DEFINE K == {k \in 0..n : FinishesAll(s[k], b, v, FirstOf(q, k))}
<1>6. 0 \in K
  <2>1. s[0] = b /\ FirstOf(q, 0) = {}
    BY <1>1, <1>5 DEF IsWalk, Lists
  <2>2. FinishesAll(b, b, v, {})
    BY DEF FinishesAll, Kept, Covers
  <2>3. FinishesAll(s[0], b, v, FirstOf(q, 0))
    BY <2>1, <2>2
  <2>4. n \in Nat
    BY <1>2
  <2> QED BY <2>3, <2>4
<1>7. ASSUME NEW k \in 1..n, k - 1 \in K PROVE k \in K
  <2> DEFINE t == q[k]
             r == s[k - 1]
             A == FirstOf(q, k - 1)
  <2>1. t \in S /\ t \in Tickets /\ t \notin A /\ FirstOf(q, k) = A \cup {t} /\ k \in 0..n
    BY <1>1 DEF Lists
  <2>2. s[k] = Run(r, LoadCompleted(v, t))
    BY <1>2, <1>5 DEF IsWalk
  <2>3. FinishesAll(r, b, v, A)
    BY <1>7
  <2> HIDE DEF t, r, A, K
  <2>4. Absent(r, v, t)
    <3>1. Absent(b, v, t)
      BY <2>1
    <3> QED BY <2>1, <2>3, <3>1 DEF FinishesAll, Absent, Kept, Fields
  <2>5. Finishes(s[k], r, v, t)
    BY <2>2, <2>4, FinishOne
  <2>6. FinishesAll(s[k], b, v, FirstOf(q, k))
    BY <2>1, <2>3, <2>5, FinishMore
  <2> QED BY <2>1, <2>6 DEF K
<1>8. n \in K
  <2> HIDE DEF K
  <2> QED BY <1>2, <1>6, <1>7, UpTo
<1>9. FinishesAll(Run(b, es), b, v, S)
  BY <1>1, <1>5, <1>8 DEF Lists
<1> QED BY <1>4, <1>9 DEF es, zs

-----------------------------------------------------------------------------
(* A load *)

\* What is saved between commands: the lists of tickets are apart, and the
\* number of the sprint is not above the limit it is cut off at.
CanBeSaved(v) ==
  /\ {v.backlog, v.active, v.completed} \subseteq SUBSET Tickets
  /\ v.triaged \subseteq v.backlog
  /\ v.backlog \cap v.active = {} /\ v.backlog \cap v.completed = {}
  /\ v.active \cap v.completed = {}
  /\ v.team \in Seq(Devs) /\ v.number \in 0..WarmupLimit

\* u is what the folds of a load make of v, before its sprint.
LoadsLists(u, v) ==
  /\ IsSim(u) /\ u.sprint = FALSE /\ u.team = v.team
  /\ u.backlog = v.backlog /\ u.triaged = v.triaged
  /\ u.active = v.active /\ u.completed = v.completed
  /\ u.phase = [t \in Tickets |-> IF t \in v.completed THEN Done
                                  ELSE IF t \in v.active THEN v.phase[t] ELSE 0]
  /\ u.effort = [t \in Tickets |-> IF t \in v.completed THEN 1
                                   ELSE IF t \in v.active THEN v.effort[t] ELSE 0]
  /\ u.assignedTo = [t \in Tickets |-> IF t \in v.completed \cup v.active
                                       THEN v.assignedTo[t] ELSE None]

\* The state a load starts from has no ticket and no sprint.
LEMMA StartBlank ==
  LET b == Apply(Blank, SimulationCreated(FALSE)) IN
  /\ IsSim(b) /\ b.team = <<>> /\ b.sprint = FALSE
  /\ b.backlog = {} /\ b.triaged = {} /\ b.committed = {}
  /\ b.active = {} /\ b.completed = {}
  /\ b.phase = [t \in Tickets |-> 0] /\ b.effort = [t \in Tickets |-> 0]
  /\ b.assignedTo = [t \in Tickets |-> None]
BY DEF Apply, SimulationCreated, OnSimulationCreated, IsSim, Fields

\* The events of a team's joining are a list.
LEMMA JoinsList ==
  ASSUME NEW T, NEW all \in Seq(T)
  PROVE  IsList(Joins(all))
<1> DEFINE joins == Joins(all)
<1>1. Len(all) \in Nat /\ joins = [i \in 1..Len(all) |-> joins[i]]
  BY DEF Joins
<1> HIDE DEF joins
<1>2. IsList(joins)
  BY <1>1, ListFun
<1> QED BY <1>2 DEF joins

\* The team joins and the backlog is created: the state the tickets that are
\* on their way are brought back into.
LEMMA LoadBacklog ==
  ASSUME NEW v, CanBeSaved(v)
  PROVE  LET b == Apply(Blank, SimulationCreated(FALSE))
             u == Run(Run(b, Joins(v.team)), Recreations(v, v.backlog))
         IN  /\ IsList(Joins(v.team)) /\ IsList(Recreations(v, v.backlog))
             /\ IsSim(u) /\ u.team = v.team /\ u.sprint = FALSE
             /\ u.backlog = v.backlog /\ u.triaged = v.triaged /\ u.committed = {}
             /\ u.active = {} /\ u.completed = {}
             /\ u.phase = [t \in Tickets |-> 0] /\ u.effort = [t \in Tickets |-> 0]
             /\ u.assignedTo = [t \in Tickets |-> None]
<1> DEFINE b == Apply(Blank, SimulationCreated(FALSE))
           r == Run(b, Joins(v.team))
           u == Run(r, Recreations(v, v.backlog))
<1>1. /\ IsSim(b) /\ b.team = <<>> /\ b.sprint = FALSE
      /\ b.backlog = {} /\ b.triaged = {} /\ b.committed = {}
      /\ b.active = {} /\ b.completed = {}
      /\ b.phase = [t \in Tickets |-> 0] /\ b.effort = [t \in Tickets |-> 0]
      /\ b.assignedTo = [t \in Tickets |-> None]
  BY StartBlank
<1> HIDE DEF b
<1>2. v.team \in Seq(Devs) /\ IsList(Joins(v.team))
  BY JoinsList DEF CanBeSaved
<1>3. Kept(r, b, {"team"}) /\ r.team = v.team
  BY <1>1, <1>2, JoinAll
<1> HIDE DEF r
<1>4. IsFiniteSet(v.backlog) /\ v.triaged \subseteq v.backlog
  BY FiniteTickets DEF CanBeSaved
<1>5. IsSim(r)
  BY <1>3 DEF Kept
<1>6. /\ IsList(Recreations(v, v.backlog))
      /\ Kept(u, r, {"backlog", "triaged", "large"})
      /\ u.backlog = r.backlog \cup v.backlog
      /\ u.triaged = r.triaged \cup (v.triaged \cap v.backlog)
  BY <1>4, <1>5, RecreateAll
<1> HIDE DEF u
<1>7. r.backlog = {} /\ r.triaged = {}
  BY <1>1, <1>3 DEF Kept, Fields
<1>8. u.backlog = v.backlog /\ u.triaged = v.triaged
  BY <1>4, <1>6, <1>7
<1>9. /\ u.team = v.team /\ u.sprint = FALSE /\ u.committed = {}
      /\ u.active = {} /\ u.completed = {}
      /\ u.phase = [t \in Tickets |-> 0] /\ u.effort = [t \in Tickets |-> 0]
      /\ u.assignedTo = [t \in Tickets |-> None]
  BY <1>1, <1>3, <1>6 DEF Kept, Fields
<1>10. IsSim(u)
  BY <1>6 DEF Kept
<1> QED BY <1>2, <1>6, <1>8, <1>9, <1>10 DEF b, r, u

\* Then the active tickets and the completed ones are brought back.
LEMMA LoadTickets ==
  ASSUME NEW b, NEW v, CanBeSaved(v),
         IsSim(b), b.team = v.team, b.sprint = FALSE,
         b.backlog = v.backlog, b.triaged = v.triaged, b.committed = {},
         b.active = {}, b.completed = {},
         b.phase = [t \in Tickets |-> 0], b.effort = [t \in Tickets |-> 0],
         b.assignedTo = [t \in Tickets |-> None]
  PROVE  LET x == FlattenSeq(Restorations(v, v.active))
             y == FlattenSeq(Completions(v, v.completed))
         IN  IsList(x) /\ IsList(y) /\ LoadsLists(Run(Run(b, x), y), v)
<1> DEFINE x == FlattenSeq(Restorations(v, v.active))
           y == FlattenSeq(Completions(v, v.completed))
           r == Run(b, x)
           u == Run(r, y)
<1>1. /\ IsFiniteSet(v.active) /\ v.active \subseteq Tickets
      /\ IsFiniteSet(v.completed) /\ v.completed \subseteq Tickets
  BY FiniteTickets DEF CanBeSaved
<1>2. Covers(b)
  BY DEF Covers
<1>3. \A t \in v.active : Absent(b, v, t)
  BY DEF CanBeSaved, Absent
<1>4. IsList(x) /\ RestoresAll(r, b, v, v.active)
  BY <1>1, <1>2, <1>3, RestoreAll
<1> HIDE DEF x, r
<1>5. /\ r.active = v.active
      /\ r.phase = [t \in Tickets |-> IF t \in v.active THEN v.phase[t] ELSE 0]
      /\ r.effort = [t \in Tickets |-> IF t \in v.active THEN v.effort[t] ELSE 0]
      /\ r.assignedTo = [t \in Tickets |-> IF t \in v.active THEN v.assignedTo[t] ELSE None]
  BY <1>4 DEF RestoresAll
<1>6. /\ IsSim(r) /\ r.team = v.team /\ r.sprint = FALSE
      /\ r.backlog = v.backlog /\ r.triaged = v.triaged /\ r.committed = {}
      /\ r.completed = {}
  BY <1>4 DEF RestoresAll, Kept, Fields
<1>7. Covers(r)
  BY <1>5 DEF Covers
<1>8. \A t \in v.completed : Absent(r, v, t)
  BY <1>5, <1>6 DEF CanBeSaved, Absent
<1>9. IsList(y) /\ FinishesAll(u, r, v, v.completed)
  BY <1>1, <1>6, <1>7, <1>8, FinishAll
<1> HIDE DEF y, u
<1>10. /\ IsSim(u) /\ u.sprint = FALSE /\ u.team = v.team
       /\ u.backlog = v.backlog /\ u.triaged = v.triaged /\ u.active = v.active
  BY <1>5, <1>6, <1>9 DEF FinishesAll, Kept, Fields
<1>11. u.completed = v.completed
  BY <1>6, <1>9 DEF FinishesAll
<1>12. u.phase = [t \in Tickets |-> IF t \in v.completed THEN Done
                                    ELSE IF t \in v.active THEN v.phase[t] ELSE 0]
  BY <1>5, <1>9 DEF FinishesAll
<1>13. u.effort = [t \in Tickets |-> IF t \in v.completed THEN 1
                                     ELSE IF t \in v.active THEN v.effort[t] ELSE 0]
  BY <1>5, <1>9 DEF FinishesAll
<1>14. u.assignedTo = [t \in Tickets |-> IF t \in v.completed \cup v.active
                                         THEN v.assignedTo[t] ELSE None]
  BY <1>5, <1>9 DEF FinishesAll
<1>15. LoadsLists(u, v)
  BY <1>10, <1>11, <1>12, <1>13, <1>14 DEF LoadsLists
<1> QED BY <1>4, <1>9, <1>15 DEF x, y, r, u

\* All of a load's events, and what their fold makes of v.
LEMMA LoadIs ==
  ASSUME NEW v, CanBeSaved(v)
  PROVE  \E w : /\ LoadsLists(w, v)
                /\ ~v.sprint => LoadFile(v) = w
                /\ v.sprint => LoadFile(v) = Apply(w, SprintStarted(v.number, v.left))
<1> DEFINE e0 == <<SimulationCreated(FALSE)>>
           e1 == Joins(v.team)
           e2 == Recreations(v, v.backlog)
           e3 == FlattenSeq(Restorations(v, v.active))
           e4 == FlattenSeq(Completions(v, v.completed))
           e5 == SprintStarted(v.number, v.left)
           z == When(v.sprint, e5)
           b == Apply(Blank, SimulationCreated(FALSE))
           b1 == Run(b, e1)
           b2 == Run(b1, e2)
           b3 == Run(b2, e3)
           w == Run(b3, e4)
<1>1. LoadFile(v) = Run(Blank, ((((e0 \o e1) \o e2) \o e3) \o e4) \o z)
  BY DEF LoadFile, LoadEvents, Run, Joins, Recreations, Restorations, Completions
<1>2. /\ v.sprint => z = <<e5>>
      /\ ~v.sprint => z = <<>>
  BY DEF When
<1>3. IsList(e0) /\ Run(Blank, e0) = b
  BY ListOne, RunOne
<1>4. /\ IsList(e1) /\ IsList(e2)
      /\ IsSim(b2) /\ b2.team = v.team /\ b2.sprint = FALSE
      /\ b2.backlog = v.backlog /\ b2.triaged = v.triaged /\ b2.committed = {}
      /\ b2.active = {} /\ b2.completed = {}
      /\ b2.phase = [t \in Tickets |-> 0] /\ b2.effort = [t \in Tickets |-> 0]
      /\ b2.assignedTo = [t \in Tickets |-> None]
  BY LoadBacklog
<1> HIDE DEF b2
<1>5. IsList(e3) /\ IsList(e4) /\ LoadsLists(w, v)
  BY <1>4, LoadTickets
<1> HIDE DEF e0, e1, e2, e3, e4, e5, z, b, b1, b3, w
<1>6. IsList(e0 \o e1) /\ Run(Blank, e0 \o e1) = b1
  BY <1>3, <1>4, ListBoth DEF b1
<1>7. IsList((e0 \o e1) \o e2) /\ Run(Blank, (e0 \o e1) \o e2) = b2
  BY <1>4, <1>6, ListBoth DEF b2
<1>8. IsList(((e0 \o e1) \o e2) \o e3) /\ Run(Blank, ((e0 \o e1) \o e2) \o e3) = b3
  BY <1>5, <1>7, ListBoth DEF b3
<1> DEFINE x == (((e0 \o e1) \o e2) \o e3) \o e4
<1>9. IsList(x) /\ Run(Blank, x) = w
  BY <1>5, <1>8, ListBoth DEF w
<1>10. LoadFile(v) = Run(Blank, x \o z)
  BY <1>1
<1> HIDE DEF x
<1>11. ASSUME ~v.sprint PROVE LoadFile(v) = w
  <2>1. IsList(<<>>) /\ Run(w, <<>>) = w /\ z = <<>>
    BY <1>2, <1>11, ListNone, RunNone
  <2>2. Run(Blank, x \o z) = Run(Run(Blank, x), z)
    BY <1>9, <2>1, ListBoth
  <2> QED BY <1>9, <1>10, <2>1, <2>2
<1>12. ASSUME v.sprint PROVE LoadFile(v) = Apply(w, e5)
  <2>1. IsList(<<e5>>) /\ Run(w, <<e5>>) = Apply(w, e5) /\ z = <<e5>>
    BY <1>2, <1>12, ListOne, RunOne
  <2>2. Run(Blank, x \o z) = Run(Run(Blank, x), z)
    BY <1>9, <2>1, ListBoth
  <2> QED BY <1>9, <1>10, <2>1, <2>2
<1> QED BY <1>5, <1>11, <1>12 DEF e5

\* What is read of a load is what was saved.
LoadsAll(u, v) ==
  /\ u.team = v.team /\ u.backlog = v.backlog /\ u.triaged = v.triaged
  /\ u.active = v.active /\ u.completed = v.completed
  /\ \A t \in v.completed : u.phase[t] = Done /\ u.assignedTo[t] = v.assignedTo[t]
  /\ \A t \in v.active : /\ u.phase[t] = v.phase[t] /\ u.effort[t] = v.effort[t]
                         /\ u.assignedTo[t] = v.assignedTo[t]
  /\ v.sprint => u.sprint = TRUE /\ u.number = v.number /\ u.left = v.left
  /\ ~v.sprint => u.sprint = FALSE

\* A load brings all of it back.
LEMMA LoadBack ==
  ASSUME NEW v, CanBeSaved(v)
  PROVE  LoadsAll(LoadFile(v), v)
<1> DEFINE u == LoadFile(v)
<1>1. PICK w : /\ LoadsLists(w, v)
               /\ ~v.sprint => u = w
               /\ v.sprint => u = Apply(w, SprintStarted(v.number, v.left))
  BY LoadIs
<1> HIDE DEF u
<1>2. CASE ~v.sprint
  <2>1. LoadsLists(u, v)
    BY <1>1, <1>2
  <2> QED BY <1>2, <2>1 DEF LoadsLists, LoadsAll, CanBeSaved, u
<1>3. CASE v.sprint
  <2>1. IsSim(w)
    BY <1>1 DEF LoadsLists
  <2>2. /\ Kept(u, w, {"sprint", "left", "number"})
        /\ u.sprint = TRUE /\ u.left = v.left
        /\ u.number = IF v.number < WarmupLimit THEN v.number ELSE WarmupLimit
    <3> DEFINE y == Apply(w, SprintStarted(v.number, v.left))
    <3>1. /\ Kept(y, w, {"sprint", "left", "number"})
          /\ y.sprint = TRUE /\ y.left = v.left
          /\ y.number = IF v.number < WarmupLimit THEN v.number ELSE WarmupLimit
      BY <2>1, AfterSprintStarted
    <3>2. u = y
      BY <1>1, <1>3
    <3> HIDE DEF y
    <3> QED BY <3>1, <3>2
  <2>3. u.number = v.number
    <3>1. WarmupLimit \in Nat /\ v.number \in 0..WarmupLimit
      BY ReplayAssumption DEF CanBeSaved, F!FlowAssumption
    <3> QED BY <2>2, <3>1
  <2>4. \A f \in {"team", "backlog", "triaged", "active", "completed", "phase", "effort",
                  "assignedTo"} : u[f] = w[f]
    BY <2>2 DEF Kept, Fields
  <2>5. /\ u.team = w.team /\ u.backlog = w.backlog /\ u.triaged = w.triaged
        /\ u.active = w.active /\ u.completed = w.completed /\ u.phase = w.phase
        /\ u.effort = w.effort /\ u.assignedTo = w.assignedTo
    BY <2>4
  <2>6. /\ u.team = v.team /\ u.backlog = v.backlog /\ u.triaged = v.triaged
        /\ u.active = v.active /\ u.completed = v.completed
    BY <1>1, <2>5 DEF LoadsLists
  <2>7. /\ \A t \in v.completed : u.phase[t] = Done /\ u.assignedTo[t] = v.assignedTo[t]
        /\ \A t \in v.active : /\ u.phase[t] = v.phase[t] /\ u.effort[t] = v.effort[t]
                               /\ u.assignedTo[t] = v.assignedTo[t]
    BY <1>1, <2>5 DEF LoadsLists, CanBeSaved
  <2> QED BY <1>3, <2>2, <2>3, <2>6, <2>7 DEF LoadsAll, u
<1> QED BY <1>2, <1>3

\* What is saved between commands can be.
LEMMA IdleCanBeSaved ==
  ASSUME RInv, Idle
  PROVE  /\ CanBeSaved(Saved(sim)) /\ sim.sprint \in BOOLEAN
         /\ \A t \in sim.completed : sim.phase[t] = Done
<1>1. Whole = sim
  BY WholeNow DEF Idle
<1>2. /\ {sim.backlog, sim.active, sim.completed} \subseteq SUBSET Tickets
      /\ sim.team \in Seq(Devs) /\ sim.number \in 0..WarmupLimit /\ sim.sprint \in BOOLEAN
  BY <1>1 DEF RInv, P!IInv, P!TypeOK
<1>3. /\ sim.backlog \cap sim.active = {} /\ sim.backlog \cap sim.completed = {}
      /\ sim.active \cap sim.completed = {} /\ sim.triaged \subseteq sim.backlog
  BY <1>1 DEF RInv, P!IInv, P!Apart
<1>4. \A t \in sim.completed : sim.phase[t] = Done
  BY <1>1 DEF RInv, P!IInv, P!Steady, P!Done, Done
<1>5. CanBeSaved(Saved(sim))
  BY <1>2, <1>3 DEF CanBeSaved, Saved
<1> QED BY <1>2, <1>4, <1>5

\* A load brings back the backlog, the active and the completed tickets, the
\* team and the sprint as they were saved, whatever the engine did before: the
\* fold of EmitLoadedState's events restores every moment between commands.
THEOREM LoadRestores == Spec => []LoadKeepsTickets
<1>1. RInv => LoadKeepsTickets
  <2> SUFFICES ASSUME RInv, Idle PROVE LoadKeepsTickets
    BY DEF LoadKeepsTickets
  <2> DEFINE v == Saved(sim)
             u == Loaded
  <2>1. /\ CanBeSaved(v) /\ sim.sprint \in BOOLEAN
        /\ \A t \in sim.completed : sim.phase[t] = Done
    BY IdleCanBeSaved
  <2>2. LoadsAll(u, v)
    BY <2>1, LoadBack DEF Loaded
  <2>3. /\ v.backlog = sim.backlog /\ v.triaged = sim.triaged /\ v.active = sim.active
        /\ v.completed = sim.completed /\ v.team = sim.team
        /\ v.phase = sim.phase /\ v.effort = sim.effort /\ v.assignedTo = sim.assignedTo
        /\ v.number = sim.number /\ v.left = sim.left /\ v.sprint = sim.sprint
    BY DEF Saved
  <2> HIDE DEF u, v
  <2>4. u.sprint = sim.sprint
    BY <2>1, <2>2, <2>3 DEF LoadsAll
  <2>5. \A f \in {"backlog", "triaged", "active", "completed", "team", "sprint"} :
           u[f] = sim[f]
    BY <2>2, <2>3, <2>4 DEF LoadsAll
  <2>6. \A t \in sim.active \cup sim.completed :
          u.phase[t] = sim.phase[t] /\ u.assignedTo[t] = sim.assignedTo[t]
    BY <2>1, <2>2, <2>3 DEF LoadsAll
  <2>7. \A t \in sim.active : u.effort[t] = sim.effort[t]
    BY <2>2, <2>3 DEF LoadsAll
  <2>8. sim.sprint => u.number = sim.number /\ u.left = sim.left
    BY <2>2, <2>3 DEF LoadsAll
  <2> QED BY <2>5, <2>6, <2>7, <2>8 DEF LoadKeepsTickets, u
<1> QED BY <1>1, ReplayInvariance, PTL
=============================================================================
