----------------------------- MODULE Flow_proofs ----------------------------
(***************************************************************************)
(* Theorems about Flow, for any tickets, developers, phases, caps and      *)
(* investments.                                                            *)
(***************************************************************************)
EXTENDS Flow, FiniteSetTheorems, WellFoundedInduction, TLAPS

\* The lists are disjoint, pair by pair, and only the backlog is triaged.
Apart ==
  /\ backlog \cap committed = {} /\ backlog \cap active = {}
  /\ backlog \cap completed = {} /\ committed \cap active = {}
  /\ committed \cap completed = {} /\ active \cap completed = {}
  /\ triaged \subseteq backlog

\* Nothing is lost, and a parent and its children are never there together.
Family ==
  /\ Tickets \ (Split \cup Offspring) \subseteq Somewhere
  /\ \A t \in Split : IF t \in Somewhere THEN Children[t] \cap Somewhere = {}
                      ELSE Children[t] \subseteq Somewhere

\* What the types of the days, the team and the queues rest on.
Steady ==
  /\ pc = "idle" /\ sprint => daysLeft > 0
  /\ Len(team) >= Len(Team0)
  /\ \A t \in active : phase[t] \in Phases
  /\ \A t \in completed : phase[t] = Done

IInv == TypeOK /\ Apart /\ Family /\ Steady /\ OneWorkerEach /\ QueuesExact

-----------------------------------------------------------------------------
(* Lemmas about the operators of the model *)

\* A developer of the team has a place in it.
LEMMA PositionType ==
  ASSUME NEW d \in Members(team)
  PROVE  Position(d) \in DOMAIN team /\ team[Position(d)] = d
  BY DEF Position, Members

\* The order of priority is an order of all phases.
LEMMA TurnOrder ==
  /\ \A p \in Phases : Rank(p) \in 1..NumPhases
  /\ \A p, q \in Phases : Rank(p) = Rank(q) => p = q
  /\ \A n \in 1..NumPhases : Turn(n) \in Phases /\ Rank(Turn(n)) = n
  /\ \A p \in Phases : Turn(Rank(p)) = p
<1>1. /\ NumPhases \in Nat /\ CICD \in 2..NumPhases /\ Review \in 2..NumPhases
      /\ CICD # Review
  BY FlowAssumption DEF Phases
<1>2. \A p \in Phases : Rank(p) \in 1..NumPhases
  BY <1>1 DEF Phases, Rank
<1>3. \A p, q \in Phases : Rank(p) = Rank(q) => p = q
  BY <1>1 DEF Phases, Rank
<1>4. ASSUME NEW n \in 1..NumPhases
      PROVE  Turn(n) \in Phases /\ Rank(Turn(n)) = n
  <2>1. \E p \in Phases : Rank(p) = n
    <3>1. CASE n = 1
      BY <1>1, <3>1, Rank(Review) = 1 DEF Rank, Phases
    <3>2. CASE n = 2
      BY <1>1, <3>2, Rank(CICD) = 2 DEF Rank, Phases
    <3>3. CASE n > 2
      <4> DEFINE q == IF n - 2 < CICD /\ n - 2 < Review THEN n - 2
                      ELSE IF n > CICD /\ n > Review THEN n ELSE n - 1
      <4>1. q \in Phases /\ q # CICD /\ q # Review
        BY <1>1, <3>3 DEF Phases
      <4>2. Rank(q) = n
        BY <1>1, <3>3, <4>1 DEF Rank, Phases
      <4> QED BY <4>1, <4>2
    <3> QED BY <3>1, <3>2, <3>3
  <2> QED BY <2>1 DEF Turn
<1>5. ASSUME NEW p \in Phases PROVE Turn(Rank(p)) = p
  BY <1>2, <1>3, <1>4
<1> QED BY <1>2, <1>3, <1>4, <1>5

\* The least member of a set of naturals is one of its members.
LEMMA LeastType ==
  ASSUME NEW S \in SUBSET Nat, S # {}
  PROVE  Least(S) \in S
<1> DEFINE R == {ss \in Nat \X Nat : ss[1] < ss[2]}
<1>1. IsWellFoundedOn(R, Nat)
  BY NatLessThanWellFounded DEF OpToRel
<1>2. PICK x \in S : \A y \in S : ~(<<y, x>> \in R)
  <2> HIDE DEF R
  <2> QED BY <1>1, WFMin
<1>3. ASSUME NEW y \in S PROVE x <= y
  <2>1. x \in Nat /\ y \in Nat /\ <<y, x>> \in Nat \X Nat
    OBVIOUS
  <2>2. ~(y < x)
    BY <1>2, <2>1
  <2> QED BY <2>1, <2>2
<1> QED BY <1>3 DEF Least

\* A turn of the round robin is somebody's of the team.
LEMMA AfterType ==
  ASSUME team \in Seq(Devs), team # <<>>, cursor \in DOMAIN team,
         NEW i \in 0..(Len(team) - 1)
  PROVE  After(i) \in Members(team)
<1>1. ((cursor + i) % Len(team)) + 1 \in DOMAIN team
  OBVIOUS
<1> QED BY <1>1 DEF After, Members

\* Every developer of the team has a turn in the round robin.
LEMMA EveryoneHasATurn ==
  ASSUME team \in Seq(Devs), team # <<>>, cursor \in DOMAIN team, NEW e \in Members(team)
  PROVE  \E i \in 0..(Len(team) - 1) : After(i) = e
<1>1. PICK j \in DOMAIN team : team[j] = e
  BY DEF Members
<1>2. /\ Len(team) \in Nat \ {0} /\ DOMAIN team = 1..Len(team)
      /\ cursor \in 1..Len(team) /\ j \in 1..Len(team)
  BY <1>1
<1>3. PICK n \in Nat \ {0} : n = Len(team)
  BY <1>2
<1>4. \E i \in 0..(n - 1) : (cursor + i) % n = j - 1
  <2>1. cursor \in 1..n /\ j \in 1..n
    BY <1>2, <1>3
  <2>2. \A k \in 0..(n - 1) : k % n = k /\ (k + n) % n = k
    OBVIOUS
  <2>3. CASE j - 1 >= cursor
    <3>1. (j - 1) - cursor \in 0..(n - 1) /\ cursor + ((j - 1) - cursor) = j - 1
      BY <2>1, <2>3
    <3>2. j - 1 \in 0..(n - 1)
      BY <2>1
    <3> QED BY <2>2, <3>1, <3>2
  <2>4. CASE j - 1 < cursor
    <3>1. /\ (j - 1) + n - cursor \in 0..(n - 1)
          /\ cursor + ((j - 1) + n - cursor) = (j - 1) + n
      BY <2>1, <2>4
    <3>2. j - 1 \in 0..(n - 1)
      BY <2>1
    <3> QED BY <2>2, <3>1, <3>2
  <2>5. j \in Int /\ cursor \in Int
    BY <2>1
  <2> QED BY <2>3, <2>4, <2>5
<1>5. PICK i \in 0..(n - 1) : (cursor + i) % n = j - 1
  BY <1>4
<1>6. After(i) = team[(j - 1) + 1] /\ (j - 1) + 1 = j
  BY <1>2, <1>3, <1>5 DEF After
<1> QED BY <1>1, <1>3, <1>6

\* Whom SelectDev selects is in the team and may take the ticket.
LEMMA SelectDevType ==
  ASSUME team \in Seq(Devs), team # <<>>, cursor \in DOMAIN team,
         NEW t, NEW p, SelectDev(t, p) # None
  PROVE  /\ SelectDev(t, p) \in Members(team)
         /\ MayTake(SelectDev(t, p), t, p)
<1> DEFINE turns == 0..(Len(team) - 1)
           fresh == {i \in turns : IsFresh(After(i), t, p)}
           any == {i \in turns : MayTake(After(i), t, p)}
<1>1. \A S \in SUBSET Nat : S # {} => Least(S) \in S
  BY LeastType
<1>2. \A i \in turns : After(i) \in Members(team)
  BY AfterType
<1>3. fresh \subseteq any
  BY DEF IsFresh
<1>4. fresh \in SUBSET Nat /\ any \in SUBSET Nat
  OBVIOUS
<1>5. SelectDev(t, p) = IF fresh # {} THEN After(Least(fresh))
                        ELSE IF any # {} THEN After(Least(any)) ELSE None
  BY DEF SelectDev
<1>6. PICK i \in any : SelectDev(t, p) = After(i)
  <2> HIDE DEF fresh, any
  <2> QED BY <1>1, <1>3, <1>4, <1>5
<1> QED BY <1>2, <1>6

\* A mentor is available, senior, and somebody else.
LEMMA SelectMentorType ==
  ASSUME team \in Seq(Devs), NEW d, NEW p, SelectMentor(d, p) # None
  PROVE  LET m == SelectMentor(d, p) IN
         /\ m \in Members(team) \ {d} /\ Available(m)
         /\ Experience[m][p] = "High" /\ Experience[d][p] = "Low"
<1> DEFINE seniors == {i \in DOMAIN team : /\ team[i] # d /\ Available(team[i])
                                           /\ Experience[team[i]][p] = "High"}
<1>1. seniors \in SUBSET Nat
  OBVIOUS
<1>2. seniors # {} => Least(seniors) \in seniors
  BY <1>1, LeastType
<1>3. SelectMentor(d, p) = IF Experience[d][p] = "Low" /\ seniors # {}
                        THEN team[Least(seniors)] ELSE None
  BY DEF SelectMentor
<1> HIDE DEF seniors
<1>4. Experience[d][p] = "Low" /\ SelectMentor(d, p) = team[Least(seniors)]
      /\ Least(seniors) \in seniors
  BY <1>2, <1>3
<1> QED BY <1>4 DEF seniors, Members

-----------------------------------------------------------------------------
(* What the actions that touch one part of the state leave of the others *)

\* An action that touches neither the tickets being worked on, nor their workers
\* and queues, leaves both indexes as exact as they were.
LEMMA WorkersKept ==
  ASSUME OneWorkerEach, QueuesExact,
         UNCHANGED <<active, phase, assignedTo, current, queue>>
  PROVE  OneWorkerEach' /\ QueuesExact'
  BY DEF OneWorkerEach, QueuesExact, Waiting

\* An action that leaves the lists alone loses no ticket.
LEMMA ListsKept ==
  ASSUME Apart, Family, UNCHANGED placeVars
  PROVE  Apart' /\ Family'
  BY DEF Apart, Family, Somewhere, placeVars

\* A ticket that goes from one list to another.
LEMMA SomewhereKept ==
  ASSUME Family, Somewhere' = Somewhere
  PROVE  Family'
  BY DEF Family

-----------------------------------------------------------------------------
(* Every action keeps the invariant *)

\* A new simulation satisfies the invariant.
LEMMA InitInvariant == Init => IInv
<1> SUFFICES ASSUME Init PROVE IInv
  OBVIOUS
<1> USE FlowAssumption
<1>1. TypeOK
  <2>1. queue \in [Phases -> Seq(Tickets)]
    BY DEF Init
  <2>2. Offspring \subseteq Tickets
    BY DEF Offspring
  <2>3. team \in Seq(Devs) /\ team # <<>> /\ cursor \in DOMAIN team
    BY DEF Init
  <2>4. ticketMentors \in [Tickets -> [Phases -> Devs \cup {None}]]
    BY DEF Init
  <2>5. /\ phase \in [Tickets -> 0..Done] /\ slot \in 1..(NumPhases + 1)
        /\ sprintNumber \in 0..WarmupLimit /\ daysLeft \in 0..SprintLength
        /\ cicdSlots \in Nat /\ budget \in Nat /\ noise \in 0..MaxNoise
    BY DEF Init, Done
  <2>6. {backlog, triaged, committed, active, completed, large} \subseteq SUBSET Tickets
    BY DEF Init
  <2>7. /\ assignedTo \in [Tickets -> Devs \cup {None}]
        /\ effort \in [Tickets -> Nat]
        /\ contributors \in [Tickets -> SUBSET Devs]
        /\ hands \in [Tickets -> SUBSET Devs]
        /\ current \in [Devs -> Tickets \cup {None}]
        /\ mentorIndex \in [Devs -> Tickets \cup {None}]
    BY DEF Init
  <2>8. pc \in {"idle", "work", "assign"} /\ todo \in Seq(Devs)
    BY DEF Init
  <2>9. sprint \in BOOLEAN /\ warmupActive \in BOOLEAN /\ warmupFailed \in BOOLEAN
    BY Zenon DEF Init
  <2> QED BY <2>1, <2>3, <2>4, <2>5, <2>6, <2>7, <2>8, <2>9 DEF TypeOK
<1>2. Apart
  BY DEF Init, Apart
<1>3. Family
  BY DEF Init, Family, Somewhere, Offspring
<1>4. Steady
  BY DEF Init, Steady
<1>5. OneWorkerEach
  BY DEF Init, OneWorkerEach
<1>6. QueuesExact
  BY DEF Init, QueuesExact, Waiting
<1> QED BY <1>1, <1>2, <1>3, <1>4, <1>5, <1>6 DEF IInv

\* The start of a sprint moves tickets from the backlog to the committed.
LEMMA StartSprintKeeps ==
  ASSUME IInv, StartSprint
  PROVE  IInv'
<1> USE FlowAssumption DEF IInv
<1> PICK C \in SUBSET backlog : /\ backlog' = backlog \ C
                                /\ committed' = committed \cup C
                                /\ triaged' = backlog'
  BY DEF StartSprint
<1>1. TypeOK'
  BY DEF StartSprint, TypeOK, ticketVars, devVars, assetVars, releaseVars, tickVars
<1>2. Apart'
  BY DEF StartSprint, Apart
<1>3. Somewhere' = Somewhere
  BY DEF StartSprint, Somewhere
<1>4. Steady'
  BY DEF StartSprint, Steady, ticketVars, devVars
<1>5. OneWorkerEach' /\ QueuesExact'
  BY WorkersKept DEF StartSprint, ticketVars, devVars
<1> QED BY <1>1, <1>2, <1>3, <1>4, <1>5, SomewhereKept

\* A manual assignment takes a ticket that no queue holds.
LEMMA AssignTicketKeeps ==
  ASSUME IInv, NEW t \in Tickets, NEW d \in Devs, AssignTicket(t, d)
  PROVE  IInv'
<1> USE FlowAssumption DEF IInv
<1>1. TypeOK'
  <2>1. cursor' \in DOMAIN team
    BY PositionType DEF AssignTicket
  <2>2. 1 \in 0..Done
    BY DEF Done
  <2>3. /\ phase' \in [Tickets -> 0..Done]
        /\ assignedTo' \in [Tickets -> Devs \cup {None}]
        /\ effort' \in [Tickets -> Nat]
        /\ hands' \in [Tickets -> SUBSET Devs]
        /\ current' \in [Devs -> Tickets \cup {None}]
    <3>1. /\ phase \in [Tickets -> 0..Done]
          /\ assignedTo \in [Tickets -> Devs \cup {None}]
          /\ effort \in [Tickets -> Nat]
          /\ hands \in [Tickets -> SUBSET Devs]
          /\ current \in [Devs -> Tickets \cup {None}]
      BY DEF TypeOK
    <3> HIDE FlowAssumption DEF IInv
    <3> QED BY <2>2, <3>1 DEF AssignTicket
  <2>4. {backlog', triaged', committed', active'} \subseteq SUBSET Tickets
    <3> HIDE FlowAssumption
    <3> QED BY DEF AssignTicket, TypeOK
  <2> HIDE FlowAssumption
  <2> QED BY <2>1, <2>3, <2>4
          DEF AssignTicket, TypeOK, assetVars, sprintVars, releaseVars, tickVars
<1>2. Apart'
  BY DEF AssignTicket, Apart
<1>3. Somewhere' = Somewhere
  BY DEF AssignTicket, Somewhere
<1>4. Steady'
  <2>1. 1 \in Phases
    BY DEF Phases
  <2>2. t \notin completed
    BY DEF AssignTicket, Apart
  <2>3. \A u \in completed' : phase'[u] = Done
    BY <2>2 DEF AssignTicket, Steady, TypeOK
  <2>4. phase \in [Tickets -> 0..Done] /\ active \subseteq Tickets
    BY DEF TypeOK
  <2>5. \A u \in active' : phase'[u] \in Phases
    <3>1. \A u \in active : phase[u] \in Phases
      BY DEF Steady
    <3> HIDE FlowAssumption DEF IInv
    <3> QED BY <2>1, <2>4, <3>1 DEF AssignTicket
  <2>6. pc' = "idle" /\ (sprint' => daysLeft' > 0) /\ Len(team') >= Len(Team0)
    BY DEF AssignTicket, Steady, sprintVars, tickVars
  <2> HIDE FlowAssumption DEF IInv
  <2> QED BY <2>3, <2>5, <2>6 DEF Steady
<1>5. t \notin active
  BY DEF AssignTicket, Apart
<1>6. OneWorkerEach'
  <2> SUFFICES ASSUME NEW u \in Tickets, NEW e \in Devs
               PROVE  current'[e] = u <=> (u \in active' /\ assignedTo'[u] = e)
    BY DEF OneWorkerEach
  <2>1. /\ current' = [current EXCEPT ![d] = t] /\ current[d] = None
        /\ assignedTo' = [assignedTo EXCEPT ![t] = d] /\ active' = active \cup {t}
        /\ current \in [Devs -> Tickets \cup {None}]
        /\ assignedTo \in [Tickets -> Devs \cup {None}]
        /\ None \notin Tickets
    BY DEF AssignTicket, Idle, TypeOK
  <2>2. current[e] = u <=> (u \in active /\ assignedTo[u] = e)
    BY DEF OneWorkerEach
  <2> HIDE FlowAssumption DEF IInv
  <2> QED BY <1>5, <2>1, <2>2
<1>7. QueuesExact'
  <2>1. ASSUME NEW u \in Tickets, NEW p \in Phases
        PROVE  Waiting(u, p)' <=> Waiting(u, p)
    <3>1. CASE u = t
      <4>1. ~Waiting(u, p)
        BY <1>5, <3>1 DEF Waiting
      <4>2. assignedTo'[u] = d /\ d # None
        BY <3>1 DEF AssignTicket, TypeOK
      <4> QED BY <4>1, <4>2 DEF Waiting
    <3>2. CASE u # t
      BY <3>2 DEF AssignTicket, Waiting, TypeOK
    <3> QED BY <3>1, <3>2
  <2>2. queue' = queue
    BY DEF AssignTicket
  <2> QED BY <2>1, <2>2 DEF QueuesExact
<1> QED BY <1>1, <1>2, <1>3, <1>4, <1>6, <1>7, SomewhereKept

\* A split puts children that were nowhere in the place of their parent.
LEMMA DecomposeKeeps ==
  ASSUME IInv, NEW t \in Tickets, Decompose(t)
  PROVE  IInv'
<1> USE FlowAssumption DEF IInv
<1>1. t \in Split /\ t \in Somewhere /\ Children[t] \subseteq Tickets
  BY DEF Decompose, Somewhere
<1>2. Children[t] \cap Somewhere = {} /\ t \notin Children[t]
  BY <1>1 DEF Family
<1>3. TypeOK'
  BY <1>1 DEF Decompose, TypeOK, ticketVars, devVars, assetVars, sprintVars, releaseVars,
              tickVars
<1>4. Apart'
  BY <1>2 DEF Decompose, Apart, Somewhere
<1>5. Somewhere' = (Somewhere \ {t}) \cup Children[t]
  BY <1>2 DEF Decompose, Apart, Somewhere
<1>6. Family'
  <2>1. Children[t] \subseteq Offspring
    BY <1>1 DEF Offspring
  <2>2. Tickets \ (Split \cup Offspring) \subseteq Somewhere'
    BY <1>1, <1>5 DEF Family
  <2>3. ASSUME NEW u \in Split, u # t
        PROVE  IF u \in Somewhere' THEN Children[u] \cap Somewhere' = {}
               ELSE Children[u] \subseteq Somewhere'
    <3>1. t \notin Children[u] /\ Children[u] \cap Children[t] = {} /\ u \notin Children[t]
      BY <1>1, <2>1, <2>3 DEF Offspring
    <3> QED BY <1>5, <2>3, <3>1 DEF Family
  <2>4. t \notin Somewhere' /\ Children[t] \subseteq Somewhere'
    BY <1>2, <1>5
  <2> QED BY <2>2, <2>3, <2>4 DEF Family
<1>7. Steady'
  BY DEF Decompose, Steady, ticketVars, devVars, sprintVars, tickVars
<1>8. OneWorkerEach' /\ QueuesExact'
  BY WorkersKept DEF Decompose, ticketVars, devVars
<1> QED BY <1>3, <1>4, <1>6, <1>7, <1>8

\* An investment pays what there is, and hires only whom there is to hire.
LEMMA InvestKeeps ==
  ASSUME IInv, NEW o \in Options, Invest(o)
  PROVE  IInv'
<1> USE FlowAssumption DEF IInv
<1>1. team' \in Seq(Devs) /\ Len(team') >= Len(team) /\ team' # <<>>
      /\ DOMAIN team \subseteq DOMAIN team'
  <2> DEFINE hired == Len(team) - Len(Team0)
  <2>1. CASE o = "hire"
    <3>1. hired < Len(Recruits) /\ team' = Append(team, Recruits[hired + 1])
      BY <2>1 DEF Invest
    <3>2. /\ team \in Seq(Devs) /\ Recruits \in Seq(Devs) /\ Team0 \in Seq(Devs)
          /\ Len(team) >= Len(Team0)
      BY DEF Steady, TypeOK
    <3> HIDE FlowAssumption
    <3>3. hired + 1 \in DOMAIN Recruits
      BY <3>1, <3>2
    <3>4. Recruits[hired + 1] \in Devs
      BY <3>2, <3>3
    <3> HIDE DEF hired
    <3> QED BY <3>1, <3>2, <3>4
  <2>2. CASE o # "hire"
    BY <2>2 DEF Invest, TypeOK
  <2> QED BY <2>1, <2>2
<1>2. TypeOK'
  <2>1. budget' \in Nat
    BY DEF Invest, TypeOK
  <2>2. cicdSlots' \in Nat
    BY DEF Invest, TypeOK
  <2>3. cursor' \in DOMAIN team'
    BY <1>1 DEF Invest, TypeOK
  <2> HIDE FlowAssumption
  <2> QED BY <1>1, <2>1, <2>2, <2>3
          DEF Invest, TypeOK, placeVars, ticketVars, sprintVars, releaseVars, tickVars
<1>3. Apart' /\ Family'
  BY ListsKept DEF Invest
<1>4. Steady'
  BY <1>1 DEF Invest, Steady, TypeOK, placeVars, ticketVars, sprintVars, tickVars
<1>5. OneWorkerEach' /\ QueuesExact'
  BY WorkersKept DEF Invest, placeVars, ticketVars
<1> QED BY <1>2, <1>3, <1>4, <1>5

\* The beginning of a tick takes one of the days that are left.
LEMMA BeginTickKeeps ==
  ASSUME IInv, BeginTick
  PROVE  IInv'
<1> USE DEF IInv
<1>1. daysLeft' \in 0..SprintLength
  BY FlowAssumption DEF BeginTick, TypeOK, Steady
<1>2. TypeOK'
  BY <1>1 DEF BeginTick, TypeOK, placeVars, ticketVars, devVars, assetVars, releaseVars
<1>3. Apart' /\ Family'
  BY ListsKept DEF BeginTick
<1>4. Steady'
  BY DEF BeginTick, Steady, placeVars, ticketVars, devVars
<1>5. OneWorkerEach' /\ QueuesExact'
  BY WorkersKept DEF BeginTick, placeVars, ticketVars, devVars
<1> QED BY <1>2, <1>3, <1>4, <1>5

\* What a release of a mentor leaves of the types.
LEMMA ReleaseMentorType ==
  ASSUME TypeOK, NEW t \in Tickets, NEW p \in Phases, ReleaseMentor(t, p)
  PROVE  /\ mentorIndex' \in [Devs -> Tickets \cup {None}]
         /\ ticketMentors' \in [Tickets -> [Phases -> Devs \cup {None}]]
<1> DEFINE m == ticketMentors[t][p]
<1>1. /\ mentorIndex \in [Devs -> Tickets \cup {None}]
      /\ ticketMentors \in [Tickets -> [Phases -> Devs \cup {None}]]
  BY DEF TypeOK
<1>2. CASE m = None
  BY <1>1, <1>2 DEF ReleaseMentor
<1>3. CASE m # None
  <2>1. mentorIndex' = [mentorIndex EXCEPT ![m] = None]
    BY <1>3 DEF ReleaseMentor
  <2>2. ticketMentors' = [ticketMentors EXCEPT ![t][p] = None]
    BY <1>3 DEF ReleaseMentor
  <2>3. [ticketMentors[t] EXCEPT ![p] = None] \in [Phases -> Devs \cup {None}]
    BY <1>1
  <2> HIDE DEF m
  <2> QED BY <1>1, <2>1, <2>2, <2>3
<1> QED BY <1>2, <1>3

\* A developer and the ticket are parted.
LEMMA Parted ==
  ASSUME TypeOK, OneWorkerEach, NEW d \in Devs, NEW t \in Tickets, current[d] = t,
         current' = [current EXCEPT ![d] = None],
         NEW S, S \in {active, active \ {t}}, active' = S,
         \/ S = active \ {t} /\ assignedTo' = assignedTo
         \/ assignedTo' = [assignedTo EXCEPT ![t] = None]
  PROVE  OneWorkerEach'
<1> SUFFICES ASSUME NEW u \in Tickets, NEW e \in Devs
             PROVE  current'[e] = u <=> (u \in active' /\ assignedTo'[u] = e)
  BY DEF OneWorkerEach
<1>1. /\ current \in [Devs -> Tickets \cup {None}]
      /\ assignedTo \in [Tickets -> Devs \cup {None}]
      /\ None \notin Tickets /\ None \notin Devs
  BY FlowAssumption DEF TypeOK
<1>2. current[e] = u <=> (u \in active /\ assignedTo[u] = e)
  BY DEF OneWorkerEach
<1>3. assignedTo[t] = d
  BY DEF OneWorkerEach
<1>4. CASE u = t
  BY <1>1, <1>2, <1>3, <1>4
<1>5. CASE u # t
  <2>1. assignedTo'[u] = assignedTo[u] /\ (u \in active' <=> u \in active)
    BY <1>1, <1>5
  <2> QED BY <1>1, <1>2, <1>5, <2>1
<1> QED BY <1>4, <1>5

\* The three turns of a developer who has a ticket.
LEMMA TurnKeeps ==
  ASSUME IInv, NEW d \in Devs, NEW t \in active, t = current[d],
         Progress(d, t) \/ Complete(d, t) \/ HandOff(d, t),
         pc' = "work", todo' \in Seq(Devs),
         UNCHANGED <<large, assetVars, sprintVars, releaseVars, slot, noise>>
  PROVE  IInv'
<1> USE DEF IInv
<1>1. t \in Tickets /\ phase[t] \in Phases
  BY DEF TypeOK, Steady
<1>2. assignedTo[t] = d /\ d # None
  BY <1>1, FlowAssumption DEF OneWorkerEach
<1>3. \A p \in Phases : ~Waiting(t, p)
  BY <1>2 DEF Waiting
<1>4. CASE Progress(d, t)
  <2>1. TypeOK'
    BY <1>1, <1>4 DEF Progress, TypeOK, placeVars, devVars, assetVars, sprintVars, releaseVars
  <2>2. Apart' /\ Family'
    BY <1>4, ListsKept DEF Progress
  <2>3. Steady'
    BY <1>4 DEF Progress, Steady, placeVars, devVars, sprintVars
  <2>4. OneWorkerEach' /\ QueuesExact'
    BY <1>4, WorkersKept DEF Progress, placeVars, devVars
  <2> QED BY <2>1, <2>2, <2>3, <2>4
<1>5. CASE Complete(d, t)
  <2>1. TypeOK'
    <3>1. Done \in 0..Done /\ 0 \in Nat
      BY FlowAssumption DEF Done
    <3> QED BY <1>1, <1>5, <3>1, ReleaseMentorType
            DEF Complete, TypeOK, assetVars, sprintVars, releaseVars
  <2>2. Apart' /\ Somewhere' = Somewhere
    BY <1>5 DEF Complete, Apart, Somewhere
  <2>3. Steady'
    BY <1>5 DEF Complete, Steady, TypeOK, sprintVars
  <2>4. OneWorkerEach'
    BY <1>1, <1>5, Parted DEF Complete
  <2>5. QueuesExact'
    <3>1. \A u \in Tickets, p \in Phases : Waiting(u, p)' <=> Waiting(u, p)
      BY <1>1, <1>3, <1>5 DEF Complete, Waiting, TypeOK
    <3>2. queue' = queue
      BY <1>5 DEF Complete
    <3> QED BY <3>1, <3>2 DEF QueuesExact
  <2> QED BY <2>1, <2>2, <2>3, <2>4, <2>5, SomewhereKept
<1>6. CASE HandOff(d, t)
  <2>1. PICK q \in Phases : q = phase[t] + 1
    BY <1>1, <1>6, FlowAssumption DEF HandOff, Phases
  <2>2. /\ queue \in [Phases -> Seq(Tickets)]
        /\ queue' = [queue EXCEPT ![q] = Append(@, t)]
    BY <1>6, <2>1 DEF HandOff, QueueAhead, TypeOK
  <2>3. TypeOK'
    <3>1. queue' \in [Phases -> Seq(Tickets)]
      BY <1>1, <2>1, <2>2
    <3>2. phase' \in [Tickets -> 0..Done]
      <4>1. q \in 0..Done
        BY FlowAssumption DEF Phases, Done
      <4> QED BY <1>6, <2>1, <4>1 DEF HandOff, TypeOK
    <3>3. team \in Seq(Devs) /\ UNCHANGED <<team, cursor, hands>>
      BY <1>6 DEF HandOff, TypeOK
    <3>4. /\ mentorIndex' \in [Devs -> Tickets \cup {None}]
          /\ ticketMentors' \in [Tickets -> [Phases -> Devs \cup {None}]]
      BY <1>1, <1>6, ReleaseMentorType DEF HandOff
    <3>5. /\ assignedTo' \in [Tickets -> Devs \cup {None}]
          /\ effort' \in [Tickets -> Nat]
          /\ contributors' \in [Tickets -> SUBSET Devs]
          /\ current' \in [Devs -> Tickets \cup {None}]
      BY <1>1, <1>6 DEF HandOff, TypeOK
    <3>6. UNCHANGED <<backlog, triaged, committed, active, completed, large, cicdSlots,
                      budget, sprint, sprintNumber, daysLeft, warmupActive, warmupFailed,
                      slot, noise, team, cursor, hands>>
      BY <1>6, <3>3 DEF HandOff, placeVars, assetVars, sprintVars, releaseVars
    <3> QED BY <3>1, <3>2, <3>4, <3>5, <3>6 DEF TypeOK
  <2>4. Apart' /\ Family'
    BY <1>6, ListsKept DEF HandOff
  <2>5. Steady'
    <3>1. t \notin completed
      BY DEF Apart
    <3>2. \A u \in completed' : phase'[u] = Done
      BY <1>6, <3>1 DEF HandOff, Steady, TypeOK, placeVars
    <3>3. phase \in [Tickets -> 0..Done] /\ active' = active
      BY <1>6 DEF HandOff, TypeOK, placeVars
    <3>4. \A u \in active' : phase'[u] \in Phases
      BY <1>6, <2>1, <3>3 DEF HandOff, Steady
    <3>5. pc' # "idle" /\ Len(team') >= Len(Team0)
      BY <1>6 DEF HandOff, Steady
    <3> QED BY <3>2, <3>4, <3>5 DEF Steady
  <2>6. OneWorkerEach'
    BY <1>1, <1>6, Parted DEF HandOff, placeVars
  <2>7. QueuesExact'
    <3>1. \A u \in Tickets \ {t} : \A p \in Phases : (Waiting(u, p))' <=> Waiting(u, p)
      BY <1>1, <1>6 DEF HandOff, Waiting, TypeOK, placeVars
    <3>2. \A p \in Phases : (Waiting(t, p))' <=> (p = q)
      BY <1>1, <1>6, <2>1 DEF HandOff, Waiting, TypeOK, placeVars
    <3>3. \A p \in Phases : \A i \in DOMAIN queue[p] : queue[p][i] # t
      BY <1>1, <1>3 DEF QueuesExact
    <3>4. ASSUME NEW p \in Phases, p # q
          PROVE  /\ \A u \in Tickets : Waiting(u, p)' <=>
                      \E i \in DOMAIN queue'[p] : queue'[p][i] = u
                 /\ \A i, j \in DOMAIN queue'[p] : queue'[p][i] = queue'[p][j] => i = j
      <4>1. queue'[p] = queue[p]
        BY <2>2, <3>4
      <4> QED BY <1>1, <3>1, <3>2, <3>3, <3>4, <4>1 DEF QueuesExact
    <3>5. /\ \A u \in Tickets : Waiting(u, q)' <=>
               \E i \in DOMAIN queue'[q] : queue'[q][i] = u
          /\ \A i, j \in DOMAIN queue'[q] : queue'[q][i] = queue'[q][j] => i = j
      <4> DEFINE s == queue[q]
      <4>1. s \in Seq(Tickets) /\ queue'[q] = Append(s, t)
        BY <2>1, <2>2
      <4>2. /\ \A u \in Tickets : Waiting(u, q) <=> \E i \in DOMAIN s : s[i] = u
            /\ \A i, j \in DOMAIN s : s[i] = s[j] => i = j
            /\ \A i \in DOMAIN s : s[i] # t
        BY <2>1, <3>3 DEF QueuesExact
      <4>3. /\ DOMAIN Append(s, t) = 1..(Len(s) + 1)
            /\ \A i \in DOMAIN s : Append(s, t)[i] = s[i]
            /\ Append(s, t)[Len(s) + 1] = t
            /\ DOMAIN s = 1..Len(s) /\ Len(s) \in Nat
        BY <4>1
      <4> HIDE DEF s
      <4>4. \A i, j \in DOMAIN Append(s, t) : Append(s, t)[i] = Append(s, t)[j] => i = j
        BY <4>2, <4>3
      <4>5. ASSUME NEW u \in Tickets
            PROVE  Waiting(u, q)' <=> \E i \in DOMAIN Append(s, t) : Append(s, t)[i] = u
        <5>1. CASE u = t
          BY <1>1, <2>1, <3>2, <4>3, <5>1
        <5>2. CASE u # t
          BY <2>1, <3>1, <4>2, <4>3, <5>2
        <5> QED BY <5>1, <5>2
      <4> QED BY <4>1, <4>4, <4>5
    <3> QED BY <3>4, <3>5 DEF QueuesExact
  <2> QED BY <2>3, <2>4, <2>5, <2>6, <2>7
<1> QED BY <1>4, <1>5, <1>6

\* One turn of the loop over developers, whoever's it is.
LEMMA WorkKeeps ==
  ASSUME IInv, Work
  PROVE  IInv'
<1> USE DEF IInv
<1> DEFINE d == Head(todo)
           t == current[d]
<1>1. d \in Devs /\ todo' \in Seq(Devs)
  BY DEF Work, TypeOK
<1>2. CASE PassOver(d)
  <2>1. UNCHANGED <<placeVars, ticketVars, queue, devVars, large, assetVars, sprintVars,
                    releaseVars, pc, slot, noise>>
    BY <1>2 DEF PassOver, Work
  <2>2. TypeOK'
    BY <1>1, <2>1 DEF TypeOK, placeVars, ticketVars, devVars, assetVars, sprintVars,
                      releaseVars
  <2>3. Apart' /\ Family'
    BY <2>1, ListsKept
  <2>4. Steady'
    BY <2>1 DEF Steady, placeVars, ticketVars, devVars, sprintVars
  <2>5. OneWorkerEach' /\ QueuesExact'
    BY <2>1, WorkersKept DEF placeVars, ticketVars, devVars
  <2> QED BY <2>2, <2>3, <2>4, <2>5
<1>3. CASE t \in active /\ (Progress(d, t) \/ Complete(d, t) \/ HandOff(d, t))
  <2>1. /\ pc' = "work"
        /\ UNCHANGED <<large, assetVars, sprintVars, releaseVars, slot, noise>>
    BY DEF Work
  <2>2. PICK e \in Devs : e = d
    BY <1>1
  <2>3. PICK u \in active : u = t
    BY <1>3
  <2>4. u = current[e] /\ (Progress(e, u) \/ Complete(e, u) \/ HandOff(e, u))
    BY <1>3, <2>2, <2>3
  <2> QED BY <1>1, <2>1, <2>4, TurnKeeps
<1> QED BY <1>2, <1>3 DEF Work

\* The release controller moves triaged tickets of the backlog to the committed.
LEMMA ControlKeeps ==
  ASSUME IInv, Control
  PROVE  IInv'
<1> USE DEF IInv
<1>1. PICK A \in SUBSET triaged : /\ committed' = committed \cup A
                                  /\ backlog' = backlog \ A
                                  /\ triaged' = triaged \ A
  BY DEF Control
<1>2. UNCHANGED <<active, completed, ticketVars, large, queue, devVars, assetVars,
                  sprintVars, todo, noise>> /\ pc' = "assign" /\ slot' = 1
  BY DEF Control
<1>3. TypeOK'
  <2>1. warmupActive' \in BOOLEAN /\ warmupFailed' \in BOOLEAN
    BY Zenon DEF Control
  <2>2. slot' \in 1..(NumPhases + 1) /\ pc' \in {"idle", "work", "assign"}
    BY <1>2, FlowAssumption
  <2>3. {backlog', triaged', committed'} \subseteq SUBSET Tickets
    BY <1>1 DEF TypeOK
  <2> QED BY <1>2, <2>1, <2>2, <2>3 DEF TypeOK, ticketVars, devVars, assetVars, sprintVars
<1>4. Apart'
  BY <1>1, <1>2 DEF Apart
<1>5. Somewhere' = Somewhere
  BY <1>1, <1>2 DEF Apart, Somewhere
<1>6. Steady'
  BY <1>2 DEF Steady, ticketVars, devVars, sprintVars
<1>7. OneWorkerEach' /\ QueuesExact'
  BY <1>2, WorkersKept DEF ticketVars, devVars
<1> QED BY <1>3, <1>4, <1>5, <1>6, <1>7, SomewhereKept

\* The head of the queue of p leaves it, a developer takes it, and nothing
\* else moves.
LEMMA HeadTaken ==
  ASSUME TypeOK, OneWorkerEach, QueuesExact,
         NEW p \in Phases, NEW t \in active, NEW d \in Devs,
         queue[p] # <<>>, t = Head(queue[p]), current[d] = None,
         queue' = [queue EXCEPT ![p] = Tail(@)],
         assignedTo' = [assignedTo EXCEPT ![t] = d],
         current' = [current EXCEPT ![d] = t],
         UNCHANGED <<active, phase>>
  PROVE  OneWorkerEach' /\ QueuesExact'
<1>1. /\ current \in [Devs -> Tickets \cup {None}]
      /\ assignedTo \in [Tickets -> Devs \cup {None}]
      /\ queue \in [Phases -> Seq(Tickets)]
      /\ None \notin Tickets /\ None \notin Devs /\ t \in Tickets
  BY FlowAssumption DEF TypeOK
<1>2. queue[p][1] = t /\ 1 \in DOMAIN queue[p]
  BY <1>1
<1>3. Waiting(t, p)
  BY <1>1, <1>2 DEF QueuesExact
<1>4. OneWorkerEach'
  <2> SUFFICES ASSUME NEW u \in Tickets, NEW e \in Devs
               PROVE  current'[e] = u <=> (u \in active' /\ assignedTo'[u] = e)
    BY DEF OneWorkerEach
  <2>1. current[e] = u <=> (u \in active /\ assignedTo[u] = e)
    BY DEF OneWorkerEach
  <2>2. assignedTo[t] = None
    BY <1>3 DEF Waiting
  <2>3. CASE u = t
    BY <1>1, <2>1, <2>2, <2>3
  <2>4. CASE u # t
    BY <1>1, <2>1, <2>4
  <2> QED BY <2>3, <2>4
<1>5. QueuesExact'
  <2>1. ASSUME NEW u \in Tickets, NEW q \in Phases
        PROVE  (Waiting(u, q))' <=> Waiting(u, q) /\ u # t
    BY <1>1 DEF Waiting
  <2>2. ASSUME NEW q \in Phases
        PROVE  /\ \A u \in Tickets : (Waiting(u, q))' <=>
                    \E i \in DOMAIN queue'[q] : queue'[q][i] = u
               /\ \A i, j \in DOMAIN queue'[q] : queue'[q][i] = queue'[q][j] => i = j
    <3>1. CASE q # p
      <4>1. queue'[q] = queue[q]
        BY <1>1, <3>1
      <4>2. ~Waiting(t, q)
        BY <1>3, <3>1 DEF Waiting
      <4>3. \A u \in Tickets : (Waiting(u, q))' <=> Waiting(u, q)
        <5> SUFFICES ASSUME NEW u \in Tickets PROVE (Waiting(u, q))' <=> Waiting(u, q)
          OBVIOUS
        <5> QED BY <2>1, <4>2
      <4>4. /\ \A u \in Tickets : Waiting(u, q) <=> \E i \in DOMAIN queue[q] : queue[q][i] = u
            /\ \A i, j \in DOMAIN queue[q] : queue[q][i] = queue[q][j] => i = j
        BY DEF QueuesExact
      <4> QED BY <4>1, <4>3, <4>4
    <3>2. CASE q = p
      <4> DEFINE s == queue[p]
      <4>1. s \in Seq(Tickets) /\ s # <<>> /\ queue'[p] = Tail(s)
        BY <1>1
      <4>2. /\ \A u \in Tickets : Waiting(u, p) <=> \E i \in DOMAIN s : s[i] = u
            /\ \A i, j \in DOMAIN s : s[i] = s[j] => i = j
        BY DEF QueuesExact
      <4>3. /\ Len(s) \in Nat /\ Len(s) >= 1 /\ DOMAIN s = 1..Len(s)
            /\ DOMAIN Tail(s) = 1..(Len(s) - 1)
            /\ \A i \in 1..(Len(s) - 1) : Tail(s)[i] = s[i + 1]
        BY <4>1
      <4>4. s[1] = t
        BY <1>2
      <4> HIDE DEF s
      <4>5. \A i, j \in DOMAIN Tail(s) : Tail(s)[i] = Tail(s)[j] => i = j
        BY <4>2, <4>3
      <4>6. ASSUME NEW u \in Tickets
            PROVE  (Waiting(u, p) /\ u # t) <=> \E i \in DOMAIN Tail(s) : Tail(s)[i] = u
        <5>1. ASSUME NEW i \in DOMAIN Tail(s), Tail(s)[i] = u
              PROVE  Waiting(u, p) /\ u # t
          <6>1. i + 1 \in DOMAIN s /\ s[i + 1] = u /\ 1 \in DOMAIN s /\ i + 1 # 1
            BY <4>3, <5>1
          <6> QED BY <4>2, <4>4, <6>1
        <5>2. ASSUME Waiting(u, p), u # t
              PROVE  \E i \in DOMAIN Tail(s) : Tail(s)[i] = u
          <6>1. PICK i \in DOMAIN s : s[i] = u
            BY <4>2, <5>2
          <6>2. i # 1
            BY <4>4, <5>2, <6>1
          <6>3. i - 1 \in DOMAIN Tail(s) /\ Tail(s)[i - 1] = u
            BY <4>3, <6>1, <6>2
          <6> QED BY <6>3
        <5> QED BY <5>1, <5>2
      <4> QED BY <2>1, <3>2, <4>1, <4>5, <4>6
    <3> QED BY <3>1, <3>2
  <2> QED BY <2>2 DEF QueuesExact
<1> QED BY <1>4, <1>5

\* One assignment of the pass, with or without a mentor.
LEMMA AssignHeadKeeps ==
  ASSUME IInv, AssignHead
  PROVE  IInv'
<1> USE DEF IInv
<1>1. PICK p \in Phases : p = Turn(slot)
  <2>1. slot \in 1..NumPhases
    BY FlowAssumption DEF AssignHead, TypeOK
  <2> QED BY <2>1, TurnOrder
<1>2. queue[p] # <<>> /\ Head(queue[p]) \in active /\ SelectDev(Head(queue[p]), p) # None
  BY <1>1 DEF AssignHead, Assignable
<1>3. PICK t \in active : t = Head(queue[p])
  BY <1>2
<1>4. PICK d \in Devs : d = SelectDev(t, p) /\ d \in Members(team) /\ current[d] = None
  <2>1. team \in Seq(Devs) /\ team # <<>> /\ cursor \in DOMAIN team
    BY DEF TypeOK
  <2>2. Members(team) \subseteq Devs
    BY <2>1 DEF Members
  <2> QED BY <1>2, <1>3, <2>1, <2>2, SelectDevType DEF MayTake, Available, Idle
<1>5. PICK m \in Devs \cup {None} : m = SelectMentor(d, p)
  <2>1. team \in Seq(Devs)
    BY DEF TypeOK
  <2>2. Members(team) \subseteq Devs
    BY <2>1 DEF Members
  <2> QED BY <2>1, <2>2, SelectMentorType
<1>6. Assign(t, p, d, m)
  BY <1>1, <1>3, <1>4, <1>5 DEF AssignHead
<1>7. UNCHANGED <<placeVars, phase, large, team, assetVars, sprintVars, releaseVars,
                  tickVars, noise>>
  BY DEF AssignHead
<1>8. t \in Tickets
  BY DEF TypeOK
<1>9. TypeOK'
  <2>1. cursor' \in DOMAIN team
    BY <1>4, <1>6, PositionType DEF Assign
  <2>2. queue' \in [Phases -> Seq(Tickets)]
    BY <1>2, <1>6 DEF Assign, TypeOK
  <2>3. /\ assignedTo' \in [Tickets -> Devs \cup {None}]
        /\ effort' \in [Tickets -> Nat]
        /\ current' \in [Devs -> Tickets \cup {None}]
    BY <1>6, <1>8 DEF Assign, TypeOK
  <2>4. /\ hands' \in [Tickets -> SUBSET Devs]
        /\ contributors' \in [Tickets -> SUBSET Devs]
        /\ mentorIndex' \in [Devs -> Tickets \cup {None}]
    <3>1. /\ hands \in [Tickets -> SUBSET Devs]
          /\ contributors \in [Tickets -> SUBSET Devs]
          /\ mentorIndex \in [Devs -> Tickets \cup {None}]
      BY DEF TypeOK
    <3>2. CASE m = None
      <4>1. /\ hands' = [hands EXCEPT ![t] = @ \cup {d}]
            /\ UNCHANGED <<mentorIndex, contributors>>
        BY <1>6, <3>2 DEF Assign
      <4> QED BY <1>8, <3>1, <4>1
    <3>3. CASE m # None
      <4>1. /\ hands' = [hands EXCEPT ![t] = @ \cup {d, m}]
            /\ mentorIndex' = [mentorIndex EXCEPT ![m] = t]
            /\ contributors' = [contributors EXCEPT ![t] = @ \cup {m}]
        BY <1>6, <3>3 DEF Assign
      <4> QED BY <1>8, <3>1, <3>3, <4>1
    <3> QED BY <3>2, <3>3
  <2>5. ticketMentors' \in [Tickets -> [Phases -> Devs \cup {None}]]
    <3>1. ticketMentors \in [Tickets -> [Phases -> Devs \cup {None}]]
      BY DEF TypeOK
    <3>2. [ticketMentors[t] EXCEPT ![p] = m] \in [Phases -> Devs \cup {None}]
      BY <1>8, <3>1
    <3>3. \/ ticketMentors' = ticketMentors
          \/ ticketMentors' = [ticketMentors EXCEPT ![t][p] = m]
      BY <1>6 DEF Assign
    <3> QED BY <1>8, <3>1, <3>2, <3>3
  <2> QED BY <1>7, <2>1, <2>2, <2>3, <2>4, <2>5
          DEF TypeOK, placeVars, assetVars, sprintVars, releaseVars, tickVars
<1>10. Apart' /\ Family'
  BY <1>7, ListsKept
<1>11. Steady'
  BY <1>7 DEF Steady, placeVars, sprintVars, tickVars
<1>12. OneWorkerEach' /\ QueuesExact'
  <2>1. /\ queue' = [queue EXCEPT ![p] = Tail(@)]
        /\ assignedTo' = [assignedTo EXCEPT ![t] = d]
        /\ current' = [current EXCEPT ![d] = t]
    BY <1>6 DEF Assign
  <2>2. UNCHANGED <<active, phase>>
    BY <1>7 DEF placeVars
  <2> QED BY <1>2, <1>3, <1>4, <2>1, <2>2, HeadTaken
<1> QED BY <1>9, <1>10, <1>11, <1>12

\* The pass goes on to the next phase.
LEMMA NextSlotKeeps ==
  ASSUME IInv, NextSlot
  PROVE  IInv'
<1> USE DEF IInv
<1>1. slot' \in 1..(NumPhases + 1)
  BY FlowAssumption DEF NextSlot, TypeOK
<1>2. TypeOK'
  BY <1>1 DEF NextSlot, TypeOK, placeVars, ticketVars, devVars, assetVars, sprintVars,
              releaseVars
<1>3. Apart' /\ Family'
  BY ListsKept DEF NextSlot
<1>4. Steady'
  BY DEF NextSlot, Steady, placeVars, ticketVars, devVars, sprintVars
<1>5. OneWorkerEach' /\ QueuesExact'
  BY WorkersKept DEF NextSlot, placeVars, ticketVars, devVars
<1> QED BY <1>2, <1>3, <1>4, <1>5

\* The random events only raise efforts; a sprint that goes on has a day left.
LEMMA EndTickKeeps ==
  ASSUME IInv, EndTick
  PROVE  IInv'
<1> USE DEF IInv
<1>1. PICK bugs \in SUBSET active, creeps \in SUBSET active :
        /\ noise' = noise + Cardinality(bugs) + Cardinality(creeps)
        /\ noise' <= MaxNoise
        /\ effort' = [t \in Tickets |-> effort[t] + (IF t \in bugs THEN 1 ELSE 0)
                                                  + (IF t \in creeps THEN 1 ELSE 0)]
        /\ \E grown \in SUBSET creeps : large' = large \cup grown
  BY DEF EndTick
<1>2. active \subseteq Tickets
  BY DEF TypeOK
<1>3. noise' \in 0..MaxNoise
  <2>1. IsFiniteSet(bugs) /\ IsFiniteSet(creeps)
    <3>1. IsFiniteSet(Tickets)
      BY FlowAssumption
    <3> QED BY <1>2, <3>1, FS_Subset
  <2>2. Cardinality(bugs) \in Nat /\ Cardinality(creeps) \in Nat
    BY <2>1, FS_CardinalityType
  <2>3. MaxNoise \in Nat /\ noise \in Nat
    BY FlowAssumption DEF TypeOK
  <2> QED BY <1>1, <2>2, <2>3
<1>4. effort' \in [Tickets -> Nat]
  BY <1>1 DEF TypeOK
<1>5. large' \subseteq Tickets
  BY <1>1, <1>2 DEF TypeOK
<1>6. sprint' \in BOOLEAN
  BY Zenon DEF EndTick
<1>7. /\ slot' \in 1..(NumPhases + 1) /\ pc' \in {"idle", "work", "assign"}
      /\ UNCHANGED <<placeVars, phase, assignedTo, contributors, hands, queue, devVars,
                     assetVars, sprintNumber, daysLeft, releaseVars, todo>>
  BY FlowAssumption DEF EndTick
<1>8. TypeOK'
  BY <1>3, <1>4, <1>5, <1>6, <1>7 DEF TypeOK, placeVars, devVars, assetVars, releaseVars
<1>9. Apart' /\ Family'
  BY <1>7, ListsKept
<1>10. Steady'
  <2>1. sprint' => ~SprintOver
    BY DEF EndTick
  <2>2. sprint' => daysLeft > 0
    BY <2>1 DEF SprintOver, TypeOK
  <2> QED BY <1>7, <2>2 DEF Steady, placeVars, devVars
<1>11. OneWorkerEach' /\ QueuesExact'
  BY <1>7, WorkersKept DEF placeVars, devVars
<1> QED BY <1>8, <1>9, <1>10, <1>11

\* A step that changes nothing.
LEMMA StutterKeeps ==
  ASSUME IInv, UNCHANGED vars
  PROVE  IInv'
<1> USE DEF IInv, vars
<1>1. TypeOK'
  BY DEF TypeOK, placeVars, ticketVars, devVars, assetVars, sprintVars, releaseVars,
         tickVars
<1>2. Apart' /\ Family'
  BY ListsKept
<1>3. Steady'
  BY DEF Steady, placeVars, ticketVars, devVars, sprintVars, tickVars
<1>4. OneWorkerEach' /\ QueuesExact'
  BY WorkersKept DEF placeVars, ticketVars, devVars
<1> QED BY <1>1, <1>2, <1>3, <1>4

-----------------------------------------------------------------------------
(* The steps, as far as tickets, workers and mentors are concerned *)

\* An action that moves nobody: no ticket changes its phase, its worker or its
\* mentor.
Calm == /\ UNCHANGED <<active, completed, phase, assignedTo, current, contributors,
                       hands, mentorIndex, ticketMentors>>
        /\ cicdSlots' >= cicdSlots

\* A developer leaves a ticket, which goes on to the next phase or is done.
Leaves(d, t) == /\ t = current[d]
                /\ Complete(d, t) \/ HandOff(d, t)
                /\ UNCHANGED cicdSlots

\* The head of a queue is taken in the pass, within the cap of its phase.
Takes(t, p, d, m) ==
  /\ p = Turn(slot) /\ t = Head(queue[p]) /\ queue[p] # <<>>
  /\ d = SelectDev(t, p) /\ m = SelectMentor(d, p)
  /\ phase[t] = p /\ assignedTo[t] = None /\ ~AtCap(p) /\ MayTake(d, t, p)
  /\ m # None => /\ m # d /\ Available(m)
                 /\ Experience[m][p] = "High" /\ Experience[d][p] = "Low"
  /\ Assign(t, p, d, m)
  /\ UNCHANGED <<placeVars, phase, large, team, assetVars, tickVars>>

\* There are no other steps.
LEMMA StepCases ==
  ASSUME IInv, [Next]_vars
  PROVE  \/ Calm
         \/ \E t \in Tickets, d \in Devs : AssignTicket(t, d)
         \/ \E d \in Devs : \E t \in active : Leaves(d, t)
         \/ AssignHead
<1>0. cicdSlots \in Nat
  BY DEF IInv, TypeOK
<1>1. CASE StartSprint \/ BeginTick \/ Control \/ NextSlot \/ EndTick
  BY <1>0, <1>1 DEF StartSprint, BeginTick, Control, NextSlot, EndTick, Calm, placeVars,
                    ticketVars, devVars, assetVars
<1>2. ASSUME NEW t \in Tickets, Decompose(t) PROVE Calm
  BY <1>0, <1>2 DEF Decompose, Calm, ticketVars, devVars, assetVars
<1>3. ASSUME NEW o \in Options, Invest(o) PROVE Calm
  <2>1. cicdSlots' >= cicdSlots
    BY <1>0, <1>3 DEF Invest
  <2> QED BY <1>3, <2>1 DEF Invest, Calm, placeVars, ticketVars
<1>4. CASE Work
  <2>1. Head(todo) \in Devs
    BY <1>4 DEF Work, IInv, TypeOK
  <2>2. PICK d \in Devs : d = Head(todo)
    BY <2>1
  <2>3. CASE PassOver(d)
    BY <1>0, <1>4, <2>3 DEF Work, PassOver, Calm, placeVars, ticketVars, devVars, assetVars
  <2>4. CASE current[d] \in active /\ Progress(d, current[d])
    BY <1>0, <1>4, <2>4 DEF Work, Progress, Calm, placeVars, devVars, assetVars
  <2>5. CASE /\ current[d] \in active
             /\ Complete(d, current[d]) \/ HandOff(d, current[d])
    BY <1>4, <2>5 DEF Work, Leaves, assetVars
  <2> QED BY <1>4, <2>2, <2>3, <2>4, <2>5 DEF Work
<1>5. CASE UNCHANGED vars
  BY <1>0, <1>5 DEF vars, Calm, placeVars, ticketVars, devVars, assetVars
<1> QED BY <1>1, <1>2, <1>3, <1>4, <1>5 DEF Next, Tick

\* What one assignment of the pass is.
LEMMA TakenFacts ==
  ASSUME IInv, AssignHead
  PROVE  \E p \in Phases : \E t \in active : \E d \in Devs :
           \E m \in Devs \cup {None} : Takes(t, p, d, m)
<1> USE DEF IInv
<1>1. PICK p \in Phases : p = Turn(slot)
  <2>1. slot \in 1..NumPhases
    BY FlowAssumption DEF AssignHead, TypeOK
  <2> QED BY <2>1, TurnOrder
<1>2. /\ queue[p] # <<>> /\ Head(queue[p]) \in active
      /\ ~AtCap(p) /\ SelectDev(Head(queue[p]), p) # None
  BY <1>1 DEF AssignHead, Assignable
<1>3. PICK t \in active : t = Head(queue[p])
  BY <1>2
<1>4. /\ team \in Seq(Devs) /\ team # <<>> /\ cursor \in DOMAIN team
      /\ Members(team) \subseteq Devs
  BY DEF TypeOK, Members
<1>5. PICK d \in Devs : d = SelectDev(t, p) /\ MayTake(d, t, p)
  BY <1>2, <1>3, <1>4, SelectDevType
<1>6. PICK m \in Devs \cup {None} :
        /\ m = SelectMentor(d, p)
        /\ m # None => /\ m # d /\ Available(m)
                       /\ Experience[m][p] = "High" /\ Experience[d][p] = "Low"
  BY <1>4, SelectMentorType
<1>7. Assign(t, p, d, m)
  BY <1>1, <1>3, <1>5, <1>6 DEF AssignHead
<1>8. UNCHANGED <<placeVars, phase, large, team, assetVars, tickVars>>
  BY DEF AssignHead
<1>9. phase[t] = p /\ assignedTo[t] = None
  <2>1. queue[p] \in Seq(Tickets) /\ t \in Tickets
    BY DEF TypeOK
  <2>2. 1 \in DOMAIN queue[p] /\ queue[p][1] = t
    BY <1>2, <1>3, <2>1
  <2> QED BY <2>1, <2>2 DEF QueuesExact, Waiting
<1> QED BY <1>1, <1>2, <1>3, <1>5, <1>6, <1>7, <1>8, <1>9 DEF Takes

-----------------------------------------------------------------------------
(* Mentors *)

\* A mentor mentors a ticket that is being worked on.
MInv == MentorsAgree /\ \A m \in Devs : mentorIndex[m] # None => mentorIndex[m] \in active

\* Hand-offs, completions and assignments keep the two indexes of mentors inverse.
LEMMA MentorsKept ==
  ASSUME IInv, MInv, [Next]_vars
  PROVE  MInv'
<1> USE DEF IInv
<1>1. /\ mentorIndex \in [Devs -> Tickets \cup {None}]
      /\ ticketMentors \in [Tickets -> [Phases -> Devs \cup {None}]]
      /\ assignedTo \in [Tickets -> Devs \cup {None}]
      /\ phase \in [Tickets -> 0..Done]
      /\ None \notin Tickets /\ None \notin Devs /\ active \subseteq Tickets
      /\ \A t \in active : phase[t] \in Phases
  BY FlowAssumption DEF TypeOK, Steady
<1>2. /\ \A m \in Devs, t \in Tickets, p \in Phases : ticketMentors[t][p] = m =>
           /\ mentorIndex[m] = t /\ Experience[m][p] = "High"
           /\ t \in active /\ phase[t] = p
           /\ assignedTo[t] \in Devs \ {m} /\ Experience[assignedTo[t]][p] = "Low"
      /\ \A m \in Devs : mentorIndex[m] # None =>
           /\ ticketMentors[mentorIndex[m]][phase[mentorIndex[m]]] = m
           /\ mentorIndex[m] \in active
  BY DEF MInv, MentorsAgree
<1>3. \A t \in Tickets : assignedTo[t] = None \/ t \notin active =>
        \A p \in Phases : ticketMentors[t][p] = None
  BY <1>1, <1>2
<1>4. CASE Calm
  BY <1>2, <1>4 DEF Calm, MInv, MentorsAgree
<1>5. ASSUME NEW t \in Tickets, NEW d \in Devs, AssignTicket(t, d) PROVE MInv'
  <2>1. t \notin active
    BY <1>5 DEF AssignTicket, Apart
  <2>2. /\ UNCHANGED <<mentorIndex, ticketMentors>> /\ active \subseteq active'
        /\ \A u \in Tickets \ {t} : assignedTo'[u] = assignedTo[u] /\ phase'[u] = phase[u]
    BY <1>1, <1>5 DEF AssignTicket
  <2>3. \A m \in Devs, u \in Tickets, p \in Phases : ticketMentors[u][p] = m => u # t
    BY <1>2, <2>1
  <2>4. \A m \in Devs : mentorIndex[m] # t
    BY <1>1, <1>2, <2>1
  <2> QED BY <1>1, <1>2, <2>2, <2>3, <2>4 DEF MInv, MentorsAgree
<1>6. ASSUME NEW d \in Devs, NEW t \in active, Leaves(d, t) PROVE MInv'
  <2>1. t \in Tickets /\ phase[t] \in Phases /\ ReleaseMentor(t, phase[t])
    BY <1>1, <1>6 DEF Leaves, Complete, HandOff
  <2>2. /\ active \ {t} \subseteq active'
        /\ \A u \in Tickets \ {t} : assignedTo'[u] = assignedTo[u] /\ phase'[u] = phase[u]
    BY <1>1, <1>6 DEF Leaves, Complete, HandOff, placeVars
  <2>3. \A p \in Phases : ticketMentors'[t][p] = None
    BY <1>1, <1>2, <2>1 DEF ReleaseMentor
  <2>4. \A u \in Tickets \ {t}, p \in Phases : ticketMentors'[u][p] = ticketMentors[u][p]
    BY <1>1, <2>1 DEF ReleaseMentor
  <2>5. \A m \in Devs : /\ mentorIndex'[m] # t
                        /\ mentorIndex'[m] = mentorIndex[m] \/ mentorIndex'[m] = None
    <3> DEFINE n == ticketMentors[t][phase[t]]
    <3>1. \A m \in Devs : mentorIndex[m] = t => n = m
      BY <1>1, <1>2, <2>1
    <3>2. CASE n = None
      BY <1>1, <2>1, <3>1, <3>2 DEF ReleaseMentor
    <3>3. CASE n # None
      <4>1. mentorIndex' = [mentorIndex EXCEPT ![n] = None] /\ n \in Devs
        BY <1>1, <2>1, <3>3 DEF ReleaseMentor
      <4> QED BY <1>1, <2>1, <3>1, <4>1
    <3> QED BY <3>2, <3>3
  <2>6. \A m \in Devs, u \in Tickets, p \in Phases : ticketMentors'[u][p] = m =>
          u # t /\ ticketMentors[u][p] = m
    BY <1>1, <2>3, <2>4
  <2>7. ASSUME NEW m \in Devs, NEW u \in Tickets, NEW p \in Phases, ticketMentors'[u][p] = m
        PROVE  /\ mentorIndex'[m] = u /\ Experience[m][p] = "High"
               /\ u \in active' /\ phase'[u] = p
               /\ assignedTo'[u] \in Devs \ {m} /\ Experience[assignedTo'[u]][p] = "Low"
    <3>1. u # t /\ ticketMentors[u][p] = m
      BY <2>6, <2>7
    <3>2. mentorIndex[m] = u
      BY <1>2, <3>1
    <3>3. mentorIndex'[m] = u
      <4> DEFINE n == ticketMentors[t][phase[t]]
      <4>1. n # m
        BY <1>2, <2>1, <3>1, <3>2
      <4>2. CASE n = None
        BY <2>1, <3>2, <4>2 DEF ReleaseMentor
      <4>3. CASE n # None
        <5>1. mentorIndex' = [mentorIndex EXCEPT ![n] = None]
          BY <2>1, <4>3 DEF ReleaseMentor
        <5> HIDE DEF n
        <5> QED BY <1>1, <3>2, <4>1, <5>1
      <4> QED BY <4>2, <4>3
    <3> QED BY <1>2, <2>2, <3>1, <3>3
  <2>8. ASSUME NEW m \in Devs, mentorIndex'[m] # None
        PROVE  /\ ticketMentors'[mentorIndex'[m]][phase'[mentorIndex'[m]]] = m
               /\ mentorIndex'[m] \in active'
    <3>1. PICK u \in active : u = mentorIndex[m] /\ mentorIndex'[m] = u /\ u # t
      BY <1>2, <2>5, <2>8
    <3>2. u \in Tickets /\ phase[u] \in Phases /\ phase'[u] = phase[u]
      BY <1>1, <2>2, <3>1
    <3>3. ticketMentors[u][phase[u]] = m
      BY <1>2, <2>8, <3>1
    <3>4. ticketMentors'[u][phase'[u]] = m
      BY <2>4, <3>1, <3>2, <3>3
    <3>5. u \in active'
      BY <2>2, <3>1
    <3> QED BY <3>1, <3>4, <3>5
  <2> QED BY <2>7, <2>8 DEF MInv, MentorsAgree
<1>7. ASSUME NEW p \in Phases, NEW t \in active, NEW d \in Devs,
             NEW m \in Devs \cup {None}, Takes(t, p, d, m)
      PROVE  MInv'
  <2>1. /\ t \in Tickets /\ phase[t] = p /\ assignedTo[t] = None
        /\ assignedTo' = [assignedTo EXCEPT ![t] = d]
        /\ active' = active /\ phase' = phase
        /\ m # None => /\ m # d /\ mentorIndex[m] = None
                       /\ Experience[m][p] = "High" /\ Experience[d][p] = "Low"
    BY <1>1, <1>7 DEF Takes, Assign, Available, placeVars
  <2>2. \A q \in Phases : ticketMentors[t][q] = None
    BY <1>3, <2>1
  <2>3. \A n \in Devs : mentorIndex[n] # t
    BY <1>1, <1>2, <2>1, <2>2
  <2>4. \A u \in Tickets \ {t} : assignedTo'[u] = assignedTo[u]
    BY <1>1, <2>1
  <2>5. CASE m = None
    <3>1. UNCHANGED <<mentorIndex, ticketMentors>>
      BY <1>7, <2>5 DEF Takes, Assign
    <3>2. \A n \in Devs, u \in Tickets, q \in Phases : ticketMentors[u][q] = n => u # t
      BY <1>1, <2>2
    <3> QED BY <1>1, <1>2, <2>1, <2>3, <2>4, <3>1, <3>2 DEF MInv, MentorsAgree
  <2>6. CASE m # None
    <3>1. /\ mentorIndex' = [mentorIndex EXCEPT ![m] = t]
          /\ ticketMentors' = [ticketMentors EXCEPT ![t][p] = m]
      BY <1>7, <2>6 DEF Takes, Assign
    <3>2. /\ m \in Devs /\ mentorIndex'[m] = t
          /\ \A n \in Devs \ {m} : mentorIndex'[n] = mentorIndex[n]
      BY <1>1, <2>6, <3>1
    <3>3. /\ ticketMentors'[t][p] = m
          /\ \A q \in Phases \ {p} : ticketMentors'[t][q] = None
          /\ \A u \in Tickets \ {t} : ticketMentors'[u] = ticketMentors[u]
      BY <1>1, <2>1, <2>2, <3>1
    <3>4. ASSUME NEW n \in Devs, NEW u \in Tickets, NEW q \in Phases,
                 ticketMentors'[u][q] = n
          PROVE  /\ mentorIndex'[n] = u /\ Experience[n][q] = "High"
                 /\ u \in active' /\ phase'[u] = q
                 /\ assignedTo'[u] \in Devs \ {n} /\ Experience[assignedTo'[u]][q] = "Low"
      <4>1. CASE u = t
        <5>1. q = p /\ n = m
          BY <1>1, <3>3, <3>4, <4>1
        <5> QED BY <1>1, <2>1, <2>6, <3>2, <4>1, <5>1
      <4>2. CASE u # t
        <5>1. ticketMentors[u][q] = n
          BY <3>3, <3>4, <4>2
        <5>2. mentorIndex[n] = u /\ n # m
          BY <1>1, <1>2, <2>1, <2>6, <5>1
        <5> QED BY <1>2, <2>1, <2>4, <3>2, <4>2, <5>1, <5>2
      <4> QED BY <4>1, <4>2
    <3>5. ASSUME NEW n \in Devs, mentorIndex'[n] # None
          PROVE  /\ ticketMentors'[mentorIndex'[n]][phase'[mentorIndex'[n]]] = n
                 /\ mentorIndex'[n] \in active'
      <4>1. CASE n = m
        BY <2>1, <3>2, <3>3, <4>1
      <4>2. CASE n # m
        <5>1. PICK u \in active : u = mentorIndex[n] /\ mentorIndex'[n] = u /\ u # t
          BY <1>2, <2>3, <3>2, <3>5, <4>2
        <5> QED BY <1>1, <1>2, <2>1, <3>3, <5>1
      <4> QED BY <4>1, <4>2
    <3> QED BY <3>4, <3>5 DEF MInv, MentorsAgree
  <2> QED BY <2>5, <2>6
<1> QED BY <1>4, <1>5, <1>6, <1>7, StepCases, TakenFacts

-----------------------------------------------------------------------------
(* Caps *)

\* Whoever is in flight in a phase stays countable.
LEMMA InFlightFinite ==
  ASSUME TypeOK
  PROVE  \A p \in Phases : IsFiniteSet(InFlight(p)) /\ Cardinality(InFlight(p)) \in Nat
<1>1. \A p \in Phases : InFlight(p) \subseteq Tickets
  BY DEF InFlight, TypeOK
<1> QED BY <1>1, FlowAssumption, FS_Subset, FS_CardinalityType

\* A phase that gains nobody, and no smaller cap, stays within its cap.
LEMMA NotOverKept ==
  ASSUME TypeOK, NEW p \in Phases, ~OverCap(p), InFlight(p)' \subseteq InFlight(p),
         cicdSlots' >= cicdSlots, cicdSlots' \in Nat
  PROVE  ~OverCap(p)'
<1>1. /\ IsFiniteSet(InFlight(p)) /\ cicdSlots \in Nat
      /\ p \in DOMAIN Caps => Caps[p] \in Nat
  BY InFlightFinite, FlowAssumption DEF TypeOK
<1>2. Cardinality(InFlight(p)') <= Cardinality(InFlight(p))
  BY <1>1, FS_Subset
<1>3. Cardinality(InFlight(p)') \in Nat /\ Cardinality(InFlight(p)) \in Nat
  BY <1>1, FS_Subset, FS_CardinalityType
<1>4. PICK a \in Nat, b \in Nat : a = Cardinality(InFlight(p)') /\ b = Cardinality(InFlight(p))
  BY <1>3
<1>5. b >= a
  BY <1>2, <1>4
<1>6. (OverCap(p))' <=> \/ p \in DOMAIN Caps /\ a > Caps[p]
                        \/ p \notin DOMAIN Caps /\ p = CICD /\ a > cicdSlots'
  BY <1>4 DEF OverCap
<1>7. OverCap(p) <=> \/ p \in DOMAIN Caps /\ b > Caps[p]
                     \/ p \notin DOMAIN Caps /\ p = CICD /\ b > cicdSlots
  BY <1>4 DEF OverCap
<1> QED BY <1>1, <1>5, <1>6, <1>7

\* The check before each assignment of the pass keeps every phase but Research
\* within its cap.
LEMMA CapsKept ==
  ASSUME IInv, CapsHold, TypeOK', [Next]_vars
  PROVE  CapsHold'
<1> SUFFICES ASSUME NEW p \in Phases \ {1} PROVE ~OverCap(p)'
  BY DEF CapsHold
<1>1. /\ TypeOK /\ ~OverCap(p) /\ cicdSlots \in Nat /\ cicdSlots' \in Nat
      /\ assignedTo \in [Tickets -> Devs \cup {None}] /\ phase \in [Tickets -> 0..Done]
      /\ active \subseteq Tickets
  BY DEF IInv, TypeOK, CapsHold
<1>2. CASE Calm
  BY <1>1, <1>2, NotOverKept DEF Calm, InFlight
<1>3. ASSUME NEW t \in Tickets, NEW d \in Devs, AssignTicket(t, d) PROVE ~OverCap(p)'
  <2>1. InFlight(p)' \subseteq InFlight(p)
    BY <1>1, <1>3 DEF AssignTicket, InFlight
  <2>2. cicdSlots' >= cicdSlots
    BY <1>1, <1>3 DEF AssignTicket, assetVars
  <2> QED BY <1>1, <2>1, <2>2, NotOverKept
<1>4. ASSUME NEW d \in Devs, NEW t \in active, Leaves(d, t) PROVE ~OverCap(p)'
  <2>1. p # Done /\ None \notin Devs
    BY FlowAssumption DEF Phases, Done
  <2>2. CASE Complete(d, t)
    BY <1>1, <1>4, <2>1, <2>2, NotOverKept DEF Leaves, Complete, InFlight
  <2>3. CASE HandOff(d, t)
    BY <1>1, <1>4, <2>3, NotOverKept DEF Leaves, HandOff, InFlight, placeVars
  <2> QED BY <1>4, <2>2, <2>3 DEF Leaves
<1>5. ASSUME NEW q \in Phases, NEW t \in active, NEW d \in Devs,
             NEW m \in Devs \cup {None}, Takes(t, q, d, m)
      PROVE  ~OverCap(p)'
  <2>1. /\ phase[t] = q /\ assignedTo[t] = None /\ ~AtCap(q)
        /\ assignedTo' = [assignedTo EXCEPT ![t] = d]
        /\ UNCHANGED <<active, phase, cicdSlots>>
    BY <1>5 DEF Takes, Assign, placeVars, assetVars
  <2>2. CASE p # q
    BY <1>1, <2>1, <2>2, NotOverKept DEF InFlight
  <2>3. CASE p = q
    <3>1. InFlight(p)' = InFlight(p) \cup {t} /\ t \notin InFlight(p)
      BY <1>1, <2>1, <2>3, FlowAssumption DEF InFlight
    <3>2. IsFiniteSet(InFlight(p)) /\ Cardinality(InFlight(p)) \in Nat
      BY <1>1, InFlightFinite
    <3>3. PICK n \in Nat : n = Cardinality(InFlight(p))
      BY <3>2
    <3>4. Cardinality(InFlight(p)') = n + 1
      BY <3>1, <3>2, <3>3, FS_AddElement
    <3>5. (OverCap(p))' <=> \/ p \in DOMAIN Caps /\ n + 1 > Caps[p]
                            \/ p \notin DOMAIN Caps /\ p = CICD /\ n + 1 > cicdSlots'
      BY <3>4 DEF OverCap
    <3>6. AtCap(p) <=> \/ p \in DOMAIN Caps /\ n >= Caps[p]
                       \/ p \notin DOMAIN Caps /\ p = CICD /\ n >= cicdSlots
      BY <3>3 DEF AtCap
    <3>7. p \in DOMAIN Caps => Caps[p] \in Nat
      BY FlowAssumption
    <3> QED BY <1>1, <2>1, <2>3, <3>5, <3>6, <3>7
  <2> QED BY <2>2, <2>3
<1> QED BY <1>2, <1>3, <1>4, <1>5, StepCases, TakenFacts

-----------------------------------------------------------------------------
(* Contributors *)

\* The history that the code keeps in part: contributors are those who have
\* worked on a ticket or mentored it and are no longer at work on it.
HInv ==
  \A t \in Tickets :
    /\ contributors[t] \subseteq hands[t]
    /\ hands[t] \subseteq contributors[t] \cup {assignedTo[t]}
    /\ assignedTo[t] # None => assignedTo[t] \in hands[t]
    /\ t \notin active \cup completed => hands[t] = {}

\* Every hand-off and every pairing is recorded.
LEMMA HandsKept ==
  ASSUME IInv, HInv, [Next]_vars
  PROVE  HInv'
<1>1. /\ assignedTo \in [Tickets -> Devs \cup {None}]
      /\ contributors \in [Tickets -> SUBSET Devs] /\ hands \in [Tickets -> SUBSET Devs]
      /\ None \notin Devs /\ active \subseteq Tickets
      /\ \A t \in active, d \in Devs : current[d] = t => assignedTo[t] = d
      /\ \A t \in backlog \cup committed : t \notin active \cup completed
  BY FlowAssumption DEF IInv, TypeOK, OneWorkerEach, Apart
<1>2. CASE Calm
  BY <1>2 DEF Calm, HInv
<1>3. ASSUME NEW t \in Tickets, NEW d \in Devs, AssignTicket(t, d) PROVE HInv'
  <2>1. /\ t \notin active \cup completed
        /\ active' = active \cup {t} /\ completed' = completed
        /\ assignedTo' = [assignedTo EXCEPT ![t] = d]
        /\ hands' = [hands EXCEPT ![t] = @ \cup {d}] /\ contributors' = contributors
    BY <1>1, <1>3 DEF AssignTicket
  <2> QED BY <1>1, <2>1 DEF HInv
<1>4. ASSUME NEW d \in Devs, NEW t \in active, Leaves(d, t) PROVE HInv'
  <2>1. t \in Tickets /\ assignedTo[t] = d /\ hands' = hands
        /\ active' \cup completed' = active \cup completed
    BY <1>1, <1>4 DEF Leaves, Complete, HandOff, placeVars
  <2>2. CASE Complete(d, t)
    BY <2>1, <2>2 DEF Complete, HInv
  <2>3. CASE HandOff(d, t)
    BY <1>1, <2>1, <2>3 DEF HandOff, HInv
  <2> QED BY <1>4, <2>2, <2>3 DEF Leaves
<1>5. ASSUME NEW p \in Phases, NEW t \in active, NEW d \in Devs,
             NEW m \in Devs \cup {None}, Takes(t, p, d, m)
      PROVE  HInv'
  <2>1. /\ assignedTo[t] = None /\ assignedTo' = [assignedTo EXCEPT ![t] = d]
        /\ UNCHANGED <<active, completed>>
        /\ \/ /\ hands' = [hands EXCEPT ![t] = @ \cup {d}] /\ contributors' = contributors
           \/ /\ m # None /\ hands' = [hands EXCEPT ![t] = @ \cup {d, m}]
              /\ contributors' = [contributors EXCEPT ![t] = @ \cup {m}]
    BY <1>5 DEF Takes, Assign, placeVars
  <2>2. t \in Tickets /\ hands[t] \subseteq contributors[t]
    BY <1>1, <2>1 DEF HInv
  <2> QED BY <1>1, <2>1, <2>2 DEF HInv
<1> QED BY <1>2, <1>3, <1>4, <1>5, StepCases, TakenFacts


\* Only a review that nobody else could take goes to somebody who has been on
\* the ticket.
LEMMA SelectFresh ==
  ASSUME TypeOK, NEW t \in Tickets, SelectDev(t, Review) \in contributors[t]
  PROVE  \A e \in Members(team) : MayTake(e, t, Review) => e \in contributors[t]
<1>1. /\ team \in Seq(Devs) /\ team # <<>> /\ cursor \in DOMAIN team
      /\ contributors[t] \subseteq Devs /\ None \notin Devs
  BY FlowAssumption DEF TypeOK
<1> DEFINE turns == 0..(Len(team) - 1)
           fresh == {i \in turns : IsFresh(After(i), t, Review)}
<1>2. fresh = {}
  <2>1. SUFFICES ASSUME fresh # {} PROVE FALSE
    OBVIOUS
  <2>2. SelectDev(t, Review) = After(Least(fresh))
    BY <2>1 DEF SelectDev
  <2>3. Least(fresh) \in fresh
    BY <2>1, LeastType
  <2>4. IsFresh(After(Least(fresh)), t, Review)
    BY <2>3
  <2> QED BY <2>2, <2>4 DEF IsFresh
<1>3. ASSUME NEW e \in Members(team), MayTake(e, t, Review) PROVE e \in contributors[t]
  <2>1. PICK i \in turns : After(i) = e
    BY <1>1, EveryoneHasATurn
  <2> QED BY <1>2, <1>3, <2>1 DEF IsFresh
<1> QED BY <1>3

-----------------------------------------------------------------------------
(* The assignment pass *)

\* A phase the pass has been at has no head that anybody may take.
Passed(p) ==
  queue[p] # <<>> /\ ~AtCap(p) =>
    \A d \in Members(team) : ~MayTake(d, Head(queue[p]), p)

\* The pass so far.
WInv == pc = "assign" => \A n \in 1..(slot - 1) : Passed(Turn(n))

\* No assignment of the pass makes a phase assignable that was not.
LEMMA PassKept ==
  ASSUME IInv, WInv, [Next]_vars
  PROVE  WInv'
<1> USE DEF IInv
<1>1. /\ slot \in 1..(NumPhases + 1) /\ NumPhases \in Nat
      /\ team \in Seq(Devs) /\ team # <<>> /\ cursor \in DOMAIN team
      /\ queue \in [Phases -> Seq(Tickets)]
      /\ current \in [Devs -> Tickets \cup {None}]
      /\ mentorIndex \in [Devs -> Tickets \cup {None}]
      /\ assignedTo \in [Tickets -> Devs \cup {None}]
      /\ active \subseteq Tickets /\ None \notin Tickets /\ None \notin Devs
      /\ Members(team) \subseteq Devs
  BY FlowAssumption DEF TypeOK, Members
<1>2. CASE pc' # "assign"
  BY <1>2 DEF WInv
<1>3. CASE Control
  BY <1>3 DEF Control, WInv
<1>4. CASE NextSlot
  <2>1. /\ pc = "assign" /\ slot <= NumPhases /\ slot' = slot + 1
        /\ ~Assignable(Turn(slot))
        /\ UNCHANGED <<active, phase, assignedTo, queue, team, current, mentorIndex,
                       large, cicdSlots>>
    BY <1>4 DEF NextSlot, placeVars, ticketVars, devVars, assetVars
  <2>2. ASSUME NEW p PROVE Passed(p)' <=> Passed(p)
    BY <2>1 DEF Passed, AtCap, InFlight, MayTake, Available, Idle
  <2>3. PICK p \in Phases : p = Turn(slot)
    BY <1>1, <2>1, TurnOrder
  <2>4. Passed(p)
    <3>1. SUFFICES ASSUME queue[p] # <<>>, ~AtCap(p),
                          NEW d \in Members(team), MayTake(d, Head(queue[p]), p)
                   PROVE  FALSE
      BY DEF Passed
    <3>2. Head(queue[p]) \in active /\ Head(queue[p]) \in Tickets
      <4>1. queue[p] \in Seq(Tickets) /\ queue[p] # <<>>
        BY <1>1, <3>1
      <4>2. 1 \in DOMAIN queue[p] /\ queue[p][1] = Head(queue[p])
            /\ Head(queue[p]) \in Tickets
        BY <4>1
      <4> QED BY <4>2 DEF QueuesExact, Waiting
    <3>3. PICK t \in Tickets : t = Head(queue[p])
      BY <3>2
    <3> DEFINE turns == 0..(Len(team) - 1)
               fresh == {i \in turns : IsFresh(After(i), t, p)}
               any == {i \in turns : MayTake(After(i), t, p)}
    <3>4. any # {}
      BY <1>1, <3>1, <3>3, EveryoneHasATurn
    <3>5. \A i \in turns : After(i) \in Members(team)
      BY <1>1, AfterType
    <3>6. (fresh # {} => Least(fresh) \in fresh) /\ Least(any) \in any
      <4>1. fresh \in SUBSET Nat /\ any \in SUBSET Nat
        OBVIOUS
      <4> HIDE DEF fresh, any
      <4> QED BY <3>4, <4>1, LeastType
    <3>7. SelectDev(t, p) = IF fresh # {} THEN After(Least(fresh))
                            ELSE IF any # {} THEN After(Least(any)) ELSE None
      BY DEF SelectDev
    <3>8. fresh \subseteq turns /\ any \subseteq turns
      OBVIOUS
    <3>9. SelectDev(t, p) \in Members(team)
      <4> HIDE DEF fresh, any, turns
      <4> QED BY <3>4, <3>5, <3>6, <3>7, <3>8
    <3>10. SelectDev(t, p) # None
      BY <1>1, <3>9
    <3> QED BY <2>1, <2>3, <3>1, <3>2, <3>3, <3>10 DEF Assignable
  <2>5. ASSUME NEW n \in 1..(slot' - 1) PROVE Passed(Turn(n))
    <3>1. n \in 1..(slot - 1) \/ n = slot
      BY <1>1, <2>1
    <3> QED BY <2>1, <2>3, <2>4, <3>1 DEF WInv
  <2>6. Turn(slot)' = Turn(slot') /\ \A n : Turn(n)' = Turn(n)
    BY DEF Turn
  <2> QED BY <2>2, <2>5 DEF WInv
<1>5. CASE AssignHead
  <2>1. PICK p \in Phases, t \in active, d \in Devs : 
          \E m \in Devs \cup {None} : Takes(t, p, d, m)
    BY <1>5, TakenFacts
  <2>2. PICK m \in Devs \cup {None} : Takes(t, p, d, m)
    BY <2>1
  <2>3. /\ pc = "assign" /\ slot <= NumPhases /\ p = Turn(slot)
        /\ UNCHANGED <<active, phase, team, large, cicdSlots, slot, pc>>
        /\ t \in Tickets /\ phase[t] = p /\ d \in Devs
        /\ queue' = [queue EXCEPT ![p] = Tail(@)]
        /\ assignedTo' = [assignedTo EXCEPT ![t] = d]
        /\ current' = [current EXCEPT ![d] = t]
        /\ \/ mentorIndex' = mentorIndex
           \/ m \in Devs /\ mentorIndex' = [mentorIndex EXCEPT ![m] = t]
    BY <1>1, <1>5, <2>2 DEF AssignHead, Takes, Assign, placeVars, assetVars, tickVars
  <2>4. \A e \in Devs : \A u, q : MayTake(e, u, q)' => MayTake(e, u, q)
    BY <1>1, <2>3 DEF MayTake, Available, Idle
  <2>5. ASSUME NEW n \in 1..(slot - 1) PROVE Passed(Turn(n))'
    <3>1. PICK q \in Phases : q = Turn(n) /\ q # p
      <4>1. n \in 1..NumPhases /\ slot \in 1..NumPhases /\ n # slot
        BY <1>1, <2>3
      <4> QED BY <2>3, <4>1, TurnOrder
    <3>2. Passed(q)
      BY <2>3, <3>1 DEF WInv
    <3>3. queue'[q] = queue[q]
      BY <1>1, <2>3, <3>1
    <3>4. InFlight(q)' = InFlight(q)
      BY <1>1, <2>3, <3>1 DEF InFlight
    <3>5. AtCap(q)' <=> AtCap(q)
      BY <2>3, <3>4 DEF AtCap
    <3>6. Passed(q)'
      BY <1>1, <2>3, <2>4, <3>2, <3>3, <3>5 DEF Passed
    <3> QED BY <3>1, <3>6
  <2> QED BY <2>3, <2>5 DEF WInv
<1>6. CASE UNCHANGED vars
  BY <1>6 DEF vars, WInv, Passed, AtCap, InFlight, MayTake, Available, Idle, placeVars,
              ticketVars, devVars, assetVars, tickVars
<1>7. CASE /\ ~Control /\ ~NextSlot /\ ~AssignHead /\ Next /\ pc' = "assign"
  <2>1. (pc' = pc /\ pc # "assign") \/ pc' # "assign"
    BY <1>7 DEF Next, Tick, StartSprint, AssignTicket, Decompose, Invest, BeginTick, Work,
                EndTick, tickVars
  <2> QED BY <1>7, <2>1
<1> QED BY <1>2, <1>3, <1>4, <1>5, <1>6, <1>7

-----------------------------------------------------------------------------
(* The theorems *)

\* The inductive invariant holds throughout every behaviour.
THEOREM FlowInvariance == Spec => []IInv
<1>1. Init => IInv
  BY InitInvariant
<1>2. IInv /\ [Next]_vars => IInv'
  <2> SUFFICES ASSUME IInv, [Next]_vars PROVE IInv'
    OBVIOUS
  <2>1. CASE StartSprint
    BY <2>1, StartSprintKeeps
  <2>2. ASSUME NEW t \in Tickets, NEW d \in Devs, AssignTicket(t, d) PROVE IInv'
    BY <2>2, AssignTicketKeeps
  <2>3. ASSUME NEW t \in Tickets, Decompose(t) PROVE IInv'
    BY <2>3, DecomposeKeeps
  <2>4. ASSUME NEW o \in Options, Invest(o) PROVE IInv'
    BY <2>4, InvestKeeps
  <2>5. CASE Tick
    BY <2>5, BeginTickKeeps, WorkKeeps, ControlKeeps, AssignHeadKeeps, NextSlotKeeps,
       EndTickKeeps DEF Tick
  <2>6. CASE UNCHANGED vars
    BY <2>6, StutterKeeps
  <2> QED BY <2>1, <2>2, <2>3, <2>4, <2>5, <2>6 DEF Next
<1> QED BY <1>1, <1>2, PTL DEF Spec

\* Types: every value stays in its type, the cursor of the round robin and the
\* slot of the pass included.
THEOREM FlowTypeCorrect == Spec => []TypeOK
<1>1. IInv => TypeOK
  BY DEF IInv
<1> QED BY <1>1, FlowInvariance, PTL

\* No ticket is lost or doubled by the moves between the lists, and a parent
\* and its children are never there together.
THEOREM TicketsInOnePlace == Spec => []OnePlace
<1>1. IInv => OnePlace
  <2> SUFFICES ASSUME Apart, Family PROVE OnePlace
    BY DEF IInv
  <2>1. /\ Lists[1] = backlog /\ Lists[2] = committed
        /\ Lists[3] = active /\ Lists[4] = completed
    BY DEF Lists
  <2>2. ASSUME NEW i \in 1..4, NEW j \in 1..4, i # j
        PROVE  Lists[i] \cap Lists[j] = {}
    <3>1. i \in {1, 2, 3, 4} /\ j \in {1, 2, 3, 4}
      OBVIOUS
    <3> QED BY <2>1, <2>2, <3>1 DEF Apart
  <2> QED BY <2>2 DEF OnePlace, Family
<1> QED BY <1>1, FlowInvariance, PTL

\* The queues stay exact: an active ticket that nobody works on is queued once,
\* where it belongs, so TicketQueueRepaired has nothing to repair.
THEOREM QueuesStayExact == Spec => []QueuesExact
<1>1. IInv => QueuesExact
  BY DEF IInv
<1> QED BY <1>1, FlowInvariance, PTL

\* CurrentTicket and AssignedTo never disagree, through assignments, hand-offs,
\* completions and hires.
THEOREM OneWorker == Spec => []OneWorkerEach
<1>1. IInv => OneWorkerEach
  BY DEF IInv
<1> QED BY <1>1, FlowInvariance, PTL

-----------------------------------------------------------------------------
(* The theorems about mentors, caps, reviews and the pass *)

\* The two indexes of mentors stay inverse to each other, and a mentored ticket
\* is being worked on by a junior who is not the mentor.
THEOREM MentorsStayInverse == Spec => []MentorsAgree
<1>1. Init => MInv
  <2>1. SUFFICES ASSUME Init PROVE MInv
    OBVIOUS
  <2>2. \A m \in Devs : mentorIndex[m] = None
    BY <2>1 DEF Init
  <2>3. \A m \in Devs, t \in Tickets, p \in Phases : ticketMentors[t][p] # m
    BY <2>1, FlowAssumption DEF Init
  <2> QED BY <2>2, <2>3, Zenon DEF MInv, MentorsAgree
<1>2. MInv => MentorsAgree
  BY DEF MInv
<1> QED BY <1>1, <1>2, MentorsKept, FlowInvariance, PTL DEF Spec

\* No phase but Research ever has more in flight than its cap.
THEOREM CapsAreKept == Spec => []CapsHold
<1>1. Init => CapsHold
  <2>1. SUFFICES ASSUME Init, NEW p \in Phases \ {1} PROVE ~OverCap(p)
    BY DEF CapsHold
  <2>2. InFlight(p) = {}
    BY <2>1 DEF Init, InFlight
  <2>3. Cardinality(InFlight(p)) = 0
    BY <2>2, FS_EmptySet
  <2> QED BY <2>1, <2>3, FlowAssumption DEF Init, OverCap
<1>2. IInv => TypeOK
  BY DEF IInv
<1>3. IInv /\ CapsHold /\ TypeOK' /\ [Next]_vars => CapsHold'
  BY CapsKept
<1> QED BY <1>1, <1>2, <1>3, FlowInvariance, PTL DEF Spec

\* When the assignment pass is over nobody available may take the head of a
\* queue with room: one pass in a fixed order is enough.
THEOREM NothingLeftUndone == Spec => []WorkConserving
<1>1. Init => WInv
  BY DEF Init, WInv
<1>2. IInv /\ WInv => WorkConserving
  <2> SUFFICES ASSUME IInv, WInv, pc = "assign", slot > NumPhases, NEW p \in Phases
               PROVE  Passed(p)
    BY DEF WorkConserving, Passed
  <2>1. Rank(p) \in 1..(slot - 1) /\ Turn(Rank(p)) = p
    <3>1. slot \in 1..(NumPhases + 1) /\ NumPhases \in Nat
      BY FlowAssumption DEF IInv, TypeOK
    <3>2. PICK n \in 1..NumPhases : n = Rank(p) /\ Turn(n) = p
      BY TurnOrder
    <3> QED BY <3>1, <3>2
  <2> QED BY <2>1 DEF WInv
<1> QED BY <1>1, <1>2, PassKept, FlowInvariance, PTL DEF Spec

\* A ticket is reviewed by somebody who has never been on it, unless everybody
\* who could take it has.
THEOREM ReviewersAreFresh == Spec => ReviewerIsFresh
<1>1. Init => HInv
  BY FlowAssumption DEF Init, HInv
<1>2. IInv /\ HInv /\ [Next]_vars =>
        [\A t \in Tickets, d \in Devs :
           /\ t \in active /\ phase[t] = Review
           /\ assignedTo[t] = None /\ assignedTo'[t] = d /\ d \in hands[t]
           => \A e \in Members(team) : MayTake(e, t, Review) => e \in hands[t]]_vars
  <2> SUFFICES ASSUME IInv, HInv, [Next]_vars, NEW t \in Tickets, NEW d \in Devs,
                      t \in active, phase[t] = Review, assignedTo[t] = None,
                      assignedTo'[t] = d, d \in hands[t],
                      NEW e \in Members(team), MayTake(e, t, Review)
               PROVE  e \in hands[t]
    OBVIOUS
  <2>1. /\ None \notin Devs /\ hands[t] \subseteq Devs
        /\ assignedTo \in [Tickets -> Devs \cup {None}]
    BY FlowAssumption DEF IInv, TypeOK
  <2>2. contributors[t] \subseteq hands[t] /\ d \in contributors[t]
    BY <2>1 DEF HInv
  <2>3. ~Calm
    BY <2>1 DEF Calm
  <2>4. \A u \in Tickets, g \in Devs : ~AssignTicket(u, g)
    BY <2>1 DEF AssignTicket, IInv, Apart
  <2>5. ASSUME NEW g \in Devs, NEW u \in active, Leaves(g, u) PROVE FALSE
    BY <2>1, <2>5 DEF Leaves, Complete, HandOff
  <2>6. AssignHead
    BY <2>3, <2>4, <2>5, StepCases
  <2>7. PICK p \in Phases : \E u \in active : \E g \in Devs :
           \E m \in Devs \cup {None} : Takes(u, p, g, m)
    BY <2>6, TakenFacts
  <2>8. PICK u \in active, g \in Devs, m \in Devs \cup {None} : Takes(u, p, g, m)
    BY <2>7
  <2>9. u = t /\ g = d /\ p = Review /\ g = SelectDev(u, p)
    BY <2>1, <2>8 DEF Takes, Assign
  <2>10. SelectDev(t, Review) \in contributors[t]
    BY <2>2, <2>9
  <2>11. e \in contributors[t]
    BY <2>10, SelectFresh DEF IInv
  <2> QED BY <2>2, <2>11
<1> QED BY <1>1, <1>2, HandsKept, FlowInvariance, PTL DEF Spec, ReviewerIsFresh

\* Once the release controller has taken over only its drip commits tickets.
THEOREM OnlyDripCommits == Spec => DripOnly
<1>1. IInv /\ [Next]_vars =>
        [Released => /\ Cardinality(committed' \ committed) <= Drip
                     /\ pc = "idle" => committed' \subseteq committed]_vars
  <2> SUFFICES ASSUME IInv, [Next]_vars, Released
               PROVE  /\ Cardinality(committed' \ committed) <= Drip
                      /\ pc = "idle" => committed' \subseteq committed
    OBVIOUS
  <2>1. Drip \in Nat /\ Cardinality({}) = 0
    BY FlowAssumption, FS_EmptySet
  <2>2. CASE committed' \subseteq committed
    <3>1. committed' \ committed = {}
      BY <2>2
    <3> QED BY <2>1, <2>2, <3>1
  <2>3. CASE Control
    <3>1. PICK locked \in BOOLEAN, room \in 0..Drip :
            \E A \in SUBSET triaged :
               /\ IF Admits(locked) THEN \/ Cardinality(A) = room
                                         \/ Cardinality(A) < room /\ A = triaged
                  ELSE A = {}
               /\ committed' = committed \cup A
      BY <2>3 DEF Control
    <3>2. PICK A \in SUBSET triaged : /\ \/ Cardinality(A) = room
                                         \/ Cardinality(A) < room
                                         \/ A = {}
                                      /\ committed' = committed \cup A
      BY <3>1
    <3>3. A \subseteq Tickets
      BY DEF IInv, TypeOK
    <3>4. IsFiniteSet(A) /\ Cardinality(A) \in Nat
      BY <3>3, FlowAssumption, FS_Subset, FS_CardinalityType
    <3>5. Cardinality(A) <= Drip
      BY <2>1, <3>2, <3>4
    <3>6. committed' \ committed \subseteq A
      BY <3>2
    <3>7. /\ Cardinality(committed' \ committed) \in Nat
          /\ Cardinality(committed' \ committed) <= Cardinality(A)
      BY <3>4, <3>6, FS_Subset, FS_CardinalityType
    <3>8. Cardinality(committed' \ committed) <= Drip
      BY <2>1, <3>4, <3>5, <3>7
    <3>9. pc # "idle"
      BY <2>3 DEF Control
    <3> QED BY <3>8, <3>9
  <2>4. CASE ~Control
    <3>1. CASE StartSprint
      <4>1. ~Bulk
        BY DEF Released, Bulk
      <4> QED BY <2>2, <3>1, <4>1 DEF StartSprint
    <3>2. CASE \E t \in Tickets, d \in Devs : AssignTicket(t, d)
      BY <2>2, <3>2 DEF AssignTicket
    <3>3. CASE \E t \in Tickets : Decompose(t)
      BY <2>2, <3>3 DEF Decompose
    <3>4. CASE \E o \in Options : Invest(o)
      BY <2>2, <3>4 DEF Invest, placeVars
    <3>5. CASE BeginTick \/ AssignHead \/ NextSlot \/ EndTick \/ UNCHANGED vars
      BY <2>2, <3>5 DEF BeginTick, AssignHead, NextSlot, EndTick, vars, placeVars
    <3>6. CASE Work
      BY <2>2, <3>6 DEF Work, PassOver, Progress, Complete, HandOff, placeVars
    <3> QED BY <2>4, <3>1, <3>2, <3>3, <3>4, <3>5, <3>6 DEF Next, Tick
  <2> QED BY <2>3, <2>4
<1> QED BY <1>1, FlowInvariance, PTL DEF Spec, DripOnly

\* The warm-up ends once, and in one of its two ways only.
THEOREM WarmupIsDecidedOnce == Spec => WarmupDecidedOnce
<1> DEFINE N == ~(warmupFailed /\ ~warmupActive)
<1>1. Init => N
  BY Zenon DEF Init
<1>2. IInv /\ N /\ [Next]_vars =>
        N' /\ [/\ (~warmupActive => ~warmupActive') /\ (warmupFailed => warmupFailed')
               /\ ~(warmupFailed' /\ ~warmupActive')]_vars
  <2> SUFFICES ASSUME IInv, N, [Next]_vars
               PROVE  /\ ~warmupActive => ~warmupActive'
                      /\ warmupFailed => warmupFailed'
                      /\ ~(warmupFailed' /\ ~warmupActive')
    OBVIOUS
  <2>1. CASE Control
    <3>1. PICK locked \in BOOLEAN :
            /\ warmupActive' = (warmupActive /\ ~Locks(locked))
            /\ warmupFailed' = (warmupFailed \/ TimesOut(locked))
      BY <2>1, Zenon DEF Control
    <3>2. warmupActive \in BOOLEAN /\ warmupFailed \in BOOLEAN
      BY DEF IInv, TypeOK
    <3>3. CASE locked = TRUE
      <4>1. TimesOut(locked) = FALSE
        BY <3>3 DEF TimesOut
      <4>2. warmupFailed' = warmupFailed
        BY <3>1, <3>2, <4>1
      <4> QED BY <3>1, <3>2, <4>2 DEF Locks
    <3>4. CASE locked = FALSE
      <4>1. Locks(locked) = FALSE
        BY <3>4 DEF Locks
      <4>2. warmupActive' = warmupActive
        BY <3>1, <3>2, <4>1
      <4> QED BY <3>1, <3>2, <4>2 DEF TimesOut
    <3> QED BY <3>3, <3>4
  <2>2. CASE ~Control
    <3>1. UNCHANGED <<warmupActive, warmupFailed>>
      BY <2>2 DEF Next, Tick, StartSprint, AssignTicket, Decompose, Invest, BeginTick, Work,
                  AssignHead, NextSlot, EndTick, releaseVars, vars
    <3> QED BY <3>1, Zenon
  <2> QED BY <2>1, <2>2
<1> QED BY <1>1, <1>2, FlowInvariance, PTL DEF Spec, WarmupDecidedOnce
=============================================================================
