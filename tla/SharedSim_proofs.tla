-------------------------- MODULE SharedSim_proofs --------------------------
(***************************************************************************)
(* Theorems about SharedSim, for any set of clients, any sprint length and *)
(* any block size, and then about CoTenancy, in which the terminal         *)
(* interface works beside them, also for any size of its channel.          *)
(*                                                                         *)
(* The first part cites nothing of CoTenancy, its assumption included: it  *)
(* holds with and without an interface.                                    *)
(***************************************************************************)
EXTENDS CoTenancy, FiniteSetTheorems, TLAPS

-----------------------------------------------------------------------------
(* Lemmas about the operators of the model *)

\* Every block is a non-empty sequence of event kinds.
LEMMA BlocksType ==
  ASSUME NEW r \in Requests, NEW h, NEW b \in Blocks(r, h)
  PROVE  b \in Seq(EventKinds) /\ b # <<>>
<1>1. \A n \in Nat : Work(n) \in Seq(EventKinds)
  BY DEF Work, EventKinds
<1>2. \A k \in EventKinds : <<k>> \in Seq(EventKinds) /\ Len(<<k>>) = 1
  OBVIOUS
<1>3. \A k \in EventKinds, s \in Seq(EventKinds) :
        <<k>> \o s \in Seq(EventKinds) /\ Len(<<k>> \o s) > 0
  BY <1>2
<1>4. /\ "SimulationCreated" \in EventKinds /\ "SprintStarted" \in EventKinds
      /\ "Ticked" \in EventKinds /\ "SprintEnded" \in EventKinds
      /\ "PolicyChanged" \in EventKinds /\ "TicketAssigned" \in EventKinds
      /\ "TicketDecomposed" \in EventKinds
      /\ "InvestmentApplied" \in EventKinds
  BY DEF EventKinds
<1>5. CASE r \in {"create", "start"}
  <2>1. PICK k \in {"SimulationCreated", "SprintStarted"}, n \in 0..MaxWork :
          b = <<k>> \o Work(n)
    BY <1>5 DEF Blocks, CreateBlocks, StartBlocks
  <2>2. k \in EventKinds /\ Work(n) \in Seq(EventKinds)
    BY <1>1, <1>4, <2>1
  <2>3. b \in Seq(EventKinds) /\ Len(b) > 0
    BY <1>3, <2>1, <2>2
  <2> QED BY <2>3
<1>6. CASE r = "tick"
  <2> DEFINE end == IF SprintEnds(h) THEN <<"SprintEnded">> ELSE <<>>
  <2>1. PICK n \in 0..MaxWork : b = <<"Ticked">> \o Work(n) \o end
    BY <1>6 DEF Blocks, TickBlocks
  <2>2. end \in Seq(EventKinds)
    BY <1>2, <1>4
  <2>3. /\ <<"Ticked">> \o Work(n) \in Seq(EventKinds)
        /\ Len(<<"Ticked">> \o Work(n)) > 0
    BY <1>1, <1>3, <1>4
  <2> HIDE DEF end
  <2> QED BY <2>1, <2>2, <2>3
<1>7. CASE r \in {"policy", "assign", "decompose", "invest"}
  <2>1. PICK k \in EventKinds : b = <<k>>
    BY <1>4, <1>7 DEF Blocks
  <2> QED BY <1>2, <2>1
<1> QED BY <1>5, <1>6, <1>7 DEF Requests

\* What a projection does with an event.
LEMMA ApplyType ==
  ASSUME NEW h \in Seq(Event), NEW e \in Event
  PROVE  Apply(h, e) \in Seq(Event)
  BY DEF Apply

\* A channel, full or not, keeps its type.
LEMMA OfferType ==
  ASSUME NEW buf \in Seq(Event), NEW e \in Event
  PROVE  Offer(buf, e) \in Seq(Event)
  BY DEF Offer

\* An event stamped with the length of a stamped stream is new to it.
LEMMA ApplyNew ==
  ASSUME NEW h \in Seq(Event), NEW e \in Event,
         \A i \in 1..Len(h) : h[i].at = i - 1, e.at = Len(h)
  PROVE  Apply(h, e) = Append(h, e)
<1>1. \A i \in 1..Len(h) : h[i] # e
  OBVIOUS
<1> QED BY <1>1 DEF Apply, HasProcessed

\* Prefixes: reflexive, kept when the longer sequence grows, and equal when
\* the lengths are.
LEMMA ExtendsFacts ==
  ASSUME NEW g \in Seq(Event), NEW h \in Seq(Event), Extends(g, h)
  PROVE  /\ Len(h) <= Len(g)
         /\ Extends(g, g)
         /\ Extends(g, <<>>)
         /\ \A e \in Event : Extends(Append(g, e), h)
         /\ Len(h) = Len(g) => h = g
<1>1. Len(h) <= Len(g) /\ Extends(g, g) /\ Extends(g, <<>>)
  BY DEF Extends
<1>2. \A e \in Event : Extends(Append(g, e), h)
  BY DEF Extends
<1>3. ASSUME Len(h) = Len(g) PROVE h = g
  BY <1>3 DEF Extends
<1> QED BY <1>1, <1>2, <1>3

\* What an accepted append does to the store.
LEMMA AppendStep ==
  ASSUME StoreTypeOK, NEW n \in Nat, NEW e \in Event, StoreAppend(n, e)
  PROVE  /\ StoreTypeOK'
         /\ n = Len(log)
         /\ log' = Append(log, e)
         /\ Len(log') = Len(log) + 1
<1>1. n = Len(log) /\ log' = Append(log, e)
  BY DEF StoreAppend, CanAppend
<1>2. chan' = [s \in Subs |-> Offer(chan[s], e)]
  BY DEF StoreAppend
<1>3. chan' \in [Subs -> Seq(Event)]
  BY <1>2, OfferType DEF StoreTypeOK
<1>4. log' \in Seq(Event) /\ Len(log') = Len(log) + 1
  BY <1>1 DEF StoreTypeOK
<1> QED BY <1>1, <1>3, <1>4 DEF StoreTypeOK

-----------------------------------------------------------------------------
(* Steps that leave the stream alone *)

\* Answering a request drops its copy and keeps the types.
LEMMA AnswerStep ==
  ASSUME TypeOK, PhaseOK, NEW c \in Clients, NEW a \in Responses, Answer(c, a)
  PROVE  /\ pc' \in [Clients -> {"idle", "read", "emit", "set"}]
         /\ req' \in [Clients -> Requests]
         /\ eng' \in [Clients -> Seq(Event)]
         /\ todo' \in [Clients -> Seq(EventKinds)]
         /\ tries' \in [Clients -> Nat]
         /\ resp' \in [Clients -> Responses]
         /\ base' \in [Clients -> Nat]
         /\ PhaseOK'
         /\ eng'[c] = <<>> /\ base'[c] = 0
         /\ \A d \in Clients \ {c} : eng'[d] = eng[d] /\ base'[d] = base[d]
  BY DEF Answer, TypeOK, PhaseOK

\* A step that leaves the stream and the registry alone, and in which the
\* only copy that changes is dropped or read from the registry, keeps the
\* relations between engines and stream.
LEMMA QuietStep ==
  ASSUME Inv, TypeOK', PhaseOK', NEW c \in Clients,
         UNCHANGED <<log, inst>>, ~Holding(c)',
         eng'[c] = <<>> \/ eng'[c] = inst,
         \A d \in Clients \ {c} : eng'[d] = eng[d] /\ base'[d] = base[d]
  PROVE  Inv'
<1>1. Stamped'
  BY DEF Inv, Stamped
<1>2. /\ log \in Seq(Event) /\ inst \in Seq(Event)
      /\ \A d \in Clients : eng[d] \in Seq(Event)
  BY DEF Inv, TypeOK, StoreTypeOK
<1>3. Extends(log, eng'[c])
  BY <1>2, ExtendsFacts DEF Inv, EnginesArePrefixes
<1>4. EnginesArePrefixes'
  BY <1>3 DEF Inv, EnginesArePrefixes
<1>5. HolderAhead'
  <2> SUFFICES ASSUME NEW d \in Clients, Holding(d)'
               PROVE  /\ eng'[d] = log
                      /\ Len(inst) < Len(log)
                      /\ \A x \in Clients \ {d} : Len(eng'[x]) < Len(log)
    BY DEF HolderAhead
  <2>1. d # c /\ Holding(d)
    BY DEF Holding
  <2>2. /\ eng[d] = log /\ Len(inst) < Len(log)
        /\ \A x \in Clients \ {d} : Len(eng[x]) < Len(log)
    BY <2>1 DEF Inv, HolderAhead
  <2>3. Len(eng'[c]) < Len(log)
    BY <1>2, <2>2
  <2> QED BY <2>1, <2>2, <2>3
<1> QED BY <1>1, <1>4, <1>5 DEF Inv

-----------------------------------------------------------------------------
(* The invariant holds initially and every step keeps it *)

\* The initial state satisfies the invariant.
LEMMA InitInv == Init => Inv
<1> SUFFICES ASSUME Init PROVE Inv
  OBVIOUS
<1>1. TypeOK
  <2>1. /\ <<>> \in Seq(Event) /\ <<>> \in Seq(EventKinds) /\ {0} \in SUBSET Nat
        /\ "create" \in Requests /\ "none" \in Responses
    BY DEF Requests, Responses
  <2> QED BY <2>1 DEF Init, TypeOK, StoreInit, StoreTypeOK
<1>2. log = <<>> /\ inst = <<>> /\ \A c \in Clients : eng[c] = <<>> /\ base[c] = 0
  BY DEF Init, StoreInit
<1>3. Stamped /\ PhaseOK /\ EnginesArePrefixes /\ HolderAhead
  BY <1>2 DEF Init, Stamped, PhaseOK, EnginesArePrefixes, HolderAhead, Holding,
              Extends
<1> QED BY <1>1, <1>3 DEF Inv

\* A request that arrives touches nobody's engine.
LEMMA BeginKeeps ==
  ASSUME Inv, NEW c \in Clients, NEW r \in Issued, Begin(c, r)
  PROVE  Inv'
<1>1. TypeOK' /\ PhaseOK'
  BY ClientsAssumption
  DEF Inv, Begin, TypeOK, StoreTypeOK, PhaseOK, Responses, pastVars
<1>2. /\ UNCHANGED <<log, inst, eng, base>> /\ eng[c] = <<>> /\ base[c] = 0
  BY DEF Begin, Inv, PhaseOK
<1>3. ~Holding(c)'
  BY <1>2 DEF Holding
<1> QED BY <1>1, <1>2, <1>3, QuietStep

\* A step that only answers, whatever the answer.
LEMMA AnswerKeeps ==
  ASSUME Inv, NEW c \in Clients, NEW a \in Responses, Answer(c, a),
         UNCHANGED <<log, chan, inst, pastVars>>
  PROVE  Inv'
<1>1. TypeOK' /\ PhaseOK'
  BY AnswerStep DEF Inv, TypeOK, StoreTypeOK, pastVars
<1>2. /\ eng'[c] = <<>> /\ base'[c] = 0
      /\ \A d \in Clients \ {c} : eng'[d] = eng[d] /\ base'[d] = base[d]
  BY AnswerStep DEF Inv
<1>3. ~Holding(c)'
  BY <1>2 DEF Holding
<1> QED BY <1>1, <1>2, <1>3, QuietStep

\* A step that copies engine h, the registry's or an empty one.
LEMMA StartKeeps ==
  ASSUME Inv, NEW c \in Clients, NEW h, h = inst \/ h = <<>>,
         NEW b \in Seq(EventKinds), Start(c, h, b),
         UNCHANGED <<log, chan, inst, pastVars>>
  PROVE  Inv'
<1>0. h \in Seq(Event) /\ Len(h) \in Nat
  <2>1. CASE h = inst
    BY <2>1 DEF Inv, TypeOK
  <2>2. CASE h = <<>>
    BY <2>2
  <2> QED BY <2>1, <2>2
<1>1. TypeOK'
  BY <1>0 DEF Inv, Start, TypeOK, StoreTypeOK, pastVars
<1>2. /\ eng'[c] = h /\ base'[c] = Len(h)
      /\ \A d \in Clients \ {c} : eng'[d] = eng[d] /\ base'[d] = base[d]
  BY DEF Start, Inv, TypeOK
<1>3. PhaseOK'
  BY <1>0, <1>2 DEF Inv, Start, TypeOK, PhaseOK
<1>4. ~Holding(c)'
  BY <1>0, <1>2 DEF Holding
<1> QED BY <1>1, <1>2, <1>3, <1>4, QuietStep

\* A read ends in an answer or in a copy of the registry's engine.
LEMMA ReadKeeps ==
  ASSUME Inv, NEW c \in Clients, Read(c)
  PROVE  Inv'
<1>1. UNCHANGED <<log, chan, inst, pastVars>> /\ req[c] \in Requests
  BY DEF Read, Inv, TypeOK
<1>2. CASE \E a \in Responses : Answer(c, a)
  BY <1>1, <1>2, AnswerKeeps
<1>3. CASE \E b \in Blocks(req[c], inst) : Start(c, inst, b)
  BY <1>1, <1>3, BlocksType, StartKeeps
<1>4. CASE Start(c, inst, <<>>)
  <2>1. <<>> \in Seq(EventKinds)
    OBVIOUS
  <2> QED BY <1>1, <1>4, <2>1, StartKeeps
<1> QED BY <1>2, <1>3, <1>4
        DEF Read, AssignRefused, NothingToDecompose, Responses

\* A creation starts from an empty engine, behind any holder's.
LEMMA ReadCreateKeeps ==
  ASSUME Inv, NEW c \in Clients, ReadCreate(c)
  PROVE  Inv'
<1>1. UNCHANGED <<log, chan, inst, pastVars>>
  BY DEF ReadCreate
<1>2. CASE Answer(c, "exists")
  BY <1>1, <1>2, AnswerKeeps DEF Responses
<1>3. CASE \E b \in Blocks("create", <<>>) : Start(c, <<>>, b)
  <2>1. "create" \in Requests
    BY DEF Requests
  <2>2. PICK b \in Blocks("create", <<>>) : Start(c, <<>>, b)
    BY <1>3
  <2>3. b \in Seq(EventKinds)
    BY <2>1, BlocksType
  <2> QED BY <1>1, <2>2, <2>3, StartKeeps
<1> QED BY <1>2, <1>3 DEF ReadCreate

\* An accepted emit: the request's copy is the stream, so nobody else is
\* holding, and it stays the stream.
LEMMA EmitKeeps ==
  ASSUME Inv, NEW c \in Clients, Emit(c)
  PROVE  Inv'
<1> DEFINE e == NextEvent(c)
<1>1. /\ StoreTypeOK /\ log \in Seq(Event) /\ inst \in Seq(Event)
      /\ eng \in [Clients -> Seq(Event)] /\ todo \in [Clients -> Seq(EventKinds)]
      /\ base \in [Clients -> Nat]
  BY DEF Inv, TypeOK, StoreTypeOK
<1>2. e \in Event /\ e.at = Len(eng[c])
  BY <1>1, ClientsAssumption DEF Inv, PhaseOK, Emit, NextEvent, Event
<1>3. /\ StoreTypeOK' /\ Len(eng[c]) = Len(log)
      /\ log' = Append(log, e) /\ Len(log') = Len(log) + 1
  <2>1. StoreAppend(Len(eng[c]), e) /\ Len(eng[c]) \in Nat
    BY <1>1 DEF Emit, Version
  <2> HIDE DEF e
  <2> QED BY <1>1, <1>2, <2>1, AppendStep
<1>4. eng[c] = log
  BY <1>1, <1>3, ExtendsFacts DEF Inv, EnginesArePrefixes
<1>5. eng' = [eng EXCEPT ![c] = log']
  <2>1. Apply(log, e) = Append(log, e)
    BY <1>1, <1>2, <1>4, ApplyNew DEF Inv, Stamped
  <2> QED BY <1>3, <1>4, <2>1 DEF Emit
<1> HIDE DEF e
<1>6. TypeOK'
  <2>1. eng' \in [Clients -> Seq(Event)]
    BY <1>1, <1>3, <1>5 DEF StoreTypeOK
  <2>2. /\ todo' \in [Clients -> Seq(EventKinds)]
        /\ pc' \in [Clients -> {"idle", "read", "emit", "set"}]
    BY <1>1 DEF Inv, TypeOK, PhaseOK, Emit
  <2>3. UNCHANGED <<inst, req, tries, resp, base, acked, ends, setBack>>
    BY DEF Emit, pastVars
  <2> QED BY <1>3, <2>1, <2>2, <2>3 DEF Inv, TypeOK
<1>7. Stamped'
  BY <1>1, <1>2, <1>3 DEF Inv, Stamped
<1>8. PhaseOK'
  BY <1>1, <1>3, <1>4, <1>5 DEF Inv, TypeOK, PhaseOK, Emit
<1>9. inst' = inst /\ base' = base
  BY DEF Emit
<1>10. EnginesArePrefixes'
  <2>1. Extends(log', inst)
    BY <1>1, <1>2, <1>3, ExtendsFacts DEF Inv, EnginesArePrefixes
  <2>2. ASSUME NEW d \in Clients \ {c} PROVE Extends(log', eng'[d])
    BY <1>1, <1>2, <1>3, <1>5, ExtendsFacts DEF Inv, EnginesArePrefixes
  <2>3. Extends(log', eng'[c])
    BY <1>1, <1>5 DEF Extends
  <2> QED BY <1>9, <2>1, <2>2, <2>3 DEF EnginesArePrefixes
<1>11. HolderAhead'
  <2>1. Len(inst) <= Len(log) /\ \A d \in Clients : Len(eng[d]) <= Len(log)
    BY <1>1, ExtendsFacts DEF Inv, EnginesArePrefixes
  <2>2. \A d \in Clients \ {c} : ~Holding(d)
    BY <1>1, <1>4 DEF Inv, HolderAhead
  <2>3. \A d \in Clients \ {c} : eng'[d] = eng[d]
    BY <1>5
  <2>4. \A d \in Clients : Holding(d)' => d = c
    BY <1>9, <2>2, <2>3 DEF Holding
  <2>5. eng'[c] = log' /\ Len(inst') < Len(log')
    BY <1>1, <1>3, <1>5, <1>9, <2>1
  <2>6. \A d \in Clients \ {c} : Len(eng'[d]) < Len(log')
    BY <1>1, <1>3, <2>1, <2>3
  <2> QED BY <2>4, <2>5, <2>6 DEF HolderAhead
<1> QED BY <1>6, <1>7, <1>8, <1>10, <1>11 DEF Inv

\* A rejected emit drops the copy, to try again or to give up.
LEMMA ConflictKeeps ==
  ASSUME Inv, NEW c \in Clients, EmitConflict(c)
  PROVE  Inv'
<1>1. UNCHANGED <<log, chan, inst, pastVars>>
  BY DEF EmitConflict
<1>2. CASE Again(c)
  <2>1. <<>> \in Seq(Event) /\ <<>> \in Seq(EventKinds)
    OBVIOUS
  <2>2. TypeOK' /\ PhaseOK'
    BY <1>1, <1>2, <2>1 DEF Inv, Again, TypeOK, StoreTypeOK, PhaseOK, pastVars
  <2>3. /\ eng'[c] = <<>> /\ base'[c] = 0
        /\ \A d \in Clients \ {c} : eng'[d] = eng[d] /\ base'[d] = base[d]
    BY <1>2 DEF Again, Inv, TypeOK
  <2>4. ~Holding(c)'
    BY <2>3 DEF Holding
  <2> QED BY <1>1, <2>2, <2>3, <2>4, QuietStep
<1>3. CASE Answer(c, ConflictAnswer(req[c]))
  <2>1. ConflictAnswer(req[c]) \in Responses
    BY DEF ConflictAnswer, Responses
  <2> QED BY <1>1, <1>3, <2>1, AnswerKeeps
<1> QED BY <1>2, <1>3 DEF EmitConflict

\* Writing a copy back: a holder brings the registry up to the stream, and a
\* copy that emitted nothing leaves it strictly behind any holder.
LEMMA WriteBackKeeps ==
  ASSUME Inv, NEW c \in Clients, inst' = eng[c], Answer(c, "ok"),
         UNCHANGED <<log, chan>>, acked' \in Nat,
         ends' \in SUBSET Nat, setBack' \in BOOLEAN
  PROVE  Inv'
<1>1. "ok" \in Responses /\ TypeOK /\ PhaseOK
  BY DEF Responses, Inv
<1>2. /\ eng'[c] = <<>> /\ base'[c] = 0
      /\ \A d \in Clients \ {c} : eng'[d] = eng[d] /\ base'[d] = base[d]
  BY <1>1, AnswerStep
<1>3. PhaseOK' /\ TypeOK'
  BY <1>1, AnswerStep DEF TypeOK, StoreTypeOK
<1>4. Stamped'
  BY DEF Inv, Stamped
<1>5. EnginesArePrefixes'
  BY <1>1, <1>2, ExtendsFacts DEF Inv, TypeOK, StoreTypeOK, EnginesArePrefixes
<1>6. HolderAhead'
  <2> SUFFICES ASSUME NEW d \in Clients, Holding(d)'
               PROVE  /\ eng'[d] = log
                      /\ Len(eng[c]) < Len(log)
                      /\ \A x \in Clients \ {d} : Len(eng'[x]) < Len(log)
    BY DEF HolderAhead
  <2>1. d # c /\ Holding(d)
    BY <1>2 DEF Holding
  <2>2. /\ eng[d] = log /\ Len(inst) < Len(log)
        /\ \A x \in Clients \ {d} : Len(eng[x]) < Len(log)
    BY <2>1 DEF Inv, HolderAhead
  <2>3. Len(eng'[c]) < Len(log)
    BY <1>1, <1>2, <2>2 DEF TypeOK, StoreTypeOK
  <2> QED BY <1>2, <2>1, <2>2, <2>3
<1> QED BY <1>3, <1>4, <1>5, <1>6 DEF Inv

\* What a write-back does to the history keeps its type.
LEMMA PastType ==
  ASSUME TypeOK, NEW h \in Seq(Event), Ended(h) \/ Missed(h)
  PROVE  ends' \in SUBSET Nat /\ setBack' \in BOOLEAN
<1>1. Len(h) \in Nat /\ ends \in SUBSET Nat /\ setBack \in BOOLEAN
  BY DEF TypeOK
<1>2. CASE Ended(h)
  BY <1>1, <1>2 DEF Ended
<1>3. CASE Missed(h)
  BY <1>1, <1>3, Zenon DEF Missed
<1> QED BY <1>2, <1>3

\* SetInstance is a write-back.
LEMMA SetInstanceKeeps ==
  ASSUME Inv, NEW c \in Clients, SetInstance(c)
  PROVE  Inv'
<1>1. TypeOK
  BY DEF Inv
<1>2. acked' \in Nat
  BY <1>1 DEF TypeOK, SetInstance
<1>3. ends' \in SUBSET Nat /\ setBack' \in BOOLEAN
  <2>1. eng[c] \in Seq(Event)
    BY <1>1 DEF TypeOK
  <2> QED BY <1>1, <2>1, PastType DEF SetInstance
<1> QED BY <1>2, <1>3, WriteBackKeeps DEF SetInstance

\* CreateSimulation's insertion is a write-back or an answer.
LEMMA InsertKeeps ==
  ASSUME Inv, NEW c \in Clients, Insert(c)
  PROVE  Inv'
<1>1. UNCHANGED <<log, chan, acked>> /\ acked' \in Nat /\ TypeOK /\ eng[c] \in Seq(Event)
  BY DEF Inv, TypeOK, Insert
<1>2. CASE inst' = eng[c] /\ Ended(eng[c]) /\ Answer(c, "ok")
  BY <1>1, <1>2, PastType, WriteBackKeeps
<1>3. CASE UNCHANGED <<inst, ends, setBack>> /\ Answer(c, "exists")
  BY <1>1, <1>3, AnswerKeeps DEF Responses, pastVars
<1> QED BY <1>2, <1>3 DEF Insert

\* SpendInvestment appends only while nobody is holding.
LEMMA InvestKeeps ==
  ASSUME Inv, NEW c \in Clients, Invest(c)
  PROVE  Inv'
<1> DEFINE e == [kind |-> "InvestmentApplied", by |-> c, at |-> Len(inst)]
<1>1. CASE \E a \in Responses : Answer(c, a) /\ UNCHANGED <<log, chan, inst, pastVars>>
  BY <1>1, AnswerKeeps
<1>2. CASE /\ StoreAppend(Version(inst), e) /\ inst' = Apply(inst, e)
           /\ Ended(inst') /\ UNCHANGED acked /\ Answer(c, "ok")
  <2>1. /\ StoreTypeOK /\ log \in Seq(Event) /\ inst \in Seq(Event)
        /\ eng \in [Clients -> Seq(Event)] /\ base \in [Clients -> Nat]
        /\ TypeOK /\ PhaseOK /\ "ok" \in Responses
    BY DEF Inv, TypeOK, StoreTypeOK, Responses
  <2>2. e \in Event /\ e.at = Len(inst)
    BY <2>1, ClientsAssumption DEF Event, EventKinds
  <2>3. StoreAppend(Len(inst), e) /\ Len(inst) \in Nat
    BY <1>2, <2>1 DEF Version
  <2> HIDE DEF e
  <2>4. /\ StoreTypeOK' /\ Len(inst) = Len(log)
        /\ log' = Append(log, e) /\ Len(log') = Len(log) + 1
    BY <2>1, <2>2, <2>3, AppendStep
  <2>5. inst = log
    BY <2>1, <2>4, ExtendsFacts DEF Inv, EnginesArePrefixes
  <2>6. inst' = log'
    BY <1>2, <2>1, <2>2, <2>4, <2>5, ApplyNew DEF Inv, Stamped
  <2>7. /\ eng'[c] = <<>> /\ base'[c] = 0
        /\ \A d \in Clients \ {c} : eng'[d] = eng[d] /\ base'[d] = base[d]
    BY <1>2, <2>1, AnswerStep
  <2>8. PhaseOK' /\ TypeOK'
    <3>1. acked' = acked
      BY <1>2
    <3>2. inst' \in Seq(Event)
      BY <2>4, <2>6 DEF StoreTypeOK
    <3>3. ends' \in SUBSET Nat /\ setBack' \in BOOLEAN
      BY <1>2, <2>1, <3>2, PastType
    <3> QED BY <1>2, <2>1, <2>4, <3>1, <3>2, <3>3, AnswerStep DEF TypeOK
  <2>9. Stamped'
    <3>1. e.at = Len(log)
      BY <2>2, <2>4
    <3>2. \A i \in 1..Len(log) : log[i].at = i - 1
      BY DEF Inv, Stamped
    <3>3. \A i \in 1..Len(log') : log'[i].at = i - 1
      BY <2>1, <2>2, <2>4, <3>1, <3>2
    <3> QED BY <3>3 DEF Stamped
  <2>10. EnginesArePrefixes'
    <3>1. Extends(log', log') /\ Extends(log', <<>>)
      BY <2>4 DEF StoreTypeOK, Extends
    <3>2. ASSUME NEW d \in Clients \ {c} PROVE Extends(log', eng'[d])
      BY <2>1, <2>2, <2>4, <2>7, ExtendsFacts DEF Inv, EnginesArePrefixes
    <3> QED BY <2>6, <2>7, <3>1, <3>2 DEF EnginesArePrefixes
  <2>11. HolderAhead'
    <3>1. \A d \in Clients : ~Holding(d)
      BY <2>1, <2>4 DEF Inv, HolderAhead
    <3>2. \A d \in Clients : ~Holding(d)'
      BY <2>7, <3>1 DEF Holding
    <3> QED BY <3>2 DEF HolderAhead
  <2> QED BY <2>8, <2>9, <2>10, <2>11 DEF Inv
<1>3. ConflictAnswer("invest") \in Responses
  BY DEF ConflictAnswer, Responses
<1> QED BY <1>1, <1>2, <1>3 DEF Invest, Responses

\* Every step of the system keeps the invariant.
LEMMA StepKeeps == Inv /\ [Next]_vars => Inv'
<1> SUFFICES ASSUME Inv, [Next]_vars PROVE Inv'
  OBVIOUS
<1>1. ASSUME NEW c \in Clients, Step(c) PROVE Inv'
  BY <1>1, ReadKeeps, ReadCreateKeeps, EmitKeeps, ConflictKeeps,
     SetInstanceKeeps, InsertKeeps, InvestKeeps DEF Step
<1>2. ASSUME NEW c \in Clients, NEW r \in Issued, Begin(c, r) PROVE Inv'
  BY <1>2, BeginKeeps
<1>3. CASE UNCHANGED vars
  BY <1>3 DEF vars, Inv, TypeOK, StoreTypeOK, Stamped, PhaseOK,
              EnginesArePrefixes, HolderAhead, Holding
<1> QED BY <1>1, <1>2, <1>3 DEF Next

-----------------------------------------------------------------------------
(* Theorems *)

\* The inductive invariant of the shared simulation.
THEOREM Invariance == Spec => []Inv
  BY InitInv, StepKeeps, PTL DEF Spec

\* Every variable keeps its type.
THEOREM TypeCorrect == Spec => []TypeOK
<1>1. Inv => TypeOK
  BY DEF Inv
<1> QED BY <1>1, Invariance, PTL

\* The registry's engine and every handler's copy stay initial parts of the
\* stream.
THEOREM PrefixesHold == Spec => []EnginesArePrefixes
<1>1. Inv => EnginesArePrefixes
  BY DEF Inv
<1> QED BY <1>1, Invariance, PTL

\* Mutual exclusion without a lock: one request at most is between its first
\* append and its write-back.
THEOREM MutualExclusion == Spec => []OneHolder
<1>1. Inv => OneHolder
  <2> SUFFICES ASSUME Inv, NEW c \in Clients, NEW d \in Clients,
                      Holding(c), Holding(d), c # d
               PROVE  FALSE
    BY DEF OneHolder
  <2>1. eng[c] = log /\ Len(eng[c]) < Len(log) /\ Len(log) \in Nat
    BY DEF Inv, HolderAhead, TypeOK, StoreTypeOK
  <2> QED BY <2>1
<1> QED BY <1>1, Invariance, PTL

\* No operation of several events is cut short by a conflict.
THEOREM NoPartialBlock == Spec => []NeverHalfApplied
<1>1. Inv => NeverHalfApplied
  BY DEF Inv, HolderAhead, NeverHalfApplied
<1> QED BY <1>1, Invariance, PTL

-----------------------------------------------------------------------------
(* The registry *)

\* What is kept besides Inv.
CurrentInv == RegistryCurrent /\ Lockstep

\* The initial state satisfies CurrentInv.
LEMMA InitCurrent == Init => CurrentInv
<1> SUFFICES ASSUME Init PROVE CurrentInv
  OBVIOUS
<1>1. /\ log = <<>> /\ inst = <<>> /\ ends = {0} /\ Len(<<>>) = 0
      /\ \A c \in Clients : pc[c] = "idle" /\ ~Holding(c)
  BY DEF Init, StoreInit, Holding
<1> QED BY <1>1 DEF CurrentInv, RegistryCurrent, Lockstep

\* A request that is not holding may drop or take a copy without effect on the
\* registry.
LEMMA QuietCurrent ==
  ASSUME Inv, CurrentInv, NEW c \in Clients, ~Holding(c), ~Holding(c)',
         UNCHANGED <<log, inst, ends, setBack>>,
         pc'[c] \in {"emit", "set"} => base'[c] \in ends,
         pc'[c] \in {"emit", "set"} /\ req'[c] = "create" => base'[c] = 0,
         pc'[c] = "set" => req'[c] = "decompose" /\ eng'[c] # <<>>,
         \A d \in Clients \ {c} : /\ eng'[d] = eng[d] /\ base'[d] = base[d]
                                  /\ pc'[d] = pc[d] /\ req'[d] = req[d]
  PROVE  CurrentInv'
<1>1. \A d \in Clients : Holding(d)' <=> Holding(d)
  BY DEF Holding
<1>2. RegistryCurrent'
  BY <1>1 DEF CurrentInv, RegistryCurrent
<1>3. Lockstep'
  <2>1. /\ ends' \subseteq 0..Len(log') /\ Len(inst') \in ends'
        /\ (\A d \in Clients : ~Holding(d)') => Len(log') \in ends'
    BY <1>1 DEF CurrentInv, Lockstep
  <2>2. ASSUME NEW d \in Clients
        PROVE  /\ pc'[d] \in {"emit", "set"} => base'[d] \in ends'
               /\ pc'[d] \in {"emit", "set"} /\ req'[d] = "create" => base'[d] = 0
               /\ pc'[d] = "set" /\ ~Holding(d)' => req'[d] = "decompose" /\ eng'[d] # <<>>
               /\ Holding(d)' => /\ \A m \in ends' : m <= base'[d]
                                 /\ ~setBack' => Len(inst') = base'[d]
    <3>1. CASE d = c
      BY <3>1
    <3>2. CASE d # c
      BY <1>1, <3>2 DEF CurrentInv, Lockstep
    <3> QED BY <3>1, <3>2
  <2> QED BY <2>1, <2>2 DEF Lockstep
<1> QED BY <1>2, <1>3 DEF CurrentInv

\* What answering does to a request and leaves of the others.
LEMMA AnswerFrame ==
  ASSUME Inv, NEW c \in Clients, NEW a \in Responses, Answer(c, a)
  PROVE  /\ pc'[c] = "idle" /\ ~Holding(c)'
         /\ \A d \in Clients \ {c} : /\ eng'[d] = eng[d] /\ base'[d] = base[d]
                                     /\ pc'[d] = pc[d] /\ req'[d] = req[d]
<1>1. /\ eng'[c] = <<>> /\ base'[c] = 0
      /\ \A d \in Clients \ {c} : eng'[d] = eng[d] /\ base'[d] = base[d]
  BY AnswerStep DEF Inv
<1>2. pc' = [pc EXCEPT ![c] = "idle"] /\ req' = req
  BY DEF Answer
<1> QED BY <1>1, <1>2 DEF Holding, Inv, TypeOK

\* Answering a request that is not holding keeps CurrentInv.
LEMMA AnswerCurrent ==
  ASSUME Inv, CurrentInv, NEW c \in Clients, ~Holding(c),
         NEW a \in Responses, Answer(c, a), UNCHANGED <<log, inst, ends, setBack>>
  PROVE  CurrentInv'
  BY AnswerFrame, QuietCurrent

\* So does starting an operation on the registry's engine, unless it comes
\* back empty-handed without being a decompose.
LEMMA StartCurrent ==
  ASSUME Inv, CurrentInv, NEW c \in Clients, pc[c] = "read", NEW h, h = inst,
         req[c] = "create" => h = <<>>,
         NEW b, b = <<>> => req[c] = "decompose" /\ inst # <<>>,
         Start(c, h, b), UNCHANGED <<log, inst, ends, setBack>>
  PROVE  CurrentInv'
<1>1. ~Holding(c)
  BY DEF Inv, PhaseOK, Holding
<1>2. Len(h) \in Nat /\ (h = <<>> => Len(h) = 0) /\ Len(h) \in ends
  BY DEF Inv, TypeOK, CurrentInv, Lockstep
<1>3. /\ eng'[c] = h /\ base'[c] = Len(h) /\ req' = req
      /\ pc'[c] = IF b = <<>> THEN "set" ELSE "emit"
      /\ \A d \in Clients \ {c} : /\ eng'[d] = eng[d] /\ base'[d] = base[d]
                                  /\ pc'[d] = pc[d]
  BY DEF Start, Inv, TypeOK
<1>4. ~Holding(c)'
  BY <1>2, <1>3 DEF Holding
<1>5. /\ req'[c] = "create" => base'[c] = 0
      /\ base'[c] \in ends
      /\ pc'[c] = "set" => req'[c] = "decompose" /\ eng'[c] # <<>>
  BY <1>2, <1>3
<1> QED BY <1>1, <1>3, <1>4, <1>5, QuietCurrent

\* A request that meets a conflict is not holding: a holder's copy is the
\* stream, whose version the store accepts.
LEMMA ConflictNotHolding ==
  ASSUME Inv, NEW c \in Clients, EmitConflict(c)
  PROVE  ~Holding(c)
<1>1. ASSUME Holding(c) PROVE FALSE
  <2>1. eng[c] = log
    BY <1>1 DEF Inv, HolderAhead
  <2> QED BY <2>1 DEF EmitConflict, CanAppend, Version
<1> QED BY <1>1

\* A request that is not holding has the engine it read.
LEMMA NotHoldingBase ==
  ASSUME Inv, NEW c \in Clients, ~Holding(c)
  PROVE  base[c] = Len(eng[c]) /\ Len(eng[c]) \in Nat
  BY DEF Inv, TypeOK, PhaseOK, Holding

\* An accepted emit makes its request a holder that read the end of the last
\* operation.
LEMMA EmitCurrent ==
  ASSUME Inv, CurrentInv, NEW c \in Clients, Emit(c)
  PROVE  CurrentInv'
<1>1. /\ log \in Seq(Event) /\ inst \in Seq(Event)
      /\ eng \in [Clients -> Seq(Event)] /\ base \in [Clients -> Nat]
      /\ pc \in [Clients -> {"idle", "read", "emit", "set"}]
      /\ ends \in SUBSET Nat
  BY DEF Inv, TypeOK, StoreTypeOK
<1>2. UNCHANGED <<inst, base, req, ends, setBack>> /\ pc[c] = "emit"
  BY DEF Emit, pastVars
<1>3. \A d \in Clients \ {c} : eng'[d] = eng[d] /\ pc'[d] = pc[d]
  BY <1>1 DEF Emit
<1>4. Len(eng[c]) = Len(log)
  BY DEF Emit, StoreAppend, CanAppend, Version
<1>5. eng[c] = log
  BY <1>1, <1>4, ExtendsFacts DEF Inv, EnginesArePrefixes
<1>6. /\ \A m \in ends : m <= base[c]
      /\ ~setBack => Len(inst) = base[c]
  <2>1. CASE Holding(c)
    BY <2>1 DEF CurrentInv, Lockstep
  <2>2. CASE ~Holding(c)
    <3>1. \A d \in Clients : ~Holding(d)
      <4>1. \A d \in Clients \ {c} : ~Holding(d)
        BY <1>1, <1>5 DEF Inv, HolderAhead
      <4> QED BY <2>2, <4>1
    <3>2. ~setBack => inst = log
      BY <3>1 DEF CurrentInv, RegistryCurrent
    <3>3. base[c] = Len(log) /\ Len(log) \in Nat
      BY <1>1, <1>4, <2>2, NotHoldingBase
    <3>4. \A m \in ends : m <= Len(log)
      BY <3>3 DEF CurrentInv, Lockstep
    <3> QED BY <3>2, <3>3, <3>4
  <2> QED BY <2>1, <2>2
<1>7. log' = Append(log, NextEvent(c)) /\ Len(log') = Len(log) + 1
      /\ eng'[c] = log'
  <2>1. NextEvent(c) \in Event /\ NextEvent(c).at = Len(eng[c])
    BY <1>1, ClientsAssumption
    DEF Inv, TypeOK, PhaseOK, Emit, NextEvent, Event
  <2>2. Apply(log, NextEvent(c)) = Append(log, NextEvent(c))
    BY <1>1, <1>5, <2>1, ApplyNew DEF Inv, Stamped
  <2>3. eng'[c] = Append(log, NextEvent(c))
    BY <1>1, <1>5, <2>2 DEF Emit
  <2>4. log' = Append(log, NextEvent(c))
    BY DEF Emit, StoreAppend
  <2> QED BY <1>1, <2>1, <2>3, <2>4
<1>8. Holding(c)'
  <2>1. base[c] <= Len(log) /\ Len(log) \in Nat /\ base[c] \in Nat
    BY <1>1, <1>5 DEF Inv, PhaseOK
  <2> QED BY <1>2, <1>7, <2>1 DEF Holding
<1>9. RegistryCurrent'
  BY <1>8 DEF RegistryCurrent
<1>10. Lockstep'
  <2>1. \A d \in Clients \ {c} : Holding(d)' <=> Holding(d)
    BY <1>2, <1>3 DEF Holding
  <2>2. ends \subseteq 0..Len(log) /\ Len(inst) \in ends /\ Len(log) \in Nat
    BY <1>1 DEF CurrentInv, Lockstep
  <2>3. ends' \subseteq 0..Len(log') /\ Len(inst') \in ends'
    BY <1>2, <1>7, <2>2
  <2>4. ASSUME NEW d \in Clients
        PROVE  /\ pc'[d] \in {"emit", "set"} => base'[d] \in ends'
               /\ pc'[d] \in {"emit", "set"} /\ req'[d] = "create" => base'[d] = 0
               /\ pc'[d] = "set" /\ ~Holding(d)' => req'[d] = "decompose" /\ eng'[d] # <<>>
               /\ Holding(d)' => /\ \A m \in ends' : m <= base'[d]
                                 /\ ~setBack' => Len(inst') = base'[d]
    <3>1. CASE d = c
      BY <1>2, <1>6, <1>8, <3>1 DEF CurrentInv, Lockstep
    <3>2. CASE d # c
      BY <1>2, <1>3, <2>1, <3>2 DEF CurrentInv, Lockstep
    <3> QED BY <3>1, <3>2
  <2> QED BY <1>8, <2>3, <2>4 DEF Lockstep
<1> QED BY <1>9, <1>10 DEF CurrentInv

\* A holder's write-back ends the only holding there was.
LEMMA HolderWritesBack ==
  ASSUME Inv, CurrentInv, NEW c \in Clients, Holding(c),
         inst' = eng[c], Ended(eng[c]), Answer(c, "ok"), UNCHANGED log
  PROVE  CurrentInv'
<1>1. eng[c] = log /\ log \in Seq(Event) /\ Len(log) \in Nat /\ ends \in SUBSET Nat
  BY DEF Inv, HolderAhead, TypeOK, StoreTypeOK
<1>2. \A d \in Clients \ {c} : ~Holding(d)
  BY DEF Inv, HolderAhead, TypeOK, StoreTypeOK
<1>3. "ok" \in Responses
  BY DEF Responses
<1>4. /\ pc'[c] = "idle" /\ ~Holding(c)'
      /\ \A d \in Clients \ {c} : /\ eng'[d] = eng[d] /\ base'[d] = base[d]
                                  /\ pc'[d] = pc[d] /\ req'[d] = req[d]
  BY <1>3, AnswerFrame
<1>5. \A d \in Clients : ~Holding(d)'
  BY <1>2, <1>4 DEF Holding
<1>6. RegistryCurrent'
  BY <1>1 DEF RegistryCurrent
<1>7. Lockstep'
  <2>1. ends' = ends \cup {Len(log)} /\ inst' = log /\ log' = log
    BY <1>1 DEF Ended
  <2>2. ends' \subseteq 0..Len(log') /\ Len(inst') \in ends' /\ Len(log') \in ends'
    <3>1. ends \subseteq 0..Len(log)
      BY DEF CurrentInv, Lockstep
    <3>2. ends' \subseteq 0..Len(log)
      <4>1. Len(log) \in 0..Len(log)
        BY <1>1
      <4> QED BY <2>1, <3>1, <4>1
    <3>3. Len(log) \in ends'
      BY <2>1
    <3> QED BY <2>1, <3>2, <3>3
  <2>3. ASSUME NEW d \in Clients
        PROVE  /\ pc'[d] \in {"emit", "set"} => base'[d] \in ends'
               /\ pc'[d] \in {"emit", "set"} /\ req'[d] = "create" => base'[d] = 0
               /\ pc'[d] = "set" /\ ~Holding(d)' => req'[d] = "decompose" /\ eng'[d] # <<>>
    <3>1. CASE d = c
      BY <1>4, <3>1
    <3>2. CASE d # c
      BY <1>2, <1>4, <2>1, <3>2 DEF CurrentInv, Lockstep
    <3> QED BY <3>1, <3>2
  <2> QED BY <1>5, <2>2, <2>3 DEF Lockstep
<1> QED BY <1>6, <1>7 DEF CurrentInv

\* The write-back of a decompose that missed.
LEMMA MissWritesBack ==
  ASSUME Inv, CurrentInv, NEW c \in Clients, ~Holding(c), pc[c] = "set",
         inst' = eng[c], Missed(eng[c]), Answer(c, "ok"), UNCHANGED log
  PROVE  CurrentInv'
<1>1. /\ log \in Seq(Event) /\ inst \in Seq(Event) /\ eng[c] \in Seq(Event)
      /\ ends \in SUBSET Nat /\ Extends(log, eng[c])
  BY DEF Inv, TypeOK, StoreTypeOK, EnginesArePrefixes
<1>2. "ok" \in Responses
  BY DEF Responses
<1>3. /\ pc'[c] = "idle" /\ ~Holding(c)'
      /\ \A d \in Clients \ {c} : /\ eng'[d] = eng[d] /\ base'[d] = base[d]
                                  /\ pc'[d] = pc[d] /\ req'[d] = req[d]
  BY <1>2, AnswerFrame
<1>4. \A d \in Clients : Holding(d)' <=> Holding(d)
  BY <1>3 DEF Holding
<1>5. ends' = ends /\ (~setBack' => ~setBack /\ Len(eng[c]) >= Len(inst))
  <2>1. ends' = ends /\ (~setBack' => ~setBack /\ ~(Len(eng[c]) < Len(inst)))
    BY Zenon DEF Missed
  <2> QED BY <1>1, <2>1
<1>6. Len(eng[c]) \in ends
  BY NotHoldingBase DEF CurrentInv, Lockstep
<1>7. RegistryCurrent'
  <2> SUFFICES ASSUME \A d \in Clients : ~Holding(d), ~setBack' PROVE eng[c] = log
    BY <1>4 DEF RegistryCurrent
  <2>1. inst = log
    BY <1>5 DEF CurrentInv, RegistryCurrent
  <2> QED BY <1>1, <1>5, <2>1, ExtendsFacts
<1>8. Lockstep'
  <2>1. /\ ends' \subseteq 0..Len(log') /\ Len(inst') \in ends'
        /\ (\A d \in Clients : ~Holding(d)') => Len(log') \in ends'
    BY <1>4, <1>5, <1>6 DEF CurrentInv, Lockstep
  <2>2. ASSUME NEW d \in Clients
        PROVE  /\ pc'[d] \in {"emit", "set"} => base'[d] \in ends'
               /\ pc'[d] \in {"emit", "set"} /\ req'[d] = "create" => base'[d] = 0
               /\ pc'[d] = "set" /\ ~Holding(d)' => req'[d] = "decompose" /\ eng'[d] # <<>>
               /\ Holding(d)' => \A m \in ends' : m <= base'[d]
    <3>1. CASE d = c
      BY <1>3, <3>1
    <3>2. CASE d # c
      BY <1>3, <1>4, <1>5, <3>2 DEF CurrentInv, Lockstep
    <3> QED BY <3>1, <3>2
  <2>3. ASSUME NEW d \in Clients, Holding(d)', ~setBack'
        PROVE  Len(inst') = base'[d]
    <3>1. d # c /\ Holding(d) /\ base'[d] = base[d] /\ base[d] \in Nat
      BY <1>3, <1>4, <2>3 DEF Inv, TypeOK
    <3>2. Len(eng[c]) <= base[d] /\ Len(inst) = base[d]
      BY <1>5, <1>6, <2>3, <3>1 DEF CurrentInv, Lockstep
    <3>3. Len(eng[c]) >= Len(inst) /\ Len(eng[c]) \in Nat
      BY <1>1, <1>5, <2>3
    <3> QED BY <3>1, <3>2, <3>3
  <2> QED BY <2>1, <2>2, <2>3 DEF Lockstep
<1> QED BY <1>7, <1>8 DEF CurrentInv

\* The branch of Insert that finds the simulation registered is never taken:
\* the creation is holding, and it read an empty registry, so no operation has
\* ended since.
LEMMA InsertFindsNothing ==
  Inv /\ CurrentInv => DoubleCheckIdle
<1> SUFFICES ASSUME Inv, CurrentInv, NEW c \in Clients,
                    pc[c] = "set", req[c] = "create"
             PROVE  inst = <<>>
  BY DEF DoubleCheckIdle
<1>1. base[c] = 0 /\ Holding(c)
  BY DEF CurrentInv, Lockstep
<1>2. Len(inst) <= 0
  BY <1>1 DEF CurrentInv, Lockstep
<1> QED BY <1>2 DEF Inv, TypeOK

\* SpendInvestment appends and writes back in one step, with no holder.
LEMMA InvestCurrent ==
  ASSUME Inv, CurrentInv, NEW c \in Clients, Invest(c)
  PROVE  CurrentInv'
<1> DEFINE e == [kind |-> "InvestmentApplied", by |-> c, at |-> Len(inst)]
<1>1. ~Holding(c)
  BY DEF Invest, Inv, PhaseOK, Holding
<1>2. CASE \E a \in Responses : Answer(c, a) /\ UNCHANGED <<log, inst, pastVars>>
  BY <1>1, <1>2, AnswerCurrent DEF pastVars
<1>3. CASE /\ StoreAppend(Version(inst), e) /\ inst' = Apply(inst, e)
           /\ Ended(inst') /\ Answer(c, "ok")
  <2>1. /\ log \in Seq(Event) /\ inst \in Seq(Event) /\ "ok" \in Responses
        /\ ends \in SUBSET Nat
    BY DEF Inv, TypeOK, StoreTypeOK, Responses
  <2>2. e \in Event /\ e.at = Len(inst)
    BY <2>1, ClientsAssumption DEF Event, EventKinds
  <2>3. Len(inst) = Len(log) /\ log' = Append(log, e)
    BY <1>3 DEF StoreAppend, CanAppend, Version
  <2> HIDE DEF e
  <2>4. inst = log
    BY <2>1, <2>3, ExtendsFacts DEF Inv, EnginesArePrefixes
  <2>5. inst' = log'
    BY <1>3, <2>1, <2>2, <2>3, <2>4, ApplyNew DEF Inv, Stamped
  <2>6. \A d \in Clients : ~Holding(d)
    BY <2>1, <2>3 DEF Inv, HolderAhead
  <2>7. /\ pc'[c] = "idle" /\ ~Holding(c)'
        /\ \A d \in Clients \ {c} : /\ eng'[d] = eng[d] /\ base'[d] = base[d]
                                    /\ pc'[d] = pc[d] /\ req'[d] = req[d]
    BY <1>3, <2>1, AnswerFrame
  <2>8. \A d \in Clients : ~Holding(d)'
    BY <2>6, <2>7 DEF Holding
  <2>9. /\ Len(log') = Len(log) + 1 /\ Len(log) \in Nat
        /\ ends' = ends \cup {Len(log')}
    BY <1>3, <2>1, <2>2, <2>3, <2>5 DEF Ended
  <2>10. ends' \subseteq 0..Len(log') /\ Len(inst') \in ends' /\ Len(log') \in ends'
    <3>1. ends \subseteq 0..Len(log)
      BY DEF CurrentInv, Lockstep
    <3>2. \A m \in ends : m \in 0..Len(log')
      BY <2>9, <3>1
    <3>3. Len(log') \in 0..Len(log')
      BY <2>9
    <3>4. ends' \subseteq 0..Len(log') /\ Len(log') \in ends'
      BY <2>9, <3>2, <3>3
    <3> QED BY <2>5, <3>4
  <2>11. ASSUME NEW d \in Clients
        PROVE  /\ pc'[d] \in {"emit", "set"} => base'[d] \in ends'
               /\ pc'[d] \in {"emit", "set"} /\ req'[d] = "create" => base'[d] = 0
               /\ pc'[d] = "set" /\ ~Holding(d)' => req'[d] = "decompose" /\ eng'[d] # <<>>
    <3>1. CASE d = c
      BY <2>7, <3>1
    <3>2. CASE d # c
      BY <2>6, <2>7, <2>9, <3>2 DEF CurrentInv, Lockstep
    <3> QED BY <3>1, <3>2
  <2>12. Lockstep'
    BY <2>8, <2>10, <2>11 DEF Lockstep
  <2> QED BY <2>5, <2>12 DEF CurrentInv, RegistryCurrent
<1>4. ConflictAnswer("invest") \in Responses
  BY DEF ConflictAnswer, Responses
<1> QED BY <1>2, <1>3, <1>4 DEF Invest, Responses

\* Every step of the system keeps CurrentInv.
LEMMA CurrentKept == Inv /\ CurrentInv /\ [Next]_vars => CurrentInv'
<1> SUFFICES ASSUME Inv, CurrentInv, [Next]_vars PROVE CurrentInv'
  OBVIOUS
<1>1. ASSUME NEW c \in Clients, Read(c) PROVE CurrentInv'
  <2>1. /\ UNCHANGED <<log, inst, ends, setBack>> /\ pc[c] = "read" /\ ~Holding(c)
        /\ req[c] \in Requests /\ req[c] # "create"
    BY <1>1 DEF Read, Inv, TypeOK, PhaseOK, Holding, pastVars
  <2>2. CASE \E a \in Responses : Answer(c, a)
    BY <2>1, <2>2, AnswerCurrent
  <2>3. CASE \E b \in Blocks(req[c], inst) : Start(c, inst, b)
    BY <2>1, <2>3, BlocksType, StartCurrent
  <2>4. CASE NothingToDecompose(c)
    BY <2>1, <2>4, StartCurrent DEF NothingToDecompose
  <2> QED BY <1>1, <2>2, <2>3, <2>4 DEF Read, AssignRefused, Responses
<1>2. ASSUME NEW c \in Clients, ReadCreate(c) PROVE CurrentInv'
  <2>1. /\ UNCHANGED <<log, inst, ends, setBack>> /\ pc[c] = "read" /\ ~Holding(c)
        /\ "create" \in Requests /\ "exists" \in Responses
    BY <1>2 DEF ReadCreate, Inv, PhaseOK, Holding, Requests, Responses, pastVars
  <2>2. CASE Answer(c, "exists")
    BY <2>1, <2>2, AnswerCurrent
  <2>3. CASE inst = <<>> /\ \E b \in Blocks("create", <<>>) : Start(c, <<>>, b)
    BY <2>1, <2>3, BlocksType, StartCurrent
  <2> QED BY <1>2, <2>2, <2>3 DEF ReadCreate
<1>3. ASSUME NEW c \in Clients, EmitConflict(c) PROVE CurrentInv'
  <2>1. UNCHANGED <<log, inst, ends, setBack>> /\ ~Holding(c)
    BY <1>3, ConflictNotHolding DEF EmitConflict, pastVars
  <2>2. CASE Again(c)
    <3>1. /\ eng'[c] = <<>> /\ base'[c] = 0 /\ pc'[c] = "read"
          /\ \A d \in Clients \ {c} : /\ eng'[d] = eng[d] /\ base'[d] = base[d]
                                      /\ pc'[d] = pc[d] /\ req'[d] = req[d]
      BY <2>2 DEF Again, Inv, TypeOK
    <3>2. ~Holding(c)'
      BY <3>1 DEF Holding
    <3> QED BY <2>1, <3>1, <3>2, QuietCurrent
  <2>3. CASE Answer(c, ConflictAnswer(req[c]))
    <3>1. ConflictAnswer(req[c]) \in Responses
      BY DEF ConflictAnswer, Responses
    <3> QED BY <2>1, <2>3, <3>1, AnswerCurrent
  <2> QED BY <1>3, <2>2, <2>3 DEF EmitConflict
<1>4. ASSUME NEW c \in Clients, SetInstance(c) PROVE CurrentInv'
  BY <1>4, HolderWritesBack, MissWritesBack DEF SetInstance
<1>5. ASSUME NEW c \in Clients, Insert(c) PROVE CurrentInv'
  <2>1. inst = <<>>
    BY <1>5, InsertFindsNothing DEF Insert, DoubleCheckIdle
  <2>2. Holding(c)
    BY <1>5 DEF Insert, CurrentInv, Lockstep
  <2> QED BY <1>5, <2>1, <2>2, HolderWritesBack DEF Insert
<1>6. ASSUME NEW c \in Clients, NEW r \in Issued, Begin(c, r) PROVE CurrentInv'
  <2>1. /\ UNCHANGED <<log, inst, eng, base, ends, setBack>> /\ pc'[c] = "read"
        /\ \A d \in Clients \ {c} : pc'[d] = pc[d] /\ req'[d] = req[d]
    BY <1>6 DEF Begin, Inv, TypeOK, pastVars
  <2>2. ~Holding(c) /\ ~Holding(c)'
    BY <1>6, <2>1 DEF Begin, Inv, PhaseOK, Holding
  <2> QED BY <2>1, <2>2, QuietCurrent
<1>7. CASE UNCHANGED vars
  BY <1>7 DEF vars, CurrentInv, RegistryCurrent, Lockstep, Holding
<1>8. ASSUME NEW c \in Clients, Step(c) PROVE CurrentInv'
  BY <1>1, <1>2, <1>3, <1>4, <1>5, <1>8, EmitCurrent, InvestCurrent DEF Step
<1> QED BY <1>6, <1>7, <1>8 DEF Next

\* CurrentInv is an invariant.
LEMMA CurrentInvariance == Spec => []CurrentInv
  BY InitCurrent, CurrentKept, Invariance, PTL DEF Spec

\* The registry is the whole stream whenever no request is between its first
\* append and its write-back, unless a decompose that found nothing has put an
\* older engine back; no other request, in any interleaving, leaves it behind.
THEOREM RegistryIsCurrent == Spec => []RegistryCurrent
<1>1. CurrentInv => RegistryCurrent
  BY DEF CurrentInv
<1> QED BY <1>1, CurrentInvariance, PTL

\* The double check of CreateSimulation is dead code: the store's version
\* check has already decided the race.
THEOREM DoubleCheckIsDead == Spec => []DoubleCheckIdle
  BY InsertFindsNothing, Invariance, CurrentInvariance, PTL

\* What a reader of the registry has seen is taken back by nothing but the
\* write-back of a decompose that emitted nothing.
THEOREM RegistryGoesBackOnlyByMiss == Spec => OnlyMissesSetBack
<1> DEFINE Back == \/ Extends(inst', inst)
                   \/ \E c \in Clients : /\ pc[c] = "set" /\ req[c] = "decompose"
                                         /\ ~Holding(c) /\ inst' = eng[c]
<1>1. Inv /\ CurrentInv /\ [Next]_vars => [Back]_inst
  <2> SUFFICES ASSUME Inv, CurrentInv, Next, inst' # inst PROVE Back
    BY DEF vars
  <2>1. /\ log \in Seq(Event) /\ inst \in Seq(Event) /\ Extends(log, inst)
    BY DEF Inv, TypeOK, StoreTypeOK, EnginesArePrefixes
  <2>2. ASSUME NEW c \in Clients, pc[c] = "set", inst' = eng[c]
        PROVE  Back
    <3>1. CASE Holding(c)
      <4>1. eng[c] = log
        BY <3>1 DEF Inv, HolderAhead
      <4> QED BY <2>1, <2>2, <4>1
    <3>2. CASE ~Holding(c)
      BY <2>2, <3>2 DEF CurrentInv, Lockstep
    <3> QED BY <3>1, <3>2
  <2>3. ASSUME NEW c \in Clients, NEW e, inst' = Apply(inst, e)
        PROVE  Extends(inst', inst)
    BY <2>1, <2>3 DEF Apply, Extends
  <2>4. PICK c \in Clients : SetInstance(c) \/ Insert(c) \/ Invest(c)
    BY DEF Next, Step, Begin, Read, AssignRefused, NothingToDecompose,
           ReadCreate, Start, Answer, Again, Emit, EmitConflict
  <2> QED BY <2>2, <2>3, <2>4 DEF SetInstance, Insert, Invest
<1> QED BY <1>1, Invariance, CurrentInvariance, PTL DEF Spec, OnlyMissesSetBack

-----------------------------------------------------------------------------
(* Ticks are acknowledged exactly once *)

\* Concatenation, element by element.
LEMMA ConcatFacts ==
  ASSUME NEW S, NEW s \in Seq(S), NEW t \in Seq(S)
  PROVE  /\ s \o t \in Seq(S)
         /\ Len(s \o t) = Len(s) + Len(t)
         /\ \A i \in 1..Len(s) : (s \o t)[i] = s[i]
         /\ \A i \in (Len(s) + 1)..(Len(s) + Len(t)) : (s \o t)[i] = t[i - Len(s)]
  OBVIOUS

\* A first event followed by kinds that are not "Ticked" ticks if it does.
LEMMA TickFirst ==
  ASSUME NEW k \in EventKinds, NEW s \in Seq(EventKinds),
         \A i \in 1..Len(s) : s[i] # "Ticked"
  PROVE  \A i \in 1..Len(<<k>> \o s) :
           (<<k>> \o s)[i] = "Ticked" <=> k = "Ticked" /\ i = 1
<1> DEFINE b == <<k>> \o s
<1>1. <<k>> \in Seq(EventKinds) /\ Len(<<k>>) = 1 /\ <<k>>[1] = k
  OBVIOUS
<1>2. /\ Len(b) = 1 + Len(s)
      /\ \A i \in 1..1 : b[i] = <<k>>[i]
      /\ \A i \in 2..(1 + Len(s)) : b[i] = s[i - 1]
  BY <1>1, ConcatFacts
<1> HIDE DEF b
<1>3. \A i \in 2..(1 + Len(s)) : i - 1 \in 1..Len(s)
  OBVIOUS
<1>4. \A i \in 2..(1 + Len(s)) : b[i] # "Ticked"
  BY <1>2, <1>3
<1>5. b[1] = k
  BY <1>1, <1>2
<1>6. \A i \in 1..Len(b) : b[i] = "Ticked" <=> k = "Ticked" /\ i = 1
  BY <1>2, <1>4, <1>5
<1> QED BY <1>6 DEF b

\* A block that ticks does so with its first event; no other block ticks.
LEMMA BlockTicks ==
  ASSUME NEW r \in Requests, NEW h, NEW b \in Blocks(r, h)
  PROVE  \A i \in 1..Len(b) : b[i] = "Ticked" <=> r = "tick" /\ i = 1
<1>1. \A n \in Nat : /\ Work(n) \in Seq(EventKinds) /\ Len(Work(n)) = n
                     /\ \A i \in 1..Len(Work(n)) : Work(n)[i] # "Ticked"
  BY DEF Work, EventKinds
<1>2. /\ "SimulationCreated" \in EventKinds /\ "SprintStarted" \in EventKinds
      /\ "Ticked" \in EventKinds /\ "SprintEnded" \in EventKinds
  BY DEF EventKinds
<1>3. CASE r \in {"create", "start"}
  <2>1. PICK k \in {"SimulationCreated", "SprintStarted"}, n \in 0..MaxWork :
          b = <<k>> \o Work(n)
    BY <1>3 DEF Blocks, CreateBlocks, StartBlocks
  <2>2. k \in EventKinds /\ k # "Ticked" /\ n \in Nat
    BY <1>2, <2>1, BlockAssumption
  <2> QED BY <1>1, <1>3, <2>1, <2>2, TickFirst
<1>4. CASE r = "tick"
  <2> DEFINE end == IF SprintEnds(h) THEN <<"SprintEnded">> ELSE <<>>
             rest(n) == Work(n) \o end
  <2>1. PICK n \in 0..MaxWork : b = (<<"Ticked">> \o Work(n)) \o end
    BY <1>4 DEF Blocks, TickBlocks
  <2>2. n \in Nat
    BY <2>1, BlockAssumption
  <2>3. end \in Seq(EventKinds) /\ \A i \in 1..Len(end) : end[i] # "Ticked"
    <3>1. CASE SprintEnds(h)
      BY <1>2, <3>1
    <3>2. CASE ~SprintEnds(h)
      BY <3>2
    <3> QED BY <3>1, <3>2
  <2> HIDE DEF end
  <2>4. /\ rest(n) \in Seq(EventKinds)
        /\ \A i \in 1..Len(rest(n)) : rest(n)[i] # "Ticked"
    <3>1. /\ rest(n) \in Seq(EventKinds)
          /\ Len(rest(n)) = Len(Work(n)) + Len(end)
          /\ \A i \in 1..Len(Work(n)) : rest(n)[i] = Work(n)[i]
          /\ \A i \in (Len(Work(n)) + 1)..(Len(Work(n)) + Len(end)) :
               rest(n)[i] = end[i - Len(Work(n))]
      BY <1>1, <2>2, <2>3, ConcatFacts
    <3> QED BY <1>1, <2>2, <2>3, <3>1
  <2>5. b = <<"Ticked">> \o rest(n)
    <3>1. <<"Ticked">> \in Seq(EventKinds)
      BY <1>2
    <3> QED BY <1>1, <2>1, <2>2, <2>3, <3>1
  <2> HIDE DEF rest
  <2> QED BY <1>2, <1>4, <2>4, <2>5, TickFirst
<1>5. CASE r \in {"policy", "assign", "decompose", "invest"}
  <2>1. PICK k \in EventKinds : b = <<k>> /\ k # "Ticked"
    BY <1>5 DEF Blocks, EventKinds
  <2>2. Len(b) = 1 /\ b[1] = k
    BY <2>1
  <2> QED BY <1>5, <2>1, <2>2
<1> QED BY <1>3, <1>4, <1>5 DEF Requests

\* A longer stream has one position more of its last event's kind.
LEMMA PositionsOfAppend ==
  ASSUME NEW h \in Seq(Event), NEW e \in Event, NEW k
  PROVE  /\ Cardinality(Positions(h, k)) \in Nat
         /\ Cardinality(Positions(Append(h, e), k)) =
              Cardinality(Positions(h, k)) + (IF e.kind = k THEN 1 ELSE 0)
<1>1. Positions(h, k) \in SUBSET (1..Len(h)) /\ Len(h) \in Nat
  BY DEF Positions
<1>2. IsFiniteSet(Positions(h, k))
  <2>1. IsFiniteSet(1..Len(h))
    BY <1>1, FS_Interval
  <2> QED BY <1>1, <2>1, FS_Subset
<1>3. Cardinality(Positions(h, k)) \in Nat
  BY <1>2, FS_CardinalityType
<1>4. CASE e.kind = k
  <2>1. Positions(Append(h, e), k) = Positions(h, k) \cup {Len(h) + 1}
    BY <1>1, <1>4 DEF Positions
  <2>2. Len(h) + 1 \notin Positions(h, k)
    BY <1>1
  <2> QED BY <1>2, <1>3, <1>4, <2>1, <2>2, FS_AddElement
<1>5. CASE e.kind # k
  <2>1. Positions(Append(h, e), k) = Positions(h, k)
    BY <1>1, <1>5 DEF Positions
  <2> QED BY <1>3, <1>5, <2>1
<1> QED BY <1>4, <1>5

\* The tick requests between their first event and their write-back.
Ticking == {c \in Clients : req[c] = "tick" /\ Holding(c)}

\* There is one of them or none.
LEMMA TickingCount ==
  ASSUME NEW c \in Clients, \A d \in Clients \ {c} : ~Holding(d)
  PROVE  Cardinality(Ticking) = IF req[c] = "tick" /\ Holding(c) THEN 1 ELSE 0
<1>1. CASE req[c] = "tick" /\ Holding(c)
  <2>1. Ticking = {c}
    BY <1>1 DEF Ticking
  <2> QED BY <1>1, <2>1, FS_Singleton
<1>2. CASE ~(req[c] = "tick" /\ Holding(c))
  <2>1. Ticking = {}
    BY <1>2 DEF Ticking
  <2> QED BY <1>2, <2>1, FS_EmptySet
<1> QED BY <1>1, <1>2

\* Where a request's tick is: ahead of it until it holds, behind it since.
TickAhead ==
  \A c \in Clients :
    /\ pc[c] = "emit" => \A i \in 1..Len(todo[c]) :
         todo[c][i] = "Ticked" <=> req[c] = "tick" /\ ~Holding(c) /\ i = 1
    /\ pc[c] = "set" /\ req[c] = "tick" => Holding(c)

\* The inductive strengthening of AckExactlyOnce.
AckInv == TickAhead /\ AckExactlyOnce

\* Both hold of an empty stream.
LEMMA InitAck == Init => AckInv
<1> SUFFICES ASSUME Init PROVE AckInv
  OBVIOUS
<1>1. Positions(log, "Ticked") = {} /\ Ticking = {} /\ acked = 0
  BY DEF Init, StoreInit, Positions, Ticking, Holding
<1>2. AckExactlyOnce
  BY <1>1, FS_EmptySet DEF AckExactlyOnce, Ticking
<1>3. TickAhead
  BY DEF Init, TickAhead
<1> QED BY <1>2, <1>3 DEF AckInv

\* A step that appends nothing and in which nobody begins or ends to hold.
LEMMA AckFrame ==
  ASSUME AckInv, TickAhead', UNCHANGED <<log, acked>>,
         \A d \in Clients : /\ Holding(d)' <=> Holding(d)
                            /\ Holding(d) => req'[d] = req[d]
  PROVE  AckInv'
<1>1. Ticking' = Ticking
  BY DEF Ticking
<1> QED BY <1>1 DEF AckInv, AckExactlyOnce, Ticking

\* A request that is not holding is answered: nothing was ticked.
LEMMA AnswerAck ==
  ASSUME Inv, AckInv, NEW c \in Clients, ~Holding(c),
         NEW a \in Responses, Answer(c, a), UNCHANGED <<log, acked>>
  PROVE  AckInv'
<1>1. /\ pc'[c] = "idle" /\ ~Holding(c)' /\ req' = req
      /\ \A d \in Clients \ {c} : /\ eng'[d] = eng[d] /\ base'[d] = base[d]
                                  /\ pc'[d] = pc[d]
  BY AnswerFrame DEF Answer
<1>2. \A d \in Clients \ {c} : todo'[d] = todo[d]
  BY DEF Answer, Inv, TypeOK
<1>3. \A d \in Clients : Holding(d)' <=> Holding(d)
  BY <1>1 DEF Holding
<1>4. TickAhead'
  BY <1>1, <1>2, <1>3 DEF AckInv, TickAhead
<1> QED BY <1>1, <1>3, <1>4, AckFrame

\* A request that starts has its tick, if it is one, still ahead.
LEMMA StartAck ==
  ASSUME Inv, AckInv, NEW c \in Clients, pc[c] = "read", NEW h, h = inst \/ h = <<>>,
         NEW b, b \in Seq(EventKinds),
         \A i \in 1..Len(b) : b[i] = "Ticked" <=> req[c] = "tick" /\ i = 1,
         b = <<>> => req[c] # "tick",
         Start(c, h, b), UNCHANGED <<log, acked>>
  PROVE  AckInv'
<1>1. Len(h) \in Nat
  <2>1. CASE h = inst
    BY <2>1 DEF Inv, TypeOK
  <2>2. CASE h = <<>>
    BY <2>2
  <2> QED BY <2>1, <2>2
<1>2. /\ eng'[c] = h /\ base'[c] = Len(h) /\ todo'[c] = b /\ req' = req
      /\ pc'[c] = IF b = <<>> THEN "set" ELSE "emit"
      /\ \A d \in Clients \ {c} : /\ eng'[d] = eng[d] /\ base'[d] = base[d]
                                  /\ pc'[d] = pc[d] /\ todo'[d] = todo[d]
  BY DEF Start, Inv, TypeOK
<1>3. ~Holding(c) /\ ~Holding(c)'
  BY <1>1, <1>2 DEF Holding, Inv, PhaseOK
<1>4. \A d \in Clients : Holding(d)' <=> Holding(d)
  BY <1>2, <1>3 DEF Holding
<1>5. TickAhead'
  BY <1>2, <1>3, <1>4 DEF AckInv, TickAhead
<1> QED BY <1>2, <1>4, <1>5, AckFrame

\* An accepted emit ticks exactly when it makes its tick request a holder.
LEMMA EmitAck ==
  ASSUME Inv, AckInv, NEW c \in Clients, Emit(c)
  PROVE  AckInv'
<1>1. /\ log \in Seq(Event) /\ eng \in [Clients -> Seq(Event)]
      /\ todo \in [Clients -> Seq(EventKinds)] /\ base \in [Clients -> Nat]
      /\ pc \in [Clients -> {"idle", "read", "emit", "set"}]
      /\ todo[c] \in Seq(EventKinds) /\ todo[c] # <<>>
  BY DEF Inv, TypeOK, StoreTypeOK, PhaseOK, Emit
<1>2. NextEvent(c) \in Event /\ NextEvent(c).at = Len(eng[c])
      /\ NextEvent(c).kind = todo[c][1]
  BY <1>1, ClientsAssumption DEF NextEvent, Event
<1>3. /\ Len(eng[c]) = Len(log) /\ log' = Append(log, NextEvent(c))
      /\ UNCHANGED <<req, base, acked>> /\ pc[c] = "emit"
  BY DEF Emit, StoreAppend, CanAppend, Version, pastVars
<1>4. eng[c] = log
  BY <1>1, <1>3, ExtendsFacts DEF Inv, EnginesArePrefixes
<1>5. eng'[c] = log'
  <2>1. Apply(log, NextEvent(c)) = Append(log, NextEvent(c))
    BY <1>1, <1>2, <1>4, ApplyNew DEF Inv, Stamped
  <2> QED BY <1>1, <1>3, <1>4, <2>1 DEF Emit
<1>6. /\ todo'[c] = Tail(todo[c])
      /\ pc'[c] = IF Tail(todo[c]) = <<>> THEN "set" ELSE "emit"
      /\ \A d \in Clients \ {c} : /\ eng'[d] = eng[d] /\ todo'[d] = todo[d]
                                  /\ pc'[d] = pc[d]
  BY <1>1 DEF Emit
<1>7. \A d \in Clients \ {c} : ~Holding(d) /\ ~Holding(d)'
  BY <1>1, <1>3, <1>4, <1>6 DEF Inv, HolderAhead, Holding
<1>8. Holding(c)'
  <2>1. Len(log') = Len(log) + 1 /\ base[c] <= Len(log) /\ Len(log) \in Nat
        /\ base[c] \in Nat
    BY <1>1, <1>2, <1>3, <1>4 DEF Inv, PhaseOK
  <2> QED BY <1>3, <1>5, <2>1 DEF Holding
<1>9. \A i \in 1..Len(todo[c]) :
        todo[c][i] = "Ticked" <=> req[c] = "tick" /\ ~Holding(c) /\ i = 1
  BY <1>3 DEF AckInv, TickAhead
<1>10. TickAhead'
  <2>1. ASSUME NEW i \in 1..Len(todo'[c]) PROVE todo'[c][i] # "Ticked"
    <3>1. i + 1 \in 1..Len(todo[c]) /\ todo'[c][i] = todo[c][i + 1] /\ i + 1 # 1
      BY <1>1, <1>6
    <3> QED BY <1>9, <3>1
  <2>2. \A d \in Clients \ {c} :
          /\ pc[d] = "emit" => \A i \in 1..Len(todo[d]) :
               todo[d][i] = "Ticked" <=> req[d] = "tick" /\ ~Holding(d) /\ i = 1
          /\ pc[d] = "set" /\ req[d] = "tick" => Holding(d)
    BY DEF AckInv, TickAhead
  <2>3. \A d \in Clients \ {c} :
          /\ pc'[d] = "emit" => \A i \in 1..Len(todo'[d]) :
               todo'[d][i] = "Ticked" <=> req'[d] = "tick" /\ ~Holding(d)' /\ i = 1
          /\ pc'[d] = "set" /\ req'[d] = "tick" => Holding(d)'
    BY <1>3, <1>6, <1>7, <2>2
  <2> QED BY <1>8, <2>1, <2>3 DEF TickAhead
<1>11. AckExactlyOnce'
  <2>1. /\ Cardinality(Positions(log, "Ticked")) \in Nat
        /\ Cardinality(Positions(log', "Ticked")) =
             Cardinality(Positions(log, "Ticked")) +
               (IF todo[c][1] = "Ticked" THEN 1 ELSE 0)
    BY <1>1, <1>2, <1>3, PositionsOfAppend
  <2>2. todo[c][1] = "Ticked" <=> req[c] = "tick" /\ ~Holding(c)
    BY <1>1, <1>9
  <2>3. Cardinality(Ticking) = IF req[c] = "tick" /\ Holding(c) THEN 1 ELSE 0
    BY <1>7, TickingCount
  <2>4. Cardinality(Ticking)' = IF req[c] = "tick" THEN 1 ELSE 0
    <3>1. CASE req[c] = "tick"
      <4>1. Ticking' = {c}
        BY <1>3, <1>7, <1>8, <3>1 DEF Ticking
      <4> QED BY <3>1, <4>1, FS_Singleton
    <3>2. CASE req[c] # "tick"
      <4>1. Ticking' = {}
        BY <1>3, <1>7, <3>2 DEF Ticking
      <4> QED BY <3>2, <4>1, FS_EmptySet
    <3> QED BY <3>1, <3>2
  <2>5. Cardinality(Positions(log, "Ticked")) = acked + Cardinality(Ticking)
        /\ acked \in Nat
    BY DEF AckInv, AckExactlyOnce, Ticking, Inv, TypeOK
  <2>6. Cardinality(Positions(log', "Ticked")) = acked' + Cardinality(Ticking)'
    BY <1>3, <2>1, <2>2, <2>3, <2>4, <2>5
  <2> QED BY <2>6 DEF AckExactlyOnce, Ticking
<1> QED BY <1>10, <1>11 DEF AckInv

\* Writing back ends the only holding there was, and acknowledges its tick.
LEMMA SetInstanceAck ==
  ASSUME Inv, AckInv, NEW c \in Clients, SetInstance(c)
  PROVE  AckInv'
<1>1. /\ pc[c] = "set" /\ log' = log /\ Answer(c, "ok") /\ "ok" \in Responses
      /\ acked' = acked + (IF req[c] = "tick" THEN 1 ELSE 0) /\ acked \in Nat
  BY DEF SetInstance, Responses, Inv, TypeOK
<1>2. /\ pc'[c] = "idle" /\ ~Holding(c)' /\ req' = req
      /\ \A d \in Clients \ {c} : /\ eng'[d] = eng[d] /\ base'[d] = base[d]
                                  /\ pc'[d] = pc[d]
  BY <1>1, AnswerFrame DEF Answer
<1>3. \A d \in Clients \ {c} : todo'[d] = todo[d] /\ (Holding(d)' <=> Holding(d))
  BY <1>1, <1>2 DEF Answer, Inv, TypeOK, Holding
<1>4. TickAhead'
  BY <1>2, <1>3 DEF AckInv, TickAhead
<1>5. Cardinality(Positions(log, "Ticked")) = acked + Cardinality(Ticking)
  BY DEF AckInv, AckExactlyOnce, Ticking
<1>6. CASE req[c] = "tick"
  <2>1. Holding(c)
    BY <1>1, <1>6 DEF AckInv, TickAhead
  <2>2. \A d \in Clients \ {c} : ~Holding(d)
    BY <2>1 DEF Inv, HolderAhead, TypeOK, StoreTypeOK
  <2>3. Ticking' = {}
    BY <1>2, <1>3, <2>2 DEF Ticking
  <2>4. Cardinality(Ticking) = 1 /\ Cardinality(Ticking') = 0
    BY <1>6, <2>1, <2>2, <2>3, TickingCount, FS_EmptySet
  <2> QED BY <1>1, <1>4, <1>5, <1>6, <2>4 DEF AckInv, AckExactlyOnce, Ticking
<1>7. CASE req[c] # "tick"
  <2>1. Ticking' = Ticking
    BY <1>2, <1>3, <1>7 DEF Ticking
  <2> QED BY <1>1, <1>4, <1>5, <1>7, <2>1 DEF AckInv, AckExactlyOnce, Ticking
<1> QED BY <1>6, <1>7

\* A creation's insertion concerns no tick.
LEMMA InsertAck ==
  ASSUME Inv, AckInv, NEW c \in Clients, Insert(c)
  PROVE  AckInv'
<1>1. PICK a \in Responses : Answer(c, a)
  BY DEF Insert, Responses
<1>2. log' = log /\ acked' = acked /\ req[c] = "create"
  BY DEF Insert
<1>3. /\ pc'[c] = "idle" /\ ~Holding(c)' /\ req' = req
      /\ \A d \in Clients \ {c} : /\ eng'[d] = eng[d] /\ base'[d] = base[d]
                                  /\ pc'[d] = pc[d]
  BY <1>1, AnswerFrame DEF Answer
<1>4. \A d \in Clients \ {c} : todo'[d] = todo[d] /\ (Holding(d)' <=> Holding(d))
  BY <1>1, <1>3 DEF Answer, Inv, TypeOK, Holding
<1>5. TickAhead'
  BY <1>3, <1>4 DEF AckInv, TickAhead
<1>6. Ticking' = Ticking
  BY <1>2, <1>3, <1>4 DEF Ticking
<1> QED BY <1>2, <1>5, <1>6 DEF AckInv, AckExactlyOnce, Ticking

\* Nor does an investment, which appends an event of its own kind.
LEMMA InvestAck ==
  ASSUME Inv, AckInv, NEW c \in Clients, Invest(c)
  PROVE  AckInv'
<1> DEFINE e == [kind |-> "InvestmentApplied", by |-> c, at |-> Len(inst)]
<1>1. PICK a \in Responses : Answer(c, a)
  BY DEF Invest, Responses, ConflictAnswer
<1>2. acked' = acked /\ req[c] = "invest"
  BY DEF Invest, pastVars
<1>3. /\ pc'[c] = "idle" /\ ~Holding(c)' /\ req' = req
      /\ \A d \in Clients \ {c} : /\ eng'[d] = eng[d] /\ base'[d] = base[d]
                                  /\ pc'[d] = pc[d]
  BY <1>1, AnswerFrame DEF Answer
<1>4. \A d \in Clients \ {c} : todo'[d] = todo[d] /\ (Holding(d)' <=> Holding(d))
  BY <1>1, <1>3 DEF Answer, Inv, TypeOK, Holding
<1>5. TickAhead'
  BY <1>3, <1>4 DEF AckInv, TickAhead
<1>6. Ticking' = Ticking
  BY <1>2, <1>3, <1>4 DEF Ticking
<1>7. Cardinality(Positions(log', "Ticked")) = Cardinality(Positions(log, "Ticked"))
  <2>1. CASE log' = log
    BY <2>1
  <2>2. CASE log' = Append(log, e)
    <3>1. log \in Seq(Event) /\ e \in Event /\ e.kind # "Ticked"
      BY ClientsAssumption DEF Inv, TypeOK, StoreTypeOK, Event, EventKinds
    <3> HIDE DEF e
    <3>2. /\ Cardinality(Positions(log, "Ticked")) \in Nat
          /\ Cardinality(Positions(Append(log, e), "Ticked")) =
               Cardinality(Positions(log, "Ticked")) + 0
      BY <3>1, PositionsOfAppend
    <3> QED BY <2>2, <3>2
  <2> QED BY <2>1, <2>2 DEF Invest, StoreAppend
<1> QED BY <1>2, <1>5, <1>6, <1>7 DEF AckInv, AckExactlyOnce, Ticking

\* Every step keeps the count.
LEMMA AckKept == Inv /\ AckInv /\ [Next]_vars => AckInv'
<1> SUFFICES ASSUME Inv, AckInv, [Next]_vars PROVE AckInv'
  OBVIOUS
<1>1. ASSUME NEW c \in Clients, Read(c) PROVE AckInv'
  <2>1. /\ UNCHANGED <<log, acked>> /\ pc[c] = "read" /\ ~Holding(c)
        /\ req[c] \in Requests
    BY <1>1 DEF Read, Inv, TypeOK, PhaseOK, Holding, pastVars
  <2>2. CASE \E a \in Responses : Answer(c, a)
    BY <2>1, <2>2, AnswerAck
  <2>3. ASSUME NEW b \in Blocks(req[c], inst), Start(c, inst, b) PROVE AckInv'
    <3>1. /\ b \in Seq(EventKinds) /\ b # <<>>
          /\ \A i \in 1..Len(b) : b[i] = "Ticked" <=> req[c] = "tick" /\ i = 1
      BY <2>1, BlocksType, BlockTicks
    <3> QED BY <2>1, <2>3, <3>1, StartAck
  <2>4. CASE NothingToDecompose(c)
    <3>1. <<>> \in Seq(EventKinds) /\ Len(<<>>) = 0
          /\ req[c] = "decompose" /\ Start(c, inst, <<>>)
      BY <2>4 DEF NothingToDecompose
    <3>2. \A i \in 1..Len(<<>>) : <<>>[i] = "Ticked" <=> req[c] = "tick" /\ i = 1
      BY <3>1
    <3> QED BY <2>1, <3>1, <3>2, StartAck
  <2> QED BY <1>1, <2>2, <2>3, <2>4 DEF Read, AssignRefused, Responses
<1>2. ASSUME NEW c \in Clients, ReadCreate(c) PROVE AckInv'
  <2>1. /\ UNCHANGED <<log, acked>> /\ pc[c] = "read" /\ ~Holding(c)
        /\ "create" \in Requests /\ "exists" \in Responses /\ req[c] = "create"
    BY <1>2 DEF ReadCreate, Inv, PhaseOK, Holding, Requests, Responses, pastVars
  <2>2. CASE Answer(c, "exists")
    BY <2>1, <2>2, AnswerAck
  <2>3. ASSUME NEW b \in Blocks("create", <<>>), Start(c, <<>>, b) PROVE AckInv'
    <3>1. /\ b \in Seq(EventKinds) /\ b # <<>>
          /\ \A i \in 1..Len(b) : b[i] = "Ticked" <=> req[c] = "tick" /\ i = 1
      BY <2>1, BlocksType, BlockTicks
    <3> QED BY <2>1, <2>3, <3>1, StartAck
  <2> QED BY <1>2, <2>2, <2>3 DEF ReadCreate
<1>3. ASSUME NEW c \in Clients, EmitConflict(c) PROVE AckInv'
  <2>1. UNCHANGED <<log, acked>> /\ ~Holding(c)
    BY <1>3, ConflictNotHolding DEF EmitConflict, pastVars
  <2>2. CASE Again(c)
    <3>1. /\ eng'[c] = <<>> /\ base'[c] = 0 /\ pc'[c] = "read" /\ req' = req
          /\ \A d \in Clients \ {c} : /\ eng'[d] = eng[d] /\ base'[d] = base[d]
                                      /\ pc'[d] = pc[d] /\ todo'[d] = todo[d]
      BY <2>2 DEF Again, Inv, TypeOK
    <3>2. \A d \in Clients : Holding(d)' <=> Holding(d)
      BY <2>1, <3>1 DEF Holding
    <3>3. TickAhead'
      BY <3>1, <3>2 DEF AckInv, TickAhead
    <3> QED BY <2>1, <3>1, <3>2, <3>3, AckFrame
  <2>3. CASE Answer(c, ConflictAnswer(req[c]))
    <3>1. ConflictAnswer(req[c]) \in Responses
      BY DEF ConflictAnswer, Responses
    <3> QED BY <2>1, <2>3, <3>1, AnswerAck
  <2> QED BY <1>3, <2>2, <2>3 DEF EmitConflict
<1>4. ASSUME NEW c \in Clients, NEW r \in Issued, Begin(c, r) PROVE AckInv'
  <2>1. /\ UNCHANGED <<log, eng, base, todo, acked>> /\ pc'[c] = "read"
        /\ \A d \in Clients \ {c} : pc'[d] = pc[d] /\ req'[d] = req[d]
    BY <1>4 DEF Begin, Inv, TypeOK, pastVars
  <2>2. ~Holding(c) /\ \A d \in Clients : Holding(d)' <=> Holding(d)
    BY <1>4, <2>1 DEF Begin, Inv, PhaseOK, Holding
  <2>3. TickAhead'
    BY <2>1, <2>2 DEF AckInv, TickAhead
  <2> QED BY <2>1, <2>2, <2>3, AckFrame
<1>5. CASE UNCHANGED vars
  BY <1>5 DEF vars, AckInv, TickAhead, AckExactlyOnce, Holding
<1>6. ASSUME NEW c \in Clients, Step(c) PROVE AckInv'
  BY <1>1, <1>2, <1>3, <1>6, EmitAck, SetInstanceAck, InsertAck, InvestAck DEF Step
<1> QED BY <1>4, <1>5, <1>6 DEF Next

\* Each tick answered 200 is in the stream exactly once, and no other tick is,
\* for any number of clients and retries.
THEOREM TicksCountOnce == Spec => []AckExactlyOnce
<1>1. AckInv => AckExactlyOnce
  BY DEF AckInv
<1> QED BY <1>1, InitAck, AckKept, Invariance, PTL DEF Spec

-----------------------------------------------------------------------------
(* Refinement: seen from outside, requests are atomic *)

\* The commands of the abstract history are those of the requests.
LEMMA SameCommands ==
  ASSUME NEW r \in Requests, NEW h
  PROVE  /\ Atomic!Requests = Requests
         /\ Atomic!Blocks(r, h) = Blocks(r, h)
         /\ Atomic!Allowed(r, h) <=> Allowed(r, h)
<1>1. Atomic!Requests = Requests
  BY DEF Atomic!Requests, Requests
<1>2. \A k : Atomic!Positions(h, k) = Positions(h, k)
  BY DEF Atomic!Positions, Positions
<1>3. Atomic!SprintActive(h) <=> SprintActive(h)
  BY <1>2 DEF Atomic!SprintActive, SprintActive
<1>4. Atomic!WindowOpen(h) <=> WindowOpen(h)
  BY <1>2, <1>3 DEF Atomic!WindowOpen, WindowOpen
<1>5. Atomic!Allowed(r, h) <=> Allowed(r, h)
  BY <1>3, <1>4, Zenon DEF Atomic!Allowed, Allowed
<1>6. Atomic!SprintEnds(h) <=> SprintEnds(h)
  <2>1. \A S : Atomic!Cardinality(S) = Cardinality(S)
    BY DEF Atomic!Cardinality, Cardinality
  <2> QED BY <1>2, <2>1 DEF Atomic!SprintEnds, SprintEnds
<1>7. \A n : Atomic!Work(n) = Work(n)
  BY DEF Atomic!Work, Work
<1>8. Atomic!CreateBlocks = CreateBlocks /\ Atomic!StartBlocks = StartBlocks
  BY <1>7, Zenon DEF Atomic!CreateBlocks, CreateBlocks, Atomic!StartBlocks, StartBlocks
<1>9. Atomic!TickBlocks(h) = TickBlocks(h)
  <2>1. CASE SprintEnds(h)
    BY <1>6, <1>7, <2>1, Zenon DEF Atomic!TickBlocks, TickBlocks
  <2>2. CASE ~SprintEnds(h)
    BY <1>6, <1>7, <2>2, Zenon DEF Atomic!TickBlocks, TickBlocks
  <2> QED BY <2>1, <2>2
<1>10. Atomic!Blocks(r, h) = Blocks(r, h)
  BY <1>8, <1>9, Zenon DEF Atomic!Blocks, Blocks
<1> QED BY <1>1, <1>5, <1>10

\* How far request c has come with block b from history h.
Progress(c, h, b) ==
  /\ Allowed(req[c], h) /\ Len(h) = base[c] /\ Extends(eng[c], h)
  /\ Len(eng[c]) + Len(todo[c]) = Len(h) + Len(b)
  /\ \A i \in 1..(Len(eng[c]) - Len(h)) :
       eng[c][Len(h) + i] = [kind |-> b[i], by |-> c, at |-> Len(h) + i - 1]
  /\ \A j \in 1..Len(todo[c]) : todo[c][j] = b[Len(eng[c]) - Len(h) + j]

Underway(c) ==
  \E h \in Seq(Event) : \E b \in Blocks(req[c], h) : Progress(c, h, b)

\* What is kept for the refinement: a request's copy and what it has still to
\* emit make up the engine it read and one block that was allowed there.
BlockInv ==
  \A c \in Clients : /\ pc[c] = "emit" \/ Holding(c) => Underway(c)
                     /\ pc[c] = "set" => todo[c] = <<>>

\* Nobody has begun.
LEMMA InitBlock == Init => BlockInv
  BY DEF Init, BlockInv, Holding

\* A step of c leaves every other request where it was.
LEMMA BlockFrame ==
  ASSUME BlockInv, NEW c \in Clients,
         pc'[c] = "emit" \/ Holding(c)' => Underway(c)',
         pc'[c] = "set" => todo'[c] = <<>>,
         \A d \in Clients \ {c} : /\ eng'[d] = eng[d] /\ base'[d] = base[d]
                                  /\ pc'[d] = pc[d] /\ req'[d] = req[d]
                                  /\ todo'[d] = todo[d]
  PROVE  BlockInv'
<1>1. ASSUME NEW d \in Clients \ {c} PROVE Underway(d)' <=> Underway(d)
  <2>1. \A h, b : Progress(d, h, b)' <=> Progress(d, h, b)
    BY DEF Progress
  <2>2. req'[d] = req[d]
    OBVIOUS
  <2> QED BY <2>1, <2>2 DEF Underway
<1>2. ASSUME NEW d \in Clients \ {c} PROVE Holding(d)' <=> Holding(d)
  BY DEF Holding
<1> QED BY <1>1, <1>2 DEF BlockInv

\* An answered request has no block any more.
LEMMA AnswerBlock ==
  ASSUME Inv, BlockInv, NEW c \in Clients, NEW a \in Responses, Answer(c, a)
  PROVE  BlockInv'
<1>1. /\ pc'[c] = "idle" /\ ~Holding(c)'
      /\ \A d \in Clients \ {c} : /\ eng'[d] = eng[d] /\ base'[d] = base[d]
                                  /\ pc'[d] = pc[d] /\ req'[d] = req[d]
  BY AnswerFrame
<1>2. \A d \in Clients \ {c} : todo'[d] = todo[d]
  BY DEF Answer, Inv, TypeOK
<1> QED BY <1>1, <1>2, BlockFrame

\* A request that starts has all of its block ahead.
LEMMA StartBlock ==
  ASSUME Inv, BlockInv, NEW c \in Clients, NEW h \in Seq(Event),
         NEW b \in Blocks(req[c], h), b # <<>>, Allowed(req[c], h), Start(c, h, b)
  PROVE  BlockInv'
<1>1. /\ eng'[c] = h /\ base'[c] = Len(h) /\ todo'[c] = b /\ req' = req
      /\ pc'[c] = "emit"
      /\ \A d \in Clients \ {c} : /\ eng'[d] = eng[d] /\ base'[d] = base[d]
                                  /\ pc'[d] = pc[d] /\ todo'[d] = todo[d]
  BY DEF Start, Inv, TypeOK
<1>2. b \in Seq(EventKinds)
  BY BlocksType DEF Inv, TypeOK
<1>3. Progress(c, h, b)'
  BY <1>1, <1>2 DEF Progress, Extends
<1> QED BY <1>1, <1>3, BlockFrame DEF Underway

\* An accepted emit moves one event from what is ahead to the copy.
LEMMA EmitBlock ==
  ASSUME Inv, BlockInv, NEW c \in Clients, Emit(c)
  PROVE  BlockInv'
<1>1. /\ log \in Seq(Event) /\ eng \in [Clients -> Seq(Event)]
      /\ todo \in [Clients -> Seq(EventKinds)] /\ base \in [Clients -> Nat]
      /\ pc \in [Clients -> {"idle", "read", "emit", "set"}]
      /\ eng[c] \in Seq(Event) /\ todo[c] \in Seq(EventKinds) /\ todo[c] # <<>>
      /\ req[c] \in Requests
  BY DEF Inv, TypeOK, StoreTypeOK, PhaseOK, Emit
<1> DEFINE e == [kind |-> todo[c][1], by |-> c, at |-> Len(eng[c])]
<1>2. e = NextEvent(c) /\ e \in Event /\ e.at = Len(eng[c])
  BY <1>1, ClientsAssumption DEF NextEvent, Event
<1>3. UNCHANGED <<req, base>> /\ pc[c] = "emit"
  BY DEF Emit
<1>4. eng'[c] = Append(eng[c], e)
  <2>1. Len(eng[c]) = Len(log)
    BY DEF Emit, StoreAppend, CanAppend, Version
  <2>2. eng[c] = log
    BY <1>1, <2>1, ExtendsFacts DEF Inv, EnginesArePrefixes
  <2> HIDE DEF e
  <2>3. Apply(eng[c], e) = Append(eng[c], e)
    BY <1>1, <1>2, <2>2, ApplyNew DEF Inv, Stamped
  <2> QED BY <1>1, <1>2, <2>3 DEF Emit
<1>5. /\ todo'[c] = Tail(todo[c])
      /\ pc'[c] = IF Tail(todo[c]) = <<>> THEN "set" ELSE "emit"
      /\ \A d \in Clients \ {c} : /\ eng'[d] = eng[d] /\ todo'[d] = todo[d]
                                  /\ pc'[d] = pc[d]
  BY <1>1 DEF Emit
<1>6. PICK h \in Seq(Event) : \E b \in Blocks(req[c], h) : Progress(c, h, b)
  BY <1>3 DEF BlockInv, Underway
<1>6a. PICK b \in Blocks(req[c], h) : Progress(c, h, b)
  BY <1>6
<1>7. b \in Seq(EventKinds)
  BY <1>1, BlocksType
<1>c. e = [kind |-> todo[c][1], by |-> c, at |-> Len(eng[c])]
  OBVIOUS
<1> HIDE DEF e
<1>8. /\ Len(eng'[c]) = Len(eng[c]) + 1 /\ eng'[c][Len(eng[c]) + 1] = e
      /\ \A i \in 1..Len(eng[c]) : eng'[c][i] = eng[c][i]
  BY <1>1, <1>2, <1>4
<1>9. /\ Len(todo'[c]) = Len(todo[c]) - 1 /\ Len(todo[c]) > 0
      /\ \A j \in 1..Len(todo'[c]) : todo'[c][j] = todo[c][j + 1]
  BY <1>1, <1>5
<1>10. Progress(c, h, b)'
  <2>1. /\ Len(h) = base[c] /\ Len(h) <= Len(eng[c])
        /\ Len(eng[c]) + Len(todo[c]) = Len(h) + Len(b)
        /\ \A i \in 1..Len(h) : eng[c][i] = h[i]
        /\ \A i \in 1..(Len(eng[c]) - Len(h)) :
             eng[c][Len(h) + i] = [kind |-> b[i], by |-> c, at |-> Len(h) + i - 1]
        /\ \A j \in 1..Len(todo[c]) : todo[c][j] = b[Len(eng[c]) - Len(h) + j]
    BY <1>6a DEF Progress, Extends
  <2>2. Extends(eng'[c], h)
    BY <1>1, <1>2, <1>4, <1>6a, ExtendsFacts DEF Progress
  <2>3. Len(eng'[c]) + Len(todo'[c]) = Len(h) + Len(b)
    BY <1>1, <1>7, <1>8, <1>9, <2>1
  <2>4. ASSUME NEW i \in 1..(Len(eng'[c]) - Len(h))
        PROVE  eng'[c][Len(h) + i] = [kind |-> b[i], by |-> c, at |-> Len(h) + i - 1]
    <3>1. CASE i = Len(eng[c]) - Len(h) + 1
      <4>1. todo[c][1] = b[i] /\ Len(h) + i = Len(eng[c]) + 1
            /\ Len(h) + i - 1 = Len(eng[c])
        <5>1. 1 \in 1..Len(todo[c]) /\ Len(h) \in Nat /\ Len(eng[c]) \in Nat
          BY <1>1, <1>9
        <5>2. todo[c][1] = b[Len(eng[c]) - Len(h) + 1]
          BY <2>1, <5>1
        <5> QED BY <3>1, <5>1, <5>2
      <4>2. e = [kind |-> b[i], by |-> c, at |-> Len(h) + i - 1]
        BY <1>c, <4>1
      <4> QED BY <1>8, <4>1, <4>2
    <3>2. CASE i # Len(eng[c]) - Len(h) + 1
      <4>1. i \in 1..(Len(eng[c]) - Len(h)) /\ Len(h) + i \in 1..Len(eng[c])
        BY <1>1, <1>8, <2>1, <3>2
      <4>2. eng'[c][Len(h) + i] = eng[c][Len(h) + i]
        BY <1>8, <4>1
      <4> QED BY <2>1, <4>1, <4>2
    <3> QED BY <3>1, <3>2
  <2>5. ASSUME NEW j \in 1..Len(todo'[c])
        PROVE  todo'[c][j] = b[Len(eng'[c]) - Len(h) + j]
    <3>1. /\ Len(todo[c]) \in Nat /\ Len(todo'[c]) = Len(todo[c]) - 1
          /\ Len(eng[c]) \in Nat /\ Len(eng'[c]) = Len(eng[c]) + 1 /\ Len(h) \in Nat
      BY <1>1, <1>8, <1>9
    <3>2. j + 1 \in 1..Len(todo[c])
      BY <3>1
    <3>3. Len(eng'[c]) - Len(h) + j = Len(eng[c]) - Len(h) + (j + 1)
      <4>1. PICK n \in Nat : n = Len(eng[c])
        BY <3>1
      <4>2. Len(eng'[c]) = n + 1 /\ j \in Int /\ Len(h) \in Nat
        BY <3>1, <4>1
      <4>3. (n + 1) - Len(h) + j = n - Len(h) + (j + 1)
        BY <4>2
      <4> QED BY <4>1, <4>2, <4>3, Zenon
    <3>4. todo'[c][j] = todo[c][j + 1]
      BY <1>9
    <3> QED BY <2>1, <3>2, <3>3, <3>4
  <2>6. Allowed(req[c], h)
    BY <1>6a DEF Progress
  <2> QED BY <1>3, <2>1, <2>2, <2>3, <2>4, <2>5, <2>6 DEF Progress
<1>11. Underway(c)'
  BY <1>3, <1>10 DEF Underway
<1> QED BY <1>3, <1>5, <1>11, BlockFrame

\* A decompose that misses has no block.
LEMMA MissBlock ==
  ASSUME Inv, BlockInv, NEW c \in Clients, NothingToDecompose(c)
  PROVE  BlockInv'
<1>1. Len(inst) \in Nat
  BY DEF Inv, TypeOK
<1>2. /\ eng'[c] = inst /\ base'[c] = Len(inst) /\ todo'[c] = <<>> /\ req' = req
      /\ pc'[c] = "set"
      /\ \A d \in Clients \ {c} : /\ eng'[d] = eng[d] /\ base'[d] = base[d]
                                  /\ pc'[d] = pc[d] /\ todo'[d] = todo[d]
  BY DEF NothingToDecompose, Start, Inv, TypeOK
<1>3. ~Holding(c)'
  BY <1>1, <1>2 DEF Holding
<1> QED BY <1>2, <1>3, BlockFrame

\* Every step keeps a request's block whole.
LEMMA BlockKept == Inv /\ BlockInv /\ [Next]_vars => BlockInv'
<1> SUFFICES ASSUME Inv, BlockInv, [Next]_vars PROVE BlockInv'
  OBVIOUS
<1>1. ASSUME NEW c \in Clients, Read(c) PROVE BlockInv'
  <2>1. req[c] \in Requests /\ inst \in Seq(Event)
    BY DEF Inv, TypeOK
  <2>2. CASE \E a \in Responses : Answer(c, a)
    BY <2>2, AnswerBlock
  <2>3. ASSUME Allowed(req[c], inst), NEW b \in Blocks(req[c], inst), Start(c, inst, b)
        PROVE  BlockInv'
    BY <2>1, <2>3, BlocksType, StartBlock
  <2> QED BY <1>1, <2>2, <2>3, MissBlock DEF Read, AssignRefused, Responses
<1>2. ASSUME NEW c \in Clients, ReadCreate(c) PROVE BlockInv'
  <2>1. "create" \in Requests /\ "exists" \in Responses /\ req[c] = "create"
        /\ <<>> \in Seq(Event)
    BY <1>2 DEF ReadCreate, Requests, Responses
  <2>2. CASE Answer(c, "exists")
    BY <2>1, <2>2, AnswerBlock
  <2>3. ASSUME NEW b \in Blocks("create", <<>>), Start(c, <<>>, b) PROVE BlockInv'
    <3>1. Allowed(req[c], <<>>)
      BY <2>1 DEF Allowed
    <3> QED BY <2>1, <2>3, <3>1, BlocksType, StartBlock
  <2> QED BY <1>2, <2>2, <2>3 DEF ReadCreate
<1>3. ASSUME NEW c \in Clients, EmitConflict(c) PROVE BlockInv'
  <2>1. CASE Again(c)
    <3>1. /\ pc'[c] = "read" /\ req' = req /\ eng'[c] = <<>> /\ base'[c] = 0
          /\ \A d \in Clients \ {c} : /\ eng'[d] = eng[d] /\ base'[d] = base[d]
                                      /\ pc'[d] = pc[d] /\ todo'[d] = todo[d]
      BY <2>1 DEF Again, Inv, TypeOK
    <3>2. ~Holding(c)'
      BY <3>1 DEF Holding
    <3> QED BY <3>1, <3>2, BlockFrame
  <2>2. ConflictAnswer(req[c]) \in Responses
    BY DEF ConflictAnswer, Responses
  <2> QED BY <1>3, <2>1, <2>2, AnswerBlock DEF EmitConflict
<1>4. ASSUME NEW c \in Clients, SetInstance(c) \/ Insert(c) \/ Invest(c)
      PROVE  BlockInv'
  <2>1. \E a \in Responses : Answer(c, a)
    BY <1>4 DEF SetInstance, Insert, Invest, Responses, ConflictAnswer
  <2> QED BY <2>1, AnswerBlock
<1>5. ASSUME NEW c \in Clients, NEW r \in Issued, Begin(c, r) PROVE BlockInv'
  <2>1. /\ UNCHANGED <<eng, base, todo>> /\ pc'[c] = "read"
        /\ \A d \in Clients \ {c} : pc'[d] = pc[d] /\ req'[d] = req[d]
    BY <1>5 DEF Begin, Inv, TypeOK
  <2>2. ~Holding(c)'
    BY <1>5, <2>1 DEF Begin, Inv, PhaseOK, Holding
  <2> QED BY <2>1, <2>2, BlockFrame
<1>6. CASE UNCHANGED vars
  <2>1. \A d, h, b : Progress(d, h, b)' <=> Progress(d, h, b)
    BY <1>6 DEF vars, Progress
  <2> QED BY <1>6, <2>1 DEF vars, BlockInv, Underway, Holding
<1>7. ASSUME NEW c \in Clients, Step(c) PROVE BlockInv'
  BY <1>1, <1>2, <1>3, <1>4, <1>7, EmitBlock DEF Step
<1> QED BY <1>5, <1>6, <1>7 DEF Next

\* The stream of whole operations, and what the refinement maps to a variable.
hist == SubSeq(log, 1, Settled)
seen == <<hist, inst, ends, req, resp>>

\* The highest of a set of numbers is the one that is not exceeded.
LEMMA SettledIs ==
  ASSUME NEW n \in ends, ends \in SUBSET Nat, \A m \in ends : m <= n
  PROVE  Settled = n
<1>1. \E k \in ends : \A m \in ends : m <= k
  OBVIOUS
<1>2. Settled \in ends /\ \A m \in ends : m <= Settled
  BY <1>1, Zenon DEF Settled
<1>3. Settled <= n /\ n <= Settled /\ Settled \in Nat /\ n \in Nat
  BY <1>2
<1> QED BY <1>3

\* The operations written back reach up to where a holder began, or to the end
\* of the stream when nobody is holding.
LEMMA WhereSettled ==
  ASSUME Inv, CurrentInv
  PROVE  /\ Settled \in 0..Len(log)
         /\ \A c \in Clients : Holding(c) => Settled = base[c]
         /\ (\A c \in Clients : ~Holding(c)) => Settled = Len(log)
<1>1. /\ log \in Seq(Event) /\ ends \in SUBSET Nat /\ ends \subseteq 0..Len(log)
  BY DEF Inv, TypeOK, StoreTypeOK, CurrentInv, Lockstep
<1>2. ASSUME NEW c \in Clients, Holding(c) PROVE Settled = base[c] /\ base[c] \in ends
  <2>1. pc[c] \in {"emit", "set"}
    BY <1>2 DEF Inv, TypeOK, PhaseOK, Holding
  <2>2. base[c] \in ends /\ \A m \in ends : m <= base[c]
    BY <1>2, <2>1 DEF CurrentInv, Lockstep
  <2> QED BY <1>1, <2>2, SettledIs
<1>3. ASSUME \A c \in Clients : ~Holding(c)
      PROVE  Settled = Len(log) /\ Len(log) \in ends
  <2>1. Len(log) \in ends /\ \A m \in ends : m <= Len(log)
    BY <1>1, <1>3 DEF CurrentInv, Lockstep
  <2> QED BY <1>1, <2>1, SettledIs
<1> QED BY <1>1, <1>2, <1>3

\* A request's copy is complete: writing it back serves the request.
LEMMA WriteBackServes ==
  ASSUME Inv, CurrentInv, BlockInv, CurrentInv', Inv', NEW c \in Clients,
         pc[c] = "set", Holding(c),
         log' = log, inst' = eng[c], Ended(eng[c]), Answer(c, "ok")
  PROVE  Atomic!Serve(c)
<1>1. /\ eng[c] \in Seq(Event) /\ req[c] \in Requests /\ log \in Seq(Event)
      /\ todo[c] = <<>> /\ eng[c] = log
  BY DEF Inv, TypeOK, StoreTypeOK, BlockInv, HolderAhead
<1>2. PICK h \in Seq(Event) : \E b \in Blocks(req[c], h) : Progress(c, h, b)
  BY DEF BlockInv, Underway
<1>3. PICK b \in Blocks(req[c], h) : Progress(c, h, b)
  BY <1>2
<1>4. Settled = Len(h) /\ Len(h) <= Len(log)
  BY <1>1, <1>3, WhereSettled DEF Progress, Extends
<1>5. hist = h
  <2>1. \A i \in 1..Len(h) : log[i] = h[i]
    BY <1>1, <1>3 DEF Progress, Extends
  <2>2. /\ SubSeq(log, 1, Len(h)) \in Seq(Event) /\ Len(SubSeq(log, 1, Len(h))) = Len(h)
        /\ \A i \in 1..Len(h) : SubSeq(log, 1, Len(h))[i] = log[i]
    BY <1>1, <1>2, <1>4
  <2>3. SubSeq(log, 1, Len(h)) = h
    BY <2>1, <2>2
  <2> QED BY <1>4, <2>3 DEF hist
<1>6. b \in Seq(EventKinds)
  BY <1>1, BlocksType
<1>7. /\ Allowed(req[c], h)
      /\ Len(log) = Len(h) + Len(b)
      /\ \A i \in 1..Len(h) : log[i] = h[i]
      /\ \A i \in 1..Len(b) :
           log[Len(h) + i] = [kind |-> b[i], by |-> c, at |-> Len(h) + i - 1]
  <2>1. Len(log) = Len(h) + Len(b)
    BY <1>1, <1>3, <1>6 DEF Progress
  <2>2. Len(log) - Len(h) = Len(b)
    BY <1>1, <1>6, <2>1
  <2> QED BY <1>1, <1>3, <2>1, <2>2 DEF Progress, Extends
<1> DEFINE new == [i \in 1..Len(b) |-> [kind |-> b[i], by |-> c, at |-> Len(h) + i - 1]]
<1>8. \A i \in 1..Len(b) : new[i] \in Event
  BY <1>2, <1>6, ClientsAssumption DEF Event
<1>9. /\ new \in Seq(Event) /\ Len(new) = Len(b)
      /\ \A i \in 1..Len(b) : new[i] = log[Len(h) + i]
  BY <1>6, <1>7, <1>8
<1>10. new = Atomic!Stamp(c, h, b)
  BY DEF Atomic!Stamp
<1> HIDE DEF new
<1>11. log = h \o new
  <2> DEFINE g == h \o new
  <2>1. /\ g \in Seq(Event) /\ Len(g) = Len(h) + Len(new)
        /\ \A i \in 1..Len(h) : g[i] = h[i]
        /\ \A i \in (Len(h) + 1)..(Len(h) + Len(new)) : g[i] = new[i - Len(h)]
    <3>1. h \in Seq(Event) /\ new \in Seq(Event)
      BY <1>2, <1>9
    <3> QED BY <3>1, ConcatFacts
  <2> HIDE DEF g
  <2>2. ASSUME NEW i \in 1..Len(log) PROVE log[i] = g[i]
    <3>1. CASE i <= Len(h)
      BY <1>1, <1>2, <1>7, <2>1, <3>1
    <3>2. CASE i > Len(h)
      <4>1. i - Len(h) \in 1..Len(b) /\ Len(h) + (i - Len(h)) = i
        BY <1>1, <1>2, <1>6, <1>7, <3>2
      <4>2. new[i - Len(h)] = log[i]
        BY <1>9, <4>1
      <4>3. i \in (Len(h) + 1)..(Len(h) + Len(new))
        BY <1>1, <1>2, <1>6, <1>7, <1>9, <3>2
      <4> QED BY <2>1, <4>2, <4>3
    <3> QED BY <1>1, <3>1, <3>2
  <2>3. log = g
    BY <1>1, <1>7, <1>9, <2>1, <2>2
  <2> QED BY <2>3 DEF g
<1>12. hist' = log
  <2>1. \A d \in Clients \ {c} : ~Holding(d)
    BY DEF Inv, HolderAhead, TypeOK, StoreTypeOK
  <2>2. \A d \in Clients : ~Holding(d)'
    <3>1. ~Holding(c)' /\ \A d \in Clients \ {c} : eng'[d] = eng[d] /\ base'[d] = base[d]
      BY AnswerFrame DEF Responses
    <3> QED BY <2>1, <3>1 DEF Holding
  <2>3. Settled' = Len(log)
    <3>1. (\A d \in Clients : ~Holding(d)') => Len(log') \in ends'
      BY DEF CurrentInv, Lockstep
    <3>2. ends' \subseteq 0..Len(log') /\ Len(log') \in Nat
      BY <1>1 DEF CurrentInv, Lockstep
    <3>3. Len(log) \in ends' /\ \A m \in ends' : m <= Len(log)
      BY <2>2, <3>1, <3>2
    <3>4. (\E k \in ends' : \A m \in ends' : m <= k)
      BY <3>3
    <3>5. Settled' \in ends' /\ \A m \in ends' : m <= Settled'
      BY <3>4, Zenon DEF Settled
    <3> QED BY <3>2, <3>3, <3>5
  <2>4. SubSeq(log, 1, Len(log)) = log
    BY <1>1
  <2> QED BY <2>3, <2>4 DEF hist
<1>13. hist' = hist \o Atomic!Stamp(c, hist, b)
  BY <1>5, <1>10, <1>11, <1>12
<1>14. Atomic!Allowed(req[c], hist) /\ b \in Atomic!Blocks(req[c], hist)
  BY <1>1, <1>5, <1>7, SameCommands
<1>15. /\ inst' = hist' /\ ends' = ends \cup {Len(hist')}
       /\ resp' = [resp EXCEPT ![c] = "ok"] /\ req' = req
  BY <1>1, <1>12 DEF Answer, Ended
<1> QED BY <1>13, <1>14, <1>15 DEF Atomic!Serve, hist

\* So does an investment, which reads and writes under the registry's lock.
LEMMA InvestServes ==
  ASSUME Inv, CurrentInv, CurrentInv', NEW c \in Clients, req[c] = "invest",
         Allowed("invest", inst), Answer(c, "ok"), Ended(inst'),
         StoreAppend(Version(inst), [kind |-> "InvestmentApplied", by |-> c, at |-> Len(inst)]),
         inst' = Apply(inst, [kind |-> "InvestmentApplied", by |-> c, at |-> Len(inst)])
  PROVE  Atomic!Serve(c)
<1> DEFINE e == [kind |-> "InvestmentApplied", by |-> c, at |-> Len(inst)]
           b == <<"InvestmentApplied">>
<1>1. /\ inst \in Seq(Event) /\ log \in Seq(Event) /\ "invest" \in Requests
      /\ ends \in SUBSET Nat /\ eng \in [Clients -> Seq(Event)]
  BY DEF Inv, TypeOK, StoreTypeOK, Requests
<1>2. e \in Event /\ e.at = Len(inst)
  BY <1>1, ClientsAssumption DEF Event, EventKinds
<1>3. Len(inst) = Len(log) /\ log' = Append(log, e)
  BY DEF StoreAppend, CanAppend, Version
<1>4. inst = log
  BY <1>1, <1>3, ExtendsFacts DEF Inv, EnginesArePrefixes
<1>5. inst' = Append(inst, e)
  <2>1. \A i \in 1..Len(inst) : inst[i].at = i - 1
    BY <1>4 DEF Inv, Stamped
  <2> HIDE DEF e
  <2>2. Apply(inst, e) = Append(inst, e)
    BY <1>1, <1>2, <2>1, ApplyNew
  <2> QED BY <2>2 DEF e
<1>6. Atomic!Stamp(c, inst, b) = <<e>>
  <2>1. Len(b) = 1 /\ b[1] = "InvestmentApplied" /\ Len(inst) + 1 - 1 = Len(inst)
    BY <1>1
  <2>2. \A i \in 1..1 : [kind |-> b[i], by |-> c, at |-> Len(inst) + i - 1] = e
    BY <2>1
  <2> HIDE DEF e, b
  <2>3. [i \in 1..Len(b) |-> [kind |-> b[i], by |-> c, at |-> Len(inst) + i - 1]] = <<e>>
    BY <2>1, <2>2
  <2> QED BY <2>3 DEF Atomic!Stamp
<1>7. Append(inst, e) = inst \o <<e>>
  BY <1>1, <1>2
<1>8. Atomic!Allowed("invest", inst) /\ b \in Atomic!Blocks("invest", inst)
  <2>1. b \in Blocks("invest", inst)
    BY DEF Blocks
  <2> QED BY <1>1, <2>1, SameCommands
<1>9. resp' = [resp EXCEPT ![c] = "ok"] /\ req' = req
  BY DEF Answer
<1> HIDE DEF e, b
<1>10. /\ Len(inst') = Len(log') /\ Len(log') = Len(log) + 1 /\ inst' = log'
       /\ log' \in Seq(Event) /\ ends' = ends \cup {Len(log')}
  BY <1>1, <1>2, <1>3, <1>4, <1>5 DEF Ended
<1>11. hist = inst
  <2>1. \A d \in Clients : ~Holding(d)
    BY <1>1, <1>3 DEF Inv, HolderAhead
  <2>2. Settled = Len(log)
    BY <2>1, WhereSettled
  <2>3. SubSeq(log, 1, Len(log)) = log
    BY <1>1
  <2> QED BY <1>4, <2>2, <2>3 DEF hist
<1>12. hist' = inst'
  <2>1. Len(log') \in ends' /\ ends' \subseteq 0..Len(log') /\ Len(log') \in Nat
    BY <1>10 DEF CurrentInv, Lockstep
  <2>2. \E k \in ends' : \A m \in ends' : m <= k
    BY <2>1
  <2>3. Settled' \in ends' /\ \A m \in ends' : m <= Settled'
    BY <2>2, Zenon DEF Settled
  <2>4. Settled' = Len(log')
    BY <2>1, <2>3
  <2>5. SubSeq(log', 1, Len(log')) = log'
    BY <1>10
  <2> QED BY <1>10, <2>4, <2>5 DEF hist
<1>13. hist' = hist \o Atomic!Stamp(c, hist, b)
  BY <1>5, <1>6, <1>7, <1>11, <1>12
<1>14. ends' = ends \cup {Len(hist')}
  BY <1>10, <1>12
<1> QED BY <1>8, <1>9, <1>11, <1>12, <1>13, <1>14 DEF Atomic!Serve, hist

\* A decompose that found nothing shows the history as an operation left it.
LEMMA MissIsMiss ==
  ASSUME Inv, CurrentInv, NEW c \in Clients, pc[c] = "set", ~Holding(c),
         log' = log, inst' = eng[c], Missed(eng[c]), Answer(c, "ok")
  PROVE  Atomic!Miss(c)
<1>1. /\ log \in Seq(Event) /\ eng[c] \in Seq(Event) /\ Extends(log, eng[c])
      /\ ends \in SUBSET Nat
  BY DEF Inv, TypeOK, StoreTypeOK, EnginesArePrefixes
<1>2. /\ req[c] = "decompose" /\ eng[c] # <<>> /\ Len(eng[c]) \in ends
  BY NotHoldingBase DEF CurrentInv, Lockstep
<1>3. Len(eng[c]) <= Settled /\ Settled \in 0..Len(log)
  <2>1. CASE \A d \in Clients : ~Holding(d)
    BY <1>1, <2>1, WhereSettled, ExtendsFacts
  <2>2. ASSUME NEW d \in Clients, Holding(d) PROVE Len(eng[c]) <= Settled
    BY <1>2, <2>2, WhereSettled DEF CurrentInv, Lockstep
  <2> QED BY <2>1, <2>2, WhereSettled
<1>4. ends' = ends /\ req' = req /\ resp' = [resp EXCEPT ![c] = "ok"]
  BY DEF Missed, Answer
<1>5. hist' = hist
  BY <1>4 DEF hist, Settled
<1>6. Len(eng[c]) \in ends \ {0}
  BY <1>1, <1>2
<1>7. inst' = SubSeq(hist, 1, Len(eng[c]))
  <2> DEFINE n == Len(eng[c])
  <2>1. /\ n \in Nat /\ n <= Settled /\ Settled \in Nat /\ Settled <= Len(log)
        /\ \A i \in 1..n : eng[c][i] = log[i]
    BY <1>1, <1>3 DEF Extends
  <2>2. /\ hist \in Seq(Event) /\ Len(hist) = Settled
        /\ \A i \in 1..Settled : hist[i] = log[i]
    BY <1>1, <2>1 DEF hist
  <2>3. /\ SubSeq(hist, 1, n) \in Seq(Event) /\ Len(SubSeq(hist, 1, n)) = n
        /\ \A i \in 1..n : SubSeq(hist, 1, n)[i] = hist[i]
    BY <2>1, <2>2
  <2>4. \A i \in 1..n : SubSeq(hist, 1, n)[i] = eng[c][i]
    BY <2>1, <2>2, <2>3
  <2>5. SubSeq(hist, 1, n) = eng[c]
    BY <1>1, <2>3, <2>4
  <2> QED BY <2>5
<1> QED BY <1>2, <1>4, <1>5, <1>6, <1>7 DEF Atomic!Miss, hist

\* A step that leaves the stream alone, and ends no operation.
LEMMA SameHist ==
  ASSUME UNCHANGED <<log, ends>>
  PROVE  hist' = hist
  BY DEF hist, Settled

\* An append moves the end of the stream, not of the operations written back.
LEMMA EmitKeepsHist ==
  ASSUME Inv, CurrentInv, NEW c \in Clients, Emit(c)
  PROVE  hist' = hist
<1>1. /\ log \in Seq(Event) /\ log' = Append(log, NextEvent(c)) /\ ends' = ends
      /\ NextEvent(c) \in Event
  BY ClientsAssumption
  DEF Emit, StoreAppend, pastVars, Inv, TypeOK, StoreTypeOK, PhaseOK, NextEvent, Event
<1>2. Settled' = Settled
  BY <1>1 DEF Settled
<1>3. Settled \in 0..Len(log)
  BY WhereSettled
<1>4. SubSeq(log', 1, Settled) = SubSeq(log, 1, Settled)
  <2>1. \A n \in 0..Len(log) : SubSeq(Append(log, NextEvent(c)), 1, n) = SubSeq(log, 1, n)
    BY <1>1
  <2> QED BY <1>1, <1>3, <2>1
<1> QED BY <1>2, <1>4 DEF hist

\* Each step of the detailed system is one of the atomic one, or invisible.
LEMMA StepRefines ==
  ASSUME Inv, CurrentInv, BlockInv, Inv', CurrentInv', [Next]_vars
  PROVE  [Atomic!Next]_seen
<1>1. ASSUME NEW c \in Clients, NEW a \in Responses \ {"none", "ok"}, Answer(c, a),
             UNCHANGED <<log, inst, ends>>
      PROVE  Atomic!Next
  BY <1>1, SameHist DEF Answer, Atomic!Decline, Atomic!Next, hist
<1>2. ASSUME NEW c \in Clients, Read(c) \/ ReadCreate(c)
      PROVE  [Atomic!Next]_seen
  <2>1. UNCHANGED <<log, inst, ends>>
    BY <1>2 DEF Read, ReadCreate, pastVars
  <2>2. CASE UNCHANGED <<req, resp>>
    BY <2>1, <2>2, SameHist DEF seen
  <2>3. CASE \E a \in Responses \ {"none", "ok"} : Answer(c, a)
    BY <1>1, <2>1, <2>3
  <2> QED BY <1>2, <2>2, <2>3
          DEF Read, ReadCreate, Start, AssignRefused, NothingToDecompose, Responses
<1>3. ASSUME NEW c \in Clients, Emit(c) PROVE UNCHANGED seen
  BY <1>3, EmitKeepsHist DEF Emit, pastVars, seen
<1>4. ASSUME NEW c \in Clients, EmitConflict(c)
      PROVE  [Atomic!Next]_seen
  <2>1. /\ UNCHANGED <<log, inst, ends>>
        /\ ConflictAnswer(req[c]) \in Responses \ {"none", "ok"}
    BY <1>4 DEF EmitConflict, ConflictAnswer, Responses, pastVars
  <2>2. CASE Again(c)
    BY <2>1, <2>2, SameHist DEF Again, seen
  <2> QED BY <1>1, <1>4, <2>1, <2>2 DEF EmitConflict
<1>5. ASSUME NEW c \in Clients, SetInstance(c) PROVE Atomic!Next
  <2>1. CASE Holding(c)
    BY <1>5, <2>1, WriteBackServes DEF SetInstance, Atomic!Next
  <2>2. CASE ~Holding(c)
    BY <1>5, <2>2, MissIsMiss DEF SetInstance, Atomic!Next
  <2> QED BY <2>1, <2>2
<1>6. ASSUME NEW c \in Clients, Insert(c) PROVE Atomic!Next
  <2>1. inst = <<>> /\ Holding(c)
    BY <1>6, InsertFindsNothing DEF Insert, DoubleCheckIdle, CurrentInv, Lockstep
  <2> QED BY <1>6, <2>1, WriteBackServes DEF Insert, Atomic!Next
<1>7. ASSUME NEW c \in Clients, Invest(c) PROVE Atomic!Next
  <2>1. ConflictAnswer("invest") \in Responses \ {"none", "ok"}
        /\ "notfound" \in Responses \ {"none", "ok"}
        /\ "refused" \in Responses \ {"none", "ok"}
    BY DEF ConflictAnswer, Responses
  <2>2. CASE \E a \in Responses \ {"none", "ok"} :
               Answer(c, a) /\ UNCHANGED <<log, inst, pastVars>>
    BY <1>1, <2>2 DEF pastVars
  <2> DEFINE e == [kind |-> "InvestmentApplied", by |-> c, at |-> Len(inst)]
  <2>3. CASE /\ Allowed("invest", inst) /\ StoreAppend(Version(inst), e)
             /\ inst' = Apply(inst, e) /\ Ended(inst') /\ Answer(c, "ok")
    BY <1>7, <2>3, InvestServes DEF Invest, Atomic!Next
  <2> QED BY <1>7, <2>1, <2>2, <2>3 DEF Invest
<1>8. ASSUME NEW c \in Clients, NEW r \in Issued, Begin(c, r) PROVE Atomic!Next
  <2>1. /\ UNCHANGED <<log, inst, ends>> /\ req' = [req EXCEPT ![c] = r]
        /\ resp' = [resp EXCEPT ![c] = "none"]
        /\ r \in Requests
    BY <1>8, ClientsAssumption DEF Begin, pastVars
  <2>2. r \in Atomic!Requests
    BY <2>1, SameCommands
  <2> QED BY <2>1, <2>2, SameHist DEF Atomic!Ask, Atomic!Next, hist
<1>9. CASE UNCHANGED vars
  BY <1>9, SameHist DEF vars, seen
<1>10. ASSUME NEW c \in Clients, Step(c) PROVE [Atomic!Next]_seen
  BY <1>2, <1>3, <1>4, <1>5, <1>6, <1>7, <1>10 DEF Step
<1> QED BY <1>8, <1>9, <1>10 DEF Next

\* The REST API implements a simulation whose requests are atomic: copies,
\* versions, retries and the missing lock between read, emits and write-back
\* are invisible, but for a decompose that found nothing, which may show
\* readers the state an earlier operation left.
THEOREM RefinesAtomic == Spec => ImplementsAtomic
<1>1. Init => Atomic!Init
  <2> SUFFICES ASSUME Init PROVE Atomic!Init
    OBVIOUS
  <2>1. log = <<>> /\ ends = {0} /\ inst = <<>>
    BY DEF Init, StoreInit
  <2>2. Settled = 0
    BY <2>1, SettledIs
  <2>3. SubSeq(<<>>, 1, 0) = <<>>
    OBVIOUS
  <2> QED BY <2>1, <2>2, <2>3 DEF Init, Atomic!Init
<1>2. Spec => []BlockInv
  BY InitBlock, BlockKept, Invariance, PTL DEF Spec
<1>3. Inv /\ CurrentInv /\ BlockInv /\ Inv' /\ CurrentInv' /\ [Next]_vars
        => [Atomic!Next]_<<SubSeq(log, 1, Settled), inst, ends, req, resp>>
  BY StepRefines DEF seen, hist
<1> QED BY <1>1, <1>2, <1>3, Invariance, CurrentInvariance, PTL
        DEF Spec, ImplementsAtomic, Atomic!Spec

-----------------------------------------------------------------------------
(* The second part: the interface beside the requests                      *)

-----------------------------------------------------------------------------
(* Lemmas about sequences *)

\* The first element of a sequence and the others.
LEMMA HeadTailFacts ==
  ASSUME NEW S, NEW s \in Seq(S), s # <<>>
  PROVE  /\ Len(s) \in Nat \ {0} /\ Head(s) = s[1] /\ Head(s) \in S
         /\ Tail(s) \in Seq(S) /\ Len(Tail(s)) = Len(s) - 1
         /\ \A i \in 1..Len(Tail(s)) : Tail(s)[i] = s[i + 1]
<1>1. Len(s) \in Nat \ {0}
  OBVIOUS
<1> QED BY <1>1

\* Sequences with the same elements are the same.
LEMMA SeqEqual ==
  ASSUME NEW S, NEW s \in Seq(S), NEW t \in Seq(S), Len(s) = Len(t),
         \A i \in 1..Len(s) : s[i] = t[i]
  PROVE  s = t
  OBVIOUS

\* Appending to the second part of a concatenation.
LEMMA ConcatAppend ==
  ASSUME NEW S, NEW s \in Seq(S), NEW t \in Seq(S), NEW e \in S
  PROVE  s \o Append(t, e) = Append(s \o t, e)
<1>1. s \o t \in Seq(S) /\ Append(t, e) \in Seq(S)
  OBVIOUS
<1>2. /\ s \o Append(t, e) \in Seq(S) /\ Append(s \o t, e) \in Seq(S)
      /\ Len(s \o Append(t, e)) = Len(Append(s \o t, e))
  BY <1>1
<1>3. \A i \in 1..Len(s \o Append(t, e)) : (s \o Append(t, e))[i] = Append(s \o t, e)[i]
  BY <1>1, <1>2
<1> QED BY <1>2, <1>3, SeqEqual
\* The interface is, or the API is, the only writer after the creation.
TuiAlone == \A i \in 2..Len(log) : ByTui(i)
ApiAlone == \A i \in 2..Len(log) : ~ByTui(i)

\* What the interface has of the stream while it may still write.
Loop ==
  /\ Busy => /\ ~readOnly /\ Extends(log, work)
             /\ \A i \in 2..Len(work) : work[i].by = Tui
  /\ ~readOnly => /\ Extends(log, tui)
                  /\ \A i \in 2..Len(tui) : tui[i].by = Tui

\* Until the API writes, the interface leads the stream, and the registry and
\* the requests have nothing but the creation.
Alone ==
  TuiAlone =>
    /\ ~readOnly /\ inst = <<Created>>
    /\ \A c \in Clients : /\ ~Holding(c)
                          /\ pc[c] \in {"emit", "set"} => eng[c] = <<Created>>
    /\ Busy => work = log
    /\ ~Busy => tui = log

\* Events the subscription has still to bring to the event loop.
Pending == msg \o chan[Tui]

InStream(s) == \A i \in 1..Len(s) : \E j \in 1..Len(log) : s[i] = log[j]
Rising(s) == \A i, j \in 1..Len(s) : i < j => s[i].at < s[j].at

\* They come in the order of the stream, and after what another writer's
\* events have already done to the interface's engine.
Heard ==
  /\ InStream(tui) /\ Rising(tui)
  /\ InStream(Pending) /\ Rising(Pending)
  /\ \A k \in 1..Len(Pending) : Pending[k].at > 0
  /\ ApiAlone => \A i \in 1..Len(tui), k \in 1..Len(Pending) : tui[i].at < Pending[k].at

CoInv ==
  /\ CoTypeOK /\ Inv
  /\ Len(log) > 0 /\ log[1] = Created
  /\ TuiAlone \/ ApiAlone
  /\ Loop /\ Alone /\ Heard

-----------------------------------------------------------------------------
(* Lemmas about the subscription *)

\* What is pending, whoever holds it: the listener or the channel.
LEMMA PendingFacts ==
  ASSUME CoTypeOK
  PROVE  /\ Pending \in Seq(Event) /\ chan[Tui] \in Seq(Event) /\ msg \in Seq(Event)
         /\ msg = <<>> => Pending = chan[Tui]
         /\ msg # <<>> => /\ msg = <<Head(msg)>> /\ Head(msg) \in Event
                          /\ Pending # <<>> /\ Pending[1] = Head(msg)
                          /\ Tail(Pending) = chan[Tui]
<1>1. chan[Tui] \in Seq(Event) /\ msg \in Seq(Event) /\ Len(msg) <= 1
  BY TuiAssumption DEF CoTypeOK, TypeOK, StoreTypeOK
<1>2. Pending \in Seq(Event)
  BY <1>1 DEF Pending
<1>3. CASE msg = <<>>
  <2>1. Pending = chan[Tui]
    BY <1>1, <1>3 DEF Pending
  <2> QED BY <1>1, <1>2, <1>3, <2>1
<1>4. CASE msg # <<>>
  <2>1. Len(msg) = 1 /\ Head(msg) = msg[1] /\ Head(msg) \in Event
    <3>1. msg \in Seq(Event) /\ msg # <<>>
      BY <1>1, <1>4
    <3>2. Len(msg) \in Nat \ {0} /\ Head(msg) = msg[1] /\ Head(msg) \in Event
      BY <3>1, HeadTailFacts
    <3>3. Len(msg) <= 1
      BY <1>1
    <3>4. \A n \in Nat \ {0} : n <= 1 => n = 1
      OBVIOUS
    <3>5. Len(msg) = 1
      BY <3>2, <3>3, <3>4
    <3> QED BY <3>2, <3>5
  <2>2. msg = <<Head(msg)>>
    BY <1>1, <2>1
  <2>3. /\ Len(Pending) = 1 + Len(chan[Tui])
        /\ Pending[1] = msg[1]
        /\ \A i \in 2..(1 + Len(chan[Tui])) : Pending[i] = chan[Tui][i - 1]
    <3>1. /\ Len(Pending) = Len(msg) + Len(chan[Tui])
          /\ \A i \in 1..Len(msg) : Pending[i] = msg[i]
          /\ \A i \in (Len(msg) + 1)..(Len(msg) + Len(chan[Tui])) :
               Pending[i] = chan[Tui][i - Len(msg)]
      BY <1>1, ConcatFacts DEF Pending
    <3> QED BY <2>1, <3>1
  <2>4. Tail(Pending) = chan[Tui]
    <3>1. /\ Tail(Pending) \in Seq(Event) /\ Len(Tail(Pending)) = Len(chan[Tui])
          /\ \A i \in 1..Len(Tail(Pending)) : Tail(Pending)[i] = Pending[i + 1]
      <4>1. Pending # <<>>
        BY <1>1, <2>3
      <4> QED BY <1>1, <1>2, <2>3, <4>1, HeadTailFacts
    <3>2. ASSUME NEW i \in 1..Len(Tail(Pending)) PROVE Tail(Pending)[i] = chan[Tui][i]
      <4>1. i + 1 \in 2..(1 + Len(chan[Tui])) /\ (i + 1) - 1 = i
        BY <1>1, <3>1
      <4> QED BY <2>3, <3>1, <4>1
    <3> QED BY <1>1, <3>1, <3>2, SeqEqual
  <2> QED BY <1>1, <1>2, <1>4, <2>1, <2>2, <2>3, <2>4
<1> QED BY <1>3, <1>4

\* An event that is appended joins what is pending, or is lost.
LEMMA PendingGrows ==
  ASSUME CoTypeOK, NEW e \in Event, msg' = msg,
         chan' = [s \in Subs |-> Offer(chan[s], e)]
  PROVE  Pending' = Pending \/ Pending' = Append(Pending, e)
<1>1. chan'[Tui] = chan[Tui] \/ chan'[Tui] = Append(chan[Tui], e)
  BY TuiAssumption DEF Offer
<1>2. chan[Tui] \in Seq(Event) /\ msg \in Seq(Event)
  BY PendingFacts
<1>3. CASE chan'[Tui] = chan[Tui]
  BY <1>3 DEF Pending
<1>4. CASE chan'[Tui] = Append(chan[Tui], e)
  <2>1. Pending' = msg \o Append(chan[Tui], e)
    BY <1>4 DEF Pending
  <2>2. msg \o Append(chan[Tui], e) = Append(msg \o chan[Tui], e)
    BY <1>2, ConcatAppend
  <2> QED BY <2>1, <2>2 DEF Pending
<1> QED BY <1>1, <1>3, <1>4

\* The listener takes what comes next.
LEMMA TakeKeepsPending ==
  ASSUME CoTypeOK, Take
  PROVE  /\ Pending' = Pending
         /\ chan' \in [Subs -> Seq(Event)]
         /\ msg' \in Seq(Event) /\ Len(msg') <= 1
<1>1. /\ chan[Tui] \in Seq(Event) /\ chan[Tui] # <<>> /\ msg = <<>>
      /\ chan' = [chan EXCEPT ![Tui] = Tail(@)] /\ msg' = <<Head(chan[Tui])>>
      /\ chan \in [Subs -> Seq(Event)]
  BY PendingFacts DEF Take, Receive, CoTypeOK, TypeOK, StoreTypeOK
<1>2. Head(chan[Tui]) \in Event /\ Tail(chan[Tui]) \in Seq(Event)
  BY <1>1
<1>3. chan'[Tui] = Tail(chan[Tui])
  BY <1>1, TuiAssumption
<1>4. <<Head(chan[Tui])>> \o Tail(chan[Tui]) = chan[Tui]
  BY <1>1
<1>5. Pending' = chan[Tui] /\ Pending = chan[Tui]
  BY <1>1, <1>3, <1>4, PendingFacts DEF Pending
<1>6. Tail(chan[Tui]) \in Seq(Event) => chan' \in [Subs -> Seq(Event)]
  BY <1>1
<1>7. <<Head(chan[Tui])>> \in Seq(Event) /\ Len(<<Head(chan[Tui])>>) <= 1
  BY <1>2
<1> QED BY <1>1, <1>2, <1>5, <1>6, <1>7

\* What is pending stays in order while the stream grows.
LEMMA PendingKept ==
  ASSUME CoInv, NEW e \in Event, e.at = Len(log), log' = Append(log, e),
         Pending' = Pending \/ Pending' = Append(Pending, e)
  PROVE  /\ InStream(Pending)' /\ Rising(Pending)'
         /\ \A k \in 1..Len(Pending') : Pending'[k].at > 0
         /\ \A k \in 1..Len(Pending') : \/ k \in 1..Len(Pending) /\ Pending'[k] = Pending[k]
                                        \/ Pending'[k] = e
<1>1. /\ log \in Seq(Event) /\ Pending \in Seq(Event)
      /\ Len(log) > 0 /\ \A i \in 1..Len(log) : log[i].at = i - 1
  BY PendingFacts DEF CoInv, CoTypeOK, TypeOK, StoreTypeOK, Inv, Stamped
<1>2. /\ InStream(Pending) /\ Rising(Pending)
      /\ \A k \in 1..Len(Pending) : Pending[k].at > 0
  BY DEF CoInv, Heard
<1>3. /\ Len(log') = Len(log) + 1 /\ log'[Len(log) + 1] = e
      /\ \A j \in 1..Len(log) : log'[j] = log[j]
  BY <1>1
<1>4. /\ \A k \in 1..Len(Pending) : \E j \in 1..Len(log') : Pending[k] = log'[j]
      /\ \A k \in 1..Len(Pending) : Pending[k].at < Len(log)
  <2>1. \A j \in 1..Len(log) : j \in 1..Len(log') /\ log'[j] = log[j] /\ log[j].at < Len(log)
    BY <1>1, <1>3
  <2> QED BY <1>2, <2>1 DEF InStream
<1>5. CASE Pending' = Pending
  BY <1>2, <1>4, <1>5 DEF InStream, Rising
<1>6. CASE Pending' = Append(Pending, e)
  <2>1. /\ Len(Pending') = Len(Pending) + 1 /\ Pending'[Len(Pending) + 1] = e
        /\ \A k \in 1..Len(Pending) : Pending'[k] = Pending[k]
    BY <1>1, <1>6
  <2>2. \A k \in 1..Len(Pending') : \/ k \in 1..Len(Pending) /\ Pending'[k] = Pending[k]
                                    \/ k = Len(Pending) + 1 /\ Pending'[k] = e
    BY <1>1, <2>1
  <2>3. \E j \in 1..Len(log') : e = log'[j]
    BY <1>1, <1>3
  <2>4. InStream(Pending)'
    BY <1>4, <2>2, <2>3 DEF InStream
  <2>5. Rising(Pending)'
    <3>1. ASSUME NEW i \in 1..Len(Pending'), NEW j \in 1..Len(Pending'), i < j
          PROVE  Pending'[i].at < Pending'[j].at
      <4>1. Len(Pending) \in Nat
        BY <1>1
      <4>2. i \in 1..Len(Pending) /\ Pending'[i] = Pending[i]
        BY <2>1, <3>1, <4>1
      <4>3. CASE j \in 1..Len(Pending)
        BY <1>2, <2>1, <3>1, <4>2, <4>3 DEF Rising
      <4>4. CASE j = Len(Pending) + 1
        BY <1>4, <2>1, <4>2, <4>4
      <4> QED BY <2>1, <4>1, <4>3, <4>4
    <3> QED BY <3>1 DEF Rising
  <2>6. \A k \in 1..Len(Pending') : Pending'[k].at > 0
    BY <1>1, <1>2, <2>2
  <2> QED BY <2>2, <2>4, <2>5, <2>6
<1> QED BY <1>5, <1>6

\* What the interface has heard stays right while the stream grows.
LEMMA HeardKept ==
  ASSUME CoInv, NEW e \in Event, e.at = Len(log), log' = Append(log, e),
         tui' = tui, Pending' = Pending \/ Pending' = Append(Pending, e)
  PROVE  Heard'
<1>1. /\ log \in Seq(Event) /\ tui \in Seq(Event) /\ Len(log) > 0
      /\ \A i \in 1..Len(log) : log[i].at = i - 1
  BY DEF CoInv, CoTypeOK, TypeOK, StoreTypeOK, Inv, Stamped
<1>2. /\ InStream(tui) /\ Rising(tui)
      /\ ApiAlone => \A i \in 1..Len(tui), k \in 1..Len(Pending) : tui[i].at < Pending[k].at
  BY DEF CoInv, Heard
<1>3. /\ Len(log') = Len(log) + 1
      /\ \A j \in 1..Len(log) : log'[j] = log[j]
  BY <1>1
<1>4. InStream(tui)' /\ \A i \in 1..Len(tui) : tui[i].at < Len(log)
  <2>1. \A j \in 1..Len(log) : j \in 1..Len(log') /\ log'[j] = log[j] /\ log[j].at < Len(log)
    BY <1>1, <1>3
  <2> QED BY <1>2, <2>1 DEF InStream
<1>5. ApiAlone' => ApiAlone
  BY <1>1, <1>3 DEF ApiAlone, ByTui
<1>6. /\ InStream(Pending)' /\ Rising(Pending)'
      /\ \A k \in 1..Len(Pending') : Pending'[k].at > 0
      /\ \A k \in 1..Len(Pending') : \/ k \in 1..Len(Pending) /\ Pending'[k] = Pending[k]
                                     \/ Pending'[k] = e
  BY PendingKept
<1>7. ApiAlone' => \A i \in 1..Len(tui'), k \in 1..Len(Pending') : tui'[i].at < Pending'[k].at
  BY <1>2, <1>4, <1>5, <1>6
<1> QED BY <1>2, <1>4, <1>6, <1>7 DEF Heard, Rising

-----------------------------------------------------------------------------
(* The API's steps *)

\* An API request appends at the version of a copy it has, or of the registry.
LEMMA ApiAppends ==
  ASSUME Inv, Next
  PROVE  \/ UNCHANGED <<log, chan>>
         \/ \E c \in Clients : \E e \in Event :
              /\ e.by = c /\ e.at = Len(log) /\ log' = Append(log, e)
              /\ chan' = [s \in Subs |-> Offer(chan[s], e)]
              /\ \/ Len(inst) = Len(log)
                 \/ pc[c] = "emit" /\ Len(eng[c]) = Len(log)
<1>1. ASSUME NEW c \in Clients, Emit(c)
      PROVE  \E e \in Event :
               /\ e.by = c /\ e.at = Len(log) /\ log' = Append(log, e)
               /\ chan' = [s \in Subs |-> Offer(chan[s], e)]
               /\ pc[c] = "emit" /\ Len(eng[c]) = Len(log)
  <2>1. /\ todo[c] \in Seq(EventKinds) /\ todo[c] # <<>> /\ eng[c] \in Seq(Event)
    BY <1>1 DEF Emit, Inv, TypeOK, PhaseOK
  <2>2. NextEvent(c) \in Event /\ NextEvent(c).by = c /\ NextEvent(c).at = Len(eng[c])
    BY <2>1, ClientsAssumption DEF NextEvent, Event
  <2>3. /\ Len(eng[c]) = Len(log) /\ log' = Append(log, NextEvent(c))
        /\ chan' = [s \in Subs |-> Offer(chan[s], NextEvent(c))] /\ pc[c] = "emit"
    BY <1>1 DEF Emit, StoreAppend, CanAppend, Version
  <2> QED BY <2>2, <2>3
<1>2. ASSUME NEW c \in Clients, Invest(c), ~UNCHANGED <<log, chan>>
      PROVE  \E e \in Event :
               /\ e.by = c /\ e.at = Len(log) /\ log' = Append(log, e)
               /\ chan' = [s \in Subs |-> Offer(chan[s], e)]
               /\ Len(inst) = Len(log)
  <2> DEFINE e == [kind |-> "InvestmentApplied", by |-> c, at |-> Len(inst)]
  <2>1. e \in Event /\ e.by = c /\ e.at = Len(inst)
    BY ClientsAssumption DEF Event, EventKinds, Inv, TypeOK
  <2>2. StoreAppend(Version(inst), e)
    BY <1>2 DEF Invest
  <2> HIDE DEF e
  <2> QED BY <2>1, <2>2 DEF StoreAppend, CanAppend, Version
<1>3. ASSUME NEW c \in Clients,
             \/ Read(c) \/ ReadCreate(c) \/ EmitConflict(c) \/ SetInstance(c)
             \/ Insert(c) \/ \E r \in Issued : Begin(c, r)
      PROVE  UNCHANGED <<log, chan>>
  BY <1>3 DEF Read, ReadCreate, EmitConflict, SetInstance, Insert, Begin
<1> QED BY <1>1, <1>2, <1>3 DEF Next, Step

\* While the interface is alone the API has the creation to copy and to write
\* back, and nothing else.
LEMMA ApiQuiet ==
  ASSUME CoInv, Next, UNCHANGED <<log, chan, tuiVars>>, TuiAlone
  PROVE  Alone'
<1>1. /\ ~readOnly /\ inst = <<Created>>
      /\ \A c \in Clients : /\ ~Holding(c)
                            /\ pc[c] \in {"emit", "set"} => eng[c] = <<Created>>
      /\ Busy => work = log
      /\ ~Busy => tui = log
  BY DEF CoInv, Alone
<1>2. Inv /\ inst # <<>> /\ Len(inst) = 1
  BY <1>1 DEF CoInv
<1> DEFINE Quiet(c) == ~Holding(c) /\ (pc[c] \in {"emit", "set"} => eng[c] = <<Created>>)
<1>3. SUFFICES inst' = <<Created>> /\ \A c \in Clients : Quiet(c)'
  BY <1>1 DEF Alone, Busy, tuiVars
<1>4. ASSUME NEW c \in Clients, NEW a \in Responses, Answer(c, a)
      PROVE  \A d \in Clients : Quiet(d)'
  <2>1. /\ pc'[c] = "idle" /\ ~Holding(c)'
        /\ \A d \in Clients \ {c} : /\ eng'[d] = eng[d] /\ base'[d] = base[d]
                                    /\ pc'[d] = pc[d] /\ req'[d] = req[d]
    BY <1>2, <1>4, AnswerFrame
  <2> QED BY <1>1, <2>1 DEF Holding
<1>5. ASSUME NEW c \in Clients, Read(c) \/ ReadCreate(c)
      PROVE  inst' = <<Created>> /\ \A d \in Clients : Quiet(d)'
  <2>1. inst' = inst
    BY <1>5 DEF Read, ReadCreate
  <2>2. CASE \E a \in Responses : Answer(c, a)
    BY <1>1, <1>4, <2>1, <2>2
  <2>3. CASE \E b : Start(c, inst, b)
    <3>1. /\ eng'[c] = inst /\ base'[c] = Len(inst)
          /\ \A d \in Clients \ {c} : /\ eng'[d] = eng[d] /\ base'[d] = base[d]
                                      /\ pc'[d] = pc[d]
      BY <2>3 DEF Start, CoInv, Inv, TypeOK
    <3>2. ~Holding(c)' /\ eng'[c] = <<Created>>
      BY <1>1, <1>2, <3>1 DEF Holding
    <3>3. \A d \in Clients \ {c} : Holding(d)' <=> Holding(d)
      BY <3>1 DEF Holding
    <3> QED BY <1>1, <2>1, <3>1, <3>2, <3>3
  <2> QED BY <1>2, <1>5, <2>2, <2>3
          DEF Read, ReadCreate, AssignRefused, NothingToDecompose, Responses
<1>6. ASSUME NEW c \in Clients, EmitConflict(c)
      PROVE  inst' = <<Created>> /\ \A d \in Clients : Quiet(d)'
  <2>1. inst' = inst /\ ConflictAnswer(req[c]) \in Responses
    BY <1>6 DEF EmitConflict, ConflictAnswer, Responses
  <2>2. CASE Again(c)
    <3>1. /\ eng'[c] = <<>> /\ base'[c] = 0 /\ pc'[c] = "read"
          /\ \A d \in Clients \ {c} : /\ eng'[d] = eng[d] /\ base'[d] = base[d]
                                      /\ pc'[d] = pc[d]
      BY <2>2 DEF Again, CoInv, Inv, TypeOK
    <3> QED BY <1>1, <2>1, <3>1 DEF Holding
  <2> QED BY <1>1, <1>4, <1>6, <2>1, <2>2 DEF EmitConflict
<1>7. ASSUME NEW c \in Clients, SetInstance(c) \/ Insert(c)
      PROVE  inst' = <<Created>> /\ \A d \in Clients : Quiet(d)'
  <2>1. PICK a \in Responses : Answer(c, a)
    BY <1>7 DEF SetInstance, Insert, Responses
  <2>2. inst' = <<Created>>
    BY <1>1, <1>2, <1>7 DEF SetInstance, Insert
  <2> QED BY <1>4, <2>1, <2>2
<1>8. ASSUME NEW c \in Clients, NEW r \in Issued, Begin(c, r)
      PROVE  inst' = <<Created>> /\ \A d \in Clients : Quiet(d)'
  <2>1. /\ UNCHANGED <<inst, eng, base>> /\ pc'[c] = "read"
        /\ \A d \in Clients \ {c} : pc'[d] = pc[d]
    BY <1>8 DEF Begin, CoInv, Inv, TypeOK
  <2> QED BY <1>1, <2>1 DEF Holding
<1>9. ASSUME NEW c \in Clients, Emit(c) \/ Invest(c)
      PROVE  inst' = <<Created>> /\ \A d \in Clients : Quiet(d)'
  <2>1. log \in Seq(Event) /\ ~(log' = log /\ \E e : log' = Append(log, e))
    <3>1. log \in Seq(Event)
      BY DEF CoInv, CoTypeOK, TypeOK, StoreTypeOK
    <3>2. \A e : Len(Append(log, e)) # Len(log)
      BY <3>1
    <3> QED BY <3>1, <3>2
  <2>2. ~\E e : log' = Append(log, e)
    BY <2>1
  <2>3. Invest(c) /\ \E a \in Responses : Answer(c, a) /\ inst' = inst
    BY <1>9, <2>2 DEF Emit, Invest, StoreAppend, Responses, ConflictAnswer
  <2> QED BY <1>1, <1>4, <2>3
<1> HIDE DEF Quiet
<1> QED BY <1>5, <1>6, <1>7, <1>8, <1>9 DEF Next, Step

\* The API keeps the invariant: when it appends, the interface never has.
LEMMA ApiKeeps ==
  ASSUME CoInv, Next, UNCHANGED tuiVars
  PROVE  CoInv'
<1>1. /\ Inv /\ CoTypeOK /\ log \in Seq(Event) /\ inst \in Seq(Event)
      /\ tui \in Seq(Event) /\ work \in Seq(Event)
      /\ Len(log) > 0 /\ Len(log) \in Nat
  BY DEF CoInv, CoTypeOK, TypeOK, StoreTypeOK
<1>2. Inv'
  BY <1>1, StepKeeps
<1>3. CoTypeOK'
  BY <1>1, <1>2 DEF Inv, CoTypeOK, tuiVars
<1>4. CASE UNCHANGED <<log, chan>>
  <2>1. /\ Len(log') > 0 /\ log'[1] = Created
        /\ TuiAlone' \/ ApiAlone'
        /\ Loop' /\ Heard'
    BY <1>4 DEF CoInv, TuiAlone, ApiAlone, ByTui, Loop, Heard, Busy, tuiVars,
                Pending, InStream, Rising, Extends
  <2>2. Alone'
    <3>1. CASE TuiAlone
      BY <1>4, <3>1, ApiQuiet
    <3>2. CASE ~TuiAlone
      BY <1>4, <3>2 DEF Alone, TuiAlone, ByTui
    <3> QED BY <3>1, <3>2
  <2> QED BY <1>2, <1>3, <2>1, <2>2 DEF CoInv
<1>5. ASSUME NEW c \in Clients, NEW e \in Event,
             e.by = c, e.at = Len(log), log' = Append(log, e),
             chan' = [s \in Subs |-> Offer(chan[s], e)],
             Len(inst) = Len(log) \/ (pc[c] = "emit" /\ Len(eng[c]) = Len(log))
      PROVE  CoInv'
  <2>1. /\ Len(log') = Len(log) + 1 /\ log'[Len(log) + 1] = e /\ c # Tui
        /\ \A j \in 1..Len(log) : log'[j] = log[j]
    BY <1>1, <1>5, TuiAssumption
  <2>2. ApiAlone
    <3>1. CASE TuiAlone
      <4>1. Len(log) = 1
        <5>1. Len(<<Created>>) = 1
          OBVIOUS
        <5> QED BY <1>5, <3>1, <5>1 DEF CoInv, Alone
      <4> QED BY <4>1 DEF ApiAlone
    <3> QED BY <3>1 DEF CoInv
  <2>3. ApiAlone' /\ ~TuiAlone'
    BY <1>1, <1>5, <2>1, <2>2 DEF ApiAlone, TuiAlone, ByTui
  <2>4. Len(log') > 0 /\ log'[1] = Created
    BY <1>1, <2>1 DEF CoInv
  <2>5. Loop'
    <3>1. \A h \in Seq(Event) : Extends(log, h) => Extends(log', h)
      BY <1>1, <1>5, ExtendsFacts
    <3> QED BY <1>1, <3>1 DEF CoInv, Loop, Busy, tuiVars
  <2>6. Alone'
    BY <2>3 DEF Alone
  <2>7. Heard'
    <3>1. Pending' = Pending \/ Pending' = Append(Pending, e)
      BY <1>1, <1>5, PendingGrows DEF tuiVars
    <3> QED BY <1>5, <3>1, HeardKept DEF tuiVars
  <2> QED BY <1>2, <1>3, <2>3, <2>4, <2>5, <2>6, <2>7 DEF CoInv
<1> QED BY <1>1, <1>4, <1>5, ApiAppends

-----------------------------------------------------------------------------
(* The interface's steps *)

\* An operation that can append finds the interface alone: what it appends
\* leaves it so.
LEMMA TuiEmitKeeps ==
  ASSUME CoInv, TuiEmit
  PROVE  CoInv'
<1> DEFINE e == [kind |-> Head(workTodo), by |-> Tui, at |-> Len(work)]
           grown == Apply(work, e)
<1>1. /\ Inv /\ TypeOK /\ StoreTypeOK /\ log \in Seq(Event) /\ work \in Seq(Event)
      /\ tui \in Seq(Event) /\ workTodo \in Seq(EventKinds) /\ workTodo # <<>>
      /\ inst \in Seq(Event)
      /\ Len(log) > 0 /\ Busy
  BY DEF CoInv, CoTypeOK, TypeOK, StoreTypeOK, TuiEmit, Busy
<1>2. e \in Event /\ e.at = Len(work) /\ e.by = Tui
  BY <1>1, ClientsAssumption, TuiAssumption DEF Event
<1>3. /\ StoreAppend(Version(work), e)
      /\ workTodo' = Tail(workTodo)
      /\ \/ Tail(workTodo) # <<>> /\ work' = grown /\ UNCHANGED <<tui, paused>>
         \/ Tail(workTodo) = <<>> /\ work' = <<>> /\ tui' = grown
      /\ UNCHANGED <<inst, reqVars, pastVars, msg, readOnly>>
  BY DEF TuiEmit
<1>4. /\ StoreTypeOK' /\ Len(work) = Len(log) /\ log' = Append(log, e)
      /\ Len(log') = Len(log) + 1
      /\ chan' = [s \in Subs |-> Offer(chan[s], e)]
  <2>1. StoreAppend(Len(work), e) /\ Len(work) \in Nat
    BY <1>1, <1>3 DEF Version
  <2>2. chan' = [s \in Subs |-> Offer(chan[s], e)]
    BY <1>3 DEF StoreAppend
  <2> HIDE DEF e
  <2> QED BY <1>1, <1>2, <2>1, <2>2, AppendStep
<1>5. work = log /\ ~readOnly
  BY <1>1, <1>4, ExtendsFacts DEF CoInv, Loop
<1>6. TuiAlone
  BY <1>1, <1>5 DEF CoInv, Loop, TuiAlone, ByTui
<1>7. grown = log'
  <2> HIDE DEF e
  <2>1. Apply(log, e) = Append(log, e)
    BY <1>1, <1>2, <1>5, ApplyNew DEF Inv, Stamped
  <2> QED BY <1>4, <1>5, <2>1
<1> HIDE DEF e, grown
<1>8. /\ Len(log') = Len(log) + 1 /\ log'[Len(log) + 1] = e /\ log' \in Seq(Event)
      /\ \A j \in 1..Len(log) : log'[j] = log[j]
  BY <1>1, <1>2, <1>4
<1>9. /\ inst = <<Created>>
      /\ \A c \in Clients : /\ ~Holding(c)
                            /\ pc[c] \in {"emit", "set"} => eng[c] = <<Created>>
  BY <1>6 DEF CoInv, Alone
<1>10. /\ TuiAlone' /\ ~ApiAlone' /\ Len(log') > 0 /\ log'[1] = Created
  <2>0. Len(log) \in Nat /\ log[1] = Created
    BY <1>1 DEF CoInv
  <2>1. TuiAlone'
    <3>1. ASSUME NEW i \in 2..Len(log') PROVE log'[i].by = Tui
      <4>1. CASE i \in 1..Len(log)
        <5>1. i \in 2..Len(log) /\ log'[i] = log[i]
          BY <1>8, <4>1
        <5> QED BY <1>6, <5>1 DEF TuiAlone, ByTui
      <4>2. CASE i = Len(log) + 1
        BY <1>2, <1>8, <4>2
      <4> QED BY <1>8, <2>0, <4>1, <4>2
    <3> QED BY <3>1 DEF TuiAlone, ByTui
  <2>2. Len(log') > 0 /\ log'[1] = Created
    <3>1. 1 \in 1..Len(log) /\ Len(log) + 1 > 0
      BY <1>1, <2>0
    <3> QED BY <1>8, <2>0, <3>1
  <2>3. ~ApiAlone'
    <3>1. Len(log') \in 2..Len(log') /\ log'[Len(log')].by = Tui
      BY <1>1, <1>2, <1>8
    <3> QED BY <3>1 DEF ApiAlone, ByTui
  <2> QED BY <2>1, <2>2, <2>3
<1>11. UNCHANGED <<inst, pc, req, eng, todo, tries, resp, base, acked, ends, setBack>>
  BY <1>3 DEF reqVars, pastVars
<1>12. \A c \in Clients : ~Holding(c)'
  BY <1>9, <1>11 DEF Holding
<1>13. Inv'
  <2>1. TypeOK'
    BY <1>1, <1>4, <1>11 DEF TypeOK
  <2>2. Stamped'
    BY <1>1, <1>2, <1>4, <1>8 DEF Inv, Stamped
  <2>3. PhaseOK'
    BY <1>1, <1>11 DEF Inv, PhaseOK
  <2>4. EnginesArePrefixes'
    <3>1. \A h \in Seq(Event) : Extends(log, h) => Extends(log', h)
      BY <1>1, <1>2, <1>4, ExtendsFacts
    <3>2. \A c \in Clients : eng[c] \in Seq(Event)
      BY <1>1 DEF TypeOK
    <3> QED BY <1>1, <1>11, <3>1, <3>2 DEF Inv, EnginesArePrefixes
  <2>5. HolderAhead'
    BY <1>12 DEF HolderAhead
  <2> QED BY <2>1, <2>2, <2>3, <2>4, <2>5 DEF Inv
<1>14. CoTypeOK'
  <2>1. Tail(workTodo) \in Seq(EventKinds)
    BY <1>1
  <2>2. work' \in Seq(Event) /\ tui' \in Seq(Event)
    <3>1. <<>> \in Seq(Event)
      OBVIOUS
    <3> QED BY <1>1, <1>3, <1>7, <1>8, <3>1
  <2>3. paused' \in BOOLEAN
    <3>1. paused \in BOOLEAN /\ SprintActive(grown) \in BOOLEAN
      BY DEF CoInv, CoTypeOK, SprintActive
    <3> QED BY <3>1 DEF TuiEmit, grown, e
  <2> QED BY <1>3, <1>13, <2>1, <2>2, <2>3 DEF Inv, CoInv, CoTypeOK
<1>15. Extends(log', log') /\ (Extends(log, tui) => Extends(log', tui))
  BY <1>1, <1>2, <1>4, <1>8, ExtendsFacts DEF Extends
<1>16. Loop' /\ Alone'
  <2>1. \A i \in 2..Len(log') : log'[i].by = Tui
    BY <1>10 DEF TuiAlone, ByTui
  <2>2. CASE Tail(workTodo) # <<>>
    <3>1. work' = log' /\ tui' = tui /\ Busy' /\ readOnly' = readOnly
      BY <1>3, <1>7, <2>2 DEF Busy
    <3> QED BY <1>5, <1>9, <1>11, <1>12, <1>15, <2>1, <3>1
            DEF CoInv, Loop, Alone
  <2>3. CASE Tail(workTodo) = <<>>
    <3>1. tui' = log' /\ ~Busy' /\ readOnly' = readOnly
      BY <1>3, <1>7, <2>3 DEF Busy
    <3> QED BY <1>5, <1>9, <1>11, <1>12, <1>15, <2>1, <3>1
            DEF Loop, Alone
  <2> QED BY <2>2, <2>3
<1>17. Heard'
  <2>1. Pending' = Pending \/ Pending' = Append(Pending, e)
    BY <1>2, <1>3, <1>4, PendingGrows DEF CoInv
  <2>2. CASE tui' = tui
    BY <1>2, <1>4, <1>5, <2>1, <2>2, HeardKept
  <2>3. CASE tui' = log'
    <3>1. InStream(tui)' /\ Rising(tui)'
      BY <1>8, <1>13, <2>3 DEF InStream, Rising, Inv, Stamped
    <3>2. /\ InStream(Pending)' /\ Rising(Pending)'
          /\ \A k \in 1..Len(Pending') : Pending'[k].at > 0
      BY <1>2, <1>4, <1>5, <2>1, PendingKept
    <3> QED BY <1>10, <3>1, <3>2 DEF Heard
  <2> QED BY <1>3, <1>7, <2>2, <2>3
<1> QED BY <1>10, <1>13, <1>14, <1>16, <1>17 DEF CoInv

\* A step that leaves the stream, the registry and what is pending alone.
LEMMA LoopStep ==
  ASSUME CoInv, UNCHANGED <<log, inst, reqVars, pastVars>>,
         chan' \in [Subs -> Seq(Event)],
         tui' = tui, Pending' = Pending, readOnly' = readOnly,
         msg' \in Seq(Event), Len(msg') <= 1, paused' \in BOOLEAN,
         work' \in Seq(Event), workTodo' \in Seq(EventKinds), Loop', Alone'
  PROVE  CoInv'
<1>1. Inv' /\ CoTypeOK'
  BY DEF CoInv, CoTypeOK, Inv, TypeOK, StoreTypeOK, Stamped, PhaseOK,
         EnginesArePrefixes, HolderAhead, Holding, reqVars, pastVars
<1>2. Len(log') > 0 /\ log'[1] = Created /\ (TuiAlone' \/ ApiAlone')
  BY DEF CoInv, TuiAlone, ApiAlone, ByTui
<1>3. Heard'
  BY DEF CoInv, Heard, InStream, Rising, ApiAlone, ByTui
<1> QED BY <1>1, <1>2, <1>3 DEF CoInv

\* The space bar, a key, a conflict and the listener's taking of an event.
LEMMA QuietTuiKeeps ==
  ASSUME CoInv, TogglePause \/ TuiConflict \/ Take \/ \E r \in Writes \cap Issued : Act(r)
  PROVE  CoInv'
<1>1. /\ CoTypeOK /\ log \in Seq(Event) /\ tui \in Seq(Event) /\ work \in Seq(Event)
      /\ workTodo \in Seq(EventKinds) /\ paused \in BOOLEAN
      /\ msg \in Seq(Event) /\ Len(msg) <= 1 /\ chan \in [Subs -> Seq(Event)]
      /\ <<>> \in Seq(Event) /\ <<>> \in Seq(EventKinds)
  BY DEF CoInv, CoTypeOK, TypeOK, StoreTypeOK
<1>2. CASE TogglePause
  <2>1. /\ UNCHANGED <<log, chan, inst, reqVars, pastVars, tui, work, workTodo, msg, readOnly>>
        /\ paused' \in BOOLEAN
    BY <1>2 DEF TogglePause, vars, storeVars, reqVars, pastVars
  <2>2. Loop' /\ Alone' /\ Pending' = Pending
    BY <2>1 DEF CoInv, Loop, Alone, Busy, TuiAlone, ByTui, Holding, reqVars, Pending
  <2> QED BY <1>1, <2>1, <2>2, LoopStep
<1>3. CASE TuiConflict
  <2>1. /\ UNCHANGED <<log, chan, inst, reqVars, pastVars, tui, msg, readOnly, paused>>
        /\ work' = <<>> /\ workTodo' = <<>> /\ ~Busy'
    BY <1>3 DEF TuiConflict, vars, storeVars, reqVars, pastVars, Busy
  <2>2. ~TuiAlone
    BY <1>3 DEF CoInv, Alone, TuiConflict, CanAppend, Version
  <2>3. Alone'
    BY <2>1, <2>2 DEF Alone, TuiAlone, ByTui
  <2>4. Loop' /\ Pending' = Pending
    BY <2>1 DEF CoInv, Loop, Pending
  <2> QED BY <1>1, <2>1, <2>3, <2>4, LoopStep
<1>4. CASE Take
  <2>1. /\ UNCHANGED <<log, inst, reqVars, pastVars, tui, work, workTodo, readOnly, paused>>
    BY <1>4 DEF Take, Receive
  <2>2. /\ Pending' = Pending /\ chan' \in [Subs -> Seq(Event)]
        /\ msg' \in Seq(Event) /\ Len(msg') <= 1
    BY <1>1, <1>4, TakeKeepsPending
  <2>3. Loop' /\ Alone'
    BY <2>1 DEF CoInv, Loop, Alone, Busy, TuiAlone, ByTui, Holding, reqVars
  <2> QED BY <1>1, <2>1, <2>2, <2>3, LoopStep
<1>5. ASSUME NEW r \in Writes \cap Issued, Act(r) PROVE CoInv'
  <2>1. /\ UNCHANGED <<log, chan, inst, reqVars, pastVars, tui, msg, readOnly, paused>>
        /\ work' = tui /\ ~Busy /\ ~readOnly
    BY <1>5 DEF Act, vars, storeVars, reqVars, pastVars
  <2>2. PICK b \in Blocks(r, tui) : workTodo' = b
    BY <1>5 DEF Act
  <2>3. b \in Seq(EventKinds) /\ b # <<>>
    <3>1. r \in Requests
      BY DEF Writes, Requests
    <3> QED BY <2>2, <3>1, BlocksType
  <2>4. Busy'
    BY <2>2, <2>3 DEF Busy
  <2>5. Loop'
    BY <2>1, <2>4 DEF CoInv, Loop
  <2>6. Alone'
    BY <2>1, <2>4 DEF CoInv, Alone, TuiAlone, ByTui, Holding, reqVars
  <2>7. Pending' = Pending
    BY <2>1 DEF Pending
  <2> QED BY <1>1, <2>1, <2>2, <2>3, <2>5, <2>6, <2>7, LoopStep
<1> QED BY <1>2, <1>3, <1>4, <1>5

\* An event the interface handles: its own is dropped, another's is applied.
LEMMA HandleKeeps ==
  ASSUME CoInv, HandleOwn \/ HandleExternal
  PROVE  CoInv'
<1>1. /\ Inv /\ CoTypeOK /\ log \in Seq(Event) /\ tui \in Seq(Event) /\ work \in Seq(Event)
      /\ workTodo \in Seq(EventKinds) /\ paused \in BOOLEAN
      /\ \A i \in 1..Len(log) : log[i].at = i - 1
      /\ Len(log) > 0 /\ Heard /\ Loop /\ Alone /\ (TuiAlone \/ ApiAlone)
      /\ <<>> \in Seq(Event)
  BY DEF CoInv, CoTypeOK, TypeOK, StoreTypeOK, Inv, Stamped
<1>2. /\ ~Busy /\ msg # <<>> /\ msg' = <<>>
      /\ UNCHANGED <<log, chan, inst, pc, req, eng, todo, tries, resp, base, acked, ends, setBack,
                     work, workTodo>>
  BY DEF HandleOwn, HandleExternal, vars
<1>3. /\ Head(msg) \in Event /\ Pending \in Seq(Event) /\ Pending # <<>>
      /\ Pending[1] = Head(msg) /\ Tail(Pending) = chan[Tui] /\ chan[Tui] \in Seq(Event)
  BY <1>1, <1>2, PendingFacts
<1>4. Pending' = Tail(Pending)
  BY <1>2, <1>3 DEF Pending
<1>5. /\ Len(Pending) \in Nat \ {0} /\ Len(Pending') = Len(Pending) - 1
      /\ \A k \in 1..Len(Pending') : /\ k + 1 \in 1..Len(Pending)
                                     /\ Pending'[k] = Pending[k + 1]
  <2>1. /\ Len(Pending) \in Nat \ {0} /\ Len(Tail(Pending)) = Len(Pending) - 1
        /\ \A k \in 1..Len(Tail(Pending)) : Tail(Pending)[k] = Pending[k + 1]
    BY <1>3, HeadTailFacts
  <2> QED BY <1>4, <2>1
<1>6. /\ InStream(Pending)' /\ Rising(Pending)'
      /\ \A k \in 1..Len(Pending') : Pending'[k].at > 0
  <2>1. InStream(Pending)'
    BY <1>1, <1>2, <1>5 DEF Heard, InStream
  <2>2. ASSUME NEW i \in 1..Len(Pending'), NEW j \in 1..Len(Pending'), i < j
        PROVE  Pending'[i].at < Pending'[j].at
    <3>1. i + 1 < j + 1
      BY <2>2
    <3> QED BY <1>1, <1>5, <3>1 DEF Heard, Rising
  <2>3. \A k \in 1..Len(Pending') : Pending'[k].at > 0
    BY <1>1, <1>5 DEF Heard
  <2> QED BY <2>1, <2>2, <2>3 DEF Rising
<1>7. Inv'
  BY <1>1, <1>2 DEF CoInv, Inv, TypeOK, StoreTypeOK, Stamped, PhaseOK,
                    EnginesArePrefixes, HolderAhead, Holding
<1>8. /\ Len(log') > 0 /\ log'[1] = Created
      /\ TuiAlone' = TuiAlone /\ ApiAlone' = ApiAlone
  BY <1>2 DEF CoInv, TuiAlone, ApiAlone, ByTui
<1>9. CASE HandleOwn
  <2>1. UNCHANGED <<tui, readOnly, paused>>
    BY <1>9 DEF HandleOwn
  <2>2. CoTypeOK'
    BY <1>1, <1>2, <1>7, <2>1 DEF CoInv, Inv, CoTypeOK
  <2>3. Loop' /\ Alone'
    BY <1>1, <1>2, <2>1 DEF Loop, Alone, Busy, TuiAlone, ByTui, Holding
  <2>4. Heard'
    <3>1. InStream(tui)' /\ Rising(tui)'
      BY <1>1, <1>2, <2>1 DEF Heard, InStream, Rising
    <3>2. ApiAlone => \A i \in 1..Len(tui'), k \in 1..Len(Pending') :
                        tui'[i].at < Pending'[k].at
      BY <1>1, <1>5, <2>1 DEF Heard
    <3> QED BY <1>6, <1>8, <3>1, <3>2 DEF Heard
  <2> QED BY <1>1, <1>7, <1>8, <2>2, <2>3, <2>4 DEF CoInv
<1>10. CASE HandleExternal
  <2>1. /\ ~HasProcessed(tui, Head(msg)) /\ tui' = Append(tui, Head(msg)) /\ readOnly' = TRUE
    BY <1>10 DEF HandleExternal, Apply
  <2>2. 1 \in 1..Len(Pending) /\ \E j \in 1..Len(log) : Head(msg) = log[j]
    <3>1. 1 \in 1..Len(Pending)
      BY <1>5
    <3> QED BY <1>1, <1>3, <3>1 DEF Heard, InStream
  <2>3. ~TuiAlone /\ ApiAlone
    <3>1. ASSUME TuiAlone PROVE FALSE
      <4>1. tui = log
        BY <1>1, <1>2, <3>1 DEF Alone
      <4> QED BY <2>1, <2>2, <4>1 DEF HasProcessed
    <3> QED BY <1>1, <3>1
  <2>4. /\ Len(tui') = Len(tui) + 1 /\ tui'[Len(tui) + 1] = Head(msg) /\ tui' \in Seq(Event)
        /\ Len(tui) \in Nat
        /\ \A i \in 1..Len(tui) : tui'[i] = tui[i]
    BY <1>1, <1>3, <2>1
  <2>5. CoTypeOK'
    <3>1. paused' \in BOOLEAN /\ readOnly' \in BOOLEAN
      BY <1>10 DEF HandleExternal
    <3> QED BY <1>1, <1>2, <1>7, <2>4, <3>1 DEF Inv, CoTypeOK
  <2>6. Loop' /\ Alone'
    BY <1>2, <1>8, <2>1, <2>3 DEF Loop, Alone, Busy
  <2>7. Heard'
    <3>1. InStream(tui)'
      <4>1. ASSUME NEW i \in 1..Len(tui') PROVE \E j \in 1..Len(log) : tui'[i] = log[j]
        <5>1. CASE i \in 1..Len(tui)
          BY <1>1, <2>4, <5>1 DEF Heard, InStream
        <5>2. CASE i = Len(tui) + 1
          BY <2>2, <2>4, <5>2
        <5> QED BY <2>4, <5>1, <5>2
      <4> QED BY <1>2, <4>1 DEF InStream
    <3>2. \A i \in 1..Len(tui) : tui[i].at < Head(msg).at
      BY <1>1, <1>3, <2>2, <2>3 DEF Heard
    <3>3. Rising(tui)'
      <4>1. ASSUME NEW i \in 1..Len(tui'), NEW j \in 1..Len(tui'), i < j
            PROVE  tui'[i].at < tui'[j].at
        <5>1. i \in 1..Len(tui) /\ tui'[i] = tui[i]
          BY <2>4, <4>1
        <5>2. CASE j \in 1..Len(tui)
          BY <1>1, <2>4, <4>1, <5>1, <5>2 DEF Heard, Rising
        <5>3. CASE j = Len(tui) + 1
          BY <2>4, <3>2, <5>1, <5>3
        <5> QED BY <2>4, <5>2, <5>3
      <4> QED BY <4>1 DEF Rising
    <3>4. \A k \in 1..Len(Pending') : Head(msg).at < Pending'[k].at
      <4>1. ASSUME NEW k \in 1..Len(Pending') PROVE Pending[1].at < Pending[k + 1].at
        <5>1. k + 1 \in 1..Len(Pending) /\ 1 < k + 1
          BY <1>5
        <5> QED BY <1>1, <2>2, <5>1 DEF Heard, Rising
      <4> QED BY <1>3, <1>5, <4>1
    <3>5. \A i \in 1..Len(tui), k \in 1..Len(Pending') : tui[i].at < Pending'[k].at
      BY <1>1, <1>5, <2>3 DEF Heard
    <3>6. \A i \in 1..Len(tui'), k \in 1..Len(Pending') : tui'[i].at < Pending'[k].at
      <4>1. \A i \in 1..Len(tui') : i \in 1..Len(tui) \/ i = Len(tui) + 1
        BY <2>4
      <4> QED BY <2>4, <3>4, <3>5, <4>1
    <3> QED BY <1>6, <3>1, <3>3, <3>6 DEF Heard
  <2> QED BY <1>7, <1>8, <2>3, <2>5, <2>6, <2>7 DEF CoInv
<1> QED BY <1>9, <1>10

-----------------------------------------------------------------------------
(* The theorems *)

\* The registration of the simulation establishes the invariant.
LEMMA CoInitOK == CoInit => CoInv
<1> SUFFICES ASSUME CoInit PROVE CoInv
  OBVIOUS
<1>1. Created \in Event
  BY TuiAssumption, ClientsAssumption DEF Created, Event, EventKinds
<1>2. /\ log = <<Created>> /\ inst = <<Created>> /\ tui = <<Created>>
      /\ chan = [s \in Subs |-> <<>>]
      /\ \A c \in Clients : /\ pc[c] = "idle" /\ eng[c] = <<>> /\ todo[c] = <<>>
                            /\ base[c] = 0 /\ ~Holding(c)
      /\ work = <<>> /\ workTodo = <<>> /\ msg = <<>>
      /\ readOnly = FALSE /\ paused = TRUE
  BY DEF CoInit, Holding
<1>3. TypeOK
  <2>1. /\ <<>> \in Seq(Event) /\ <<>> \in Seq(EventKinds) /\ {1} \in SUBSET Nat
        /\ <<Created>> \in Seq(Event)
        /\ "create" \in Requests /\ "none" \in Responses
    BY <1>1 DEF Requests, Responses
  <2> QED BY <2>1 DEF CoInit, TypeOK, StoreTypeOK
<1>4. CoTypeOK
  <2>1. <<>> \in Seq(Event) /\ <<>> \in Seq(EventKinds) /\ Len(<<>>) = 0
    OBVIOUS
  <2>2. <<Created>> \in Seq(Event)
    BY <1>1
  <2>3. Len(msg) <= 1
    BY <1>2, <2>1
  <2>4. readOnly \in BOOLEAN /\ paused \in BOOLEAN
    BY <1>2
  <2>5. /\ tui \in Seq(Event) /\ work \in Seq(Event)
        /\ workTodo \in Seq(EventKinds) /\ msg \in Seq(Event)
    BY <1>2, <2>1, <2>2, Zenon
  <2> QED BY <1>3, <2>3, <2>4, <2>5 DEF CoTypeOK
<1>5. Inv
  BY <1>2, <1>3 DEF Inv, Stamped, PhaseOK, EnginesArePrefixes, Extends, HolderAhead, Created
<1>6. TuiAlone /\ Loop /\ Alone
  BY <1>2 DEF TuiAlone, Loop, Alone, Busy, Extends
<1>7. Heard
  <2>1. chan[Tui] = <<>>
    BY <1>2, TuiAssumption
  <2>2. Pending = <<>>
    BY <1>2, <2>1 DEF Pending
  <2> QED BY <1>2, <2>2 DEF Heard, InStream, Rising
<1> QED BY <1>2, <1>4, <1>5, <1>6, <1>7 DEF CoInv

\* Every step keeps the invariant.
LEMMA CoStepKeeps == CoInv /\ [CoNext]_coVars => CoInv'
<1> SUFFICES ASSUME CoInv, [CoNext]_coVars PROVE CoInv'
  OBVIOUS
<1>1. CASE Next /\ UNCHANGED tuiVars
  BY <1>1, ApiKeeps
<1>2. CASE TuiNext
  BY <1>2, TuiEmitKeeps, QuietTuiKeeps, HandleKeeps DEF TuiNext
<1>3. CASE UNCHANGED coVars
  <2>1. UNCHANGED <<log, chan, inst, pc, req, eng, todo, tries, resp, base, acked, ends, setBack,
                    tui, work, workTodo, msg, readOnly, paused>>
    BY <1>3 DEF coVars, vars, tuiVars
  <2>2. Inv' /\ CoTypeOK'
    BY <2>1 DEF CoInv, CoTypeOK, Inv, TypeOK, StoreTypeOK, Stamped, PhaseOK,
                EnginesArePrefixes, HolderAhead, Holding
  <2>3. Loop' /\ Alone' /\ Heard'
    BY <2>1 DEF CoInv, Loop, Alone, Heard, Busy, TuiAlone, ApiAlone, ByTui, Holding,
                Pending, InStream, Rising
  <2> QED BY <2>1, <2>2, <2>3 DEF CoInv, TuiAlone, ApiAlone, ByTui
<1> QED BY <1>1, <1>2, <1>3 DEF CoNext

\* The invariant holds in every run of the interface beside the API.
THEOREM CoInvariance == CoSpec => []CoInv
<1> QED BY CoInitOK, CoStepKeeps, PTL DEF CoSpec

\* After the creation either the interface or the API writes, never both: the
\* version check of the store stops the one that reads late, and the interface
\* keeps an engine that has already fallen behind (UC10's single writer).
THEOREM OnlyOneWrites == CoSpec => []SingleWriter
<1>1. CoInv => SingleWriter
  <2>1. ASSUME CoInv, NEW i \in 2..Len(log), NEW j \in 2..Len(log)
        PROVE  ByTui(i) = ByTui(j)
    <3>1. (ByTui(i) /\ ByTui(j)) \/ (~ByTui(i) /\ ~ByTui(j))
      BY <2>1, Zenon DEF CoInv, TuiAlone, ApiAlone
    <3> QED BY <3>1, SMT DEF ByTui
  <2> QED BY <2>1 DEF SingleWriter
<1> QED BY <1>1, CoInvariance, PTL

\* The interface applies events of the stream, in its order and each at most
\* once, whatever the subscription loses.
THEOREM AppliedInOrder == CoSpec => []TuiInOrder
<1>1. CoInv => TuiInOrder
  BY DEF CoInv, Heard, InStream, Rising, TuiInOrder
<1> QED BY <1>1, CoInvariance, PTL

\* A read-only badge seen is a badge earned: the API did write.
THEOREM BadgeIsEarned == CoSpec => []ReadOnlyHasCause
<1>1. CoInv => ReadOnlyHasCause
  BY DEF CoInv, Alone, TuiAlone, ReadOnlyHasCause
<1> QED BY <1>1, CoInvariance, PTL

\* A read-only interface appends nothing, not even the rest of an operation
\* that was under way when it became so: there is none.
THEOREM BadgeIsObeyed == CoSpec => ReadOnlyIsComplete
<1>1. ASSUME CoInv, [CoNext]_coVars, readOnly, log' # log
      PROVE  log'[Len(log')].by # Tui
  <2>1. log \in Seq(Event) /\ Loop /\ Inv
    BY <1>1 DEF CoInv, CoTypeOK, TypeOK, StoreTypeOK
  <2>2. CASE TuiNext
    <3>1. ~TuiEmit
      BY <1>1, <2>1 DEF Loop, TuiEmit
    <3>2. log' = log
      BY <2>2, <3>1 DEF TuiNext, TogglePause, TuiConflict, Take, Receive, HandleOwn,
                        HandleExternal, Act, vars
    <3> QED BY <1>1, <3>2
  <2>3. CASE Next /\ UNCHANGED tuiVars
    <3>1. PICK c \in Clients : \E e \in Event : e.by = c /\ log' = Append(log, e)
      BY <1>1, <2>1, <2>3, ApiAppends
    <3>2. PICK e \in Event : e.by = c /\ log' = Append(log, e)
      BY <3>1
    <3>3. log'[Len(log')] = e
      BY <2>1, <3>2
    <3> QED BY <3>2, <3>3, TuiAssumption
  <2>4. CASE UNCHANGED coVars
    BY <1>1, <2>4 DEF coVars, vars
  <2> QED BY <1>1, <2>2, <2>3, <2>4 DEF CoNext
<1>2. CoInv /\ [CoNext]_coVars => [readOnly /\ log' # log => log'[Len(log')].by # Tui]_log
  BY <1>1
<1> QED BY <1>2, CoInvariance, PTL DEF CoSpec, ReadOnlyIsComplete
=============================================================================
