----------------------------- MODULE SharedSim -----------------------------
(***************************************************************************)
(* One simulation behind the REST API: the registry's instance             *)
(* (registry/registry.go) and the handlers that read it, run an engine on  *)
(* their own copy, emit its events to the shared store under optimistic    *)
(* concurrency, and write the copy back (api/handlers.go).  Every request  *)
(* is a goroutine; the registry lock and the store lock are taken and      *)
(* released separately, so the read, each emit and the write of different  *)
(* requests interleave.                                                    *)
(***************************************************************************)
EXTENDS EventStore, Commands

CONSTANTS
  Clients,      \* concurrent API requests
  Issued,       \* the kinds of request they issue
  MaxLog        \* bound: no request starts on a longer log (model only)

ASSUME ClientsAssumption ==
  /\ Clients \subseteq Writers /\ EventKinds \subseteq Kinds
  /\ Issued \subseteq Requests /\ MaxLog \in Nat

VARIABLES
  inst,    \* projection of the registry's engine; <<>> when not registered
  pc,      \* where each request is
  req,     \* its kind
  eng,     \* projection of its own copy of the engine
  todo,    \* event kinds its operation has still to emit
  tries,   \* attempts that ended in a conflict
  resp,    \* its answer
  base,    \* history: version of the instance it read in this attempt
  acked,   \* history: number of tick requests answered 200
  ends,    \* history: versions at which the operations written back ended
  setBack  \* history: the last engine written back over a newer one, with
           \* no operation of an event written back since

reqVars == <<pc, req, eng, todo, tries, resp, base>>
pastVars == <<acked, ends, setBack>>
vars == <<log, chan, inst, pc, req, eng, todo, tries, resp, base,
          acked, ends, setBack>>

Responses == {"none", "ok", "notfound", "refused", "conflict", "exists",
              "error"}

TypeOK ==
  /\ StoreTypeOK
  /\ inst \in Seq(Event)
  /\ pc \in [Clients -> {"idle", "read", "emit", "set"}]
  /\ req \in [Clients -> Requests]
  /\ eng \in [Clients -> Seq(Event)]
  /\ todo \in [Clients -> Seq(EventKinds)]
  /\ tries \in [Clients -> Nat]
  /\ resp \in [Clients -> Responses]
  /\ base \in [Clients -> Nat]
  /\ acked \in Nat
  /\ ends \in SUBSET Nat /\ setBack \in BOOLEAN

Init ==
  /\ StoreInit
  /\ inst = <<>>
  /\ pc = [c \in Clients |-> "idle"]
  /\ req = [c \in Clients |-> "create"]
  /\ eng = [c \in Clients |-> <<>>]
  /\ todo = [c \in Clients |-> <<>>]
  /\ tries = [c \in Clients |-> 0]
  /\ resp = [c \in Clients |-> "none"]
  /\ base = [c \in Clients |-> 0]
  /\ acked = 0 /\ ends = {0} /\ setBack = FALSE

-----------------------------------------------------------------------------

\* maxRetries of the looping handlers; assign, invest and create try once.
MaxTries(r) == IF r \in {"start", "tick", "policy", "decompose"} THEN 3 ELSE 1

\* What a request answers when its last attempt met a conflict: 409, the 400
\* assign gives every engine error, or the unmapped error that becomes a 500.
ConflictAnswer(r) ==
  CASE r = "assign" -> "refused"
    [] r \in {"create", "invest"} -> "error"
    [] OTHER -> "conflict"

\* The request is answered; its goroutine is gone and keeps no state.
Answer(c, a) ==
  /\ pc' = [pc EXCEPT ![c] = "idle"]
  /\ resp' = [resp EXCEPT ![c] = a]
  /\ eng' = [eng EXCEPT ![c] = <<>>]
  /\ todo' = [todo EXCEPT ![c] = <<>>]
  /\ tries' = [tries EXCEPT ![c] = 0]
  /\ base' = [base EXCEPT ![c] = 0]
  /\ UNCHANGED req

Begin(c, r) ==
  /\ pc[c] = "idle"
  /\ Len(log) < MaxLog \/ r = "create"
  /\ pc' = [pc EXCEPT ![c] = "read"]
  /\ req' = [req EXCEPT ![c] = r]
  /\ resp' = [resp EXCEPT ![c] = "none"]
  /\ UNCHANGED <<log, chan, inst, eng, todo, tries, base, pastVars>>

\* The handler copies the instance and starts an operation with block b.
\* An empty block is an operation that emits nothing.
Start(c, h, b) ==
  /\ eng' = [eng EXCEPT ![c] = h]
  /\ base' = [base EXCEPT ![c] = Len(h)]
  /\ todo' = [todo EXCEPT ![c] = b]
  /\ pc' = [pc EXCEPT ![c] = IF b = <<>> THEN "set" ELSE "emit"]
  /\ UNCHANGED <<req, tries, resp>>

\* AssignTicket refuses an unknown ticket or developer and a busy developer.
AssignRefused(c) ==
  inst # <<>> /\ req[c] = "assign" /\ Answer(c, "refused")

\* TryDecompose finds nothing to decompose (an unknown ticket, or a policy that
\* does not split it): no event, and no error either.
NothingToDecompose(c) ==
  inst # <<>> /\ req[c] = "decompose" /\ Start(c, inst, <<>>)

\* GetInstanceOption, then the handler's own check of the state it read.
Read(c) ==
  /\ pc[c] = "read" /\ req[c] \notin {"create", "invest"}
  /\ UNCHANGED <<log, chan, inst, pastVars>>
  /\ \/ inst = <<>> /\ Answer(c, "notfound")
     \/ inst # <<>> /\ ~Allowed(req[c], inst) /\ Answer(c, "refused")
     \/ Allowed(req[c], inst) /\ \E b \in Blocks(req[c], inst) : Start(c, inst, b)
     \/ AssignRefused(c)
     \/ NothingToDecompose(c)

\* CreateSimulation checks for the ID under the read lock, then builds a new
\* engine, whose projection is empty.
ReadCreate(c) ==
  /\ pc[c] = "read" /\ req[c] = "create"
  /\ UNCHANGED <<log, chan, inst, pastVars>>
  /\ \/ inst # <<>> /\ Answer(c, "exists")
     \/ inst = <<>> /\ \E b \in Blocks("create", <<>>) : Start(c, <<>>, b)

\* Mutation: positions counted from before the first event.
NextEventTooEarly(c) ==
  [kind |-> Head(todo[c]), by |-> c, at |-> Len(eng[c]) - 1]

NextEvent(c) == [kind |-> Head(todo[c]), by |-> c, at |-> Len(eng[c])]

\* Engine.emit: apply to the copy and append at the copy's version.
Emit(c) ==
  /\ pc[c] = "emit"
  /\ StoreAppend(Version(eng[c]), NextEvent(c))
  /\ eng' = [eng EXCEPT ![c] = Apply(@, NextEvent(c))]
  /\ todo' = [todo EXCEPT ![c] = Tail(@)]
  /\ pc' = [pc EXCEPT ![c] = IF Tail(todo[c]) = <<>> THEN "set" ELSE "emit"]
  /\ UNCHANGED <<inst, req, tries, resp, base, pastVars>>

\* Mutation: the loop does not count its attempts.
AgainUncounted(c) ==
  /\ pc' = [pc EXCEPT ![c] = "read"]
  /\ eng' = [eng EXCEPT ![c] = <<>>]
  /\ todo' = [todo EXCEPT ![c] = <<>>]
  /\ base' = [base EXCEPT ![c] = 0]
  /\ UNCHANGED <<req, resp, tries>>

\* The handler loops: it drops its copy and reads again.
Again(c) ==
  /\ pc' = [pc EXCEPT ![c] = "read"]
  /\ tries' = [tries EXCEPT ![c] = @ + 1]
  /\ eng' = [eng EXCEPT ![c] = <<>>]
  /\ todo' = [todo EXCEPT ![c] = <<>>]
  /\ base' = [base EXCEPT ![c] = 0]
  /\ UNCHANGED <<req, resp>>

\* Mutation: the error of an emit is dropped and the handler goes on.
EmitConflictIgnored(c) ==
  /\ pc[c] = "emit"
  /\ ~CanAppend(Version(eng[c]))
  /\ pc' = [pc EXCEPT ![c] = "set"]
  /\ UNCHANGED <<log, chan, inst, pastVars, req, eng, todo, tries, resp, base>>

\* The store rejects the version.
EmitConflict(c) ==
  /\ pc[c] = "emit"
  /\ ~CanAppend(Version(eng[c]))
  /\ UNCHANGED <<log, chan, inst, pastVars>>
  /\ \/ tries[c] + 1 < MaxTries(req[c]) /\ Again(c)
     \/ /\ tries[c] + 1 >= MaxTries(req[c])
        /\ Answer(c, ConflictAnswer(req[c]))

-----------------------------------------------------------------------------

\* A request that has appended its first event and not yet written its engine
\* back: between the two the registry is behind the store.
Holding(c) == Len(eng[c]) > base[c]

\* What the history keeps of an engine written back at the end of an operation
\* that emitted something, and of one that emitted nothing.
Ended(h) == ends' = ends \cup {Len(h)} /\ setBack' = FALSE
Missed(h) == UNCHANGED ends /\ setBack' = (setBack \/ Len(h) < Len(inst))

\* Mutation: the new engine is kept in a shadowed variable and never stored.
SetInstanceShadowed(c) ==
  /\ pc[c] = "set" /\ req[c] # "create"
  /\ acked' = acked + (IF req[c] = "tick" THEN 1 ELSE 0)
  /\ Answer(c, "ok")
  /\ UNCHANGED <<log, chan, inst, ends, setBack>>

\* SetInstance overwrites whatever the registry holds, a newer engine too.
SetInstance(c) ==
  /\ pc[c] = "set" /\ req[c] # "create"
  /\ inst' = eng[c]
  /\ acked' = acked + (IF req[c] = "tick" THEN 1 ELSE 0)
  /\ IF Holding(c) THEN Ended(eng[c]) ELSE Missed(eng[c])
  /\ Answer(c, "ok")
  /\ UNCHANGED <<log, chan>>

\* The end of CreateSimulation, under the write lock.
Insert(c) ==
  /\ pc[c] = "set" /\ req[c] = "create"
  /\ \/ inst = <<>> /\ inst' = eng[c] /\ Ended(eng[c]) /\ Answer(c, "ok")
     \/ inst # <<>> /\ UNCHANGED <<inst, ends, setBack>> /\ Answer(c, "exists")
  /\ UNCHANGED <<log, chan, acked>>

\* SpendInvestment holds the registry lock from its read to its write.  An
\* allowed one may still be refused for want of budget.
Invest(c) ==
  /\ pc[c] = "read" /\ req[c] = "invest"
  /\ LET e == [kind |-> "InvestmentApplied", by |-> c, at |-> Len(inst)]
     IN \/ /\ inst = <<>> /\ Answer(c, "notfound")
           /\ UNCHANGED <<log, chan, inst, pastVars>>
        \/ /\ inst # <<>> /\ Answer(c, "refused")
           /\ UNCHANGED <<log, chan, inst, pastVars>>
        \/ /\ Allowed("invest", inst) /\ StoreAppend(Version(inst), e)
           /\ inst' = Apply(inst, e) /\ Ended(inst') /\ UNCHANGED acked
           /\ Answer(c, "ok")
        \/ /\ Allowed("invest", inst) /\ ~CanAppend(Version(inst))
           /\ Answer(c, ConflictAnswer("invest"))
           /\ UNCHANGED <<log, chan, inst, pastVars>>

Step(c) == \/ Read(c) \/ ReadCreate(c) \/ Emit(c) \/ EmitConflict(c)
           \/ SetInstance(c) \/ Insert(c) \/ Invest(c)

Next == \E c \in Clients : Step(c) \/ \E r \in Issued : Begin(c, r)

Spec == Init /\ [][Next]_vars

\* A goroutine that can run does; nobody is obliged to send a request.
FairSpec == Spec /\ \A c \in Clients : WF_vars(Step(c))

-----------------------------------------------------------------------------
(* Safety *)

\* No engine ever disagrees with the store about an event: the registry's and
\* every request's copy are initial parts of the stream (what the version
\* check of Store.Append is for).
EnginesArePrefixes ==
  /\ Extends(log, inst)
  /\ \A c \in Clients : Extends(log, eng[c])

\* At most one request is between its first append and its write-back, though
\* no lock covers that interval.
OneHolder == \A c, d \in Clients : Holding(c) /\ Holding(d) => c = d

\* Once the first event of an operation is in the store the rest follow: no
\* Tick or StartSprint meets a conflict half way, so the early returns after
\* the first emit never leave part of a block behind.
NeverHalfApplied ==
  \A c \in Clients : Holding(c) => eng[c] = log

\* When no request is holding, the registry's engine is the whole stream, but
\* for one thing: a request that emitted nothing has written an older engine
\* over a newer one.  Nothing else ever leaves the registry behind, where every
\* request that has an event to append would meet a conflict.
RegistryCurrent ==
  (\A c \in Clients : ~Holding(c)) /\ ~setBack => inst = log

\* The registry's engine is the stream itself (the comment on SetInstance, that
\* it stores the state after operations): what a missed decompose breaks.
RegistryIsStream == (\A c \in Clients : ~Holding(c)) => inst = log

\* Each tick answered 200 is in the stream exactly once, and no other tick is:
\* retries neither lose nor repeat one.
AckExactlyOnce ==
  Cardinality(Positions(log, "Ticked")) =
    acked + Cardinality({c \in Clients : req[c] = "tick" /\ Holding(c)})

\* The stream is one the commands allow: preconditions checked on a copy that
\* may be stale still hold where the events land.
StreamIsLegal ==
  \A i \in 1..Len(log) :
    LET before == SubSeq(log, 1, i - 1)
    IN CASE log[i].kind = "SimulationCreated" -> i = 1
         [] log[i].kind = "SprintStarted"     -> ~SprintActive(before)
         [] log[i].kind \in {"Ticked", "SprintEnded"} -> SprintActive(before)
         [] log[i].kind = "InvestmentApplied" -> WindowOpen(before)
         [] OTHER -> TRUE

\* Events carry their position, so a copy never takes a new event for one it
\* has processed.
Stamped == \A i \in 1..Len(log) : log[i].at = i - 1

\* What the program counter says of a request's own state.
PhaseOK ==
  \A c \in Clients :
    /\ pc[c] \in {"idle", "read"} => eng[c] = <<>> /\ base[c] = 0
    /\ pc[c] = "emit" => todo[c] # <<>>
    /\ base[c] <= Len(eng[c])

\* A holder has the newest engine; every other copy, the registry's included,
\* is strictly behind the store and so cannot append.
HolderAhead ==
  \A d \in Clients :
    Holding(d) => /\ eng[d] = log
                  /\ Len(inst) < Len(log)
                  /\ \A c \in Clients \ {d} : Len(eng[c]) < Len(log)

\* The inductive invariant behind the safety properties: optimistic versions
\* give mutual exclusion of the interval from first append to write-back.
Inv == TypeOK /\ Stamped /\ PhaseOK /\ EnginesArePrefixes /\ HolderAhead

\* Every engine that is read or written back is the stream as some operation
\* left it.  A holder read the latest of these, and the registry stands there
\* too unless it has been set back; whoever writes back without holding is a
\* decompose that missed.
Lockstep ==
  /\ ends \subseteq 0..Len(log) /\ Len(inst) \in ends
  /\ (\A c \in Clients : ~Holding(c)) => Len(log) \in ends
  /\ \A c \in Clients :
       /\ pc[c] \in {"emit", "set"} => base[c] \in ends
       /\ pc[c] \in {"emit", "set"} /\ req[c] = "create" => base[c] = 0
       /\ pc[c] = "set" /\ ~Holding(c) => req[c] = "decompose" /\ eng[c] # <<>>
       /\ Holding(c) => /\ \A m \in ends : m <= base[c]
                        /\ ~setBack => Len(inst) = base[c]

\* The second look of CreateSimulation, under the write lock, never finds the
\* simulation there: a creation that loses the race has met a conflict in the
\* store before it gets that far.
DoubleCheckIdle ==
  \A c \in Clients : pc[c] = "set" /\ req[c] = "create" => inst = <<>>

\* A reader of the registry sees a simulation go back only to the engine that a
\* decompose which found nothing had read.
OnlyMissesSetBack ==
  [][\/ Extends(inst', inst)
     \/ \E c \in Clients : /\ pc[c] = "set" /\ req[c] = "decompose"
                           /\ ~Holding(c) /\ inst' = eng[c]]_inst

\* Only one creation succeeds, and the loser is told that the simulation
\* exists (the comment on CreateSimulation).
LosingCreateIsAlreadyExists ==
  \A c \in Clients : req[c] = "create" => resp[c] # "error"

-----------------------------------------------------------------------------
(* Liveness, under FairSpec *)

\* Every request is answered: the retry loops are bounded.
EveryRequestAnswered == \A c \in Clients : pc[c] # "idle" ~> pc[c] = "idle"

\* Lock-freedom: once a request has begun to emit from the end of the stream,
\* the registry moves on past it, by that request or by the one that made it
\* conflict, whatever older engines are written back meanwhile; retries cannot
\* starve everyone.
SomeoneSucceeds ==
  \A n \in 0..MaxLog :
    Len(log) = n /\ (\E c \in Clients : pc[c] = "emit" /\ Len(eng[c]) = n)
      ~> Len(inst) > n

-----------------------------------------------------------------------------
(* Refinement *)

\* The stream up to where the last operation written back ended.
Settled == CHOOSE n \in ends : \A m \in ends : m <= n

Atomic == INSTANCE AtomicSim WITH
  hist <- SubSeq(log, 1, Settled), shown <- inst, cuts <- ends,
  asked <- req, Answers <- Responses

\* Seen through the registry and the answers, every request that emits is
\* atomic: all of its block and "ok", or nothing and another answer.  One that
\* emits nothing shows readers the state some earlier operation left.
ImplementsAtomic == Atomic!Spec
=============================================================================
