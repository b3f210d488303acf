----------------------------- MODULE CoTenancy -----------------------------
(***************************************************************************)
(* The terminal interface and the REST API on one simulation               *)
(* (tui/app.go in engine mode, api/handlers.go).  The terminal interface   *)
(* registers the simulation and then keeps an engine of its own: it        *)
(* follows the stream through a subscription, appends to the stream with   *)
(* that engine, and never writes it back to the registry.  Its Update      *)
(* handles one message at a time; API requests run meanwhile.              *)
(***************************************************************************)
EXTENDS SharedSim

CONSTANTS Tui

ASSUME TuiAssumption == Tui \in Writers \ Clients /\ Subs = {Tui}

VARIABLES
  tui,        \* projection of a.mode's engine
  work,       \* projection of the engine of the operation in progress
  workTodo,   \* event kinds that operation has still to emit
  msg,        \* the event the listener took from the channel, if any
  readOnly,   \* coTenantWriteObserved
  paused

tuiVars == <<tui, work, workTodo, msg, readOnly, paused>>
coVars == <<vars, tuiVars>>

CoTypeOK ==
  /\ TypeOK
  /\ tui \in Seq(Event) /\ work \in Seq(Event)
  /\ workTodo \in Seq(EventKinds)
  /\ msg \in Seq(Event) /\ Len(msg) <= 1
  /\ readOnly \in BOOLEAN /\ paused \in BOOLEAN

Created == [kind |-> "SimulationCreated", by |-> Tui, at |-> 0]

\* NewAppWithRegistry: emit the simulation, register the engine, subscribe.
CoInit ==
  /\ log = <<Created>> /\ inst = <<Created>> /\ tui = <<Created>>
  /\ chan = [s \in Subs |-> <<>>]
  /\ pc = [c \in Clients |-> "idle"]
  /\ req = [c \in Clients |-> "create"]
  /\ eng = [c \in Clients |-> <<>>]
  /\ todo = [c \in Clients |-> <<>>]
  /\ tries = [c \in Clients |-> 0]
  /\ resp = [c \in Clients |-> "none"]
  /\ base = [c \in Clients |-> 0]
  /\ acked = 0 /\ ends = {1} /\ setBack = FALSE
  /\ work = <<>> /\ workTodo = <<>> /\ msg = <<>>
  /\ readOnly = FALSE /\ paused = TRUE

-----------------------------------------------------------------------------
(* The event loop *)

Busy == workTodo # <<>>

\* The space bar; and the auto-tick, which asks for no sprint, runs on it.
TogglePause ==
  /\ ~Busy
  /\ paused' = ~paused
  /\ UNCHANGED <<vars, tui, work, workTodo, msg, readOnly>>

\* What each key, and the auto-tick, asks of the state before it acts.
Accepts(r) ==
  CASE r = "tick"   -> ~paused
    [] r = "start"  -> ~SprintActive(tui)
    [] r = "invest" -> WindowOpen(tui)
    [] OTHER        -> TRUE

Writes == {"tick", "start", "invest", "policy", "assign", "decompose"}

\* Mutation: a handler without the read-only gate.
ActUngated(r) ==
  /\ ~Busy
  /\ Accepts(r)
  /\ Len(log) < MaxLog
  /\ \E b \in Blocks(r, tui) : workTodo' = b
  /\ work' = tui
  /\ UNCHANGED <<vars, tui, msg, readOnly, paused>>

\* A key or a tickMsg starts an operation on a copy of the engine; the
\* read-only gate stands at the top of every handler.
Act(r) ==
  /\ ~Busy
  /\ ~readOnly
  /\ Accepts(r)
  /\ Len(log) < MaxLog
  /\ \E b \in Blocks(r, tui) : workTodo' = b
  /\ work' = tui
  /\ UNCHANGED <<vars, tui, msg, readOnly, paused>>

\* Mutation: the handler does not keep the engine the operation returns.
TuiEmitForgets ==
  /\ Busy
  /\ LET e == [kind |-> Head(workTodo), by |-> Tui, at |-> Len(work)]
     IN /\ StoreAppend(Version(work), e)
        /\ work' = IF Tail(workTodo) = <<>> THEN <<>> ELSE Apply(work, e)
  /\ workTodo' = Tail(workTodo)
  /\ UNCHANGED <<inst, reqVars, pastVars, tui, msg, readOnly, paused>>

\* The operation's next emit.  After the last one the handler keeps the new
\* engine; a start unpauses, and a tick pauses unless a sprint is still on.
TuiEmit ==
  /\ Busy
  /\ LET e == [kind |-> Head(workTodo), by |-> Tui, at |-> Len(work)]
         grown == Apply(work, e)
         done == Tail(workTodo) = <<>>
         operation == grown[Len(tui) + 1].kind
     IN /\ StoreAppend(Version(work), e)
        /\ workTodo' = Tail(workTodo)
        /\ \/ ~done /\ work' = grown /\ UNCHANGED <<tui, paused>>
           \/ /\ done /\ work' = <<>> /\ tui' = grown
              /\ paused' = CASE operation = "SprintStarted" -> FALSE
                             [] operation = "Ticked" -> ~SprintActive(grown)
                             [] OTHER -> paused
  /\ UNCHANGED <<inst, reqVars, pastVars, msg, readOnly>>

\* On a conflict the handler keeps the engine it had before the operation.
TuiConflict ==
  /\ Busy
  /\ ~CanAppend(Version(work))
  /\ work' = <<>> /\ workTodo' = <<>>
  /\ UNCHANGED <<vars, tui, msg, readOnly, paused>>

\* Mutation: the listener does not wait for its event to be handled.
TakeEagerly ==
  /\ Receive(Tui)
  /\ msg' = Append(msg, Head(chan[Tui]))
  /\ UNCHANGED <<inst, reqVars, pastVars, tui, work, workTodo, readOnly, paused>>

\* The listener goroutine takes one event; it is started again only when that
\* event has been handled.
Take ==
  /\ msg = <<>>
  /\ Receive(Tui)
  /\ msg' = <<Head(chan[Tui])>>
  /\ UNCHANGED <<inst, reqVars, pastVars, tui, work, workTodo, readOnly, paused>>

\* An event the engine has applied is the interface's own.
HandleOwn ==
  /\ ~Busy /\ msg # <<>>
  /\ HasProcessed(tui, Head(msg))
  /\ msg' = <<>>
  /\ UNCHANGED <<vars, tui, work, workTodo, readOnly, paused>>

\* Any other is another writer's: follow it and stop writing for good.
HandleExternal ==
  /\ ~Busy /\ msg # <<>>
  /\ ~HasProcessed(tui, Head(msg))
  /\ tui' = Apply(tui, Head(msg))
  /\ readOnly' = TRUE
  /\ paused' = (paused \/ Head(msg).kind \in {"SprintStarted", "SprintEnded"})
  /\ msg' = <<>>
  /\ UNCHANGED <<vars, work, workTodo>>

TuiNext == \/ TogglePause \/ TuiEmit \/ TuiConflict
           \/ Take \/ HandleOwn \/ HandleExternal
           \/ \E r \in Writes \cap Issued : Act(r)

CoNext == TuiNext \/ (Next /\ UNCHANGED tuiVars)

CoSpec == CoInit /\ [][CoNext]_coVars

\* The event loop, the listener and the requests in progress keep running.
\* Senders to the loop's channel wait in line, so keys cannot keep an event
\* out for ever: handling is strongly fair.
CoFairSpec ==
  /\ CoSpec
  /\ WF_coVars(TuiEmit \/ TuiConflict)
  /\ WF_coVars(Take)
  /\ SF_coVars(HandleOwn \/ HandleExternal)
  /\ \A c \in Clients : WF_coVars(Step(c) /\ UNCHANGED tuiVars)

-----------------------------------------------------------------------------
(* Safety *)

ByTui(i) == log[i].by = Tui

\* Whoever appends first after creation is the only writer ever: the version
\* check and the read-only gate together give UC10's single-writer principle.
SingleWriter ==
  \A i, j \in 2..Len(log) : ByTui(i) = ByTui(j)

\* The interface never takes an event of its own for another writer's, so it
\* turns read-only only if the API did write; an operation cut short would
\* leave events in the stream that the interface does not know as its own.
ReadOnlyHasCause ==
  readOnly => \E i \in 2..Len(log) : ~ByTui(i)

\* While the badge shows, the interface appends nothing: not even the rest of
\* an operation that had begun.
ReadOnlyIsComplete ==
  [][readOnly /\ log' # log => log'[Len(log')].by # Tui]_log

\* The interface applies each event once and in order, whatever is lost.
TuiInOrder ==
  /\ \A i \in 1..Len(tui) : \E j \in 1..Len(log) : tui[i] = log[j]
  /\ \A i, j \in 1..Len(tui) : i < j => tui[i].at < tui[j].at

\* While no event is lost, the interface either leads the stream or lacks
\* exactly what is in its hands and in the channel.
TuiFollows == ~Busy => tui = log \/ tui \o msg \o chan[Tui] = log

\* The writer, API or interface, updates the registry for later lookups.
RegistryFollowsWriter ==
  ~Busy /\ (\A c \in Clients : ~Holding(c)) => inst = log

-----------------------------------------------------------------------------
(* Liveness, under CoFairSpec *)

\* Every event reaches the interface.
TuiCatchesUp == \A n \in 1..MaxLog : Len(log) >= n ~> Len(tui) >= n
=============================================================================
