----------------------------- MODULE EventStore -----------------------------
(***************************************************************************)
(* The in-memory event store of one simulation (events/store.go) and the   *)
(* projection every reader keeps of it (events/projection.go).             *)
(*                                                                         *)
(* The store is the log of one simulation's stream: MemoryStore.mu makes   *)
(* each operation atomic, so each is one action.  An event is its kind,    *)
(* who emitted it and at which version; the last two stand for EventID,    *)
(* which a global counter makes unique.  A projection is the sequence of   *)
(* events it has applied: its version is the length and its processed set  *)
(* the range, and every field of the simulation is a function of it.       *)
(***************************************************************************)
EXTENDS Naturals, Sequences

CONSTANTS
  Writers,   \* whoever emits events: API requests, the terminal interface
  Kinds,     \* kinds of event
  Subs,      \* subscribers of the stream
  ChanCap    \* capacity of a subscriber's channel (100 in the code)

ASSUME ChanCapAssumption == ChanCap \in Nat \ {0}

VARIABLES
  log,   \* the stream: every event appended so far
  chan   \* chan[s]: the events waiting in the channel of subscriber s

storeVars == <<log, chan>>

Event == [kind: Kinds, by: Writers, at: Nat]

StoreTypeOK ==
  /\ log \in Seq(Event)
  /\ chan \in [Subs -> Seq(Event)]

StoreInit ==
  /\ log = <<>>
  /\ chan = [s \in Subs |-> <<>>]

-----------------------------------------------------------------------------
(* Projections *)

Version(h) == Len(h)

\* Mutation: the processed set is never filled.
NothingProcessed(h, e) == FALSE

HasProcessed(h, e) == \E i \in 1..Len(h) : h[i] = e

\* Projection.Apply: an event already processed leaves the projection as it is.
Apply(h, e) == IF HasProcessed(h, e) THEN h ELSE Append(h, e)

-----------------------------------------------------------------------------
(* Store operations *)

\* Mutation: a channel without a buffer.
OfferWhenEmpty(buf, e) == IF buf = <<>> THEN <<e>> ELSE buf

\* A send never blocks the writer: a full channel loses the event.
Offer(buf, e) == IF Len(buf) < ChanCap THEN Append(buf, e) ELSE buf

\* Mutation: any version up to the present one is accepted.
CanAppendStale(expected) == expected <= Len(log)

CanAppend(expected) == expected = Len(log)

\* Store.Append once its version check has passed.
StoreAppend(expected, e) ==
  /\ CanAppend(expected)
  /\ log' = Append(log, e)
  /\ chan' = [s \in Subs |-> Offer(chan[s], e)]

\* A subscriber takes the next event from its channel.
Receive(s) ==
  /\ chan[s] # <<>>
  /\ chan' = [chan EXCEPT ![s] = Tail(@)]
  /\ UNCHANGED log

-----------------------------------------------------------------------------
(* Whether sequence h is an initial part of sequence g. *)
Extends(g, h) == Len(h) <= Len(g) /\ \A i \in 1..Len(h) : h[i] = g[i]
=============================================================================
