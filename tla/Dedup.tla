------------------------------- MODULE Dedup -------------------------------
(***************************************************************************)
(* The request deduplication in front of the API (api/dedup.go).  POSTs    *)
(* that carry a request ID look their ID up, run the handler on a miss and *)
(* store its response; a background loop deletes entries past their time.  *)
(* The lock is held for the lookup, for the store and for a clean-up, but  *)
(* not in between.  The specification carries the module's name, so that   *)
(* ClientMode_proofs can extend it beside the client it serves.            *)
(***************************************************************************)
EXTENDS Naturals

CONSTANTS
  Sends,    \* requests sent, retries included
  Ids,      \* values of X-Request-ID
  TTL,      \* lifetime of an entry
  MaxNow    \* bound on the clock (model only)

ASSUME DedupAssumption == TTL \in Nat \ {0} /\ MaxNow \in Nat

VARIABLES
  now,      \* the clock
  cache,    \* the entries: [id, from, expires], from the send that ran
  pc,       \* where each request is
  id,       \* its request ID
  hit,      \* the entry its lookup found, if any
  answer,   \* the send whose response it was given, itself if it ran
  stored,   \* history: every entry ever stored
  seen      \* history: the entries stored before its lookup

dedupVars == <<now, cache, pc, id, hit, answer, stored, seen>>

Entry == [id: Ids, from: Sends, expires: 0..(MaxNow + TTL)]

DedupTypeOK ==
  /\ now \in 0..MaxNow
  /\ cache \subseteq Entry /\ stored \subseteq Entry
  /\ pc \in [Sends -> {"new", "decide", "run", "done"}]
  /\ id \in [Sends -> Ids]
  /\ hit \in [Sends -> SUBSET Entry] /\ seen \in [Sends -> SUBSET Entry]
  /\ answer \in [Sends -> SUBSET Sends]
  /\ \A s \in Sends : \A t, u \in answer[s] : t = u

DedupInit ==
  /\ now = 0 /\ cache = {} /\ stored = {}
  /\ pc = [s \in Sends |-> "new"]
  /\ id \in [Sends -> Ids]
  /\ hit = [s \in Sends |-> {}]
  /\ answer = [s \in Sends |-> {}]
  /\ seen = [s \in Sends |-> {}]

Of(i, entries) == {e \in entries : e.id = i}

\* The map lookup, under the read lock.
Lookup(s) ==
  /\ pc[s] = "new"
  /\ pc' = [pc EXCEPT ![s] = "decide"]
  /\ hit' = [hit EXCEPT ![s] = Of(id[s], cache)]
  /\ seen' = [seen EXCEPT ![s] = Of(id[s], stored)]
  /\ UNCHANGED <<now, cache, id, answer, stored>>

Fresh(e) == now < e.expires

\* The clock is read after the lock is released: answer from the entry found
\* while it is fresh, else run the handler.
Decide(s) ==
  /\ pc[s] = "decide"
  /\ \/ \E e \in hit[s] :
          /\ Fresh(e)
          /\ answer' = [answer EXCEPT ![s] = {e.from}]
          /\ pc' = [pc EXCEPT ![s] = "done"]
     \/ /\ \A e \in hit[s] : ~Fresh(e)
        /\ pc' = [pc EXCEPT ![s] = "run"]
        /\ UNCHANGED answer
  /\ UNCHANGED <<now, cache, id, hit, stored, seen>>

\* Mutation: an entry that is there is kept.
StoreFirst(s) ==
  /\ pc[s] = "run"
  /\ LET e == [id |-> id[s], from |-> s, expires |-> now + TTL]
     IN /\ cache' = IF Of(id[s], cache) = {} THEN cache \union {e} ELSE cache
        /\ stored' = stored \union {e}
  /\ answer' = [answer EXCEPT ![s] = {s}]
  /\ pc' = [pc EXCEPT ![s] = "done"]
  /\ UNCHANGED <<now, id, hit, seen>>

\* Mutation: an entry lives one instant too long.
StoreLonger(s) ==
  /\ pc[s] = "run"
  /\ LET e == [id |-> id[s], from |-> s, expires |-> now + TTL + 1]
     IN /\ cache' = (cache \ Of(id[s], cache)) \union {e}
        /\ stored' = stored \union {e}
  /\ answer' = [answer EXCEPT ![s] = {s}]
  /\ pc' = [pc EXCEPT ![s] = "done"]
  /\ UNCHANGED <<now, id, hit, seen>>

\* The handler has answered; its response replaces whatever entry is there.
Store(s) ==
  /\ pc[s] = "run"
  /\ LET e == [id |-> id[s], from |-> s, expires |-> now + TTL]
     IN /\ cache' = (cache \ Of(id[s], cache)) \union {e}
        /\ stored' = stored \union {e}
  /\ answer' = [answer EXCEPT ![s] = {s}]
  /\ pc' = [pc EXCEPT ![s] = "done"]
  /\ UNCHANGED <<now, id, hit, seen>>

\* Mutation: entries expire one instant early.
ExpiredEarly(e) == now + 1 >= e.expires

Expired(e) == now > e.expires

\* Mutation: the loop deletes the wrong entries.
CleanUpFresh ==
  /\ \E e \in cache : Expired(e)
  /\ cache' = {e \in cache : Expired(e)}
  /\ UNCHANGED <<now, pc, id, hit, answer, stored, seen>>

CleanUp ==
  /\ \E e \in cache : Expired(e)
  /\ cache' = {e \in cache : ~Expired(e)}
  /\ UNCHANGED <<now, pc, id, hit, answer, stored, seen>>

Pass ==
  /\ now < MaxNow
  /\ now' = now + 1
  /\ UNCHANGED <<cache, pc, id, hit, answer, stored, seen>>

DedupNext == \/ \E s \in Sends : Lookup(s) \/ Decide(s) \/ Store(s)
        \/ CleanUp \/ Pass

DedupSpec == DedupInit /\ [][DedupNext]_dedupVars

\* The clean-up goroutine runs every minute for the life of the server, and
\* the clock runs.
DedupFairSpec == DedupSpec /\ WF_dedupVars(CleanUp) /\ WF_dedupVars(Pass)

-----------------------------------------------------------------------------
(* Properties *)

\* A duplicate never runs the handler while a response of its ID that was
\* stored before its lookup is still fresh, whatever was overwritten or
\* cleaned up meanwhile.
NoSequentialRerun ==
  [][\A s \in Sends :
       pc[s] = "decide" /\ pc'[s] = "run" => \A e \in seen[s] : ~Fresh(e)]_dedupVars

\* A cached answer is the newest one stored before the lookup: a client that
\* retries one request after another is not given an older response.
AnswerIsNewest ==
  \A s \in Sends : \A t \in answer[s] \ {s} :
    \E e \in seen[s] : e.from = t /\ \A d \in seen[s] : d.expires <= e.expires

\* No entry outlives its time by more than a round of the clean-up.
CacheIsCleaned ==
  \A i \in Ids : (\E e \in Of(i, cache) : Expired(e))
                   ~> (\A e \in Of(i, cache) : ~Expired(e))

\* "Duplicate requests with same ID return cached response without
\* re-execution": two requests of one ID are never in the handler together.
NeverRunTogether ==
  \A s, t \in Sends :
    s # t /\ id[s] = id[t] => ~(pc[s] = "run" /\ pc[t] = "run")
=============================================================================
