-------------------------- MODULE ClientMode_proofs -------------------------
(***************************************************************************)
(* Theorems about ClientMode, for any number of outstanding requests, any  *)
(* sprint length and any number of changes; and about the deduplication    *)
(* that its requests pass through (Dedup), for any requests, identifiers   *)
(* and lifetime, however lookups, handlers, stores and clean-ups           *)
(* interleave.                                                             *)
(***************************************************************************)
EXTENDS ClientMode, Dedup, TLAPS

\* Requests that follow one another are awaited one at a time.
OneAwaited ==
  ~overlapped => \A c, d \in Calls : Awaited(c) /\ Awaited(d) => c = d

\* Only who gives up leaves a request behind.
NoneAbandoned == ~gaveUp => \A c \in Calls : call[c].at # "abandoned"

\* The screen is never ahead of the server, and an answer on its way lies
\* between the two.
ShownIsPast ==
  /\ shown.changes <= server.changes
  /\ \A c \in Calls : call[c].at = "answered" => call[c].state.changes <= server.changes
  /\ ~overlapped => \A c \in Calls : call[c].at = "answered" =>
                      shown.changes <= call[c].state.changes

\* How far the one request of a calm client has come: the screen shows the
\* server's state until the request is executed, and its answer does after.
Follows(c) ==
  /\ call[c].at = "sent" => shown = server
  /\ call[c].at = "assigned" =>
       call[c].op = "assign" /\ call[c].ok /\ shown.left = server.left
  /\ call[c].at = "answered" /\ ~call[c].ok => shown = server
  /\ call[c].at = "answered" /\ call[c].ok =>
       /\ call[c].state = server
       /\ call[c].op = "sprint" \/ server.left <= shown.left

\* What is kept of a calm client.
InStep ==
  Calm => /\ \A c \in Calls : Follows(c)
          /\ Quiet => shown = server
          /\ paused => shown.left = 0

IInv == TypeOK /\ OneAwaited /\ NoneAbandoned /\ ShownIsPast /\ InStep

-----------------------------------------------------------------------------
(* Lemmas about the operators of the model *)

\* What the server makes of a request.
LEMMA ExecutesFacts ==
  ASSUME TypeOK, server.changes < MaxChanges, NEW op \in Ops, NEW ok \in BOOLEAN,
         Executes(op, ok)
  PROVE  /\ server' \in State
         /\ server.changes <= server'.changes
         /\ ~ok => server' = server
         /\ op # "sprint" => server'.left <= server.left
         /\ op = "assign" => server'.left = server.left
<1>1. /\ server \in State /\ SprintLength \in Nat \ {0} /\ MaxChanges \in Nat
      /\ server.changes \in 0..MaxChanges /\ server.left \in 0..SprintLength
  BY ClientAssumption DEF TypeOK, State
<1>2. ASSUME NEW left \in 0..SprintLength, Changed(left)
      PROVE  server' \in State /\ server.changes <= server'.changes /\ server'.left = left
  BY <1>1, <1>2 DEF Changed, State
<1>3. CASE op = "tick"
  <2>1. CASE server.left > 0
    <3>1. ok /\ Changed(server.left - 1)
      BY <1>3, <2>1 DEF Executes
    <3>2. server.left - 1 \in 0..SprintLength
      BY <1>1, <2>1
    <3> QED BY <1>1, <1>2, <1>3, <3>1, <3>2
  <2>2. CASE ~(server.left > 0)
    BY <1>1, <1>3, <2>2 DEF Executes
  <2> QED BY <2>1, <2>2
<1>4. CASE op = "sprint"
  <2>1. CASE server.left = 0
    <3>1. ok /\ Changed(SprintLength)
      BY <1>4, <2>1 DEF Executes
    <3>2. SprintLength \in 0..SprintLength
      BY <1>1
    <3>3. server' \in State /\ server.changes <= server'.changes
      BY <1>2, <3>1, <3>2
    <3> QED BY <1>4, <3>1, <3>3
  <2>2. CASE server.left # 0
    BY <1>1, <1>4, <2>2 DEF Executes
  <2> QED BY <2>1, <2>2
<1>5. CASE op = "assign"
  <2>1. IF ok THEN Changed(server.left) ELSE UNCHANGED server
    BY <1>5 DEF Executes
  <2> QED BY <1>1, <1>2, <1>5, <2>1
<1>6. CASE op = "edit"
  <2>1. ok /\ (Changed(server.left) \/ UNCHANGED server)
    BY <1>6 DEF Executes
  <2>2. CASE Changed(server.left)
    <3>1. server' \in State /\ server.changes <= server'.changes
             /\ server'.left = server.left
      BY <1>1, <1>2, <2>2
    <3> QED BY <1>1, <1>6, <2>1, <3>1
  <2>3. CASE UNCHANGED server
    BY <1>1, <1>6, <2>1, <2>3
  <2> QED BY <2>1, <2>2, <2>3
<1> QED BY <1>3, <1>4, <1>5, <1>6 DEF Ops

\* A request that is not in use.
LEMMA FreeIsCall == Free \in Call /\ Free.at = "free"
<1>1. Nothing \in State
  BY ClientAssumption DEF Nothing, State
<1> QED BY <1>1 DEF Free, Call, Ops

\* The server goes on alone: what is shown or answered falls further behind.
LEMMA ServerMovesOn ==
  ASSUME TypeOK, ShownIsPast, server' \in State, server.changes <= server'.changes,
         shown' = shown, overlapped' = overlapped,
         \A d \in Calls : call'[d] = call[d] \/ call'[d].at = "free"
  PROVE  ShownIsPast'
<1>1. /\ server.changes \in Nat /\ server'.changes \in Nat /\ shown.changes \in Nat
      /\ \A d \in Calls : call[d].state.changes \in Nat
  BY ClientAssumption DEF TypeOK, State, Call
<1>2. shown'.changes <= server'.changes
  BY <1>1 DEF ShownIsPast
<1>3. ASSUME NEW d \in Calls, call'[d].at = "answered"
      PROVE  /\ call'[d].state.changes <= server'.changes
             /\ ~overlapped' => shown'.changes <= call'[d].state.changes
  BY <1>1, <1>3 DEF ShownIsPast
<1> QED BY <1>2, <1>3 DEF ShownIsPast

\* Of a calm client at most one request is in use, and it is awaited.
LEMMA CalmMeansAlone ==
  ASSUME IInv, Calm, NEW c \in Calls, Begun(c)
  PROVE  Awaited(c) /\ \A d \in Calls \ {c} : call[d].at = "free"
<1>1. \A d \in Calls : call[d] \in Call
  BY DEF IInv, TypeOK
<1>2. \A d \in Calls : call[d].at # "free" => Awaited(d)
  BY <1>1 DEF IInv, NoneAbandoned, Calm, Awaited, Call
<1>3. \A d \in Calls : Awaited(c) /\ Awaited(d) => c = d
  BY DEF IInv, OneAwaited, Calm
<1> QED BY <1>2, <1>3 DEF Begun

-----------------------------------------------------------------------------
(* The steps keep the inductive invariant *)

\* It holds when the client has created its simulation.
LEMMA InitInvariant == Init => IInv
<1> SUFFICES ASSUME Init PROVE IInv
  OBVIOUS
<1>1. Nothing \in State
  BY ClientAssumption DEF Nothing, State
<1>2. Free \in Call
  BY FreeIsCall
<1>3. TypeOK
  BY <1>1, <1>2 DEF Init, TypeOK, Views
<1>4. \A c \in Calls : call[c].at = "free"
  BY DEF Init, Free
<1>5. OneAwaited /\ NoneAbandoned
  BY <1>4 DEF OneAwaited, NoneAbandoned, Awaited
<1>6. ShownIsPast
  <2>1. shown.changes <= server.changes
    BY ClientAssumption DEF Init, Nothing
  <2> QED BY <1>4, <2>1 DEF ShownIsPast
<1>7. InStep
  <2>1. \A c \in Calls : Follows(c)
    BY <1>4 DEF Follows
  <2>2. shown = server /\ shown.left = 0
    BY DEF Init, Nothing
  <2> QED BY <2>1, <2>2 DEF InStep
<1> QED BY <1>3, <1>5, <1>6, <1>7 DEF IInv

\* A request that is sent finds the client alone, or is one too many and the
\* client is calm no more.
LEMMA SendInvariant ==
  ASSUME IInv, NEW op \in Ops, Send(op), inFlight' \in BOOLEAN,
         UNCHANGED <<server, shown, paused, view, recorded, gaveUp, shared>>
  PROVE  IInv'
<1> DEFINE Sent == [Free EXCEPT !.op = op, !.at = "sent"]
<1>1. PICK c \in Calls :
        /\ ~Begun(c)
        /\ call' = [call EXCEPT ![c] = Sent]
        /\ overlapped' = (overlapped \/ \E b \in Calls : Awaited(b))
  BY DEF Send
<1>2. TypeOK
  BY DEF IInv
<1>3. call \in [Calls -> Call]
  BY <1>2 DEF TypeOK
<1>4. Sent \in Call /\ Sent.at = "sent"
  BY FreeIsCall DEF Call
<1>5. /\ call'[c] = Sent
      /\ \A d \in Calls \ {c} : call'[d] = call[d]
  BY <1>1, <1>3
<1>6. TypeOK'
  <2>1. call' \in [Calls -> Call]
    BY <1>1, <1>3, <1>4
  <2>2. overlapped' \in BOOLEAN
    BY <1>1
  <2> QED BY <1>2, <2>1, <2>2 DEF TypeOK
<1>7. ~overlapped' => ~overlapped /\ \A b \in Calls : ~Awaited(b)
  BY <1>1
<1>8. OneAwaited'
  BY <1>5, <1>7 DEF OneAwaited, Awaited
<1>9. NoneAbandoned'
  BY <1>4, <1>5 DEF IInv, NoneAbandoned
<1>10. ShownIsPast'
  BY <1>4, <1>5, <1>7 DEF IInv, ShownIsPast
<1>11. InStep'
  <2> SUFFICES ASSUME Calm'
               PROVE  /\ \A d \in Calls : Follows(d)'
                      /\ ~Quiet'
                      /\ paused => shown.left = 0
    BY DEF InStep
  <2>1. Calm /\ \A b \in Calls : ~Awaited(b)
    BY <1>7 DEF Calm
  <2>2. Quiet
    BY <2>1, CalmMeansAlone DEF Quiet
  <2>3. shown = server /\ (paused => shown.left = 0)
    BY <2>1, <2>2 DEF IInv, InStep
  <2>4. ~Quiet'
    BY <1>4, <1>5 DEF Quiet, Begun
  <2>5. \A d \in Calls \ {c} : call'[d].at = "free"
    BY <1>5, <2>2 DEF Quiet, Begun
  <2>6. \A d \in Calls : Follows(d)'
    BY <1>4, <1>5, <2>3, <2>5 DEF Follows
  <2> QED BY <2>3, <2>4, <2>6
<1> QED BY <1>6, <1>8, <1>9, <1>10, <1>11 DEF IInv

\* Keys: the tick of the space bar, and the others.
LEMMA KeyInvariant ==
  ASSUME IInv, Space \/ \E op \in Ops \ {"tick"} : OtherKey(op)
  PROVE  IInv'
<1>1. CASE Space
  BY <1>1, SendInvariant DEF Space, Ops
<1>2. ASSUME NEW op \in Ops \ {"tick"}, OtherKey(op)
      PROVE  IInv'
  <2>1. inFlight' \in BOOLEAN
    BY <1>2 DEF OtherKey, clientVars, IInv, TypeOK
  <2>2. Send(op) /\ UNCHANGED <<server, shown, paused, view, recorded, gaveUp, shared>>
    BY <1>2 DEF OtherKey, clientVars
  <2> QED BY <2>1, <2>2, SendInvariant
<1> QED BY <1>1, <1>2

\* Changing the view concerns no request.
LEMMA TabInvariant ==
  ASSUME IInv, Tab
  PROVE  IInv'
<1>1. TypeOK'
  <2>1. view' \in Views /\ recorded' = view'
    BY DEF IInv, TypeOK, Tab, NextView, Views
  <2> QED BY <2>1 DEF IInv, TypeOK, Tab, historyVars
<1>2. OneAwaited' /\ NoneAbandoned' /\ ShownIsPast'
  BY DEF IInv, OneAwaited, NoneAbandoned, ShownIsPast, Awaited, Tab, historyVars
<1>3. InStep'
  BY DEF IInv, InStep, Calm, Quiet, Begun, Follows, Tab, historyVars
<1> QED BY <1>1, <1>2, <1>3 DEF IInv

\* The server executes a request that is waited for.
LEMMA ServeInvariant ==
  ASSUME IInv, NEW c \in Calls, Serve(c)
  PROVE  IInv'
<1>1. PICK ok \in BOOLEAN :
        /\ Executes(call[c].op, ok)
        /\ call' = [call EXCEPT ![c].at = IF ok /\ call[c].op = "assign" THEN "assigned"
                                          ELSE "answered",
                                ![c].ok = ok, ![c].state = server']
  BY DEF Serve
<1>2. /\ TypeOK /\ call \in [Calls -> Call] /\ call[c] \in Call
      /\ call[c].op \in Ops /\ call[c].at = "sent"
      /\ server.changes < MaxChanges
      /\ UNCHANGED <<clientVars, historyVars>>
  BY DEF IInv, TypeOK, Call, Serve
<1>3. /\ server' \in State
      /\ server.changes <= server'.changes
      /\ ~ok => server' = server
      /\ call[c].op # "sprint" => server'.left <= server.left
      /\ call[c].op = "assign" => server'.left = server.left
  BY <1>1, <1>2, ExecutesFacts
<1>4. /\ call'[c].op = call[c].op
      /\ call'[c].at = IF ok /\ call[c].op = "assign" THEN "assigned" ELSE "answered"
      /\ call'[c].ok = ok
      /\ call'[c].state = server'
      /\ \A d \in Calls \ {c} : call'[d] = call[d]
  BY <1>1, <1>2 DEF Call
<1>5. TypeOK'
  <2>1. call' \in [Calls -> Call]
    BY <1>1, <1>2, <1>3 DEF Call
  <2> QED BY <1>2, <1>3, <2>1 DEF TypeOK, clientVars, historyVars
<1>6. \A d \in Calls : Awaited(d)' <=> Awaited(d)
  BY <1>2, <1>4 DEF Awaited
<1>7. OneAwaited'
  BY <1>2, <1>6 DEF IInv, OneAwaited, historyVars
<1>8. NoneAbandoned'
  BY <1>2, <1>4 DEF IInv, NoneAbandoned, historyVars
<1>9. /\ server.changes \in Nat /\ server'.changes \in Nat /\ shown.changes \in Nat
      /\ server.left \in Nat /\ server'.left \in Nat /\ shown.left \in Nat
      /\ \A d \in Calls : call[d].state.changes \in Nat
  BY <1>2, <1>3, ClientAssumption DEF TypeOK, State, Call
<1>10. ShownIsPast'
  <2>1. shown' = shown /\ overlapped' = overlapped
    BY <1>2 DEF clientVars, historyVars
  <2>2. shown.changes <= server'.changes
    BY <1>3, <1>9 DEF IInv, ShownIsPast
  <2>3. ASSUME NEW d \in Calls, call'[d].at = "answered"
        PROVE  /\ call'[d].state.changes <= server'.changes
               /\ ~overlapped => shown.changes <= call'[d].state.changes
    <3>1. CASE d = c
      BY <1>4, <1>9, <2>2, <3>1
    <3>2. CASE d # c
      BY <1>3, <1>4, <1>9, <2>3, <3>2 DEF IInv, ShownIsPast
    <3> QED BY <3>1, <3>2
  <2> QED BY <2>1, <2>2, <2>3 DEF ShownIsPast
<1>11. InStep'
  <2> SUFFICES ASSUME Calm'
               PROVE  /\ \A d \in Calls : Follows(d)'
                      /\ ~Quiet'
                      /\ paused' => shown'.left = 0
    BY DEF InStep
  <2>1. Calm
    BY <1>2 DEF Calm, historyVars
  <2>2. \A d \in Calls \ {c} : call'[d].at = "free"
    BY <1>2, <1>4, <2>1, CalmMeansAlone DEF Begun
  <2>3. shown = server /\ (paused => shown.left = 0)
    BY <1>2, <2>1 DEF IInv, InStep, Follows
  <2>4. ~Quiet'
    BY <1>4 DEF Quiet, Begun
  <2>5. Follows(c)'
    <3>1. shown' = shown
      BY <1>2 DEF clientVars
    <3>2. call'[c].at = "assigned" => ok /\ call[c].op = "assign"
      BY <1>4
    <3> QED BY <1>3, <1>4, <2>3, <3>1, <3>2 DEF Follows
  <2>6. \A d \in Calls : Follows(d)'
    BY <2>2, <2>5 DEF Follows
  <2> QED BY <1>2, <2>3, <2>4, <2>6 DEF clientVars
<1> QED BY <1>5, <1>7, <1>8, <1>10, <1>11 DEF IInv

\* The second request of an assignment reads the state.
LEMMA FetchInvariant ==
  ASSUME IInv, NEW c \in Calls, Fetch(c)
  PROVE  IInv'
<1>1. /\ TypeOK /\ call \in [Calls -> Call] /\ call[c] \in Call
      /\ server \in State /\ call[c].at = "assigned"
      /\ call' = [call EXCEPT ![c].at = "answered", ![c].state = server]
      /\ UNCHANGED <<server, clientVars, historyVars>>
  BY DEF IInv, TypeOK, Fetch
<1>2. /\ call'[c].op = call[c].op
      /\ call'[c].at = "answered"
      /\ call'[c].ok = call[c].ok
      /\ call'[c].state = server
      /\ \A d \in Calls \ {c} : call'[d] = call[d]
  BY <1>1 DEF Call
<1>3. TypeOK'
  <2>1. call' \in [Calls -> Call]
    BY <1>1 DEF Call
  <2> QED BY <1>1, <2>1 DEF TypeOK, clientVars, historyVars
<1>4. \A d \in Calls : Awaited(d)' <=> Awaited(d)
  BY <1>1, <1>2 DEF Awaited
<1>5. OneAwaited'
  BY <1>1, <1>4 DEF IInv, OneAwaited, historyVars
<1>6. NoneAbandoned'
  BY <1>1, <1>2 DEF IInv, NoneAbandoned, historyVars
<1>7. server.changes \in Nat /\ server.left \in Nat /\ shown.left \in Nat
  BY <1>1, ClientAssumption DEF TypeOK, State
<1>8. ShownIsPast'
  <2>1. server' = server /\ shown' = shown /\ overlapped' = overlapped
    BY <1>1 DEF clientVars, historyVars
  <2>2. ASSUME NEW d \in Calls, call'[d].at = "answered"
        PROVE  /\ call'[d].state.changes <= server.changes
               /\ ~overlapped => shown.changes <= call'[d].state.changes
    <3>1. CASE d = c
      BY <1>2, <1>7, <3>1 DEF IInv, ShownIsPast
    <3>2. CASE d # c
      BY <1>2, <2>2, <3>2 DEF IInv, ShownIsPast
    <3> QED BY <3>1, <3>2
  <2> QED BY <2>1, <2>2 DEF IInv, ShownIsPast
<1>9. InStep'
  <2> SUFFICES ASSUME Calm'
               PROVE  /\ \A d \in Calls : Follows(d)'
                      /\ ~Quiet'
                      /\ paused' => shown'.left = 0
    BY DEF InStep
  <2>1. Calm
    BY <1>1 DEF Calm, historyVars
  <2>2. \A d \in Calls \ {c} : call'[d].at = "free"
    BY <1>1, <1>2, <2>1, CalmMeansAlone DEF Begun
  <2>3. /\ call[c].ok /\ shown.left = server.left
        /\ paused => shown.left = 0
    BY <1>1, <2>1 DEF IInv, InStep, Follows
  <2>4. ~Quiet'
    BY <1>2 DEF Quiet, Begun
  <2>5. Follows(c)'
    BY <1>1, <1>2, <1>7, <2>3 DEF Follows, clientVars
  <2>6. \A d \in Calls : Follows(d)'
    BY <2>2, <2>5 DEF Follows
  <2> QED BY <1>1, <2>3, <2>4, <2>6 DEF clientVars
<1> QED BY <1>3, <1>5, <1>6, <1>8, <1>9 DEF IInv

\* A request nobody waits for belongs to a client that has given up.
LEMMA ServeLateInvariant ==
  ASSUME IInv, NEW c \in Calls, ServeLate(c)
  PROVE  IInv'
<1>1. /\ TypeOK /\ call \in [Calls -> Call] /\ call[c] \in Call
      /\ call[c].op \in Ops /\ call[c].at = "abandoned"
      /\ call' = [call EXCEPT ![c] = Free]
      /\ UNCHANGED <<clientVars, historyVars>>
  BY DEF IInv, TypeOK, Call, ServeLate
<1>2. server' \in State /\ server.changes <= server'.changes
  <2>1. CASE UNCHANGED server
    BY <1>1, <2>1, ClientAssumption DEF TypeOK, State
  <2>2. CASE server.changes < MaxChanges /\ \E ok \in BOOLEAN : Executes(call[c].op, ok)
    BY <1>1, <2>2, ExecutesFacts
  <2> QED BY <2>1, <2>2 DEF ServeLate
<1>3. Free \in Call /\ Free.at = "free"
  BY FreeIsCall
<1>4. call'[c] = Free /\ \A d \in Calls \ {c} : call'[d] = call[d]
  BY <1>1
<1>5. TypeOK'
  <2>1. call' \in [Calls -> Call]
    BY <1>1, <1>3
  <2> QED BY <1>1, <1>2, <2>1 DEF TypeOK, clientVars, historyVars
<1>6. OneAwaited'
  BY <1>1, <1>3, <1>4 DEF IInv, OneAwaited, Awaited, historyVars
<1>7. gaveUp
  BY <1>1 DEF IInv, NoneAbandoned
<1>8. ShownIsPast'
  BY <1>1, <1>2, <1>3, <1>4, ServerMovesOn DEF IInv, clientVars, historyVars
<1>9. NoneAbandoned' /\ InStep'
  BY <1>1, <1>7 DEF NoneAbandoned, InStep, Calm, historyVars
<1> QED BY <1>5, <1>6, <1>8, <1>9 DEF IInv

\* Another client's write ends the calm.
LEMMA OtherClientInvariant ==
  ASSUME IInv, OtherClient
  PROVE  IInv'
<1>1. /\ TypeOK /\ server.changes < MaxChanges /\ shared' = TRUE
      /\ UNCHANGED <<clientVars, call, overlapped, gaveUp>>
  BY DEF IInv, OtherClient
<1>2. server' \in State /\ server.changes <= server'.changes
  <2>1. PICK op \in Ops : Executes(op, TRUE)
    BY DEF OtherClient
  <2> QED BY <1>1, <2>1, ExecutesFacts
<1>3. TypeOK'
  BY <1>1, <1>2 DEF TypeOK, clientVars
<1>4. OneAwaited' /\ NoneAbandoned'
  BY <1>1 DEF IInv, OneAwaited, NoneAbandoned, Awaited
<1>5. ShownIsPast'
  BY <1>1, <1>2, ServerMovesOn DEF IInv, clientVars
<1>6. InStep'
  BY <1>1 DEF InStep, Calm
<1> QED BY <1>3, <1>4, <1>5, <1>6 DEF IInv

\* An answer frees its request; with nobody else's on the way, a calm client
\* is quiet.
LEMMA AnsweredIsFree ==
  ASSUME IInv, NEW c \in Calls, call[c].at = "answered",
         call' = [call EXCEPT ![c] = Free], UNCHANGED historyVars
  PROVE  /\ call' \in [Calls -> Call]
         /\ call'[c].at = "free"
         /\ \A d \in Calls \ {c} : call'[d] = call[d]
         /\ OneAwaited' /\ NoneAbandoned'
         /\ ~overlapped' => \A d \in Calls : call'[d].at # "answered"
         /\ Calm' => Calm /\ \A d \in Calls : call'[d].at = "free"
<1>1. call \in [Calls -> Call] /\ Free \in Call /\ Free.at = "free"
  BY FreeIsCall DEF IInv, TypeOK
<1>2. call' \in [Calls -> Call] /\ call'[c] = Free
      /\ \A d \in Calls \ {c} : call'[d] = call[d]
  BY <1>1
<1>3. OneAwaited' /\ NoneAbandoned'
  BY <1>1, <1>2 DEF IInv, OneAwaited, NoneAbandoned, Awaited, historyVars
<1>4. ~overlapped' => \A d \in Calls : call'[d].at # "answered"
  BY <1>1, <1>2 DEF IInv, OneAwaited, Awaited, historyVars
<1>5. ASSUME Calm'
      PROVE  Calm /\ \A d \in Calls : call'[d].at = "free"
  <2>1. Calm
    BY <1>5 DEF Calm, historyVars
  <2> QED BY <1>1, <1>2, <2>1, CalmMeansAlone DEF Begun
<1> QED BY <1>1, <1>2, <1>3, <1>4, <1>5

\* A request that was served shows what it left behind.
LEMMA OkAnswerInvariant ==
  ASSUME IInv, NEW c \in Calls, call[c].at = "answered", call[c].ok,
         call' = [call EXCEPT ![c] = Free], UNCHANGED <<server, historyVars>>,
         shown' = call[c].state, inFlight' = FALSE,
         view' = IF call[c].op = "sprint" THEN "execution" ELSE view,
         recorded' = IF call[c].op = "sprint" THEN "execution" ELSE recorded,
         paused' = PausesAfter(call[c].op, call[c].state)
  PROVE  IInv'
<1>1. /\ TypeOK /\ call[c] \in Call /\ call[c].op \in Ops
      /\ shown' \in State
  BY DEF IInv, TypeOK, Call
<1>2. /\ call' \in [Calls -> Call]
      /\ call'[c].at = "free"
      /\ \A d \in Calls \ {c} : call'[d] = call[d]
      /\ OneAwaited' /\ NoneAbandoned'
      /\ ~overlapped' => \A d \in Calls : call'[d].at # "answered"
      /\ Calm' => Calm /\ \A d \in Calls : call'[d].at = "free"
  BY AnsweredIsFree
<1>3. TypeOK'
  <2>1. paused' \in BOOLEAN
    BY <1>1 DEF PausesAfter
  <2>2. view' \in Views /\ recorded' \in Views
    BY <1>1 DEF TypeOK, Views
  <2> QED BY <1>1, <1>2, <2>1, <2>2 DEF TypeOK, historyVars
<1>4. ShownIsPast'
  <2>1. shown'.changes <= server'.changes
    BY DEF IInv, ShownIsPast
  <2>2. \A d \in Calls : call'[d].at = "answered" => call'[d].state.changes <= server'.changes
    BY <1>2 DEF IInv, ShownIsPast
  <2> QED BY <1>2, <2>1, <2>2 DEF ShownIsPast
<1>5. InStep'
  <2> SUFFICES ASSUME Calm'
               PROVE  /\ \A d \in Calls : Follows(d)'
                      /\ shown' = server'
                      /\ paused' => shown'.left = 0
    BY DEF InStep
  <2>1. Calm /\ \A d \in Calls : call'[d].at = "free"
    BY <1>2
  <2>2. /\ call[c].state = server
        /\ call[c].op = "sprint" \/ server.left <= shown.left
        /\ paused => shown.left = 0
    BY <2>1 DEF IInv, InStep, Follows
  <2>3. \A d \in Calls : Follows(d)'
    BY <2>1 DEF Follows
  <2>4. paused' => shown'.left = 0
    <3>1. SUFFICES ASSUME paused' PROVE shown'.left = 0
      OBVIOUS
    <3>2. call[c].op # "sprint" /\ (paused \/ shown'.left = 0)
      BY <3>1 DEF PausesAfter
    <3>3. shown'.left \in Nat /\ shown.left \in Nat
      BY <1>1, ClientAssumption DEF TypeOK, State
    <3> QED BY <2>2, <3>2, <3>3
  <2> QED BY <2>2, <2>3, <2>4
<1> QED BY <1>2, <1>3, <1>4, <1>5 DEF IInv

\* A request that was refused shows nothing new: nothing is.
LEMMA FailedAnswerInvariant ==
  ASSUME IInv, NEW c \in Calls, call[c].at = "answered", ~call[c].ok,
         call' = [call EXCEPT ![c] = Free], UNCHANGED <<server, historyVars>>,
         inFlight' = FALSE, UNCHANGED <<shown, paused, view, recorded>>
  PROVE  IInv'
<1>1. /\ call' \in [Calls -> Call]
      /\ call'[c].at = "free"
      /\ \A d \in Calls \ {c} : call'[d] = call[d]
      /\ OneAwaited' /\ NoneAbandoned'
      /\ Calm' => Calm /\ \A d \in Calls : call'[d].at = "free"
  BY AnsweredIsFree
<1>2. TypeOK'
  BY <1>1 DEF IInv, TypeOK, historyVars
<1>3. ShownIsPast'
  BY <1>1 DEF IInv, ShownIsPast, historyVars
<1>4. InStep'
  <2> SUFFICES ASSUME Calm'
               PROVE  /\ \A d \in Calls : Follows(d)'
                      /\ shown' = server'
                      /\ paused' => shown'.left = 0
    BY DEF InStep
  <2>1. Calm /\ \A d \in Calls : call'[d].at = "free"
    BY <1>1
  <2>2. shown = server /\ (paused => shown.left = 0)
    BY <2>1 DEF IInv, InStep, Follows
  <2> QED BY <2>1, <2>2 DEF Follows
<1> QED BY <1>1, <1>2, <1>3, <1>4 DEF IInv

\* A calm client's answer brings the screen up to the server.
LEMMA AnswerInvariant ==
  ASSUME IInv, NEW c \in Calls, Answer(c)
  PROVE  IInv'
<1>1. /\ TypeOK /\ call \in [Calls -> Call] /\ call[c] \in Call
      /\ call[c].op \in Ops /\ call[c].state \in State /\ call[c].at = "answered"
      /\ call' = [call EXCEPT ![c] = Free]
      /\ UNCHANGED <<server, historyVars>>
  BY DEF IInv, TypeOK, Call, Answer
<1>2. CASE call[c].ok
  <2>1. /\ shown' = call[c].state
        /\ inFlight' = FALSE
        /\ view' = IF call[c].op = "sprint" THEN "execution" ELSE view
        /\ recorded' = IF call[c].op = "sprint" THEN "execution" ELSE recorded
        /\ paused' = PausesAfter(call[c].op, call[c].state)
    BY <1>2 DEF Answer, Shows
  <2> QED BY <1>1, <1>2, <2>1, OkAnswerInvariant
<1>3. CASE ~call[c].ok
  <2>1. inFlight' = FALSE /\ UNCHANGED <<shown, paused, view, recorded>>
    BY <1>3 DEF Answer, FailureClearsFlag
  <2> QED BY <1>1, <1>3, <2>1, FailedAnswerInvariant
<1> QED BY <1>2, <1>3

\* Giving up ends the calm.
LEMMA GiveUpInvariant ==
  ASSUME IInv, NEW c \in Calls, GiveUp(c)
  PROVE  IInv'
<1>1. /\ TypeOK /\ call \in [Calls -> Call] /\ call[c] \in Call /\ Free \in Call
      /\ inFlight' = FALSE /\ gaveUp' = TRUE
      /\ UNCHANGED <<server, shown, paused, view, recorded, overlapped, shared>>
      /\ Free.at = "free"
  BY FreeIsCall DEF IInv, TypeOK, GiveUp, FailureClearsFlag
<1>2. /\ call'[c] \in Call
      /\ call'[c].at \in {"free", "abandoned"}
      /\ call' = [call EXCEPT ![c] = call'[c]]
      /\ \A d \in Calls \ {c} : call'[d] = call[d]
  <2>1. call' = [call EXCEPT ![c] = IF @.at = "sent" THEN [@ EXCEPT !.at = "abandoned"]
                                    ELSE Free]
    BY DEF GiveUp
  <2>2. [call[c] EXCEPT !.at = "abandoned"] \in Call
        /\ [call[c] EXCEPT !.at = "abandoned"].at = "abandoned"
    BY <1>1 DEF Call
  <2> QED BY <1>1, <2>1, <2>2
<1>3. TypeOK'
  <2>1. call' \in [Calls -> Call]
    BY <1>1, <1>2
  <2> QED BY <1>1, <2>1 DEF TypeOK
<1>4. OneAwaited'
  BY <1>1, <1>2 DEF IInv, OneAwaited, Awaited
<1>5. NoneAbandoned' /\ InStep'
  BY <1>1 DEF NoneAbandoned, InStep, Calm
<1>6. ShownIsPast'
  BY <1>1, <1>2 DEF IInv, ShownIsPast
<1> QED BY <1>3, <1>4, <1>5, <1>6 DEF IInv

\* Every step keeps the inductive invariant.
LEMMA NextInvariant == IInv /\ [Next]_vars => IInv'
<1> SUFFICES ASSUME IInv, [Next]_vars PROVE IInv'
  OBVIOUS
<1>1. CASE Space \/ \E op \in Ops \ {"tick"} : OtherKey(op)
  BY <1>1, KeyInvariant
<1>2. CASE Tab
  BY <1>2, TabInvariant
<1>3. CASE OtherClient
  BY <1>3, OtherClientInvariant
<1>4. ASSUME NEW c \in Calls,
             Serve(c) \/ Fetch(c) \/ ServeLate(c) \/ Answer(c) \/ GiveUp(c)
      PROVE  IInv'
  BY <1>4, ServeInvariant, FetchInvariant, ServeLateInvariant, AnswerInvariant,
     GiveUpInvariant
<1>5. CASE UNCHANGED vars
  BY <1>5 DEF vars, clientVars, historyVars, IInv, TypeOK, OneAwaited, NoneAbandoned,
     ShownIsPast, InStep, Calm, Quiet, Begun, Awaited, Follows
<1> QED BY <1>1, <1>2, <1>3, <1>4, <1>5 DEF Next

-----------------------------------------------------------------------------
(* Theorems *)

\* The inductive invariant, and with it TypeOK, holds throughout.
THEOREM Invariance == Spec => []IInv
BY InitInvariant, NextInvariant, PTL DEF Spec

\* A client whose requests follow one another, were all answered and were
\* nobody else's shows what the server has.
THEOREM ShowsTheServer == Spec => []ShownIsServer
<1>1. IInv => ShownIsServer
  BY DEF IInv, InStep, ShownIsServer
<1> QED BY <1>1, Invariance, PTL

\* Such a client is never paused in the middle of a sprint, where neither
\* space nor 's' would go on.
THEOREM NeverStuck == Spec => []CanGoOn
<1>1. IInv => CanGoOn
  <2> SUFFICES ASSUME IInv, Calm, paused PROVE ~(shown.left > 0)
    BY DEF CanGoOn
  <2>1. shown.left = 0
    BY DEF IInv, InStep
  <2> QED BY <2>1
<1> QED BY <1>1, Invariance, PTL

\* While its requests follow one another the screen never goes back in time,
\* whatever other clients do and whatever it has given up.
THEOREM NeverBackInTime == Spec => ShownMovesForward
<1>1. IInv /\ [Next]_vars => [~overlapped' => shown'.changes >= shown.changes]_vars
  <2> SUFFICES ASSUME IInv, Next, ~overlapped'
               PROVE  shown'.changes >= shown.changes
    OBVIOUS
  <2>1. shown.changes \in Nat
    BY ClientAssumption DEF IInv, TypeOK, State
  <2>2. CASE shown' = shown
    BY <2>1, <2>2
  <2>3. CASE shown' # shown
    <3>1. PICK c \in Calls : Answer(c)
      BY <2>3 DEF Next, Space, OtherKey, Tab, OtherClient, Serve, Fetch, ServeLate,
         GiveUp, clientVars
    <3>2. call[c].at = "answered" /\ shown' = call[c].state /\ ~overlapped
      BY <2>3, <3>1 DEF Answer, historyVars
    <3>3. shown.changes <= call[c].state.changes
      BY <3>2 DEF IInv, ShownIsPast
    <3>4. call[c].state.changes \in Nat
      BY ClientAssumption DEF IInv, TypeOK, State, Call
    <3> QED BY <2>1, <3>2, <3>3, <3>4
  <2> QED BY <2>2, <2>3
<1> QED BY <1>1, Invariance, PTL DEF Spec, ShownMovesForward

-----------------------------------------------------------------------------
(* The deduplication (Dedup) *)

\* No entry was stored in the future.
StoredInThePast == \A e \in stored : e.expires <= now + TTL

\* What is in the cache was stored, and nothing of its ID was stored later.
CacheIsNewest ==
  /\ cache \subseteq stored
  /\ \A e \in cache : \A d \in Of(e.id, stored) : d.expires <= e.expires

\* What is no longer in the cache, and not replaced there, has expired.
CacheIsComplete ==
  \A d \in stored : Of(d.id, cache) = {} => ~Fresh(d)

\* The same two of what a request has found: its lookup was of one instant,
\* and entries only grow older until it decides.
HitIsNewest ==
  \A s \in Sends : \A e \in hit[s] :
    e \in seen[s] /\ \A d \in seen[s] : d.expires <= e.expires

HitIsComplete ==
  \A s \in Sends : pc[s] = "decide" /\ hit[s] = {} => \A d \in seen[s] : ~Fresh(d)

\* Who has not been answered has no answer.
Unanswered == \A s \in Sends : pc[s] # "done" => answer[s] = {}

DInv == /\ DedupTypeOK /\ StoredInThePast /\ CacheIsNewest /\ CacheIsComplete
        /\ HitIsNewest /\ HitIsComplete /\ Unanswered /\ AnswerIsNewest

-----------------------------------------------------------------------------
(* Every action keeps the invariant *)

\* At the start nothing is stored.
LEMMA InitDeduplicates ==
  ASSUME DedupInit
  PROVE  DInv
<1>1. DedupTypeOK
  BY DedupAssumption DEF DedupInit, DedupTypeOK
<1>2. StoredInThePast /\ CacheIsNewest /\ CacheIsComplete
  BY DEF DedupInit, StoredInThePast, CacheIsNewest, CacheIsComplete
<1>3. HitIsNewest /\ HitIsComplete /\ Unanswered /\ AnswerIsNewest
  BY DEF DedupInit, HitIsNewest, HitIsComplete, Unanswered, AnswerIsNewest
<1> QED BY <1>1, <1>2, <1>3 DEF DInv

\* A lookup finds the newest entry, or else everything has expired.
LEMMA LookupKeeps ==
  ASSUME DInv, NEW s \in Sends, Lookup(s)
  PROVE  DInv'
<1> USE DEF DInv
<1>1. /\ hit'[s] = Of(id[s], cache) /\ seen'[s] = Of(id[s], stored)
      /\ \A r \in Sends \ {s} : hit'[r] = hit[r] /\ seen'[r] = seen[r] /\ pc'[r] = pc[r]
  BY DEF Lookup, DedupTypeOK
<1>2. UNCHANGED <<now, cache, id, answer, stored>>
  BY DEF Lookup
<1>3. DedupTypeOK'
  <2>1. Of(id[s], cache) \subseteq Entry /\ Of(id[s], stored) \subseteq Entry
    BY DEF DedupTypeOK, Of
  <2> QED BY <1>2, <2>1 DEF Lookup, DedupTypeOK
<1>4. StoredInThePast' /\ CacheIsNewest' /\ CacheIsComplete'
  BY <1>2 DEF StoredInThePast, CacheIsNewest, CacheIsComplete, Of, Fresh
<1>5. HitIsNewest'
  <2>1. ASSUME NEW e \in hit'[s]
        PROVE  e \in seen'[s] /\ \A d \in seen'[s] : d.expires <= e.expires
    BY <1>1 DEF CacheIsNewest, Of
  <2> QED BY <1>1, <2>1 DEF HitIsNewest
<1>6. HitIsComplete'
  <2>1. ASSUME hit'[s] = {}, NEW d \in seen'[s] PROVE ~Fresh(d)
    BY <1>1, <2>1 DEF CacheIsComplete, Of
  <2> QED BY <1>1, <1>2, <2>1 DEF HitIsComplete, Fresh
<1>7. Unanswered' /\ AnswerIsNewest'
  <2>1. answer[s] = {}
    BY DEF Lookup, Unanswered
  <2> QED BY <1>1, <1>2, <2>1 DEF Lookup, DedupTypeOK, Unanswered, AnswerIsNewest
<1> QED BY <1>3, <1>4, <1>5, <1>6, <1>7

\* A decision answers with the entry that was found, the newest one.
LEMMA DecideKeeps ==
  ASSUME DInv, NEW s \in Sends, Decide(s)
  PROVE  DInv'
<1> USE DEF DInv
<1>1. /\ UNCHANGED <<now, cache, id, hit, stored, seen>>
      /\ pc[s] = "decide" /\ pc'[s] \in {"done", "run"}
      /\ \A r \in Sends \ {s} : pc'[r] = pc[r] /\ answer'[r] = answer[r]
  BY DEF Decide, DedupTypeOK
<1>2. StoredInThePast' /\ CacheIsNewest' /\ CacheIsComplete' /\ HitIsNewest' /\ HitIsComplete'
  BY <1>1 DEF StoredInThePast, CacheIsNewest, CacheIsComplete, HitIsNewest, HitIsComplete,
              Of, Fresh
<1>3. CASE UNCHANGED answer /\ pc' = [pc EXCEPT ![s] = "run"]
  <2>1. DedupTypeOK'
    BY <1>1, <1>3 DEF DedupTypeOK
  <2>2. Unanswered' /\ AnswerIsNewest'
    BY <1>1, <1>3 DEF Unanswered, AnswerIsNewest
  <2> QED BY <1>2, <2>1, <2>2
<1>4. ASSUME NEW e \in hit[s], answer' = [answer EXCEPT ![s] = {e.from}],
             pc' = [pc EXCEPT ![s] = "done"]
      PROVE  DInv'
  <2>1. e \in Entry /\ e.from \in Sends
    BY DEF DedupTypeOK, Entry
  <2>2. answer'[s] = {e.from}
    BY <1>4 DEF DedupTypeOK
  <2>3. DedupTypeOK'
    <3>1. answer' \in [Sends -> SUBSET Sends] /\ pc' \in [Sends -> {"new", "decide", "run", "done"}]
      BY <1>4, <2>1 DEF DedupTypeOK
    <3>2. ASSUME NEW r \in Sends PROVE \A t, u \in answer'[r] : t = u
      BY <1>1, <2>2 DEF DedupTypeOK
    <3> QED BY <1>1, <3>1, <3>2 DEF DedupTypeOK
  <2>4. Unanswered'
    BY <1>1, <1>4 DEF Unanswered, DedupTypeOK
  <2>5. AnswerIsNewest'
    <3>1. e \in seen[s] /\ \A d \in seen[s] : d.expires <= e.expires
      BY DEF HitIsNewest
    <3> QED BY <1>1, <2>2, <3>1 DEF AnswerIsNewest
  <2> QED BY <1>2, <2>3, <2>4, <2>5
<1> QED BY <1>3, <1>4 DEF Decide

\* What is stored now is the newest entry of its ID.
LEMMA StoreKeeps ==
  ASSUME DInv, NEW s \in Sends, Store(s)
  PROVE  DInv'
<1> USE DEF DInv
<1> DEFINE e == [id |-> id[s], from |-> s, expires |-> now + TTL]
<1>1. /\ UNCHANGED <<now, id, hit, seen>>
      /\ pc[s] = "run" /\ pc' = [pc EXCEPT ![s] = "done"]
      /\ answer' = [answer EXCEPT ![s] = {s}]
      /\ cache' = (cache \ Of(id[s], cache)) \union {e} /\ stored' = stored \union {e}
  BY DEF Store
<1>2. e \in Entry /\ e.id = id[s] /\ e.expires = now + TTL
  BY DedupAssumption DEF DedupTypeOK, Entry
<1> HIDE DEF e
<1>3. DedupTypeOK'
  <2>1. \A r \in Sends : \A t, u \in answer'[r] : t = u
    BY <1>1 DEF DedupTypeOK
  <2>2. cache' \subseteq Entry /\ stored' \subseteq Entry
    BY <1>1, <1>2 DEF DedupTypeOK
  <2>3. answer' \in [Sends -> SUBSET Sends] /\ pc' \in [Sends -> {"new", "decide", "run", "done"}]
    BY <1>1 DEF DedupTypeOK
  <2> QED BY <1>1, <2>1, <2>2, <2>3 DEF DedupTypeOK
<1>4. StoredInThePast'
  BY <1>1, <1>2, DedupAssumption DEF StoredInThePast, DedupTypeOK
<1>5. CacheIsNewest'
  <2>1. \A c \in cache' : c = e \/ (c \in cache /\ c.id # e.id)
    BY <1>1, <1>2 DEF Of
  <2>2. \A d \in stored' : d.expires <= e.expires
    BY <1>1, <1>2, <1>4 DEF StoredInThePast, DedupTypeOK, Entry
  <2>3. ASSUME NEW c \in cache', NEW d \in Of(c.id, stored') PROVE d.expires <= c.expires
    BY <1>1, <2>1, <2>2 DEF CacheIsNewest, Of
  <2>4. cache' \subseteq stored'
    BY <1>1 DEF CacheIsNewest
  <2> QED BY <2>3, <2>4 DEF CacheIsNewest
<1>6. CacheIsComplete'
  <2>1. ASSUME NEW d \in stored', Of(d.id, cache') = {} PROVE ~Fresh(d)
    <3>1. d.id # e.id /\ d \in stored
      BY <1>1, <2>1 DEF Of
    <3>2. Of(d.id, cache) = {}
      BY <1>1, <1>2, <2>1, <3>1 DEF Of
    <3> QED BY <3>1, <3>2 DEF CacheIsComplete
  <2>2. now' = now
    BY <1>1
  <2> QED BY <2>1, <2>2 DEF CacheIsComplete, Fresh
<1>7. HitIsNewest' /\ HitIsComplete'
  BY <1>1 DEF HitIsNewest, HitIsComplete, DedupTypeOK, Fresh
<1>8. Unanswered' /\ AnswerIsNewest'
  BY <1>1 DEF Unanswered, AnswerIsNewest, DedupTypeOK
<1> QED BY <1>3, <1>4, <1>5, <1>6, <1>7, <1>8

\* A clean-up takes expired entries only.
LEMMA CleanUpKeeps ==
  ASSUME DInv, CleanUp
  PROVE  DInv'
<1> USE DEF DInv
<1>1. /\ cache' = {e \in cache : ~Expired(e)}
      /\ UNCHANGED <<now, pc, id, hit, answer, stored, seen>>
  BY DEF CleanUp
<1>2. DedupTypeOK' /\ StoredInThePast' /\ CacheIsNewest'
  BY <1>1 DEF DedupTypeOK, StoredInThePast, CacheIsNewest, Of
<1>3. CacheIsComplete'
  <2>1. ASSUME NEW d \in stored, Of(d.id, cache') = {} PROVE ~Fresh(d)
    <3>1. CASE Of(d.id, cache) = {}
      BY <3>1 DEF CacheIsComplete
    <3>2. ASSUME NEW e \in Of(d.id, cache) PROVE ~Fresh(d)
      <4>1. e \in cache /\ e.id = d.id /\ Expired(e)
        BY <1>1, <2>1 DEF Of
      <4>2. d.expires <= e.expires
        BY <4>1 DEF CacheIsNewest, Of
      <4>3. d.expires \in Nat /\ e.expires \in Nat /\ now \in Nat
        BY <4>1 DEF DedupTypeOK, Entry
      <4> QED BY <4>1, <4>2, <4>3 DEF Expired, Fresh
    <3> QED BY <3>1, <3>2
  <2> QED BY <1>1, <2>1 DEF CacheIsComplete, Fresh
<1>4. HitIsNewest' /\ HitIsComplete' /\ Unanswered' /\ AnswerIsNewest'
  BY <1>1 DEF HitIsNewest, HitIsComplete, Unanswered, AnswerIsNewest, Fresh
<1> QED BY <1>2, <1>3, <1>4

\* Nothing becomes fresh by waiting.
LEMMA PassKeeps ==
  ASSUME DInv, Pass
  PROVE  DInv'
<1> USE DEF DInv
<1>1. now' = now + 1 /\ now < MaxNow /\ UNCHANGED <<cache, pc, id, hit, answer, stored, seen>>
  BY DEF Pass
<1>2. now \in Nat /\ \A e \in Entry : e.expires \in Nat
  BY DEF DedupTypeOK, Entry
<1>3. DedupTypeOK'
  BY <1>1, <1>2, DedupAssumption DEF DedupTypeOK
<1>4. StoredInThePast' /\ CacheIsNewest'
  BY <1>1, <1>2, DedupAssumption DEF StoredInThePast, CacheIsNewest, DedupTypeOK, Of
<1>5. \A e \in Entry : ~Fresh(e) => ~Fresh(e)'
  BY <1>1, <1>2 DEF Fresh
<1>6. CacheIsComplete' /\ HitIsComplete'
  BY <1>1, <1>5 DEF CacheIsComplete, HitIsComplete, DedupTypeOK, Of
<1>7. HitIsNewest' /\ Unanswered' /\ AnswerIsNewest'
  BY <1>1 DEF HitIsNewest, Unanswered, AnswerIsNewest
<1> QED BY <1>3, <1>4, <1>6, <1>7

-----------------------------------------------------------------------------
(* The theorems *)

\* The inductive invariant holds throughout every behaviour.
THEOREM DedupInvariance == DedupSpec => []DInv
<1>1. DedupInit => DInv
  BY InitDeduplicates
<1>2. DInv /\ [DedupNext]_dedupVars => DInv'
  <2> SUFFICES ASSUME DInv, [DedupNext]_dedupVars PROVE DInv'
    OBVIOUS
  <2>1. CASE UNCHANGED dedupVars
    BY <2>1 DEF dedupVars, DInv, DedupTypeOK, StoredInThePast, CacheIsNewest, CacheIsComplete,
                HitIsNewest, HitIsComplete, Unanswered, AnswerIsNewest, Of, Fresh
  <2> QED BY <2>1, LookupKeeps, DecideKeeps, StoreKeeps, CleanUpKeeps, PassKeeps DEF DedupNext
<1> QED BY <1>1, <1>2, PTL DEF DedupSpec

\* A cached answer is the newest one that was stored before the lookup, though
\* the lock is released between the lookup and the decision.
THEOREM CachedIsNewest == DedupSpec => []AnswerIsNewest
<1>1. DInv => AnswerIsNewest
  BY DEF DInv
<1> QED BY <1>1, DedupInvariance, PTL

\* A request goes to the handler only if no response of its ID that was stored
\* before its lookup is fresh, cleaned up or overwritten as it may be.
THEOREM NoRerun == DedupSpec => NoSequentialRerun
<1>1. DInv /\ [DedupNext]_dedupVars =>
        [\A s \in Sends :
           pc[s] = "decide" /\ pc'[s] = "run" => \A e \in seen[s] : ~Fresh(e)]_dedupVars
  <2> SUFFICES ASSUME DInv, DedupNext, NEW s \in Sends, pc[s] = "decide", pc'[s] = "run",
                      NEW e \in seen[s]
               PROVE  ~Fresh(e)
    OBVIOUS
  <2>1. \A d \in hit[s] : ~Fresh(d)
    BY DEF DedupNext, Lookup, Decide, Store, CleanUp, Pass, DInv, DedupTypeOK
  <2>2. CASE hit[s] = {}
    BY <2>2 DEF DInv, HitIsComplete
  <2>3. ASSUME NEW d \in hit[s] PROVE ~Fresh(e)
    <3>1. e.expires <= d.expires /\ ~Fresh(d)
      BY <2>1 DEF DInv, HitIsNewest
    <3>2. e.expires \in Nat /\ d.expires \in Nat /\ now \in Nat
      BY DEF DInv, DedupTypeOK, Entry
    <3> QED BY <3>1, <3>2 DEF Fresh
  <2> QED BY <2>2, <2>3
<1> QED BY <1>1, DedupInvariance, PTL DEF DedupSpec, NoSequentialRerun
=============================================================================
