----------------------------- MODULE ClientMode -----------------------------
(***************************************************************************)
(* The terminal interface as an HTTP client (tui/app.go, client mode, and  *)
(* tui/client.go): keys become requests, an answer becomes the state that  *)
(* is shown, and a single flag says that a request is in progress.  A      *)
(* request runs on its own goroutine, gives up after the client's timeout, *)
(* and may then still be executed by the server.  Every request carries a  *)
(* new X-Request-ID, so deduplication never applies.                       *)
(*                                                                         *)
(* Of a simulation are kept how often it has changed and what is left of   *)
(* its sprint.                                                             *)
(***************************************************************************)
EXTENDS Naturals

CONSTANTS
  Calls,          \* requests that may be outstanding together (model bound)
  SprintLength,
  MaxChanges      \* bound on the changes of a behaviour (model only)

ASSUME ClientAssumption == SprintLength \in Nat \ {0} /\ MaxChanges \in Nat

VARIABLES
  server,         \* the simulation
  shown,          \* App.state
  inFlight, paused, view,
  recorded,       \* the view the recorded input events tell of (UIProjection)
  call,           \* call[c]: a request on its way, with its answer
  overlapped,     \* history: two requests have been outstanding together,
  gaveUp,         \* or the client has given up on one,
  shared          \* or another client has written

clientVars == <<shown, inFlight, paused, view, recorded>>
historyVars == <<overlapped, gaveUp, shared>>
vars == <<server, clientVars, call, historyVars>>

Ops == {"tick", "sprint", "assign", "edit"}    \* edit: policy or decompose
Views == {"planning", "execution", "metrics", "comparison"}
NextView == [planning |-> "execution", execution |-> "metrics",
             metrics |-> "comparison", comparison |-> "planning"]
State == [changes : 0..MaxChanges, left : 0..SprintLength]
Call == [op : Ops, at : {"free", "sent", "assigned", "answered", "abandoned"},
         ok : BOOLEAN, state : State]

Nothing == [changes |-> 0, left |-> 0]
Free == [op |-> "tick", at |-> "free", ok |-> FALSE, state |-> Nothing]
Begun(c) == call[c].at # "free"
Awaited(c) == call[c].at \in {"sent", "assigned", "answered"}

TypeOK ==
  /\ server \in State /\ shown \in State
  /\ inFlight \in BOOLEAN /\ paused \in BOOLEAN
  /\ view \in Views /\ recorded \in Views
  /\ call \in [Calls -> Call]
  /\ overlapped \in BOOLEAN /\ gaveUp \in BOOLEAN /\ shared \in BOOLEAN

\* CreateSimulation's answer is the initial state (NewAppWithClient).
Init ==
  /\ server = Nothing /\ shown = server
  /\ inFlight = FALSE /\ paused = TRUE /\ view = "planning" /\ recorded = view
  /\ call = [c \in Calls |-> Free]
  /\ overlapped = FALSE /\ gaveUp = FALSE /\ shared = FALSE

-----------------------------------------------------------------------------
(* Keys *)

\* A goroutine sends the request.
Send(op) ==
  \E c \in Calls :
    /\ ~Begun(c)
    /\ call' = [call EXCEPT ![c] = [Free EXCEPT !.op = op, !.at = "sent"]]
    /\ overlapped' = (overlapped \/ \E b \in Calls : Awaited(b))

SpaceWorks == ~inFlight /\ ~paused /\ shown.left > 0

Space ==
  /\ SpaceWorks
  /\ inFlight' = TRUE
  /\ Send("tick")
  /\ UNCHANGED <<server, shown, paused, view, recorded, gaveUp, shared>>

\* Every other key asks nothing of the flag, and leaves it alone.
OtherKey(op) ==
  /\ CASE op = "sprint" -> view = "planning" /\ shown.left = 0
       [] op = "assign" -> view = "planning"
       [] OTHER -> TRUE
  /\ Send(op)
  /\ UNCHANGED <<server, clientVars, gaveUp, shared>>

Tab == /\ view' = NextView[view] /\ recorded' = view'
       /\ UNCHANGED <<server, shown, inFlight, paused, call, historyVars>>

-----------------------------------------------------------------------------
(* The server *)

Changed(left) == server' = [changes |-> server.changes + 1, left |-> left]

\* A request is refused, and changes nothing, in the wrong state of the
\* sprint; an assignment or a decomposition may find nothing to do.
Executes(op, ok) ==
  CASE op = "tick" -> IF server.left > 0 THEN ok /\ Changed(server.left - 1)
                      ELSE ~ok /\ UNCHANGED server
    [] op = "sprint" -> IF server.left = 0 THEN ok /\ Changed(SprintLength)
                        ELSE ~ok /\ UNCHANGED server
    [] op = "assign" -> IF ok THEN Changed(server.left) ELSE UNCHANGED server
    [] op = "edit" -> ok /\ (Changed(server.left) \/ UNCHANGED server)

\* The answer holds the state the request left behind, except that an
\* assignment's is fetched by a second request.
Serve(c) ==
  /\ server.changes < MaxChanges
  /\ call[c].at = "sent"
  /\ \E ok \in BOOLEAN :
       /\ Executes(call[c].op, ok)
       /\ call' = [call EXCEPT ![c].at = IF ok /\ call[c].op = "assign" THEN "assigned"
                                         ELSE "answered",
                               ![c].ok = ok, ![c].state = server']
  /\ UNCHANGED <<clientVars, historyVars>>

\* Mutation: an assignment is answered with the state the client had.
FetchNothing(c) ==
  /\ call[c].at = "assigned"
  /\ call' = [call EXCEPT ![c].at = "answered", ![c].state = shown]
  /\ UNCHANGED <<server, clientVars, historyVars>>

Fetch(c) ==
  /\ call[c].at = "assigned"
  /\ call' = [call EXCEPT ![c].at = "answered", ![c].state = server]
  /\ UNCHANGED <<server, clientVars, historyVars>>

\* A request nobody waits for any more is executed all the same, or lost.
ServeLate(c) ==
  /\ call[c].at = "abandoned"
  /\ \/ server.changes < MaxChanges /\ \E ok \in BOOLEAN : Executes(call[c].op, ok)
     \/ UNCHANGED server
  /\ call' = [call EXCEPT ![c] = Free]
  /\ UNCHANGED <<clientVars, historyVars>>

OtherClient ==
  /\ server.changes < MaxChanges
  /\ \E op \in Ops : Executes(op, TRUE)
  /\ shared' = TRUE
  /\ UNCHANGED <<clientVars, call, overlapped, gaveUp>>

-----------------------------------------------------------------------------
(* httpResultMsg *)

\* Mutation: a failed request leaves the flag set.
FailureForgetsFlag == UNCHANGED inFlight

\* Any answer or failure clears the flag, whichever request it is of.
FailureClearsFlag == inFlight' = FALSE

\* Mutation: the view changes without an input event.
ShowsUnrecorded(op) ==
  /\ view' = IF op = "sprint" THEN "execution" ELSE view
  /\ UNCHANGED recorded

\* A sprint that was started is watched.
Shows(op) ==
  /\ view' = IF op = "sprint" THEN "execution" ELSE view
  /\ recorded' = IF op = "sprint" THEN "execution" ELSE recorded

\* Mutation: starting a sprint does not resume.
PausesAlways(op, state) == paused \/ (op = "tick" /\ state.left = 0)

PausesAfter(op, state) ==
  IF op = "sprint" THEN FALSE ELSE paused \/ (op = "tick" /\ state.left = 0)

\* Mutation: the error is not looked at, and a failure has an empty state.
AnswerUnchecked(c) ==
  /\ call[c].at = "answered"
  /\ shown' = IF call[c].ok THEN call[c].state ELSE Nothing
  /\ inFlight' = FALSE
  /\ Shows(call[c].op)
  /\ paused' = PausesAfter(call[c].op, shown')
  /\ call' = [call EXCEPT ![c] = Free]
  /\ UNCHANGED <<server, historyVars>>

\* The answers of goroutines arrive in any order.
Answer(c) ==
  /\ call[c].at = "answered"
  /\ IF call[c].ok
       THEN /\ shown' = call[c].state
            /\ inFlight' = FALSE
            /\ Shows(call[c].op)
            /\ paused' = PausesAfter(call[c].op, call[c].state)
       ELSE FailureClearsFlag /\ UNCHANGED <<shown, paused, view, recorded>>
  /\ call' = [call EXCEPT ![c] = Free]
  /\ UNCHANGED <<server, historyVars>>

\* The timeout: the answer, if there is one, is thrown away.
GiveUp(c) ==
  /\ Awaited(c)
  /\ FailureClearsFlag
  /\ gaveUp' = TRUE
  /\ call' = [call EXCEPT ![c] = IF @.at = "sent" THEN [@ EXCEPT !.at = "abandoned"]
                                 ELSE Free]
  /\ UNCHANGED <<server, shown, paused, view, recorded, overlapped, shared>>

-----------------------------------------------------------------------------
Next ==
  \/ Space \/ Tab \/ OtherClient
  \/ \E op \in Ops \ {"tick"} : OtherKey(op)
  \/ \E c \in Calls : Serve(c) \/ Fetch(c) \/ ServeLate(c) \/ Answer(c) \/ GiveUp(c)

Spec == Init /\ [][Next]_vars

\* Every request ends, by its answer or by the timeout.
FairSpec == Spec /\ \A c \in Calls : WF_vars(Answer(c) \/ GiveUp(c))

-----------------------------------------------------------------------------
(* Properties *)

Quiet == \A c \in Calls : ~Begun(c)
Calm == ~overlapped /\ ~gaveUp /\ ~shared

\* Every answer carries the whole state, so a client whose requests followed
\* one another, were all answered and were nobody else's shows exactly what
\* the server has, refusals and empty decompositions included.
ShownIsServer == Calm /\ Quiet => shown = server

\* As long as its requests follow one another the screen never goes back in
\* time, whatever other clients do, and even when requests it has given up
\* are executed later.
ShownMovesForward == [][~overlapped' => shown'.changes >= shown.changes]_vars

\* Such a client always has a key that goes on: it is never paused in a sprint,
\* where space is dead for the pause and 's' for the sprint.
CanGoOn == Calm /\ Quiet => ~(shown.left > 0 /\ paused)

\* The input events tell the view (UIState.CurrentView) that is shown.
ViewIsRecorded == recorded = view

\* A key press that is waited for does not block the next one for ever.
FlagIsCleared == inFlight ~> ~inFlight

\* app.go:644: "Client mode: trigger HTTP tick (blocked if in-flight)".
OneTickAtATime ==
  \A c, d \in Calls :
    (Awaited(c) /\ Awaited(d) /\ call[c].op = "tick" /\ call[d].op = "tick") => c = d

\* app.go:68: inFlight is "true while HTTP request in progress".
FlagTellsTruth == (\E c \in Calls : Awaited(c)) => inFlight

\* CanGoOn, for a client that has given up on a request: design.md:1750,
\* "Clients may retry failed requests (network timeout, uncertain success)".
CanGoOnAfterTimeout == ~overlapped /\ ~shared /\ Quiet => ~(shown.left > 0 /\ paused)
=============================================================================
