------------------------------- MODULE Startup ------------------------------
(***************************************************************************)
(* How processes on one machine find and lose one another: the terminal    *)
(* interface, which looks for a server at its port and otherwise brings    *)
(* its own (cmd/sofdevsim/main.go), the headless server with its idle      *)
(* timeout (cmd/sofdevsim-server/main.go), and DiscoverOrStart             *)
(* (tui/server.go), which does with care what the interface's main does    *)
(* without, and which main does not use.                                   *)
(*                                                                         *)
(* A process holds the port, has a registry of simulations, and takes both *)
(* with it when it ends.  A simulation is known by its seed: "given" is    *)
(* one passed by flag, "zero" the default, which an engine of one's own    *)
(* replaces by the time, here the process's name.                          *)
(***************************************************************************)
EXTENDS Naturals

CONSTANTS
  Interfaces,   \* processes that run sofdevsim
  Headless,     \* processes that run sofdevsim-server --idle-timeout
  Library,      \* callers of DiscoverOrStart
  ClientFlag, LocalFlag, Seeded,   \* interfaces started with --client, --local, --seed
  None,
  Idle,         \* the idle timeout, in seconds
  MaxStarts     \* bound on the starts of a process

Procs == Interfaces \cup Headless \cup Library
Seeds == {"zero", "given"} \cup Interfaces

ASSUME StartupAssumption ==
  /\ {ClientFlag, LocalFlag, Seeded} \subseteq SUBSET Interfaces
  /\ Interfaces \cap Headless = {} /\ (Interfaces \cup Headless) \cap Library = {}
  /\ {None, "lost"} \cap Procs = {} /\ None # "lost"
  /\ Idle \in Nat /\ MaxStarts \in Nat

VARIABLES
  stage,      \* where each process is in its main
  found,      \* existingServer
  bind,       \* what became of the process's attempt to listen
  port,       \* who holds the port
  sims,       \* the simulations of each process's registry
  home,       \* the server an interface in client mode has created its simulation on
  inflight,   \* the server that is handling a request of this process
  quiet,      \* seconds since lastActivity
  starts      \* how often each process was started

processVars == <<stage, found, bind>>
vars == <<processVars, port, sims, home, inflight, quiet, starts>>

\* useClientMode
ClientMode(p) == p \in ClientFlag \/ (found[p] /\ p \notin LocalFlag)
SeedOf(p) ==
  IF p \in Seeded THEN "given" ELSE IF ClientMode(p) THEN "zero" ELSE p

Init ==
  /\ stage = [p \in Procs |-> "off"]
  /\ found = [p \in Procs |-> FALSE]
  /\ bind = [p \in Procs |-> "none"]
  /\ port = None
  /\ sims = [p \in Procs |-> {}]
  /\ home = [p \in Procs |-> None]
  /\ inflight = [p \in Procs |-> None]
  /\ quiet = [p \in Headless |-> 0]
  /\ starts = [p \in Procs |-> 0]

\* A process ends, with its listener, its registry, and the requests it was
\* handling; the clients of its server are left without one.
End(p) ==
  /\ stage' = [stage EXCEPT ![p] = "off"]
  /\ bind' = [bind EXCEPT ![p] = "none"]
  /\ port' = IF port = p THEN None ELSE port
  /\ sims' = [sims EXCEPT ![p] = {}]
  /\ home' = [q \in Procs |-> IF q = p THEN None ELSE IF home[q] = p THEN "lost" ELSE home[q]]
  /\ inflight' = [q \in Procs |-> IF p \in {q, inflight[q]} THEN None ELSE inflight[q]]

Launch(p) ==
  /\ stage[p] = "off" /\ starts[p] < MaxStarts
  /\ starts' = [starts EXCEPT ![p] = @ + 1]
  /\ stage' = [stage EXCEPT ![p] = IF p \in Headless THEN "serving" ELSE "probing"]
  /\ found' = [found EXCEPT ![p] = FALSE]
  /\ bind' = [bind EXCEPT ![p] = IF p \in Headless THEN "pending" ELSE "none"]
  /\ quiet' = [q \in Headless |-> IF q = p THEN 0 ELSE quiet[q]]
  /\ UNCHANGED <<port, sims, home, inflight>>

\* Whoever serves a request to the headless server has been active.
Touch == quiet' = [q \in Headless |-> IF q = port THEN 0 ELSE quiet[q]]

\* serverRunning: a server that takes longer than the time-out is not found.
Probe(p) ==
  /\ p \in Interfaces /\ stage[p] = "probing"
  /\ \E answer \in {FALSE, port # None} : found' = [found EXCEPT ![p] = answer]
  /\ stage' = [stage EXCEPT ![p] = IF found'[p] THEN "creating" ELSE "sleeping"]
  /\ bind' = [bind EXCEPT ![p] = IF found'[p] THEN "none" ELSE "pending"]
  /\ Touch
  /\ UNCHANGED <<port, sims, home, inflight, starts>>

\* ListenAndServe in a goroutine of its own.  A failure is only printed by the
\* interface; the headless server exits.
Listen(p) ==
  /\ bind[p] = "pending"
  /\ IF port = None
       THEN /\ port' = p /\ bind' = [bind EXCEPT ![p] = "bound"]
            /\ UNCHANGED <<stage, sims, home, inflight>>
       ELSE IF p \in Headless THEN End(p)
       ELSE /\ bind' = [bind EXCEPT ![p] = "failed"]
            /\ UNCHANGED <<stage, port, sims, home, inflight>>
  /\ UNCHANGED <<found, quiet, starts>>

\* Mutation: main waits until its server listens.
WakeWhenBound(p) ==
  /\ stage[p] = "sleeping" /\ bind[p] = "bound"
  /\ stage' = [stage EXCEPT ![p] = "creating"]
  /\ UNCHANGED <<found, bind, port, sims, home, inflight, quiet, starts>>

\* The 50 milliseconds are over, whatever became of the server.
Wake(p) ==
  /\ stage[p] = "sleeping"
  /\ stage' = [stage EXCEPT ![p] = "creating"]
  /\ UNCHANGED <<found, bind, port, sims, home, inflight, quiet, starts>>

Refused(p) ==
  /\ stage[p] = "creating" /\ ClientMode(p)
  /\ port # None /\ SeedOf(p) \in sims[port]

\* Client mode: the simulation is created through whoever holds the port.
\* Nobody there, or the seed taken: os.Exit(1).
CreateByClient(p) ==
  /\ stage[p] = "creating" /\ ClientMode(p)
  /\ Touch
  /\ IF port = None \/ Refused(p) THEN End(p)
     ELSE /\ stage' = [stage EXCEPT ![p] = "running"]
          /\ sims' = [sims EXCEPT ![port] = @ \cup {SeedOf(p)}]
          /\ home' = [home EXCEPT ![p] = port]
          /\ UNCHANGED <<bind, port, inflight>>
  /\ UNCHANGED <<found, starts>>

\* Mutation: the first event is appended whatever the stream holds.
StreamIgnored(p) == FALSE

\* EmitCreated expects an empty stream.
StreamExists(p) == SeedOf(p) \in sims[p]

\* Engine mode: in the registry of this process.  If another process has
\* created the same simulation over HTTP meanwhile, must.Get panics.
CreateLocally(p) ==
  /\ stage[p] = "creating" /\ ~ClientMode(p)
  /\ IF StreamExists(p) THEN End(p)
     ELSE /\ stage' = [stage EXCEPT ![p] = "running"]
          /\ sims' = [sims EXCEPT ![p] = @ \cup {SeedOf(p)}]
          /\ UNCHANGED <<bind, port, home, inflight>>
  /\ UNCHANGED <<found, quiet, starts>>

Quit(p) ==
  /\ p \notin Headless /\ stage[p] = "running"
  /\ End(p)
  /\ UNCHANGED <<found, quiet, starts>>

\* A key of an interface in client mode sends a request and gets its answer;
\* only what the headless server handles is followed.
Request(p) ==
  /\ stage[p] = "running" /\ home[p] # None /\ inflight[p] = None /\ port \in Headless
  /\ inflight' = [inflight EXCEPT ![p] = port]
  /\ Touch
  /\ UNCHANGED <<processVars, port, sims, home, starts>>

Respond(p) ==
  /\ inflight[p] # None
  /\ inflight' = [inflight EXCEPT ![p] = None]
  /\ UNCHANGED <<processVars, port, sims, home, quiet, starts>>

-----------------------------------------------------------------------------
(* DiscoverOrStart *)

Discover(p) ==
  /\ p \in Library /\ stage[p] = "probing"
  /\ Touch
  /\ \E answer \in {FALSE, port # None} :
       /\ found' = [found EXCEPT ![p] = answer]
       /\ stage' = [stage EXCEPT ![p] = IF answer THEN "running" ELSE "listening"]
  /\ UNCHANGED <<bind, port, sims, home, inflight, starts>>

\* Mutation: the server's goroutine listens, when it gets to it.
StartEmbeddedLater(p) ==
  /\ p \in Library /\ stage[p] = "listening"
  /\ bind' = [bind EXCEPT ![p] = "pending"]
  /\ stage' = [stage EXCEPT ![p] = "waiting"]
  /\ UNCHANGED <<found, port, sims, home, inflight, quiet, starts>>

\* startEmbeddedServer listens before it returns; a port in use is an error.
StartEmbedded(p) ==
  /\ p \in Library /\ stage[p] = "listening"
  /\ IF port = None
       THEN /\ port' = p
            /\ bind' = [bind EXCEPT ![p] = "bound"]
            /\ stage' = [stage EXCEPT ![p] = "waiting"]
            /\ UNCHANGED <<sims, home, inflight>>
       ELSE End(p)
  /\ UNCHANGED <<found, quiet, starts>>

\* waitForServer finds a server at the port in time.
Ready(p) ==
  /\ stage[p] = "waiting" /\ port # None
  /\ stage' = [stage EXCEPT ![p] = "running"]
  /\ UNCHANGED <<found, bind, port, sims, home, inflight, quiet, starts>>

\* Five seconds go by without an answered probe: the server is shut down again
\* and DiscoverOrStart returns the error.
NotReady(p) ==
  /\ stage[p] = "waiting"
  /\ End(p)
  /\ UNCHANGED <<found, quiet, starts>>

-----------------------------------------------------------------------------
(* The headless server *)

\* Only the time of a server that is up matters, up to its timeout.
Second ==
  /\ \E h \in Headless : stage[h] = "serving" /\ quiet[h] <= Idle
  /\ quiet' = [h \in Headless |->
                 IF stage[h] = "serving" /\ quiet[h] <= Idle THEN quiet[h] + 1 ELSE quiet[h]]
  /\ UNCHANGED <<processVars, port, sims, home, inflight, starts>>

\* The idle monitor has seen enough; Shutdown is its next call.
Decide(h) ==
  /\ h \in Headless /\ stage[h] = "serving" /\ quiet[h] > Idle
  /\ stage' = [stage EXCEPT ![h] = "closing"]
  /\ UNCHANGED <<found, bind, port, sims, home, inflight, quiet, starts>>

\* Mutation: the server waits for the requests in flight.
StopGracefully(h) ==
  /\ h \in Headless /\ bind[h] = "bound" /\ stage[h] \in {"serving", "closing"}
  /\ \A p \in Procs : inflight[p] # h
  /\ End(h)
  /\ UNCHANGED <<found, quiet, starts>>

\* A signal does without the idle time.  Shutdown makes ListenAndServe return,
\* and main with it, before the requests in flight are answered.
Stop(h) ==
  /\ h \in Headless /\ bind[h] = "bound" /\ stage[h] \in {"serving", "closing"}
  /\ End(h)
  /\ UNCHANGED <<found, quiet, starts>>

\* The steps of a process's main up to the running program, and the monitor's.
Starting(p) ==
  \/ Probe(p) \/ Wake(p) \/ CreateByClient(p) \/ CreateLocally(p)
  \/ Discover(p) \/ StartEmbedded(p) \/ Ready(p) \/ NotReady(p)

Next ==
  \/ Second
  \/ \E p \in Procs :
       \/ Launch(p) \/ Starting(p) \/ Listen(p)
       \/ Quit(p) \/ Request(p) \/ Respond(p)
       \/ Decide(p) \/ Stop(p)

\* Programs run on: every step between a start and a running program is taken,
\* a second passes, the monitor wakes and its decision is carried out.  Nobody
\* has to start, to quit, to send a request or to answer one.
Fairness ==
  /\ WF_vars(Second)
  /\ \A p \in Procs : WF_vars(Starting(p)) /\ WF_vars(Listen(p))
  /\ \A h \in Headless : WF_vars(Decide(h) \/ (stage[h] = "closing" /\ Stop(h)))

Spec == Init /\ [][Next]_vars /\ Fairness

-----------------------------------------------------------------------------
(* Properties *)

\* The simulation a running interface works on, if it still reaches one.
Reaches(p) ==
  IF stage[p] # "running" THEN {}
  ELSE IF ~ClientMode(p) THEN {<<p, SeedOf(p)>>}
  ELSE {<<q, SeedOf(p)>> : q \in {r \in Procs : r = port /\ SeedOf(p) \in sims[r]}}

\* Two interfaces never work on one simulation unless one of them has outlived
\* its server: main.go creates a simulation for each, a seed that is taken is
\* refused over HTTP, and must.Get stops an engine of one's own.
SharingNeedsALostServer ==
  \A p, q \in Interfaces :
    p # q /\ Reaches(p) \cap Reaches(q) # {} => "lost" \in {home[p], home[q]}

\* DiscoverOrStart (tui/server.go:135) gives back a server only if that is the
\* one at the URL it gives back.
OwnServerServes ==
  \A p \in Library : stage[p] = "running" /\ ~found[p] => port = p

\* No start hangs: a server that could not listen and a probe that is not
\* answered hold nobody up (main.go:95, 113).
StartupEnds ==
  \A p \in Procs :
    stage[p] \in {"probing", "sleeping", "creating", "listening", "waiting"}
      ~> stage[p] \in {"running", "off"}

\* design.md:1644: the headless server "shuts down gracefully after the
\* specified inactivity period", whatever became of the last requests.
IdleServerStops ==
  \A h \in Headless : []<>(quiet[h] = 0) \/ []<>(stage[h] = "off")

\* design.md:1644, "gracefully": no request is cut off.
NoRequestIsCut ==
  [][\A h \in Headless : Stop(h) => \A p \in Procs : inflight[p] # h]_vars

\* use-cases.md:565: the interface "connects as client if found, starts
\* embedded server otherwise": an interface of neither kind does not run.
ServesOrFollows ==
  \A p \in Interfaces \ LocalFlag : stage[p] = "running" => bind[p] # "failed"

\* README.md:136: a seed of 0 means "use current time", so a start without
\* --seed is never refused for a simulation that is there already.
DefaultSeedStarts == [][\A p \in Interfaces \ Seeded : ~(Refused(p) /\ CreateByClient(p))]_vars
=============================================================================
