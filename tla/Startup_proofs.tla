----------------------------- MODULE Startup_proofs -----------------------------
(***************************************************************************)
(* Theorems about Startup, for any processes of the three kinds, flags,    *)
(* idle timeout and number of starts.                                      *)
(***************************************************************************)
EXTENDS Startup, TLAPS

TypeOK ==
  /\ stage \in [Procs -> {"off", "probing", "sleeping", "creating", "running",
                          "listening", "waiting", "serving", "closing"}]
  /\ found \in [Procs -> BOOLEAN]
  /\ bind \in [Procs -> {"none", "pending", "bound", "failed"}]
  /\ port \in Procs \cup {None}
  /\ sims \in [Procs -> SUBSET Seeds]
  /\ home \in [Procs -> Procs \cup {None, "lost"}]
  /\ inflight \in [Procs -> Procs \cup {None}]
  /\ quiet \in [Headless -> 0..(Idle + 1)]
  /\ starts \in [Procs -> 0..MaxStarts]

\* The interfaces that run, and the process whose registry an interface's
\* simulation has been created in.
Up == {p \in Interfaces : stage[p] = "running"}
Made(p) == IF ClientMode(p) THEN home[p] ELSE p

\* Each stage belongs to one kind of process.
Kinds ==
  \A p \in Procs :
    /\ stage[p] \in {"sleeping", "creating"} => p \in Interfaces
    /\ stage[p] \in {"listening", "waiting"} => p \in Library

\* A home that is not lost still holds the port.
HomesServe == \A p \in Procs : home[p] \in Procs => home[p] = port

\* An interface in client mode has, or had, a server.
Followers == \A p \in Up : ClientMode(p) => home[p] # None

\* A registry has the simulation of every interface it was created for.
Created == \A p \in Up : Made(p) \in Procs => SeedOf(p) \in sims[Made(p)]

\* No two interfaces have created the same one.
OneEach ==
  \A p, q \in Up : p # q /\ Made(p) = Made(q) /\ Made(p) \in Procs => SeedOf(p) # SeedOf(q)

\* A library's caller that has not found a server is to start its own, and
\* then holds the port.
Owners ==
  \A p \in Library :
    /\ stage[p] = "listening" => ~found[p]
    /\ stage[p] = "waiting" \/ (stage[p] = "running" /\ ~found[p]) => port = p

SInv == TypeOK /\ Kinds /\ HomesServe /\ Followers /\ Created /\ OneEach /\ Owners

-----------------------------------------------------------------------------
(* Lemmas about the steps *)

\* At the start no process runs.
LEMMA StartsOff == Init => SInv
<1> SUFFICES ASSUME Init PROVE SInv
  OBVIOUS
<1>1. Idle \in Nat /\ MaxStarts \in Nat /\ None \notin Procs
  BY StartupAssumption
<1>2. TypeOK
  BY <1>1 DEF Init, TypeOK
<1>3. \A p \in Procs : stage[p] = "off" /\ home[p] = None
  BY DEF Init
<1>4. Up = {}
  BY <1>3 DEF Up, Procs
<1>5. Kinds /\ HomesServe /\ Owners
  BY <1>1, <1>3 DEF Kinds, HomesServe, Owners, Procs
<1>6. Followers /\ Created /\ OneEach
  BY <1>4 DEF Followers, Created, OneEach
<1> QED
  BY <1>2, <1>5, <1>6 DEF SInv

\* A seed is one of the seeds.
LEMMA SeedType ==
  ASSUME NEW p \in Interfaces
  PROVE  SeedOf(p) \in Seeds
  BY DEF SeedOf, Seeds

\* What a process's interface is known by, and where its simulation is, depends
\* on what it has found and on its home alone.
LEMMA Unmoved ==
  ASSUME NEW p, found'[p] = found[p]
  PROVE  /\ ClientMode(p)' <=> ClientMode(p)
         /\ SeedOf(p)' = SeedOf(p)
         /\ home'[p] = home[p] => Made(p)' = Made(p)
<1>1. ClientMode(p)' <=> ClientMode(p)
  BY DEF ClientMode
<1> QED
  BY <1>1 DEF SeedOf, Made

\* As long as the interfaces that run, what they have found, their homes and
\* the registries stay, who has created what stays.
LEMMA CreationKept ==
  ASSUME SInv, Up' = Up, sims' = sims, home' = home,
         \A p \in Up : found'[p] = found[p]
  PROVE  Followers' /\ Created' /\ OneEach'
<1>1. \A p \in Up : /\ ClientMode(p)' <=> ClientMode(p)
                    /\ SeedOf(p)' = SeedOf(p) /\ Made(p)' = Made(p)
  BY Unmoved
<1>2. Followers'
  BY <1>1 DEF SInv, Followers
<1>3. Created'
  BY <1>1 DEF SInv, Created
<1>4. OneEach'
  BY <1>1 DEF SInv, OneEach
<1> QED
  BY <1>2, <1>3, <1>4

\* A process that ends takes its registry along and leaves its clients without
\* a home, and nobody else.
LEMMA EndKeeps ==
  ASSUME SInv, NEW p \in Procs, End(p), found' = found, quiet' \in [Headless -> 0..(Idle + 1)],
         starts' = starts
  PROVE  SInv'
<1>1. /\ stage' = [stage EXCEPT ![p] = "off"]
      /\ bind' = [bind EXCEPT ![p] = "none"]
      /\ port' = IF port = p THEN None ELSE port
      /\ sims' = [sims EXCEPT ![p] = {}]
      /\ home' = [q \in Procs |->
                    IF q = p THEN None ELSE IF home[q] = p THEN "lost" ELSE home[q]]
      /\ inflight' = [q \in Procs |-> IF p \in {q, inflight[q]} THEN None ELSE inflight[q]]
  BY DEF End
<1>2. TypeOK /\ Kinds /\ HomesServe /\ Followers /\ Created /\ OneEach /\ Owners
  BY DEF SInv
<1>3. None \notin Procs /\ "lost" \notin Procs /\ None # "lost"
  BY StartupAssumption
<1>4. TypeOK'
  BY <1>1, <1>2 DEF TypeOK
<1>5. Kinds'
  BY <1>1, <1>2 DEF Kinds, TypeOK
<1>6. HomesServe'
  BY <1>1, <1>2, <1>3 DEF HomesServe
<1>7. Owners'
  <2>1. Library \subseteq Procs
    BY DEF Procs
  <2> QED
    BY <1>1, <1>2, <2>1 DEF Owners, TypeOK
<1>8. ASSUME NEW q \in Up'
      PROVE  /\ q \in Up /\ q # p /\ q \in Procs
             /\ ClientMode(q)' <=> ClientMode(q)
             /\ SeedOf(q)' = SeedOf(q)
             /\ home'[q] = IF home[q] = p THEN "lost" ELSE home[q]
             /\ Made(q)' \in Procs => Made(q)' = Made(q) /\ Made(q) # p
  <2>1. q \in Procs
    BY <1>8 DEF Up, Procs
  <2>2. q \in Up /\ q # p
    BY <1>1, <1>2, <1>8, <2>1 DEF Up, TypeOK
  <2>3. (ClientMode(q)' <=> ClientMode(q)) /\ SeedOf(q)' = SeedOf(q)
    BY Unmoved
  <2>4. home'[q] = IF home[q] = p THEN "lost" ELSE home[q]
    BY <1>1, <2>1, <2>2
  <2>5. Made(q)' \in Procs => Made(q)' = Made(q) /\ Made(q) # p
    <3>1. CASE ClientMode(q)
      BY <1>3, <2>3, <2>4, <3>1 DEF Made
    <3>2. CASE ~ClientMode(q)
      BY <2>2, <2>3, <3>2 DEF Made
    <3> QED
      BY <3>1, <3>2
  <2> QED
    BY <2>1, <2>2, <2>3, <2>4, <2>5
<1>9. Followers'
  BY <1>2, <1>3, <1>8 DEF Followers
<1>10. Created'
  <2> SUFFICES ASSUME NEW q \in Up', Made(q)' \in Procs
               PROVE  SeedOf(q)' \in sims'[Made(q)']
    BY DEF Created
  <2>1. sims'[Made(q)] = sims[Made(q)]
    BY <1>1, <1>2, <1>8 DEF TypeOK
  <2> QED
    BY <1>2, <1>8, <2>1 DEF Created
<1>11. OneEach'
  <2> SUFFICES ASSUME NEW q \in Up', NEW r \in Up', q # r, Made(q)' = Made(r)',
                      Made(q)' \in Procs
               PROVE  SeedOf(q)' # SeedOf(r)'
    BY DEF OneEach
  <2> QED
    BY <1>2, <1>8 DEF OneEach
<1> QED
  BY <1>4, <1>5, <1>6, <1>7, <1>9, <1>10, <1>11 DEF SInv

\* A step that changes neither port, homes nor registries, and lets no
\* interface run or end, keeps the invariant if it keeps each process's stage
\* to its kind.
LEMMA QuietStep ==
  ASSUME SInv, TypeOK', Kinds', Owners', UNCHANGED <<port, sims, home>>, Up' = Up,
         \A p \in Up : found'[p] = found[p]
  PROVE  SInv'
<1>1. HomesServe'
  BY DEF SInv, HomesServe
<1> QED
  BY <1>1, CreationKept DEF SInv

\* A request that reaches the headless server keeps its clock's type.
LEMMA TouchType ==
  ASSUME TypeOK, Touch
  PROVE  quiet' \in [Headless -> 0..(Idle + 1)]
<1>1. 0 \in 0..(Idle + 1)
  BY StartupAssumption
<1> QED
  BY <1>1 DEF TypeOK, Touch

\* A start only brings a process to its first step.
LEMMA LaunchKeeps ==
  ASSUME SInv, NEW p \in Procs, Launch(p)
  PROVE  SInv'
<1>1. TypeOK /\ Kinds /\ Owners
  BY DEF SInv
<1>2. /\ stage[p] = "off" /\ stage' = [stage EXCEPT ![p] = IF p \in Headless THEN "serving" ELSE "probing"]
      /\ found' = [found EXCEPT ![p] = FALSE]
      /\ bind' = [bind EXCEPT ![p] = IF p \in Headless THEN "pending" ELSE "none"]
      /\ UNCHANGED <<port, sims, home, inflight>>
  BY DEF Launch
<1>3. quiet' \in [Headless -> 0..(Idle + 1)]
  <2>1. 0 \in 0..(Idle + 1)
    BY StartupAssumption
  <2> QED
    BY <1>1, <2>1 DEF TypeOK, Launch
<1>4. starts' \in [Procs -> 0..MaxStarts]
  <2>1. starts[p] + 1 \in 0..MaxStarts /\ starts' = [starts EXCEPT ![p] = starts[p] + 1]
    BY <1>1, StartupAssumption DEF TypeOK, Launch
  <2> QED
    BY <1>1, <2>1 DEF TypeOK
<1>5. TypeOK'
  BY <1>1, <1>2, <1>3, <1>4 DEF TypeOK
<1>6. Kinds'
  BY <1>1, <1>2 DEF Kinds, TypeOK
<1>7. Owners'
  <2>1. Library \subseteq Procs
    BY DEF Procs
  <2> QED
    BY <1>1, <1>2, <2>1 DEF Owners, TypeOK
<1>8. Up' = Up /\ p \notin Up
  BY <1>1, <1>2 DEF Up, TypeOK, Procs
<1>9. \A q \in Up : found'[q] = found[q]
  BY <1>1, <1>2, <1>8 DEF TypeOK, Up, Procs
<1> QED
  BY <1>2, <1>5, <1>6, <1>7, <1>8, <1>9, QuietStep

\* Looking for a server decides how an interface goes on.
LEMMA ProbeKeeps ==
  ASSUME SInv, NEW p \in Procs, Probe(p)
  PROVE  SInv'
<1>1. TypeOK /\ Kinds /\ Owners
  BY DEF SInv
<1>2. PICK answer \in {FALSE, port # None} : found' = [found EXCEPT ![p] = answer]
  BY DEF Probe
<1>3. /\ p \in Interfaces /\ p \notin Library /\ stage[p] = "probing"
      /\ stage' = [stage EXCEPT ![p] = IF found'[p] THEN "creating" ELSE "sleeping"]
      /\ bind' = [bind EXCEPT ![p] = IF found'[p] THEN "none" ELSE "pending"]
      /\ UNCHANGED <<port, sims, home, inflight, starts>>
  BY StartupAssumption DEF Probe
<1>4. TypeOK'
  <2>1. quiet' \in [Headless -> 0..(Idle + 1)]
    BY <1>1, TouchType DEF Probe
  <2>2. answer \in BOOLEAN
    OBVIOUS
  <2>3. found' \in [Procs -> BOOLEAN]
    BY <1>1, <1>2, <2>2 DEF TypeOK
  <2>4. stage' \in [Procs -> {"off", "probing", "sleeping", "creating", "running",
                              "listening", "waiting", "serving", "closing"}]
    BY <1>1, <1>3 DEF TypeOK
  <2>5. bind' \in [Procs -> {"none", "pending", "bound", "failed"}]
    BY <1>1, <1>3 DEF TypeOK
  <2> QED
    BY <1>1, <1>3, <2>1, <2>3, <2>4, <2>5 DEF TypeOK
<1>5. Kinds'
  BY <1>1, <1>3 DEF Kinds, TypeOK
<1>6. Owners'
  <2>1. Library \subseteq Procs /\ \A q \in Library : q # p
    BY <1>3 DEF Procs
  <2> QED
    BY <1>1, <1>2, <1>3, <2>1 DEF Owners, TypeOK
<1>7. Up' = Up /\ p \notin Up
  BY <1>1, <1>3 DEF Up, TypeOK, Procs
<1>8. \A q \in Up : found'[q] = found[q]
  BY <1>1, <1>2, <1>7 DEF TypeOK, Up, Procs
<1> QED
  BY <1>3, <1>4, <1>5, <1>6, <1>7, <1>8, QuietStep

\* The port goes to whoever comes first; a headless server that comes second
\* ends.
LEMMA ListenKeeps ==
  ASSUME SInv, NEW p \in Procs, Listen(p)
  PROVE  SInv'
<1>1. TypeOK /\ Kinds /\ HomesServe /\ Owners
  BY DEF SInv
<1>2. UNCHANGED <<found, quiet, starts>>
  BY DEF Listen
<1>3. CASE port = None
  <2>1. /\ port' = p /\ bind' = [bind EXCEPT ![p] = "bound"]
        /\ UNCHANGED <<stage, sims, home, inflight>>
    BY <1>3 DEF Listen
  <2>2. None \notin Procs /\ Library \subseteq Procs
    BY StartupAssumption DEF Procs
  <2>3. TypeOK'
    BY <1>1, <1>2, <2>1 DEF TypeOK
  <2>4. Kinds' /\ HomesServe' /\ Owners'
    BY <1>1, <1>2, <1>3, <2>1, <2>2 DEF Kinds, HomesServe, Owners
  <2>5. Up' = Up
    BY <2>1 DEF Up
  <2> QED
    BY <1>2, <2>1, <2>3, <2>4, <2>5, CreationKept DEF SInv
<1>4. CASE port # None /\ p \in Headless
  <2>1. End(p)
    BY <1>4 DEF Listen
  <2> QED
    BY <1>1, <1>2, <2>1, EndKeeps DEF TypeOK
<1>5. CASE port # None /\ p \notin Headless
  <2>1. bind' = [bind EXCEPT ![p] = "failed"] /\ UNCHANGED <<stage, port, sims, home, inflight>>
    BY <1>5 DEF Listen
  <2>2. TypeOK'
    BY <1>1, <1>2, <2>1 DEF TypeOK
  <2>3. Kinds' /\ Owners' /\ Up' = Up
    BY <1>1, <1>2, <2>1 DEF Kinds, Owners, Up
  <2> QED
    BY <1>2, <2>1, <2>2, <2>3, QuietStep
<1> QED
  BY <1>3, <1>4, <1>5

\* A new simulation is created where nobody has created the same: what is
\* there already has another seed.
LEMMA CreationAdds ==
  ASSUME SInv, NEW p \in Interfaces, p \notin Up, NEW r \in Procs, SeedOf(p) \notin sims[r],
         found' = found, Up' = Up \cup {p}, sims' = [sims EXCEPT ![r] = @ \cup {SeedOf(p)}],
         \A q \in Up : home'[q] = home[q],
         Made(p)' = r, ClientMode(p) => home'[p] = r
  PROVE  Followers' /\ Created' /\ OneEach'
<1>1. TypeOK /\ Followers /\ Created /\ OneEach
  BY DEF SInv
<1>2. None \notin Procs
  BY StartupAssumption
<1>3. \A q \in Up : /\ ClientMode(q)' <=> ClientMode(q)
                    /\ SeedOf(q)' = SeedOf(q) /\ Made(q)' = Made(q) /\ q # p
  BY Unmoved
<1>4. SeedOf(p)' = SeedOf(p) /\ (ClientMode(p)' <=> ClientMode(p))
  BY Unmoved
<1>5. \A q \in Procs : sims[q] \subseteq sims'[q] /\ SeedOf(p) \in sims'[r]
  BY <1>1 DEF TypeOK
<1>6. Followers'
  BY <1>1, <1>2, <1>3, <1>4 DEF Followers
<1>7. Created'
  BY <1>1, <1>3, <1>4, <1>5 DEF Created
<1>8. OneEach'
  <2>1. \A q \in Up : Made(q)' = r => SeedOf(q)' # SeedOf(p)'
    BY <1>1, <1>3, <1>4 DEF Created
  <2> SUFFICES ASSUME NEW q \in Up', NEW s \in Up', q # s, Made(q)' = Made(s)',
                      Made(q)' \in Procs
               PROVE  SeedOf(q)' # SeedOf(s)'
    BY DEF OneEach
  <2>2. CASE q \in Up /\ s \in Up
    BY <1>1, <1>3, <2>2 DEF OneEach
  <2>3. CASE q = p
    BY <2>1, <2>3
  <2>4. CASE s = p
    BY <2>1, <2>4
  <2> QED
    BY <2>2, <2>3, <2>4
<1> QED
  BY <1>6, <1>7, <1>8

\* Through a server, a client creates the simulation nobody has created there.
LEMMA CreateByClientKeeps ==
  ASSUME SInv, NEW p \in Procs, CreateByClient(p)
  PROVE  SInv'
<1>1. TypeOK /\ Kinds /\ HomesServe /\ Owners
  BY DEF SInv
<1>2. /\ stage[p] = "creating" /\ ClientMode(p) /\ UNCHANGED <<found, starts>>
      /\ p \in Interfaces /\ p \notin Library /\ p \notin Up
  BY <1>1, StartupAssumption DEF CreateByClient, Kinds, Up
<1>3. quiet' \in [Headless -> 0..(Idle + 1)]
  BY <1>1, TouchType DEF CreateByClient
<1>4. CASE port = None \/ Refused(p)
  <2>1. End(p)
    BY <1>4 DEF CreateByClient
  <2> QED
    BY <1>2, <1>3, <2>1, EndKeeps
<1>5. CASE ~(port = None \/ Refused(p))
  <2>1. /\ stage' = [stage EXCEPT ![p] = "running"]
        /\ sims' = [sims EXCEPT ![port] = @ \cup {SeedOf(p)}]
        /\ home' = [home EXCEPT ![p] = port]
        /\ UNCHANGED <<bind, port, inflight>>
    BY <1>5 DEF CreateByClient
  <2>2. port \in Procs /\ SeedOf(p) \notin sims[port] /\ SeedOf(p) \in Seeds
    BY <1>1, <1>2, <1>5, SeedType DEF TypeOK, Refused
  <2>3. TypeOK'
    BY <1>1, <1>2, <1>3, <2>1, <2>2 DEF TypeOK
  <2>4. Kinds' /\ HomesServe'
    BY <1>1, <1>2, <2>1 DEF Kinds, HomesServe, TypeOK
  <2>5. Owners'
    <3>1. Library \subseteq Procs /\ \A q \in Library : q # p
      BY <1>2 DEF Procs
    <3> QED
      BY <1>1, <1>2, <2>1, <3>1 DEF Owners, TypeOK
  <2>6. Up' = Up \cup {p}
    BY <1>1, <1>2, <2>1 DEF Up, TypeOK, Procs
  <2>7. home'[p] = port /\ \A q \in Up : home'[q] = home[q]
    BY <1>1, <1>2, <2>1 DEF TypeOK, Up, Procs
  <2>8. Made(p)' = port
    <3>1. ClientMode(p)'
      BY <1>2, Unmoved
    <3> QED
      BY <2>7, <3>1 DEF Made
  <2> QED
    BY <1>2, <2>1, <2>2, <2>3, <2>4, <2>5, <2>6, <2>7, <2>8, CreationAdds DEF SInv
<1> QED
  BY <1>4, <1>5

\* In its own registry, an engine creates the simulation no client has created.
LEMMA CreateLocallyKeeps ==
  ASSUME SInv, NEW p \in Procs, CreateLocally(p)
  PROVE  SInv'
<1>1. TypeOK /\ Kinds /\ HomesServe /\ Owners
  BY DEF SInv
<1>2. /\ stage[p] = "creating" /\ ~ClientMode(p) /\ UNCHANGED <<found, quiet, starts>>
      /\ p \in Interfaces /\ p \notin Library /\ p \notin Up
  BY <1>1, StartupAssumption DEF CreateLocally, Kinds, Up
<1>3. CASE StreamExists(p)
  <2>1. End(p)
    BY <1>3 DEF CreateLocally
  <2> QED
    BY <1>1, <1>2, <2>1, EndKeeps DEF TypeOK
<1>4. CASE ~StreamExists(p)
  <2>1. /\ stage' = [stage EXCEPT ![p] = "running"]
        /\ sims' = [sims EXCEPT ![p] = @ \cup {SeedOf(p)}]
        /\ UNCHANGED <<bind, port, home, inflight>>
    BY <1>4 DEF CreateLocally
  <2>2. SeedOf(p) \notin sims[p] /\ SeedOf(p) \in Seeds
    BY <1>2, <1>4, SeedType DEF StreamExists
  <2>3. TypeOK'
    BY <1>1, <1>2, <2>1, <2>2 DEF TypeOK
  <2>4. Kinds' /\ HomesServe'
    BY <1>1, <1>2, <2>1 DEF Kinds, HomesServe, TypeOK
  <2>5. Owners'
    <3>1. Library \subseteq Procs /\ \A q \in Library : q # p
      BY <1>2 DEF Procs
    <3> QED
      BY <1>1, <1>2, <2>1, <3>1 DEF Owners, TypeOK
  <2>6. Up' = Up \cup {p}
    BY <1>1, <1>2, <2>1 DEF Up, TypeOK, Procs
  <2>7. Made(p)' = p
    <3>1. ~ClientMode(p)'
      BY <1>2, Unmoved
    <3> QED
      BY <3>1 DEF Made
  <2> QED
    BY <1>2, <2>1, <2>2, <2>3, <2>4, <2>5, <2>6, <2>7, CreationAdds DEF SInv
<1> QED
  BY <1>3, <1>4

\* DiscoverOrStart, step by step: what it gives back is found, or is its own.
LEMMA DiscoverKeeps ==
  ASSUME SInv, NEW p \in Procs,
         Discover(p) \/ StartEmbedded(p) \/ Ready(p) \/ NotReady(p)
  PROVE  SInv'
<1>1. TypeOK /\ Kinds /\ HomesServe /\ Owners
  BY DEF SInv
<1>2. p \in Library /\ p \notin Interfaces
  BY <1>1, StartupAssumption DEF Discover, StartEmbedded, Ready, NotReady, Kinds
<1>3. \A q \in Up : q # p /\ q \in Procs
  BY <1>2 DEF Up, Procs
<1>4. CASE Discover(p)
  <2>1. PICK answer \in {FALSE, port # None} :
          /\ found' = [found EXCEPT ![p] = answer]
          /\ stage' = [stage EXCEPT ![p] = IF answer THEN "running" ELSE "listening"]
    BY <1>4 DEF Discover
  <2>2. UNCHANGED <<bind, port, sims, home, inflight, starts>>
    BY <1>4 DEF Discover
  <2>3. answer \in BOOLEAN
    OBVIOUS
  <2>4. TypeOK'
    <3>1. quiet' \in [Headless -> 0..(Idle + 1)]
      BY <1>1, <1>4, TouchType DEF Discover
    <3>2. found' \in [Procs -> BOOLEAN]
      BY <1>1, <2>1, <2>3 DEF TypeOK
    <3>3. stage' \in [Procs -> {"off", "probing", "sleeping", "creating", "running",
                                "listening", "waiting", "serving", "closing"}]
      BY <1>1, <2>1 DEF TypeOK
    <3> QED
      BY <1>1, <2>2, <3>1, <3>2, <3>3 DEF TypeOK
  <2>5. Kinds'
    BY <1>1, <1>2, <2>1 DEF Kinds, TypeOK
  <2>6. Owners'
    <3>1. found'[p] = answer /\ stage'[p] = IF answer THEN "running" ELSE "listening"
      BY <1>1, <2>1 DEF TypeOK
    <3>2. \A q \in Library \ {p} : found'[q] = found[q] /\ stage'[q] = stage[q]
      BY <1>1, <2>1 DEF TypeOK, Procs
    <3> QED
      BY <1>1, <2>2, <2>3, <3>1, <3>2 DEF Owners
  <2>7. Up' = Up
    BY <1>1, <1>2, <2>1 DEF Up, TypeOK, Procs
  <2>8. \A q \in Up : found'[q] = found[q]
    BY <1>1, <1>3, <2>1 DEF TypeOK
  <2> QED
    BY <2>2, <2>4, <2>5, <2>6, <2>7, <2>8, QuietStep
<1>5. CASE StartEmbedded(p) /\ port = None
  <2>1. /\ port' = p /\ bind' = [bind EXCEPT ![p] = "bound"]
        /\ stage' = [stage EXCEPT ![p] = "waiting"]
        /\ UNCHANGED <<sims, home, inflight, found, quiet, starts>>
    BY <1>5 DEF StartEmbedded
  <2>2. None \notin Procs /\ Library \subseteq Procs
    BY StartupAssumption DEF Procs
  <2>3. TypeOK'
    BY <1>1, <2>1 DEF TypeOK
  <2>4. Kinds' /\ HomesServe'
    BY <1>1, <1>2, <1>5, <2>1, <2>2 DEF Kinds, HomesServe, TypeOK
  <2>5. Owners'
    BY <1>1, <1>5, <2>1, <2>2 DEF Owners, TypeOK
  <2>6. Up' = Up
    BY <1>1, <1>2, <2>1 DEF Up, TypeOK, Procs
  <2> QED
    BY <2>1, <2>3, <2>4, <2>5, <2>6, CreationKept DEF SInv
<1>6. CASE StartEmbedded(p) /\ port # None
  <2>1. End(p) /\ UNCHANGED <<found, quiet, starts>>
    BY <1>6 DEF StartEmbedded
  <2> QED
    BY <1>1, <2>1, EndKeeps DEF TypeOK
<1>7. CASE Ready(p)
  <2>1. /\ stage[p] = "waiting" /\ stage' = [stage EXCEPT ![p] = "running"]
        /\ UNCHANGED <<found, bind, port, sims, home, inflight, quiet, starts>>
    BY <1>7 DEF Ready
  <2>2. TypeOK' /\ Kinds'
    BY <1>1, <2>1 DEF TypeOK, Kinds
  <2>3. Owners'
    <3>1. Library \subseteq Procs
      BY DEF Procs
    <3> QED
      BY <1>1, <2>1, <3>1 DEF Owners, TypeOK
  <2>4. Up' = Up
    BY <1>1, <1>2, <2>1 DEF Up, TypeOK, Procs
  <2> QED
    BY <2>1, <2>2, <2>3, <2>4, QuietStep
<1>8. CASE NotReady(p)
  <2>1. End(p) /\ UNCHANGED <<found, quiet, starts>>
    BY <1>8 DEF NotReady
  <2> QED
    BY <1>1, <2>1, EndKeeps DEF TypeOK
<1> QED
  BY <1>4, <1>5, <1>6, <1>7, <1>8

\* The rest neither creates nor ends an interface's simulation, but for those
\* who quit or stop.
LEMMA OthersKeep ==
  ASSUME SInv, NEW p \in Procs,
         Wake(p) \/ Quit(p) \/ Request(p) \/ Respond(p) \/ Decide(p) \/ Stop(p)
  PROVE  SInv'
<1>1. TypeOK /\ Kinds /\ Owners
  BY DEF SInv
<1>2. Library \subseteq Procs /\ Interfaces \subseteq Procs
  BY DEF Procs
<1>3. CASE Wake(p)
  <2>1. /\ stage[p] = "sleeping" /\ stage' = [stage EXCEPT ![p] = "creating"]
        /\ UNCHANGED <<found, bind, port, sims, home, inflight, quiet, starts>>
    BY <1>3 DEF Wake
  <2>2. TypeOK' /\ Kinds' /\ Owners'
    BY <1>1, <1>2, <2>1 DEF TypeOK, Kinds, Owners
  <2>3. Up' = Up
    BY <1>1, <1>2, <2>1 DEF Up, TypeOK
  <2> QED
    BY <2>1, <2>2, <2>3, QuietStep
<1>4. CASE Quit(p) \/ Stop(p)
  <2>1. End(p) /\ UNCHANGED <<found, quiet, starts>>
    BY <1>4 DEF Quit, Stop
  <2> QED
    BY <1>1, <2>1, EndKeeps DEF TypeOK
<1>5. CASE Request(p)
  <2>1. /\ UNCHANGED <<stage, found, bind, port, sims, home, starts>>
        /\ inflight' = [inflight EXCEPT ![p] = port] /\ Touch
    BY <1>5 DEF Request, processVars
  <2>2. quiet' \in [Headless -> 0..(Idle + 1)]
    BY <1>1, <2>1, TouchType
  <2>3. TypeOK'
    BY <1>1, <2>1, <2>2 DEF TypeOK
  <2>4. Kinds' /\ Owners' /\ Up' = Up
    BY <1>1, <2>1 DEF Kinds, Owners, Up
  <2> QED
    BY <2>1, <2>3, <2>4, QuietStep
<1>6. CASE Respond(p)
  <2>1. /\ UNCHANGED <<stage, found, bind, port, sims, home, quiet, starts>>
        /\ inflight' = [inflight EXCEPT ![p] = None]
    BY <1>6 DEF Respond, processVars
  <2>2. TypeOK'
    BY <1>1, <2>1 DEF TypeOK
  <2>3. Kinds' /\ Owners' /\ Up' = Up
    BY <1>1, <2>1 DEF Kinds, Owners, Up
  <2> QED
    BY <2>1, <2>2, <2>3, QuietStep
<1>7. CASE Decide(p)
  <2>1. /\ stage[p] = "serving" /\ stage' = [stage EXCEPT ![p] = "closing"]
        /\ UNCHANGED <<found, bind, port, sims, home, inflight, quiet, starts>>
    BY <1>7 DEF Decide
  <2>2. TypeOK' /\ Kinds' /\ Owners'
    BY <1>1, <1>2, <2>1 DEF TypeOK, Kinds, Owners
  <2>3. Up' = Up
    BY <1>1, <1>2, <2>1 DEF Up, TypeOK
  <2> QED
    BY <2>1, <2>2, <2>3, QuietStep
<1> QED
  BY <1>3, <1>4, <1>5, <1>6, <1>7

\* A second passes for the headless servers only.
LEMMA SecondKeeps ==
  ASSUME SInv, Second
  PROVE  SInv'
<1>1. TypeOK /\ Kinds /\ Owners /\ Idle \in Nat
  BY StartupAssumption DEF SInv
<1>2. UNCHANGED <<stage, found, bind, port, sims, home, inflight, starts>>
  BY DEF Second, processVars
<1>3. quiet' \in [Headless -> 0..(Idle + 1)]
  <2>1. \A h \in Headless : quiet[h] \in 0..(Idle + 1)
    BY <1>1 DEF TypeOK
  <2>2. \A h \in Headless : quiet[h] <= Idle => quiet[h] + 1 \in 0..(Idle + 1)
    BY <1>1, <2>1
  <2> QED
    BY <2>1, <2>2 DEF Second
<1>4. TypeOK'
  BY <1>1, <1>2, <1>3 DEF TypeOK
<1>5. Kinds' /\ Owners' /\ Up' = Up
  BY <1>1, <1>2 DEF Kinds, Owners, Up
<1> QED
  BY <1>2, <1>4, <1>5, QuietStep

-----------------------------------------------------------------------------
(* Theorems *)

\* The invariant holds whatever processes start, stop and look for one another.
THEOREM StartupInvariance == Spec => []SInv
<1>1. SInv /\ [Next]_vars => SInv'
  <2> SUFFICES ASSUME SInv, [Next]_vars PROVE SInv'
    OBVIOUS
  <2>1. CASE Second
    BY <2>1, SecondKeeps
  <2>2. ASSUME NEW p \in Procs, Launch(p) \/ Starting(p) \/ Listen(p)
                                \/ Quit(p) \/ Request(p) \/ Respond(p) \/ Decide(p) \/ Stop(p)
        PROVE  SInv'
    BY <2>2, LaunchKeeps, ProbeKeeps, ListenKeeps, CreateByClientKeeps, CreateLocallyKeeps,
       DiscoverKeeps, OthersKeep DEF Starting
  <2>3. CASE UNCHANGED vars
    <3>1. /\ UNCHANGED <<stage, found, bind, port, sims, home>>
          /\ UNCHANGED <<inflight, quiet, starts>>
      BY <2>3 DEF vars, processVars
    <3>2. TypeOK' /\ Kinds' /\ Owners' /\ Up' = Up
      BY <3>1 DEF SInv, TypeOK, Kinds, Owners, Up
    <3> QED
      BY <3>1, <3>2, QuietStep
  <2> QED
    BY <2>1, <2>2, <2>3 DEF Next
<1> QED
  BY <1>1, StartsOff, PTL DEF Spec

\* SharingNeedsALostServer for any processes and flags: two interfaces that
\* reach one simulation have not both created it, for a taken seed is refused
\* (CreateSimulation's 409, EmitCreated's expected version in main.go), so one
\* of them has outlived the server it was created on.
THEOREM NoAccidentalSharing == Spec => []SharingNeedsALostServer
<1>1. SInv => SharingNeedsALostServer
  <2> SUFFICES ASSUME SInv, NEW p \in Interfaces, NEW q \in Interfaces, p # q,
                      NEW sim, sim \in Reaches(p), sim \in Reaches(q),
                      home[p] # "lost", home[q] # "lost"
               PROVE  FALSE
    BY DEF SharingNeedsALostServer
  <2>1. ASSUME NEW r \in Interfaces, sim \in Reaches(r), home[r] # "lost"
        PROVE  r \in Up /\ Made(r) \in Procs /\ sim = <<Made(r), SeedOf(r)>>
    <3>1. r \in Up /\ r \in Procs
      BY <2>1 DEF Reaches, Up, Procs
    <3>2. CASE ~ClientMode(r)
      BY <2>1, <3>1, <3>2 DEF Reaches, Made, Up
    <3>3. CASE ClientMode(r)
      <4>1. home[r] \in Procs
        BY <2>1, <3>1, <3>3 DEF SInv, TypeOK, Followers
      <4>2. home[r] = port
        BY <3>1, <4>1 DEF SInv, HomesServe
      <4>3. sim = <<port, SeedOf(r)>>
        BY <2>1, <3>1, <3>3 DEF Reaches, Up
      <4> QED
        BY <3>1, <3>3, <4>1, <4>2, <4>3 DEF Made
    <3> QED
      BY <3>2, <3>3
  <2>2. /\ p \in Up /\ Made(p) \in Procs /\ sim = <<Made(p), SeedOf(p)>>
        /\ q \in Up /\ sim = <<Made(q), SeedOf(q)>>
    BY <2>1
  <2> QED
    BY <2>2 DEF SInv, OneEach
<1> QED
  BY <1>1, StartupInvariance, PTL

\* OwnServerServes for any processes: what DiscoverOrStart gives back as its
\* own server is the one that listens at the port (startEmbeddedServer listens
\* before it returns, tui/server.go).
THEOREM OwnServerIsThere == Spec => []OwnServerServes
<1>1. SInv => OwnServerServes
  BY DEF SInv, Owners, OwnServerServes
<1> QED
  BY <1>1, StartupInvariance, PTL
=============================================================================
