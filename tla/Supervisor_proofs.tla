------------------------- MODULE Supervisor_proofs --------------------------
(***************************************************************************)
(* Theorems about Supervisor, for any choice of services and any number of *)
(* edits.                                                                  *)
(***************************************************************************)
EXTENDS Supervisor, TLAPS

-----------------------------------------------------------------------------
(* The invariant                                                           *)

(* SupervisorTypeOK, with procs as a function; and dev.mjs ends only by    *)
(* shutdown.                                                               *)
Types ==
  /\ procs \in [Service -> Seq(Process)]
  /\ src \in Version /\ built \in Version /\ staged \in [Service -> Version]
  /\ build \in [running : BOOLEAN, from : Version, sent : BOOLEAN, late : BOOLEAN]
  /\ startTimer \in BOOLEAN /\ debounce \in BOOLEAN /\ busy \in BOOLEAN /\ queued \in BOOLEAN
  /\ shuttingDown \in BOOLEAN /\ exited \in BOOLEAN /\ (exited => shuttingDown)
  /\ restart \in [at : {"none", "kill", "stagger"}, targets : SUBSET Rust]
  /\ killing \subseteq restart.targets

(* Only the last process launched for a service can run.                   *)
LastRuns == \A s \in Service : \A i \in 1..Len(procs[s]) :
  procs[s][i].state = "running" => i = Len(procs[s])

(* A cycle is a build or a restart, and only one of them.                  *)
Cycle ==
  /\ build.running => restart.at = "none"
  /\ build.running /\ ~shuttingDown => busy
  /\ restart.at # "none" => busy
  /\ restart.at # "kill" => killing = {}
  /\ restart.at = "stagger" => restart.targets = {"api", "worker"} /\ ~InUse("worker")

(* Before the start timer fires, only the API was launched, and no build   *)
(* has given anything new.                                                 *)
BeforeStart == startTimer =>
  /\ built = 0 /\ staged = [s \in Service |-> 0]
  /\ \A s \in Service \ {"api"} : procs[s] = <<>>

(* A restart is of services that were launched.                            *)
Known == \A s \in restart.targets : HasChild(s)

(* What was killed for a restart was sent a signal.                        *)
IntendedWasSent == \A s \in Service : \A i \in 1..Len(procs[s]) :
  procs[s][i].intended => procs[s][i].sent

(* Until shutdown, what runs without a signal is what was built last.      *)
Newest == ~shuttingDown =>
  /\ \A s \in Rust : \A i \in 1..Len(procs[s]) :
       procs[s][i].state = "running" /\ ~procs[s][i].sent => procs[s][i].of = built
  /\ restart.at = "stagger" => staged["worker"] = built

(* CrashStopsAll and ShutdownReachesAll, before dev.mjs has exited.        *)
Reached == shuttingDown =>
  /\ build.running => build.sent \/ build.late
  /\ \A s \in Service : \A i \in 1..Len(procs[s]) :
       procs[s][i].state = "running" => procs[s][i].sent \/ procs[s][i].late

SupInv == /\ Types /\ LastRuns /\ Cycle /\ BeforeStart /\ Known
          /\ IntendedWasSent /\ Newest /\ CrashStopsAll /\ Reached

(* The two services that are built.                                        *)
LEMMA ServiceNames == Rust \subseteq Service /\ Rust = {"api", "worker"} \cap Service
  BY DEF Rust

-----------------------------------------------------------------------------
(* What a step does to the processes                                       *)

(* Nothing is launched for the service, and its processes only get older:  *)
(* none runs again, none loses its signal, and one that is reaped was      *)
(* intended to end or is what stops everything.                            *)
Older(q, p) ==
  /\ q.of = p.of /\ q.late = p.late
  /\ q.state = "running" => p.state = "running"
  /\ p.sent => q.sent
  /\ q.intended => p.intended \/ q.sent
  /\ q.state = "reaped" => p.state = "reaped" \/ p.intended \/ shuttingDown'
Aged(s) ==
  /\ procs'[s] \in Seq(Process) /\ Len(procs'[s]) = Len(procs[s])
  /\ \A i \in 1..Len(procs[s]) : Older(procs'[s][i], procs[s][i])
AllAged == procs' \in [Service -> Seq(Process)] /\ \A s \in Service : Aged(s)

(* Once, the last processes and the build are sent a signal.               *)
Stops ==
  /\ shuttingDown'
  /\ IF shuttingDown THEN build' = build ELSE
     /\ build' = [build EXCEPT !.sent = build.running]
     /\ \A t \in Service : procs[t] # <<>> => procs'[t][Len(procs[t])].sent

(* One process more for each of some services that have none running.      *)
Launches(S, run) ==
  /\ \A s \in S : ~InUse(s) /\ (s \in Rust /\ ~shuttingDown => run[s] = built)
  /\ procs' = Launched(S, run) /\ UNCHANGED <<built, shuttingDown>>

(* A process that is launched comes last and runs the staged binary.       *)
LEMMA LaunchedType ==
  ASSUME Types, NEW S \in SUBSET Service, NEW run \in [Service -> Version]
  PROVE  Launched(S, run) \in [Service -> Seq(Process)]
<1>1. \A t \in Service : New(run[t]) \in Process
  BY DEF New, Process, Types
<1>2. procs \in [Service -> Seq(Process)]
  BY DEF Types
<1>3. ASSUME NEW t \in Service
      PROVE  Append(procs[t], New(run[t])) \in Seq(Process)
  <2>1. procs[t] \in Seq(Process) /\ New(run[t]) \in Process
    BY <1>1, <1>2
  <2> QED
    BY <2>1
<1> QED
  BY <1>2, <1>3 DEF Launched

(* A process that is launched is one more.                                 *)
LEMMA LaunchedOne ==
  ASSUME Types, NEW S \in SUBSET Service, NEW run \in [Service -> Version], NEW s \in Service
  PROVE  /\ s \notin S => Launched(S, run)[s] = procs[s]
         /\ s \in S =>
              /\ Len(Launched(S, run)[s]) = Len(procs[s]) + 1
              /\ \A i \in 1..Len(procs[s]) : Launched(S, run)[s][i] = procs[s][i]
              /\ Launched(S, run)[s][Len(procs[s]) + 1] = New(run[s])
<1>1. New(run[s]) \in Process
  BY DEF New, Process, Types
<1>2. procs[s] \in Seq(Process)
  BY DEF Types
<1>3. s \notin S => Launched(S, run)[s] = procs[s]
  BY DEF Launched
<1>4. s \in S => Launched(S, run)[s] = Append(procs[s], New(run[s]))
  BY DEF Launched
<1> QED
  BY <1>1, <1>2, <1>3, <1>4

(* A step that launches nothing and touches nothing.                       *)
LEMMA KeptIsAged ==
  ASSUME Types, UNCHANGED procs
  PROVE  AllAged
  BY DEF Types, AllAged, Aged, Older

(* One process is changed.                                                 *)
LEMMA ChangedIsAged ==
  ASSUME Types, NEW s \in Service, NEW i \in 1..Len(procs[s]), NEW q \in Process,
         Older(q, procs[s][i])
  PROVE  LET ps == [procs EXCEPT ![s][i] = q]
         IN /\ ps \in [Service -> Seq(Process)]
            /\ \A t \in Service :
                 /\ Len(ps[t]) = Len(procs[t])
                 /\ \A j \in 1..Len(procs[t]) :
                      ps[t][j] = IF t = s /\ j = i THEN q ELSE procs[t][j]
<1> DEFINE ps == [procs EXCEPT ![s][i] = q]
<1>1. procs \in [Service -> Seq(Process)]
  BY DEF Types
<1>2. ps[s] = [procs[s] EXCEPT ![i] = q] /\ \A t \in Service \ {s} : ps[t] = procs[t]
  BY <1>1
<1>3. /\ ps[s] \in Seq(Process) /\ Len(ps[s]) = Len(procs[s])
      /\ \A j \in 1..Len(procs[s]) : ps[s][j] = IF j = i THEN q ELSE procs[s][j]
  BY <1>1, <1>2
<1>4. ps \in [Service -> Seq(Process)]
  BY <1>1, <1>2, <1>3
<1> QED
  BY <1>2, <1>3, <1>4

(* One process gets older and nothing else happens to the processes.       *)
LEMMA OneAged ==
  ASSUME Types, NEW s \in Service, NEW i \in 1..Len(procs[s]), NEW q \in Process,
         Older(q, procs[s][i]), procs' = [procs EXCEPT ![s][i] = q]
  PROVE  AllAged
<1>1. /\ procs' \in [Service -> Seq(Process)]
      /\ \A t \in Service :
           /\ Len(procs'[t]) = Len(procs[t])
           /\ \A j \in 1..Len(procs[t]) :
                procs'[t][j] = IF t = s /\ j = i THEN q ELSE procs[t][j]
  BY ChangedIsAged
<1>2. ASSUME NEW t \in Service, NEW j \in 1..Len(procs[t])
      PROVE  Older(procs'[t][j], procs[t][j])
  <2>1. CASE t = s /\ j = i
    BY <1>1, <2>1
  <2>2. CASE ~(t = s /\ j = i)
    <3>1. procs'[t][j] = procs[t][j]
      BY <1>1, <2>2
    <3> QED
      BY <3>1 DEF Older
  <2> QED
    BY <2>1, <2>2
<1> QED
  BY <1>1, <1>2 DEF AllAged, Aged

(* Shutdown sends every last process and the build a signal.               *)
LEMMA ShutDownAges ==
  ASSUME Types, NEW ps \in [Service -> Seq(Process)], ShutDown(ps),
         \A t \in Service :
           /\ Len(ps[t]) = Len(procs[t])
           /\ \A j \in 1..Len(procs[t]) : Older(ps[t][j], procs[t][j])
  PROVE  AllAged /\ Stops
<1> DEFINE SentTo(t) == [ps[t] EXCEPT ![Listed(t)].sent = TRUE]
<1>1. CASE shuttingDown
  <2>1. procs' = ps /\ build' = build /\ shuttingDown'
    BY <1>1 DEF ShutDown
  <2>2. AllAged
    BY <2>1 DEF AllAged, Aged
  <2> QED
    BY <1>1, <2>1, <2>2 DEF Stops
<1>2. CASE ~shuttingDown
  <2>1. /\ procs' = [t \in Service |-> IF HasChild(t) THEN SentTo(t) ELSE ps[t]]
        /\ build' = [build EXCEPT !.sent = build.running] /\ shuttingDown'
    BY <1>2 DEF ShutDown
  <2>2. ASSUME NEW t \in Service
        PROVE  /\ Aged(t)
               /\ procs[t] # <<>> => procs'[t][Len(procs[t])].sent
    <3>0. procs[t] \in Seq(Process) /\ ps[t] \in Seq(Process) /\ Len(ps[t]) = Len(procs[t])
      BY DEF Types
    <3>1. CASE procs[t] # <<>>
      <4> DEFINE n == Len(procs[t])
      <4>1. n \in 1..Len(ps[t]) /\ Listed(t) = n
        BY <3>0, <3>1 DEF Listed
      <4>2. procs'[t] = [ps[t] EXCEPT ![n].sent = TRUE]
        BY <2>1, <3>1, <4>1 DEF HasChild
      <4>3. ps[t][n] \in Process
        BY <3>0, <4>1
      <4>4. [ps[t][n] EXCEPT !.sent = TRUE] \in Process
        BY <4>3 DEF Process
      <4>5. procs'[t] \in Seq(Process) /\ Len(procs'[t]) = n
        BY <3>0, <4>1, <4>2, <4>4
      <4>6. \A j \in 1..n :
              procs'[t][j] = IF j = n THEN [ps[t][n] EXCEPT !.sent = TRUE] ELSE ps[t][j]
        BY <3>0, <4>1, <4>2
      <4>7. procs'[t][n] = [ps[t][n] EXCEPT !.sent = TRUE] /\ procs'[t][n].sent
        BY <4>1, <4>3, <4>6, <3>0 DEF Process
      <4>8. Older(procs'[t][n], procs[t][n])
        <5>1. Older(ps[t][n], procs[t][n])
          BY <4>1, <3>0
        <5>2. /\ procs'[t][n].of = ps[t][n].of /\ procs'[t][n].late = ps[t][n].late
              /\ procs'[t][n].state = ps[t][n].state
              /\ procs'[t][n].intended = ps[t][n].intended
          BY <4>3, <4>7 DEF Process
        <5> QED
          BY <5>1, <5>2, <4>7 DEF Older
      <4>9. \A j \in 1..n : Older(procs'[t][j], procs[t][j])
        BY <4>6, <4>8
      <4> QED
        BY <4>5, <4>7, <4>9 DEF Aged
    <3>2. CASE procs[t] = <<>>
      <4>1. procs'[t] = ps[t]
        BY <2>1, <3>2 DEF HasChild
      <4> QED
        BY <3>0, <3>2, <4>1 DEF Aged
    <3> QED
      BY <3>1, <3>2
  <2>3. procs' \in [Service -> Seq(Process)]
    BY <2>1, <2>2 DEF Aged
  <2> QED
    BY <1>2, <2>1, <2>2, <2>3 DEF AllAged, Stops
<1> QED
  BY <1>1, <1>2

-----------------------------------------------------------------------------
(* The steps                                                               *)

(* A process ends, or its exit event is handled.                           *)
LEMMA EndsAges ==
  ASSUME Types, NEW s \in Service, NEW i \in 1..Len(procs[s]), Ends(s, i)
  PROVE  AllAged
<1>0. procs[s] \in Seq(Process)
  BY DEF Types
<1>1. procs[s][i] \in Process
  BY <1>0
<1>2. PICK c \in BOOLEAN :
        procs' = [procs EXCEPT ![s][i] = [procs[s][i] EXCEPT !.state = "dead", !.code = c]]
  BY DEF Ends
<1> DEFINE q == [procs[s][i] EXCEPT !.state = "dead", !.code = c]
<1>3. q \in Process /\ Older(q, procs[s][i])
  BY <1>1 DEF Process, Older
<1>4. procs' = [procs EXCEPT ![s][i] = q]
  BY <1>2
<1> QED
  BY <1>3, <1>4, OneAged

(* The exit of a process is noticed.                                       *)
LEMMA ExitEventAges ==
  ASSUME Types, NEW s \in Service, NEW i \in 1..Len(procs[s]), ExitEvent(s, i)
  PROVE  /\ AllAged
         /\ Stops \/ UNCHANGED <<build, shuttingDown>>
<1> DEFINE q == [procs[s][i] EXCEPT !.state = "reaped", !.intended = FALSE]
           ps == [procs EXCEPT ![s][i] = q]
<1>0. procs[s] \in Seq(Process)
  BY DEF Types
<1>1. procs[s][i] \in Process
  BY <1>0
<1>2. q \in Process
  BY <1>1 DEF Process
<1>3. IF Intended(s, i) THEN procs' = ps /\ UNCHANGED <<build, shuttingDown>>
                        ELSE ShutDown(ps)
  BY DEF ExitEvent
<1>4. Older(q, procs[s][i])
  <2>1. ~Intended(s, i) => shuttingDown'
    BY <1>3 DEF ShutDown
  <2> QED
    BY <1>1, <2>1 DEF Process, Older, Intended
<1>5. CASE Intended(s, i)
  BY <1>2, <1>3, <1>4, <1>5, OneAged
<1>6. CASE ~Intended(s, i)
  <2>1. /\ ps \in [Service -> Seq(Process)]
        /\ \A t \in Service :
             /\ Len(ps[t]) = Len(procs[t])
             /\ \A j \in 1..Len(procs[t]) :
                  ps[t][j] = IF t = s /\ j = i THEN q ELSE procs[t][j]
    BY <1>2, <1>4, ChangedIsAged
  <2>2. \A t \in Service : \A j \in 1..Len(procs[t]) : Older(ps[t][j], procs[t][j])
    <3>1. ASSUME NEW t \in Service, NEW j \in 1..Len(procs[t])
          PROVE  Older(ps[t][j], procs[t][j])
      <4>1. CASE t = s /\ j = i
        BY <1>4, <2>1, <4>1
      <4>2. CASE ~(t = s /\ j = i)
        <5>1. ps[t][j] = procs[t][j]
          BY <2>1, <4>2
        <5> HIDE DEF ps
        <5> QED
          BY <5>1 DEF Older
      <4> QED
        BY <4>1, <4>2
    <3> QED
      BY <3>1
  <2>3. ShutDown(ps)
    BY <1>3, <1>6
  <2> HIDE DEF ps
  <2> QED
    BY <2>1, <2>2, <2>3, ShutDownAges
<1> QED
  BY <1>5, <1>6

(* A process that cannot be started.                                       *)
LEMMA SpawnErrorAges ==
  ASSUME Types, NEW s \in Service, SpawnError(s)
  PROVE  AllAged /\ Stops
<1> DEFINE i == Len(procs[s])
           q == [procs[s][i] EXCEPT !.state = "reaped", !.code = TRUE]
           ps == [procs EXCEPT ![s][i] = q]
<1>0. procs[s] \in Seq(Process) /\ procs[s] # <<>>
  BY DEF Types, SpawnError, HasChild
<1>1. i \in 1..Len(procs[s]) /\ procs[s][i] \in Process
  BY <1>0
<1>2. q \in Process
  BY <1>1 DEF Process
<1>3. ShutDown(ps) /\ shuttingDown'
  BY DEF SpawnError, ShutDown, Listed
<1>4. Older(q, procs[s][i])
  BY <1>1, <1>3 DEF Process, Older
<1>5. /\ ps \in [Service -> Seq(Process)]
      /\ \A t \in Service :
           /\ Len(ps[t]) = Len(procs[t])
           /\ \A j \in 1..Len(procs[t]) :
                ps[t][j] = IF t = s /\ j = i THEN q ELSE procs[t][j]
  BY <1>1, <1>2, <1>4, ChangedIsAged
<1>6. ASSUME NEW t \in Service, NEW j \in 1..Len(procs[t])
      PROVE  Older(ps[t][j], procs[t][j])
  <2>1. CASE t = s /\ j = i
    BY <1>4, <1>5, <2>1
  <2>2. CASE ~(t = s /\ j = i)
    <3>1. ps[t][j] = procs[t][j]
      BY <1>5, <2>2
    <3> HIDE DEF ps, i
    <3> QED
      BY <3>1 DEF Older
  <2> QED
    BY <2>1, <2>2
<1> HIDE DEF ps
<1> QED
  BY <1>3, <1>5, <1>6, ShutDownAges

(* Processes that the terminal interrupts.                                 *)
LEMMA InterruptAges ==
  ASSUME Types, Interrupt
  PROVE  AllAged /\ Stops
<1>1. procs \in [Service -> Seq(Process)] /\ ShutDown(procs)
  BY DEF Types, Interrupt
<1>2. \A t \in Service : \A j \in 1..Len(procs[t]) : Older(procs[t][j], procs[t][j])
  BY DEF Older
<1> QED
  BY <1>1, <1>2, ShutDownAges

(* killChild sends the last process a signal, unless it is over.           *)
LEMMA KilledIsOlder ==
  ASSUME Types, NEW s \in Service
  PROVE  /\ KilledChild(s) \in Seq(Process) /\ Len(KilledChild(s)) = Len(procs[s])
         /\ \A i \in 1..Len(procs[s]) : Older(KilledChild(s)[i], procs[s][i])
         /\ procs[s] # <<>> /\ procs[s][Len(procs[s])].state = "running"
              => KilledChild(s)[Len(procs[s])].sent
<1> DEFINE n == Len(procs[s])
<1>0. procs[s] \in Seq(Process)
  BY DEF Types
<1>1. CASE ~Awaited(s)
  <2>1. KilledChild(s) = procs[s]
    BY <1>1 DEF KilledChild
  <2>2. procs[s] # <<>> => procs[s][n].state # "running"
    BY <1>1 DEF Awaited, HasChild, Child, Listed
  <2> QED
    BY <1>0, <2>1, <2>2 DEF Older
<1>2. CASE Awaited(s)
  <2> DEFINE q == [procs[s][n] EXCEPT !.sent = TRUE, !.intended = TRUE]
  <2>1. n \in 1..Len(procs[s]) /\ procs[s][n] \in Process
    BY <1>0, <1>2 DEF Awaited, HasChild
  <2>2. q \in Process /\ Older(q, procs[s][n]) /\ q.sent
    BY <2>1 DEF Process, Older
  <2>3. KilledChild(s) = [procs[s] EXCEPT ![n] = q]
    BY <1>0, <1>2, <2>1 DEF KilledChild, Listed, Process
  <2>4. KilledChild(s) \in Seq(Process) /\ Len(KilledChild(s)) = n
    BY <1>0, <2>1, <2>2, <2>3
  <2>5. \A j \in 1..n : KilledChild(s)[j] = IF j = n THEN q ELSE procs[s][j]
    BY <1>0, <2>1, <2>3
  <2>6. ASSUME NEW j \in 1..n
        PROVE  Older(KilledChild(s)[j], procs[s][j])
    <3>1. CASE j = n
      BY <2>2, <2>5, <3>1
    <3>2. CASE j # n
      <4>1. KilledChild(s)[j] = procs[s][j]
        BY <2>5, <3>2
      <4> QED
        BY <4>1 DEF Older
    <3> QED
      BY <3>1, <3>2
  <2>7. KilledChild(s)[n].sent
    BY <2>1, <2>2, <2>5
  <2> QED
    BY <2>4, <2>6, <2>7
<1> QED
  BY <1>1, <1>2

(* A build that succeeds sends what will be restarted a signal.            *)
LEMMA BuildSucceedsAges ==
  ASSUME Types, LastRuns, BuildSucceeds
  PROVE  /\ AllAged
         /\ ~shuttingDown => \A s \in Rust : \A i \in 1..Len(procs[s]) :
              procs'[s][i].state = "running" => procs'[s][i].sent
<1>0. procs \in [Service -> Seq(Process)]
  BY DEF Types
<1>1. CASE shuttingDown \/ Targets = {}
  <2>1. UNCHANGED procs
    BY <1>1 DEF BuildSucceeds
  <2>2. ~shuttingDown => \A s \in Rust : procs[s] = <<>>
    BY <1>1 DEF Targets, HasChild
  <2>3. ~shuttingDown => \A s \in Rust : 1..Len(procs[s]) = {}
    BY <2>2
  <2> QED
    BY <2>1, <2>3, KeptIsAged
<1>2. CASE ~(shuttingDown \/ Targets = {})
  <2>1. procs' = [s \in Service |-> IF s \in Targets THEN KilledChild(s) ELSE procs[s]]
    BY <1>2 DEF BuildSucceeds
  <2>2. ASSUME NEW s \in Service
        PROVE  Aged(s)
    <3>1. CASE s \in Targets
      <4>1. procs'[s] = KilledChild(s)
        BY <2>1, <3>1
      <4> QED
        BY <4>1, KilledIsOlder DEF Aged
    <3>2. CASE s \notin Targets
      <4>1. procs'[s] = procs[s]
        BY <2>1, <3>2
      <4> QED
        BY <1>0, <4>1 DEF Aged, Older
    <3> QED
      BY <3>1, <3>2
  <2>3. procs' \in [Service -> Seq(Process)]
    BY <2>1, <2>2 DEF Aged
  <2>4. ASSUME NEW s \in Rust, NEW i \in 1..Len(procs[s]), procs'[s][i].state = "running"
        PROVE  procs'[s][i].sent
    <3>1. s \in Service /\ procs[s] \in Seq(Process)
      BY <1>0, ServiceNames
    <3>2. procs[s] # <<>>
      BY <3>1
    <3>3. procs'[s] = KilledChild(s)
      BY <2>1, <3>1, <3>2, <2>4 DEF Targets, HasChild
    <3>4. procs[s][i].state = "running"
      BY <2>2, <2>4, <3>1 DEF Aged, Older
    <3>5. i = Len(procs[s])
      BY <3>1, <3>4 DEF LastRuns
    <3> QED
      BY <3>1, <3>2, <3>3, <3>4, <3>5, KilledIsOlder
  <2> QED
    BY <2>2, <2>3, <2>4 DEF AllAged
<1> QED
  BY <1>1, <1>2

(* The three steps that launch processes.                                  *)
LEMMA StepsThatLaunch ==
  ASSUME SupInv, StartRest \/ Stage \/ LaunchWorker
  PROVE  \E S \in SUBSET Service, run \in [Service -> Version] :
           Launches(S, run) /\ staged' \in [Service -> Version]
<1>0. procs \in [Service -> Seq(Process)] /\ staged \in [Service -> Version]
  BY DEF SupInv, Types
<1>1. CASE StartRest
  <2>1. \A s \in Service \ {"api"} : procs[s] = <<>>
    BY <1>1 DEF SupInv, BeforeStart, StartRest
  <2>2. ASSUME NEW s \in Service \ {"api"}
        PROVE  ~InUse(s)
    <3>1. 1..Len(procs[s]) = {}
      BY <2>1
    <3> QED
      BY <3>1 DEF InUse
  <2>3. \A s \in Service : staged[s] = built
    BY <1>1 DEF SupInv, BeforeStart, StartRest
  <2>4. Launches(Service \ {"api"}, staged)
    BY <1>1, <2>2, <2>3, ServiceNames DEF Launches, StartRest
  <2>5. staged' = staged
    BY <1>1 DEF StartRest
  <2> QED
    BY <1>0, <2>4, <2>5
<1>2. CASE Stage
  <2>1. restart.targets \subseteq Rust /\ built \in Version
    BY DEF SupInv, Types
  <2>2. staged' = [s \in Service |-> IF s \in restart.targets THEN built ELSE staged[s]]
    BY <1>2 DEF Stage, StagedIn
  <2>3. staged' \in [Service -> Version]
    BY <1>0, <2>1, <2>2
  <2>4. \A s \in restart.targets : ~InUse(s) /\ staged'[s] = built
    BY <1>2, <2>1, <2>2, ServiceNames DEF Stage
  <2>5. UNCHANGED <<built, shuttingDown>>
    BY <1>2 DEF Stage
  <2>6. CASE restart.targets = {"api", "worker"}
    <3>1. procs' = Launched({"api"}, staged')
      BY <1>2, <2>6 DEF Stage
    <3>2. {"api"} \subseteq Service
      BY <2>1, <2>6, ServiceNames
    <3>3. Launches({"api"}, staged')
      BY <2>4, <2>5, <2>6, <3>1 DEF Launches
    <3> QED
      BY <2>3, <3>2, <3>3
  <2>7. CASE restart.targets # {"api", "worker"}
    <3>1. procs' = Launched(restart.targets, staged')
      BY <1>2, <2>7 DEF Stage
    <3>2. restart.targets \in SUBSET Service
      BY <2>1, ServiceNames
    <3>3. Launches(restart.targets, staged')
      BY <2>4, <2>5, <3>1 DEF Launches
    <3> QED
      BY <2>3, <3>2, <3>3
  <2> QED
    BY <2>6, <2>7
<1>3. CASE LaunchWorker
  <2>1. restart.targets = {"api", "worker"} /\ ~InUse("worker") /\ restart.targets \subseteq Rust
    BY <1>3 DEF SupInv, Types, Cycle, LaunchWorker
  <2>2. "worker" \in Service
    BY <2>1, ServiceNames
  <2>3. ~shuttingDown => staged["worker"] = built
    BY <1>3 DEF SupInv, Newest, LaunchWorker
  <2>4. Launches({"worker"}, staged) /\ staged' = staged
    BY <1>3, <2>1, <2>3 DEF Launches, LaunchWorker
  <2> QED
    BY <1>0, <2>2, <2>4
<1> QED
  BY <1>1, <1>2, <1>3

-----------------------------------------------------------------------------
(* The invariant is kept: the part about the processes                     *)

Processes == LastRuns /\ IntendedWasSent /\ CrashStopsAll

(* Processes that only age keep the invariant.                             *)
LEMMA AgedKeeps ==
  ASSUME SupInv, AllAged, shuttingDown => shuttingDown'
  PROVE  Processes'
<1>1. \A s \in Service : Len(procs'[s]) = Len(procs[s])
  BY DEF AllAged, Aged
<1>2. ASSUME NEW s \in Service, NEW i \in 1..Len(procs[s])
      PROVE  /\ procs'[s][i].state = "running" => i = Len(procs[s])
             /\ procs'[s][i].intended => procs'[s][i].sent
             /\ procs'[s][i].state = "reaped" /\ ~procs'[s][i].sent => shuttingDown'
  <2>1. Older(procs'[s][i], procs[s][i])
    BY DEF AllAged, Aged
  <2> QED
    BY <2>1 DEF Older, SupInv, LastRuns, IntendedWasSent, CrashStopsAll
<1> QED
  BY <1>1, <1>2 DEF Processes, LastRuns, IntendedWasSent, CrashStopsAll

(* A launch finds no process running, so the new one is the only one.      *)
LEMMA LaunchKeeps ==
  ASSUME SupInv, NEW S \in SUBSET Service, NEW run \in [Service -> Version], Launches(S, run)
  PROVE  /\ procs' \in [Service -> Seq(Process)] /\ Processes'
         /\ \A s \in Service : \A i \in 1..Len(procs'[s]) :
              \/ i \in 1..Len(procs[s]) /\ procs'[s][i] = procs[s][i]
              \/ /\ procs'[s][i] = New(run[s])
                 /\ s \in Rust /\ ~shuttingDown => run[s] = built
<1>0. Types /\ procs' = Launched(S, run) /\ shuttingDown' = shuttingDown
  BY DEF SupInv, Launches
<1>1. procs' \in [Service -> Seq(Process)]
  BY <1>0, LaunchedType
<1>2. ASSUME NEW s \in Service, NEW i \in 1..Len(procs'[s])
      PROVE  \/ /\ i \in 1..Len(procs[s]) /\ procs'[s][i] = procs[s][i]
                /\ s \in S => procs[s][i].state # "running"
                /\ s \notin S => Len(procs'[s]) = Len(procs[s])
             \/ /\ procs'[s][i] = New(run[s]) /\ i = Len(procs'[s])
                /\ s \in Rust /\ ~shuttingDown => run[s] = built
  <2>0. Len(procs[s]) \in Nat
    BY <1>0 DEF Types
  <2>1. CASE s \notin S
    <3>1. procs'[s] = procs[s]
      BY <1>0, <2>1, LaunchedOne
    <3> QED
      BY <2>1, <3>1
  <2>2. CASE s \in S
    <3>1. /\ Len(procs'[s]) = Len(procs[s]) + 1
          /\ \A j \in 1..Len(procs[s]) : procs'[s][j] = procs[s][j]
          /\ procs'[s][Len(procs[s]) + 1] = New(run[s])
      BY <1>0, <2>2, LaunchedOne
    <3>2. \A j \in 1..Len(procs[s]) : procs[s][j].state # "running"
      BY <2>2 DEF Launches, InUse
    <3>3. s \in Rust /\ ~shuttingDown => run[s] = built
      BY <2>2 DEF Launches
    <3>4. i \in 1..Len(procs[s]) \/ i = Len(procs[s]) + 1
      BY <2>0, <3>1
    <3> QED
      BY <2>2, <3>1, <3>2, <3>3, <3>4
  <2> QED
    BY <2>1, <2>2
<1>3. ASSUME NEW s \in Service, NEW i \in 1..Len(procs'[s])
      PROVE  /\ procs'[s][i].state = "running" => i = Len(procs'[s])
             /\ procs'[s][i].intended => procs'[s][i].sent
             /\ procs'[s][i].state = "reaped" /\ ~procs'[s][i].sent => shuttingDown'
  <2>1. CASE procs'[s][i] = New(run[s]) /\ i = Len(procs'[s])
    BY <2>1 DEF New
  <2>2. CASE i \in 1..Len(procs[s]) /\ procs'[s][i] = procs[s][i]
    <3>1. /\ procs[s][i].state = "running" => i = Len(procs[s])
          /\ procs[s][i].intended => procs[s][i].sent
          /\ procs[s][i].state = "reaped" /\ ~procs[s][i].sent => shuttingDown
      BY <2>2 DEF SupInv, LastRuns, IntendedWasSent, CrashStopsAll
    <3> QED
      BY <1>0, <1>2, <2>2, <3>1
  <2> QED
    BY <1>2, <2>1, <2>2
<1>4. Processes'
  BY <1>3 DEF Processes, LastRuns, IntendedWasSent, CrashStopsAll
<1> QED
  BY <1>1, <1>2, <1>4

-----------------------------------------------------------------------------
(* The invariant is kept: the rest of the state                            *)

Rest == /\ src \in Version /\ built \in Version /\ staged \in [Service -> Version]
        /\ build \in [running : BOOLEAN, from : Version, sent : BOOLEAN, late : BOOLEAN]
        /\ startTimer \in BOOLEAN /\ debounce \in BOOLEAN /\ busy \in BOOLEAN
        /\ queued \in BOOLEAN /\ shuttingDown \in BOOLEAN /\ exited \in BOOLEAN
        /\ exited => shuttingDown
        /\ restart \in [at : {"none", "kill", "stagger"}, targets : SUBSET Rust]
        /\ killing \subseteq restart.targets

(* finishCycle and startBuild.                                             *)
LEMMA StartedBuild ==
  ASSUME SupInv, StartBuild
  PROVE  /\ build' \in [running : BOOLEAN, from : Version, sent : BOOLEAN, late : BOOLEAN]
         /\ build'.running /\ (shuttingDown => build'.late)
  BY DEF SupInv, Types, StartBuild

(* When no build runs, none is staged.                                     *)
LEMMA BuildIsOver ==
  ASSUME SupInv, BuildOver
  PROVE  /\ build' \in [running : BOOLEAN, from : Version, sent : BOOLEAN, late : BOOLEAN]
         /\ ~build'.running
  BY DEF SupInv, Types, BuildOver

(* A cycle that ends leaves no timer and no build behind.                  *)
LEMMA CycleEnds ==
  ASSUME SupInv, FinishCycle
  PROVE  /\ build' \in [running : BOOLEAN, from : Version, sent : BOOLEAN, late : BOOLEAN]
         /\ busy' \in BOOLEAN /\ queued' \in BOOLEAN
         /\ build'.running => busy'
         /\ shuttingDown /\ build'.running => build'.sent \/ build'.late
<1>1. queued \in BOOLEAN /\ busy' = queued /\ queued' = FALSE
  BY DEF SupInv, Types, FinishCycle
<1>2. CASE queued
  BY <1>1, <1>2, StartedBuild DEF FinishCycle
<1>3. CASE ~queued
  BY <1>1, <1>3, BuildIsOver DEF FinishCycle
<1> QED
  BY <1>2, <1>3

(* Steps that change neither the processes nor what was built.             *)
LEMMA QuietKeeps ==
  ASSUME SupInv, UNCHANGED <<procs, built, shuttingDown>>, Rest', Cycle',
         startTimer' => startTimer /\ staged' = staged,
         restart'.targets \subseteq restart.targets,
         restart'.at = "stagger" => restart.at = "stagger" /\ staged' = staged,
         shuttingDown /\ build'.running => build'.sent \/ build'.late
  PROVE  SupInv'
<1>1. Types' /\ Processes'
  <2>1. Types
    BY DEF SupInv
  <2>2. AllAged
    BY <2>1, KeptIsAged
  <2>3. Processes'
    BY <2>2, AgedKeeps
  <2> QED
    BY <2>2, <2>3 DEF AllAged, Types, Rest
<1>2. BeforeStart'
  BY DEF SupInv, BeforeStart
<1>3. Known'
  BY DEF SupInv, Known, HasChild
<1>4. Newest'
  BY DEF SupInv, Newest
<1>5. Reached'
  BY DEF SupInv, Reached
<1> QED
  BY <1>1, <1>2, <1>3, <1>4, <1>5 DEF SupInv, Processes

(* Steps that only age processes and may stop everything.                  *)
LEMMA AgedStep ==
  ASSUME SupInv, AllAged, Stops \/ UNCHANGED <<build, shuttingDown>>,
         UNCHANGED <<src, built, staged, watch, restart>>, killing' \subseteq killing,
         exited' = exited
  PROVE  SupInv'
<1>0. /\ UNCHANGED <<startTimer, debounce, busy, queued>>
      /\ shuttingDown => shuttingDown'
      /\ shuttingDown' \in BOOLEAN /\ Types
  BY DEF watch, Stops, SupInv, Types
<1>1. build' \in [running : BOOLEAN, from : Version, sent : BOOLEAN, late : BOOLEAN]
  BY DEF Stops, SupInv, Types
<1>2. build'.running => build.running
  BY DEF Stops, SupInv, Types
<1>3. Types'
  <2>1. killing' \subseteq restart'.targets
    BY DEF SupInv, Types
  <2>2. procs' \in [Service -> Seq(Process)]
    BY DEF AllAged
  <2> QED
    BY <1>0, <1>1, <2>1, <2>2 DEF Types
<1>4. Processes'
  BY <1>0, AgedKeeps
<1>5. \A s \in Service : /\ Len(procs'[s]) = Len(procs[s])
                         /\ procs[s] \in Seq(Process) /\ procs'[s] \in Seq(Process)
                         /\ \A i \in 1..Len(procs[s]) : Older(procs'[s][i], procs[s][i])
  BY <1>0, <1>3 DEF AllAged, Aged, Types
<1>6. \A s \in Service : procs'[s] = <<>> <=> procs[s] = <<>>
  BY <1>5
<1>7. Cycle'
  <2>1. InUse("worker")' /\ "worker" \in Service => InUse("worker")
    BY <1>5 DEF InUse, Older
  <2>2. restart.at = "stagger" => "worker" \in Service
    BY ServiceNames DEF SupInv, Types, Cycle
  <2> QED
    BY <1>0, <1>2, <2>1, <2>2 DEF SupInv, Cycle
<1>8. BeforeStart' /\ Known'
  <2>1. restart.targets \subseteq Service
    BY <1>0, ServiceNames DEF Types
  <2> QED
    BY <1>0, <1>6, <2>1 DEF SupInv, BeforeStart, Known, HasChild
<1>9. Newest'
  <2>1. ASSUME ~shuttingDown', NEW s \in Rust, NEW i \in 1..Len(procs'[s]),
               procs'[s][i].state = "running", ~procs'[s][i].sent
        PROVE  procs'[s][i].of = built
    <3>1. i \in 1..Len(procs[s]) /\ Older(procs'[s][i], procs[s][i])
      BY <1>5, <2>1, ServiceNames
    <3> QED
      BY <1>0, <2>1, <3>1 DEF Older, SupInv, Newest
  <2> QED
    BY <1>0, <2>1 DEF SupInv, Newest
<1>10. Reached'
  <2>1. CASE shuttingDown
    <3>1. build' = build
      BY <2>1 DEF Stops
    <3>2. ASSUME NEW s \in Service, NEW i \in 1..Len(procs'[s]), procs'[s][i].state = "running"
          PROVE  procs'[s][i].sent \/ procs'[s][i].late
      BY <1>5, <2>1, <3>2 DEF SupInv, Reached, Older
    <3> QED
      BY <2>1, <3>1, <3>2 DEF SupInv, Reached
  <2>2. CASE ~shuttingDown /\ shuttingDown'
    <3>1. Stops
      BY <2>2
    <3>2. build'.running => build'.sent
      BY <1>0, <2>2, <3>1 DEF Stops, Types
    <3>3. ASSUME NEW s \in Service, NEW i \in 1..Len(procs'[s]), procs'[s][i].state = "running"
          PROVE  procs'[s][i].sent
      <4>1. i \in 1..Len(procs[s]) /\ procs[s][i].state = "running"
        BY <1>5, <3>3 DEF Older
      <4>2. i = Len(procs[s]) /\ procs[s] # <<>>
        BY <1>5, <4>1 DEF SupInv, LastRuns
      <4> QED
        BY <2>2, <3>1, <4>2 DEF Stops
    <3> QED
      BY <3>2, <3>3 DEF Reached
  <2>3. CASE ~shuttingDown'
    BY <2>3 DEF Reached
  <2> QED
    BY <2>1, <2>2, <2>3
<1> QED
  BY <1>3, <1>4, <1>7, <1>8, <1>9, <1>10 DEF SupInv, Processes

(* Steps that launch processes.                                            *)
LEMMA LaunchStep ==
  ASSUME SupInv, NEW S \in SUBSET Service, NEW run \in [Service -> Version], Launches(S, run),
         Rest', Cycle', BeforeStart',
         restart'.targets \subseteq restart.targets,
         restart'.at = "stagger" => staged'["worker"] = built,
         shuttingDown /\ build'.running => build'.sent \/ build'.late
  PROVE  SupInv'
<1>0. shuttingDown' = shuttingDown /\ built' = built
  BY DEF Launches
<1>1. /\ procs' \in [Service -> Seq(Process)] /\ Processes'
      /\ \A s \in Service : \A i \in 1..Len(procs'[s]) :
           \/ i \in 1..Len(procs[s]) /\ procs'[s][i] = procs[s][i]
           \/ /\ procs'[s][i] = New(run[s])
              /\ s \in Rust /\ ~shuttingDown => run[s] = built
  BY LaunchKeeps
<1>2. Types'
  BY <1>1 DEF Types, Rest
<1>3. Known'
  <2>1. restart.targets \subseteq Service
    BY ServiceNames DEF SupInv, Types
  <2>2. ASSUME NEW s \in Service, procs[s] # <<>>
        PROVE  procs'[s] # <<>>
    <3>0. Types /\ procs' = Launched(S, run) /\ procs[s] \in Seq(Process)
      BY DEF SupInv, Launches, Types
    <3>1. CASE s \notin S
      BY <2>2, <3>0, <3>1, LaunchedOne
    <3>2. CASE s \in S
      <4>1. Len(procs'[s]) = Len(procs[s]) + 1 /\ Len(procs[s]) \in Nat
        BY <3>0, <3>2, LaunchedOne
      <4> QED
        BY <4>1
    <3> QED
      BY <3>1, <3>2
  <2> QED
    BY <2>1, <2>2 DEF SupInv, Known, HasChild
<1>4. Newest'
  <2>1. ASSUME ~shuttingDown, NEW s \in Rust, NEW i \in 1..Len(procs'[s]),
               procs'[s][i].state = "running", ~procs'[s][i].sent
        PROVE  procs'[s][i].of = built
    <3>1. s \in Service
      BY ServiceNames
    <3>2. CASE i \in 1..Len(procs[s]) /\ procs'[s][i] = procs[s][i]
      BY <2>1, <3>2 DEF SupInv, Newest
    <3>3. CASE procs'[s][i] = New(run[s]) /\ run[s] = built
      BY <3>3 DEF New
    <3> QED
      BY <1>1, <2>1, <3>1, <3>2, <3>3
  <2> QED
    BY <1>0, <2>1 DEF Newest
<1>5. Reached'
  <2>1. ASSUME shuttingDown, NEW s \in Service, NEW i \in 1..Len(procs'[s]),
               procs'[s][i].state = "running"
        PROVE  procs'[s][i].sent \/ procs'[s][i].late
    <3>1. CASE i \in 1..Len(procs[s]) /\ procs'[s][i] = procs[s][i]
      BY <2>1, <3>1 DEF SupInv, Reached
    <3>2. CASE procs'[s][i] = New(run[s])
      BY <2>1, <3>2 DEF New
    <3> QED
      BY <1>1, <3>1, <3>2
  <2> QED
    BY <1>0, <2>1 DEF Reached
<1> QED
  BY <1>1, <1>2, <1>3, <1>4, <1>5 DEF SupInv, Processes

(* The start of the services that are not built.                           *)
LEMMA StartRestKeeps ==
  ASSUME SupInv, StartRest
  PROVE  SupInv'
<1>1. PICK S \in SUBSET Service, run \in [Service -> Version] : Launches(S, run)
  BY StepsThatLaunch
<1>2. Rest' /\ BeforeStart'
  BY DEF StartRest, SupInv, Types, Rest, BeforeStart
<1>3. restart.at # "stagger"
  <2>1. CASE restart.at = "stagger"
    <3>1. "worker" \in restart.targets /\ "worker" \in Service
      BY <2>1, ServiceNames DEF SupInv, Cycle, Types
    <3>2. procs["worker"] = <<>>
      BY <3>1 DEF SupInv, BeforeStart, StartRest
    <3> QED
      BY <3>1, <3>2 DEF SupInv, Known, HasChild
  <2> QED
    BY <2>1
<1>4. Cycle'
  BY <1>3 DEF StartRest, SupInv, Cycle
<1> QED
  BY <1>1, <1>2, <1>3, <1>4, LaunchStep DEF StartRest, SupInv, Reached

(* A restart before the start timer can only be of the API.                *)
LEMMA EarlyTargets ==
  ASSUME SupInv, startTimer
  PROVE  restart.targets \subseteq {"api"}
<1>1. restart.targets \subseteq Service
  BY ServiceNames DEF SupInv, Types
<1>2. \A s \in restart.targets : procs[s] # <<>>
  BY DEF SupInv, Known, HasChild
<1> QED
  BY <1>1, <1>2 DEF SupInv, BeforeStart

(* A binary is staged.                                                     *)
LEMMA StageKeeps ==
  ASSUME SupInv, Stage
  PROVE  SupInv'
<1>1. PICK S \in SUBSET Service, run \in [Service -> Version] :
        Launches(S, run) /\ staged' \in [Service -> Version]
  BY StepsThatLaunch
<1>2. /\ Types /\ staged' = [s \in Service |-> IF s \in restart.targets THEN built ELSE staged[s]]
      /\ UNCHANGED <<src, built, startTimer, debounce, killing, shuttingDown, exited>>
      /\ killing = {}
  BY DEF SupInv, Stage, StagedIn
<1>3. BeforeStart'
  <2>1. ASSUME startTimer, NEW s \in Service \ {"api"}
        PROVE  procs'[s] = <<>>
    <3>1. restart.targets \subseteq {"api"} /\ restart.targets # {"api", "worker"}
      BY <2>1, EarlyTargets
    <3>2. procs' = Launched(restart.targets, staged')
      BY <3>1 DEF Stage
    <3>3. procs'[s] = procs[s]
      BY <3>1, <3>2 DEF Launched
    <3> QED
      BY <2>1, <3>3 DEF SupInv, BeforeStart
  <2>2. startTimer => built = 0 /\ staged' = [s \in Service |-> 0]
    BY <1>2 DEF SupInv, BeforeStart
  <2> QED
    BY <1>2, <2>1, <2>2 DEF BeforeStart
<1>4. CASE restart.targets = {"api", "worker"}
  <2>1. restart' = [restart EXCEPT !.at = "stagger"] /\ UNCHANGED <<build, busy, queued>>
    BY <1>4 DEF Stage
  <2>2. /\ restart' \in [at : {"none", "kill", "stagger"}, targets : SUBSET Rust]
        /\ restart'.targets = restart.targets /\ restart'.at = "stagger"
    BY <1>2, <2>1 DEF Types
  <2>3. Rest'
    BY <1>1, <1>2, <2>1, <2>2 DEF Types, Rest
  <2>4. "worker" \in Service /\ staged'["worker"] = built
    BY <1>2, <1>4, ServiceNames DEF Types
  <2>5. Cycle'
    <3>1. procs' = Launched({"api"}, staged')
      BY <1>4 DEF Stage
    <3>2. procs'["worker"] = procs["worker"] /\ ~InUse("worker")
      BY <1>4, <2>4, <3>1 DEF Launched, Stage
    <3>3. ~InUse("worker")'
      BY <3>2 DEF InUse
    <3> QED
      BY <1>2, <1>4, <2>1, <2>2, <3>3 DEF SupInv, Cycle, Stage
  <2>6. shuttingDown /\ build'.running => build'.sent \/ build'.late
    BY <2>1 DEF SupInv, Reached
  <2> QED
    BY <1>1, <1>3, <2>2, <2>3, <2>4, <2>5, <2>6, LaunchStep
<1>5. CASE restart.targets # {"api", "worker"}
  <2>1. restart' = NoRestart /\ FinishCycle
    BY <1>5 DEF Stage
  <2>2. Rest'
    BY <1>1, <1>2, <2>1, CycleEnds DEF Types, Rest, NoRestart
  <2>3. Cycle'
    BY <1>2, <2>1, CycleEnds DEF Cycle, NoRestart
  <2> QED
    BY <1>1, <1>3, <2>1, <2>2, <2>3, CycleEnds, LaunchStep DEF NoRestart
<1> QED
  BY <1>4, <1>5

(* The worker is launched after the API.                                   *)
LEMMA LaunchWorkerKeeps ==
  ASSUME SupInv, LaunchWorker
  PROVE  SupInv'
<1>1. PICK S \in SUBSET Service, run \in [Service -> Version] : Launches(S, run)
  BY StepsThatLaunch
<1>2. /\ restart' = NoRestart /\ FinishCycle
      /\ UNCHANGED <<src, built, staged, startTimer, debounce, killing, shuttingDown, exited>>
  BY DEF LaunchWorker
<1>3. ~startTimer
  BY EarlyTargets DEF LaunchWorker, SupInv, Cycle
<1>4. BeforeStart'
  BY <1>2, <1>3 DEF BeforeStart
<1>5. Rest'
  <2>1. killing = {}
    BY DEF LaunchWorker, SupInv, Cycle
  <2> QED
    BY <1>2, <2>1, CycleEnds DEF SupInv, Types, Rest, NoRestart
<1>6. Cycle'
  BY <1>2, CycleEnds DEF Cycle, NoRestart, SupInv, LaunchWorker
<1> QED
  BY <1>1, <1>2, <1>4, <1>5, <1>6, CycleEnds, LaunchStep DEF NoRestart

(* A build that succeeds.                                                  *)
LEMMA BuildSucceedsKeeps ==
  ASSUME SupInv, BuildSucceeds
  PROVE  SupInv'
<1>1. /\ AllAged
      /\ ~shuttingDown => \A s \in Rust : \A i \in 1..Len(procs[s]) :
           procs'[s][i].state = "running" => procs'[s][i].sent
  BY BuildSucceedsAges DEF SupInv
<1>2. /\ UNCHANGED <<src, staged, startTimer, debounce, shuttingDown, exited>>
      /\ build.running /\ restart.at = "none" /\ killing = {}
  BY DEF BuildSucceeds, SupInv, Cycle
<1>3. built' \in Version /\ (startTimer => built' = built)
  <2>1. built \in Version /\ build.from \in Version /\ src \in Version
    BY DEF SupInv, Types
  <2>2. built' \in IF startTimer THEN {built} ELSE build.from .. src
    BY DEF BuildSucceeds
  <2>3. build.from .. src \subseteq Version
    BY <2>1, SupervisorAssumption DEF Version
  <2> QED
    BY <2>1, <2>2, <2>3
<1>4. \A s \in Service : /\ Len(procs'[s]) = Len(procs[s])
                         /\ procs[s] \in Seq(Process) /\ procs'[s] \in Seq(Process)
                         /\ procs'[s] = <<>> <=> procs[s] = <<>>
  BY <1>1 DEF AllAged, Aged, SupInv, Types
<1>5. \/ /\ BuildOver /\ shuttingDown /\ UNCHANGED <<busy, queued, restart, killing>>
      \/ FinishCycle /\ UNCHANGED <<restart, killing>>
      \/ /\ BuildOver /\ restart' = [at |-> "kill", targets |-> Targets]
         /\ ~shuttingDown /\ killing' = KillList /\ UNCHANGED <<busy, queued>>
  BY DEF BuildSucceeds
<1>6. /\ build' \in [running : BOOLEAN, from : Version, sent : BOOLEAN, late : BOOLEAN]
      /\ busy' \in BOOLEAN /\ queued' \in BOOLEAN /\ (build'.running => busy')
      /\ shuttingDown /\ build'.running => build'.sent \/ build'.late
  <2>1. busy \in BOOLEAN /\ queued \in BOOLEAN
    BY DEF SupInv, Types
  <2> QED
    BY <1>5, <2>1, CycleEnds, BuildIsOver
<1>7. \/ UNCHANGED <<restart, killing>>
      \/ /\ restart' = [at |-> "kill", targets |-> Targets] /\ killing' \subseteq Targets
         /\ ~build'.running /\ busy'
  <2>1. KillList \subseteq Targets
    BY DEF KillList
  <2>2. ~shuttingDown => busy
    BY <1>2 DEF SupInv, Cycle
  <2> QED
    BY <1>5, <2>1, <2>2, BuildIsOver
<1>8. Targets \subseteq Rust
  BY DEF Targets
<1>9. /\ restart' \in [at : {"none", "kill", "stagger"}, targets : SUBSET Rust]
      /\ killing' \subseteq restart'.targets
  BY <1>7, <1>8 DEF SupInv, Types
<1>10. Types'
  BY <1>1, <1>2, <1>3, <1>6, <1>9 DEF SupInv, Types, AllAged
<1>11. Processes'
  BY <1>1, <1>2, AgedKeeps
<1>12. Cycle'
  BY <1>2, <1>6, <1>7 DEF Cycle
<1>13. BeforeStart'
  BY <1>2, <1>3, <1>4 DEF SupInv, BeforeStart
<1>14. Known'
  <2>1. restart'.targets \subseteq Service
    BY <1>9, ServiceNames
  <2>2. \A s \in restart'.targets : procs[s] # <<>>
    BY <1>7 DEF Targets, SupInv, Known, HasChild
  <2> QED
    BY <1>4, <2>1, <2>2 DEF Known, HasChild
<1>15. Newest'
  <2>1. ~shuttingDown => \A s \in Rust : \A i \in 1..Len(procs'[s]) :
          procs'[s][i].state = "running" => procs'[s][i].sent
    BY <1>1, <1>4, ServiceNames
  <2>2. restart'.at # "stagger"
    BY <1>2, <1>7
  <2> QED
    BY <1>2, <2>1, <2>2 DEF Newest
<1>16. Reached'
  <2>1. ASSUME shuttingDown, NEW s \in Service, NEW i \in 1..Len(procs'[s]),
               procs'[s][i].state = "running"
        PROVE  procs'[s][i].sent \/ procs'[s][i].late
    <3>1. i \in 1..Len(procs[s]) /\ Older(procs'[s][i], procs[s][i])
      BY <1>1, <1>4 DEF AllAged, Aged
    <3> QED
      BY <2>1, <3>1 DEF SupInv, Reached, Older
  <2> QED
    BY <1>2, <1>6, <2>1 DEF Reached
<1> QED
  BY <1>10, <1>11, <1>12, <1>13, <1>14, <1>15, <1>16 DEF SupInv, Processes

(* The steps that touch no process.                                        *)
LEMMA WatchKeeps ==
  ASSUME SupInv, Edit \/ TriggerRebuild \/ Exit \/ Gone \/ UNCHANGED svVars
  PROVE  SupInv'
<1>1. CASE Edit
  <2>1. src' \in Version
    BY <1>1, SupervisorAssumption DEF SupInv, Types, Edit, ContentChanged, Version
  <2>2. Rest' /\ Cycle'
    BY <1>1, <2>1 DEF SupInv, Types, Rest, Cycle, Edit, ScheduleRebuild, InUse
  <2> QED
    BY <1>1, <2>2, QuietKeeps DEF Edit, SupInv, Reached
<1>2. CASE TriggerRebuild
  <2>1. busy' = TRUE /\ queued' \in BOOLEAN
    BY <1>2 DEF TriggerRebuild, SupInv, Types
  <2>2. CASE busy
    <3>1. build' = build
      BY <1>2, <2>2 DEF TriggerRebuild
    <3>2. Rest' /\ Cycle'
      BY <1>2, <2>1, <3>1 DEF SupInv, Types, Rest, Cycle, TriggerRebuild, InUse
    <3> QED
      BY <1>2, <3>1, <3>2, QuietKeeps DEF TriggerRebuild, SupInv, Reached
  <2>3. CASE ~busy
    <3>1. StartBuild
      BY <1>2, <2>3 DEF TriggerRebuild
    <3>2. Rest'
      BY <1>2, <2>1, <3>1, StartedBuild DEF SupInv, Types, Rest, TriggerRebuild
    <3>3. Cycle'
      BY <1>2, <2>1, <2>3 DEF SupInv, Cycle, TriggerRebuild
    <3> QED
      BY <1>2, <3>1, <3>2, <3>3, QuietKeeps, StartedBuild DEF TriggerRebuild
  <2> QED
    BY <2>2, <2>3
<1>3. CASE Exit \/ Gone \/ UNCHANGED svVars
  <2>1. /\ UNCHANGED <<procs, src, built, staged, build, startTimer, debounce, busy, queued,
                       restart, killing, shuttingDown>>
        /\ (exited' = TRUE /\ shuttingDown) \/ exited' = exited
    BY <1>3 DEF Exit, Gone, svVars, watch
  <2>2. exited' \in BOOLEAN
    BY <2>1 DEF SupInv, Types
  <2>3. exited' => shuttingDown'
    <3>1. CASE exited' = TRUE /\ shuttingDown
      BY <2>1, <3>1
    <3>2. CASE exited' = exited
      BY <2>1, <3>2 DEF SupInv, Types
    <3> QED
      BY <2>1, <3>1, <3>2
  <2>4. Rest'
    BY <2>1, <2>2, <2>3 DEF SupInv, Types, Rest
  <2>5. Cycle'
    BY <2>1 DEF SupInv, Cycle, InUse
  <2> QED
    BY <2>1, <2>4, <2>5, QuietKeeps DEF SupInv, Reached
<1> QED
  BY <1>1, <1>2, <1>3

(* A build or its staging fails, or a process outlasts its grace period.   *)
LEMMA RestartKeeps ==
  ASSUME SupInv,
         BuildFails \/ StagingFails \/ \E s \in Service : KillTimeout(s)
  PROVE  SupInv'
<1>1. CASE BuildFails
  <2>1. /\ UNCHANGED <<procs, src, built, staged, startTimer, debounce, restart, killing,
                       shuttingDown, exited>>
        /\ restart.at = "none" /\ killing = {}
    BY <1>1 DEF BuildFails, SupInv, Cycle
  <2>2. /\ build' \in [running : BOOLEAN, from : Version, sent : BOOLEAN, late : BOOLEAN]
        /\ busy' \in BOOLEAN /\ queued' \in BOOLEAN /\ (build'.running => busy')
        /\ shuttingDown /\ build'.running => build'.sent \/ build'.late
    <3>1. CASE FinishCycle
      BY <3>1, CycleEnds
    <3>2. CASE BuildOver /\ UNCHANGED <<busy, queued>>
      BY <3>2, BuildIsOver DEF SupInv, Types
    <3> QED
      BY <1>1, <3>1, <3>2 DEF BuildFails
  <2>3. Rest' /\ Cycle'
    BY <2>1, <2>2 DEF SupInv, Types, Rest, Cycle
  <2> QED
    BY <2>1, <2>2, <2>3, QuietKeeps
<1>2. CASE StagingFails
  <2>1. /\ restart' = NoRestart /\ FinishCycle /\ killing = {}
        /\ UNCHANGED <<procs, src, built, startTimer, debounce, killing, shuttingDown, exited>>
    BY <1>2 DEF StagingFails
  <2>2. PICK S \in SUBSET (restart.targets \ {"worker"}) : staged' = StagedIn(S)
    BY <1>2 DEF StagingFails
  <2>3. staged' \in [Service -> Version]
    BY <2>2 DEF SupInv, Types, StagedIn
  <2>4. startTimer => staged' = staged
    <3>1. CASE startTimer
      <4>1. built = 0 /\ staged = [s \in Service |-> 0]
        BY <3>1 DEF SupInv, BeforeStart
      <4>2. staged' = [s \in Service |-> 0]
        BY <2>2, <4>1 DEF StagedIn
      <4> QED
        BY <4>1, <4>2
    <3> QED
      BY <3>1
  <2>5. Rest'
    BY <2>1, <2>3, CycleEnds DEF SupInv, Types, Rest, NoRestart
  <2>6. Cycle'
    BY <2>1, CycleEnds DEF Cycle, NoRestart
  <2> QED
    BY <2>1, <2>4, <2>5, <2>6, CycleEnds, QuietKeeps DEF NoRestart
<1>3. ASSUME NEW s \in Service, KillTimeout(s)
      PROVE  SupInv'
  <2>1. Rest' /\ Cycle'
    BY <1>3 DEF KillTimeout, SupInv, Types, Rest, Cycle, watch, InUse
  <2> QED
    BY <1>3, <2>1, QuietKeeps DEF KillTimeout, watch, SupInv, Reached
<1> QED
  BY <1>1, <1>2, <1>3

(* Processes that end, are noticed or interrupted launch nothing.          *)
LEMMA EndKeeps ==
  ASSUME SupInv,
         \/ Interrupt
         \/ \E s \in Service : SpawnError(s)
         \/ \E s \in Service : \E i \in 1..Len(procs[s]) : Ends(s, i) \/ ExitEvent(s, i)
  PROVE  SupInv'
<1>0. Types
  BY DEF SupInv
<1>1. CASE Interrupt
  BY <1>0, <1>1, InterruptAges, AgedStep DEF Interrupt
<1>2. ASSUME NEW s \in Service, SpawnError(s)
      PROVE  SupInv'
  BY <1>0, <1>2, SpawnErrorAges, AgedStep DEF SpawnError
<1>3. ASSUME NEW s \in Service, NEW i \in 1..Len(procs[s]), Ends(s, i)
      PROVE  SupInv'
  BY <1>0, <1>3, EndsAges, AgedStep DEF Ends
<1>4. ASSUME NEW s \in Service, NEW i \in 1..Len(procs[s]), ExitEvent(s, i)
      PROVE  SupInv'
  <2>1. killing' \subseteq killing
    BY <1>4 DEF ExitEvent
  <2> QED
    BY <1>0, <1>4, <2>1, ExitEventAges, AgedStep DEF ExitEvent
<1> QED
  BY <1>1, <1>2, <1>3, <1>4

-----------------------------------------------------------------------------
(* Theorems                                                                *)

(* The invariant holds at the start: nothing runs.                         *)
LEMMA SupStart == SupervisorInit => SupInv
<1> SUFFICES ASSUME SupervisorInit PROVE SupInv
  OBVIOUS
<1> USE DEF SupervisorInit
<1>0. 0 \in Version
  BY SupervisorAssumption DEF Version
<1>1. \A s \in Service : /\ procs[s] = <<New(0)>> \/ procs[s] = <<>>
                         /\ s # "api" => procs[s] = <<>>
  OBVIOUS
<1>2. New(0) \in Process
  BY <1>0 DEF New, Process
<1>3. procs \in [Service -> Seq(Process)]
  BY <1>1, <1>2
<1>4. Types
  BY <1>0, <1>3 DEF Types, NoBuild, NoRestart
<1>5. \A s \in Service : \A i \in 1..Len(procs[s]) : i = 1 /\ Len(procs[s]) = 1 /\ procs[s][i] = New(0)
  BY <1>1
<1>6. LastRuns /\ IntendedWasSent /\ CrashStopsAll
  BY <1>5 DEF LastRuns, IntendedWasSent, CrashStopsAll, New
<1>7. Cycle /\ BeforeStart /\ Known
  BY <1>1 DEF Cycle, BeforeStart, Known, NoBuild, NoRestart
<1>8. Newest
  BY <1>5, ServiceNames DEF Newest, NoRestart, New
<1> QED
  BY <1>4, <1>6, <1>7, <1>8 DEF SupInv, Reached

(* Every step of the supervisor keeps the invariant.                       *)
LEMMA SupStep == SupInv /\ [SupervisorNext]_svVars => SupInv'
<1> SUFFICES ASSUME SupInv, [SupervisorNext]_svVars PROVE SupInv'
  OBVIOUS
<1>1. CASE StartRest \/ Relaunch
  BY <1>1, StartRestKeeps, StageKeeps, LaunchWorkerKeeps, RestartKeeps DEF Relaunch
<1>2. CASE Build
  BY <1>2, BuildSucceedsKeeps, RestartKeeps DEF Build
<1>3. CASE Edit \/ TriggerRebuild \/ Exit \/ Gone \/ UNCHANGED svVars
  BY <1>3, WatchKeeps
<1>4. CASE \E s \in Service : KillTimeout(s) \/ SpawnError(s)
  BY <1>4, RestartKeeps, EndKeeps
<1>5. CASE \/ Interrupt
           \/ \E s \in Service : \E i \in 1..Len(procs[s]) : Ends(s, i) \/ ExitEvent(s, i)
  BY <1>5, EndKeeps
<1> QED
  BY <1>1, <1>2, <1>3, <1>4, <1>5 DEF SupervisorNext

(* The invariant holds of every reachable state of dev.mjs.                *)
THEOREM SupInvariance == SupervisorSpec => []SupInv
  BY SupStart, SupStep, PTL DEF SupervisorSpec

(* Every variable of dev.mjs keeps its type.                               *)
THEOREM SupervisorTypeCorrect == SupervisorSpec => []SupervisorTypeOK
<1>1. SupInv => SupervisorTypeOK
  <2> SUFFICES ASSUME SupInv PROVE SupervisorTypeOK
    OBVIOUS
  <2>1. Types
    BY DEF SupInv
  <2>2. \A s \in Service : \A i \in 1..Len(procs[s]) : procs[s][i] \in Process
    <3>1. ASSUME NEW s \in Service, NEW i \in 1..Len(procs[s])
          PROVE  procs[s][i] \in Process
      <4>1. procs[s] \in Seq(Process)
        BY <2>1 DEF Types
      <4> QED
        BY <4>1
    <3> QED
      BY <3>1
  <2>3. <<startTimer, debounce, busy, queued, shuttingDown, exited>> \in Seq(BOOLEAN)
    BY <2>1 DEF Types
  <2> QED
    BY <2>1, <2>2, <2>3 DEF Types, SupervisorTypeOK
<1> QED
  BY <1>1, SupInvariance, PTL

(* A service never has two processes, however restarts, timeouts and the   *)
(* start timer overlap.                                                    *)
THEOREM SingleProcess == SupervisorSpec => []OneProcessPerService
<1>1. SupInv => OneProcessPerService
  BY DEF SupInv, LastRuns, OneProcessPerService
<1> QED
  BY <1>1, SupInvariance, PTL

(* Between two cycles what runs is what was built last.                    *)
THEOREM BuiltIsRun == SupervisorSpec => []NewestBuildRuns
<1>1. SupInv => NewestBuildRuns
  BY DEF SupInv, Newest, NewestBuildRuns
<1> QED
  BY <1>1, SupInvariance, PTL

(* A service that ends by itself takes the others down.                    *)
THEOREM CrashesStop == SupervisorSpec => []CrashStopsAll
<1>1. SupInv => CrashStopsAll
  BY DEF SupInv
<1> QED
  BY <1>1, SupInvariance, PTL

(* An exit leaves nothing that was not sent a signal, except what was      *)
(* started after the signals.                                              *)
THEOREM ShutdownIsComplete == SupervisorSpec => []ShutdownReachesAll
<1>1. SupInv => ShutdownReachesAll
  BY DEF SupInv, Types, Reached, ShutdownReachesAll
<1> QED
  BY <1>1, SupInvariance, PTL
=============================================================================
