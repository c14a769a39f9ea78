----------------------------- MODULE Supervisor -----------------------------
(***************************************************************************)
(* scripts/dev.mjs: starts the services, rebuilds the Rust ones when their *)
(* source changes and restarts them, and stops everything when one service *)
(* ends by itself. Node runs one callback at a time, so a step is what     *)
(* happens between two awaits. Services that end do so in two steps: the   *)
(* process is gone, and later its exit event is handled.                   *)
(***************************************************************************)
EXTENDS Naturals, Sequences

CONSTANTS Service,     \* the services --only leaves
          MaxEdits     \* bound: events of the watchers

ASSUME SupervisorAssumption ==
  /\ Service \subseteq {"api", "worker", "proxy", "dashboard"}
  /\ MaxEdits \in Nat

VARIABLES
  procs,        \* the processes launched for each service; childrenByName has the last
  src, built,   \* the version of the source, and of what cargo built last
  staged,       \* the version of each binary in run/
  build,        \* buildChild
  startTimer, debounce,   \* the timers of lines 274 and 374
  busy, queued,
  restart,      \* where restartRustServices is
  killing,      \* the targets whose killChild has not resolved
  shuttingDown, exited

watch == <<startTimer, debounce, busy, queued>>
svVars == <<procs, src, built, staged, build, watch, restart, killing, shuttingDown, exited>>

Rust == Service \cap {"api", "worker"}
Version == 0..MaxEdits
Process == [state : {"running", "dead", "reaped"}, of : Version,
            sent : BOOLEAN,       \* it was sent a signal
            intended : BOOLEAN,   \* its pid is in intentionalExits
            code : BOOLEAN,       \* exitCode is a number
            late : BOOLEAN]       \* launched after shutdown had begun
NoBuild == [running |-> FALSE, from |-> 0, sent |-> FALSE, late |-> FALSE]
NoRestart == [at |-> "none", targets |-> {}]

New(v) == [state |-> "running", of |-> v, sent |-> FALSE, intended |-> FALSE, code |-> FALSE,
           late |-> shuttingDown]
ListedFirst(s) == 1            \* a mutant: a relaunch does not replace the entry
Listed(s) == Len(procs[s])
Child(s) == procs[s][Listed(s)]
HasChild(s) == procs[s] # <<>>

Launched(S, run) ==
  [s \in Service |-> IF s \in S THEN Append(procs[s], New(run[s])) ELSE procs[s]]

SupervisorInit ==
  /\ shuttingDown = FALSE /\ exited = FALSE
  /\ src = 0 /\ built = 0 /\ staged = [s \in Service |-> 0]
  /\ procs = [s \in Service |-> IF s = "api" THEN <<New(0)>> ELSE <<>>]
  /\ build = NoBuild
  /\ startTimer = TRUE /\ debounce = FALSE /\ busy = FALSE /\ queued = FALSE
  /\ restart = NoRestart /\ killing = {}

(* Types of the state of dev.mjs.                                          *)
SupervisorTypeOK ==
  /\ \A s \in Service : \A i \in 1..Len(procs[s]) : procs[s][i] \in Process
  /\ src \in Version /\ built \in Version /\ staged \in [Service -> Version]
  /\ build \in [running : BOOLEAN, from : Version, sent : BOOLEAN, late : BOOLEAN]
  /\ <<startTimer, debounce, busy, queued, shuttingDown, exited>> \in Seq(BOOLEAN)
  /\ restart \in [at : {"none", "kill", "stagger"}, targets : SUBSET Rust]
  /\ killing \subseteq restart.targets

-----------------------------------------------------------------------------
(* The rest of the services, 800 ms after the API.                         *)
StartRest ==
  /\ startTimer /\ ~exited
  /\ startTimer' = FALSE
  /\ procs' = Launched(Service \ {"api"}, staged)
  /\ UNCHANGED <<src, built, staged, build, debounce, busy, queued, restart, killing,
                 shuttingDown, exited>>

-----------------------------------------------------------------------------
(* The watchers and the build                                              *)

(* Its content is not the one hashed last. Bound: MaxEdits.                *)
ContentChanged == src < MaxEdits /\ src' = src + 1
ScheduleRebuild == debounce' = TRUE

(* A watcher reports a source file.                                        *)
Edit ==
  /\ ~exited /\ Rust # {}
  /\ ContentChanged /\ ScheduleRebuild
  /\ UNCHANGED <<procs, built, staged, build, startTimer, busy, queued, restart, killing,
                 shuttingDown, exited>>

BuildOver == build' = [build EXCEPT !.running = FALSE]
StartBuild ==
  build' = [running |-> TRUE, from |-> src, sent |-> FALSE, late |-> shuttingDown]

(* scheduleRebuild's timer: triggerRebuild, which waits if a cycle runs.   *)
TriggerRebuild ==
  /\ debounce /\ ~exited
  /\ debounce' = FALSE
  /\ busy' = TRUE
  /\ IF busy THEN queued' = TRUE /\ UNCHANGED build
             ELSE StartBuild /\ UNCHANGED queued
  /\ UNCHANGED <<procs, src, built, staged, startTimer, restart, killing, shuttingDown, exited>>

FinishAndForget ==             \* a mutant: the queued rebuild is dropped
  /\ busy' = FALSE /\ queued' = FALSE
  /\ BuildOver
(* finishCycle: the next build begins at once if one was asked for.        *)
FinishCycle ==
  /\ queued' = FALSE /\ busy' = queued
  /\ IF queued THEN StartBuild ELSE BuildOver

(* cargo failed, or could not be run.                                      *)
BuildFails ==
  /\ build.running /\ ~exited
  /\ \/ FinishCycle            \* also for an error event after shutdown
     \/ shuttingDown /\ BuildOver /\ UNCHANGED <<busy, queued>>
  /\ UNCHANGED <<procs, src, built, staged, startTimer, debounce, restart, killing,
                 shuttingDown, exited>>

EveryTarget == Rust            \* a mutant: childrenByName.has is not asked
Targets == {s \in Rust : HasChild(s)}

(* killChild: nothing to wait for if the child has an exit code.           *)
Awaited(s) == HasChild(s) /\ ~(Child(s).state = "reaped" /\ Child(s).code)
KilledChild(s) ==
  IF Awaited(s) THEN [procs[s] EXCEPT ![Listed(s)].sent = TRUE, ![Listed(s)].intended = TRUE]
                ELSE procs[s]

KillEverything == {s \in Service : Awaited(s)}     \* a mutant: the other services too
KillList == {s \in Targets : Awaited(s)}

(* What cargo compiled was read after it began. A build that is over       *)
(* before the start timer fires had nothing to compile.                    *)
BuildSucceeds ==
  /\ build.running /\ ~exited
  /\ built' \in IF startTimer THEN {built} ELSE build.from .. src
  /\ IF shuttingDown
     THEN BuildOver /\ UNCHANGED <<procs, busy, queued, restart, killing>>
     ELSE IF Targets = {}
     THEN FinishCycle /\ UNCHANGED <<procs, restart, killing>>
     ELSE /\ restart' = [at |-> "kill", targets |-> Targets]
          /\ killing' = KillList
          /\ procs' = [s \in Service |-> IF s \in Targets THEN KilledChild(s) ELSE procs[s]]
          /\ BuildOver /\ UNCHANGED <<busy, queued>>
  /\ UNCHANGED <<src, staged, startTimer, debounce, shuttingDown, exited>>

-----------------------------------------------------------------------------
(* restartRustServices                                                     *)

(* killChild gives up after 5 s.                                           *)
KillTimeout(s) ==
  /\ s \in killing /\ ~exited
  /\ killing' = killing \ {s}
  /\ UNCHANGED <<procs, src, built, staged, build, watch, restart, shuttingDown, exited>>

InUse(s) == \E i \in 1..Len(procs[s]) : procs[s][i].state = "running"

StageApiOnly(S) == [s \in Service |-> IF s \in S \ {"worker"} THEN built ELSE staged[s]]
StagedIn(S) == [s \in Service |-> IF s \in S THEN built ELSE staged[s]]

(* syncRunBinaries throws, always if a file is in use: nothing is          *)
(* relaunched.                                                             *)
StagingFails ==
  /\ restart.at = "kill" /\ killing = {} /\ ~exited
  /\ \E S \in SUBSET (restart.targets \ {"worker"}) \ {restart.targets} :
       (\A s \in S : ~InUse(s)) /\ staged' = StagedIn(S)
  /\ restart' = NoRestart
  /\ FinishCycle
  /\ UNCHANGED <<procs, src, built, startTimer, debounce, killing, shuttingDown, exited>>

(* The binaries are copied and the API is launched, or the worker if it    *)
(* is alone.                                                               *)
Stage ==
  /\ restart.at = "kill" /\ killing = {} /\ ~exited
  /\ \A s \in restart.targets : ~InUse(s)
  /\ staged' = StagedIn(restart.targets)
  /\ IF restart.targets = {"api", "worker"}
     THEN /\ procs' = Launched({"api"}, staged') /\ restart' = [restart EXCEPT !.at = "stagger"]
          /\ UNCHANGED <<build, busy, queued>>
     ELSE procs' = Launched(restart.targets, staged') /\ restart' = NoRestart /\ FinishCycle
  /\ UNCHANGED <<src, built, startTimer, debounce, killing, shuttingDown, exited>>

(* 800 ms later, the worker.                                               *)
LaunchWorker ==
  /\ restart.at = "stagger" /\ ~exited
  /\ procs' = Launched({"worker"}, staged)
  /\ restart' = NoRestart
  /\ FinishCycle
  /\ UNCHANGED <<src, built, staged, startTimer, debounce, killing, shuttingDown, exited>>

-----------------------------------------------------------------------------
(* The end of processes                                                    *)

(* By itself or after a signal, with a code or without.                    *)
Ends(s, i) ==
  /\ procs[s][i].state = "running" /\ ~exited
  /\ \E c \in BOOLEAN :
       procs' = [procs EXCEPT ![s][i] = [@ EXCEPT !.state = "dead", !.code = c]]
  /\ UNCHANGED <<src, built, staged, build, watch, restart, killing, shuttingDown, exited>>

(* shutdown, after what ps says of the processes: once, the children and   *)
(* the build are sent a signal.                                            *)
ShutDown(ps) ==
  /\ shuttingDown' = TRUE
  /\ IF shuttingDown
     THEN procs' = ps /\ UNCHANGED build
     ELSE /\ procs' = [s \in Service |->
                         IF HasChild(s) THEN [ps[s] EXCEPT ![Listed(s)].sent = TRUE] ELSE ps[s]]
          /\ build' = [build EXCEPT !.sent = build.running]

(* The exit event: of a process killed for a restart, or of one that ended *)
(* by itself.                                                              *)
IntendedByName(s, i) == \E j \in 1..Len(procs[s]) : procs[s][j].intended   \* a mutant
Intended(s, i) == procs[s][i].intended

ExitEvent(s, i) ==
  /\ procs[s][i].state = "dead" /\ ~exited
  /\ LET ps == [procs EXCEPT ![s][i] = [@ EXCEPT !.state = "reaped", !.intended = FALSE]]
     IN IF Intended(s, i) THEN procs' = ps /\ UNCHANGED <<build, shuttingDown>>
                          ELSE ShutDown(ps)
  /\ killing' = IF i = Listed(s) THEN killing \ {s} ELSE killing
  /\ UNCHANGED <<src, built, staged, watch, restart, exited>>

(* The process could not be spawned, or SIGINT or SIGTERM.                 *)
SpawnError(s) ==
  /\ HasChild(s) /\ Child(s).state = "running" /\ ~Child(s).sent /\ ~exited
  /\ ShutDown([procs EXCEPT ![s][Listed(s)] = [@ EXCEPT !.state = "reaped", !.code = TRUE]])
  /\ UNCHANGED <<src, built, staged, watch, restart, killing, exited>>

Interrupt ==
  /\ ~shuttingDown /\ ShutDown(procs)
  /\ UNCHANGED <<src, built, staged, watch, restart, killing, exited>>

(* process.exit, 500 ms after shutdown began.                              *)
Exit ==
  /\ shuttingDown /\ ~exited /\ exited' = TRUE
  /\ UNCHANGED <<procs, src, built, staged, build, watch, restart, killing, shuttingDown>>

Gone == exited /\ UNCHANGED svVars

-----------------------------------------------------------------------------
Build == BuildFails \/ BuildSucceeds
Relaunch == StagingFails \/ Stage \/ LaunchWorker

SupervisorNext ==
  \/ StartRest \/ Edit \/ TriggerRebuild \/ Build \/ Relaunch
  \/ \E s \in Service : KillTimeout(s) \/ SpawnError(s)
  \/ \E s \in Service : \E i \in 1..Len(procs[s]) : Ends(s, i) \/ ExitEvent(s, i)
  \/ Interrupt \/ Exit \/ Gone

(* Timers fire, cargo ends.                                                *)
SupervisorSpec ==
  /\ SupervisorInit /\ [][SupervisorNext]_svVars
  /\ WF_svVars(TriggerRebuild) /\ WF_svVars(Build) /\ WF_svVars(Relaunch)
  /\ \A s \in Service : WF_svVars(KillTimeout(s))

-----------------------------------------------------------------------------
(* Two workers would each recover the other's builds on boot: a service    *)
(* never has two processes, though restarts overlap with the start timer,  *)
(* give up on killing a process and fail to stage (dev.mjs:299-326).       *)
OneProcessPerService == \A s \in Service : \A i, j \in 1..Len(procs[s]) :
  procs[s][i].state = "running" /\ procs[s][j].state = "running" => i = j

(* Between two cycles no Rust service runs on from before the last         *)
(* successful build, unless it outlived the signal (dev.mjs:280-293).      *)
NewestBuildRuns == ~busy /\ ~shuttingDown => \A s \in Rust : \A i \in 1..Len(procs[s]) :
  procs[s][i].state = "running" /\ ~procs[s][i].sent => procs[s][i].of = built

(* A service that ended without being killed for a restart takes the       *)
(* others down (dev.mjs:159-169), whatever was restarted before.           *)
CrashStopsAll == \A s \in Service : \A i \in 1..Len(procs[s]) :
  procs[s][i].state = "reaped" /\ ~procs[s][i].sent => shuttingDown

(* When dev.mjs exits, every process and build it had started before       *)
(* shutdown began was sent a signal (dev.mjs:236-243). What a timer or a   *)
(* restart under way starts later is not.                                  *)
ShutdownReachesAll == exited =>
  /\ build.running => build.sent \/ build.late
  /\ \A s \in Service : \A i \in 1..Len(procs[s]) :
       procs[s][i].state = "running" => procs[s][i].sent \/ procs[s][i].late

(* Every edit is followed by a build that began after it, also when it     *)
(* lands in the middle of a build or of a restart (dev.mjs:287-293).       *)
EditsGetBuilt == \A v \in 1..MaxEdits :
  src = v ~> (build.from >= v \/ shuttingDown)
=============================================================================
