------------------------------- MODULE Worker -------------------------------
(***************************************************************************)
(* avail-worker: one process that polls the table deployments for QUEUED   *)
(* rows and builds them, at most Concurrency at a time and one per         *)
(* project.                                                                *)
(*                                                                         *)
(* Its threads are the poll loop (tick) and one task per build (execute).  *)
(* A step of a task ends where the code releases the database mutex,       *)
(* awaits, or, inside assign_aliases, where one SQL statement ends, since  *)
(* avail-api has its own connection and may run a statement there.         *)
(***************************************************************************)
EXTENDS Database

CONSTANTS
  Concurrency,     \* BUILD_CONCURRENCY, at least 1
  KeepPerProject,  \* KEEP_DEPLOYMENTS_PER_PROJECT
  SlowTick,        \* bound: may a tick be stalled for longer than a build takes?
  MaxCrashes       \* bound: how often the worker is killed

ASSUME WorkerAssumption ==
  /\ Concurrency \in Nat \ {0}
  /\ KeepPerProject \in Nat
  /\ SlowTick \in BOOLEAN
  /\ MaxCrashes \in Nat

VARIABLES
  up,              \* the process runs and recover_on_boot has returned
  crashes,
  tickPhase,       \* where the poll loop is
  tickQueue,       \* rest of the snapshot tick is iterating over
  snapTarget,      \* column target as that snapshot read it
  running,         \* keys of the map running
  token,           \* builds whose CancellationToken is cancelled
  runningProjects,
  permits,         \* free permits of the semaphore
  dropping,        \* tasks that are over and still hold their permit
  task,            \* the stage of each build's task
  orphans,         \* builds whose shell outlived a killed worker
  pruneTodo,       \* cleanup spawned by a build: directories still to remove
  pruneDone        \* ... and removed, with output_path not yet NULL

taskVars   == <<running, runningProjects, permits, dropping, task>>
tickVars   == <<tickPhase, tickQueue, snapTarget>>
pruneVars  == <<pruneTodo, pruneDone>>
lifeVars   == <<up, crashes, orphans>>
workerVars == <<up, crashes, tickPhase, tickQueue, snapTarget, running, token,
                runningProjects, permits, dropping, task, orphans, pruneTodo, pruneDone>>

-----------------------------------------------------------------------------
(* Stages that wait for a shell working in the project's checkout.         *)
ShellStage == {"fetch", "ignore", "command", "snapshot"}

(* Stages in which the row is the task's to move, from the first write of  *)
(* INITIALIZING to the write of the outcome.                               *)
BuildStage == ShellStage \cup {"clone", "resolve", "built", "skipped", "failed",
                               "error", "canceled"}

(* Stages between two statements of assign_aliases: the mutex is held.     *)
AliasStage == {"production", "promote"}

Stage == {"none", "load", "begin", "branch", "cleanup", "unlist", "unlock"}
           \cup BuildStage \cup AliasStage

Active == {d \in Deployment : task[d] # "none"}

(* No thread of the worker holds the database mutex.                       *)
DbFree == \A d \in Deployment : task[d] \notin AliasStage

Go(d, from, to) ==
  /\ task[d] = from
  /\ task' = [task EXCEPT ![d] = to]

(* A step of d's task that leaves the registries and other threads alone.  *)
KeepOthers ==
  UNCHANGED <<up, crashes, tickPhase, tickQueue, snapTarget, running, token,
              runningProjects, permits, dropping, orphans>>

-----------------------------------------------------------------------------
(* tick                                                                    *)

(* deployments::queued, oldest first; the mutex is released afterwards.    *)
TickRead ==
  LET queued == {d \in Deployment : rows[d].state = "QUEUED"}
  IN  /\ up /\ DbFree
      /\ tickPhase = "sleep"
      /\ tickPhase' = "loop"
      /\ tickQueue' = queued
      /\ snapTarget' = [d \in Deployment |-> IF d \in queued THEN rows[d].target ELSE snapTarget[d]]
      /\ UNCHANGED <<dbVars, taskVars, lifeVars, pruneVars, token>>

IsNextQueued(d) ==
  /\ tickPhase = "loop"
  /\ d \in tickQueue
  /\ \A e \in tickQueue : d <= e

(* As CanStart, without the check of running_projects.                     *)
CanStartAnyProject(d) == d \notin running /\ permits > 0

(* As CanStart, without try_acquire_owned.                                 *)
CanStartUnbounded(d) == d \notin running /\ ProjectOf[d] \notin runningProjects

CanStart(d) ==
  /\ d \notin running
  /\ ProjectOf[d] \notin runningProjects
  /\ permits > 0

(* The three checks are made one after the other, but only this loop adds  *)
(* to what they look at, so they are as good as made at once.              *)
TickStart(d) ==
  /\ up
  /\ IsNextQueued(d)
  /\ CanStart(d)
  /\ Go(d, "none", "load")
  /\ permits' = permits - 1
  /\ running' = running \cup {d}
  /\ token' = token \ {d}
  /\ runningProjects' = runningProjects \cup {ProjectOf[d]}
  /\ tickQueue' = tickQueue \ {d}
  /\ UNCHANGED <<dbVars, lifeVars, pruneVars, dropping, tickPhase, snapTarget>>

TickSkip(d) ==
  /\ up
  /\ IsNextQueued(d)
  /\ ~CanStart(d)
  /\ tickQueue' = tickQueue \ {d}
  /\ UNCHANGED <<dbVars, lifeVars, taskVars, pruneVars, token, tickPhase, snapTarget>>

(* As CancelFlagged, but a flag cancels every build of the project.        *)
CancelFlaggedProjects ==
  {d \in running : \E e \in OfProject(ProjectOf[d]) : rows[e].cancelReq}

CancelFlagged == {d \in running : rows[d].cancelReq}

(* check_cancel_flags, then the sleep of the main loop.                    *)
CheckCancelFlags ==
  /\ up /\ DbFree
  /\ tickPhase = "loop" /\ tickQueue = {}
  /\ tickPhase' = "sleep"
  /\ token' = token \cup CancelFlagged
  /\ UNCHANGED <<dbVars, lifeVars, taskVars, pruneVars, tickQueue, snapTarget>>

-----------------------------------------------------------------------------
(* execute, up to run_build                                                *)

(* The project is read first. When it has gone its rows have gone too, so  *)
(* the write of ERROR finds nothing.                                       *)
Load(d) ==
  /\ DbFree
  /\ Go(d, "load", IF ProjectOf[d] \in projects THEN "begin" ELSE "unlist")
  /\ rows' = IF ProjectOf[d] \in projects THEN rows ELSE WithState(d, "ERROR")
  /\ UNCHANGED <<projects, nextId, prodAlias, branchAlias, disk, pruneVars>>
  /\ KeepOthers

(* A write of the column state, whatever the row holds by then.            *)
Write(d, from, to, s) ==
  /\ DbFree
  /\ Go(d, from, to)
  /\ rows' = WithState(d, s)
  /\ UNCHANGED <<projects, nextId, prodAlias, branchAlias, disk, pruneVars>>
  /\ KeepOthers

Begin(d) == Write(d, "begin", "clone", "INITIALIZING")

-----------------------------------------------------------------------------
(* run_build. A cancelled token ends the shell of the stage, but the       *)
(* select may also see the shell's own exit first; and a stage may fail    *)
(* with no cancel. So a stage may end either way whatever the token says,  *)
(* and the token decides only what the failure is called.                  *)

(* Phases Initializing and Cloning; then the fetch, or no repository.      *)
EnterClone(d) ==
  \/ Write(d, "clone", "fetch", "INITIALIZING")
  \/ Write(d, "clone", "failed", "INITIALIZING")

(* A step of a build that touches neither rows nor directories.            *)
Proceed(d, from, to) ==
  /\ Go(d, from, to)
  /\ UNCHANGED <<dbVars, pruneVars>>
  /\ KeepOthers

Fetched(d) == \E to \in {"ignore", "resolve", "failed"} : Proceed(d, "fetch", to)

(* Exit 0 of the ignore command skips the build.                           *)
IgnoreRan(d) == \E to \in {"skipped", "resolve", "failed"} : Proceed(d, "ignore", to)

ResolveFailed(d) == Proceed(d, "resolve", "failed")

(* The install and the build command: phases that both show as BUILDING.   *)
RunCommand(d) == Write(d, "resolve", "command", "BUILDING")
CommandFailed(d) == Proceed(d, "command", "failed")

(* Phases Collecting and Publishing; then the snapshot script, whose first *)
(* command removes what the directory held. Without a start command a      *)
(* server build ends here.                                                 *)
Collect(d) ==
  \E from \in {"resolve", "command"} :
    \/ Write(d, from, "failed", "UPLOADING")
    \/ /\ DbFree
       /\ Go(d, from, "snapshot")
       /\ rows' = WithState(d, "UPLOADING")
       /\ disk' = disk \ {d}
       /\ UNCHANGED <<projects, nextId, prodAlias, branchAlias, pruneVars>>
       /\ KeepOthers

(* The snapshot is complete and the manifest written.                      *)
Published(d) ==
  /\ Go(d, "snapshot", "built")
  /\ disk' = disk \cup {d}
  /\ UNCHANGED <<projects, nextId, rows, prodAlias, branchAlias, pruneVars>>
  /\ KeepOthers

(* As PublishFailed, with the exit code of the snapshot script ignored.    *)
PublishUnchecked(d) == Proceed(d, "snapshot", "built")

PublishFailed(d) == Proceed(d, "snapshot", "failed")

-----------------------------------------------------------------------------
(* execute, after run_build                                                *)

Ready(d) ==
  /\ DbFree
  /\ Go(d, "built", "branch")
  /\ rows' = WithReady(d)
  /\ UNCHANGED <<projects, nextId, prodAlias, branchAlias, disk, pruneVars>>
  /\ KeepOthers

(* assign_aliases takes the mutex, and keeps it for a production build.    *)
AssignBranch(d) ==
  /\ DbFree
  /\ Go(d, "branch", IF snapTarget[d] = "production" THEN "production" ELSE "cleanup")
  /\ branchAlias' = Upserted(branchAlias, ProjectOf[d], d)
  /\ UNCHANGED <<projects, nextId, rows, prodAlias, disk, pruneVars>>
  /\ KeepOthers

AssignProduction(d) ==
  /\ Go(d, "production", "promote")
  /\ prodAlias' = Upserted(prodAlias, ProjectOf[d], d)
  /\ UNCHANGED <<projects, nextId, rows, branchAlias, disk, pruneVars>>
  /\ KeepOthers

PromoteBuilt(d) ==
  /\ Go(d, "promote", "cleanup")
  /\ rows' = Promoted(ProjectOf[d], d)
  /\ UNCHANGED <<projects, nextId, prodAlias, branchAlias, disk, pruneVars>>
  /\ KeepOthers

(* cleanup_old_deployments lists what is stale and leaves it to a task.    *)
Cleanup(d) ==
  /\ DbFree
  /\ Go(d, "cleanup", "unlist")
  /\ pruneTodo' = [pruneTodo EXCEPT ![d] = @ \cup StaleForProject(ProjectOf[d], KeepPerProject)]
  /\ UNCHANGED <<dbVars, pruneDone>>
  /\ KeepOthers

Skipped(d) == Write(d, "skipped", "unlist", "SKIPPED")

(* The outcome is named before the commit status is awaited ...            *)
Failed(d) == Proceed(d, "failed", IF d \in token THEN "canceled" ELSE "error")

(* ... and written after it.                                               *)
Settle(d) ==
  \/ Write(d, "error", "unlist", "ERROR")
  \/ Write(d, "canceled", "unlist", "CANCELED")

-----------------------------------------------------------------------------
(* The end of a task: three steps, in this order.                          *)

(* A tick that read the row as QUEUED before the task began has, unless it *)
(* is stalled, passed the row by now: it only looks at maps meanwhile.     *)
Unlist(d) ==
  /\ SlowTick \/ d \notin tickQueue
  /\ Go(d, "unlist", "unlock")
  /\ running' = running \ {d}
  /\ token' = token \ {d}
  /\ UNCHANGED <<dbVars, tickVars, lifeVars, pruneVars, runningProjects, permits, dropping>>

(* As Unlock, without running_projects.remove.                             *)
UnlockKeepingProject(d) ==
  /\ Go(d, "unlock", "none")
  /\ dropping' = dropping + 1
  /\ UNCHANGED <<dbVars, tickVars, lifeVars, pruneVars, running, runningProjects, token, permits>>

(* As Unlock, with the permit forgotten instead of dropped.                *)
UnlockLeakingPermit(d) ==
  /\ Go(d, "unlock", "none")
  /\ runningProjects' = runningProjects \ {ProjectOf[d]}
  /\ UNCHANGED <<dbVars, tickVars, lifeVars, pruneVars, running, token, permits, dropping>>

Unlock(d) ==
  /\ Go(d, "unlock", "none")
  /\ runningProjects' = runningProjects \ {ProjectOf[d]}
  /\ dropping' = dropping + 1
  /\ UNCHANGED <<dbVars, tickVars, lifeVars, pruneVars, running, token, permits>>

DropPermit ==
  /\ dropping > 0
  /\ dropping' = dropping - 1
  /\ permits' = permits + 1
  /\ UNCHANGED <<dbVars, tickVars, lifeVars, pruneVars, running, token, runningProjects, task>>

-----------------------------------------------------------------------------
(* The cleanup task a build spawned: all directories, newest first, then   *)
(* output_path of all of them.                                             *)

PruneDir(d) ==
  \E e \in pruneTodo[d] :
    /\ \A f \in pruneTodo[d] : f <= e
    /\ disk' = disk \ {e}
    /\ pruneTodo' = [pruneTodo EXCEPT ![d] = @ \ {e}]
    /\ pruneDone' = [pruneDone EXCEPT ![d] = @ \cup {e}]
    /\ UNCHANGED <<projects, nextId, rows, prodAlias, branchAlias>>
    /\ UNCHANGED <<taskVars, tickVars, lifeVars, token>>

PruneRows(d) ==
  /\ DbFree
  /\ pruneTodo[d] = {} /\ pruneDone[d] # {}
  /\ rows' = [e \in Deployment |->
                IF e \in pruneDone[d] THEN [rows[e] EXCEPT !.output = FALSE] ELSE rows[e]]
  /\ pruneDone' = [pruneDone EXCEPT ![d] = {}]
  /\ UNCHANGED <<projects, nextId, prodAlias, branchAlias, disk, pruneTodo>>
  /\ UNCHANGED <<taskVars, tickVars, lifeVars, token>>

-----------------------------------------------------------------------------
(* A killed worker loses its memory; the shells of its builds need not     *)
(* die with it.                                                            *)
Kill ==
  /\ up /\ crashes < MaxCrashes
  /\ up' = FALSE
  /\ crashes' = crashes + 1
  /\ \E S \in SUBSET {d \in Deployment : task[d] \in ShellStage} : orphans' = orphans \cup S
  /\ tickPhase' = "sleep" /\ tickQueue' = {}
  /\ running' = {} /\ token' = {} /\ runningProjects' = {}
  /\ permits' = Concurrency /\ dropping' = 0
  /\ task' = [d \in Deployment |-> "none"]
  /\ pruneTodo' = [d \in Deployment |-> {}]
  /\ pruneDone' = [d \in Deployment |-> {}]
  /\ UNCHANGED <<dbVars, snapTarget>>

OrphanExits(d) ==
  /\ d \in orphans
  /\ orphans' = orphans \ {d}
  /\ UNCHANGED <<dbVars, taskVars, tickVars, pruneVars, token, up, crashes>>

(* As Interrupted, for a recovery that forgets the state UPLOADING.        *)
InterruptedBuilds == {d \in Deployment : rows[d].state \in {"INITIALIZING", "BUILDING"}}

Interrupted == {d \in Deployment : rows[d].state \in InProgress}

(* recover_on_boot, before the first tick.                                 *)
Boot ==
  /\ ~up
  /\ up' = TRUE
  /\ rows' = [d \in Deployment |->
                IF d \in Interrupted THEN [rows[d] EXCEPT !.state = "ERROR"] ELSE rows[d]]
  /\ UNCHANGED <<projects, nextId, prodAlias, branchAlias, disk, crashes, orphans>>
  /\ UNCHANGED <<taskVars, tickVars, pruneVars, token>>

-----------------------------------------------------------------------------
(* Types of the state of the worker.                                       *)
WorkerTypeOK ==
  /\ up \in BOOLEAN
  /\ crashes \in 0..MaxCrashes
  /\ tickPhase \in {"sleep", "loop"}
  /\ tickQueue \subseteq Deployment
  /\ snapTarget \in [Deployment -> Target]
  /\ running \subseteq Deployment
  /\ token \subseteq Deployment
  /\ runningProjects \subseteq Project
  /\ permits \in 0..Concurrency
  /\ dropping \in 0..Concurrency
  /\ task \in [Deployment -> Stage]
  /\ orphans \subseteq Deployment
  /\ pruneTodo \in [Deployment -> SUBSET Deployment]
  /\ pruneDone \in [Deployment -> SUBSET Deployment]

WorkerInit ==
  /\ up = TRUE
  /\ crashes = 0
  /\ tickPhase = "sleep" /\ tickQueue = {}
  /\ snapTarget = [d \in Deployment |-> "preview"]
  /\ running = {} /\ token = {} /\ runningProjects = {}
  /\ permits = Concurrency /\ dropping = 0
  /\ task = [d \in Deployment |-> "none"]
  /\ orphans = {}
  /\ pruneTodo = [d \in Deployment |-> {}]
  /\ pruneDone = [d \in Deployment |-> {}]
=============================================================================
