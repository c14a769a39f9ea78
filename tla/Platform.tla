------------------------------ MODULE Platform ------------------------------
(***************************************************************************)
(* avail-api and avail-worker over their shared database.                  *)
(***************************************************************************)
EXTENDS Worker, Api

vars == <<dbVars, workerVars, apiVars>>

Init == DatabaseInit /\ WorkerInit /\ ApiInit

(* One step of the task that builds d.                                     *)
TaskStep(d) ==
  \/ Load(d) \/ Begin(d)
  \/ EnterClone(d) \/ Fetched(d) \/ IgnoreRan(d) \/ ResolveFailed(d)
  \/ RunCommand(d) \/ CommandFailed(d)
  \/ Collect(d) \/ Published(d) \/ PublishFailed(d)
  \/ Ready(d) \/ AssignBranch(d) \/ AssignProduction(d) \/ PromoteBuilt(d) \/ Cleanup(d)
  \/ Skipped(d) \/ Failed(d) \/ Settle(d)
  \/ Unlist(d) \/ Unlock(d)

Tick == TickRead \/ (\E d \in Deployment : TickStart(d) \/ TickSkip(d)) \/ CheckCancelFlags

Prune(d) == PruneDir(d) \/ PruneRows(d)

HandlerStep ==
  \/ CancelQueued \/ FlagCancel
  \/ PromoteAlias \/ PromoteRow \/ PromoteTarget
  \/ DeleteQueued \/ DeleteRow

Call ==
  \/ \E p \in Project : Deploy(p) \/ DeleteProject(p)
  \/ \E d \in Deployment : Redeploy(d) \/ CancelRead(d) \/ PromoteRead(d) \/ DeleteRead(d)

WorkerNext ==
  \/ Tick
  \/ \E d \in Deployment : TaskStep(d) \/ Prune(d) \/ OrphanExits(d)
  \/ DropPermit \/ Kill \/ Boot

ApiNext ==
  \/ Call \/ HandlerStep
  \/ \E d \in Deployment : RemoveDir(d)
  \/ RestartApi

Next ==
  \/ WorkerNext /\ UNCHANGED apiVars
  \/ ApiNext /\ UNCHANGED workerVars

Spec == Init /\ [][Next]_vars

(* Fairness. The runtime keeps polling the loop and every task that can    *)
(* run; each shell has a time limit, so a build leaves every stage (if     *)
(* what the shell started closes its output when the shell is killed); a   *)
(* supervisor starts a killed worker again; a handler that has started     *)
(* goes on. Users need not call anything, and nothing need be killed.      *)
Fairness ==
  /\ WF_vars(Tick /\ UNCHANGED apiVars)
  /\ \A d \in Deployment : WF_vars(TaskStep(d) /\ UNCHANGED apiVars)
  /\ WF_vars(DropPermit /\ UNCHANGED apiVars)
  /\ WF_vars(Boot /\ UNCHANGED apiVars)
  /\ WF_vars(HandlerStep /\ UNCHANGED workerVars)

FairSpec == Spec /\ Fairness

-----------------------------------------------------------------------------
(* Every variable stays within the values the code can store in it.        *)
TypeOK == DatabaseTypeOK /\ WorkerTypeOK /\ ApiTypeOK

(* "One build per project at a time": two tasks of one project never       *)
(* overlap, from the start of a task to its last use of the registries.    *)
SerializedBuilds ==
  \A d, e \in Active : ProjectOf[d] = ProjectOf[e] => d = e

(* BUILD_CONCURRENCY is an exact account: a permit is free, or held by a   *)
(* task, or about to be dropped by one that is over. None is lost on any   *)
(* way out of execute, and never do more than Concurrency tasks run.       *)
PermitsConserved == permits + dropping + Cardinality(Active) = Concurrency

(* The registries tick consults say exactly what the tasks are: a project  *)
(* is locked only while a task of it will still unlock it, so no project   *)
(* is locked out of building for good, and a build is listed as running    *)
(* until it has written its outcome.                                       *)
RegistriesMatchTasks ==
  /\ runningProjects = {ProjectOf[d] : d \in Active}
  /\ running = {d \in Active : task[d] # "unlock"}

(* A row that shows a build in progress has a task that will still write   *)
(* its outcome: after a restart, recover_on_boot leaves no row that would  *)
(* be in progress for ever, and no task ends without an outcome.           *)
InProgressHasBuilder ==
  up => \A d \in Deployment : rows[d].state \in InProgress => task[d] \in BuildStage

(* A build is aborted, and its row then called CANCELED, only when somebody *)
(* asked to cancel that very deployment.                                   *)
CancelsWereRequested ==
  \A d \in Deployment :
    (d \in token \/ task[d] = "canceled") /\ Exists(d) => rows[d].cancelReq

(* What the proxy relies on: a READY row with an output path has its files *)
(* on disk, unless a cleanup is between removing them and saying so.       *)
ReadyHasArtifacts ==
  \A d \in Deployment :
    rows[d].state = "READY" /\ rows[d].output =>
      d \in disk \/ \E e \in Deployment : d \in pruneDone[e]

(* However promotions by users and by builds interleave, a project has at  *)
(* most one current production deployment.                                 *)
AtMostOneProduction ==
  \A d, e \in Deployment :
    rows[d].prod /\ rows[e].prod /\ ProjectOf[d] = ProjectOf[e] => d = e

(* An alias names an existing deployment of the project it belongs to:     *)
(* neither a delete that races the upsert of assign_aliases nor the        *)
(* deletion of a project leaves one dangling.                              *)
AliasesResolve ==
  \A p \in Project : \A alias \in {prodAlias, branchAlias} :
    alias[p] # None => p \in projects /\ Exists(alias[p]) /\ ProjectOf[alias[p]] = p

(* Every deployment that waits or builds is eventually READY, ERROR,       *)
(* CANCELED or SKIPPED, or deleted: no lost wake-up, no leaked lock or     *)
(* permit, and no restart leaves it waiting.                               *)
Settled(d) == rows[d].state \in TERMINAL_STATES \cup {"ABSENT"}
EveryDeploymentSettles == \A d \in Deployment : ~Settled(d) ~> Settled(d)

(* The worker keeps the promise of BuildQueue.                             *)
Queue == INSTANCE BuildQueue WITH
           Build <- Deployment, ProjectOf <- ProjectOf, Concurrency <- Concurrency,
           building <- Active
ImplementsBuildQueue == Queue!Spec

-----------------------------------------------------------------------------
(* What the repository says of the program and the code does not keep.     *)

(* "Canceled before the build started": what cancel answered for a queued  *)
(* deployment stays true.                                                  *)
CanceledNeverBuilds ==
  [][\A d \in Deployment :
       rows[d].state = "CANCELED" => rows'[d].state \in {"CANCELED", "ABSENT"}]_vars

(* "Cannot delete the current production deployment": the guard, and the   *)
(* pruning of superseded deployments, protect what production serves, as   *)
(* long as that row carries the flag. Between two operations it should.    *)
ServedIsCurrent ==
  Idle /\ DbFree =>
    \A p \in Project : prodAlias[p] # None => rows[prodAlias[p]].prod

(* "Promote any READY deployment": promote refuses a deployment whose      *)
(* artifacts were pruned, so that production always has files to serve.    *)
ProductionHasArtifacts ==
  \A p \in Project : prodAlias[p] # None => prodAlias[p] \in disk

(* "Builds of one project are serialized so they never share that          *)
(* directory concurrently": one shell at most in a project's checkout.     *)
InCheckout == orphans \cup {d \in Deployment : task[d] \in ShellStage}
WorkspaceExclusive ==
  \A d, e \in InCheckout : ProjectOf[d] = ProjectOf[e] => d = e
=============================================================================
