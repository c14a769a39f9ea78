-------------------------- MODULE Platform_proofs --------------------------
(***************************************************************************)
(* Theorems about Platform, for any number of projects, deployments,       *)
(* permits, restarts and calls.                                            *)
(*                                                                         *)
(* First come the types of what each SQL statement of Database returns,    *)
(* then the types of the variables after every step, then the invariant    *)
(* of the worker's registries, which is inductive, and at last the         *)
(* refinement of BuildQueue.                                               *)
(***************************************************************************)
EXTENDS Platform, FiniteSetTheorems, TLAPS

-----------------------------------------------------------------------------
(* Statements of the database                                              *)

(* Every value of the column state.                                        *)
State == {"ABSENT", "QUEUED"} \cup InProgress \cup TERMINAL_STATES

(* NULL is not a deployment, so an alias can tell them apart.              *)
LEMMA NoneIsNoDeployment == None \notin Deployment
  BY DatabaseAssumption DEF None, Deployment

(* What stands for a row that is not there has the columns of a row.       *)
LEMMA NoRowType == NoRow \in Row
  BY DEF NoRow, Row, Target, InProgress, TERMINAL_STATES

(* A write of the column state leaves a table of rows.                     *)
LEMMA WithStateType ==
  ASSUME DatabaseTypeOK, NEW d \in Deployment, NEW s \in State
  PROVE  WithState(d, s) \in [Deployment -> Row]
  BY DEF WithState, DatabaseTypeOK, Row, State, Exists

(* So does the update that publishes a build ...                           *)
LEMMA WithReadyType ==
  ASSUME DatabaseTypeOK, NEW d \in Deployment
  PROVE  WithReady(d) \in [Deployment -> Row]
  BY DEF WithReady, DatabaseTypeOK, Row, Exists, TERMINAL_STATES

(* ... the insertion of a deployment ...                                   *)
LEMMA InsertedType ==
  ASSUME DatabaseTypeOK, NEW d \in Deployment, NEW t \in Target
  PROVE  Inserted(d, t) \in [Deployment -> Row]
  BY DEF Inserted, DatabaseTypeOK, Row, NoRow, Target

(* ... the promotion of one ...                                            *)
LEMMA PromotedType ==
  ASSUME DatabaseTypeOK, NEW p, NEW d \in Deployment
  PROVE  Promoted(p, d) \in [Deployment -> Row]
  BY DEF Promoted, DatabaseTypeOK, Row, Exists

(* ... and the deletion of any number of them.                             *)
LEMMA DeletedType ==
  ASSUME DatabaseTypeOK, NEW S
  PROVE  Deleted(S) \in [Deployment -> Row]
  BY NoRowType DEF Deleted, DatabaseTypeOK

(* An alias is upserted to a deployment, and unset by a deletion.          *)
LEMMA AliasType ==
  ASSUME NEW alias \in [Project -> Deployment \cup {None}], NEW p \in Project,
         NEW d \in Deployment, NEW S
  PROVE  /\ Upserted(alias, p, d) \in [Project -> Deployment \cup {None}]
         /\ Unaliased(alias, S) \in [Project -> Deployment \cup {None}]
         /\ [alias EXCEPT ![p] = None] \in [Project -> Deployment \cup {None}]
  BY DEF Upserted, Unaliased

(* Every deployment has a project.                                         *)
LEMMA ProjectOfType == \A d \in Deployment : ProjectOf[d] \in Project
  BY DatabaseAssumption DEF Deployment

-----------------------------------------------------------------------------
(* Types after every step                                                  *)

(* The states the worker writes are states of a row.                       *)
LEMMA States ==
  /\ {"ERROR", "INITIALIZING", "BUILDING", "UPLOADING", "SKIPPED", "CANCELED"} \subseteq State
  /\ {"production", "preview"} \subseteq Target
  BY DEF State, InProgress, TERMINAL_STATES, Target

(* A row that is written stays a row.                                      *)
LEMMA WriteType ==
  ASSUME DatabaseTypeOK, NEW d \in Deployment, NEW from, NEW to, NEW s \in State,
         Write(d, from, to, s)
  PROVE  DatabaseTypeOK'
  BY WithStateType DEF Write, DatabaseTypeOK

(* The tables and the directories keep their types when a task moves.      *)
LEMMA DatabaseTypeTask ==
  ASSUME DatabaseTypeOK, NEW d \in Deployment, TaskStep(d)
  PROVE  DatabaseTypeOK'
<1>p. ProjectOf[d] \in Project
  BY ProjectOfType
<1>1. CASE Load(d)
  BY <1>1, WithStateType, States DEF Load, DatabaseTypeOK
<1>2. CASE Begin(d)
  BY <1>2, WriteType, States DEF Begin
<1>3. CASE EnterClone(d)
  BY <1>3, WriteType, States DEF EnterClone
<1>4. CASE Fetched(d) \/ IgnoreRan(d) \/ ResolveFailed(d) \/ CommandFailed(d)
             \/ PublishFailed(d) \/ Failed(d)
  BY <1>4 DEF Fetched, IgnoreRan, ResolveFailed, CommandFailed, PublishFailed, Failed,
              Proceed, dbVars, DatabaseTypeOK
<1>5. CASE RunCommand(d)
  BY <1>5, WriteType, States DEF RunCommand
<1>6. CASE Collect(d)
  BY <1>6, WriteType, WithStateType, States DEF Collect, DatabaseTypeOK
<1>7. CASE Published(d)
  BY <1>7 DEF Published, DatabaseTypeOK
<1>8. CASE Ready(d)
  BY <1>8, WithReadyType DEF Ready, DatabaseTypeOK
<1>9. CASE AssignBranch(d)
  BY <1>9, <1>p, AliasType DEF AssignBranch, DatabaseTypeOK
<1>10. CASE AssignProduction(d)
  BY <1>10, <1>p, AliasType DEF AssignProduction, DatabaseTypeOK
<1>11. CASE PromoteBuilt(d)
  BY <1>11, <1>p, PromotedType DEF PromoteBuilt, DatabaseTypeOK
<1>12. CASE Cleanup(d)
  BY <1>12 DEF Cleanup, dbVars, DatabaseTypeOK
<1>13. CASE Skipped(d)
  BY <1>13, WriteType, States DEF Skipped
<1>14. CASE Settle(d)
  BY <1>14, WriteType, States DEF Settle
<1>15. CASE Unlist(d) \/ Unlock(d)
  BY <1>15 DEF Unlist, Unlock, dbVars, DatabaseTypeOK
<1> QED
  BY <1>1, <1>2, <1>3, <1>4, <1>5, <1>6, <1>7, <1>8, <1>9, <1>10, <1>11, <1>12, <1>13,
     <1>14, <1>15 DEF TaskStep

(* ... when another thread of the worker moves ...                         *)
LEMMA DatabaseTypeWorker ==
  ASSUME DatabaseTypeOK, WorkerNext
  PROVE  DatabaseTypeOK'
<1>1. CASE Tick
  BY <1>1 DEF Tick, TickRead, TickStart, TickSkip, CheckCancelFlags, dbVars, DatabaseTypeOK
<1>2. ASSUME NEW d \in Deployment, TaskStep(d)
      PROVE  DatabaseTypeOK'
  BY <1>2, DatabaseTypeTask
<1>3. ASSUME NEW d \in Deployment, PruneDir(d)
      PROVE  DatabaseTypeOK'
  BY <1>3 DEF PruneDir, DatabaseTypeOK
<1>4. ASSUME NEW d \in Deployment, PruneRows(d)
      PROVE  DatabaseTypeOK'
  <2>1. rows' \in [Deployment -> Row]
    <3>1. rows' = [e \in Deployment |-> IF e \in pruneDone[d]
                                        THEN [rows[e] EXCEPT !.output = FALSE] ELSE rows[e]]
      BY <1>4 DEF PruneRows
    <3> QED
      BY <3>1 DEF DatabaseTypeOK, Row
  <2> QED
    BY <1>4, <2>1 DEF PruneRows, DatabaseTypeOK
<1>5. ASSUME NEW d \in Deployment, OrphanExits(d)
      PROVE  DatabaseTypeOK'
  BY <1>5 DEF OrphanExits, dbVars, DatabaseTypeOK
<1>6. CASE DropPermit \/ Kill
  BY <1>6 DEF DropPermit, Kill, dbVars, DatabaseTypeOK
<1>7. CASE Boot
  <2>1. rows' \in [Deployment -> Row]
    BY <1>7 DEF Boot, DatabaseTypeOK, Row, TERMINAL_STATES
  <2> QED
    BY <1>7, <2>1 DEF Boot, DatabaseTypeOK
<1> QED
  BY <1>1, <1>2, <1>3, <1>4, <1>5, <1>6, <1>7 DEF WorkerNext, Prune

(* ... and when a handler of the API does; its own state is typed, too.    *)
LEMMA TypeApi ==
  ASSUME DatabaseTypeOK, ApiTypeOK, ApiNext
  PROVE  DatabaseTypeOK' /\ ApiTypeOK'
<1>n. None \notin Deployment
  BY NoneIsNoDeployment
<1>1. ASSUME NEW p \in Project, NEW t \in Target, Create(p, t)
      PROVE  DatabaseTypeOK' /\ ApiTypeOK'
  <2>1. nextId' \in 1..(MaxDeployments + 1)
    BY <1>1, DatabaseAssumption DEF Create, DatabaseTypeOK, Deployment
  <2> QED
    BY <1>1, <2>1, InsertedType DEF Create, DatabaseTypeOK, ApiTypeOK, apiVars
<1>2. ASSUME NEW p \in Project, Deploy(p)
      PROVE  DatabaseTypeOK' /\ ApiTypeOK'
  BY <1>1, <1>2, ApiAssumption DEF Deploy
<1>3. ASSUME NEW d \in Deployment, Redeploy(d)
      PROVE  DatabaseTypeOK' /\ ApiTypeOK'
  BY <1>1, <1>3, ProjectOfType, States DEF Redeploy, DatabaseTypeOK, Row
<1>4. ASSUME NEW p \in Project, DeleteProject(p)
      PROVE  DatabaseTypeOK' /\ ApiTypeOK'
  <2>1. {d \in OfProject(p) : Exists(d)} \subseteq Deployment
    BY DEF OfProject
  <2> QED
    BY <1>4, <2>1, DeletedType, AliasType DEF DeleteProject, DatabaseTypeOK, ApiTypeOK
<1>5. ASSUME NEW d \in Deployment, CancelRead(d) \/ PromoteRead(d) \/ DeleteRead(d)
      PROVE  DatabaseTypeOK' /\ ApiTypeOK'
  BY <1>5 DEF CancelRead, PromoteRead, DeleteRead, Continue, dbVars, Op,
              DatabaseTypeOK, ApiTypeOK
<1>6. CASE HandlerStep
  <2>a. apiDep \in Deployment
    BY <1>6 DEF HandlerStep, CancelQueued, FlagCancel, PromoteAlias, PromoteRow,
                PromoteTarget, DeleteQueued, DeleteRow, ApiTypeOK
  <2>p. ProjectOf[apiDep] \in Project
    BY <2>a, ProjectOfType
  <2>1. DatabaseTypeOK'
    <3>1. CASE CancelQueued \/ DeleteQueued
      BY <2>a, <3>1, WithStateType, States DEF CancelQueued, DeleteQueued, DatabaseTypeOK
    <3>2. CASE FlagCancel
      <4>1. rows' \in [Deployment -> Row]
        <5>1. PICK b \in BOOLEAN : rows' = [rows EXCEPT ![apiDep].cancelReq = b]
          BY <3>2 DEF FlagCancel, Exists
        <5> QED
          BY <2>a, <5>1 DEF DatabaseTypeOK, Row
      <4> QED
        BY <3>2, <4>1 DEF FlagCancel, DatabaseTypeOK
    <3>3. CASE PromoteAlias
      BY <2>a, <2>p, <3>3, AliasType DEF PromoteAlias, DatabaseTypeOK
    <3>4. CASE PromoteRow
      BY <2>a, <2>p, <3>4, PromotedType DEF PromoteRow, DatabaseTypeOK
    <3>5. CASE PromoteTarget
      <4>1. rows' \in [Deployment -> Row]
        BY <2>a, <3>5 DEF PromoteTarget, DatabaseTypeOK, Row, Target
      <4> QED
        BY <3>5, <4>1 DEF PromoteTarget, DatabaseTypeOK
    <3>6. CASE DeleteRow
      BY <2>a, <2>p, <3>6, DeletedType, AliasType DEF DeleteRow, DatabaseTypeOK
    <3> QED
      BY <1>6, <3>1, <3>2, <3>3, <3>4, <3>5, <3>6 DEF HandlerStep
  <2>2. ApiTypeOK'
    BY <1>6, <2>a DEF HandlerStep, CancelQueued, FlagCancel, PromoteAlias, PromoteRow,
       PromoteTarget, DeleteQueued, DeleteRow, Continue, Finish, Op, ApiTypeOK
  <2> QED
    BY <2>1, <2>2
<1>7. ASSUME NEW d \in Deployment, RemoveDir(d)
      PROVE  DatabaseTypeOK' /\ ApiTypeOK'
  BY <1>7 DEF RemoveDir, DatabaseTypeOK, ApiTypeOK
<1>8. CASE RestartApi
  BY <1>8, ApiAssumption DEF RestartApi, dbVars, Op, DatabaseTypeOK, ApiTypeOK
<1> QED
  BY <1>2, <1>3, <1>4, <1>5, <1>6, <1>7, <1>8 DEF ApiNext, Call

-----------------------------------------------------------------------------
(* What a step does to the tasks and the registries                        *)

(* A task goes from one stage of its work to the next.                     *)
Moves(d) ==
  /\ task[d] \notin {"none", "unlock"}
  /\ \E to \in Stage \ {"none", "unlock"} : Go(d, task[d], to)
  /\ UNCHANGED <<running, runningProjects, permits, dropping>>

(* Every stage is one of the listed names.                                 *)
LEMMA Stages ==
  Stage = {"none", "load", "begin", "branch", "cleanup", "unlist", "unlock", "fetch",
           "ignore", "command", "snapshot", "clone", "resolve", "built", "skipped",
           "failed", "error", "canceled", "production", "promote"}
  BY DEF Stage, BuildStage, ShellStage, AliasStage

(* A step of a task moves it on, or is one of its last two.                *)
LEMMA TaskKinds ==
  ASSUME NEW d \in Deployment, TaskStep(d)
  PROVE  Moves(d) \/ Unlist(d) \/ Unlock(d)
<1>1. CASE Load(d) \/ Begin(d) \/ EnterClone(d) \/ RunCommand(d) \/ Collect(d)
             \/ Skipped(d) \/ Settle(d)
  BY <1>1, Stages DEF Load, Begin, EnterClone, RunCommand, Collect, Skipped, Settle,
              Write, Go, KeepOthers, Moves
<1>2. CASE Fetched(d) \/ IgnoreRan(d) \/ ResolveFailed(d) \/ CommandFailed(d)
             \/ PublishFailed(d) \/ Failed(d)
  BY <1>2, Stages DEF Fetched, IgnoreRan, ResolveFailed, CommandFailed, PublishFailed,
              Failed, Proceed, Go, KeepOthers, Moves
<1>3. CASE Published(d) \/ Ready(d) \/ AssignBranch(d) \/ AssignProduction(d)
             \/ PromoteBuilt(d) \/ Cleanup(d)
  BY <1>3, Stages DEF Published, Ready, AssignBranch, AssignProduction, PromoteBuilt,
              Cleanup, Go, KeepOthers, Moves
<1> QED
  BY <1>1, <1>2, <1>3 DEF TaskStep

(* Whatever a step is, the registries see it as one of seven things.       *)
LEMMA StepKinds ==
  ASSUME TypeOK, [Next]_vars
  PROVE  \/ UNCHANGED taskVars
         \/ \E d \in Deployment : \/ Moves(d)
                                  \/ TickStart(d) \/ Unlist(d) \/ Unlock(d)
         \/ DropPermit \/ Kill
<1>1. CASE UNCHANGED vars
  BY <1>1 DEF vars, workerVars, taskVars
<1>2. CASE ApiNext /\ UNCHANGED workerVars
  BY <1>2 DEF workerVars, taskVars
<1>3. CASE Tick
  BY <1>3 DEF Tick, TickRead, TickSkip, CheckCancelFlags
<1>4. ASSUME NEW d \in Deployment, TaskStep(d)
      PROVE  Moves(d) \/ Unlist(d) \/ Unlock(d)
  BY <1>4, TaskKinds
<1>5. ASSUME NEW d \in Deployment, Prune(d) \/ OrphanExits(d)
      PROVE  UNCHANGED taskVars
  BY <1>5 DEF Prune, PruneDir, PruneRows, OrphanExits
<1>6. CASE Boot
  BY <1>6 DEF Boot
<1> QED
  BY <1>1, <1>2, <1>3, <1>4, <1>5, <1>6 DEF Next, WorkerNext

-----------------------------------------------------------------------------
(* The invariant of the registries                                         *)

(* SerializedBuilds is not inductive: that no second task of a project     *)
(* starts rests on running_projects, and that Unlock frees no other task's *)
(* project rests on SerializedBuilds. Neither can be shown of permits that *)
(* may exceed Concurrency, which is what PermitsConserved is for.          *)
IInv == TypeOK /\ RegistriesMatchTasks /\ SerializedBuilds /\ PermitsConserved

(* There are finitely many tasks, so that they can be counted.             *)
LEMMA ActiveFinite ==
  /\ IsFiniteSet(Active)
  /\ Cardinality(Active) \in Nat
<1>1. IsFiniteSet(Deployment)
  BY DatabaseAssumption, FS_Interval DEF Deployment
<1>2. Active \in SUBSET Deployment
  BY DEF Active
<1> QED
  BY <1>1, <1>2, FS_Subset, FS_CardinalityType

(* A start adds one active task, an end takes one away, a kill all.        *)
LEMMA ActiveStarts ==
  ASSUME TypeOK, NEW d \in Deployment, TickStart(d)
  PROVE  /\ Active' = Active \cup {d}
         /\ d \notin Active
         /\ Cardinality(Active') = Cardinality(Active) + 1
<1>1. Active' = Active \cup {d} /\ d \notin Active
  BY DEF TypeOK, WorkerTypeOK, TickStart, Go, Active
<1> QED
  BY <1>1, ActiveFinite, FS_AddElement

(* A task that unlocks ends, and one permit less is in use.                *)
LEMMA ActiveEnds ==
  ASSUME TypeOK, NEW d \in Deployment, Unlock(d)
  PROVE  /\ Active' = Active \ {d}
         /\ d \in Active
         /\ Cardinality(Active') = Cardinality(Active) - 1
<1>1. Active' = Active \ {d} /\ d \in Active
  BY DEF TypeOK, WorkerTypeOK, Unlock, Go, Active
<1> QED
  BY <1>1, ActiveFinite, FS_RemoveElement

(* A worker that is killed leaves no task.                                 *)
LEMMA ActiveKilled ==
  ASSUME Kill
  PROVE  Active' = {} /\ Cardinality(Active') = 0
<1>1. Active' = {}
  BY DEF Kill, Active
<1> QED
  BY <1>1, FS_EmptySet

(* Every other step keeps the set, and which of them are listed.           *)
LEMMA ActiveKept ==
  ASSUME TypeOK, NEW d \in Deployment, Moves(d) \/ Unlist(d)
  PROVE  Active' = Active /\ d \in Active
  BY DEF TypeOK, WorkerTypeOK, Moves, Unlist, Go, Active

(* The worker's variables keep their types.                                *)
LEMMA TypeWorker ==
  ASSUME IInv, WorkerNext
  PROVE  WorkerTypeOK'
<1>t. WorkerTypeOK /\ DatabaseTypeOK /\ Concurrency \in Nat
  BY WorkerAssumption DEF IInv, TypeOK
<1>c. permits + dropping + Cardinality(Active) = Concurrency /\ Cardinality(Active) \in Nat
  BY ActiveFinite DEF IInv, PermitsConserved
<1>p. ProjectOf \in [Deployment -> Project]
  BY DatabaseAssumption DEF Deployment
<1>1. CASE TickRead
  BY <1>1, <1>t DEF TickRead, dbVars, taskVars, lifeVars, pruneVars, WorkerTypeOK,
                    DatabaseTypeOK, Row
<1>2. ASSUME NEW d \in Deployment, TickStart(d)
      PROVE  WorkerTypeOK'
  BY <1>2, <1>t, <1>p, Stages DEF TickStart, CanStart, Go, dbVars, lifeVars, pruneVars,
                                  WorkerTypeOK
<1>3. ASSUME NEW d \in Deployment, TickSkip(d)
      PROVE  WorkerTypeOK'
  BY <1>3, <1>t DEF TickSkip, lifeVars, taskVars, pruneVars, WorkerTypeOK
<1>4. CASE CheckCancelFlags
  BY <1>4, <1>t DEF CheckCancelFlags, CancelFlagged, lifeVars, taskVars, pruneVars,
                    WorkerTypeOK
<1>5. ASSUME NEW d \in Deployment, TaskStep(d)
      PROVE  WorkerTypeOK'
  <2>1. CASE Load(d) \/ Begin(d) \/ EnterClone(d) \/ RunCommand(d) \/ Collect(d)
               \/ Skipped(d) \/ Settle(d)
    BY <2>1, <1>t, Stages DEF Load, Begin, EnterClone, RunCommand, Collect, Skipped, Settle,
                Write, Go, KeepOthers, pruneVars, WorkerTypeOK
  <2>2. CASE Fetched(d) \/ IgnoreRan(d) \/ ResolveFailed(d) \/ CommandFailed(d)
               \/ PublishFailed(d) \/ Failed(d)
    BY <2>2, <1>t, Stages DEF Fetched, IgnoreRan, ResolveFailed, CommandFailed,
                PublishFailed, Failed, Proceed, Go, KeepOthers, pruneVars, WorkerTypeOK
  <2>3. CASE Published(d) \/ Ready(d) \/ AssignBranch(d) \/ AssignProduction(d)
               \/ PromoteBuilt(d)
    BY <2>3, <1>t, Stages DEF Published, Ready, AssignBranch, AssignProduction,
                PromoteBuilt, Go, KeepOthers, pruneVars, WorkerTypeOK
  <2>4. CASE Cleanup(d)
    <3>1. StaleForProject(ProjectOf[d], KeepPerProject) \subseteq Deployment
      BY DEF StaleForProject, OfProject
    <3> QED
      BY <2>4, <3>1, <1>t, Stages DEF Cleanup, Go, KeepOthers, WorkerTypeOK
  <2>5. CASE Unlist(d)
    BY <2>5, <1>t, Stages DEF Unlist, Go, tickVars, lifeVars, pruneVars, WorkerTypeOK
  <2>6. CASE Unlock(d)
    <3>1. dropping + 1 \in 0..Concurrency
      BY <2>6, <1>t, <1>c, ActiveEnds, ActiveFinite, FS_EmptySet DEF IInv, WorkerTypeOK
    <3> QED
      BY <2>6, <3>1, <1>t, Stages DEF Unlock, Go, tickVars, lifeVars, pruneVars, WorkerTypeOK
  <2> QED
    BY <1>5, <2>1, <2>2, <2>3, <2>4, <2>5, <2>6 DEF TaskStep
<1>6. ASSUME NEW d \in Deployment, PruneDir(d)
      PROVE  WorkerTypeOK'
  BY <1>6, <1>t DEF PruneDir, taskVars, tickVars, lifeVars, WorkerTypeOK
<1>7. ASSUME NEW d \in Deployment, PruneRows(d) \/ OrphanExits(d)
      PROVE  WorkerTypeOK'
  BY <1>7, <1>t DEF PruneRows, OrphanExits, taskVars, tickVars, lifeVars, pruneVars,
                    WorkerTypeOK
<1>8. CASE DropPermit
  BY <1>8, <1>t, <1>c DEF DropPermit, tickVars, lifeVars, pruneVars, WorkerTypeOK
<1>9. CASE Kill
  <2>1. orphans' \subseteq Deployment
    BY <1>9, <1>t DEF Kill, WorkerTypeOK
  <2>2. up' \in BOOLEAN
    BY <1>9 DEF Kill
  <2>6. crashes' \in 0..MaxCrashes
    <3>1. crashes < MaxCrashes /\ crashes' = crashes + 1
      BY <1>9 DEF Kill
    <3> QED
      BY <1>t, <3>1, WorkerAssumption DEF WorkerTypeOK
  <2>3. task' \in [Deployment -> Stage]
    BY <1>9, Stages DEF Kill
  <2>4. /\ pruneTodo' \in [Deployment -> SUBSET Deployment]
        /\ pruneDone' \in [Deployment -> SUBSET Deployment]
    BY <1>9 DEF Kill
  <2>5. permits' \in 0..Concurrency /\ dropping' \in 0..Concurrency
    BY <1>9, <1>t DEF Kill
  <2> QED
    BY <1>9, <1>t, <2>1, <2>2, <2>3, <2>4, <2>5, <2>6 DEF Kill, WorkerTypeOK
<1>10. CASE Boot
  BY <1>10, <1>t DEF Boot, taskVars, tickVars, pruneVars, WorkerTypeOK
<1> QED
  BY <1>1, <1>2, <1>3, <1>4, <1>5, <1>6, <1>7, <1>8, <1>9, <1>10
     DEF WorkerNext, Tick, Prune

-----------------------------------------------------------------------------
(* The theorems                                                            *)

(* Every step leaves the registries and the tasks in agreement.            *)
LEMMA RegistriesStep ==
  ASSUME IInv, [Next]_vars
  PROVE  RegistriesMatchTasks' /\ SerializedBuilds' /\ PermitsConserved'
<1>t. /\ TypeOK /\ RegistriesMatchTasks /\ SerializedBuilds /\ PermitsConserved
      /\ permits \in Int /\ dropping \in Int /\ Cardinality(Active) \in Nat
      /\ task \in [Deployment -> Stage]
  BY ActiveFinite DEF IInv, TypeOK, WorkerTypeOK
<1>1. CASE UNCHANGED taskVars
  <2>1. Active' = Active
    BY <1>1 DEF taskVars, Active
  <2> QED
    BY <1>1, <1>t, <2>1 DEF taskVars, RegistriesMatchTasks, SerializedBuilds, PermitsConserved
<1>2. ASSUME NEW d \in Deployment, Moves(d)
      PROVE  RegistriesMatchTasks' /\ SerializedBuilds' /\ PermitsConserved'
  <2>1. Active' = Active /\ d \in Active
    BY <1>2, <1>t, ActiveKept
  <2>2. \A e \in Deployment : task'[e] = "unlock" <=> task[e] = "unlock"
    BY <1>2, <1>t DEF Moves, Go
  <2>3. RegistriesMatchTasks'
    BY <1>2, <1>t, <2>1, <2>2 DEF Moves, RegistriesMatchTasks, Active
  <2> QED
    BY <1>2, <1>t, <2>1, <2>3 DEF Moves, SerializedBuilds, PermitsConserved
<1>3. ASSUME NEW d \in Deployment, TickStart(d)
      PROVE  RegistriesMatchTasks' /\ SerializedBuilds' /\ PermitsConserved'
  <2>1. /\ Active' = Active \cup {d} /\ d \notin Active
        /\ Cardinality(Active') = Cardinality(Active) + 1
    BY <1>3, <1>t, ActiveStarts
  <2>2. \A e \in Active : ProjectOf[e] # ProjectOf[d]
    BY <1>3, <1>t DEF TickStart, CanStart, RegistriesMatchTasks
  <2>3. SerializedBuilds'
    BY <1>t, <2>1, <2>2 DEF SerializedBuilds
  <2>4. \A e \in Deployment : task'[e] = "unlock" <=> task[e] = "unlock"
    BY <1>3, <1>t DEF TickStart, Go
  <2>5. RegistriesMatchTasks'
    <3>1. runningProjects' = {ProjectOf[e] : e \in Active'}
      BY <1>3, <1>t, <2>1 DEF TickStart, RegistriesMatchTasks
    <3>2. running' = {e \in Active' : task'[e] # "unlock"}
      BY <1>3, <1>t, <2>1, <2>4 DEF TickStart, Go, RegistriesMatchTasks
    <3> QED
      BY <3>1, <3>2 DEF RegistriesMatchTasks
  <2>6. PermitsConserved'
    BY <1>3, <1>t, <2>1 DEF TickStart, PermitsConserved
  <2> QED
    BY <2>3, <2>5, <2>6
<1>4. ASSUME NEW d \in Deployment, Unlist(d)
      PROVE  RegistriesMatchTasks' /\ SerializedBuilds' /\ PermitsConserved'
  <2>1. Active' = Active /\ d \in Active
    BY <1>4, <1>t, ActiveKept
  <2>2. \A e \in Deployment : task'[e] = "unlock" <=> task[e] = "unlock" \/ e = d
    BY <1>4, <1>t DEF Unlist, Go
  <2>3. RegistriesMatchTasks'
    BY <1>4, <1>t, <2>1, <2>2 DEF Unlist, RegistriesMatchTasks, Active
  <2> QED
    BY <1>4, <1>t, <2>1, <2>3 DEF Unlist, SerializedBuilds, PermitsConserved
<1>5. ASSUME NEW d \in Deployment, Unlock(d)
      PROVE  RegistriesMatchTasks' /\ SerializedBuilds' /\ PermitsConserved'
  <2>1. /\ Active' = Active \ {d} /\ d \in Active
        /\ Cardinality(Active') = Cardinality(Active) - 1
    BY <1>5, <1>t, ActiveEnds
  <2>2. SerializedBuilds'
    BY <1>t, <2>1 DEF SerializedBuilds
  <2>3. RegistriesMatchTasks'
    <3>1. \A e \in Active' : ProjectOf[e] # ProjectOf[d]
      BY <1>t, <2>1 DEF SerializedBuilds
    <3>2. runningProjects' = {ProjectOf[e] : e \in Active'}
      BY <1>5, <1>t, <2>1, <3>1 DEF Unlock, RegistriesMatchTasks
    <3>3. \A e \in Active' : task'[e] = task[e]
      BY <1>5, <1>t, <2>1 DEF Unlock, Go
    <3>4. running' = {e \in Active' : task'[e] # "unlock"}
      BY <1>5, <1>t, <2>1, <3>3 DEF Unlock, Go, RegistriesMatchTasks
    <3> QED
      BY <3>2, <3>4 DEF RegistriesMatchTasks
  <2>4. PermitsConserved'
    BY <1>5, <1>t, <2>1 DEF Unlock, PermitsConserved
  <2> QED
    BY <2>2, <2>3, <2>4
<1>6. CASE DropPermit
  <2>1. Active' = Active
    BY <1>6 DEF DropPermit, Active
  <2> QED
    BY <1>6, <1>t, <2>1 DEF DropPermit, RegistriesMatchTasks, SerializedBuilds, PermitsConserved
<1>7. CASE Kill
  <2>1. Active' = {} /\ Cardinality(Active') = 0
    BY <1>7, ActiveKilled
  <2> QED
    BY <1>7, <2>1, WorkerAssumption
       DEF Kill, RegistriesMatchTasks, SerializedBuilds, PermitsConserved
<1> QED
  BY <1>1, <1>2, <1>3, <1>4, <1>5, <1>6, <1>7, <1>t, StepKinds

(* In the first state nothing runs and every permit is free.               *)
LEMMA InitIInv == Init => IInv
<1> SUFFICES ASSUME Init PROVE IInv
  OBVIOUS
<1>1. DatabaseTypeOK
  BY NoRowType, DatabaseAssumption DEF Init, DatabaseInit, DatabaseTypeOK
<1>2. WorkerTypeOK
  BY Stages, WorkerAssumption DEF Init, WorkerInit, WorkerTypeOK, Target
<1>3. ApiTypeOK
  BY ApiAssumption DEF Init, ApiInit, ApiTypeOK, Op
<1>4. Active = {}
  BY DEF Init, WorkerInit, Active
<1>5. RegistriesMatchTasks /\ SerializedBuilds
  BY <1>4 DEF Init, WorkerInit, RegistriesMatchTasks, SerializedBuilds
<1>6. PermitsConserved
  BY <1>4, FS_EmptySet, WorkerAssumption DEF Init, WorkerInit, PermitsConserved
<1> QED
  BY <1>1, <1>2, <1>3, <1>5, <1>6 DEF IInv, TypeOK

(* Every step of the platform keeps the invariant.                         *)
LEMMA NextIInv == IInv /\ [Next]_vars => IInv'
<1> SUFFICES ASSUME IInv, [Next]_vars PROVE IInv'
  OBVIOUS
<1>t. DatabaseTypeOK /\ WorkerTypeOK /\ ApiTypeOK
  BY DEF IInv, TypeOK
<1>1. TypeOK'
  <2>1. CASE UNCHANGED vars
    BY <2>1, <1>t DEF vars, dbVars, workerVars, apiVars, TypeOK, DatabaseTypeOK,
                      WorkerTypeOK, ApiTypeOK
  <2>2. CASE WorkerNext /\ UNCHANGED apiVars
    <3>1. DatabaseTypeOK' /\ WorkerTypeOK'
      BY <2>2, <1>t, DatabaseTypeWorker, TypeWorker
    <3>2. ApiTypeOK'
      BY <2>2, <1>t DEF apiVars, ApiTypeOK
    <3> QED
      BY <3>1, <3>2 DEF TypeOK
  <2>3. CASE ApiNext /\ UNCHANGED workerVars
    <3>1. DatabaseTypeOK' /\ ApiTypeOK'
      BY <2>3, <1>t, TypeApi
    <3>2. WorkerTypeOK'
      BY <2>3, <1>t DEF workerVars, WorkerTypeOK
    <3> QED
      BY <3>1, <3>2 DEF TypeOK
  <2> QED
    BY <2>1, <2>2, <2>3 DEF Next
<1>2. RegistriesMatchTasks' /\ SerializedBuilds' /\ PermitsConserved'
  BY RegistriesStep
<1> QED
  BY <1>1, <1>2 DEF IInv

(* IInv holds in every state that the two processes can reach together.    *)
THEOREM Invariance == Spec => []IInv
  BY InitIInv, NextIInv, PTL DEF Spec

(* Every variable, and every column of every row, keeps its type: among    *)
(* others, never are there fewer than no free permits or more than         *)
(* Concurrency.                                                            *)
THEOREM TypeCorrect == Spec => []TypeOK
<1>1. IInv => TypeOK
  BY DEF IInv
<1> QED
  BY <1>1, Invariance, PTL

(* Builds of one project never overlap, whatever the API does to rows that *)
(* are queued or being built and wherever the worker is killed.            *)
THEOREM Serialization == Spec => []SerializedBuilds
<1>1. IInv => SerializedBuilds
  BY DEF IInv
<1> QED
  BY <1>1, Invariance, PTL

(* No way out of a build loses a permit.                                   *)
THEOREM PermitAccount == Spec => []PermitsConserved
<1>1. IInv => PermitsConserved
  BY DEF IInv
<1> QED
  BY <1>1, Invariance, PTL

(* running and running_projects list exactly the builds under way, so that *)
(* no project stays locked after its last build.                           *)
THEOREM RegistriesAgree == Spec => []RegistriesMatchTasks
<1>1. IInv => RegistriesMatchTasks
  BY DEF IInv
<1> QED
  BY <1>1, Invariance, PTL

(* What the worker does to its set of tasks is what BuildQueue allows.     *)
LEMMA QueueStep ==
  ASSUME IInv, [Next]_vars
  PROVE  [Queue!Next]_Active
<1>t. /\ TypeOK /\ RegistriesMatchTasks /\ PermitsConserved
      /\ permits \in Nat /\ dropping \in Nat /\ Cardinality(Active) \in Nat
  BY ActiveFinite, WorkerAssumption DEF IInv, TypeOK, WorkerTypeOK
<1>1. CASE UNCHANGED taskVars
  BY <1>1 DEF taskVars, Active
<1>2. ASSUME NEW d \in Deployment, Moves(d) \/ Unlist(d)
      PROVE  UNCHANGED Active
  BY <1>2, <1>t, ActiveKept
<1>3. ASSUME NEW d \in Deployment, TickStart(d)
      PROVE  Queue!Start(d)
  <2>1. \A e \in Active : ProjectOf[e] # ProjectOf[d]
    BY <1>3, <1>t DEF TickStart, CanStart, RegistriesMatchTasks
  <2>2. Cardinality(Active) < Concurrency
    BY <1>3, <1>t, WorkerAssumption DEF TickStart, CanStart, PermitsConserved
  <2>3. Active' = Active \cup {d}
    BY <1>3, <1>t, ActiveStarts
  <2> QED
    BY <2>1, <2>2, <2>3 DEF Queue!Start, Queue!Cardinality, Cardinality
<1>4. ASSUME NEW d \in Deployment, Unlock(d)
      PROVE  Queue!End(d)
  BY <1>4, <1>t, ActiveEnds DEF Queue!End
<1>5. CASE DropPermit
  BY <1>5 DEF DropPermit, Active
<1>6. CASE Kill
  BY <1>6, ActiveKilled DEF Queue!Next, Queue!Forget
<1> QED
  BY <1>1, <1>2, <1>3, <1>4, <1>5, <1>6, <1>t, StepKinds DEF Queue!Next

(* The worker, with the API at work next to it, implements BuildQueue: at  *)
(* most BUILD_CONCURRENCY builds run, and one of each project.             *)
THEOREM Refinement == Spec => ImplementsBuildQueue
<1>1. Init => Queue!Init
  BY DEF Init, WorkerInit, Active, Queue!Init
<1>2. IInv /\ [Next]_vars => [Queue!Next]_Active
  BY QueueStep
<1> QED
  BY <1>1, <1>2, Invariance, PTL DEF Spec, Queue!Spec, ImplementsBuildQueue
=============================================================================
