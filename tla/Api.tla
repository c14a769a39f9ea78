-------------------------------- MODULE Api --------------------------------
(***************************************************************************)
(* avail-api: the handlers that create, cancel, promote and delete         *)
(* deployments, and delete projects.                                       *)
(*                                                                         *)
(* A handler keeps the process's database mutex from its first statement   *)
(* to its last, so one handler runs at a time; but the worker has its own  *)
(* connection, and its statements fall between those of a handler. What a  *)
(* handler decided on before a statement is kept in apiOp.                 *)
(***************************************************************************)
EXTENDS Database

CONSTANTS
  Calls,           \* bound: the handlers users call
  DeployTargets,   \* bound: the targets they deploy to
  MaxApiCrashes    \* bound: how often the process is killed

ASSUME ApiAssumption ==
  /\ Calls \subseteq {"deploy", "redeploy", "cancel", "promote", "delete", "deleteProject"}
  /\ DeployTargets \subseteq Target
  /\ MaxApiCrashes \in Nat

VARIABLES
  apiOp,           \* what the running handler does next
  apiDep,          \* the deployment it is about
  trash,           \* directories its spawned cleanup tasks have still to remove
  apiCrashes

apiVars == <<apiOp, apiDep, trash, apiCrashes>>

Op == {"idle", "cancelQueued", "flagCancel", "promoteAlias", "promoteRow", "promoteTarget",
       "deleteQueued", "deleteRow"}

Idle == apiOp = "idle"

(* The handler for d goes on with op.                                      *)
Continue(op, d) ==
  /\ apiOp' = op
  /\ apiDep' = d
  /\ UNCHANGED <<trash, apiCrashes>>

Finish == Continue("idle", None)

-----------------------------------------------------------------------------
(* create_deployment: nothing the worker does touches what it reads.       *)
Create(p, t) ==
  /\ Idle
  /\ nextId \in Deployment
  /\ ProjectOf[nextId] = p
  /\ p \in projects
  /\ nextId' = nextId + 1
  /\ rows' = Inserted(nextId, t)
  /\ UNCHANGED <<projects, prodAlias, branchAlias, disk, apiVars>>

(* trigger_deploy, or a webhook: the caller or the branch gives the target. *)
Deploy(p) ==
  /\ "deploy" \in Calls
  /\ \E t \in DeployTargets : Create(p, t)

(* redeploy: a preview, or the target of the source as it is now.          *)
Redeploy(d) ==
  /\ "redeploy" \in Calls
  /\ Exists(d)
  /\ \E t \in {"preview", rows[d].target} : Create(ProjectOf[d], t)

-----------------------------------------------------------------------------
(* cancel: the row is read ...                                             *)
CancelRead(d) ==
  /\ "cancel" \in Calls
  /\ Idle
  /\ Exists(d)
  /\ rows[d].state \notin TERMINAL_STATES
  /\ Continue(IF rows[d].state = "QUEUED" THEN "cancelQueued" ELSE "flagCancel", d)
  /\ UNCHANGED dbVars

(* ... and then either cancelled or, when a worker builds it, flagged.     *)
CancelQueued ==
  /\ apiOp = "cancelQueued"
  /\ rows' = WithState(apiDep, "CANCELED")
  /\ UNCHANGED <<projects, nextId, prodAlias, branchAlias, disk>>
  /\ Finish

FlagCancel ==
  /\ apiOp = "flagCancel"
  /\ rows' = [rows EXCEPT ![apiDep].cancelReq = Exists(apiDep)]
  /\ UNCHANGED <<projects, nextId, prodAlias, branchAlias, disk>>
  /\ Finish

-----------------------------------------------------------------------------
(* promote and promote_to_production: the guards look at the row once,     *)
(* then come three statements.                                             *)
PromoteRead(d) ==
  /\ "promote" \in Calls
  /\ Idle
  /\ Exists(d)
  /\ rows[d].output
  /\ rows[d].state = "READY"
  /\ Continue("promoteAlias", d)
  /\ UNCHANGED dbVars

PromoteAlias ==
  /\ apiOp = "promoteAlias"
  /\ prodAlias' = Upserted(prodAlias, ProjectOf[apiDep], apiDep)
  /\ UNCHANGED <<projects, nextId, rows, branchAlias, disk>>
  /\ Continue("promoteRow", apiDep)

PromoteRow ==
  /\ apiOp = "promoteRow"
  /\ rows' = Promoted(ProjectOf[apiDep], apiDep)
  /\ UNCHANGED <<projects, nextId, prodAlias, branchAlias, disk>>
  /\ Continue("promoteTarget", apiDep)

PromoteTarget ==
  /\ apiOp = "promoteTarget"
  /\ rows' = [rows EXCEPT ![apiDep].target = IF Exists(apiDep) THEN "production" ELSE @]
  /\ UNCHANGED <<projects, nextId, prodAlias, branchAlias, disk>>
  /\ Finish

-----------------------------------------------------------------------------
(* delete_deployment: a queued row is cancelled first, so that the worker  *)
(* does not pick it up; a row that is being built is simply deleted.       *)
DeleteRead(d) ==
  /\ "delete" \in Calls
  /\ Idle
  /\ Exists(d)
  /\ ~rows[d].prod
  /\ Continue(IF rows[d].state = "QUEUED" THEN "deleteQueued" ELSE "deleteRow", d)
  /\ UNCHANGED dbVars

DeleteQueued ==
  /\ apiOp = "deleteQueued"
  /\ rows' = WithState(apiDep, "CANCELED")
  /\ UNCHANGED <<projects, nextId, prodAlias, branchAlias, disk>>
  /\ Continue("deleteRow", apiDep)

(* As DeleteRow, without ON DELETE CASCADE on aliases.                     *)
DeleteRowOnly ==
  /\ apiOp = "deleteRow"
  /\ rows' = Deleted({apiDep})
  /\ UNCHANGED <<projects, nextId, prodAlias, branchAlias, disk, apiCrashes>>
  /\ apiOp' = "idle" /\ apiDep' = None
  /\ trash' = trash \cup {apiDep}

(* The row and, by cascade, its aliases; the directory is left to a task.  *)
DeleteRow ==
  /\ apiOp = "deleteRow"
  /\ rows' = Deleted({apiDep})
  /\ prodAlias' = Unaliased(prodAlias, {apiDep})
  /\ branchAlias' = Unaliased(branchAlias, {apiDep})
  /\ UNCHANGED <<projects, nextId, disk, apiCrashes>>
  /\ apiOp' = "idle" /\ apiDep' = None
  /\ trash' = trash \cup {apiDep}

(* delete_project: one DELETE, which cascades to deployments and aliases.  *)
DeleteProject(p) ==
  LET gone == {d \in OfProject(p) : Exists(d)}
  IN  /\ "deleteProject" \in Calls
      /\ Idle
      /\ p \in projects
      /\ projects' = projects \ {p}
      /\ rows' = Deleted(gone)
      /\ prodAlias' = [prodAlias EXCEPT ![p] = None]
      /\ branchAlias' = [branchAlias EXCEPT ![p] = None]
      /\ trash' = trash \cup gone
      /\ UNCHANGED <<nextId, disk, apiOp, apiDep, apiCrashes>>

(* spawn_deployment_cleanup                                                *)
RemoveDir(d) ==
  /\ d \in trash
  /\ disk' = disk \ {d}
  /\ trash' = trash \ {d}
  /\ UNCHANGED <<projects, nextId, rows, prodAlias, branchAlias, apiOp, apiDep, apiCrashes>>

(* The process is killed and started again: a handler stops where it is.   *)
RestartApi ==
  /\ apiCrashes < MaxApiCrashes
  /\ apiCrashes' = apiCrashes + 1
  /\ apiOp' = "idle" /\ apiDep' = None
  /\ trash' = {}
  /\ UNCHANGED dbVars

-----------------------------------------------------------------------------
(* Types of the state of the API handlers.                                 *)
ApiTypeOK ==
  /\ apiOp \in Op
  /\ apiDep \in Deployment \cup {None}
  /\ apiOp # "idle" => apiDep \in Deployment
  /\ trash \subseteq Deployment
  /\ apiCrashes \in 0..MaxApiCrashes

ApiInit ==
  /\ apiOp = "idle"
  /\ apiDep = None
  /\ trash = {}
  /\ apiCrashes = 0
=============================================================================
