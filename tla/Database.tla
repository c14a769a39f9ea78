------------------------------ MODULE Database ------------------------------
(***************************************************************************)
(* The SQLite file and the deployment directories that avail-api,          *)
(* avail-worker and the proxy share.                                       *)
(*                                                                         *)
(* Only the columns the lifecycle of a deployment depends on are kept.     *)
(* Every operator below is one SQL statement (or one transaction): it      *)
(* gives the new value of a table, and statements of two processes may     *)
(* interleave, since each process has a mutex of its own.                  *)
(***************************************************************************)
EXTENDS Integers, FiniteSets

CONSTANTS
  Project,         \* the projects that exist at the start
  MaxDeployments,  \* bound: deployment rows ever inserted
  ProjectOf        \* the project each deployment is created for

ASSUME DatabaseAssumption ==
  /\ MaxDeployments \in Nat
  /\ ProjectOf \in [1..MaxDeployments -> Project]

(* Ids are random and unique; here they are numbered by created_at.        *)
Deployment == 1..MaxDeployments

(* A NULL deployment_id, or no alias row at all.                           *)
None == 0

VARIABLES
  projects,     \* rows of the table projects
  nextId,       \* the id the next INSERT into deployments gets
  rows,         \* table deployments, one row per id
  prodAlias,    \* aliases, type production: the deployment each project's host serves
  branchAlias,  \* aliases, type branch (a project's deployments share one branch)
  disk          \* deployments whose directory holds a snapshot and its manifest

dbVars == <<projects, nextId, rows, prodAlias, branchAlias, disk>>

-----------------------------------------------------------------------------
InProgress == {"INITIALIZING", "BUILDING", "UPLOADING"}
TERMINAL_STATES == {"READY", "ERROR", "CANCELED", "SKIPPED"}
Target == {"production", "preview"}

Row == [state     : {"ABSENT", "QUEUED"} \cup InProgress \cup TERMINAL_STATES,
        target    : Target,
        output    : BOOLEAN,   \* output_path IS NOT NULL
        prod      : BOOLEAN,   \* is_current_production
        cancelReq : BOOLEAN]   \* meta.cancelRequested

(* What an id that was never inserted, or has been deleted, stands for.    *)
NoRow == [state |-> "ABSENT", target |-> "preview", output |-> FALSE,
          prod |-> FALSE, cancelReq |-> FALSE]

Exists(d) == rows[d].state # "ABSENT"

OfProject(p) == {d \in Deployment : ProjectOf[d] = p}

(* create_deployment: the row starts QUEUED, without output.               *)
Inserted(d, t) == [rows EXCEPT ![d] = [NoRow EXCEPT !.state = "QUEUED", !.target = t]]

(* UPDATE ... WHERE id = ? changes nothing when the row has gone.          *)
WithState(d, s) == [rows EXCEPT ![d].state = IF Exists(d) THEN s ELSE @]

(* The update that publishes a build sets state and output_path together.  *)
WithReady(d) ==
  [rows EXCEPT ![d] = IF Exists(d) THEN [@ EXCEPT !.state = "READY", !.output = TRUE] ELSE @]

(* The upsert of an alias: it fails, and the caller ignores it, when the   *)
(* foreign keys to deployments or projects do not hold.                    *)
Upserted(alias, p, d) ==
  [alias EXCEPT ![p] = IF Exists(d) /\ p \in projects THEN d ELSE @]

(* As Promoted, without the statement that clears the project.             *)
PromotedOnly(p, d) ==
  [rows EXCEPT ![d].prod = IF Exists(d) THEN TRUE ELSE @]

(* deployments::promote, one transaction: clear the project, set one row.  *)
Promoted(p, d) ==
  [e \in Deployment |->
     IF e = d /\ Exists(d) THEN [rows[e] EXCEPT !.prod = TRUE]
     ELSE IF ProjectOf[e] = p THEN [rows[e] EXCEPT !.prod = FALSE]
     ELSE rows[e]]

(* DELETE FROM deployments, and what ON DELETE CASCADE does to aliases.    *)
Deleted(S) == [d \in Deployment |-> IF d \in S THEN NoRow ELSE rows[d]]
Unaliased(alias, S) == [p \in Project |-> IF alias[p] \in S THEN None ELSE alias[p]]

(* deployments::stale_for_project, filtered on output_path: all but the    *)
(* `keep` newest finished deployments that are not current production.     *)
StaleForProject(p, keep) ==
  LET finished == {d \in OfProject(p) : /\ ~rows[d].prod
                                        /\ rows[d].state \in {"READY", "ERROR", "CANCELED"}}
  IN  {d \in finished : /\ rows[d].output
                        /\ Cardinality({e \in finished : e > d}) >= keep}

-----------------------------------------------------------------------------
(* Types of the tables.                                                    *)
DatabaseTypeOK ==
  /\ projects \subseteq Project
  /\ nextId \in 1..(MaxDeployments + 1)
  /\ rows \in [Deployment -> Row]
  /\ prodAlias \in [Project -> Deployment \cup {None}]
  /\ branchAlias \in [Project -> Deployment \cup {None}]
  /\ disk \subseteq Deployment

DatabaseInit ==
  /\ projects = Project
  /\ nextId = 1
  /\ rows = [d \in Deployment |-> NoRow]
  /\ prodAlias = [p \in Project |-> None]
  /\ branchAlias = [p \in Project |-> None]
  /\ disk = {}
=============================================================================
