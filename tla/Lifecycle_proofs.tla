-------------------------- MODULE Lifecycle_proofs --------------------------
(***************************************************************************)
(* Theorems about the rows of Platform: what users may rely on while the   *)
(* worker and the API write them at the same time.                         *)
(*                                                                         *)
(* First comes what one step can do to the table deployments: keep every   *)
(* row, promote one, delete some or insert one. Each theorem then needs    *)
(* only to look at these kinds and at the columns it is about.             *)
(***************************************************************************)
EXTENDS Platform_proofs

-----------------------------------------------------------------------------
(* What one step does to the table                                         *)

(* No row appears, goes, becomes current production or loses its flag ...  *)
FlagsKept ==
  \A e \in Deployment :
    /\ Exists(e)' <=> Exists(e)
    /\ rows'[e].prod => rows[e].prod
    /\ Exists(e) /\ rows[e].cancelReq => rows'[e].cancelReq
    /\ rows'[e].state = "QUEUED" => rows[e].state = "QUEUED"

(* ... and none is published.                                              *)
RowsKept ==
  /\ FlagsKept
  /\ \A e \in Deployment : /\ rows'[e].state = "READY" => rows[e].state = "READY"
                           /\ rows'[e].output => rows[e].output

RowPublished == \E d \in Deployment : Ready(d)
RowPromoted == \E d \in Deployment : rows' = Promoted(ProjectOf[d], d)
RowsDeleted == DeleteRow \/ \E p \in Project : DeleteProject(p)
RowInserted == \E p \in Project, t \in Target : Create(p, t)

(* The states that are written on their own into a row that is there.      *)
Written == {"ERROR", "INITIALIZING", "BUILDING", "UPLOADING", "SKIPPED", "CANCELED"}

(* What a worker writes besides READY is neither absent nor queued.        *)
LEMMA WrittenStates == Written \subseteq State \ {"ABSENT", "QUEUED", "READY"}
  BY DEF Written, State, InProgress, TERMINAL_STATES

(* Writing the state of a row keeps what the flags of every row say.       *)
LEMMA WithStateKeeps ==
  ASSUME DatabaseTypeOK, NEW d \in Deployment, NEW s \in Written,
         rows' = WithState(d, s)
  PROVE  RowsKept
  BY WrittenStates DEF WithState, DatabaseTypeOK, Row, Exists, FlagsKept, RowsKept

(* Making a row ready keeps the flags of every row.                        *)
LEMMA WithReadyKeeps ==
  ASSUME DatabaseTypeOK, NEW d \in Deployment, rows' = WithReady(d)
  PROVE  FlagsKept
  BY DEF WithReady, DatabaseTypeOK, Row, Exists, FlagsKept

(* Rows that are left alone are kept.                                      *)
LEMMA SameRowsKept ==
  ASSUME UNCHANGED rows
  PROVE  RowsKept
  BY DEF FlagsKept, RowsKept, Exists

(* A deletion leaves nothing of the rows it names.                         *)
LEMMA DeletedRows ==
  ASSUME RowsDeleted
  PROVE  \E S : rows' = Deleted(S)
  BY DEF RowsDeleted, DeleteRow, DeleteProject

(* One step of a build keeps every row, or publishes or promotes its own.  *)
LEMMA TaskRows ==
  ASSUME DatabaseTypeOK, NEW d \in Deployment, TaskStep(d)
  PROVE  RowsKept \/ Ready(d) \/ rows' = Promoted(ProjectOf[d], d)
<1>1. CASE Load(d) \/ Begin(d) \/ EnterClone(d) \/ RunCommand(d) \/ Collect(d)
             \/ Skipped(d) \/ Settle(d)
  <2>1. UNCHANGED rows \/ \E s \in Written : rows' = WithState(d, s)
    BY <1>1
       DEF Load, Begin, EnterClone, RunCommand, Collect, Skipped, Settle, Write, Written
  <2> QED
    BY <2>1, WithStateKeeps, SameRowsKept
<1>2. CASE Fetched(d) \/ IgnoreRan(d) \/ ResolveFailed(d) \/ CommandFailed(d)
             \/ PublishFailed(d) \/ Failed(d)
  <2>1. UNCHANGED rows
    BY <1>2 DEF Fetched, IgnoreRan, ResolveFailed, CommandFailed, PublishFailed, Failed,
                Proceed, dbVars
  <2> QED
    BY <2>1, SameRowsKept
<1>3. CASE Published(d) \/ AssignBranch(d) \/ AssignProduction(d) \/ Cleanup(d)
             \/ Unlist(d) \/ Unlock(d)
  <2>1. UNCHANGED rows
    BY <1>3 DEF Published, AssignBranch, AssignProduction, Cleanup, Unlist, Unlock, dbVars
  <2> QED
    BY <2>1, SameRowsKept
<1>4. CASE PromoteBuilt(d)
  BY <1>4 DEF PromoteBuilt
<1> QED
  BY <1>1, <1>2, <1>3, <1>4 DEF TaskStep

(* So does every other step of the worker ...                              *)
LEMMA WorkerRows ==
  ASSUME DatabaseTypeOK, WorkerNext
  PROVE  RowsKept \/ RowPublished \/ RowPromoted
<1>1. CASE Tick \/ DropPermit \/ Kill \/ \E d \in Deployment : PruneDir(d) \/ OrphanExits(d)
  <2>1. UNCHANGED rows
    BY <1>1 DEF Tick, TickRead, TickStart, TickSkip, CheckCancelFlags, DropPermit, Kill,
                PruneDir, OrphanExits, dbVars
  <2> QED
    BY <2>1, SameRowsKept
<1>2. ASSUME NEW d \in Deployment, TaskStep(d)
      PROVE  RowsKept \/ RowPublished \/ RowPromoted
  BY <1>2, TaskRows DEF RowPublished, RowPromoted
<1>3. ASSUME NEW d \in Deployment, PruneRows(d)
      PROVE  RowsKept
  BY <1>3 DEF PruneRows, DatabaseTypeOK, Row, Exists, FlagsKept, RowsKept
<1>4. CASE Boot
  BY <1>4 DEF Boot, Interrupted, InProgress, DatabaseTypeOK, Row, Exists, FlagsKept, RowsKept
<1> QED
  BY <1>1, <1>2, <1>3, <1>4 DEF WorkerNext, Prune

(* ... and the API also inserts and deletes.                               *)
LEMMA ApiRows ==
  ASSUME DatabaseTypeOK, ApiTypeOK, ApiNext
  PROVE  RowsKept \/ RowPromoted \/ RowsDeleted \/ RowInserted
<1>1. ASSUME NEW p \in Project, Deploy(p)
      PROVE  RowInserted
  BY <1>1, ApiAssumption DEF Deploy, RowInserted
<1>2. ASSUME NEW d \in Deployment, Redeploy(d)
      PROVE  RowInserted
  BY <1>2, ProjectOfType, States DEF Redeploy, RowInserted, DatabaseTypeOK, Row
<1>3. ASSUME NEW p \in Project, DeleteProject(p)
      PROVE  RowsDeleted
  BY <1>3 DEF RowsDeleted
<1>4. CASE RestartApi \/ \E d \in Deployment : CancelRead(d) \/ PromoteRead(d) \/ DeleteRead(d)
                                                 \/ RemoveDir(d)
  <2>1. UNCHANGED rows
    BY <1>4 DEF RestartApi, CancelRead, PromoteRead, DeleteRead, RemoveDir, dbVars
  <2> QED
    BY <2>1, SameRowsKept
<1>5. CASE HandlerStep
  <2>a. apiDep \in Deployment
    BY <1>5 DEF HandlerStep, CancelQueued, FlagCancel, PromoteAlias, PromoteRow,
                PromoteTarget, DeleteQueued, DeleteRow, ApiTypeOK
  <2>1. CASE CancelQueued \/ DeleteQueued
    BY <2>1, <2>a, WithStateKeeps DEF CancelQueued, DeleteQueued, Written
  <2>2. CASE FlagCancel
    BY <2>2, <2>a DEF FlagCancel, DatabaseTypeOK, Row, Exists, FlagsKept, RowsKept
  <2>3. CASE PromoteAlias
    BY <2>3, SameRowsKept DEF PromoteAlias
  <2>4. CASE PromoteRow
    BY <2>4, <2>a DEF PromoteRow, RowPromoted
  <2>5. CASE PromoteTarget
    BY <2>5, <2>a DEF PromoteTarget, DatabaseTypeOK, Row, Exists, FlagsKept, RowsKept
  <2>6. CASE DeleteRow
    BY <2>6 DEF RowsDeleted
  <2> QED
    BY <1>5, <2>1, <2>2, <2>3, <2>4, <2>5, <2>6 DEF HandlerStep
<1> QED
  BY <1>1, <1>2, <1>3, <1>4, <1>5 DEF ApiNext, Call

(* The five ways in which a step changes rows.                             *)
LEMMA RowKinds ==
  ASSUME TypeOK, [Next]_vars
  PROVE  RowsKept \/ RowPublished \/ RowPromoted \/ RowsDeleted \/ RowInserted
<1>1. CASE UNCHANGED vars
  BY <1>1, SameRowsKept DEF vars, dbVars
<1>2. CASE WorkerNext
  BY <1>2, WorkerRows DEF TypeOK
<1>3. CASE ApiNext
  BY <1>3, ApiRows DEF TypeOK
<1> QED
  BY <1>1, <1>2, <1>3 DEF Next

-----------------------------------------------------------------------------
(* One current production deployment                                       *)

(* No step makes a second deployment of a project production.              *)
LEMMA ProductionStep ==
  ASSUME TypeOK, AtMostOneProduction, [Next]_vars
  PROVE  AtMostOneProduction'
<1>t. DatabaseTypeOK
  BY DEF TypeOK
<1>0. RowsKept \/ RowPublished => FlagsKept
  BY <1>t, WithReadyKeeps DEF RowsKept, RowPublished, Ready
<1>1. CASE FlagsKept
  BY <1>1 DEF FlagsKept, AtMostOneProduction
<1>2. CASE RowPromoted
  <2>1. PICK d \in Deployment : rows' = Promoted(ProjectOf[d], d)
    BY <1>2 DEF RowPromoted
  <2>2. \A e \in Deployment :
          rows'[e].prod => e = d \/ (rows[e].prod /\ ProjectOf[e] # ProjectOf[d])
    BY <2>1, <1>t DEF Promoted, DatabaseTypeOK, Row
  <2> QED
    BY <2>2 DEF AtMostOneProduction
<1>3. CASE RowsDeleted
  BY <1>3, DeletedRows DEF Deleted, NoRow, AtMostOneProduction
<1>4. CASE RowInserted
  <2>1. \A e \in Deployment : rows'[e].prod => rows[e].prod
    BY <1>4, <1>t DEF RowInserted, Create, Inserted, NoRow, DatabaseTypeOK, Row
  <2> QED
    BY <2>1 DEF AtMostOneProduction
<1> QED
  BY <1>0, <1>1, <1>2, <1>3, <1>4, RowKinds

(* However users' promotions, rollbacks and finished builds interleave,    *)
(* statement by statement, no project ever shows two current production    *)
(* deployments.                                                            *)
THEOREM OneProduction == Spec => []AtMostOneProduction
<1>1. Init => AtMostOneProduction
  BY DEF Init, DatabaseInit, NoRow, AtMostOneProduction
<1>2. TypeOK /\ AtMostOneProduction /\ [Next]_vars => AtMostOneProduction'
  BY ProductionStep
<1> QED
  BY <1>1, <1>2, TypeCorrect, PTL DEF Spec

-----------------------------------------------------------------------------
(* Aliases                                                                 *)

(* What AliasesResolve says of one alias table.                            *)
Resolves(alias, ps, table) ==
  \A p \in Project :
    alias[p] # None => /\ p \in ps
                       /\ table[alias[p]].state # "ABSENT"
                       /\ ProjectOf[alias[p]] = p

(* Both tables of aliases resolve, before a step and after it.             *)
LEMMA ResolveBoth ==
  /\ AliasesResolve <=> /\ Resolves(prodAlias, projects, rows)
                        /\ Resolves(branchAlias, projects, rows)
  /\ AliasesResolve' <=> /\ Resolves(prodAlias', projects', rows')
                         /\ Resolves(branchAlias', projects', rows')
  BY DEF AliasesResolve, Resolves, Exists

(* An upsert checks the foreign keys in the statement that writes it.      *)
LEMMA UpsertResolves ==
  ASSUME NEW alias \in [Project -> Deployment \cup {None}], NEW d \in Deployment,
         Resolves(alias, projects, rows)
  PROVE  Resolves(Upserted(alias, ProjectOf[d], d), projects, rows)
  BY ProjectOfType DEF Resolves, Upserted, Exists

(* As long as no row and no project goes, an alias goes on resolving.      *)
LEMMA KeptResolves ==
  ASSUME NEW alias \in [Project -> Deployment \cup {None}],
         Resolves(alias, projects, rows),
         UNCHANGED projects, \A e \in Deployment : Exists(e) => Exists(e)'
  PROVE  Resolves(alias, projects', rows')
  BY DEF Resolves, Exists

(* A deletion takes with it the aliases of the rows that go.               *)
LEMMA CascadeResolves ==
  ASSUME NEW alias \in [Project -> Deployment \cup {None}], NEW S,
         Resolves(alias, projects, rows)
  PROVE  Resolves(Unaliased(alias, S), projects, Deleted(S))
  BY DEF Resolves, Unaliased, Deleted

(* A project that goes has the only aliases to its deployments.            *)
LEMMA ProjectCascadeResolves ==
  ASSUME NEW alias \in [Project -> Deployment \cup {None}], NEW p \in Project, NEW S,
         S \subseteq OfProject(p), Resolves(alias, projects, rows)
  PROVE  Resolves([alias EXCEPT ![p] = None], projects \ {p}, Deleted(S))
  BY DEF Resolves, Deleted, OfProject

(* Only a deletion makes a row go.                                         *)
LEMMA RowsStay ==
  ASSUME DatabaseTypeOK, RowsKept \/ RowPublished \/ RowPromoted \/ RowInserted
  PROVE  \A e \in Deployment : Exists(e) => Exists(e)'
<1>1. CASE RowsKept \/ RowPublished
  BY <1>1, WithReadyKeeps DEF RowPublished, Ready, FlagsKept, RowsKept
<1>2. CASE RowPromoted
  BY <1>2 DEF RowPromoted, Promoted, DatabaseTypeOK, Row, Exists
<1>3. CASE RowInserted
  BY <1>3 DEF RowInserted, Create, Inserted, NoRow, DatabaseTypeOK, Row, Exists
<1> QED
  BY <1>1, <1>2, <1>3

(* Three statements write an alias, and a deletion.                        *)
Upserts ==
  \/ PromoteAlias
  \/ \E d \in Deployment : AssignBranch(d) \/ AssignProduction(d)

(* The ways in which a step changes aliases.                               *)
LEMMA AliasKinds ==
  ASSUME [Next]_vars
  PROVE  UNCHANGED <<projects, prodAlias, branchAlias>> \/ Upserts \/ RowsDeleted
<1>1. CASE UNCHANGED vars
  BY <1>1 DEF vars, dbVars
<1>2. CASE Tick \/ DropPermit \/ Kill \/ Boot
             \/ \E d \in Deployment : Prune(d) \/ OrphanExits(d)
  BY <1>2 DEF Tick, TickRead, TickStart, TickSkip, CheckCancelFlags, DropPermit, Kill, Boot,
              Prune, PruneDir, PruneRows, OrphanExits, dbVars
<1>3. ASSUME NEW d \in Deployment, TaskStep(d)
      PROVE  UNCHANGED <<projects, prodAlias, branchAlias>> \/ Upserts
  <2>1. CASE Load(d) \/ Begin(d) \/ EnterClone(d) \/ RunCommand(d) \/ Collect(d)
               \/ Skipped(d) \/ Settle(d)
    BY <2>1 DEF Load, Begin, EnterClone, RunCommand, Collect, Skipped, Settle, Write
  <2>2. CASE Fetched(d) \/ IgnoreRan(d) \/ ResolveFailed(d) \/ CommandFailed(d)
               \/ PublishFailed(d) \/ Failed(d)
    BY <2>2 DEF Fetched, IgnoreRan, ResolveFailed, CommandFailed, PublishFailed, Failed,
                Proceed, dbVars
  <2>3. CASE Published(d) \/ Ready(d) \/ PromoteBuilt(d) \/ Cleanup(d) \/ Unlist(d) \/ Unlock(d)
    BY <2>3 DEF Published, Ready, PromoteBuilt, Cleanup, Unlist, Unlock, dbVars
  <2> QED
    BY <1>3, <2>1, <2>2, <2>3 DEF TaskStep, Upserts
<1>4. CASE ApiNext
  BY <1>4 DEF ApiNext, Call, Deploy, Redeploy, Create, CancelRead, PromoteRead, DeleteRead,
              HandlerStep, CancelQueued, FlagCancel, PromoteRow, PromoteTarget, DeleteQueued,
              RemoveDir, RestartApi, dbVars, Upserts, RowsDeleted
<1> QED
  BY <1>1, <1>2, <1>3, <1>4 DEF Next, WorkerNext

(* No step leaves an alias without its row.                                *)
LEMMA AliasesStep ==
  ASSUME TypeOK, AliasesResolve, [Next]_vars
  PROVE  AliasesResolve'
<1>t. /\ DatabaseTypeOK /\ ApiTypeOK
      /\ prodAlias \in [Project -> Deployment \cup {None}]
      /\ branchAlias \in [Project -> Deployment \cup {None}]
      /\ Resolves(prodAlias, projects, rows) /\ Resolves(branchAlias, projects, rows)
  BY ResolveBoth DEF TypeOK, DatabaseTypeOK
<1>1. CASE Upserts
  <2>1. ASSUME NEW d \in Deployment, AssignBranch(d)
        PROVE  AliasesResolve'
    BY <1>t, <2>1, UpsertResolves, ResolveBoth DEF AssignBranch
  <2>2. ASSUME NEW d \in Deployment, AssignProduction(d)
        PROVE  AliasesResolve'
    BY <1>t, <2>2, UpsertResolves, ResolveBoth DEF AssignProduction
  <2>3. CASE PromoteAlias
    <3>1. apiDep \in Deployment
      BY <1>t, <2>3 DEF PromoteAlias, ApiTypeOK
    <3> QED
      BY <1>t, <2>3, <3>1, UpsertResolves, ResolveBoth DEF PromoteAlias
  <2> QED
    BY <1>1, <2>1, <2>2, <2>3 DEF Upserts
<1>2. CASE RowsDeleted
  <2>1. CASE DeleteRow
    BY <1>t, <2>1, CascadeResolves, ResolveBoth DEF DeleteRow
  <2>2. ASSUME NEW p \in Project, DeleteProject(p)
        PROVE  AliasesResolve'
    <3>1. {d \in OfProject(p) : Exists(d)} \subseteq OfProject(p)
      OBVIOUS
    <3> QED
      BY <1>t, <2>2, <3>1, ProjectCascadeResolves, ResolveBoth DEF DeleteProject
  <2> QED
    BY <1>2, <2>1, <2>2 DEF RowsDeleted
<1>3. CASE ~RowsDeleted /\ UNCHANGED <<projects, prodAlias, branchAlias>>
  <2>1. \A e \in Deployment : Exists(e) => Exists(e)'
    BY <1>3, <1>t, RowKinds, RowsStay
  <2> QED
    BY <1>3, <1>t, <2>1, KeptResolves, ResolveBoth
<1> QED
  BY <1>1, <1>2, <1>3, AliasKinds

(* No alias is ever left naming a deployment that has gone, or one of      *)
(* another project: the upsert of a build that finishes while its          *)
(* deployment or its project is deleted finds the foreign key broken.      *)
THEOREM NoDanglingAlias == Spec => []AliasesResolve
<1>1. Init => AliasesResolve
  BY DEF Init, DatabaseInit, AliasesResolve
<1>2. TypeOK /\ AliasesResolve /\ [Next]_vars => AliasesResolve'
  BY AliasesStep
<1> QED
  BY <1>1, <1>2, TypeCorrect, PTL DEF Spec

-----------------------------------------------------------------------------
(* Builds in progress                                                      *)

(* A column state that is written is the one the writer is about to leave  *)
(* in its own row; every other row's stays.                                *)
LEMMA WithStateOf ==
  ASSUME DatabaseTypeOK, NEW d \in Deployment, NEW s \in Written
  PROVE  \A e \in Deployment :
           /\ e # d => WithState(d, s)[e].state = rows[e].state
           /\ WithState(d, s)[d].state \in {s, "ABSENT"}
  BY WrittenStates DEF WithState, DatabaseTypeOK, Row, Exists

(* The step of a task leaves the poll loop alone.                          *)
LEMMA TaskFrame ==
  ASSUME NEW d \in Deployment, TaskStep(d)
  PROVE  UNCHANGED <<up, tickQueue>>
  BY DEF TaskStep, Load, Begin, EnterClone, Fetched, IgnoreRan, ResolveFailed,
     RunCommand, CommandFailed, Collect, Published, PublishFailed, Ready, AssignBranch,
     AssignProduction, PromoteBuilt, Cleanup, Skipped, Failed, Settle, Unlist, Unlock,
     Write, Proceed, KeepOthers, lifeVars, tickVars

(* What InProgressHasBuilder says of one row.                              *)
HasBuilder(d) == rows[d].state \in InProgress => task[d] \in BuildStage

(* The states that no builder has to answer for.                           *)
LEMMA OtherStates ==
  /\ "ABSENT" \notin InProgress /\ "QUEUED" \notin InProgress
  /\ TERMINAL_STATES \cap InProgress = {}
  /\ {"READY", "ERROR", "CANCELED", "SKIPPED"} = TERMINAL_STATES
  BY DEF InProgress, TERMINAL_STATES

(* A build shows a state in progress only in its own row, and not beyond   *)
(* the write of its outcome.                                               *)
LEMMA BuilderTask ==
  ASSUME TypeOK, NEW d \in Deployment, TaskStep(d), \A e \in Deployment : HasBuilder(e)
  PROVE  \A e \in Deployment : HasBuilder(e)'
<1>t. DatabaseTypeOK /\ task \in [Deployment -> Stage]
  BY DEF TypeOK, WorkerTypeOK
<1>b. BuildStage = {"fetch", "ignore", "command", "snapshot", "clone", "resolve", "built",
                    "skipped", "failed", "error", "canceled"}
  BY DEF BuildStage, ShellStage
<1>1. ASSUME NEW from, NEW to \in BuildStage, NEW s \in Written,
             Go(d, from, to), rows' = WithState(d, s)
      PROVE  \A e \in Deployment : HasBuilder(e)'
  BY <1>1, <1>t, WithStateOf DEF Go, HasBuilder
<1>2. ASSUME NEW from, NEW to, NEW s \in {"ERROR", "CANCELED", "SKIPPED"},
             Go(d, from, to), rows' = WithState(d, s)
      PROVE  \A e \in Deployment : HasBuilder(e)'
  BY <1>2, <1>t, WithStateOf, OtherStates DEF Go, HasBuilder, Written
<1>3. ASSUME NEW from, NEW to, Go(d, from, to), UNCHANGED rows,
             from \in BuildStage => to \in BuildStage
      PROVE  \A e \in Deployment : HasBuilder(e)'
  BY <1>3, <1>t DEF Go, HasBuilder
<1>4. CASE Load(d)
  BY <1>4, <1>1, <1>2, <1>3, <1>b, OtherStates DEF Load
<1>5. CASE Begin(d) \/ EnterClone(d) \/ RunCommand(d)
  BY <1>5, <1>1, <1>b DEF Begin, EnterClone, RunCommand, Write, Written
<1>6. CASE Collect(d)
  BY <1>6, <1>1, <1>b DEF Collect, Write, Written
<1>7. CASE Fetched(d) \/ IgnoreRan(d) \/ ResolveFailed(d) \/ CommandFailed(d)
             \/ PublishFailed(d) \/ Failed(d)
  BY <1>7, <1>3, <1>b DEF Fetched, IgnoreRan, ResolveFailed, CommandFailed, PublishFailed,
                          Failed, Proceed, dbVars
<1>8. CASE Published(d)
  BY <1>8, <1>3, <1>b DEF Published
<1>9. CASE Ready(d)
  <2>1. \A e \in Deployment : /\ e # d => rows'[e].state = rows[e].state
                              /\ rows'[d].state \notin InProgress
    BY <1>9, <1>t, OtherStates DEF Ready, WithReady, DatabaseTypeOK, Row, Exists
  <2> QED
    BY <1>9, <2>1, <1>t DEF Ready, Go, HasBuilder
<1>10. CASE AssignBranch(d) \/ AssignProduction(d) \/ Cleanup(d)
  BY <1>10, <1>3, <1>b DEF AssignBranch, AssignProduction, Cleanup, dbVars
<1>11. CASE PromoteBuilt(d)
  <2>1. \A e \in Deployment : rows'[e].state = rows[e].state
    BY <1>11, <1>t DEF PromoteBuilt, Promoted, DatabaseTypeOK, Row
  <2> QED
    BY <1>11, <2>1, <1>t, <1>b DEF PromoteBuilt, Go, HasBuilder
<1>12. CASE Skipped(d) \/ Settle(d)
  BY <1>12, <1>2, OtherStates DEF Skipped, Settle, Write
<1>13. CASE Unlist(d) \/ Unlock(d)
  BY <1>13, <1>3, <1>b DEF Unlist, Unlock, dbVars
<1> QED
  BY <1>4, <1>5, <1>6, <1>7, <1>8, <1>9, <1>10, <1>11, <1>12, <1>13 DEF TaskStep

(* The API moves no row into a state in progress.                          *)
LEMMA BuilderApi ==
  ASSUME TypeOK, ApiNext
  PROVE  \A e \in Deployment : rows'[e].state \in InProgress => rows[e].state \in InProgress
<1>t. DatabaseTypeOK /\ ApiTypeOK
  BY DEF TypeOK
<1>1. CASE RowInserted
  BY <1>1, <1>t, OtherStates
     DEF RowInserted, Create, Inserted, NoRow, DatabaseTypeOK, Row
<1>2. CASE RowsDeleted
  BY <1>2, <1>t, DeletedRows, OtherStates DEF Deleted, NoRow
<1>3. CASE RestartApi \/ \E d \in Deployment : CancelRead(d) \/ PromoteRead(d) \/ DeleteRead(d)
                                                 \/ RemoveDir(d)
  BY <1>3 DEF RestartApi, CancelRead, PromoteRead, DeleteRead, RemoveDir, dbVars
<1>4. CASE HandlerStep /\ ~DeleteRow
  <2>a. apiDep \in Deployment
    BY <1>4, <1>t DEF HandlerStep, CancelQueued, FlagCancel, PromoteAlias, PromoteRow,
                PromoteTarget, DeleteQueued, DeleteRow, ApiTypeOK
  <2>1. CASE CancelQueued \/ DeleteQueued
    BY <2>1, <2>a, <1>t, WithStateOf, OtherStates
       DEF CancelQueued, DeleteQueued, Written
  <2>2. CASE FlagCancel \/ PromoteTarget
    BY <2>2, <2>a, <1>t DEF FlagCancel, PromoteTarget, DatabaseTypeOK, Row
  <2>3. CASE PromoteAlias
    BY <2>3 DEF PromoteAlias
  <2>4. CASE PromoteRow
    BY <2>4, <2>a, <1>t DEF PromoteRow, Promoted, DatabaseTypeOK, Row
  <2> QED
    BY <1>4, <2>1, <2>2, <2>3, <2>4 DEF HandlerStep
<1>5. ASSUME NEW p \in Project, Deploy(p)
      PROVE  RowInserted
  BY <1>5, ApiAssumption DEF Deploy, RowInserted
<1>6. ASSUME NEW d \in Deployment, Redeploy(d)
      PROVE  RowInserted
  BY <1>6, <1>t, ProjectOfType, States DEF Redeploy, RowInserted, DatabaseTypeOK, Row
<1> QED
  BY <1>1, <1>2, <1>3, <1>4, <1>5, <1>6 DEF ApiNext, Call, RowsDeleted

(* A row that a step leaves in progress has a builder.                     *)
LEMMA BuilderStep ==
  ASSUME TypeOK, InProgressHasBuilder, [Next]_vars
  PROVE  InProgressHasBuilder'
<1>t. DatabaseTypeOK
  BY DEF TypeOK
<1>h. up => \A e \in Deployment : HasBuilder(e)
  BY DEF InProgressHasBuilder, HasBuilder
<1>1. CASE UNCHANGED vars
  BY <1>1 DEF vars, dbVars, workerVars, InProgressHasBuilder
<1>2. CASE ApiNext /\ UNCHANGED workerVars
  BY <1>2, BuilderApi DEF workerVars, InProgressHasBuilder
<1>3. ASSUME NEW d \in Deployment, TaskStep(d)
      PROVE  InProgressHasBuilder'
  <2>1. up' = up
    BY <1>3, TaskFrame
  <2> QED
    BY <1>3, <1>h, <2>1, BuilderTask DEF InProgressHasBuilder, HasBuilder
<1>4. CASE Boot
  BY <1>4, <1>t, OtherStates DEF Boot, Interrupted, DatabaseTypeOK, Row, InProgressHasBuilder
<1>5. CASE Kill
  BY <1>5 DEF Kill, InProgressHasBuilder
<1>6. ASSUME NEW d \in Deployment, TickStart(d)
      PROVE  InProgressHasBuilder'
  <2>1. "none" \notin BuildStage
    BY DEF BuildStage, ShellStage
  <2> QED
    BY <1>6, <2>1 DEF TickStart, Go, dbVars, lifeVars, InProgressHasBuilder, TypeOK, WorkerTypeOK
<1>7. CASE TickRead \/ CheckCancelFlags \/ DropPermit
             \/ \E d \in Deployment : TickSkip(d) \/ PruneDir(d) \/ OrphanExits(d)
  BY <1>7 DEF TickRead, CheckCancelFlags, DropPermit, TickSkip, PruneDir, OrphanExits,
              dbVars, taskVars, lifeVars, InProgressHasBuilder
<1>8. ASSUME NEW d \in Deployment, PruneRows(d)
      PROVE  InProgressHasBuilder'
  <2>1. \A e \in Deployment : rows'[e].state = rows[e].state
    BY <1>8, <1>t DEF PruneRows, DatabaseTypeOK, Row
  <2> QED
    BY <1>8, <2>1 DEF PruneRows, taskVars, lifeVars, InProgressHasBuilder
<1> QED
  BY <1>1, <1>2, <1>3, <1>4, <1>5, <1>6, <1>7, <1>8 DEF Next, WorkerNext, Tick, Prune

(* Wherever the worker is killed and whatever the API does meanwhile, no   *)
(* row of a running worker shows a build in progress that nobody builds.   *)
THEOREM NoStuckBuild == Spec => []InProgressHasBuilder
<1>1. Init => InProgressHasBuilder
  BY OtherStates DEF Init, DatabaseInit, NoRow, InProgressHasBuilder
<1>2. TypeOK /\ InProgressHasBuilder /\ [Next]_vars => InProgressHasBuilder'
  BY BuilderStep
<1> QED
  BY <1>1, <1>2, TypeCorrect, PTL DEF Spec

-----------------------------------------------------------------------------
(* Ids are never used twice                                                *)

(* An id that no INSERT has given yet stands for nothing anywhere. This is *)
(* what "the same deployment, later" rests on: a token, a snapshot or a    *)
(* cleanup never meets a younger deployment under an old id.               *)
Fresh ==
  /\ \A d \in Deployment :
       d >= nextId => ~Exists(d) /\ d \notin tickQueue /\ task[d] = "none"
  /\ apiOp # "idle" => apiDep < nextId

(* Ids are numbers.                                                        *)
LEMMA IdTypes ==
  ASSUME TypeOK
  PROVE  nextId \in Int /\ Deployment \subseteq Int
  BY DatabaseAssumption DEF TypeOK, DatabaseTypeOK, Deployment

(* Of the ids in use, none comes back once its row has gone, none is       *)
(* queued again, and a flag stays for as long as the row does.             *)
LEMMA OldRows ==
  ASSUME TypeOK, Fresh, [Next]_vars
  PROVE  /\ nextId' \in Int /\ nextId <= nextId'
         /\ \A e \in Deployment :
              /\ Exists(e)' => Exists(e) \/ nextId <= e
              /\ Exists(e)' => e < nextId'
              /\ e < nextId /\ rows'[e].state = "QUEUED" => rows[e].state = "QUEUED"
              /\ e < nextId /\ Exists(e)' /\ rows[e].cancelReq => rows'[e].cancelReq
<1>t. DatabaseTypeOK /\ nextId \in Int /\ Deployment \subseteq Int
  BY IdTypes DEF TypeOK
<1>0. \A e \in Deployment : Exists(e) => e < nextId
  BY <1>t DEF Fresh
<1>1. CASE RowInserted
  <2>1. nextId' = nextId + 1 /\ \E t : rows' = Inserted(nextId, t)
    BY <1>1 DEF RowInserted, Create
  <2>2. \A e \in Deployment : e # nextId => rows'[e] = rows[e]
    BY <2>1, <1>t DEF Inserted, DatabaseTypeOK
  <2>3. \A e \in Deployment :
          e # nextId => /\ Exists(e)' <=> Exists(e)
                        /\ rows'[e].state = rows[e].state
                        /\ rows[e].cancelReq => rows'[e].cancelReq
    BY <2>2 DEF Exists
  <2> QED
    BY <2>1, <2>3, <1>t, <1>0
<1>2. CASE ~RowInserted
  <2>1. nextId' = nextId
    <3>1. CASE UNCHANGED vars
      BY <3>1 DEF vars, dbVars
    <3>2. ASSUME NEW d \in Deployment, TaskStep(d)
          PROVE  nextId' = nextId
      BY <3>2 DEF TaskStep, Load, Begin, EnterClone, Fetched, IgnoreRan, ResolveFailed,
         RunCommand, CommandFailed, Collect, Published, PublishFailed, Ready, AssignBranch,
         AssignProduction, PromoteBuilt, Cleanup, Skipped, Failed, Settle, Unlist, Unlock,
         Write, Proceed, dbVars
    <3>3. CASE Tick \/ DropPermit \/ Kill \/ Boot
                 \/ \E d \in Deployment : Prune(d) \/ OrphanExits(d)
      BY <3>3 DEF Tick, TickRead, TickStart, TickSkip, CheckCancelFlags, DropPermit, Kill,
                  Boot, Prune, PruneDir, PruneRows, OrphanExits, dbVars
    <3>4. CASE \E p \in Project : Deploy(p)
      BY <3>4, <1>2, ApiAssumption DEF Deploy, RowInserted
    <3>5. CASE \E d \in Deployment : Redeploy(d)
      BY <3>5, <1>2, <1>t, ProjectOfType, States DEF Redeploy, RowInserted, DatabaseTypeOK, Row
    <3>6. CASE RestartApi \/ HandlerStep \/ (\E p \in Project : DeleteProject(p))
                 \/ \E d \in Deployment : CancelRead(d) \/ PromoteRead(d) \/ DeleteRead(d)
                                            \/ RemoveDir(d)
      BY <3>6 DEF RestartApi, HandlerStep, CancelQueued, FlagCancel, PromoteAlias, PromoteRow,
                  PromoteTarget, DeleteQueued, DeleteRow, DeleteProject, CancelRead,
                  PromoteRead, DeleteRead, RemoveDir, dbVars
    <3> QED
      BY <3>1, <3>2, <3>3, <3>4, <3>5, <3>6 DEF Next, WorkerNext, ApiNext, Call
  <2>2. CASE FlagsKept
    BY <2>1, <2>2, <1>t, <1>0 DEF FlagsKept
  <2>3. CASE RowPromoted
    <3>1. \A e \in Deployment : /\ Exists(e)' <=> Exists(e)
                                /\ rows'[e].state = rows[e].state
                                /\ rows[e].cancelReq => rows'[e].cancelReq
      BY <2>3, <1>t DEF RowPromoted, Promoted, DatabaseTypeOK, Row, Exists
    <3>2. \A e \in Deployment : /\ Exists(e)' => e < nextId'
                                /\ rows'[e].state = "QUEUED" => rows[e].state = "QUEUED"
      BY <2>1, <3>1, <1>0
    <3>3. nextId' \in Int /\ nextId <= nextId'
      BY <2>1, <1>t
    <3> QED
      BY <3>1, <3>2, <3>3, Zenon
  <2>4. CASE RowsDeleted
    <3>1. \A e \in Deployment : rows'[e] = rows[e] \/ rows'[e] = NoRow
      BY <2>4, DeletedRows DEF Deleted
    <3>2. NoRow.state = "ABSENT"
      BY DEF NoRow
    <3>3. \A e \in Deployment :
            Exists(e)' => rows'[e].state = rows[e].state /\ rows'[e] = rows[e] /\ Exists(e)
      BY <3>1, <3>2 DEF Exists
    <3>4. \A e \in Deployment : /\ Exists(e)' => e < nextId'
                                /\ rows'[e].state = "QUEUED" => rows[e].state = "QUEUED"
                                /\ Exists(e)' /\ rows[e].cancelReq => rows'[e].cancelReq
      BY <2>1, <3>1, <3>2, <3>3, <1>0
    <3>5. nextId' \in Int /\ nextId <= nextId'
      BY <2>1, <1>t
    <3> QED
      BY <3>3, <3>4, <3>5, Zenon
  <2>5. RowsKept \/ RowPublished => FlagsKept
    BY <1>t, WithReadyKeeps DEF RowsKept, RowPublished, Ready
  <2> QED
    BY <1>2, <2>2, <2>3, <2>4, <2>5, RowKinds
<1> QED
  BY <1>1, <1>2

(* A step uses new ids only.                                               *)
LEMMA FreshStep ==
  ASSUME TypeOK, Fresh, [Next]_vars
  PROVE  Fresh'
<1>t. /\ DatabaseTypeOK /\ ApiTypeOK /\ nextId \in Int /\ Deployment \subseteq Int
      /\ task \in [Deployment -> Stage] /\ None \notin Deployment
  BY IdTypes, NoneIsNoDeployment DEF TypeOK, WorkerTypeOK
<1>o. /\ nextId' \in Int /\ nextId <= nextId'
      /\ \A e \in Deployment : Exists(e)' => e < nextId'
  BY OldRows
<1>1. \A d \in Deployment : d >= nextId => d \notin tickQueue' /\ task'[d] = "none"
  <2>1. CASE TickRead
    BY <2>1, <1>t DEF TickRead, taskVars, Fresh, Exists
  <2>2. ASSUME NEW e \in Deployment, TickStart(e)
        PROVE  \A d \in Deployment : d >= nextId => d \notin tickQueue' /\ task'[d] = "none"
    BY <2>2, <1>t DEF TickStart, IsNextQueued, Go, Fresh
  <2>3. ASSUME NEW e \in Deployment, Moves(e) \/ Unlist(e) \/ Unlock(e),
               UNCHANGED tickQueue
        PROVE  \A d \in Deployment : d >= nextId => d \notin tickQueue' /\ task'[d] = "none"
    BY <2>3, <1>t DEF Moves, Unlist, Unlock, Go, Fresh
  <2>4. CASE Kill
    BY <2>4, <1>t DEF Kill
  <2>5. CASE UNCHANGED <<task, tickQueue>> \/ \E e \in Deployment : TickSkip(e)
    BY <2>5, <1>t DEF TickSkip, taskVars, Fresh
  <2>6. ASSUME NEW e \in Deployment, TaskStep(e)
        PROVE  (Moves(e) \/ Unlist(e) \/ Unlock(e)) /\ UNCHANGED tickQueue
    <3>1. UNCHANGED tickQueue
      BY <2>6, TaskFrame
    <3> QED
      BY <2>6, <3>1, TaskKinds
  <2>7. CASE UNCHANGED vars \/ (ApiNext /\ UNCHANGED workerVars)
    BY <2>7, <2>5 DEF vars, workerVars
  <2>8. CASE CheckCancelFlags \/ DropPermit \/ Boot
               \/ \E e \in Deployment : Prune(e) \/ OrphanExits(e)
    BY <2>8, <2>5 DEF CheckCancelFlags, DropPermit, Boot, Prune, PruneDir, PruneRows,
                      OrphanExits, taskVars, tickVars
  <2> QED
    BY <2>1, <2>2, <2>3, <2>4, <2>5, <2>6, <2>7, <2>8 DEF Next, WorkerNext, Tick
<1>2. apiOp' # "idle" => apiDep' < nextId'
  <2>1. CASE UNCHANGED apiVars
    BY <2>1, <1>t, <1>o DEF apiVars, ApiTypeOK, Fresh
  <2>2. ASSUME NEW d \in Deployment, CancelRead(d) \/ PromoteRead(d) \/ DeleteRead(d)
        PROVE  apiOp' # "idle" => apiDep' < nextId'
    <3>1. d < nextId /\ apiDep' = d
      BY <2>2, <1>t DEF CancelRead, PromoteRead, DeleteRead, Continue, Fresh
    <3> QED
      BY <3>1, <1>t, <1>o
  <2>3. CASE HandlerStep
    <3>1. apiOp # "idle"
      BY <2>3 DEF HandlerStep, CancelQueued, FlagCancel, PromoteAlias, PromoteRow,
                  PromoteTarget, DeleteQueued, DeleteRow
    <3>2. apiOp' # "idle" => apiDep' = apiDep
      BY <2>3 DEF HandlerStep, CancelQueued, FlagCancel, PromoteAlias, PromoteRow,
                  PromoteTarget, DeleteQueued, DeleteRow, Finish, Continue
    <3> QED
      BY <3>1, <3>2, <1>t, <1>o DEF ApiTypeOK, Fresh
  <2>4. CASE RestartApi
    BY <2>4 DEF RestartApi
  <2>5. CASE Idle /\ UNCHANGED apiOp
    BY <2>5 DEF Idle
  <2>6. ASSUME NEW p \in Project, Deploy(p) \/ DeleteProject(p)
        PROVE  UNCHANGED apiOp /\ Idle
    BY <2>6 DEF Deploy, Create, DeleteProject, apiVars
  <2>7. ASSUME NEW d \in Deployment, Redeploy(d)
        PROVE  UNCHANGED apiOp /\ Idle
    BY <2>7 DEF Redeploy, Create, apiVars
  <2>8. ASSUME NEW d \in Deployment, RemoveDir(d)
        PROVE  apiOp' # "idle" => apiDep' < nextId'
    BY <2>8, <1>t, <1>o DEF RemoveDir, ApiTypeOK, Fresh
  <2> QED
    BY <2>1, <2>2, <2>3, <2>4, <2>5, <2>6, <2>7, <2>8 DEF Next, ApiNext, Call, vars
<1> QED
  BY <1>t, <1>o, <1>1, <1>2 DEF Fresh

-----------------------------------------------------------------------------
(* Cancellations                                                           *)

(* A token belongs to a build that is listed, so that the token of one     *)
(* build never meets the task of another; and what it cancels was flagged. *)
CancelInv == Fresh /\ token \subseteq running /\ CancelsWereRequested

(* A task that holds its token is listed as running.                       *)
LEMMA TokensListed ==
  ASSUME TypeOK, token \subseteq running, [Next]_vars
  PROVE  token' \subseteq running'
<1>1. CASE UNCHANGED vars \/ (ApiNext /\ UNCHANGED workerVars)
  BY <1>1 DEF vars, workerVars
<1>2. CASE Tick
  BY <1>2 DEF Tick, TickRead, TickStart, TickSkip, CheckCancelFlags, CancelFlagged, taskVars
<1>3. ASSUME NEW d \in Deployment, TaskStep(d)
      PROVE  token' \subseteq running'
  BY <1>3 DEF TaskStep, Load, Begin, EnterClone, Fetched, IgnoreRan, ResolveFailed,
     RunCommand, CommandFailed, Collect, Published, PublishFailed, Ready, AssignBranch,
     AssignProduction, PromoteBuilt, Cleanup, Skipped, Failed, Settle, Unlist, Unlock,
     Write, Proceed, KeepOthers
<1>4. CASE Boot \/ DropPermit \/ Kill \/ \E d \in Deployment : Prune(d) \/ OrphanExits(d)
  BY <1>4 DEF Boot, DropPermit, Kill, Prune, PruneDir, PruneRows, OrphanExits, taskVars
<1> QED
  BY <1>1, <1>2, <1>3, <1>4 DEF Next, WorkerNext

Aborted(d) == d \in token \/ task[d] = "canceled"

(* A build is aborted only by reading a flag in its own row.               *)
LEMMA AbortKinds ==
  ASSUME TypeOK, [Next]_vars, NEW e \in Deployment, Aborted(e)'
  PROVE  Aborted(e) \/ (UNCHANGED <<rows, nextId>> /\ rows[e].cancelReq)
<1>t. task \in [Deployment -> Stage]
  BY DEF TypeOK, WorkerTypeOK
<1>1. CASE UNCHANGED vars \/ (ApiNext /\ UNCHANGED workerVars)
  BY <1>1 DEF vars, workerVars, Aborted
<1>2. CASE TickRead \/ CheckCancelFlags \/ \E d \in Deployment : TickStart(d) \/ TickSkip(d)
  BY <1>2, <1>t DEF TickRead, TickStart, TickSkip, Go, CheckCancelFlags, CancelFlagged,
                    dbVars, taskVars, Aborted
<1>3. ASSUME NEW d \in Deployment, TaskStep(d)
      PROVE  Aborted(e)
  <2>1. CASE Load(d) \/ Begin(d) \/ EnterClone(d) \/ RunCommand(d) \/ Collect(d)
               \/ Skipped(d) \/ Settle(d)
    BY <2>1, <1>t DEF Load, Begin, EnterClone, RunCommand, Collect, Skipped, Settle,
                Write, Go, KeepOthers, Aborted
  <2>2. CASE Fetched(d) \/ IgnoreRan(d) \/ ResolveFailed(d) \/ CommandFailed(d)
               \/ PublishFailed(d) \/ Failed(d)
    BY <2>2, <1>t DEF Fetched, IgnoreRan, ResolveFailed, CommandFailed, PublishFailed,
                Failed, Proceed, Go, KeepOthers, Aborted
  <2>3. CASE Published(d) \/ Ready(d) \/ AssignBranch(d) \/ AssignProduction(d)
               \/ PromoteBuilt(d) \/ Cleanup(d) \/ Unlist(d) \/ Unlock(d)
    BY <2>3, <1>t DEF Published, Ready, AssignBranch, AssignProduction, PromoteBuilt,
                Cleanup, Unlist, Unlock, Go, KeepOthers, Aborted
  <2> QED
    BY <1>3, <2>1, <2>2, <2>3 DEF TaskStep
<1>4. CASE Boot \/ DropPermit \/ Kill \/ \E d \in Deployment : Prune(d) \/ OrphanExits(d)
  BY <1>4 DEF Boot, DropPermit, Kill, Prune, PruneDir, PruneRows, OrphanExits, taskVars,
              Aborted
<1> QED
  BY <1>1, <1>2, <1>3, <1>4 DEF Next, WorkerNext, Tick

(* A step cancels only what was asked for.                                 *)
LEMMA CancelStep ==
  ASSUME IInv, CancelInv, [Next]_vars
  PROVE  CancelInv'
<1>t. TypeOK /\ Fresh /\ nextId \in Int /\ Deployment \subseteq Int
  BY IdTypes DEF IInv, CancelInv
<1>1. Fresh'
  BY <1>t, FreshStep
<1>2. token' \subseteq running'
  BY <1>t, TokensListed DEF CancelInv
<1>3. ASSUME NEW e \in Deployment, Aborted(e)', Exists(e)'
      PROVE  rows'[e].cancelReq
  <2>1. CASE UNCHANGED <<rows, nextId>> /\ rows[e].cancelReq
    BY <2>1
  <2>2. CASE Aborted(e)
    <3>1. e \in Active
      BY <2>2 DEF IInv, RegistriesMatchTasks, CancelInv, Aborted, Active
    <3>2. e < nextId
      BY <3>1, <1>t DEF Fresh, Active
    <3>3. Exists(e) /\ (rows[e].cancelReq => rows'[e].cancelReq)
      BY <1>t, <1>3, <3>2, OldRows
    <3> QED
      BY <2>2, <3>3 DEF CancelInv, CancelsWereRequested, Aborted
  <2> QED
    BY <1>t, <1>3, <2>1, <2>2, AbortKinds
<1> QED
  BY <1>1, <1>2, <1>3 DEF CancelInv, CancelsWereRequested, Aborted

(* At the start no id is used.                                             *)
LEMMA InitFresh == Init => Fresh
  BY DatabaseAssumption
     DEF Init, DatabaseInit, WorkerInit, ApiInit, NoRow, Exists, Fresh

(* A build is aborted, and called CANCELED, only on a request to cancel    *)
(* that very deployment: no token outlives its build, no flag leaks into   *)
(* another row, and no id is ever given twice.                             *)
THEOREM OnlyRequestedCancels == Spec => []CancelsWereRequested
<1>1. Init => CancelInv
  BY InitFresh DEF Init, WorkerInit, CancelInv, CancelsWereRequested
<1>2. IInv /\ CancelInv /\ [Next]_vars => CancelInv'
  BY CancelStep
<1>3. CancelInv => CancelsWereRequested
  BY DEF CancelInv
<1> QED
  BY <1>1, <1>2, <1>3, Invariance, PTL DEF Spec

-----------------------------------------------------------------------------
(* Published files                                                         *)

(* Stages a deployment can be in once its files have been published.       *)
After == {"none", "branch", "production", "promote", "cleanup", "unlist", "unlock"}

(* d is past its build and will not be built again: it is queued neither   *)
(* in the table nor, once its task is unlisted, in a stale snapshot.       *)
Past(d) ==
  /\ d < nextId
  /\ rows[d].state # "QUEUED"
  /\ task[d] \in After
  /\ d \in tickQueue => task[d] \notin {"none", "unlock"}

(* What is published, or is going to be pruned, is past its build, so that *)
(* no snapshot script will empty its directory; what waits in the trash    *)
(* has no row; and between the snapshot and the write of READY the files   *)
(* are there.                                                              *)
ArtifactInv ==
  /\ Fresh
  /\ \A d \in Deployment : rows[d].output => Past(d)
  /\ \A d, e \in Deployment : d \in pruneTodo[e] => Past(d)
  /\ \A d \in trash : ~Exists(d) /\ d < nextId
  /\ \A d \in Deployment : task[d] = "built" => d \in disk \/ ~Exists(d)
  /\ ReadyHasArtifacts

(* The steps that touch a cleanup's lists, or the directories.             *)
LEMMA Frames ==
  ASSUME [Next]_vars
  PROVE  /\ \/ UNCHANGED pruneTodo
            \/ Kill
            \/ \E d \in Deployment : Cleanup(d) \/ PruneDir(d)
         /\ \/ UNCHANGED pruneDone
            \/ Kill
            \/ \E d \in Deployment : PruneDir(d) \/ PruneRows(d)
         /\ \/ UNCHANGED disk
            \/ \E d \in Deployment : Collect(d) \/ Published(d) \/ PruneDir(d) \/ RemoveDir(d)
<1> USE DEF pruneVars, dbVars
<1>1. ASSUME NEW d \in Deployment, TaskStep(d)
      PROVE  /\ UNCHANGED pruneTodo \/ Cleanup(d)
             /\ UNCHANGED pruneDone
             /\ UNCHANGED disk \/ Collect(d) \/ Published(d)
  <2>1. CASE Load(d) \/ Begin(d) \/ EnterClone(d) \/ RunCommand(d) \/ Collect(d)
               \/ Skipped(d) \/ Settle(d)
    BY <2>1 DEF Load, Begin, EnterClone, RunCommand, Collect, Skipped, Settle, Write
  <2>2. CASE Fetched(d) \/ IgnoreRan(d) \/ ResolveFailed(d) \/ CommandFailed(d)
               \/ PublishFailed(d) \/ Failed(d)
    BY <2>2 DEF Fetched, IgnoreRan, ResolveFailed, CommandFailed, PublishFailed, Failed,
                Proceed
  <2>3. CASE Published(d) \/ Ready(d) \/ AssignBranch(d) \/ AssignProduction(d)
               \/ PromoteBuilt(d) \/ Cleanup(d) \/ Unlist(d) \/ Unlock(d)
    BY <2>3 DEF Published, Ready, AssignBranch, AssignProduction, PromoteBuilt, Cleanup,
                Unlist, Unlock
  <2> QED
    BY <1>1, <2>1, <2>2, <2>3 DEF TaskStep
<1>2. ASSUME Tick \/ DropPermit \/ Boot \/ \E d \in Deployment : OrphanExits(d)
      PROVE  UNCHANGED <<pruneTodo, pruneDone, disk>>
  BY <1>2 DEF Tick, TickRead, TickStart, TickSkip, CheckCancelFlags, DropPermit, Boot,
              OrphanExits
<1>3. CASE Kill
  BY <1>3 DEF Kill
<1>4. ASSUME NEW d \in Deployment, PruneRows(d)
      PROVE  UNCHANGED <<pruneTodo, disk>>
  BY <1>4 DEF PruneRows
<1>5. CASE UNCHANGED vars
  BY <1>5 DEF vars, workerVars
<1>6. CASE ApiNext /\ UNCHANGED workerVars
  <2>1. UNCHANGED disk \/ \E d \in Deployment : RemoveDir(d)
    BY <1>6 DEF ApiNext, Call, Deploy, Redeploy, Create, DeleteProject, CancelRead,
       PromoteRead, DeleteRead, HandlerStep, CancelQueued, FlagCancel, PromoteAlias,
       PromoteRow, PromoteTarget, DeleteQueued, DeleteRow, RestartApi
  <2> QED
    BY <1>6, <2>1 DEF workerVars
<1> QED
  BY <1>1, <1>2, <1>3, <1>4, <1>5, <1>6 DEF Next, WorkerNext, Prune

(* A build is "built" when its snapshot was taken.                         *)
LEMMA BuiltKinds ==
  ASSUME TypeOK, [Next]_vars, NEW d \in Deployment, task'[d] = "built", task[d] # "built"
  PROVE  Published(d)
<1>t. task \in [Deployment -> Stage]
  BY DEF TypeOK, WorkerTypeOK
<1>1. ASSUME NEW e \in Deployment, TaskStep(e)
      PROVE  Published(d)
  <2>1. CASE Load(e) \/ Begin(e) \/ EnterClone(e) \/ RunCommand(e) \/ Collect(e)
               \/ Skipped(e) \/ Settle(e)
    BY <2>1, <1>t DEF Load, Begin, EnterClone, RunCommand, Collect, Skipped, Settle, Write, Go
  <2>2. CASE Fetched(e) \/ IgnoreRan(e) \/ ResolveFailed(e) \/ CommandFailed(e)
               \/ PublishFailed(e) \/ Failed(e)
    BY <2>2, <1>t DEF Fetched, IgnoreRan, ResolveFailed, CommandFailed, PublishFailed,
                      Failed, Proceed, Go
  <2>3. CASE Published(e) \/ Ready(e) \/ AssignBranch(e) \/ AssignProduction(e)
               \/ PromoteBuilt(e) \/ Cleanup(e) \/ Unlist(e) \/ Unlock(e)
    BY <2>3, <1>t DEF Published, Ready, AssignBranch, AssignProduction, PromoteBuilt,
                      Cleanup, Unlist, Unlock, Go
  <2> QED
    BY <1>1, <2>1, <2>2, <2>3 DEF TaskStep
<1>2. CASE UNCHANGED taskVars
  BY <1>2 DEF taskVars
<1>3. ASSUME NEW e \in Deployment, TickStart(e)
      PROVE  Published(d)
  BY <1>3, <1>t DEF TickStart, Go
<1>4. CASE DropPermit \/ Kill
  BY <1>4 DEF DropPermit, Kill
<1>5. CASE UNCHANGED vars \/ (ApiNext /\ UNCHANGED workerVars)
  BY <1>5, <1>2 DEF vars, workerVars, taskVars
<1>6. CASE TickRead \/ CheckCancelFlags \/ Boot
             \/ \E e \in Deployment : TickSkip(e) \/ Prune(e) \/ OrphanExits(e)
  BY <1>6, <1>2 DEF TickRead, CheckCancelFlags, Boot, TickSkip, Prune, PruneDir, PruneRows,
                    OrphanExits
<1> QED
  BY <1>1, <1>3, <1>4, <1>5, <1>6 DEF Next, WorkerNext, Tick

(* What a step does to one task and to the snapshot tick goes through.     *)
LEMMA PastTask ==
  ASSUME TypeOK, ~SlowTick, [Next]_vars, NEW d \in Deployment, Past(d)
  PROVE  /\ task'[d] \in After
         /\ d \in tickQueue' => task'[d] \notin {"none", "unlock"}
<1>t. task \in [Deployment -> Stage]
  BY DEF TypeOK, WorkerTypeOK
<1>1. CASE UNCHANGED <<task, tickQueue>>
  BY <1>1 DEF Past
<1>2. CASE TickRead
  BY <1>2 DEF TickRead, taskVars, Past
<1>3. ASSUME NEW e \in Deployment, TickStart(e)
      PROVE  /\ task'[d] \in After
             /\ d \in tickQueue' => task'[d] \notin {"none", "unlock"}
  BY <1>3, <1>t DEF TickStart, IsNextQueued, Go, Past
<1>4. CASE Kill
  BY <1>4 DEF Kill, After
<1>5. CASE \E e \in Deployment : TickSkip(e)
  BY <1>5 DEF TickSkip, taskVars, Past
<1>6. ASSUME NEW e \in Deployment, TaskStep(e), task[e] \notin After
      PROVE  /\ task'[d] \in After
             /\ d \in tickQueue' => task'[d] \notin {"none", "unlock"}
  <2>1. e # d
    BY <1>6 DEF Past
  <2>2. UNCHANGED tickQueue
    BY <1>6, TaskFrame
  <2>3. task'[d] = task[d]
    BY <1>6, <2>1, <1>t, TaskKinds DEF Moves, Unlist, Unlock, Go
  <2> QED
    BY <2>2, <2>3 DEF Past
<1>7. ASSUME NEW e \in Deployment, TaskStep(e), task[e] \in After
      PROVE  /\ task'[d] \in After
             /\ d \in tickQueue' => task'[d] \notin {"none", "unlock"}
  <2>1. CASE AssignBranch(e) \/ AssignProduction(e) \/ PromoteBuilt(e) \/ Cleanup(e)
    BY <2>1, <1>t DEF AssignBranch, AssignProduction, PromoteBuilt, Cleanup, Go, KeepOthers,
                      Past, After
  <2>2. CASE Unlist(e)
    BY <2>2, <1>t DEF Unlist, Go, tickVars, Past, After
  <2>3. CASE Unlock(e)
    BY <2>3, <1>t DEF Unlock, Go, tickVars, Past, After
  <2>4. CASE Load(e) \/ Begin(e) \/ EnterClone(e) \/ RunCommand(e) \/ Collect(e)
               \/ Skipped(e) \/ Settle(e)
    BY <2>4, <1>7 DEF Load, Begin, EnterClone, RunCommand, Collect, Skipped, Settle, Write,
                      Go, After
  <2>5. CASE Fetched(e) \/ IgnoreRan(e) \/ ResolveFailed(e) \/ CommandFailed(e)
               \/ PublishFailed(e) \/ Failed(e) \/ Published(e) \/ Ready(e)
    BY <2>5, <1>7 DEF Fetched, IgnoreRan, ResolveFailed, CommandFailed, PublishFailed,
                      Failed, Proceed, Published, Ready, Go, After
  <2> QED
    BY <1>7, <2>1, <2>2, <2>3, <2>4, <2>5 DEF TaskStep
<1>8. CASE UNCHANGED vars \/ (ApiNext /\ UNCHANGED workerVars)
  BY <1>8, <1>1 DEF vars, workerVars
<1>9. CASE CheckCancelFlags \/ DropPermit \/ Boot
             \/ \E e \in Deployment : Prune(e) \/ OrphanExits(e)
  BY <1>9, <1>1 DEF CheckCancelFlags, DropPermit, Boot, Prune, PruneDir, PruneRows,
                    OrphanExits, taskVars, tickVars
<1> QED
  BY <1>1, <1>2, <1>3, <1>4, <1>5, <1>6, <1>7, <1>8, <1>9 DEF Next, WorkerNext, Tick

(* A build that is past its outcome stays there, when no tick is slow.     *)
LEMMA PastStays ==
  ASSUME TypeOK, Fresh, ~SlowTick, [Next]_vars, NEW d \in Deployment, Past(d)
  PROVE  Past(d)'
<1>1. d < nextId' /\ rows'[d].state # "QUEUED"
  BY OldRows, IdTypes DEF Past
<1>2. task'[d] \in After /\ (d \in tickQueue' => task'[d] \notin {"none", "unlock"})
  BY PastTask
<1> QED
  BY <1>1, <1>2 DEF Past

(* An output path comes only from the write that publishes a build.        *)
LEMMA OutputKinds ==
  ASSUME TypeOK, [Next]_vars, NEW d \in Deployment, ~Ready(d)
  PROVE  /\ rows'[d].output => rows[d].output
         /\ rows'[d].output /\ rows'[d].state = "READY" => rows[d].state = "READY"
<1>t. DatabaseTypeOK
  BY DEF TypeOK
<1>1. CASE RowsKept
  BY <1>1 DEF RowsKept
<1>2. CASE RowPublished
  BY <1>2, <1>t DEF RowPublished, Ready, WithReady, DatabaseTypeOK
<1>3. CASE RowPromoted
  <2>1. /\ rows'[d].output => rows[d].output
        /\ rows'[d].state = rows[d].state
    BY <1>3, <1>t DEF RowPromoted, Promoted, DatabaseTypeOK, Row
  <2> QED
    BY <2>1
<1>4. CASE RowsDeleted
  BY <1>4, DeletedRows DEF Deleted, NoRow
<1>5. CASE RowInserted
  <2>1. PICK t \in Target : rows' = Inserted(nextId, t)
    BY <1>5 DEF RowInserted, Create
  <2>2. rows'[d] = rows[d] \/ ~rows'[d].output
    BY <2>1, <1>t DEF Inserted, NoRow, DatabaseTypeOK
  <2> QED
    BY <2>2
<1> QED
  BY <1>1, <1>2, <1>3, <1>4, <1>5, RowKinds

(* Only what is published is ever listed to be pruned.                     *)
LEMMA PruneKinds ==
  ASSUME TypeOK, [Next]_vars, NEW d \in Deployment, NEW e \in Deployment,
         d \in pruneTodo'[e]
  PROVE  d \in pruneTodo[e] \/ rows[d].output
<1>t. pruneTodo \in [Deployment -> SUBSET Deployment]
  BY DEF TypeOK, WorkerTypeOK
<1>1. CASE UNCHANGED pruneTodo
  BY <1>1
<1>2. ASSUME NEW f \in Deployment, Cleanup(f)
      PROVE  d \in pruneTodo[e] \/ rows[d].output
  BY <1>2, <1>t DEF Cleanup, StaleForProject
<1>3. ASSUME NEW f \in Deployment, PruneDir(f)
      PROVE  d \in pruneTodo[e] \/ rows[d].output
  BY <1>3, <1>t DEF PruneDir
<1>4. CASE Kill
  BY <1>4 DEF Kill
<1>5. CASE ~UNCHANGED pruneTodo
  BY <1>5, <1>2, <1>3, <1>4, Frames
<1> QED
  BY <1>1, <1>5

(* Only a deployment without a row is put into the trash.                  *)
LEMMA TrashKinds ==
  ASSUME TypeOK, Fresh, [Next]_vars, NEW d \in trash', d \notin trash
  PROVE  d \in Deployment /\ ~Exists(d)' /\ d < nextId
<1>t. DatabaseTypeOK /\ ApiTypeOK /\ nextId \in Int /\ Deployment \subseteq Int
  BY IdTypes DEF TypeOK
<1>1. CASE DeleteRow
  BY <1>1, <1>t DEF DeleteRow, Deleted, NoRow, Exists, ApiTypeOK, Fresh
<1>2. ASSUME NEW p \in Project, DeleteProject(p)
      PROVE  d \in Deployment /\ ~Exists(d)' /\ d < nextId
  <2>1. d \in {e \in Deployment : Exists(e)}
    BY <1>2 DEF DeleteProject, OfProject
  <2>2. ~Exists(d)'
    BY <1>2, <2>1 DEF DeleteProject, Deleted, NoRow, Exists
  <2> QED
    BY <2>1, <2>2, <1>t DEF Fresh
<1>3. CASE UNCHANGED apiVars
  BY <1>3 DEF apiVars
<1>4. CASE ApiNext
  BY <1>4, <1>1, <1>2 DEF ApiNext, Call, Deploy, Redeploy, Create, CancelRead, PromoteRead,
     DeleteRead, HandlerStep, CancelQueued, FlagCancel, PromoteAlias, PromoteRow,
     PromoteTarget, DeleteQueued, RemoveDir, RestartApi, Finish, Continue, apiVars
<1> QED
  BY <1>3, <1>4 DEF Next, vars

(* Files go when the directory is emptied for a build, pruned or trashed.  *)
LEMMA DiskKinds ==
  ASSUME TypeOK, [Next]_vars, NEW d \in Deployment, d \in disk, d \notin disk'
  PROVE  \/ task[d] \in {"resolve", "command"} /\ task'[d] = "snapshot"
         \/ \E e \in Deployment : d \in pruneTodo[e] /\ d \in pruneDone'[e]
         \/ d \in trash
<1>t. task \in [Deployment -> Stage] /\ pruneDone \in [Deployment -> SUBSET Deployment]
  BY DEF TypeOK, WorkerTypeOK
<1>1. ASSUME NEW e \in Deployment, Collect(e)
      PROVE  task[d] \in {"resolve", "command"} /\ task'[d] = "snapshot"
  BY <1>1, <1>t DEF Collect, Write, Go
<1>2. ASSUME NEW e \in Deployment, PruneDir(e)
      PROVE  d \in pruneTodo[e] /\ d \in pruneDone'[e]
  BY <1>2, <1>t DEF PruneDir
<1>3. ASSUME NEW e \in Deployment, RemoveDir(e)
      PROVE  d \in trash
  BY <1>3 DEF RemoveDir
<1>4. ASSUME NEW e \in Deployment, Published(e)
      PROVE  d \in disk'
  BY <1>4 DEF Published
<1> QED
  BY <1>1, <1>2, <1>3, <1>4, Frames

(* What was pruned is so listed until its output path is unset.            *)
LEMMA PruneDoneKinds ==
  ASSUME TypeOK, [Next]_vars, ~Kill, NEW d, NEW e \in Deployment, ~PruneRows(e),
         d \in pruneDone[e]
  PROVE  d \in pruneDone'[e]
<1>t. pruneDone \in [Deployment -> SUBSET Deployment]
  BY DEF TypeOK, WorkerTypeOK
<1>1. ASSUME NEW f \in Deployment, PruneRows(f) \/ PruneDir(f)
      PROVE  d \in pruneDone'[e]
  BY <1>1, <1>t DEF PruneRows, PruneDir
<1> QED
  BY <1>1, Frames

(* No step takes the artifact of a ready row away.                         *)
LEMMA ArtifactStep ==
  ASSUME MaxCrashes = 0, ~SlowTick, TypeOK, ArtifactInv, [Next]_vars
  PROVE  ArtifactInv'
<1>t. /\ Fresh /\ nextId \in Int /\ nextId' \in Int /\ nextId <= nextId'
      /\ Deployment \subseteq Int
      /\ DatabaseTypeOK /\ ApiTypeOK /\ task \in [Deployment -> Stage]
      /\ pruneDone \in [Deployment -> SUBSET Deployment]
  BY IdTypes, OldRows DEF ArtifactInv, TypeOK, WorkerTypeOK
<1>k. ~Kill
  BY DEF Kill, TypeOK, WorkerTypeOK
<1>f. Fresh'
  BY <1>t, FreshStep
<1>r. ASSUME NEW d \in Deployment, Ready(d)
      PROVE  /\ d < nextId /\ task'[d] = "branch" /\ disk' = disk /\ rows' = WithReady(d)
             /\ d \in disk \/ ~Exists(d)
  BY <1>r, <1>t DEF Ready, Go, Fresh, ArtifactInv
<1>1. ASSUME NEW d \in Deployment, rows'[d].output
      PROVE  Past(d)'
  <2>1. CASE rows[d].output
    BY <2>1, <1>t, PastStays DEF ArtifactInv
  <2>2. CASE ~rows[d].output
    <3>1. Ready(d)
      BY <1>1, <2>2, OutputKinds
    <3>2. rows'[d].state # "QUEUED"
      <4>1. CASE Exists(d)
        <5>1. rows'[d] = [rows[d] EXCEPT !.state = "READY", !.output = TRUE]
          BY <1>r, <1>t, <3>1, <4>1 DEF WithReady, DatabaseTypeOK
        <5>2. rows[d] \in Row
          BY <1>t DEF DatabaseTypeOK
        <5> QED
          BY <5>1, <5>2 DEF Row
      <4>2. CASE ~Exists(d)
        BY <1>1, <1>r, <1>t, <2>2, <3>1, <4>2 DEF WithReady, DatabaseTypeOK
      <4> QED
        BY <4>1, <4>2
    <3> QED
      BY <1>r, <1>t, <3>1, <3>2 DEF Past, After
  <2> QED
    BY <2>1, <2>2
<1>2. ASSUME NEW d \in Deployment, NEW e \in Deployment, d \in pruneTodo'[e]
      PROVE  Past(d)'
  BY <1>2, <1>t, PruneKinds, PastStays DEF ArtifactInv
<1>3. ASSUME NEW d \in trash'
      PROVE  ~Exists(d)' /\ d < nextId'
  <2>1. CASE d \in trash
    <3>1. d \in Deployment /\ ~Exists(d) /\ d < nextId
      BY <2>1, <1>t DEF ArtifactInv, ApiTypeOK
    <3> QED
      BY <3>1, <1>t, OldRows
  <2>2. CASE d \notin trash
    <3>1. d \in Deployment /\ ~Exists(d)' /\ d < nextId
      BY <2>2, <1>3, <1>t, TrashKinds DEF ArtifactInv
    <3> QED
      BY <3>1, <1>t
  <2> QED
    BY <2>1, <2>2
<1>4. ASSUME NEW d \in Deployment, task'[d] = "built"
      PROVE  d \in disk' \/ ~Exists(d)'
  <2>1. CASE task[d] = "built"
    <3>1. d < nextId
      BY <2>1, <1>t DEF Fresh
    <3>2. CASE ~Exists(d)
      BY <3>1, <3>2, <1>t, OldRows
    <3>3. CASE d \in disk /\ d \notin disk'
      <4>1. CASE \E e \in Deployment : d \in pruneTodo[e]
        BY <4>1, <2>1 DEF ArtifactInv, Past, After
      <4>2. CASE d \in trash
        BY <4>2, <3>1, <1>t, OldRows DEF ArtifactInv
      <4> QED
        BY <3>3, <2>1, <4>1, <4>2, DiskKinds
    <3> QED
      BY <2>1, <3>2, <3>3 DEF ArtifactInv
  <2>2. CASE task[d] # "built"
    <3>1. Published(d)
      BY <1>4, <2>2, BuiltKinds
    <3> QED
      BY <3>1 DEF Published
  <2> QED
    BY <2>1, <2>2
<1>5. ASSUME NEW d \in Deployment, rows'[d].state = "READY", rows'[d].output
      PROVE  d \in disk' \/ \E e \in Deployment : d \in pruneDone'[e]
  <2>1. CASE Ready(d) /\ Exists(d)
    BY <1>r, <2>1
  <2>2. CASE rows[d].state = "READY" /\ rows[d].output
    <3>1. CASE d \in disk
      <4>1. task[d] \in After /\ d \notin trash
        BY <2>2 DEF ArtifactInv, Past, Exists
      <4> QED
        BY <3>1, <4>1, DiskKinds DEF After
    <3>2. ASSUME NEW e \in Deployment, d \in pruneDone[e]
          PROVE  d \in pruneDone'[e]
      <4>1. ~PruneRows(e)
        BY <1>5, <3>2, <1>t DEF PruneRows, DatabaseTypeOK, Row
      <4> QED
        BY <3>2, <4>1, <1>k, <1>t, PruneDoneKinds
    <3> QED
      BY <2>2, <3>1, <3>2 DEF ArtifactInv, ReadyHasArtifacts
  <2>3. Ready(d) => Exists(d) \/ (rows[d].state = "READY" /\ rows[d].output)
    BY <1>5, <1>r, <1>t DEF WithReady, DatabaseTypeOK
  <2> QED
    BY <1>5, <2>1, <2>2, <2>3, OutputKinds
<1> QED
  BY <1>f, <1>1, <1>2, <1>3, <1>4, <1>5 DEF ArtifactInv, ReadyHasArtifacts

(* What the proxy relies on, for a worker that is not killed and whose     *)
(* tick is never stalled for the length of a build: a READY row with an    *)
(* output path has its files, whatever is pruned, deleted, cancelled or    *)
(* promoted meanwhile.                                                     *)
THEOREM ArtifactsStay ==
  ASSUME MaxCrashes = 0, ~SlowTick
  PROVE  Spec => []ReadyHasArtifacts
<1>1. Init => ArtifactInv
  BY InitFresh DEF Init, DatabaseInit, WorkerInit, ApiInit, NoRow, ArtifactInv,
                   ReadyHasArtifacts
<1>2. TypeOK /\ ArtifactInv /\ [Next]_vars => ArtifactInv'
  BY ArtifactStep
<1>3. ArtifactInv => ReadyHasArtifacts
  BY DEF ArtifactInv
<1> QED
  BY <1>1, <1>2, <1>3, TypeCorrect, PTL DEF Spec
-----------------------------------------------------------------------------
(* Outcomes                                                                *)

(* The states in which a build ends, but for CANCELED, which is also what  *)
(* cancel and delete write into a row that they have read as QUEUED.       *)
Outcome == {"READY", "ERROR", "SKIPPED"}

(* The outcome of a build is not written over by another build or by the   *)
(* recovery of a restarted worker, and what has one is not started again.  *)
(* A cancel or delete that read the row before the build began may still   *)
(* write CANCELED.                                                         *)
OutcomeStays ==
  \A d \in Deployment :
    rows[d].state \in Outcome =>
      /\ rows'[d].state \in {rows[d].state, "CANCELED", "ABSENT"}
      /\ task[d] = "none" => task'[d] = "none"

(* A worker that is down has nothing in memory.                            *)
Asleep == \A d \in Deployment : task[d] = "none" /\ d \notin tickQueue

(* What has its outcome is past its build.                                 *)
FinalInv ==
  /\ Fresh
  /\ ~up => Asleep
  /\ \A d \in Deployment : rows[d].state \in Outcome => Past(d)

(* A task changes the state of its own row, and before it is past its      *)
(* build: to a state in progress, or to the outcome with which it ends.    *)
LEMMA TaskWrites ==
  ASSUME TypeOK, NEW e \in Deployment, TaskStep(e),
         NEW d \in Deployment, rows'[d].state # rows[d].state
  PROVE  /\ d = e /\ task[d] \notin After
         /\ rows'[d].state \in InProgress \/ task'[d] \in {"unlist", "branch"}
<1>t. DatabaseTypeOK /\ task \in [Deployment -> Stage]
  BY DEF TypeOK, WorkerTypeOK
<1>1. ASSUME NEW from, NEW to, NEW s \in Written, from \notin After,
             s \in InProgress \/ to = "unlist", Go(e, from, to), rows' = WithState(e, s)
      PROVE  /\ d = e /\ task[d] \notin After
             /\ rows'[d].state \in InProgress \/ task'[d] \in {"unlist", "branch"}
  <2>1. d = e /\ rows'[d].state = s
    BY <1>1, <1>t DEF WithState, DatabaseTypeOK, Row
  <2> QED
    BY <1>1, <2>1, <1>t DEF Go
<1>2. CASE Load(e)
  BY <1>2, <1>1 DEF Load, Written, After
<1>3. CASE Begin(e) \/ EnterClone(e) \/ RunCommand(e) \/ Collect(e)
  BY <1>3, <1>1 DEF Begin, EnterClone, RunCommand, Collect, Write, Written, InProgress, After
<1>4. CASE Skipped(e) \/ Settle(e)
  BY <1>4, <1>1 DEF Skipped, Settle, Write, Written, After
<1>5. CASE Ready(e)
  <2>1. d = e
    BY <1>5, <1>t DEF Ready, WithReady, DatabaseTypeOK
  <2> QED
    BY <1>5, <2>1, <1>t DEF Ready, Go, After
<1>6. CASE PromoteBuilt(e)
  BY <1>6, <1>t DEF PromoteBuilt, Promoted, DatabaseTypeOK, Row
<1>7. CASE Fetched(e) \/ IgnoreRan(e) \/ ResolveFailed(e) \/ CommandFailed(e)
             \/ PublishFailed(e) \/ Failed(e)
  BY <1>7 DEF Fetched, IgnoreRan, ResolveFailed, CommandFailed, PublishFailed, Failed,
              Proceed, dbVars
<1>8. CASE Published(e) \/ AssignBranch(e) \/ AssignProduction(e) \/ Cleanup(e)
             \/ Unlist(e) \/ Unlock(e)
  BY <1>8 DEF Published, AssignBranch, AssignProduction, Cleanup, Unlist, Unlock, dbVars
<1> QED
  BY <1>2, <1>3, <1>4, <1>5, <1>6, <1>7, <1>8 DEF TaskStep

(* The API cancels, deletes and inserts rows.                              *)
LEMMA ApiWrites ==
  ASSUME TypeOK, ApiNext, NEW d \in Deployment, rows'[d].state # rows[d].state
  PROVE  rows'[d].state \in {"CANCELED", "ABSENT"} \/ (rows'[d].state = "QUEUED" /\ d = nextId)
<1>t. DatabaseTypeOK /\ ApiTypeOK
  BY DEF TypeOK
<1>1. CASE RowInserted
  <2>1. PICK t \in Target : rows' = Inserted(nextId, t)
    BY <1>1 DEF RowInserted, Create
  <2> QED
    BY <2>1, <1>t DEF Inserted, NoRow, DatabaseTypeOK
<1>2. CASE RowsDeleted
  BY <1>2, DeletedRows DEF Deleted, NoRow
<1>3. CASE RestartApi \/ \E e \in Deployment : CancelRead(e) \/ PromoteRead(e) \/ DeleteRead(e)
                                                 \/ RemoveDir(e)
  BY <1>3 DEF RestartApi, CancelRead, PromoteRead, DeleteRead, RemoveDir, dbVars
<1>4. CASE HandlerStep /\ ~DeleteRow
  <2>a. apiDep \in Deployment
    BY <1>4, <1>t DEF HandlerStep, CancelQueued, FlagCancel, PromoteAlias, PromoteRow,
                PromoteTarget, DeleteQueued, DeleteRow, ApiTypeOK
  <2>1. CASE CancelQueued \/ DeleteQueued
    BY <2>1, <2>a, <1>t DEF CancelQueued, DeleteQueued, WithState, DatabaseTypeOK, Row
  <2>2. CASE FlagCancel \/ PromoteTarget
    BY <2>2, <2>a, <1>t DEF FlagCancel, PromoteTarget, DatabaseTypeOK, Row
  <2>3. CASE PromoteAlias
    BY <2>3 DEF PromoteAlias
  <2>4. CASE PromoteRow
    BY <2>4, <2>a, <1>t DEF PromoteRow, Promoted, DatabaseTypeOK, Row
  <2> QED
    BY <1>4, <2>1, <2>2, <2>3, <2>4 DEF HandlerStep
<1>5. ASSUME NEW p \in Project, Deploy(p)
      PROVE  RowInserted
  BY <1>5, ApiAssumption DEF Deploy, RowInserted
<1>6. ASSUME NEW e \in Deployment, Redeploy(e)
      PROVE  RowInserted
  BY <1>6, <1>t, ProjectOfType, States DEF Redeploy, RowInserted, DatabaseTypeOK, Row
<1> QED
  BY <1>1, <1>2, <1>3, <1>4, <1>5, <1>6 DEF ApiNext, Call, RowsDeleted

(* The four ways in which the state of a row changes.                      *)
LEMMA StateKinds ==
  ASSUME TypeOK, [Next]_vars, NEW d \in Deployment, rows'[d].state # rows[d].state
  PROVE  \/ rows'[d].state \in {"CANCELED", "ABSENT"}
         \/ rows'[d].state = "QUEUED" /\ d = nextId
         \/ Boot /\ rows[d].state \in InProgress
         \/ /\ TaskStep(d) /\ task[d] \notin After
            /\ rows'[d].state \in InProgress \/ task'[d] \in {"unlist", "branch"}
<1>t. DatabaseTypeOK
  BY DEF TypeOK
<1>1. ~UNCHANGED rows
  OBVIOUS
<1>2. CASE ApiNext
  BY <1>2, ApiWrites
<1>3. ASSUME NEW e \in Deployment, TaskStep(e)
      PROVE  /\ TaskStep(d) /\ task[d] \notin After
             /\ rows'[d].state \in InProgress \/ task'[d] \in {"unlist", "branch"}
  BY <1>3, TaskWrites
<1>4. CASE Boot
  BY <1>4, <1>t DEF Boot, Interrupted, DatabaseTypeOK
<1>5. ASSUME NEW e \in Deployment, PruneRows(e)
      PROVE  FALSE
  BY <1>5, <1>t DEF PruneRows, DatabaseTypeOK, Row
<1>6. CASE Tick \/ DropPermit \/ Kill \/ \E e \in Deployment : PruneDir(e) \/ OrphanExits(e)
  BY <1>1, <1>6 DEF Tick, TickRead, TickStart, TickSkip, CheckCancelFlags, DropPermit, Kill,
              PruneDir, OrphanExits, dbVars
<1>7. CASE UNCHANGED vars
  BY <1>1, <1>7 DEF vars, dbVars
<1> QED
  BY <1>2, <1>3, <1>4, <1>5, <1>6, <1>7 DEF Next, WorkerNext, Prune

(* The ways in which a task or the snapshot of tick changes.               *)
LEMMA TaskChanges ==
  ASSUME [Next]_vars
  PROVE  \/ UNCHANGED <<up, task, tickQueue>>
         \/ TickRead \/ Kill \/ Boot
         \/ \E e \in Deployment : TickStart(e) \/ TickSkip(e) \/ TaskStep(e)
  BY DEF Next, WorkerNext, Tick, Prune, CheckCancelFlags, DropPermit, PruneDir, PruneRows,
         OrphanExits, taskVars, tickVars, lifeVars, workerVars, vars

(* A worker that is down starts nothing.                                   *)
LEMMA AsleepStep ==
  ASSUME TypeOK, ~up => Asleep, [Next]_vars
  PROVE  ~up' => Asleep'
<1>1. CASE UNCHANGED <<up, task, tickQueue>>
  BY <1>1 DEF Asleep
<1>2. CASE Kill
  BY <1>2 DEF Kill, Asleep
<1>3. CASE TickRead \/ Boot \/ \E e \in Deployment : TickStart(e) \/ TickSkip(e)
  BY <1>3 DEF TickRead, Boot, TickStart, TickSkip, lifeVars
<1>4. ASSUME NEW e \in Deployment, TaskStep(e), ~up'
      PROVE  FALSE
  <2>1. task[e] = "none"
    BY <1>4, TaskFrame DEF Asleep
  <2> QED
    BY <1>4, <2>1, TaskKinds DEF Moves, Unlist, Unlock, Go
<1> QED
  BY <1>1, <1>2, <1>3, <1>4, TaskChanges

(* What gets its outcome is past its build from then on.                   *)
LEMMA FinalStep ==
  ASSUME ~SlowTick, TypeOK, FinalInv, [Next]_vars
  PROVE  FinalInv'
<1>t. /\ Fresh /\ nextId \in Int /\ nextId' \in Int /\ nextId <= nextId'
      /\ Deployment \subseteq Int
  BY IdTypes, OldRows DEF FinalInv
<1>1. ASSUME NEW d \in Deployment, rows'[d].state \in Outcome
      PROVE  Past(d)'
  <2>1. CASE rows'[d].state = rows[d].state
    BY <1>1, <2>1, <1>t, PastStays DEF FinalInv
  <2>2. CASE Boot /\ rows[d].state \in InProgress
    <3>1. Asleep /\ UNCHANGED <<task, tickQueue>>
      BY <2>2 DEF Boot, FinalInv, taskVars, tickVars
    <3>2. d < nextId
      BY <2>2, <1>t, OtherStates DEF Fresh, Exists
    <3> QED
      BY <1>1, <1>t, <3>1, <3>2 DEF Past, Asleep, After, Outcome
  <2>3. CASE TaskStep(d) /\ task[d] \notin After /\ task'[d] \in {"unlist", "branch"}
    <3>1. d < nextId
      BY <2>3, <1>t DEF Fresh, After
    <3> QED
      BY <1>1, <2>3, <1>t, <3>1 DEF Past, After, Outcome
  <2>4. rows'[d].state \notin InProgress \cup {"CANCELED", "ABSENT", "QUEUED"}
    BY <1>1 DEF Outcome, InProgress
  <2> QED
    BY <2>1, <2>2, <2>3, <2>4, StateKinds
<1> QED
  BY <1>1, <1>t, FreshStep, AsleepStep DEF FinalInv

(* What has its outcome keeps it, unless it is cancelled or deleted.       *)
LEMMA OutcomeStep ==
  ASSUME TypeOK, FinalInv, [Next]_vars
  PROVE  OutcomeStays
<1> SUFFICES ASSUME NEW d \in Deployment, rows[d].state \in Outcome
             PROVE  /\ rows'[d].state \in {rows[d].state, "CANCELED", "ABSENT"}
                    /\ task[d] = "none" => task'[d] = "none"
  BY DEF OutcomeStays
<1>t. task \in [Deployment -> Stage] /\ nextId \in Int /\ Deployment \subseteq Int
  BY IdTypes DEF TypeOK, WorkerTypeOK
<1>p. Past(d)
  BY DEF FinalInv
<1>1. rows'[d].state \in {rows[d].state, "CANCELED", "ABSENT"}
  <2>1. rows[d].state \notin InProgress /\ task[d] \in After /\ d # nextId
    BY <1>p, <1>t DEF Outcome, InProgress, Past
  <2> QED
    BY <2>1, StateKinds
<1>2. ASSUME task[d] = "none"
      PROVE  task'[d] = "none"
  <2>1. ASSUME NEW e \in Deployment, TaskStep(e)
        PROVE  task'[d] = "none"
    BY <1>2, <2>1, <1>t, TaskKinds DEF Moves, Unlist, Unlock, Go
  <2>2. ASSUME NEW e \in Deployment, TickStart(e)
        PROVE  task'[d] = "none"
    BY <1>2, <1>p, <2>2, <1>t DEF TickStart, IsNextQueued, Go, Past
  <2>3. CASE UNCHANGED task \/ Kill
    BY <1>2, <2>3 DEF Kill
  <2>4. CASE TickRead \/ Boot \/ \E e \in Deployment : TickSkip(e)
    BY <1>2, <2>4 DEF TickRead, Boot, TickSkip, taskVars
  <2> QED
    BY <2>1, <2>2, <2>3, <2>4, TaskChanges
<1> QED
  BY <1>1, <1>2

(* Unless a tick is stalled for the length of a build, a deployment that   *)
(* is READY, SKIPPED or in ERROR is never built again and keeps that state *)
(* until it is cancelled or deleted, wherever the worker is killed and     *)
(* whatever stale snapshots it works from (worker.rs tick, execute,        *)
(* recover_on_boot).                                                       *)
THEOREM OutcomesStay ==
  ASSUME ~SlowTick
  PROVE  Spec => [][OutcomeStays]_vars
<1>1. Init => FinalInv
  BY InitFresh DEF Init, DatabaseInit, WorkerInit, NoRow, FinalInv, Outcome
<1>2. TypeOK /\ FinalInv /\ [Next]_vars => FinalInv'
  BY FinalStep
<1>3. TypeOK /\ FinalInv /\ [Next]_vars => OutcomeStays
  BY OutcomeStep
<1> QED
  BY <1>1, <1>2, <1>3, TypeCorrect, PTL DEF Spec
-----------------------------------------------------------------------------
(* The checkout                                                            *)

(* No shell is left over from an earlier worker.                           *)
NoOrphan == orphans = {}

(* A shell outlives its task only when the worker is killed.               *)
LEMMA NoOrphanStep ==
  ASSUME MaxCrashes = 0, TypeOK, NoOrphan, [Next]_vars
  PROVE  NoOrphan'
<1>1. ~Kill
  BY DEF Kill, TypeOK, WorkerTypeOK
<1>2. ASSUME NEW d \in Deployment, TaskStep(d)
      PROVE  UNCHANGED orphans
  BY <1>2 DEF TaskStep, Load, Begin, EnterClone, Fetched, IgnoreRan, ResolveFailed,
     RunCommand, CommandFailed, Collect, Published, PublishFailed, Ready, AssignBranch,
     AssignProduction, PromoteBuilt, Cleanup, Skipped, Failed, Settle, Unlist, Unlock,
     Write, Proceed, KeepOthers, lifeVars
<1>3. CASE Tick \/ DropPermit \/ Boot \/ \E d \in Deployment : Prune(d)
  BY <1>3 DEF NoOrphan, Tick, TickRead, TickStart, TickSkip, CheckCancelFlags, DropPermit,
              Boot, Prune, PruneDir, PruneRows, lifeVars
<1>4. ASSUME NEW d \in Deployment
      PROVE  ~OrphanExits(d)
  BY DEF OrphanExits, NoOrphan
<1>5. CASE UNCHANGED workerVars
  BY <1>5 DEF workerVars, NoOrphan
<1>6. CASE WorkerNext
  BY <1>1, <1>2, <1>3, <1>4, <1>6 DEF WorkerNext, NoOrphan
<1> QED
  BY <1>5, <1>6 DEF Next, vars, workerVars

(* "Builds of one project are serialized so they never share that          *)
(* directory concurrently": true as long as no worker is killed, for then  *)
(* every shell in a checkout belongs to a task, and one task at most is of *)
(* that project (README.md; worker.rs tick, builder/executor.rs).          *)
THEOREM CheckoutsAreExclusive ==
  ASSUME MaxCrashes = 0
  PROVE  Spec => []WorkspaceExclusive
<1>1. Init => NoOrphan
  BY DEF Init, WorkerInit, NoOrphan
<1>2. TypeOK /\ NoOrphan /\ [Next]_vars => NoOrphan'
  BY NoOrphanStep
<1>3. NoOrphan /\ SerializedBuilds => WorkspaceExclusive
  BY DEF WorkspaceExclusive, InCheckout, SerializedBuilds, Active, ShellStage, NoOrphan
<1> QED
  BY <1>1, <1>2, <1>3, TypeCorrect, Serialization, PTL DEF Spec
=============================================================================
