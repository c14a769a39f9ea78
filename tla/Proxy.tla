------------------------------- MODULE Proxy --------------------------------
(***************************************************************************)
(* The request path of apps/proxy/src/server.ts over the runtimes: which   *)
(* deployment a request is for, how it is served, and the access log. The  *)
(* rows and files it reads are those of a builder.                         *)
(***************************************************************************)
EXTENDS Builder, Runtimes, Routing, FiniteSetsExt

CONSTANTS Site,         \* what each deployment has: its functions, rules and files
          Path,
          LogKeep,      \* KEEP_PER_PROJECT
          PruneEvery    \* PRUNE_EVERY

VARIABLES current,      \* the current production deployment, which the host follows
          status,       \* res.statusCode of what handle answered without a runtime
          about,        \* the deployment a request was attributed to: its span
          recorded,     \* current.recorded of the trace of each request
          ended,        \* the events a response has emitted
          written,      \* rows inserted into request_logs for each request
          warned,       \* the requests whose row could not be inserted
          logRows,      \* rows of request_logs, after pruning
          sincePrune    \* requestsSincePrune

tableVars == <<written, warned, logRows, sincePrune>>
logVars == <<status, about, recorded, ended, tableVars>>
edgeVars == <<buildVars, current, logVars>>
vars == <<execVars, rtVars, edgeVars>>

Init ==
  /\ RuntimesInit /\ BuilderInit /\ current = None
  /\ status = [r \in Request |-> 0] /\ about = [r \in Request |-> None]
  /\ recorded = [r \in Request |-> FALSE] /\ ended = [r \in Request |-> {}]
  /\ written = [r \in Request |-> 0] /\ warned = {} /\ logRows = 0 /\ sincePrune = 0

-----------------------------------------------------------------------------
(* handle                                                                  *)

KeyFor(d, i) == <<d, i>>      \* instanceKey; 0 is the server of the deployment

(* resolveTarget: /_d/<id> names a deployment, the host follows production. *)
Addressed(d) == row[d] # "ABSENT" \/ d = current

New(r) == req[r].state = "none" /\ status[r] = 0 /\ ended[r] = {} /\ ~stopping

Answer(r, d, code) ==
  /\ status' = [status EXCEPT ![r] = code]
  /\ about' = [about EXCEPT ![r] = d]
  /\ UNCHANGED <<execVars, rtVars, buildVars, current, recorded, ended, tableVars>>

NoTarget(r, d) == New(r) /\ ~Addressed(d) /\ Answer(r, None, 404)

NotReady(r, d) ==
  /\ New(r) /\ Addressed(d) /\ row[d] # "READY"
  /\ Answer(r, d, IF row[d] = "ERROR" THEN 502 ELSE 503)

NoArtifacts(r, d) == New(r) /\ row[d] = "READY" /\ ~onDisk[d] /\ Answer(r, d, 502)

Server(d) == ServeMode(d) = "server"
Served(r, d) == New(r) /\ row[d] = "READY" /\ onDisk[d]
Redirected(d, p) == FirstRule(Site[d].redirects, p) # 0
PathOf(d, p) == Rewritten(Site[d].rewrites, p)
FunctionFor(d, p) == FindFunction(Site[d].functions, PathOf(d, p))

Redirect(r, d, p) ==
  /\ Served(r, d) /\ Redirected(d, p)
  /\ Answer(r, d, 308)

(* A server deployment, or one function, gets the request once acquired.   *)
ServeRuntime(r, d, p) ==
  /\ Served(r, d) /\ ~Redirected(d, p)
  /\ \E i \in IF Server(d) THEN {0} ELSE FunctionFor(d, p) : Acquire(r, KeyFor(d, i))
  /\ about' = [about EXCEPT ![r] = d]
  /\ UNCHANGED <<buildVars, current, status, recorded, ended, tableVars>>

(* Static files, else index.html unless there is a 404 page, else 404.     *)
StaticStatus(d, path) ==
  LET m == Site[d]
      Found(p) == ServeStatic(m.files, ResolveCandidates(p, FALSE, m.cleanUrls)) # 0
  IN IF Found(path) \/ (~m.has404 /\ path # <<>> /\ Found(<<>>)) THEN 200 ELSE 404

ServeFiles(r, d, p) ==
  /\ Served(r, d) /\ ~Redirected(d, p) /\ ~Server(d) /\ FunctionFor(d, p) = {}
  /\ Answer(r, d, StaticStatus(d, PathOf(d, p)))

(* The functions of a site have routes, a rule makes a path of a path, and *)
(* each runtime that a request may be sent to has a key.                   *)
ASSUME ProxyAssumption ==
  /\ LogKeep \in Nat /\ PruneEvery \in Nat \ {0}
  /\ \A d \in Deployment : \A i \in DOMAIN Site[d].functions :
       Site[d].functions[i] \in Seq(Segment)
  /\ \A d \in Deployment, p \in Path : PathOf(d, p) \in Seq(STRING)
  /\ \A d \in Deployment, p \in Path : \A i \in IF Server(d) THEN {0} ELSE FunctionFor(d, p) :
       KeyFor(d, i) \in Key

Handle(r, d, p) ==
  \/ NoTarget(r, d) \/ NotReady(r, d) \/ NoArtifacts(r, d)
  \/ Redirect(r, d, p) \/ ServeRuntime(r, d, p) \/ ServeFiles(r, d, p)

-----------------------------------------------------------------------------
(* The access log                                                          *)

Answered(r) == status[r] # 0 \/ req[r].state \in {"ok", "failed"}
Attributed(r) == about[r] # None

Unrecorded(r) == Attributed(r) /\ ~recorded[r]
PruneOverdue == sincePrune + 1 > PruneEvery      \* a mutant: off by one
PruneDue == sincePrune + 1 >= PruneEvery

(* Every PruneEvery rows the project's log is cut to its newest LogKeep,   *)
(* unless that statement fails.                                            *)
Insert(r) ==
  /\ written' = [written EXCEPT ![r] = @ + 1]
  /\ IF PruneDue
     THEN sincePrune' = 0 /\ logRows' \in {logRows + 1, Min({logRows + 1, LogKeep})}
     ELSE sincePrune' = sincePrune + 1 /\ logRows' = logRows + 1
  /\ UNCHANGED warned

(* A row that cannot be inserted, because the database is busy or has lost *)
(* the project, is only warned about.                                      *)
InsertFails(r) ==
  warned' = warned \cup {r} /\ UNCHANGED <<written, logRows, sincePrune>>

(* recordRequest: the flag is set first, then one attempt is made.         *)
Record(r) ==
  IF Unrecorded(r)
  THEN recorded' = [recorded EXCEPT ![r] = TRUE] /\ (Insert(r) \/ InsertFails(r))
  ELSE UNCHANGED <<recorded, tableVars>>

(* The response emits finish when all of it was sent, and close when the   *)
(* connection is done, also because the client hung up.                    *)
RecordedOnFinish == {"finish"}    \* a mutant: a client that hangs up is not logged
RecordedOn == {"finish", "close"}
Emit(r, event) ==
  /\ ~exited /\ event \notin ended[r]
  /\ ended' = [ended EXCEPT ![r] = @ \cup {event}]
  /\ IF event \in RecordedOn THEN Record(r) ELSE UNCHANGED <<recorded, tableVars>>
  /\ UNCHANGED <<execVars, rtVars, buildVars, current, status, about>>

Finish(r) == Answered(r) /\ "close" \notin ended[r] /\ Emit(r, "finish")
CloseResponse(r) == Answered(r) /\ Emit(r, "close")
HangUp(r) == req[r].state \in {"waiting", "sent"} /\ Emit(r, "close")

-----------------------------------------------------------------------------
(* The builder and its caller                                              *)

Builds(d) == RunBuild(d) \/ Abort(d)
Promote(d) == row[d] = "READY" /\ onDisk[d] /\ current' = d /\ UNCHANGED buildVars

(* A deployment that is not in production is pruned, or deleted.           *)
RemoveDeployment(d) ==
  /\ row[d] \in {"READY", "ERROR"} /\ d # current
  /\ onDisk' = [onDisk EXCEPT ![d] = FALSE] /\ snap' = [snap EXCEPT ![d] = NoSnap]
  /\ row' \in {row, [row EXCEPT ![d] = "ABSENT"]}
  /\ UNCHANGED <<stage, step, aborted, tree, current>>

Control(d) ==
  /\ (Builds(d) /\ UNCHANGED current) \/ Promote(d) \/ RemoveDeployment(d)
  /\ UNCHANGED <<execVars, rtVars, logVars>>

-----------------------------------------------------------------------------
Edge(A) == A /\ UNCHANGED edgeVars

Done == (exited \/ \A r \in Request : ~New(r)) /\ UNCHANGED vars

(* Bound: a behaviour is followed until the proxy exits. What builds and   *)
(* processes do after that they do before as well.                         *)
Work ==
  \/ \E r \in Request : \/ \E d \in Deployment, p \in Path : Handle(r, d, p)
                        \/ Edge(Upstream(r)) \/ Finish(r) \/ CloseResponse(r) \/ HangUp(r)
  \/ \E p \in Proc : Edge(Runtime(p))
  \/ Edge(ReapIdle) \/ Edge(Shutdown) \/ Edge(ExitProcess)
  \/ \E d \in Deployment : Control(d)

Next == (~exited /\ Work) \/ Done

Spec == Init /\ [][Next]_vars

(* Promises settle, timers fire, sockets close, and signals end processes. *)
Fairness ==
  /\ \A p \in Proc : WF_vars(Edge(Boot(p))) /\ WF_vars(Edge(Ready(p)))
  /\ \A r \in Request : WF_vars(Edge(Upstream(r))) /\ WF_vars(CloseResponse(r))

FairSpec == Spec /\ Fairness

-----------------------------------------------------------------------------
(* Types of the state of the proxy and the builds behind it.               *)
TypeOK ==
  /\ RuntimesTypeOK
  /\ BuilderTypeOK /\ current \in Deployment \cup {None}
  /\ status \in [Request -> {0, 200, 308, 404, 502, 503}]
  /\ about \in [Request -> Deployment \cup {None}]
  /\ recorded \in [Request -> BOOLEAN] /\ written \in [Request -> Nat] /\ warned \subseteq Request
  /\ ended \in [Request -> SUBSET {"finish", "close"}]
  /\ logRows \in Nat /\ sincePrune \in 0..(PruneEvery - 1)

(* A request that handle attributed to a deployment ends up in the access  *)
(* log, once and for good, also if its runtime never starts, its client    *)
(* hangs up or both events come. What is lost is a row whose only insert   *)
(* failed, and what was under way when the proxy exited                    *)
(* (server.ts:515-542, 547-558, 600-602).                                  *)
EveryRequestLogged == \A r \in Request :
  Attributed(r) ~> [](written[r] = 1 \/ r \in warned \/ exited)

(* A deployment with a manifest has a whole copy of its own commit         *)
(* (index.ts:187-189, 396).                                                *)
ManifestMeansWhole == \A d \in Deployment :
  onDisk[d] => snap[d].whole /\ snap[d].tree.commit = d

(* The directory served is one the deployment's own build wrote, whatever  *)
(* earlier builds left in the workspace; only a directory that its commit  *)
(* ignores may be an earlier one's (git.ts:87-89, settings.ts:172).        *)
PublishesOwnOutput == \A d \in Deployment :
  onDisk[d] /\ ~Server(d) /\ StaticDir(d) \in Directory \ Source[d].ignored
    => snap[d].tree.out[StaticDir(d)] = d

(* The function host, which is given one route, accepts every path that    *)
(* the proxy sends it: the two matchers of the two files agree             *)
(* (routing.ts:153, function-server.mjs:22).                               *)
HostAcceptsPath == \A d \in Deployment, p \in Path :
  \A i \in FunctionFor(d, p) : onDisk[d] => MatchRoute(Site[d].functions[i], PathOf(d, p))

=============================================================================
