------------------------------ MODULE Runtimes ------------------------------
(***************************************************************************)
(* The RuntimeManager of apps/proxy/src/runtime.ts: a process per key,     *)
(* booted by the first request, reaped when idle. Node runs one callback   *)
(* at a time, so a step is what happens between two awaits.                *)
(***************************************************************************)
EXTENDS Executor, FiniteSets

CONSTANTS Key,        \* a deployment, or one function of it: instanceKey
          ScriptOf,   \* the script file that run writes to boot a key
          Startable,  \* the keys that have a start command
          Port, Request, None,
          MaxTries    \* ports allocatePort tries (200)

ASSUME RuntimesAssumption ==
  /\ None \notin Proc /\ None \notin Key /\ MaxTries \in Nat \ {0}
  /\ Port \subseteq Nat

VARIABLES
  instances,          \* key -> the boot whose instance is listed
  starting,           \* key -> the boot that is pending
  phase, keyOf, port, \* of each boot
  taken, tries,       \* allocatePort: the ports it avoids, the tries it made
  idle,               \* lastUsedAt is before the cutoff
  script,             \* file -> the boot that wrote it last
  loaded,             \* the boot whose script a shell has read
  bound,              \* port -> the boot whose job listens on it
  req,                \* what each request waits for
  stopping,           \* shutdown has been called
  exited              \* process.exit has been called

rtVars == <<instances, starting, phase, keyOf, port, taken, tries, idle, script, loaded,
            bound, req, stopping, exited>>

Unsent == [state |-> "none", proc |-> None]
File == {ScriptOf[k] : k \in Key}
Pending == {"port", "wait"}

RuntimesInit ==
  /\ ExecutorInit
  /\ instances = [k \in Key |-> None] /\ starting = [k \in Key |-> None]
  /\ phase = [p \in Proc |-> "none"] /\ keyOf = [p \in Proc |-> None]
  /\ port = [p \in Proc |-> 0]
  /\ taken = [p \in Proc |-> {}] /\ tries = [p \in Proc |-> 0]
  /\ idle = [p \in Proc |-> FALSE]
  /\ script = [f \in File |-> None] /\ loaded = [p \in Proc |-> None]
  /\ bound = [x \in Port |-> None]
  /\ req = [r \in Request |-> Unsent]
  /\ stopping = FALSE /\ exited = FALSE

(* Types of the state of the runtime manager.                              *)
RuntimesTypeOK ==
  /\ ExecutorTypeOK
  /\ instances \in [Key -> Proc \cup {None}] /\ starting \in [Key -> Proc \cup {None}]
  /\ phase \in [Proc -> {"none", "port", "wait", "up", "failed"}]
  /\ keyOf \in [Proc -> Key \cup {None}] /\ port \in [Proc -> Port \cup {0}]
  /\ taken \in [Proc -> SUBSET Port] /\ tries \in [Proc -> 0..MaxTries]
  /\ idle \in [Proc -> BOOLEAN]
  /\ script \in [File -> Proc \cup {None}] /\ loaded \in [Proc -> Proc \cup {None}]
  /\ bound \in [Port -> Proc \cup {None}]
  /\ req \in [Request -> [state : {"none", "waiting", "sent", "ok", "failed"},
                          proc : Proc \cup {None}]]
  /\ stopping \in BOOLEAN /\ exited \in BOOLEAN

Listed == {instances[k] : k \in Key} \ {None}

-----------------------------------------------------------------------------
(* acquire, and the proxying of the request once it resolves.              *)

(* existing.child.exitCode === null: the instance is used, once it is ready. *)
Alive(k) == instances[k] # None /\ exitCode[instances[k]] = "null"

Goes(r, p) ==
  req' = [req EXCEPT ![r] = [state |-> IF phase[p] = "up" THEN "sent" ELSE "waiting", proc |-> p]]

(* What a request that waited for boot p is told.                          *)
Settle(state, p) == [state |-> state, proc |-> IF state = "sent" THEN p ELSE None]

AcquireListed(r, k) ==
  /\ ~stopping /\ req[r].state = "none" /\ Alive(k)
  /\ Goes(r, instances[k])
  /\ idle' = [idle EXCEPT ![instances[k]] = FALSE]
  /\ UNCHANGED <<execVars, instances, starting, phase, keyOf, port, taken, tries, script,
                 loaded, bound, stopping, exited>>

AcquirePending(r, k) ==
  /\ ~stopping /\ req[r].state = "none" /\ ~Alive(k) /\ starting[k] # None
  /\ Goes(r, starting[k])
  /\ instances' = [instances EXCEPT ![k] = None]
  /\ UNCHANGED <<execVars, starting, phase, keyOf, port, taken, tries, idle, script, loaded,
                 bound, stopping, exited>>

(* Nothing of the key to use or to wait for.                               *)
NothingAlive(k) == ~Alive(k)      \* a mutant: the pending boot is forgotten
NothingFor(k) == ~Alive(k) /\ starting[k] = None

(* A new boot: the ports in use now are avoided, whatever is booted next.  *)
AcquireBoots(r, k) ==
  /\ ~stopping /\ req[r].state = "none" /\ NothingFor(k)
  /\ instances' = [instances EXCEPT ![k] = None]
  /\ \E p \in Proc :
       LET avoid == {port[q] : q \in Listed \ {instances[k]}}
       IN /\ phase[p] = "none" /\ \A q \in Proc : phase[q] = "none" => p <= q
          /\ IF Port \subseteq avoid
             THEN /\ phase' = [phase EXCEPT ![p] = "failed"]
                  /\ req' = [req EXCEPT ![r] = Settle("failed", p)]
                  /\ UNCHANGED <<starting, port, taken, tries>>
             ELSE /\ \E x \in Port \ avoid : port' = [port EXCEPT ![p] = x]
                  /\ phase' = [phase EXCEPT ![p] = "port"]
                  /\ taken' = [taken EXCEPT ![p] = avoid]
                  /\ tries' = [tries EXCEPT ![p] = 1]
                  /\ starting' = [starting EXCEPT ![k] = p]
                  /\ req' = [req EXCEPT ![r] = [state |-> "waiting", proc |-> p]]
          /\ keyOf' = [keyOf EXCEPT ![p] = k]
  /\ UNCHANGED <<execVars, idle, script, loaded, bound, stopping, exited>>

(* What the requests that wait for boot p do when it resolves or rejects.  *)
WaitsFor(r, p) == req[r].state = "waiting" /\ req[r].proc = p
SettledIfReady(p, state) ==       \* a mutant: a rejection is dropped
  req' = [r \in Request |->
            IF WaitsFor(r, p) /\ state = "sent" THEN Settle(state, p) ELSE req[r]]
Settled(p, state) ==
  req' = [r \in Request |-> IF WaitsFor(r, p) THEN Settle(state, p) ELSE req[r]]

NotStarting(p) == [k \in Key |-> IF starting[k] = p THEN None ELSE starting[k]]

(* proxyRequest: the answer of whoever listens on the instance's port, or  *)
(* 502 if nobody does.                                                     *)
AnswerIfBound(r) ==               \* a mutant: the error of the socket is not handled
  IF bound[port[req[r].proc]] = None THEN "sent" ELSE "ok"
UpstreamAnswer(r) == IF bound[port[req[r].proc]] = None THEN "failed" ELSE "ok"

Upstream(r) ==
  /\ ~exited /\ req[r].state = "sent"
  /\ req' = [req EXCEPT ![r] = Settle(UpstreamAnswer(r), @.proc)]
  /\ UNCHANGED <<execVars, instances, starting, phase, keyOf, port, taken, tries, idle,
                 script, loaded, bound, stopping, exited>>

-----------------------------------------------------------------------------
(* boot                                                                    *)

(* isPortFree says yes: run writes the script, the shell is spawned, the   *)
(* instance is listed and waitForPort begins.                              *)
PortFree(p) ==
  /\ phase[p] = "port" /\ bound[port[p]] = None /\ keyOf[p] \in Startable
  /\ Spawn(p)
  /\ script' = [script EXCEPT ![ScriptOf[keyOf[p]]] = p]
  /\ instances' = [instances EXCEPT ![keyOf[p]] = p]
  /\ phase' = [phase EXCEPT ![p] = "wait"]
  /\ UNCHANGED <<starting, keyOf, port, taken, tries, idle, loaded, bound, req, stopping, exited>>

TriesAtMost(p) == tries[p] <= MaxTries       \* a mutant: off by one
TriesLeft(p) == tries[p] < MaxTries

(* isPortFree says no: another port, of those that were free at first.     *)
PortBusy(p) ==
  /\ phase[p] = "port" /\ bound[port[p]] # None
  /\ TriesLeft(p)
  /\ \E x \in Port \ taken[p] : port' = [port EXCEPT ![p] = x]
  /\ tries' = [tries EXCEPT ![p] = @ + 1]
  /\ UNCHANGED <<execVars, instances, starting, phase, keyOf, taken, idle, script, loaded,
                 bound, req, stopping, exited>>

(* No free port within the tries, or no start command.                     *)
BootThrows(p) ==
  /\ phase[p] = "port"
  /\ IF bound[port[p]] = None THEN keyOf[p] \notin Startable ELSE ~TriesLeft(p)
  /\ phase' = [phase EXCEPT ![p] = "failed"]
  /\ starting' = NotStarting(p)
  /\ Settled(p, "failed")
  /\ UNCHANGED <<execVars, instances, keyOf, port, taken, tries, idle, script, loaded, bound,
                 stopping, exited>>

(* waitForPort: somebody accepts connections on the port.                  *)
PortAnswers(p) ==
  /\ phase[p] = "wait" /\ bound[port[p]] # None
  /\ phase' = [phase EXCEPT ![p] = "up"]
  /\ starting' = NotStarting(p)
  /\ Settled(p, "sent")
  /\ UNCHANGED <<execVars, instances, keyOf, port, taken, tries, idle, script, loaded, bound,
                 stopping, exited>>

(* stop: kill what is listed under the keys K.                             *)
Stop(K) ==
  /\ killed' = Killed({instances[k] : k \in K})
  /\ instances' = [k \in Key |-> IF k \in K THEN None ELSE instances[k]]
  /\ UNCHANGED <<shell, job, exitCode>>

(* waitForPort gives up: the catch stops whatever the key lists.           *)
BootTimeout(p) ==
  /\ phase[p] = "wait" /\ bound[port[p]] = None
  /\ phase' = [phase EXCEPT ![p] = "failed"]
  /\ starting' = NotStarting(p)
  /\ Settled(p, "failed")
  /\ Stop({keyOf[p]})
  /\ UNCHANGED <<keyOf, port, taken, tries, idle, script, loaded, bound, stopping, exited>>

-----------------------------------------------------------------------------
(* The process of a boot                                                   *)

(* The shell reads the script, as the last boot left it.                   *)
ReadScript(p) ==
  /\ StartJob(p)
  /\ loaded' = [loaded EXCEPT ![p] = script[ScriptOf[keyOf[p]]]]
  /\ UNCHANGED <<instances, starting, phase, keyOf, port, taken, tries, idle, script, bound,
                 req, stopping, exited>>

Unbound(p) == [x \in Port |-> IF bound[x] = p THEN None ELSE bound[x]]

(* The server listens on the port its script exports.                      *)
Listen(p) ==
  /\ job[p] = "up" /\ \A x \in Port : bound[x] # p
  /\ bound[port[loaded[p]]] = None
  /\ bound' = [bound EXCEPT ![port[loaded[p]]] = p]
  /\ UNCHANGED <<execVars, instances, starting, phase, keyOf, port, taken, tries, idle,
                 script, loaded, req, stopping, exited>>

(* The server ends: a crash, or its port is in use.                        *)
Crash(p) ==
  /\ JobEnds(p, "nonzero")
  /\ bound' = Unbound(p)
  /\ UNCHANGED <<instances, starting, phase, keyOf, port, taken, tries, idle, script, loaded,
                 req, stopping, exited>>

Signalled(p) ==
  /\ Dies(p)
  /\ bound' = IF KillsTree THEN Unbound(p) ELSE bound
  /\ UNCHANGED <<instances, starting, phase, keyOf, port, taken, tries, idle, script, loaded,
                 req, stopping, exited>>

StillListed(p) == instances       \* a mutant: the exit of a process is not noticed
Unlisted(p) == [instances EXCEPT ![keyOf[p]] = None]

(* execution.then: the key is no longer listed.                            *)
Exited(p) ==
  /\ Close(p)
  /\ instances' = Unlisted(p)
  /\ UNCHANGED <<starting, phase, keyOf, port, taken, tries, idle, script, loaded, bound,
                 req, stopping, exited>>

-----------------------------------------------------------------------------
(* Time and shutdown                                                       *)

(* No request for as long as idleTimeoutMs; a boot is over long before.    *)
GrowIdle(p) ==
  /\ p \in Listed /\ phase[p] = "up" /\ ~idle[p]
  /\ idle' = [idle EXCEPT ![p] = TRUE]
  /\ UNCHANGED <<execVars, instances, starting, phase, keyOf, port, taken, tries, script,
                 loaded, bound, req, stopping, exited>>

(* The interval of the constructor: every idle instance is stopped.        *)
ReapIdle ==
  LET K == {k \in Key : instances[k] # None /\ idle[instances[k]]}
  IN /\ ~exited /\ K # {}
     /\ Stop(K)
     /\ UNCHANGED <<starting, phase, keyOf, port, taken, tries, idle, script, loaded, bound,
                    req, stopping, exited>>

(* SIGINT or SIGTERM: stopAll, and the listeners close. A boot that has no *)
(* instance yet goes on.                                                   *)
Shutdown ==
  /\ ~stopping /\ stopping' = TRUE
  /\ Stop({k \in Key : instances[k] # None})
  /\ UNCHANGED <<starting, phase, keyOf, port, taken, tries, idle, script, loaded, bound, req,
                 exited>>

(* process.exit, once the last connection to the HTTP listener is closed   *)
(* or after 3 s, whatever is still waiting; nothing of the proxy runs then.*)
ExitProcess ==
  /\ stopping /\ ~exited /\ exited' = TRUE
  /\ UNCHANGED <<execVars, instances, starting, phase, keyOf, port, taken, tries, idle, script,
                 loaded, bound, req, stopping>>

-----------------------------------------------------------------------------
Acquire(r, k) == AcquireListed(r, k) \/ AcquirePending(r, k) \/ AcquireBoots(r, k)

(* What the proxy does, until it exits, and what the process of a boot     *)
(* does, also after that.                                                  *)
Boot(p) == ~exited /\ (PortFree(p) \/ PortBusy(p) \/ BootThrows(p))
Ready(p) == ~exited /\ (PortAnswers(p) \/ BootTimeout(p))
Watch(p) == ~exited /\ (Exited(p) \/ GrowIdle(p))
Process(p) == ReadScript(p) \/ Listen(p) \/ Crash(p) \/ Signalled(p)

Runtime(p) == Boot(p) \/ Ready(p) \/ Watch(p) \/ Process(p)

(* No request is left to come.                                             *)
AtRest ==
  /\ stopping \/ \A r \in Request : req[r].state # "none"
  /\ UNCHANGED <<execVars, rtVars>>

RuntimesNext ==
  \/ \E r \in Request : Upstream(r) \/ \E k \in Key : Acquire(r, k)
  \/ \E p \in Proc : Runtime(p)
  \/ ReapIdle \/ Shutdown \/ ExitProcess \/ AtRest

RuntimesSpec == RuntimesInit /\ [][RuntimesNext]_<<execVars, rtVars>>

(* Promises settle, timers fire and sockets answer.                        *)
RuntimesFairSpec ==
  /\ RuntimesSpec
  /\ \A p \in Proc : WF_rtVars(Boot(p)) /\ WF_rtVars(Ready(p))
  /\ \A r \in Request : WF_rtVars(Upstream(r))

-----------------------------------------------------------------------------
(* A key never has two boots at a time, however requests and boots         *)
(* interleave: acquire returns the pending one (runtime.ts:135-141).       *)
OneBootPerKey == \A p, q \in Proc :
  phase[p] \in Pending /\ phase[q] \in Pending /\ keyOf[p] = keyOf[q] => p = q

(* No instance whose process is gone stays listed under its key, where a   *)
(* request would be sent to it (runtime.ts:227-230).                       *)
NeverListsClosed == \A k \in Key : instances[k] # None => shell[instances[k]] # "closed"

(* A request that waits does so for a boot that can still settle.          *)
WaitersHaveABoot == \A r \in Request : req[r].state = "waiting" => phase[req[r].proc] \in Pending

(* Every request that acquired a runtime is answered, with a 502 if the    *)
(* boot fails or nobody listens (server.ts:371-394), unless the proxy has  *)
(* exited before: a shutdown waits for no boot (server.ts:600-602).        *)
RequestsSettle == \A r \in Request :
  req[r].state \in {"waiting", "sent"} ~> req[r].state \in {"ok", "failed"} \/ exited

(* runtime.ts:112-118: the process of a function has only that route       *)
(* loaded into it. The script a shell reads is the one of its own boot.    *)
OwnRouteLoaded == \A p \in Proc : loaded[p] # None => keyOf[loaded[p]] = keyOf[p]
=============================================================================
