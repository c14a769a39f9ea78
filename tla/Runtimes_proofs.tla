-------------------------- MODULE Runtimes_proofs ---------------------------
(***************************************************************************)
(* Theorems about Runtimes, for any number of keys, boots, ports and       *)
(* requests and for both ways a kill may work.                             *)
(***************************************************************************)
EXTENDS Runtimes, TLAPS

-----------------------------------------------------------------------------
(* The invariant                                                           *)

(* The map starting is an index of the pending boots, and the map          *)
(* instances lists boots that have a process and a port of their own.      *)
Index ==
  \A k \in Key, p \in Proc : starting[k] = p <=> keyOf[p] = k /\ phase[p] \in Pending

Booted == \A p \in Proc :
  /\ keyOf[p] = None <=> phase[p] = "none"
  /\ keyOf[p] = None => shell[p] = "none"
  /\ phase[p] \in {"port", "wait", "up"} => port[p] \in Port

Listing == \A k \in Key, p \in Proc :
  instances[k] = p => keyOf[p] = k /\ phase[p] \in {"wait", "up"}

Waiters == \A r \in Request :
  req[r].state = "waiting" => req[r].proc \in Proc /\ phase[req[r].proc] \in Pending

(* OneBootPerKey is not inductive by itself: that a request starts no      *)
(* second boot rests on Index. That a boot which is over is not listed,    *)
(* and an exit unlists the process that ended, rest on Listing.            *)
BootInv == /\ RuntimesTypeOK /\ Index /\ Booted /\ Listing
           /\ NeverListsClosed /\ Waiters

(* None is neither a boot nor a key.                                       *)
LEMMA NoneTypes == None \notin Proc /\ None \notin Key /\ Proc \subseteq Nat
  BY RuntimesAssumption, ExecutorAssumption

-----------------------------------------------------------------------------
(* Types                                                                   *)

Requests == [state : {"none", "waiting", "sent", "ok", "failed"}, proc : Proc \cup {None}]

(* What a request is told is a state of a request.                         *)
LEMMA SettleType ==
  ASSUME NEW p \in Proc, NEW state \in {"sent", "ok", "failed"}
  PROVE  Settle(state, p) \in Requests
  BY DEF Settle, Requests

(* What a boot does to the requests that wait for it.                      *)
LEMMA SettledType ==
  ASSUME RuntimesTypeOK, NEW p \in Proc, NEW state \in {"sent", "failed"}, Settled(p, state)
  PROVE  /\ req' \in [Request -> Requests]
         /\ \A r \in Request : req'[r].state = "waiting" => req'[r] = req[r] /\ req[r].proc # p
<1>1. Settle(state, p) \in Requests /\ Settle(state, p).state # "waiting"
  BY SettleType DEF Settle
<1>2. req \in [Request -> Requests]
  BY DEF RuntimesTypeOK, Requests
<1> QED
  BY <1>1, <1>2 DEF Settled, WaitsFor

(* The steps of Executor.                                                  *)
LEMMA ExecutorTypes ==
  ASSUME ExecutorTypeOK, NEW p \in Proc, NEW S, NEW code \in {"zero", "nonzero"}
  PROVE  /\ Spawn(p) \/ StartJob(p) \/ JobEnds(p, code) \/ Dies(p) \/ Close(p)
              => ExecutorTypeOK'
         /\ Killed(S) \in [Proc -> BOOLEAN]
<1>1. Spawn(p) \/ StartJob(p) \/ Close(p) => ExecutorTypeOK'
  BY DEF Spawn, StartJob, Close, ExecutorTypeOK
<1>2. JobEnds(p, code) => ExecutorTypeOK'
  BY DEF JobEnds, ExecutorTypeOK
<1>3. Dies(p) => ExecutorTypeOK'
  BY DEF Dies, ExecutorTypeOK
<1>4. Killed(S) \in [Proc -> BOOLEAN]
  BY DEF Killed, ExecutorTypeOK
<1> QED
  BY <1>1, <1>2, <1>3, <1>4

(* A stop changes no types.                                                *)
LEMMA StopType ==
  ASSUME RuntimesTypeOK, NEW K \in SUBSET Key, Stop(K)
  PROVE  ExecutorTypeOK' /\ instances' \in [Key -> Proc \cup {None}]
<1>1. killed' \in [Proc -> BOOLEAN]
  BY DEF Stop, Killed, RuntimesTypeOK, ExecutorTypeOK
<1> QED
  BY <1>1 DEF Stop, RuntimesTypeOK, ExecutorTypeOK

-----------------------------------------------------------------------------
(* A request                                                               *)

(* A request that goes to a boot is typed.                                 *)
LEMMA GoesType ==
  ASSUME RuntimesTypeOK, NEW r \in Request, NEW p \in Proc, Goes(r, p)
  PROVE  req' \in [Request -> Requests]
  BY DEF RuntimesTypeOK, Goes, Requests

(* acquire finds a live instance, ready or not ...                         *)
LEMMA AcquireListedStep ==
  ASSUME BootInv, NEW r \in Request, NEW k \in Key, AcquireListed(r, k)
  PROVE  BootInv'
<1>t. RuntimesTypeOK /\ Index /\ Booted /\ Listing /\ NeverListsClosed /\ Waiters
  BY DEF BootInv
<1>p. instances[k] \in Proc
  BY <1>t DEF AcquireListed, Alive, RuntimesTypeOK
<1>1. RuntimesTypeOK'
  BY <1>t, <1>p, GoesType
     DEF AcquireListed, execVars, RuntimesTypeOK, ExecutorTypeOK, Requests
<1>2. Index' /\ Booted' /\ Listing' /\ NeverListsClosed'
  BY <1>t DEF AcquireListed, execVars, Index, Booted, Listing, NeverListsClosed
<1>3. phase[instances[k]] \in {"wait", "up"}
  BY <1>t, <1>p DEF Listing
<1>4. Waiters'
  BY <1>t, <1>p, <1>3 DEF AcquireListed, Goes, Waiters, Pending, RuntimesTypeOK
<1> QED
  BY <1>1, <1>2, <1>4 DEF BootInv

(* ... or a pending boot ...                                               *)
LEMMA AcquirePendingStep ==
  ASSUME BootInv, NEW r \in Request, NEW k \in Key, AcquirePending(r, k)
  PROVE  BootInv'
<1>t. RuntimesTypeOK /\ Index /\ Booted /\ Listing /\ NeverListsClosed /\ Waiters
  BY DEF BootInv
<1>p. starting[k] \in Proc
  BY <1>t DEF AcquirePending, RuntimesTypeOK
<1>1. RuntimesTypeOK'
  BY <1>t, <1>p, GoesType
     DEF AcquirePending, execVars, RuntimesTypeOK, ExecutorTypeOK, Requests
<1>2. Index' /\ Booted' /\ Listing' /\ NeverListsClosed'
  BY <1>t, NoneTypes
     DEF AcquirePending, execVars, Index, Booted, Listing, NeverListsClosed, RuntimesTypeOK
<1>3. phase[starting[k]] \in Pending
  BY <1>t, <1>p DEF Index
<1>4. Waiters'
  BY <1>t, <1>p, <1>3 DEF AcquirePending, Goes, Waiters, RuntimesTypeOK
<1> QED
  BY <1>1, <1>2, <1>4 DEF BootInv

(* ... or boots: that no boot of the key is pending comes from Index.      *)
LEMMA AcquireBootsStep ==
  ASSUME BootInv, NEW r \in Request, NEW k \in Key, AcquireBoots(r, k)
  PROVE  BootInv'
<1>t. RuntimesTypeOK /\ Index /\ Booted /\ Listing /\ NeverListsClosed /\ Waiters
  BY DEF BootInv
<1> DEFINE Avoid == {port[q] : q \in Listed \ {instances[k]}}
<1>a. Avoid \subseteq Port
  BY <1>t DEF Listed, Listing, Booted, RuntimesTypeOK
<1>p. PICK p \in Proc :
        /\ phase[p] = "none"
        /\ keyOf' = [keyOf EXCEPT ![p] = k]
        /\ \/ /\ phase' = [phase EXCEPT ![p] = "failed"]
              /\ req' = [req EXCEPT ![r] = Settle("failed", p)]
              /\ UNCHANGED <<starting, port, taken, tries>>
           \/ /\ \E x \in Port \ Avoid : port' = [port EXCEPT ![p] = x]
              /\ phase' = [phase EXCEPT ![p] = "port"]
              /\ taken' = [taken EXCEPT ![p] = Avoid]
              /\ tries' = [tries EXCEPT ![p] = 1]
              /\ starting' = [starting EXCEPT ![k] = p]
              /\ req' = [req EXCEPT ![r] = [state |-> "waiting", proc |-> p]]
  BY DEF AcquireBoots
<1>u. /\ instances' = [instances EXCEPT ![k] = None] /\ starting[k] = None
      /\ UNCHANGED <<execVars, idle, script, loaded, bound, stopping, exited>>
  BY DEF AcquireBoots, NothingFor
<1> HIDE DEF Avoid
<1>1. RuntimesTypeOK'
  <2>1. req' \in [Request -> Requests]
    BY <1>t, <1>p, SettleType DEF Requests, RuntimesTypeOK
  <2>2. taken' \in [Proc -> SUBSET Port]
    BY <1>t, <1>p, <1>a DEF RuntimesTypeOK
  <2>3. tries' \in [Proc -> 0..MaxTries]
    BY <1>t, <1>p, RuntimesAssumption DEF RuntimesTypeOK
  <2>4. phase' \in [Proc -> {"none", "port", "wait", "up", "failed"}]
    BY <1>t, <1>p DEF RuntimesTypeOK
  <2>5. keyOf' \in [Proc -> Key \cup {None}]
    BY <1>t, <1>p DEF RuntimesTypeOK
  <2>6. port' \in [Proc -> Port \cup {0}]
    BY <1>t, <1>p DEF RuntimesTypeOK
  <2>7. starting' \in [Key -> Proc \cup {None}]
    BY <1>t, <1>p DEF RuntimesTypeOK
  <2> QED
    BY <1>t, <1>u, <2>1, <2>2, <2>3, <2>4, <2>5, <2>6, <2>7
       DEF Requests, execVars, RuntimesTypeOK, ExecutorTypeOK
<1>n. keyOf[p] = None /\ \A j \in Key : instances[j] # p /\ starting[j] # p
  BY <1>t, <1>p, NoneTypes DEF Booted, Listing, Index
<1>2. Index'
  BY <1>t, <1>p, <1>u, <1>n, NoneTypes DEF Index, Pending, RuntimesTypeOK
<1>3. Booted'
  BY <1>t, <1>p, <1>u, NoneTypes DEF Booted, execVars, RuntimesTypeOK
<1>4. Listing' /\ NeverListsClosed'
  BY <1>t, <1>p, <1>u, <1>n, NoneTypes
     DEF Listing, NeverListsClosed, execVars, RuntimesTypeOK
<1>5. Waiters'
  <2>1. \A s \in Request : req'[s].state = "waiting" =>
          \/ req'[s] = req[s] /\ req[s].proc # p
          \/ req'[s].proc = p /\ phase'[p] = "port"
    <3>1. \A s \in Request : req[s].state = "waiting" => req[s].proc # p
      BY <1>t, <1>p DEF Waiters, Pending
    <3>2. Settle("failed", p).state = "failed"
      BY DEF Settle
    <3> QED
      BY <1>t, <1>p, <3>1, <3>2 DEF RuntimesTypeOK
  <2>2. \A q \in Proc : q # p => phase'[q] = phase[q]
    BY <1>t, <1>p DEF RuntimesTypeOK
  <2> QED
    BY <1>t, <1>p, <2>1, <2>2 DEF Waiters, Pending
<1> QED
  BY <1>1, <1>2, <1>3, <1>4, <1>5 DEF BootInv

(* The answer of the upstream ends a request.                              *)
LEMMA UpstreamStep ==
  ASSUME BootInv, NEW r \in Request, Upstream(r)
  PROVE  BootInv'
<1>t. RuntimesTypeOK /\ Index /\ Booted /\ Listing /\ NeverListsClosed /\ Waiters
  BY DEF BootInv
<1>1. req' \in [Request -> Requests] /\ Waiters'
  <2>1. Settle(UpstreamAnswer(r), req[r].proc) = [state |-> UpstreamAnswer(r), proc |-> None]
    BY DEF Settle, UpstreamAnswer
  <2>2. req' = [req EXCEPT ![r] = [state |-> UpstreamAnswer(r), proc |-> None]]
    BY <2>1 DEF Upstream
  <2>3. UpstreamAnswer(r) \in {"failed", "ok"} /\ UNCHANGED phase
    BY DEF UpstreamAnswer, Upstream
  <2> QED
    BY <1>t, <2>2, <2>3 DEF Requests, Waiters, RuntimesTypeOK
<1>2. RuntimesTypeOK' /\ Index' /\ Booted' /\ Listing' /\ NeverListsClosed'
  BY <1>t, <1>1 DEF Upstream, execVars, RuntimesTypeOK, ExecutorTypeOK, Requests, Index,
                    Booted, Listing, NeverListsClosed
<1> QED
  BY <1>1, <1>2 DEF BootInv

-----------------------------------------------------------------------------
(* A boot                                                                  *)

(* The shell is spawned and listed.                                        *)
LEMMA PortFreeStep ==
  ASSUME BootInv, NEW p \in Proc, PortFree(p)
  PROVE  BootInv'
<1>t. RuntimesTypeOK /\ Index /\ Booted /\ Listing /\ NeverListsClosed /\ Waiters
  BY DEF BootInv
<1>k. keyOf[p] \in Key /\ phase[p] = "port"
  BY <1>t DEF PortFree, Booted, RuntimesTypeOK
<1>1. RuntimesTypeOK'
  <2>1. ExecutorTypeOK'
    BY <1>t, ExecutorTypes DEF PortFree, RuntimesTypeOK
  <2> QED
    BY <1>t, <1>k, <2>1 DEF PortFree, RuntimesTypeOK
<1>2. Index' /\ Booted'
  BY <1>t, <1>k, NoneTypes DEF PortFree, Spawn, Index, Booted, Pending, RuntimesTypeOK,
                               ExecutorTypeOK
<1>3. Listing'
  BY <1>t, <1>k DEF PortFree, Listing, RuntimesTypeOK
<1>4. NeverListsClosed'
  BY <1>t, <1>k DEF PortFree, Spawn, NeverListsClosed, RuntimesTypeOK, ExecutorTypeOK
<1>5. Waiters'
  BY <1>t, <1>k DEF PortFree, Waiters, Pending, RuntimesTypeOK
<1> QED
  BY <1>1, <1>2, <1>3, <1>4, <1>5 DEF BootInv

(* Another port is tried.                                                  *)
LEMMA PortBusyStep ==
  ASSUME BootInv, NEW p \in Proc, PortBusy(p)
  PROVE  BootInv'
<1>t. RuntimesTypeOK /\ Index /\ Booted /\ Listing /\ NeverListsClosed /\ Waiters
  BY DEF BootInv
<1>1. port' \in [Proc -> Port \cup {0}] /\ tries' \in [Proc -> 0..MaxTries]
  BY <1>t, RuntimesAssumption DEF PortBusy, TriesLeft, RuntimesTypeOK
<1>2. RuntimesTypeOK'
  BY <1>t, <1>1 DEF PortBusy, execVars, RuntimesTypeOK, ExecutorTypeOK
<1>3. Index' /\ Booted' /\ Listing' /\ NeverListsClosed' /\ Waiters'
  BY <1>t DEF PortBusy, execVars, Index, Booted, Listing, NeverListsClosed, Waiters,
              RuntimesTypeOK
<1> QED
  BY <1>2, <1>3 DEF BootInv

(* When a boot is over it is pending no longer, and nobody waits for it.   *)
LEMMA OverStep ==
  ASSUME BootInv, NEW p \in Proc, NEW to \in {"up", "failed"}, NEW state \in {"sent", "failed"},
         phase[p] \in Pending, phase' = [phase EXCEPT ![p] = to],
         starting' = NotStarting(p), Settled(p, state), UNCHANGED shell,
         UNCHANGED <<keyOf, port, taken, tries, idle, script, loaded, bound, stopping, exited>>
  PROVE  /\ ExecutorTypeOK' /\ instances' \in [Key -> Proc \cup {None}] => RuntimesTypeOK'
         /\ Index' /\ Booted' /\ Waiters'
<1>t. RuntimesTypeOK /\ Index /\ Booted /\ Listing /\ NeverListsClosed /\ Waiters
  BY DEF BootInv
<1>1. req' \in [Request -> Requests]
  BY <1>t, SettledType
<1>2. starting' \in [Key -> Proc \cup {None}]
  BY <1>t DEF NotStarting, RuntimesTypeOK
<1>3. ExecutorTypeOK' /\ instances' \in [Key -> Proc \cup {None}] => RuntimesTypeOK'
  BY <1>t, <1>1, <1>2 DEF Requests, RuntimesTypeOK
<1>4. Index'
  BY <1>t, NoneTypes DEF Index, NotStarting, Pending, RuntimesTypeOK
<1>5. Booted'
  BY <1>t DEF Booted, Pending, RuntimesTypeOK
<1>6. Waiters'
  BY <1>t, SettledType DEF Waiters, RuntimesTypeOK
<1> QED
  BY <1>3, <1>4, <1>5, <1>6

(* The ways a boot can be over: it throws, ...                             *)
LEMMA BootThrowsStep ==
  ASSUME BootInv, NEW p \in Proc, BootThrows(p)
  PROVE  BootInv'
<1>t. RuntimesTypeOK /\ Listing /\ NeverListsClosed
  BY DEF BootInv
<1>1. RuntimesTypeOK' /\ Index' /\ Booted' /\ Waiters'
  BY <1>t, OverStep DEF BootThrows, Pending, execVars, RuntimesTypeOK, ExecutorTypeOK
<1>2. Listing' /\ NeverListsClosed'
  BY <1>t DEF BootThrows, execVars, Listing, NeverListsClosed, RuntimesTypeOK
<1> QED
  BY <1>1, <1>2 DEF BootInv

(* ... the port answers, ...                                               *)
LEMMA PortAnswersStep ==
  ASSUME BootInv, NEW p \in Proc, PortAnswers(p)
  PROVE  BootInv'
<1>t. RuntimesTypeOK /\ Listing /\ NeverListsClosed
  BY DEF BootInv
<1>1. RuntimesTypeOK' /\ Index' /\ Booted' /\ Waiters'
  BY <1>t, OverStep DEF PortAnswers, Pending, execVars, RuntimesTypeOK, ExecutorTypeOK
<1>2. Listing' /\ NeverListsClosed'
  BY <1>t DEF PortAnswers, execVars, Listing, NeverListsClosed, RuntimesTypeOK
<1> QED
  BY <1>1, <1>2 DEF BootInv

(* What a stop leaves listed was listed before.                            *)
LEMMA StopLists ==
  ASSUME RuntimesTypeOK, NEW K \in SUBSET Key, Stop(K), NEW k \in Key
  PROVE  /\ instances'[k] = None \/ (instances'[k] = instances[k] /\ k \notin K)
         /\ UNCHANGED shell
  BY DEF Stop, RuntimesTypeOK

(* ... or it never does, and the key is stopped.                           *)
LEMMA BootTimeoutStep ==
  ASSUME BootInv, NEW p \in Proc, BootTimeout(p)
  PROVE  BootInv'
<1>t. RuntimesTypeOK /\ Booted /\ Listing /\ NeverListsClosed
  BY DEF BootInv
<1>k. keyOf[p] \in Key
  BY <1>t DEF BootTimeout, Booted, RuntimesTypeOK
<1>s. Stop({keyOf[p]}) /\ {keyOf[p]} \in SUBSET Key
  BY <1>k DEF BootTimeout
<1>1. RuntimesTypeOK' /\ Index' /\ Booted' /\ Waiters'
  BY <1>t, <1>s, OverStep, StopType DEF BootTimeout, Stop, Pending
<1>2. Listing'
  BY <1>t, <1>s, StopLists, NoneTypes DEF BootTimeout, Listing, RuntimesTypeOK
<1>3. NeverListsClosed'
  BY <1>t, <1>s, StopLists DEF NeverListsClosed
<1> QED
  BY <1>1, <1>2, <1>3 DEF BootInv

-----------------------------------------------------------------------------
(* A process, and time                                                     *)

(* A step that moves no boot and no request, lists nothing new and closes  *)
(* nothing that stays listed.                                              *)
LEMMA ProcessStep ==
  ASSUME BootInv, RuntimesTypeOK',
         UNCHANGED <<starting, phase, keyOf, port, req>>,
         \A q \in Proc : shell[q] = "none" => shell'[q] = "none",
         \A k \in Key : \/ instances'[k] = None
                        \/ /\ instances'[k] = instances[k]
                           /\ shell'[instances[k]] = "closed" => shell[instances[k]] = "closed"
  PROVE  BootInv'
<1>t. RuntimesTypeOK /\ Index /\ Booted /\ Listing /\ NeverListsClosed /\ Waiters
  BY DEF BootInv
<1>1. Index' /\ Booted' /\ Waiters'
  BY <1>t DEF Index, Booted, Waiters
<1>2. Listing'
  BY <1>t, NoneTypes DEF Listing
<1>3. NeverListsClosed'
  BY <1>t DEF NeverListsClosed
<1> QED
  BY <1>1, <1>2, <1>3 DEF BootInv

(* A process starts, listens, crashes or dies of a signal; time passes.    *)
LEMMA RuntimeProcess ==
  ASSUME BootInv, NEW p \in Proc,
         ReadScript(p) \/ Listen(p) \/ Crash(p) \/ Signalled(p) \/ GrowIdle(p)
  PROVE  BootInv'
<1>t. RuntimesTypeOK
  BY DEF BootInv
<1>b. Booted
  BY DEF BootInv
<1>1. CASE ReadScript(p)
  <2>1. ExecutorTypeOK'
    BY <1>1, <1>t, ExecutorTypes DEF ReadScript, RuntimesTypeOK
  <2>2. loaded' \in [Proc -> Proc \cup {None}]
    <3>1. keyOf[p] \in Key
      BY <1>1, <1>t, <1>b DEF ReadScript, StartJob, Booted, RuntimesTypeOK
    <3>2. ScriptOf[keyOf[p]] \in File
      BY <3>1 DEF File
    <3> QED
      BY <1>1, <1>t, <3>2 DEF ReadScript, RuntimesTypeOK
  <2>3. RuntimesTypeOK'
    BY <1>1, <1>t, <2>1, <2>2 DEF ReadScript, RuntimesTypeOK
  <2> QED
    BY <1>1, <1>t, <2>3, ProcessStep
       DEF ReadScript, StartJob, RuntimesTypeOK, ExecutorTypeOK
<1>2. CASE Listen(p)
  <2>1. RuntimesTypeOK'
    BY <1>2, <1>t DEF Listen, execVars, RuntimesTypeOK, ExecutorTypeOK
  <2> QED
    BY <1>2, <1>t, <2>1, ProcessStep DEF Listen, execVars
<1>3. CASE Crash(p)
  <2>1. ExecutorTypeOK'
    BY <1>3, <1>t, ExecutorTypes DEF Crash, RuntimesTypeOK
  <2>2. RuntimesTypeOK'
    BY <1>3, <1>t, <2>1 DEF Crash, Unbound, RuntimesTypeOK
  <2> QED
    BY <1>3, <1>t, <2>2, ProcessStep DEF Crash, JobEnds, RuntimesTypeOK, ExecutorTypeOK
<1>4. CASE Signalled(p)
  <2>1. ExecutorTypeOK'
    BY <1>4, <1>t, ExecutorTypes DEF Signalled, RuntimesTypeOK
  <2>2. RuntimesTypeOK'
    BY <1>4, <1>t, <2>1 DEF Signalled, Unbound, RuntimesTypeOK
  <2> QED
    BY <1>4, <1>t, <2>2, ProcessStep DEF Signalled, Dies, RuntimesTypeOK, ExecutorTypeOK
<1>5. CASE GrowIdle(p)
  <2>1. RuntimesTypeOK'
    BY <1>5, <1>t DEF GrowIdle, execVars, RuntimesTypeOK, ExecutorTypeOK
  <2> QED
    BY <1>5, <1>t, <2>1, ProcessStep DEF GrowIdle, execVars
<1> QED
  BY <1>1, <1>2, <1>3, <1>4, <1>5

(* A process that ends is listed no longer: its key lists nothing then,    *)
(* also if it listed a newer boot.                                         *)
LEMMA ExitedStep ==
  ASSUME BootInv, NEW p \in Proc, Exited(p)
  PROVE  BootInv'
<1>t. RuntimesTypeOK /\ Listing /\ NeverListsClosed
  BY DEF BootInv
<1>1. ExecutorTypeOK'
  BY <1>t, ExecutorTypes DEF Exited, RuntimesTypeOK
<1>2. RuntimesTypeOK'
  BY <1>t, <1>1 DEF Exited, Unlisted, RuntimesTypeOK
<1>3. ASSUME NEW k \in Key, instances'[k] # None
      PROVE  /\ instances'[k] = instances[k] /\ instances[k] # p
             /\ instances[k] \in Proc
  <2>1. keyOf[p] # k
    BY <1>3, <1>t DEF Exited, Unlisted, RuntimesTypeOK
  <2> QED
    BY <1>3, <2>1, <1>t DEF Exited, Unlisted, Listing, RuntimesTypeOK
<1> QED
  BY <1>t, <1>2, <1>3, ProcessStep DEF Exited, Close, RuntimesTypeOK, ExecutorTypeOK

(* Instances are stopped.                                                  *)
LEMMA StopStep ==
  ASSUME BootInv, ReapIdle \/ Shutdown
  PROVE  BootInv'
<1>t. RuntimesTypeOK
  BY DEF BootInv
<1>1. PICK K \in SUBSET Key : Stop(K)
  BY DEF ReapIdle, Shutdown
<1>2. RuntimesTypeOK'
  BY <1>t, <1>1, StopType DEF ReapIdle, Shutdown, RuntimesTypeOK
<1>3. \A k \in Key : instances'[k] = None \/ instances'[k] = instances[k]
  BY <1>t, <1>1, StopLists
<1> QED
  BY <1>1, <1>2, <1>3, ProcessStep DEF ReapIdle, Shutdown, Stop

(* The proxy exits.                                                        *)
LEMMA ExitStep ==
  ASSUME BootInv, ExitProcess
  PROVE  BootInv'
<1>1. RuntimesTypeOK'
  BY DEF BootInv, ExitProcess, execVars, RuntimesTypeOK, ExecutorTypeOK
<1> QED
  BY <1>1, ProcessStep DEF ExitProcess, execVars

-----------------------------------------------------------------------------
(* The theorems                                                            *)

(* In the first state nothing is booted or listed.                         *)
LEMMA InitBootInv == RuntimesInit => BootInv
<1> SUFFICES ASSUME RuntimesInit PROVE BootInv
  OBVIOUS
<1>1. ExecutorTypeOK
  BY DEF RuntimesInit, ExecutorInit, ExecutorTypeOK
<1>2. RuntimesTypeOK
  <2>1. Unsent \in Requests
    BY DEF Unsent, Requests
  <2>2. req \in [Request -> Requests]
    BY <2>1 DEF RuntimesInit
  <2>3. tries \in [Proc -> 0..MaxTries] /\ taken \in [Proc -> SUBSET Port]
    BY RuntimesAssumption DEF RuntimesInit
  <2> QED
    BY <1>1, <2>2, <2>3 DEF RuntimesInit, Requests, RuntimesTypeOK
<1>3. Index /\ Booted /\ Listing
  BY NoneTypes DEF RuntimesInit, ExecutorInit, Index, Booted, Listing, Pending
<1>4. NeverListsClosed /\ Waiters
  BY DEF RuntimesInit, Unsent, NeverListsClosed, Waiters
<1> QED
  BY <1>2, <1>3, <1>4 DEF BootInv

(* Every step keeps the invariant.                                         *)
LEMMA NextBootInv == BootInv /\ [RuntimesNext]_<<execVars, rtVars>> => BootInv'
<1> SUFFICES ASSUME BootInv, [RuntimesNext]_<<execVars, rtVars>> PROVE BootInv'
  OBVIOUS
<1>1. CASE UNCHANGED <<execVars, rtVars>>
  <2>1. RuntimesTypeOK'
    BY <1>1 DEF BootInv, RuntimesTypeOK, ExecutorTypeOK, execVars, rtVars
  <2> QED
    BY <1>1, <2>1, ProcessStep DEF execVars, rtVars
<1>2. ASSUME NEW r \in Request, NEW k \in Key, Acquire(r, k)
      PROVE  BootInv'
  BY <1>2, AcquireListedStep, AcquirePendingStep, AcquireBootsStep DEF Acquire
<1>3. ASSUME NEW r \in Request, Upstream(r)
      PROVE  BootInv'
  BY <1>3, UpstreamStep
<1>4. ASSUME NEW p \in Proc, Runtime(p)
      PROVE  BootInv'
  <2>1. CASE Boot(p)
    BY <2>1, PortFreeStep, PortBusyStep, BootThrowsStep DEF Boot
  <2>2. CASE Ready(p)
    BY <2>2, PortAnswersStep, BootTimeoutStep DEF Ready
  <2>3. CASE Watch(p)
    BY <2>3, ExitedStep, RuntimeProcess DEF Watch
  <2>4. CASE Process(p)
    BY <2>4, RuntimeProcess DEF Process
  <2> QED
    BY <1>4, <2>1, <2>2, <2>3, <2>4 DEF Runtime
<1>5. CASE ReapIdle \/ Shutdown
  BY <1>5, StopStep
<1>6. CASE ExitProcess
  BY <1>6, ExitStep
<1> QED
  BY <1>1, <1>2, <1>3, <1>4, <1>5, <1>6 DEF RuntimesNext, AtRest

(* The maps of the manager and its boots agree in every reachable state.   *)
THEOREM BootInvariance == RuntimesSpec => []BootInv
  BY InitBootInv, NextBootInv, PTL DEF RuntimesSpec

(* Every variable of the runtime manager keeps its type: among others,     *)
(* only ports of the range are tried and no more often than the limit.     *)
THEOREM RuntimesTypeCorrect == RuntimesSpec => []RuntimesTypeOK
<1>1. BootInv => RuntimesTypeOK
  BY DEF BootInv
<1> QED
  BY <1>1, BootInvariance, PTL

(* No key ever has two boots at a time, for any number of requests.        *)
THEOREM SingleBoot == RuntimesSpec => []OneBootPerKey
<1>1. BootInv => OneBootPerKey
  <2> SUFFICES ASSUME BootInv, NEW p \in Proc, NEW q \in Proc,
                      phase[p] \in Pending, phase[q] \in Pending, keyOf[p] = keyOf[q]
               PROVE  p = q
    BY DEF OneBootPerKey
  <2>1. keyOf[p] \in Key
    BY DEF BootInv, RuntimesTypeOK, Booted, Pending
  <2> QED
    BY <2>1 DEF BootInv, Index
<1> QED
  BY <1>1, BootInvariance, PTL

(* Whatever order crashes, kills, timeouts and exits come in, no process   *)
(* that is over stays listed. It is not said that one which runs is: the   *)
(* exit of an old process also unlists a newer one of its key.             *)
THEOREM ListedIsOpen == RuntimesSpec => []NeverListsClosed
<1>1. BootInv => NeverListsClosed
  BY DEF BootInv
<1> QED
  BY <1>1, BootInvariance, PTL

(* No request is left waiting for a boot that is over.                     *)
THEOREM NoForgottenWaiter == RuntimesSpec => []WaitersHaveABoot
<1>1. BootInv => WaitersHaveABoot
  BY DEF BootInv, Waiters, WaitersHaveABoot
<1> QED
  BY <1>1, BootInvariance, PTL
=============================================================================
