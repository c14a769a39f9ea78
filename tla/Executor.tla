------------------------------ MODULE Executor ------------------------------
(***************************************************************************)
(* run and kill of apps/builder/src/executor.ts. run writes a script,      *)
(* spawns a shell on it and settles when the shell has exited and its      *)
(* output is closed, which is when nothing it started is left. kill        *)
(* signals the shell; whether that reaches what the shell started depends  *)
(* on the platform: taskkill /t does, SIGTERM does not.                    *)
(***************************************************************************)
EXTENDS Naturals

CONSTANTS Proc,       \* one element for each call of run, in the order of the calls
          KillsTree   \* kill reaches what the shell started (win32)

ASSUME ExecutorAssumption == Proc \subseteq Nat /\ KillsTree \in BOOLEAN

VARIABLES shell,      \* the child of spawn
          job,        \* the command the shell started
          exitCode,   \* child.exitCode: stays "null" if a signal ended the shell
          killed      \* child.killed, or taskkill started

execVars == <<shell, job, exitCode, killed>>

ExecutorInit ==
  /\ shell = [p \in Proc |-> "none"]
  /\ job = [p \in Proc |-> "none"]
  /\ exitCode = [p \in Proc |-> "null"]
  /\ killed = [p \in Proc |-> FALSE]

(* Types of the state of shells and their jobs.                            *)
ExecutorTypeOK ==
  /\ shell \in [Proc -> {"none", "spawned", "running", "exited", "closed"}]
  /\ job \in [Proc -> {"none", "up", "gone"}]
  /\ exitCode \in [Proc -> {"null", "zero", "nonzero"}]
  /\ killed \in [Proc -> BOOLEAN]

(* run has written its script and spawned the shell.                       *)
Spawn(p) ==
  /\ shell[p] = "none"
  /\ shell' = [shell EXCEPT ![p] = "spawned"]
  /\ UNCHANGED <<job, exitCode, killed>>

(* The shell opens the script and starts the command.                      *)
StartJob(p) ==
  /\ shell[p] = "spawned"
  /\ shell' = [shell EXCEPT ![p] = "running"]
  /\ job' = [job EXCEPT ![p] = "up"]
  /\ UNCHANGED <<exitCode, killed>>

(* The command ends. The shell, if it is still there, ends with its code.  *)
JobEnds(p, code) ==
  /\ job[p] = "up"
  /\ job' = [job EXCEPT ![p] = "gone"]
  /\ IF shell[p] = "running"
     THEN /\ shell' = [shell EXCEPT ![p] = "exited"]
          /\ exitCode' = [exitCode EXCEPT ![p] = code]
     ELSE UNCHANGED <<shell, exitCode>>
  /\ UNCHANGED killed

(* kill does nothing for a child that was killed or has an exit code.      *)
Killed(S) == [p \in Proc |-> killed[p] \/ (p \in S /\ exitCode[p] = "null")]

(* The signal ends the shell, and with KillsTree the command.              *)
Dies(p) ==
  /\ killed[p] /\ shell[p] \in {"spawned", "running"}
  /\ shell' = [shell EXCEPT ![p] = "exited"]
  /\ IF KillsTree
     THEN /\ exitCode' = [exitCode EXCEPT ![p] = "nonzero"]
          /\ job' = [job EXCEPT ![p] = IF @ = "up" THEN "gone" ELSE @]
     ELSE UNCHANGED <<exitCode, job>>
  /\ UNCHANGED killed

(* child emits "close": the promise of run settles.                        *)
Close(p) ==
  /\ shell[p] = "exited" /\ job[p] # "up"
  /\ shell' = [shell EXCEPT ![p] = "closed"]
  /\ UNCHANGED <<job, exitCode, killed>>
=============================================================================
