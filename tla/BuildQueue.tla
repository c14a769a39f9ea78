----------------------------- MODULE BuildQueue -----------------------------
(***************************************************************************)
(* What the worker promises about builds: whatever is queued, cancelled,   *)
(* deleted or restarted, no two builds of a project run at the same time,  *)
(* and no more than Concurrency builds run in all.                         *)
(***************************************************************************)
EXTENDS Integers, FiniteSets

CONSTANTS
  Build,         \* everything that may be built
  ProjectOf,     \* the project of each build
  Concurrency

VARIABLE building  \* the builds under way

Init == building = {}

Start(b) ==
  /\ \A c \in building : ProjectOf[c] # ProjectOf[b]
  /\ Cardinality(building) < Concurrency
  /\ building' = building \cup {b}

End(b) ==
  /\ b \in building
  /\ building' = building \ {b}

(* A restart of the worker forgets them all.                               *)
Forget == building' = {}

Next ==
  \/ \E b \in Build : Start(b) \/ End(b)
  \/ Forget

Spec == Init /\ [][Next]_building
=============================================================================
