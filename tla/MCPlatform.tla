----------------------------- MODULE MCPlatform -----------------------------
(***************************************************************************)
(* Small instances of Platform: one project, or two projects that take     *)
(* turns, so that the third deployment has to wait for the first.          *)
(***************************************************************************)
EXTENDS Platform

CONSTANTS p1, p2

OneProject == [d \in 1..MaxDeployments |-> p1]
TwoProjects == [d \in 1..MaxDeployments |-> IF d = 2 THEN p2 ELSE p1]
=============================================================================
