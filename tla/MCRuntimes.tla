----------------------------- MODULE MCRuntimes -----------------------------
(***************************************************************************)
(* Small instances of Runtimes: two functions of one deployment.           *)
(***************************************************************************)
EXTENDS Runtimes

OneScript == [k \in Key |-> "d1"]
=============================================================================
