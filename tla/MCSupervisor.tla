---------------------------- MODULE MCSupervisor ----------------------------
(***************************************************************************)
(* The three services whose restarts and starts meet, and two edits: one   *)
(* lands in the cycle of the other.                                        *)
(***************************************************************************)
EXTENDS Supervisor
MCService == {"api", "worker", "proxy"}
=============================================================================
