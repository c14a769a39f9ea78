-------------------------------- MODULE Tail --------------------------------
(***************************************************************************)
(* Tailing the access log: ProjectLogs.tsx and AllLogs.tsx, which ask for  *)
(* rows newer than the newest they show. The server answers a GET at once, *)
(* and the answer may take longer than the interval.                       *)
(***************************************************************************)
EXTENDS Integers, Sequences, FiniteSets

CONSTANTS MaxStored,      \* bound: rows of request_logs
          Limit,          \* rows of an answer (200)
          MaxShown,       \* MAX_ROWS
          MaxAsked         \* bound: answers under way

ASSUME TailAssumption == {MaxStored, Limit, MaxShown, MaxAsked} \subseteq Nat \ {0}

VARIABLES
  logged, failed,   \* the rows there are, the newest number; those with status >= 400
  tail,             \* the state of the page
  asked,            \* answers under way
  behind            \* history: an answer was overtaken, or a tick had no room for all rows

tailVars == <<logged, failed, tail, asked, behind>>

Filters == {"all", "error"}
NoRowsYet == [loaded |-> FALSE, rows |-> <<>>]

Matching(filter, since) ==
  {n \in 1..logged : n > since /\ (filter = "all" \/ n \in failed)}
NewestFirst(S) ==
  CHOOSE rows \in [1..Cardinality(S) -> S] : \A i, j \in DOMAIN rows : i < j => rows[i] > rows[j]
FirstOf(seq, k) == SubSeq(seq, 1, IF Len(seq) < k THEN Len(seq) ELSE k)

(* for_project and recent: the newest rows, newest first.                  *)
Page(filter, since) == FirstOf(NewestFirst(Matching(filter, since)), Limit)

Answering(kind, filter, since) ==
  [kind |-> kind, filter |-> filter, rows |-> Page(filter, since)]

TailInit ==
  /\ logged \in 0..MaxStored /\ failed \in SUBSET (1..logged)
  /\ tail = [page |-> NoRowsYet, highest |-> 0, live |-> TRUE, filter |-> "all"]
  /\ asked = {Answering("reload", "all", 0)} /\ behind = FALSE

(* Types of the state of a log page.                                       *)
TailTypeOK ==
  /\ logged \in 0..MaxStored /\ failed \subseteq 1..logged
  /\ tail.highest \in 0..logged /\ Len(tail.page.rows) <= MaxShown
  /\ Cardinality(asked) <= MaxAsked /\ behind \in BOOLEAN

-----------------------------------------------------------------------------
(* The proxy records a request.                                            *)
RecordRequest ==
  /\ logged < MaxStored /\ logged' = logged + 1
  /\ failed' \in {failed, failed \cup {logged + 1}}
  /\ UNCHANGED <<tail, asked, behind>>

(* What is under way with the new answer has been overtaken if another is. *)
Get(kind, filter, since) ==
  /\ Cardinality(asked) < MaxAsked
  /\ asked' = asked \cup {Answering(kind, filter, since)}
  /\ behind' = \/ behind
               \/ asked # {}
               \/ kind = "tick" /\ Cardinality(Matching(filter, since)) > Limit

ReloadLogs == Get("reload", tail.filter, 0) /\ UNCHANGED <<logged, failed, tail>>

(* A filter starts over: ticks under way are cancelled, reloads are not.   *)
SetFilter(filter) ==
  /\ filter # tail.filter
  /\ tail' = [tail EXCEPT !.filter = filter, !.page = NoRowsYet]
  /\ LET kept == {a \in asked : a.kind = "reload"}
     IN /\ asked' = kept \cup {Answering("reload", filter, 0)}
        /\ Cardinality(asked') <= MaxAsked
        /\ behind' = (behind \/ kept # {})
  /\ UNCHANGED <<logged, failed>>

ToggleLive ==
  /\ tail' = [tail EXCEPT !.live = ~@]
  /\ asked' = {a \in asked : a.kind = "reload"}
  /\ UNCHANGED <<logged, failed, behind>>

Tick ==
  /\ tail.live /\ Get("tick", tail.filter, tail.highest)
  /\ UNCHANGED <<logged, failed, tail>>

Newest(rows) == IF rows = <<>> THEN 0 ELSE rows[1]
ShowReload(a) ==
  /\ a.kind = "reload" /\ asked' = asked \ {a}
  /\ tail' = [tail EXCEPT !.page = [loaded |-> TRUE, rows |-> FirstOf(a.rows, MaxShown)],
                          !.highest = Newest(a.rows)]
  /\ UNCHANGED <<logged, failed, behind>>

HighestKept(a) == tail.highest             \* a mutant: the newest row is not noted
HighestOf(a) == IF Newest(a.rows) > tail.highest THEN Newest(a.rows) ELSE tail.highest
ShowTick(a) ==
  /\ a.kind = "tick" /\ asked' = asked \ {a}
  /\ tail' = IF a.rows = <<>> THEN tail
             ELSE [tail EXCEPT
                     !.page = [loaded |-> TRUE, rows |-> FirstOf(a.rows \o @.rows, MaxShown)],
                     !.highest = HighestOf(a)]
  /\ UNCHANGED <<logged, failed, behind>>

(* After a failed reload the next tick asks for rows newer than those the  *)
(* page showed with the filter before.                                     *)
GetFails(a) ==
  /\ asked' = asked \ {a} /\ UNCHANGED <<logged, failed, tail>>
  /\ behind' = (behind \/ (a.kind = "reload" /\ ~tail.page.loaded /\ tail.highest > 0))

TailNext ==
  \/ RecordRequest \/ ReloadLogs \/ ToggleLive \/ Tick
  \/ \E filter \in Filters : SetFilter(filter)
  \/ \E a \in asked : ShowReload(a) \/ ShowTick(a) \/ GetFails(a)

-----------------------------------------------------------------------------
(* As long as no answer is overtaken, no more requests come in between two *)
(* ticks than an answer holds and the reload for a new filter succeeds,    *)
(* the page shows the newest matching rows up to the newest it has, with   *)
(* no gap, each once and in order, and as many of them as it may, whatever *)
(* filters, pauses and failed ticks do (ProjectLogs.tsx:46-95).            *)
TailIsExact ==
  ~behind /\ tail.page.loaded =>
    LET rows == tail.page.rows
        matching == {n \in Matching(tail.filter, 0) : n <= tail.highest}
    IN /\ rows = FirstOf(NewestFirst(matching), Len(rows))
       /\ \/ Len(rows) \in {Cardinality(matching), MaxShown}
          \/ Len(rows) >= Limit
=============================================================================
