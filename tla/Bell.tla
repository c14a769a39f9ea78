-------------------------------- MODULE Bell --------------------------------
(***************************************************************************)
(* The bell of the top bar, NotificationBell.tsx, as a client of           *)
(* rust-api/src/routes/notifications.rs: it polls, marks as read before    *)
(* the server has, and answers offers to take over a project.              *)
(***************************************************************************)
EXTENDS Naturals, FiniteSets

CONSTANTS Note, NoNote,
          Offers,         \* the notifications of type transfer_requested
          MaxPolls, MaxCalls,    \* bounds: answers under way, calls under way
          MaxFailures     \* bound: calls and polls that fail

ASSUME BellAssumption ==
  /\ IsFiniteSet(Note) /\ NoNote \notin Note /\ Offers \subseteq Note
  /\ {MaxPolls, MaxCalls, MaxFailures} \subseteq Nat

VARIABLES
  inbox,      \* notifications and project_transfers of the user
  bell,       \* the state of the component
  polls,      \* what the server answered to GETs and the bell does not have yet
  calls,      \* the calls that were sent, and those that were answered
  failures

bellVars == <<inbox, bell, polls, calls, failures>>

(* What the list shows, as the server has it or as the bell does.          *)
Empty == [listed |-> {}, unread |-> {}, pending |-> {}]

BellInit ==
  /\ inbox = Empty /\ polls = {} /\ calls = {} /\ failures = 0
  /\ bell = [list |-> Empty, count |-> 0, open |-> FALSE, busy |-> NoNote]

(* Types of the state of the bell.                                         *)
BellTypeOK ==
  /\ inbox \in [listed : SUBSET Note, unread : SUBSET Note, pending : SUBSET Offers]
  /\ bell.list \in [listed : SUBSET Note, unread : SUBSET Note, pending : SUBSET Offers]
  /\ bell.count \in 0..Cardinality(Note) /\ bell.busy \in Note \cup {NoNote}
  /\ Cardinality(polls) <= MaxPolls /\ Cardinality(calls) <= MaxCalls

-----------------------------------------------------------------------------
(* The server                                                              *)

Notify(n) ==
  /\ n \notin inbox.listed
  /\ inbox' = [listed |-> inbox.listed \cup {n}, unread |-> inbox.unread \cup {n},
               pending |-> inbox.pending \cup ({n} \cap Offers)]
  /\ UNCHANGED <<bell, polls, calls, failures>>

ReadIn(list, S) == [list EXCEPT !.unread = @ \ S]
ResolvedIn(list, n) == [list EXCEPT !.unread = @ \ {n}, !.pending = @ \ {n}]

(* The offer is taken back by the one who made it.                         *)
Withdraw(n) ==
  /\ n \in inbox.pending /\ inbox' = ResolvedIn(inbox, n)
  /\ UNCHANGED <<bell, polls, calls, failures>>

Call(kind, n) ==
  /\ Cardinality(calls) < MaxCalls
  /\ calls' = calls \cup {[kind |-> kind, note |-> n, phase |-> "sent"]}

(* read_one, read_all, accept_transfer and decline_transfer, which ask for *)
(* a pending offer.                                                        *)
ServeBell(c) ==
  /\ c.phase = "sent"
  /\ CASE c.kind = "read" ->
            inbox' = ReadIn(inbox, {c.note}) /\ calls' = calls \ {c}
       [] c.kind = "read-all" ->
            inbox' = ReadIn(inbox, Note) /\ calls' = calls \ {c}
       [] c.kind = "respond" ->
            /\ inbox' = ResolvedIn(inbox, c.note)
            /\ calls' = (calls \ {c})
                 \cup {[c EXCEPT !.phase = IF c.note \in inbox.pending THEN "ok" ELSE "refused"]}
  /\ UNCHANGED <<bell, polls, failures>>

(* A call fails before the server has it, or a GET fails.                  *)
Fails(c) ==
  /\ c.phase = "sent" /\ failures < MaxFailures /\ failures' = failures + 1
  /\ calls' = (calls \ {c})
       \cup (IF c.kind = "respond" THEN {[c EXCEPT !.phase = "refused"]} ELSE {})
  /\ UNCHANGED <<inbox, bell, polls>>
LoadFails(s) ==
  /\ failures < MaxFailures /\ failures' = failures + 1
  /\ polls' = polls \ {s} /\ UNCHANGED <<inbox, bell, calls>>

-----------------------------------------------------------------------------
(* The bell. The server answers a GET at once; the answer may take longer  *)
(* than the interval, and be overtaken.                                    *)

AskBell == polls' = polls \cup {inbox} /\ Cardinality(polls') <= MaxPolls

RowsOnly(s) == [bell EXCEPT !.list = s]           \* a mutant: the badge is not set
Loaded(s) == [bell EXCEPT !.list = s, !.count = Cardinality(s.unread)]

Poll == AskBell /\ UNCHANGED <<inbox, bell, calls, failures>>
ShowLoaded(s) ==
  bell' = Loaded(s) /\ polls' = polls \ {s} /\ UNCHANGED <<inbox, calls, failures>>

OpenPanel ==
  /\ ~bell.open /\ bell' = [bell EXCEPT !.open = TRUE] /\ AskBell
  /\ UNCHANGED <<inbox, calls, failures>>
ClosePanel ==
  /\ bell.open /\ bell' = [bell EXCEPT !.open = FALSE]
  /\ UNCHANGED <<inbox, polls, calls, failures>>

OneLess(count) == IF count = 0 THEN 0 ELSE count - 1
MarkedLocally(n) ==
  [bell EXCEPT !.list = ReadIn(@, {n}), !.count = OneLess(@)]

(* A click on a notification marks it, and may lead to its project.        *)
OpenNotification(n) ==
  /\ bell.open /\ n \in bell.list.listed /\ n \notin bell.list.pending
  /\ \E leads \in BOOLEAN :
       IF n \in bell.list.unread
       THEN bell' = [MarkedLocally(n) EXCEPT !.open = ~leads] /\ Call("read", n)
       ELSE bell' = [bell EXCEPT !.open = ~leads] /\ UNCHANGED calls
  /\ UNCHANGED <<inbox, polls, failures>>

MarkAllRead ==
  /\ bell.open /\ bell.count > 0
  /\ bell' = [bell EXCEPT !.list = ReadIn(@, Note), !.count = 0] /\ Call("read-all", NoNote)
  /\ UNCHANGED <<inbox, polls, failures>>

(* Accept and Decline are shown for what the bell thinks is pending.       *)
RespondToTransfer(n) ==
  /\ bell.open /\ n \in bell.list.pending /\ bell.busy # n
  /\ bell' = [bell EXCEPT !.busy = n] /\ Call("respond", n)
  /\ UNCHANGED <<inbox, polls, failures>>
Responded(c) ==
  /\ c.phase \in {"ok", "refused"} /\ calls' = calls \ {c}
  /\ IF c.phase = "ok"
     THEN /\ bell' = [bell EXCEPT !.list = ResolvedIn(@, c.note), !.count = OneLess(@),
                                  !.busy = NoNote]
          /\ UNCHANGED polls
     ELSE bell' = [bell EXCEPT !.busy = NoNote] /\ AskBell
  /\ UNCHANGED <<inbox, failures>>

-----------------------------------------------------------------------------
BellNext ==
  \/ Poll \/ OpenPanel \/ ClosePanel \/ MarkAllRead
  \/ \E n \in Note : Notify(n) \/ Withdraw(n) \/ OpenNotification(n) \/ RespondToTransfer(n)
  \/ \E c \in calls : ServeBell(c) \/ Fails(c) \/ Responded(c)
  \/ \E s \in polls : ShowLoaded(s) \/ LoadFails(s)

(* Calls are answered.                                                     *)
CallsFair == \E c \in calls : ServeBell(c) \/ Responded(c)

-----------------------------------------------------------------------------
(* The badge and the offers to accept or decline settle on what the server *)
(* has, however stale polls, optimistic marks and refused answers overlap  *)
(* before that (NotificationBell.tsx:53-57, 81-88).                        *)
BadgeSettles ==
  <>[](bell.count = Cardinality(inbox.unread) /\ bell.list.pending = inbox.pending)
=============================================================================
