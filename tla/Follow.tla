------------------------------- MODULE Follow -------------------------------
(***************************************************************************)
(* Following a build: the page of a deployment, DeploymentPage.tsx, with   *)
(* its event source and its buttons, and the loop of avail deploy, both    *)
(* reading rows and build log lines that the worker writes meanwhile.      *)
(***************************************************************************)
EXTENDS Naturals, Sequences, FiniteSets, FiniteSetsExt

CONSTANTS Deployment, NoDeployment,
          Followed,       \* the deployment avail deploy made; bound: the one that is built
          Outcomes,       \* how a build ends that is not canceled
          MaxRows,        \* bound: log lines of a build
          MaxReplies,     \* bound: answers under way; further GETs fail
          MaxPresses      \* bound: buttons pressed

ASSUME FollowAssumption ==
  /\ Followed \in Deployment /\ NoDeployment \notin Deployment
  /\ Outcomes \subseteq {"READY", "ERROR", "SKIPPED"}
  /\ {MaxRows, MaxReplies, MaxPresses} \subseteq Nat \ {0}

VARIABLES
  dstate, next, holding, rows,   \* the worker: log_sink's counter, a line each reader
                                 \* has numbered and not yet appended, build_logs
  stopping, production,          \* cancelRequested; the current production deployment
  due,       \* history: rows appended in order before the build was over
  conn,      \* the event sources: last_seq, last_state, what is on the wire, and
             \* the lines a tick has got before it reads the state
  owed,      \* history: the lines that were due when the stream last read lines
  page,      \* the state of DeploymentPage
  replies,   \* answers to the page's GET of a deployment that are under way
  act,       \* the call of a button, and how far it is
  presses,
  follower   \* streamLogs, if the command runs, and the state its poll has got

workerVars == <<dstate, next, holding, rows, stopping, due>>
followVars == <<workerVars, production, conn, owed, page, replies, act, presses, follower>>

Reader == {"stdout", "stderr"}
Terminal == {"READY", "ERROR", "CANCELED", "SKIPPED"}
ActiveStates == {"QUEUED", "BUILDING"}
Source(open) == [open |-> open, last |-> 0, state |-> "none", wire |-> <<>>,
                 reading |-> FALSE, got |-> {}]
NoConn == Source(FALSE)
Nothing == [of |-> NoDeployment, state |-> "none", current |-> FALSE]
NoPage == [id |-> NoDeployment, shown |-> Nothing, logs |-> {}, done |-> NoDeployment]
NoAct == [kind |-> "none", of |-> NoDeployment, phase |-> "sent", mounted |-> FALSE]

FollowInit ==
  /\ dstate = [d \in Deployment |-> IF d = Followed THEN "QUEUED" ELSE "none"]
  /\ next = [d \in Deployment |-> 1] /\ rows = [d \in Deployment |-> {}]
  /\ holding = [d \in Deployment |-> [r \in Reader |-> 0]]
  /\ stopping = {} /\ production = NoDeployment /\ due = [d \in Deployment |-> {}]
  /\ conn = [d \in Deployment |-> NoConn] /\ owed = {} /\ page = NoPage
  /\ replies = {} /\ act = NoAct /\ presses = 0
  /\ \E step \in {"polling", "off"} :
       follower = [since |-> 0, printed |-> {}, step |-> step, state |-> "none"]

(* Types of the state of followers.                                        *)
FollowTypeOK ==
  /\ dstate \in [Deployment -> Terminal \cup ActiveStates \cup {"none", "gone"}]
  /\ \A d \in Deployment : rows[d] \subseteq 1..(MaxRows + 1) /\ due[d] \subseteq 1..(MaxRows + 1)
  /\ \A d \in Deployment : conn[d].open => page.id = d
  /\ page.logs \subseteq Deployment \X (1..(MaxRows + 1))
  /\ follower.step \in {"polling", "last", "done", "off"} /\ act.of \in Deployment \cup {NoDeployment}

-----------------------------------------------------------------------------
(* The worker writes                                                       *)

Append1(d, n) ==
  /\ rows' = [rows EXCEPT ![d] = @ \cup {n}]
  /\ due' = [due EXCEPT ![d] = IF dstate[d] \in Terminal \/ \E m \in rows[d] : m > n
                               THEN @ ELSE @ \cup {n}]
Rest == UNCHANGED <<production, conn, owed, page, replies, act, presses, follower>>

StartBuilding(d) ==
  /\ dstate[d] = "QUEUED" /\ dstate' = [dstate EXCEPT ![d] = "BUILDING"]
  /\ UNCHANGED <<next, holding, rows, stopping, due>> /\ Rest

(* log_sink: a number is taken, then the line is appended under the mutex. *)
TakeNumber(d, r) ==
  /\ dstate[d] = "BUILDING" /\ holding[d][r] = 0 /\ next[d] <= MaxRows
  /\ holding' = [holding EXCEPT ![d][r] = next[d]]
  /\ next' = [next EXCEPT ![d] = @ + 1]
  /\ UNCHANGED <<dstate, rows, stopping, due>> /\ Rest
AppendRow(d, r) ==
  /\ holding[d][r] # 0
  /\ IF dstate[d] = "gone" THEN UNCHANGED <<rows, due>> ELSE Append1(d, holding[d][r])
  /\ holding' = [holding EXCEPT ![d][r] = 0]
  /\ UNCHANGED <<dstate, next, stopping>> /\ Rest

(* The note on what became of a build, with the next number.               *)
PublishNote(d) ==
  /\ Max(rows[d] \cup {0}) <= MaxRows /\ \A r \in Reader : holding[d][r] = 0
  /\ dstate[d] \in {"BUILDING", "READY"}
  /\ Append1(d, Max(rows[d] \cup {0}) + 1)
  /\ next' = [next EXCEPT ![d] = MaxRows + 1]
  /\ UNCHANGED <<dstate, holding, stopping>> /\ Rest
Finish(d) ==
  /\ dstate[d] = "BUILDING" /\ \A r \in Reader : holding[d][r] = 0
  /\ \E s \in Outcomes \cup (IF d \in stopping THEN {"CANCELED"} ELSE {}) :
       dstate' = [dstate EXCEPT ![d] = s]
  /\ UNCHANGED <<next, holding, rows, stopping, due>> /\ Rest

Build(d) ==
  \/ StartBuilding(d) \/ PublishNote(d) \/ Finish(d)
  \/ \E r \in Reader : TakeNumber(d, r) \/ AppendRow(d, r)

-----------------------------------------------------------------------------
(* The event stream: deployment_events and the effect of the page          *)

RowOf(d) == [of |-> d, state |-> dstate[d], current |-> production = d]

FreshAfterGap(d, last) == {n \in rows[d] : n > last + 1}      \* a mutant: off by one
Fresh(d, last) == {n \in rows[d] : n > last}

(* A tick reads the lines and then the state: the worker, which is another *)
(* process, may write between. Bound: it waits until the page has handled  *)
(* the events of the tick before.                                          *)
ReadLines(d) ==
  /\ conn[d].open /\ ~conn[d].reading
  /\ conn[d].wire = <<>> /\ conn[d].state \notin Terminal
  /\ conn' = [conn EXCEPT ![d].reading = TRUE, ![d].got = Fresh(d, conn[d].last)]
  /\ owed' = due[d]
  /\ UNCHANGED <<workerVars, production, page, replies, act, presses, follower>>

StreamTick(d) ==
  LET got == conn[d].got
      changed == dstate[d] # "gone" /\ dstate[d] # conn[d].state
      over == changed /\ dstate[d] \in Terminal
      If(b, event) == IF b THEN <<event>> ELSE <<>>
  IN /\ conn[d].open /\ conn[d].reading
     /\ conn' = [conn EXCEPT ![d] =
          [open |-> TRUE, reading |-> FALSE, got |-> {},
           last |-> Max(got \cup {conn[d].last}),
           state |-> IF changed THEN dstate[d] ELSE conn[d].state,
           wire |-> If(got # {}, [event |-> "log", seqs |-> got, row |-> Nothing])
                    \o If(changed, [event |-> "state", seqs |-> {}, row |-> RowOf(d)])
                    \o If(over, [event |-> "done", seqs |-> {}, row |-> Nothing])]]
     /\ UNCHANGED <<workerVars, production, owed, page, replies, act, presses, follower>>

(* The page's GET of a deployment: it fails, or the server answers at once *)
(* and the answer may take any time.                                       *)
AskDeployment(d) ==
  replies' = IF dstate[d] = "gone" \/ Cardinality(replies) = MaxReplies
             THEN replies ELSE replies \cup {RowOf(d)}

OnLog(d, seqs) ==
  /\ page' = [page EXCEPT !.logs = @ \cup {<<d, n>> : n \in seqs}] /\ UNCHANGED replies
OnState(row) == page' = [page EXCEPT !.shown = row] /\ UNCHANGED replies
OnDone(d) == page' = [page EXCEPT !.done = d] /\ AskDeployment(d)

Deliver(d) ==
  LET e == Head(conn[d].wire)
  IN /\ conn[d].open /\ conn[d].wire # <<>>
     /\ CASE e.event = "log" -> OnLog(d, e.seqs)
          [] e.event = "state" -> OnState(e.row)
          [] e.event = "done" -> OnDone(d)
     /\ conn' = [conn EXCEPT ![d] = IF e.event = "done" THEN NoConn
                                    ELSE [conn[d] EXCEPT !.wire = Tail(@)]]
     /\ UNCHANGED <<workerVars, production, owed, act, presses, follower>>

(* onerror closes the source: nothing reconnects.                          *)
Break(d) ==
  /\ conn[d].open /\ conn' = [conn EXCEPT ![d] = NoConn] /\ owed' = {}
  /\ UNCHANGED <<workerVars, production, page, replies, act, presses, follower>>

-----------------------------------------------------------------------------
(* The page                                                                *)

KeptOpen == conn               \* a mutant: the effect has no cleanup
NoConns == [d \in Deployment |-> NoConn]

(* The route changes to d; the component stays if it was shown already.    *)
ShowRoute(d) ==
  /\ page' = [NoPage EXCEPT !.id = d, !.shown = page.shown]
  /\ conn' = [NoConns EXCEPT ![d] = Source(dstate[d] # "gone")]
  /\ owed' = {} /\ AskDeployment(d)
LeavePage ==
  /\ page' = NoPage /\ conn' = NoConns /\ owed' = {} /\ replies' = {}

OpenPage(d) ==
  /\ page.id # d /\ dstate[d] # "none" /\ ShowRoute(d)
  /\ UNCHANGED <<workerVars, production, act, presses, follower>>
GoElsewhere ==
  /\ page.id # NoDeployment /\ LeavePage
  /\ act' = [act EXCEPT !.mounted = FALSE]
  /\ UNCHANGED <<workerVars, production, presses, follower>>

ShowReply(r) ==
  /\ page' = [page EXCEPT !.shown = r] /\ replies' = replies \ {r}
  /\ UNCHANGED <<workerVars, production, conn, owed, act, presses, follower>>

(* The buttons, for the deployment that is shown. busy allows one call;    *)
(* bound: also after the page was left.                                    *)
Press(kind) ==
  LET s == page.shown
  IN /\ page.id # NoDeployment /\ s # Nothing /\ act = NoAct
     /\ presses < MaxPresses /\ presses' = presses + 1
     /\ CASE kind = "redeploy" -> TRUE
          [] kind = "promote" -> s.state = "READY" /\ ~s.current
          [] kind = "cancel" -> s.state \in ActiveStates
          [] kind = "delete" -> ~s.current
     /\ act' = [kind |-> kind, of |-> s.of, phase |-> "sent", mounted |-> TRUE]
     /\ UNCHANGED <<workerVars, production, conn, owed, page, replies, follower>>

ActAnswered ==
  /\ act' = [act EXCEPT !.phase = "answered"]
  /\ UNCHANGED <<conn, owed, page, replies, presses, follower>>
ActRefused ==
  /\ act' = NoAct
  /\ UNCHANGED <<workerVars, production, conn, owed, page, replies, presses, follower>>
NoLogChange == UNCHANGED <<next, holding>>

Redeploy(d) ==
  \E e \in Deployment : /\ dstate[e] = "none" /\ dstate' = [dstate EXCEPT ![e] = "QUEUED"]
                        /\ UNCHANGED <<stopping, production, rows, due>>
Promote(d) ==
  /\ dstate[d] = "READY" /\ production' = d /\ UNCHANGED <<dstate, stopping, rows, due>>
Cancel(d) ==
  /\ dstate[d] \in ActiveStates
  /\ IF dstate[d] = "QUEUED"
     THEN dstate' = [dstate EXCEPT ![d] = "CANCELED"] /\ UNCHANGED stopping
     ELSE stopping' = stopping \cup {d} /\ UNCHANGED dstate
  /\ UNCHANGED <<production, rows, due>>
Delete(d) ==
  /\ production # d /\ dstate' = [dstate EXCEPT ![d] = "gone"]
  /\ rows' = [rows EXCEPT ![d] = {}] /\ due' = [due EXCEPT ![d] = {}]
  /\ UNCHANGED <<stopping, production>>

ServeAct ==
  LET d == act.of
  IN /\ act # NoAct /\ act.phase = "sent"
     /\ \/ /\ dstate[d] # "gone"
           /\ \/ act.kind = "redeploy" /\ Redeploy(d)
              \/ act.kind = "promote" /\ Promote(d)
              \/ act.kind = "cancel" /\ Cancel(d)
              \/ act.kind = "delete" /\ Delete(d)
           /\ NoLogChange /\ ActAnswered
        \/ ActRefused

(* Other members use the same calls.                                       *)
Others(d) ==
  /\ dstate[d] # "gone" /\ (Promote(d) \/ Cancel(d) \/ Delete(d))
  /\ NoLogChange /\ UNCHANGED <<conn, owed, page, replies, act, presses, follower>>

(* A redeploy leads to the new deployment and a deletion to the project,   *)
(* wherever the user went; a promotion is followed by a GET.               *)
FinishAct ==
  /\ act # NoAct /\ act.phase = "answered" /\ act' = NoAct
  /\ CASE act.kind = "redeploy" ->
            \E d \in Deployment \ {act.of} : ShowRoute(d) /\ dstate[d] # "none"
       [] act.kind = "promote" /\ act.mounted -> AskDeployment(act.of) /\ UNCHANGED <<conn, owed, page>>
       [] act.kind = "delete" -> LeavePage
       [] OTHER -> UNCHANGED <<conn, owed, page, replies>>
  /\ UNCHANGED <<workerVars, production, presses, follower>>

-----------------------------------------------------------------------------
(* streamLogs of avail deploy                                              *)

CliStatesShort == {"READY", "ERROR"}        \* a mutant: a canceled build is missed
CliStates == {"READY", "ERROR", "CANCELED"}

(* A poll reads the deployment and then the lines. A deployment that is    *)
(* gone is a 404, which ends the command.                                  *)
CliPoll ==
  /\ follower.step = "polling" /\ follower.state = "none"
  /\ follower' = IF dstate[Followed] = "gone" THEN [follower EXCEPT !.step = "done"]
                 ELSE [follower EXCEPT !.state = dstate[Followed]]
  /\ UNCHANGED <<workerVars, production, conn, owed, page, replies, act, presses>>
CliLines ==
  LET fresh == {n \in rows[Followed] : n > follower.since}
  IN /\ follower.step = "polling" /\ follower.state # "none"
     /\ follower' = [since |-> Max(fresh \cup {follower.since}),
                     printed |-> follower.printed \cup fresh,
                     step |-> IF follower.state \in CliStates THEN "last" ELSE "polling",
                     state |-> "none"]
     /\ UNCHANGED <<workerVars, production, conn, owed, page, replies, act, presses>>
CliLast ==
  /\ follower.step = "last" /\ follower' = [follower EXCEPT !.step = "done"]
  /\ UNCHANGED <<workerVars, production, conn, owed, page, replies, act, presses>>

-----------------------------------------------------------------------------
Buttons == {"redeploy", "promote", "cancel", "delete"}

PageNext ==
  \/ Build(Followed)
  \/ \E d \in Deployment : ReadLines(d) \/ StreamTick(d) \/ Deliver(d) \/ Break(d) \/ OpenPage(d)
  \/ GoElsewhere \/ ServeAct \/ FinishAct \/ \E r \in replies : ShowReply(r)
  \/ \E kind \in Buttons : Press(kind)
CommandNext ==
  \/ Build(Followed) \/ Others(Followed)
  \/ CliPoll \/ CliLines \/ CliLast

-----------------------------------------------------------------------------
(* The page never mixes the build logs of two deployments, however late    *)
(* events arrive after the user moved on (DeploymentPage.tsx:84-118).      *)
PageLogsAreOwn == \A entry \in page.logs : entry[1] = page.id

(* A page that is told the build is over has been given every line that    *)
(* was appended in order before the last tick read the lines; those that   *)
(* the worker appended between that read and the end of the build it may   *)
(* never be given (deployments.rs:178-205). avail deploy, whose poll reads *)
(* the state first, has printed every line that was appended in order      *)
(* before the end (deployments.rs:114-123, cli.ts:293-316).                *)
FollowersSeeAll ==
  /\ page.done # NoDeployment /\ page.done = page.id
       => \A n \in owed : <<page.id, n>> \in page.logs
  /\ follower.step \in {"last", "done"} => due[Followed] \subseteq follower.printed

(* avail deploy ends after the build does (cli.ts:309-323); a build that   *)
(* was skipped is not among the states it knows.                           *)
CommandEnds ==
  dstate[Followed] \in {"READY", "ERROR", "CANCELED", "gone"}
    ~> follower.step \in {"done", "off"}
=============================================================================
