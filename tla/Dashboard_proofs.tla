-------------------------- MODULE Dashboard_proofs --------------------------
(***************************************************************************)
(* The theorems about the parts of the dashboard hold for the whole of it: *)
(* whatever is on the screen, a step is one of theirs or leaves their      *)
(* state alone. The invariants of Follow are proved first.                 *)
(***************************************************************************)
EXTENDS Dashboard, Pages_proofs

-----------------------------------------------------------------------------
(* Following a build: the invariant                                       *)

LogLine == 1..(MaxRows + 1)
RowState == Terminal \cup ActiveStates \cup {"none", "gone"}
ShownRow == [of : Deployment \cup {NoDeployment}, state : RowState, current : BOOLEAN]
StreamEvent == [event : {"log", "state", "done"}, seqs : SUBSET LogLine, row : ShownRow]
StreamState ==
  [open : BOOLEAN, last : LogLine \cup {0}, state : RowState, wire : Seq(StreamEvent),
   reading : BOOLEAN, got : SUBSET LogLine]

RowTypes ==
  /\ dstate \in [Deployment -> RowState] /\ next \in [Deployment -> LogLine]
  /\ rows \in [Deployment -> SUBSET LogLine] /\ due \in [Deployment -> SUBSET LogLine]
  /\ holding \in [Deployment -> [Reader -> 0..MaxRows]]
FollowerTypes ==
  /\ conn \in [Deployment -> StreamState]
  /\ page = [id |-> page.id, shown |-> page.shown, logs |-> page.logs, done |-> page.done]
  /\ page.id \in Deployment \cup {NoDeployment}
  /\ page.logs \subseteq Deployment \X LogLine
  /\ follower = [since |-> follower.since, printed |-> follower.printed, step |-> follower.step,
                 state |-> follower.state]
  /\ follower.since \in LogLine \cup {0} /\ follower.step \in {"polling", "last", "done", "off"}

(* One event source is open, that of the page, and what was deleted has no *)
(* rows.                                                                   *)
OneSource == (\A d \in Deployment : conn[d].open => page.id = d) /\ PageLogsAreOwn
DueAreRows == \A d \in Deployment :
  due[d] \subseteq rows[d] /\ (dstate[d] = "gone" => rows[d] = {})

(* A stream that has come to a line has brought what was due up to there,  *)
(* and that line, or it is on the wire. While a tick has got lines and not *)
(* yet sent them, a line that becomes due comes after them.                *)
OnWire(d, n) == \E i \in 1..Len(conn[d].wire) :
  conn[d].wire[i].event = "log" /\ n \in conn[d].wire[i].seqs
SourceIsWhole(d) ==
  /\ conn[d].last \in rows[d] \cup {0}
  /\ \A n \in due[d] \cup {conn[d].last} :
       n = 0 \/ n > conn[d].last \/ <<d, n>> \in page.logs \/ OnWire(d, n)
  /\ conn[d].reading =>
       /\ conn[d].got \subseteq rows[d] /\ \A m \in conn[d].got : m > conn[d].last
       /\ \A n \in due[d] :
            n <= conn[d].last \/ n \in conn[d].got \/ \A m \in conn[d].got : m < n
StreamIsWhole == \A d \in Deployment : conn[d].open /\ dstate[d] # "gone" => SourceIsWhole(d)

(* The event "done" is the last one. What was due when the lines were read *)
(* has been brought, is on the wire or will be sent by the same tick.      *)
SourceIsDone(d) ==
  /\ \A i \in 1..Len(conn[d].wire) :
       conn[d].wire[i].event = "done" => i = Len(conn[d].wire)
  /\ IF conn[d].reading THEN conn[d].wire = <<>> ELSE conn[d].got = {}
  /\ \A n \in owed : <<d, n>> \in page.logs \/ OnWire(d, n) \/ n \in conn[d].got
DoneIsLast == \A d \in Deployment : conn[d].open => SourceIsDone(d)

PageIsDone == page.done # NoDeployment =>
  /\ page.done = page.id /\ page.id \in Deployment /\ ~conn[page.id].open
  /\ \A n \in owed : <<page.id, n>> \in page.logs

(* The command reads the state first: when it stops, no line will be due.  *)
CommandIsWhole ==
  /\ follower.step = "polling" /\ dstate[Followed] # "gone" =>
       /\ follower.since \in rows[Followed] \cup {0}
       /\ \A n \in due[Followed] \cup {follower.since} :
            n = 0 \/ n > follower.since \/ n \in follower.printed
       /\ follower.state \in CliStates => dstate[Followed] \in Terminal
  /\ follower.step \in {"last", "done"} =>
       dstate[Followed] \in Terminal \cup {"gone"} /\ due[Followed] \subseteq follower.printed

FlInv == /\ RowTypes /\ FollowerTypes /\ OneSource /\ DueAreRows /\ StreamIsWhole
         /\ DoneIsLast /\ PageIsDone /\ CommandIsWhole

-----------------------------------------------------------------------------
(* Following a build: the steps                                            *)

(* Max is the greatest of the numbers of lines.                            *)
LEMMA MaxOfLines ==
  ASSUME NEW S, S \subseteq LogLine \cup {0}, S # {}
  PROVE  Max(S) \in S /\ \A n \in S : n <= Max(S)
<1>0. MaxRows + 1 \in Nat /\ S \subseteq Nat /\ S \ {0} \in SUBSET (1..(MaxRows + 1))
  BY FollowAssumption DEF LogLine
<1>1. \E x \in S : \A y \in S : y <= x
  <2>1. CASE S \ {0} = {}
    <3>1. S = {0}
      BY <2>1
    <3> QED
      BY <3>1
  <2>2. CASE S \ {0} # {}
    <3>1. PICK x \in S \ {0} : \A y \in S \ {0} : y <= x
      BY <1>0, <2>2, LastPosition
    <3> QED
      BY <1>0, <3>1
  <2> QED
    BY <2>1, <2>2
<1>2. \E x \in S : \A y \in S : x >= y
  BY <1>0, <1>1
<1> QED
  BY <1>0, <1>2 DEF Max

(* Nothing is on the wire of a source that is closed.                      *)
LEMMA ClosedSource ==
  /\ NoConn \in StreamState /\ NoConn.open = FALSE /\ NoConn.last = 0
  /\ NoConn.wire = <<>> /\ NoConn.state = "none" /\ "none" \notin Terminal
  /\ NoConn.reading = FALSE /\ NoConn.got = {}
  /\ ~NoConn.open
  BY DEF NoConn, Source, StreamState, RowState, Terminal

(* The rows of a build are written. A line that is due comes after all     *)
(* others, and the build is not over.                                      *)
Appended(d) == \E n \in LogLine :
  /\ dstate[d] \notin Terminal /\ \A m \in rows[d] : m <= n
  /\ rows'[d] = rows[d] \cup {n} /\ due'[d] = due[d] \cup {n}
Grown(d) ==
  /\ dstate[d] \in Terminal => dstate'[d] \in Terminal
  /\ rows[d] \subseteq rows'[d]
  /\ due'[d] = due[d] \/ Appended(d)
Written(d) ==
  \/ dstate'[d] = "gone" /\ rows'[d] = {} /\ due'[d] = {}
  \/ dstate[d] # "gone" /\ dstate'[d] # "gone" /\ Grown(d)

(* A stream or a command that has come to a line keeps it, whatever is     *)
(* written next.                                                           *)
LEMMA WrittenKeeps ==
  ASSUME FlInv, RowTypes', UNCHANGED <<conn, owed, page, follower>>,
         \A d \in Deployment : Written(d)
  PROVE  FlInv'
<1>1. FollowerTypes' /\ OneSource'
  BY DEF FlInv, FollowerTypes, OneSource, PageLogsAreOwn
<1>2. DueAreRows'
  BY DEF FlInv, DueAreRows, Written, Grown, Appended
<1>3. DoneIsLast'
  BY DEF FlInv, DoneIsLast, SourceIsDone, OnWire
<1>l. LogLine \subseteq Nat /\ 0 \notin LogLine /\ 0 \in Nat
  BY FollowAssumption DEF LogLine
<1>4. StreamIsWhole'
  <2> SUFFICES ASSUME NEW d \in Deployment, conn[d].open, dstate'[d] # "gone"
               PROVE  SourceIsWhole(d)'
    BY DEF StreamIsWhole
  <2>1. Grown(d) /\ dstate[d] # "gone"
    BY DEF Written
  <2>2. SourceIsWhole(d)
    BY <2>1 DEF FlInv, StreamIsWhole
  <2>3. rows[d] \subseteq LogLine /\ conn[d].last \in Nat
    <3>1. rows[d] \in SUBSET LogLine
      BY DEF FlInv, RowTypes
    <3>2. conn[d].last \in LogLine \/ conn[d].last = 0
      BY <2>2, <3>1 DEF SourceIsWhole
    <3>3. conn[d].last \in Nat
      BY <1>l, <3>2, Zenon
    <3> QED
      BY <3>1, <3>3
  <2>4. CASE due'[d] = due[d]
    BY <2>1, <2>2, <2>4 DEF Grown, SourceIsWhole, OnWire
  <2>5. CASE Appended(d)
    <3>1. PICK n \in LogLine :
            /\ dstate[d] \notin Terminal /\ \A m \in rows[d] : m <= n
            /\ rows'[d] = rows[d] \cup {n} /\ due'[d] = due[d] \cup {n}
      BY <2>5 DEF Appended
    <3>2. n = conn[d].last \/ n > conn[d].last
      BY <1>l, <2>2, <2>3, <3>1 DEF SourceIsWhole
    <3>3. /\ conn[d].last \in rows'[d] \cup {0}
          /\ \A m \in due'[d] \cup {conn[d].last} :
               m = 0 \/ m > conn[d].last \/ <<d, m>> \in page.logs \/ OnWire(d, m)
      BY <2>2, <3>1, <3>2 DEF SourceIsWhole
    <3>4. ASSUME conn[d].reading
          PROVE  /\ conn[d].got \subseteq rows'[d] /\ \A m \in conn[d].got : m > conn[d].last
                 /\ \A k \in due'[d] :
                      k <= conn[d].last \/ k \in conn[d].got \/ \A m \in conn[d].got : m < k
      <4>1. /\ conn[d].got \subseteq rows[d] /\ \A m \in conn[d].got : m > conn[d].last
            /\ \A k \in due[d] :
                 k <= conn[d].last \/ k \in conn[d].got \/ \A m \in conn[d].got : m < k
        BY <2>2, <3>4 DEF SourceIsWhole
      <4>2. n \in conn[d].got \/ \A m \in conn[d].got : m < n
        <5>1. \A m \in conn[d].got : m \in Nat /\ m <= n
          BY <1>l, <2>3, <3>1, <4>1
        <5> QED
          BY <1>l, <5>1
      <4> QED
        BY <3>1, <4>1, <4>2
    <3> QED
      BY <3>3, <3>4 DEF SourceIsWhole, OnWire
  <2> QED
    BY <2>1, <2>4, <2>5 DEF Grown
<1>5. PageIsDone'
  BY DEF FlInv, PageIsDone
<1>6. CommandIsWhole'
  <2>0. Followed \in Deployment
    BY FollowAssumption
  <2>1. ASSUME follower.step = "polling", dstate'[Followed] # "gone"
        PROVE  /\ follower.since \in rows'[Followed] \cup {0}
               /\ \A n \in due'[Followed] \cup {follower.since} :
                    n = 0 \/ n > follower.since \/ n \in follower.printed
               /\ follower.state \in CliStates => dstate'[Followed] \in Terminal
    <3>1. Grown(Followed) /\ dstate[Followed] # "gone"
      BY <2>0, <2>1 DEF Written
    <3>2. /\ follower.since \in rows[Followed] \cup {0}
          /\ \A n \in due[Followed] \cup {follower.since} :
               n = 0 \/ n > follower.since \/ n \in follower.printed
          /\ follower.state \in CliStates => dstate[Followed] \in Terminal
      BY <2>1, <3>1 DEF FlInv, CommandIsWhole
    <3>3. rows[Followed] \subseteq LogLine /\ follower.since \in Nat
      <4>1. rows[Followed] \in SUBSET LogLine
        BY <2>0 DEF FlInv, RowTypes
      <4>2. follower.since \in LogLine \/ follower.since = 0
        BY <3>2, <4>1
      <4>3. follower.since \in Nat
        BY <1>l, <4>2, Zenon
      <4> QED
        BY <4>1, <4>3
    <3>4. CASE due'[Followed] = due[Followed]
      BY <3>1, <3>2, <3>4 DEF Grown
    <3>5. CASE Appended(Followed)
      <4>1. PICK n \in LogLine :
              /\ dstate[Followed] \notin Terminal /\ \A m \in rows[Followed] : m <= n
              /\ rows'[Followed] = rows[Followed] \cup {n}
              /\ due'[Followed] = due[Followed] \cup {n}
        BY <3>5 DEF Appended
      <4>2. n = follower.since \/ n > follower.since
        BY <1>l, <3>2, <3>3, <4>1
      <4> QED
        BY <3>2, <4>1, <4>2
    <3> QED
      BY <3>1, <3>4, <3>5 DEF Grown
  <2>2. ASSUME follower.step \in {"last", "done"}
        PROVE  /\ dstate'[Followed] \in Terminal \cup {"gone"}
               /\ due'[Followed] \subseteq follower.printed
    <3>1. dstate[Followed] \in Terminal \cup {"gone"} /\ due[Followed] \subseteq follower.printed
      BY <2>2 DEF FlInv, CommandIsWhole
    <3> QED
      BY <2>0, <3>1 DEF Written, Grown, Appended
  <2> QED
    BY <2>1, <2>2 DEF CommandIsWhole
<1> QED
  BY <1>1, <1>2, <1>3, <1>4, <1>5, <1>6 DEF FlInv

(* The worker writes.                                                      *)
LEMMA BuildKeeps ==
  ASSUME FlInv, Build(Followed)
  PROVE  FlInv'
<1> DEFINE d == Followed
<1>0. d \in Deployment /\ RowTypes /\ DueAreRows
  BY FollowAssumption DEF FlInv
<1>t. /\ dstate \in [Deployment -> RowState] /\ next \in [Deployment -> LogLine]
      /\ rows \in [Deployment -> SUBSET LogLine] /\ due \in [Deployment -> SUBSET LogLine]
      /\ holding \in [Deployment -> [Reader -> 0..MaxRows]]
  BY <1>0 DEF RowTypes
<1>l. LogLine \subseteq Nat /\ 0..MaxRows \subseteq LogLine \cup {0} /\ MaxRows \in Nat
  BY FollowAssumption DEF LogLine
<1> HIDE DEF d
<1>1. CASE StartBuilding(d) \/ Finish(d)
  <2>1. \E s \in RowState \ {"gone"} :
          dstate[d] \notin Terminal \cup {"gone"} /\ dstate' = [dstate EXCEPT ![d] = s]
    BY <1>1, FollowAssumption DEF StartBuilding, Finish, RowState, Terminal, ActiveStates
  <2>2. UNCHANGED <<next, holding, rows, due, conn, owed, page, follower>>
    BY <1>1 DEF StartBuilding, Finish, Rest
  <2>3. RowTypes' /\ \A e \in Deployment : Written(e)
    BY <1>0, <1>t, <2>1, <2>2 DEF RowTypes, DueAreRows, Written, Grown
  <2> QED
    BY <2>2, <2>3, WrittenKeeps
<1>2. ASSUME NEW r \in Reader, TakeNumber(d, r)
      PROVE  FlInv'
  <2>1. UNCHANGED <<dstate, rows, due, conn, owed, page, follower>>
    BY <1>2 DEF TakeNumber, Rest
  <2>2. next[d] \in 0..MaxRows /\ next[d] + 1 \in LogLine
    BY <1>0, <1>t, <1>2, <1>l DEF TakeNumber, LogLine
  <2>3. RowTypes' /\ \A e \in Deployment : Written(e)
    <3>1. holding' \in [Deployment -> [Reader -> 0..MaxRows]]
      BY <1>0, <1>t, <1>2, <2>2 DEF TakeNumber
    <3>2. next' \in [Deployment -> LogLine]
      BY <1>0, <1>t, <1>2, <2>2 DEF TakeNumber
    <3> QED
      BY <1>0, <1>t, <2>1, <3>1, <3>2 DEF RowTypes, DueAreRows, Written, Grown
  <2> QED
    BY <2>1, <2>3, WrittenKeeps
<1>3. ASSUME NEW n \in LogLine, Append1(d, n), dstate[d] # "gone",
             UNCHANGED <<dstate, conn, owed, page, follower>>,
             holding' \in [Deployment -> [Reader -> 0..MaxRows]],
             next' \in [Deployment -> LogLine]
      PROVE  FlInv'
  <2>1. RowTypes'
    BY <1>0, <1>t, <1>3 DEF Append1, RowTypes
  <2>2. Written(d)
    <3>1. /\ rows'[d] = rows[d] \cup {n}
          /\ due'[d] = IF dstate[d] \in Terminal \/ \E m \in rows[d] : m > n
                       THEN due[d] ELSE due[d] \cup {n}
      BY <1>0, <1>t, <1>3 DEF Append1
    <3>2. rows[d] \subseteq Nat /\ n \in Nat
      BY <1>0, <1>t, <1>l, Zenon
    <3>3. (~ \E m \in rows[d] : m > n) => \A m \in rows[d] : m <= n
      BY <3>2
    <3> QED
      BY <1>3, <3>1, <3>3 DEF Written, Grown, Appended
  <2>3. ASSUME NEW e \in Deployment, e # d
        PROVE  Written(e)
    <3>1. rows'[e] = rows[e] /\ due'[e] = due[e] /\ dstate'[e] = dstate[e]
      BY <1>t, <1>3, <2>3 DEF Append1
    <3> QED
      BY <1>0, <3>1 DEF Written, Grown, DueAreRows
  <2> QED
    BY <1>3, <2>1, <2>2, <2>3, WrittenKeeps
<1>4. ASSUME NEW r \in Reader, AppendRow(d, r)
      PROVE  FlInv'
  <2>1. holding' \in [Deployment -> [Reader -> 0..MaxRows]] /\ 0 \in 0..MaxRows
    BY <1>0, <1>t, <1>l, <1>4 DEF AppendRow
  <2>2. UNCHANGED <<dstate, next, conn, owed, page, follower>>
    BY <1>4 DEF AppendRow, Rest
  <2>3. CASE dstate[d] = "gone"
    <3>1. UNCHANGED <<rows, due>>
      BY <1>4, <2>3 DEF AppendRow
    <3>2. RowTypes' /\ \A e \in Deployment : Written(e)
      BY <1>0, <1>t, <2>1, <2>2, <3>1 DEF RowTypes, DueAreRows, Written, Grown
    <3> QED
      BY <2>2, <3>2, WrittenKeeps
  <2>4. CASE dstate[d] # "gone"
    <3>1. holding[d][r] \in LogLine /\ Append1(d, holding[d][r])
      BY <1>0, <1>t, <1>l, <1>4, <2>4 DEF AppendRow
    <3> QED
      BY <1>3, <1>t, <2>1, <2>2, <2>4, <3>1
  <2> QED
    BY <2>3, <2>4
<1>5. CASE PublishNote(d)
  <2>1. rows[d] \cup {0} \subseteq LogLine \cup {0} /\ rows[d] \cup {0} # {}
    BY <1>0, <1>t, <1>5 DEF PublishNote
  <2>2. Max(rows[d] \cup {0}) \in LogLine \cup {0}
    BY <2>1, MaxOfLines
  <2>3. Max(rows[d] \cup {0}) + 1 \in LogLine /\ MaxRows + 1 \in LogLine
    BY <1>l, <1>5, <2>2 DEF PublishNote, LogLine
  <2>4. /\ Append1(d, Max(rows[d] \cup {0}) + 1) /\ dstate[d] # "gone"
        /\ UNCHANGED <<dstate, holding, conn, owed, page, follower>>
        /\ next' \in [Deployment -> LogLine]
    BY <1>0, <1>t, <1>5, <2>3 DEF PublishNote, Rest
  <2> QED
    BY <1>3, <1>t, <2>3, <2>4
<1> QED
  BY <1>1, <1>2, <1>4, <1>5 DEF Build, d

(* The server answers a button, of the page or of another member.          *)
LEMMA ServedKeeps ==
  ASSUME FlInv, NEW d, Redeploy(d) \/ Promote(d) \/ (dstate[d] # "gone" /\ Cancel(d)) \/ Delete(d),
         UNCHANGED <<next, holding, conn, owed, page, follower>>
  PROVE  FlInv'
<1>0. RowTypes /\ DueAreRows
  BY DEF FlInv
<1>1. CASE Delete(d)
  <2>1. RowTypes' /\ \A e \in Deployment : Written(e)
    BY <1>0, <1>1 DEF Delete, RowTypes, RowState, DueAreRows, Written, Grown
  <2> QED
    BY <2>1, WrittenKeeps
<1>2. CASE Redeploy(d) \/ Promote(d) \/ Cancel(d)
  <2>1. /\ UNCHANGED <<rows, due>>
        /\ \/ UNCHANGED dstate
           \/ \E e, s : /\ s \in {"QUEUED", "CANCELED"} /\ dstate[e] \in {"none", "QUEUED"}
                        /\ dstate' = [dstate EXCEPT ![e] = s]
    BY <1>2 DEF Redeploy, Promote, Cancel
  <2>2. RowTypes' /\ \A e \in Deployment : Written(e)
    BY <1>0, <2>1 DEF RowTypes, RowState, ActiveStates, Terminal, DueAreRows, Written, Grown
  <2> QED
    BY <2>1, <2>2, WrittenKeeps
<1> QED
  BY <1>1, <1>2

(* What the readers do leaves the rows as they are.                        *)
LEMMA RowsRest ==
  ASSUME FlInv, UNCHANGED <<dstate, next, holding, rows, due>>
  PROVE  /\ RowTypes' /\ DueAreRows'
         /\ UNCHANGED follower => CommandIsWhole'
<1> QED
  BY DEF FlInv, RowTypes, DueAreRows, CommandIsWhole

(* The numbers of the lines of a build.                                    *)
LEMMA LinesOf ==
  ASSUME FlInv, NEW d \in Deployment
  PROVE  /\ rows[d] \subseteq LogLine /\ due[d] \subseteq LogLine /\ due[d] \subseteq rows[d]
         /\ LogLine \subseteq Nat /\ 0 \notin LogLine
         /\ conn[d] \in StreamState
<1>1. rows[d] \in SUBSET LogLine /\ due[d] \in SUBSET LogLine
  BY DEF FlInv, RowTypes
<1>2. LogLine \subseteq Nat /\ 0 \notin LogLine
  BY FollowAssumption DEF LogLine
<1> QED
  BY <1>1, <1>2 DEF FlInv, DueAreRows, FollowerTypes

(* The elements of two sequences in a row.                                 *)
LEMMA Joined ==
  ASSUME NEW T, NEW a \in Seq(T), NEW b \in Seq(T)
  PROVE  /\ a \o b \in Seq(T) /\ Len(a \o b) = Len(a) + Len(b)
         /\ \A i \in 1..Len(a \o b) :
              (a \o b)[i] = IF i <= Len(a) THEN a[i] ELSE b[i - Len(a)]
  OBVIOUS

(* An index of two sequences of at most one element.                       *)
LEMMA OneOfTwo ==
  ASSUME NEW m \in {0, 1}, NEW n \in {0, 1}, NEW i \in Int, 1 <= i, i <= m + n
  PROVE  (i <= m => i = 1 /\ m = 1) /\ (~(i <= m) => i - m = 1 /\ n = 1)
  OBVIOUS

(* At most three events, "done" last.                                      *)
WireFits(W, l, e, A, C) ==
  /\ W \in Seq(StreamEvent)
  /\ \A i \in 1..Len(W) : W[i].event = "done" => i = Len(W) /\ C = <<e>>
  /\ A = <<l>> => 1 \in 1..Len(W) /\ W[1] = l

(* What one tick puts on the wire is like that.                            *)
LEMMA WireOf ==
  ASSUME NEW l \in StreamEvent, NEW s \in StreamEvent, NEW e \in StreamEvent,
         l.event = "log", s.event = "state",
         NEW A, A = <<>> \/ A = <<l>>, NEW B, B = <<>> \/ B = <<s>>, NEW C, C = <<>> \/ C = <<e>>
  PROVE  WireFits(A \o B \o C, l, e, A, C)
<1>1. A \in Seq(StreamEvent) /\ B \in Seq(StreamEvent) /\ C \in Seq(StreamEvent)
  <2>1. /\ <<>> \in Seq(StreamEvent) /\ <<l>> \in Seq(StreamEvent)
        /\ <<s>> \in Seq(StreamEvent) /\ <<e>> \in Seq(StreamEvent)
    OBVIOUS
  <2> QED
    BY <2>1, Zenon
<1>2. /\ Len(A) \in {0, 1} /\ (Len(A) = 1 => A[1] = l) /\ (A = <<l>> => Len(A) = 1)
      /\ Len(B) \in {0, 1} /\ (Len(B) = 1 => B[1] = s)
      /\ Len(C) \in {0, 1} /\ (Len(C) = 1 => C = <<e>>)
  OBVIOUS
<1>3. PICK D : D = A \o B
  OBVIOUS
<1>4. PICK W : W = D \o C
  OBVIOUS
<1>5. /\ D \in Seq(StreamEvent) /\ Len(D) = Len(A) + Len(B)
      /\ \A i \in 1..Len(D) : D[i] = IF i <= Len(A) THEN A[i] ELSE B[i - Len(A)]
  BY <1>1, <1>3, Joined, Zenon
<1>6. /\ W \in Seq(StreamEvent) /\ Len(W) = Len(D) + Len(C)
      /\ \A i \in 1..Len(W) : W[i] = IF i <= Len(D) THEN D[i] ELSE C[i - Len(D)]
  <2>1. D \in Seq(StreamEvent)
    BY <1>5
  <2> QED
    BY <1>1, <1>4, <2>1, Joined, Zenon
<1>n. /\ Len(A) \in {0, 1} /\ Len(B) \in {0, 1} /\ Len(C) \in {0, 1}
      /\ Len(D) = Len(A) + Len(B) /\ Len(W) = Len(D) + Len(C)
      /\ Len(A) \in Nat /\ Len(B) \in Nat /\ Len(C) \in Nat
  <2>1. Len(A) \in Nat /\ Len(B) \in Nat /\ Len(C) \in Nat
    BY <1>1
  <2> QED
    BY <1>2, <1>5, <1>6, <2>1, Zenon
<1>7. \A i \in 1..Len(D) : D[i] = l \/ D[i] = s
  <2> SUFFICES ASSUME NEW i \in 1..Len(D)
               PROVE  D[i] = l \/ D[i] = s
    OBVIOUS
  <2>0. i \in Int /\ 1 <= i /\ i <= Len(A) + Len(B)
    BY <1>n
  <2>n. /\ i <= Len(A) => i = 1 /\ Len(A) = 1
        /\ ~(i <= Len(A)) => i - Len(A) = 1 /\ Len(B) = 1
    BY <1>n, <2>0, OneOfTwo, Zenon
  <2>1. CASE i <= Len(A)
    <3>1. i = 1 /\ Len(A) = 1
      BY <2>n, <2>1, Zenon
    <3> QED
      BY <1>2, <1>5, <3>1
  <2>2. CASE ~(i <= Len(A))
    <3>1. i - Len(A) = 1 /\ Len(B) = 1
      BY <2>n, <2>2, Zenon
    <3> QED
      BY <1>2, <1>5, <2>2, <3>1
  <2> QED
    BY <2>1, <2>2
<1>8. ASSUME NEW i \in 1..Len(W), W[i].event = "done"
      PROVE  i = Len(W) /\ C = <<e>>
  <2>1. ~(i <= Len(D))
    BY <1>2, <1>5, <1>6, <1>7, <1>8
  <2>2. i = Len(W) /\ Len(C) = 1
    BY <1>2, <1>5, <1>6, <2>1
  <2> QED
    BY <1>2, <2>2
<1>9. ASSUME A = <<l>>
      PROVE  1 \in 1..Len(W) /\ W[1] = l
  <2>1. Len(A) = 1 /\ Len(D) \in {1, 2} /\ Len(W) \in {1, 2, 3}
    BY <1>2, <1>5, <1>6, <1>9
  <2>2. D[1] = A[1]
    BY <1>5, <2>1
  <2>3. W[1] = D[1]
    BY <1>6, <2>1
  <2> QED
    BY <1>2, <2>1, <2>2, <2>3
<1> QED
  BY <1>3, <1>4, <1>6, <1>8, <1>9, Zenon DEF WireFits

(* A step of the page keeps the invariant if its one source keeps it.      *)
LEMMA OneSourceKeeps ==
  ASSUME FlInv, NEW d \in Deployment, UNCHANGED <<dstate, next, holding, rows, due, follower>>,
         FollowerTypes', PageLogsAreOwn', PageIsDone',
         \A x \in Deployment \ {d} : ~conn'[x].open,
         conn'[d].open => page'.id = d /\ (dstate[d] # "gone" => SourceIsWhole(d)')
                                       /\ SourceIsDone(d)'
  PROVE  FlInv'
<1>1. OneSource'
  BY DEF OneSource
<1>2. StreamIsWhole'
  BY DEF StreamIsWhole
<1>3. DoneIsLast'
  BY DEF DoneIsLast
<1> QED
  BY <1>1, <1>2, <1>3, RowsRest DEF FlInv

(* A tick reads the lines: those that are due and were not sent before     *)
(* are among what it has got.                                              *)
LEMMA ReadLinesKeeps ==
  ASSUME FlInv, NEW d \in Deployment, ReadLines(d)
  PROVE  FlInv'
<1>1. PICK g : g = Fresh(d, conn[d].last)
  OBVIOUS
<1>2. /\ conn' = [conn EXCEPT ![d].reading = TRUE, ![d].got = g]
      /\ conn[d].open /\ ~conn[d].reading /\ conn[d].wire = <<>> /\ owed' = due[d]
      /\ UNCHANGED <<dstate, next, holding, rows, due, page, follower>>
  BY <1>1 DEF ReadLines, workerVars
<1>3. /\ rows[d] \subseteq LogLine /\ due[d] \subseteq rows[d]
      /\ LogLine \subseteq Nat /\ 0 \notin LogLine /\ conn[d] \in StreamState
      /\ conn[d].last \in LogLine \cup {0}
  BY LinesOf DEF StreamState
<1>4. g \in SUBSET LogLine /\ g \subseteq rows[d] /\ \A m \in g : m > conn[d].last
  BY <1>1, <1>3 DEF Fresh
<1>5. /\ conn'[d] \in StreamState /\ conn'[d].open /\ conn'[d].last = conn[d].last
      /\ conn'[d].wire = <<>> /\ conn'[d].reading /\ conn'[d].got = g
  BY <1>2, <1>3, <1>4 DEF FlInv, FollowerTypes, StreamState
<1>6. /\ \A x \in Deployment \ {d} : conn'[x] = conn[x]
      /\ conn' \in [Deployment -> StreamState]
  BY <1>2, <1>5 DEF FlInv, FollowerTypes
<1>7. page.id = d /\ \A x \in Deployment \ {d} : ~conn[x].open
  BY <1>2 DEF FlInv, OneSource
<1>8. FollowerTypes' /\ PageLogsAreOwn' /\ PageIsDone'
  BY <1>2, <1>6, <1>7 DEF FlInv, FollowerTypes, OneSource, PageLogsAreOwn, PageIsDone
<1>n. conn[d].last \in Nat /\ due[d] \subseteq Nat /\ rows[d] \subseteq Nat
  <2>1. (conn[d].last \in LogLine \/ conn[d].last = 0) /\ 0 \in Nat
    BY <1>3
  <2>2. conn[d].last \in Nat
    BY <1>3, <2>1, Zenon
  <2> QED
    BY <1>3, <2>2
<1>9. \A n \in due[d] : n <= conn[d].last \/ n \in g
  BY <1>1, <1>3, <1>n DEF Fresh
<1>a. ASSUME dstate[d] # "gone"
      PROVE  /\ conn[d].last \in rows[d] \cup {0}
             /\ \A n \in due[d] \cup {conn[d].last} :
                  n = 0 \/ n > conn[d].last \/ <<d, n>> \in page.logs
  BY <1>2, <1>a DEF FlInv, StreamIsWhole, SourceIsWhole, OnWire
<1>b. dstate[d] # "gone" => SourceIsWhole(d)'
  BY <1>2, <1>4, <1>5, <1>9, <1>a DEF SourceIsWhole
<1>c. \A n \in due[d] : <<d, n>> \in page.logs \/ n \in g
  <2>1. CASE dstate[d] = "gone"
    BY <1>3, <2>1 DEF FlInv, DueAreRows
  <2>2. CASE dstate[d] # "gone"
    BY <1>3, <1>9, <1>a, <1>n, <2>2
  <2> QED
    BY <2>1, <2>2
<1>d. SourceIsDone(d)'
  <2>1. 1..Len(conn'[d].wire) = {}
    BY <1>5
  <2> QED
    BY <1>2, <1>5, <1>c, <2>1, Zenon DEF SourceIsDone
<1> QED
  BY <1>2, <1>6, <1>7, <1>8, <1>b, <1>d, OneSourceKeeps

(* The tick sends them and, after them, that the build is over.            *)
LEMMA StreamTickKeeps ==
  ASSUME FlInv, NEW d \in Deployment, StreamTick(d)
  PROVE  FlInv'
<1> DEFINE old == conn[d].last
           fresh == conn[d].got
           changed == dstate[d] # "gone" /\ dstate[d] # conn[d].state
           last == Max(fresh \cup {old})
           state == IF changed THEN dstate[d] ELSE conn[d].state
           l == [event |-> "log", seqs |-> fresh, row |-> Nothing]
           s == [event |-> "state", seqs |-> {}, row |-> RowOf(d)]
           e == [event |-> "done", seqs |-> {}, row |-> Nothing]
           A == IF fresh # {} THEN <<l>> ELSE <<>>
           B == IF changed THEN <<s>> ELSE <<>>
           C == IF changed /\ dstate[d] \in Terminal THEN <<e>> ELSE <<>>
           W == A \o B \o C
           c == [open |-> TRUE, reading |-> FALSE, got |-> {}, last |-> last, state |-> state,
                 wire |-> W]
<1>1. conn' = [conn EXCEPT ![d] = c]
  BY DEF StreamTick
<1>2. /\ conn[d].open /\ conn[d].reading
      /\ UNCHANGED <<dstate, next, holding, rows, due, owed, page, follower>>
      /\ page.id = d /\ \A x \in Deployment \ {d} : ~conn[x].open
  BY DEF StreamTick, workerVars, FlInv, OneSource
<1>3. /\ rows[d] \subseteq LogLine /\ due[d] \subseteq LogLine /\ due[d] \subseteq rows[d]
      /\ LogLine \subseteq Nat /\ 0 \notin LogLine /\ conn[d] \in StreamState
      /\ dstate[d] \in RowState
  BY LinesOf DEF FlInv, RowTypes
<1>4. old \in LogLine \cup {0} /\ fresh \in SUBSET LogLine /\ conn[d].state \in RowState
  BY <1>3 DEF StreamState
<1>5. last \in fresh \cup {old} /\ \A n \in fresh \cup {old} : n <= last
  BY <1>4, MaxOfLines
<1>6. l \in StreamEvent /\ s \in StreamEvent /\ e \in StreamEvent
  BY <1>3, <1>4 DEF StreamEvent, ShownRow, Nothing, RowOf, RowState
<1>7. /\ W \in Seq(StreamEvent)
      /\ \A i \in 1..Len(W) : W[i].event = "done" => i = Len(W) /\ C = <<e>>
      /\ A = <<l>> => 1 \in 1..Len(W) /\ W[1] = l
  <2>1. (A = <<>> \/ A = <<l>>) /\ (B = <<>> \/ B = <<s>>) /\ (C = <<>> \/ C = <<e>>)
    OBVIOUS
  <2>2. l.event = "log" /\ s.event = "state"
    OBVIOUS
  <2> HIDE DEF A, B, C, l, s, e
  <2>3. WireFits(W, l, e, A, C)
    BY <1>6, <2>1, <2>2, WireOf, Zenon
  <2> HIDE DEF W
  <2> QED
    BY <2>3 DEF WireFits
<1>8. fresh # {} => A = <<l>>
  OBVIOUS
<1> HIDE DEF A, B, C, W, e, s
<1>9. state \in RowState /\ last \in LogLine \cup {0}
  BY <1>3, <1>4, <1>5
<1>a. conn \in [Deployment -> StreamState]
  BY DEF FlInv, FollowerTypes
<1>b. /\ conn'[d].open /\ conn'[d].last = last /\ conn'[d].wire = W
      /\ conn'[d].reading = FALSE /\ conn'[d].got = {}
      /\ \A x \in Deployment \ {d} : conn'[x] = conn[x]
      /\ conn' \in [Deployment -> StreamState]
  <2> HIDE DEF last, state
  <2>1. c \in StreamState
    BY <1>7, <1>9 DEF StreamState
  <2>2. c.open /\ c.last = last /\ c.wire = W /\ c.reading = FALSE /\ c.got = {}
    OBVIOUS
  <2> HIDE DEF c
  <2> QED
    BY <1>1, <1>a, <2>1, <2>2
<1>c. FollowerTypes' /\ PageLogsAreOwn' /\ PageIsDone'
  BY <1>2, <1>b DEF FlInv, FollowerTypes, OneSource, PageLogsAreOwn, PageIsDone
<1>f. ASSUME NEW n \in fresh
      PROVE  OnWire(d, n)'
  <2>1. 1 \in 1..Len(W) /\ W[1] = l
    BY <1>7, <1>8
  <2> QED
    BY <1>b, <2>1 DEF OnWire
<1>o. conn[d].wire = <<>> /\ \A n : ~OnWire(d, n)
  BY <1>2 DEF FlInv, DoneIsLast, SourceIsDone, OnWire
<1>d. ASSUME dstate[d] # "gone"
      PROVE  SourceIsWhole(d)'
  <2>n. old \in Nat /\ last \in Nat /\ due[d] \subseteq Nat /\ rows[d] \subseteq Nat
    <3>1. (old \in LogLine \/ old = 0) /\ (last \in LogLine \/ last = 0) /\ 0 \in Nat
      BY <1>4, <1>9
    <3>2. old \in Nat /\ last \in Nat
      BY <1>3, <3>1, Zenon
    <3> QED
      BY <1>3, <3>2
  <2>1. /\ old \in rows[d] \cup {0}
        /\ \A n \in due[d] \cup {old} : n = 0 \/ n > old \/ <<d, n>> \in page.logs
        /\ fresh \subseteq rows[d]
        /\ \A n \in due[d] : n <= old \/ n \in fresh \/ \A m \in fresh : m < n
    BY <1>2, <1>d, <1>o DEF FlInv, StreamIsWhole, SourceIsWhole
  <2>2. last = old \/ last \in fresh
    BY <1>5
  <2> HIDE DEF fresh, last, state, old, changed
  <2>3. last \in rows[d] \cup {0}
    BY <2>1, <2>2
  <2>4. ASSUME NEW n \in due[d] \cup {last}
        PROVE  n = 0 \/ n > last \/ <<d, n>> \in page.logs \/ n \in fresh
    <3>1. CASE n = last
      BY <2>1, <2>2, <2>n, <3>1
    <3>2. CASE n \in due[d] /\ n <= old
      BY <2>1, <2>n, <3>2
    <3>3. CASE n \in due[d] /\ ~(n <= old) /\ n \notin fresh
      <4>1. n > old /\ \A m \in fresh : m < n
        BY <2>1, <2>n, <3>3
      <4> QED
        BY <2>2, <2>n, <4>1, <3>3
    <3> QED
      BY <2>4, <3>1, <3>2, <3>3
  <2> QED
    BY <1>2, <1>b, <1>f, <2>3, <2>4 DEF SourceIsWhole
<1>e. SourceIsDone(d)'
  <2>1. \A n \in owed : <<d, n>> \in page.logs \/ n \in fresh
    BY <1>2, <1>o DEF FlInv, DoneIsLast, SourceIsDone
  <2> HIDE DEF fresh, last, state, old, changed
  <2> QED
    BY <1>2, <1>7, <1>b, <1>f, <2>1 DEF SourceIsDone
<1> HIDE DEF fresh, last, state, old, changed
<1> QED
  BY <1>2, <1>b, <1>c, <1>d, <1>e, OneSourceKeeps

(* The page takes the first event of the wire; "done" is alone on it.      *)
LEMMA DeliverKeeps ==
  ASSUME FlInv, NEW d \in Deployment, Deliver(d)
  PROVE  FlInv'
<1> DEFINE w == conn[d].wire
           e == w[1]
<1>0. /\ conn[d].open /\ conn[d].wire # <<>>
      /\ UNCHANGED <<dstate, next, holding, rows, due, owed, follower>>
      /\ page.id = d /\ \A entry \in page.logs : entry[1] = d
      /\ \A x \in Deployment \ {d} : ~conn[x].open
      /\ conn \in [Deployment -> StreamState] /\ conn[d] \in StreamState
      /\ page = [id |-> page.id, shown |-> page.shown, logs |-> page.logs, done |-> page.done]
      /\ page.id \in Deployment \cup {NoDeployment}
      /\ page.logs \subseteq Deployment \X LogLine
  BY DEF FlInv, FollowerTypes, OneSource, PageLogsAreOwn, Deliver, workerVars
<1>w. w \in Seq(StreamEvent) /\ w # <<>>
  BY <1>0 DEF StreamState
<1>l. /\ Len(w) \in Nat \ {0} /\ e \in StreamEvent /\ Head(w) = e
      /\ Tail(w) \in Seq(StreamEvent) /\ Len(Tail(w)) = Len(w) - 1
      /\ \A i \in 1..(Len(w) - 1) : Tail(w)[i] = w[i + 1]
  BY <1>w
<1>s. /\ SourceIsDone(d) /\ (dstate[d] # "gone" => SourceIsWhole(d))
      /\ conn[d].got = {} /\ ~conn[d].reading
  BY <1>0 DEF FlInv, StreamIsWhole, DoneIsLast, SourceIsDone
<1>1. CASE e.event # "done"
  <2>1. conn' = [conn EXCEPT ![d] = [conn[d] EXCEPT !.wire = Tail(w)]]
    <3>1. conn' = [conn EXCEPT ![d] = IF Head(w).event = "done" THEN NoConn
                                      ELSE [conn[d] EXCEPT !.wire = Tail(w)]]
      BY DEF Deliver
    <3>2. Head(w).event # "done"
      BY <1>1, <1>l
    <3> QED
      BY <3>1, <3>2
  <2>2. /\ conn'[d] \in StreamState /\ conn'[d].wire = Tail(w)
        /\ conn'[d].open /\ conn'[d].last = conn[d].last
        /\ conn'[d].got = conn[d].got /\ conn'[d].reading = conn[d].reading
    BY <1>0, <1>l, <2>1 DEF StreamState
  <2>3. /\ conn' \in [Deployment -> StreamState]
        /\ \A x \in Deployment \ {d} : conn'[x] = conn[x]
    BY <1>0, <2>1, <2>2
  <2>4. /\ page' = [id |-> page.id, shown |-> page'.shown, logs |-> page'.logs, done |-> page.done]
        /\ page'.id = page.id /\ page'.done = page.done
        /\ page'.logs = page.logs \cup (IF e.event = "log" THEN {<<d, n>> : n \in e.seqs} ELSE {})
    <3>1. CASE e.event = "log"
      <4> DEFINE new == {<<d, n>> : n \in e.seqs}
      <4>1. page' = [page EXCEPT !.logs = page.logs \cup new]
        BY <1>l, <3>1 DEF Deliver, OnLog
      <4> HIDE DEF new
      <4>2. page' = [id |-> page.id, shown |-> page.shown, logs |-> page.logs \cup new,
                     done |-> page.done]
        BY <1>0, <4>1
      <4> QED
        BY <3>1, <4>2 DEF new
    <3>2. CASE e.event = "state"
      <4>1. \E row : page' = [page EXCEPT !.shown = row]
        BY <1>l, <3>2 DEF Deliver, OnState
      <4>2. \E row : page' = [id |-> page.id, shown |-> row, logs |-> page.logs, done |-> page.done]
        BY <1>0, <4>1
      <4> QED
        BY <3>2, <4>2
    <3> QED
      BY <1>1, <1>l, <3>1, <3>2 DEF StreamEvent
  <2>5. e.seqs \subseteq LogLine
    BY <1>l DEF StreamEvent
  <2>6. FollowerTypes'
    <3>1. page'.logs \subseteq Deployment \X LogLine
      BY <1>0, <2>4, <2>5
    <3> QED
      BY <1>0, <2>3, <2>4, <3>1 DEF FlInv, FollowerTypes
  <2>7. PageLogsAreOwn'
    BY <1>0, <2>4 DEF PageLogsAreOwn
  <2>8. PageIsDone'
    <3>1. page.done = NoDeployment
      BY <1>0 DEF FlInv, PageIsDone
    <3> QED
      BY <2>4, <3>1 DEF PageIsDone
  <2>a. ASSUME NEW n, OnWire(d, n)
        PROVE  <<d, n>> \in page'.logs \/ OnWire(d, n)'
    <3>1. PICK i \in 1..Len(w) : w[i].event = "log" /\ n \in w[i].seqs
      BY <2>a DEF OnWire
    <3>2. CASE i = 1
      BY <2>4, <3>1, <3>2
    <3>3. CASE i # 1
      <4>1. i - 1 \in 1..Len(Tail(w)) /\ Tail(w)[i - 1] = w[i]
        <5>1. i - 1 \in 1..(Len(w) - 1) /\ (i - 1) + 1 = i
          BY <1>l, <3>3
        <5> QED
          BY <1>l, <5>1
      <4> QED
        BY <2>2, <3>1, <4>1 DEF OnWire
    <3> QED
      BY <3>2, <3>3
  <2>b. dstate[d] # "gone" => SourceIsWhole(d)'
    BY <1>0, <1>s, <2>2, <2>4, <2>a DEF SourceIsWhole
  <2>9. SourceIsDone(d)'
    <3>1. ASSUME NEW i \in 1..Len(Tail(w)), Tail(w)[i].event = "done"
          PROVE  i = Len(Tail(w))
      <4>1. i + 1 \in 1..Len(w) /\ w[i + 1].event = "done"
        BY <1>l, <3>1
      <4>2. i + 1 = Len(w)
        BY <1>s, <4>1 DEF SourceIsDone
      <4> QED
        BY <1>l, <4>2
    <3>2. \A n \in owed : <<d, n>> \in page'.logs \/ OnWire(d, n)'
      BY <1>s, <2>4, <2>a DEF SourceIsDone
    <3> QED
      BY <1>0, <1>s, <2>2, <3>1, <3>2 DEF SourceIsDone
  <2> QED
    BY <1>0, <2>3, <2>4, <2>6, <2>7, <2>8, <2>9, <2>b, OneSourceKeeps
<1>2. CASE e.event = "done"
  <2>1. conn' = [conn EXCEPT ![d] = NoConn] /\ page' = [page EXCEPT !.done = d]
    BY <1>2, <1>l DEF Deliver, OnDone
  <2>2. /\ \A x \in Deployment : ~conn'[x].open
        /\ conn' \in [Deployment -> StreamState]
    BY <1>0, <2>1, ClosedSource
  <2>3. /\ page' = [id |-> d, shown |-> page.shown, logs |-> page.logs, done |-> d]
        /\ page'.id = d /\ page'.logs = page.logs /\ page'.done = d
    BY <1>0, <2>1
  <2>4. FollowerTypes' /\ PageLogsAreOwn'
    BY <1>0, <2>2, <2>3 DEF FlInv, FollowerTypes, PageLogsAreOwn
  <2>5. Len(w) = 1
    <3>1. 1 \in 1..Len(conn[d].wire) /\ conn[d].wire[1].event = "done"
      BY <1>2, <1>l
    <3> QED
      BY <1>s, <3>1 DEF SourceIsDone
  <2>6. \A n : ~OnWire(d, n)
    BY <1>2, <1>l, <2>5 DEF OnWire
  <2>7. \A n \in owed : <<d, n>> \in page.logs
    BY <1>s, <2>6 DEF SourceIsDone
  <2>8. PageIsDone'
    BY <1>0, <2>2, <2>3, <2>7 DEF PageIsDone
  <2> QED
    BY <1>0, <2>2, <2>4, <2>8, OneSourceKeeps
<1> QED
  BY <1>1, <1>2

(* The page moves to another deployment, with a source that has brought    *)
(* nothing yet, or is left.                                                *)
LEMMA ShowRouteKeeps ==
  ASSUME FlInv, NEW d \in Deployment, ShowRoute(d),
         UNCHANGED <<dstate, next, holding, rows, due, follower>>
  PROVE  FlInv'
<1>1. /\ page' = [id |-> d, shown |-> page.shown, logs |-> {}, done |-> NoDeployment]
      /\ page'.id = d /\ page'.logs = {} /\ page'.done = NoDeployment
  BY DEF ShowRoute, NoPage
<1>2. /\ conn' \in [Deployment -> StreamState] /\ owed' = {}
      /\ conn'[d].last = 0 /\ conn'[d].wire = <<>> /\ ~conn'[d].reading /\ conn'[d].got = {}
      /\ \A x \in Deployment \ {d} : ~conn'[x].open
  <2>1. PICK b \in BOOLEAN : conn' = [NoConns EXCEPT ![d] = Source(b)]
    BY DEF ShowRoute
  <2>2. /\ Source(b) \in StreamState /\ Source(b).last = 0 /\ Source(b).wire = <<>>
        /\ ~Source(b).reading /\ Source(b).got = {}
    BY DEF Source, StreamState, RowState
  <2>3. owed' = {}
    BY DEF ShowRoute
  <2> QED
    BY <2>1, <2>2, <2>3, ClosedSource DEF NoConns
<1>3. FollowerTypes' /\ PageLogsAreOwn' /\ PageIsDone'
  BY <1>1, <1>2 DEF FlInv, FollowerTypes, PageLogsAreOwn, PageIsDone
<1>4. SourceIsDone(d)'
  <2>1. 1..Len(conn'[d].wire) = {}
    BY <1>2
  <2> QED
    BY <1>2, <2>1, Zenon DEF SourceIsDone
<1>5. SourceIsWhole(d)'
  <2>1. \A n \in due[d] \cup {0} : n = 0 \/ n > 0
    BY LinesOf
  <2> QED
    BY <1>2, <2>1 DEF SourceIsWhole
<1> QED
  BY <1>1, <1>2, <1>3, <1>4, <1>5, OneSourceKeeps

(* The page is left, and its source with it.                               *)
LEMMA LeavePageKeeps ==
  ASSUME FlInv, LeavePage, UNCHANGED <<dstate, next, holding, rows, due, follower>>
  PROVE  FlInv'
<1>0. \E d \in Deployment : TRUE
  BY FollowAssumption
<1>1. /\ page' = [id |-> NoDeployment, shown |-> Nothing, logs |-> {}, done |-> NoDeployment]
      /\ page'.id = NoDeployment /\ page'.logs = {} /\ page'.done = NoDeployment
  BY DEF LeavePage, NoPage
<1>2. conn' \in [Deployment -> StreamState] /\ \A x \in Deployment : ~conn'[x].open
  BY ClosedSource DEF LeavePage, NoConns
<1>3. FollowerTypes' /\ PageLogsAreOwn' /\ PageIsDone'
  BY <1>1, <1>2 DEF FlInv, FollowerTypes, PageLogsAreOwn, PageIsDone
<1> QED
  BY <1>0, <1>2, <1>3, OneSourceKeeps

(* Nothing of a source, a log or a row changes.                            *)
LEMMA PageRests ==
  ASSUME FlInv, UNCHANGED <<dstate, next, holding, rows, due, conn, owed, page, follower>>
  PROVE  FlInv'
<1>1. FollowerTypes' /\ OneSource' /\ PageIsDone' /\ StreamIsWhole' /\ DoneIsLast'
  BY DEF FlInv, FollowerTypes, OneSource, PageLogsAreOwn, PageIsDone, StreamIsWhole,
         SourceIsWhole, OnWire, DoneIsLast, SourceIsDone
<1> QED
  BY <1>1, RowsRest DEF FlInv

(* A source that breaks says nothing any more, "done" neither.             *)
LEMMA BreakKeeps ==
  ASSUME FlInv, NEW d \in Deployment, Break(d)
  PROVE  FlInv'
<1>1. /\ conn' = [conn EXCEPT ![d] = NoConn] /\ owed' = {}
      /\ UNCHANGED <<dstate, next, holding, rows, due, page, follower>>
  BY DEF Break, workerVars
<1>2. /\ conn' \in [Deployment -> StreamState] /\ ~conn'[d].open
      /\ \A x \in Deployment \ {d} : conn'[x] = conn[x]
  BY <1>1, ClosedSource DEF FlInv, FollowerTypes
<1>3. FollowerTypes' /\ PageLogsAreOwn' /\ PageIsDone'
  BY <1>1, <1>2 DEF FlInv, FollowerTypes, OneSource, PageLogsAreOwn, PageIsDone
<1>4. \A x \in Deployment \ {d} : ~conn'[x].open
  BY <1>2 DEF FlInv, OneSource, Break
<1> QED
  BY <1>1, <1>2, <1>3, <1>4, OneSourceKeeps

(* An answer changes what is shown, not the lines.                         *)
LEMMA ShowReplyKeeps ==
  ASSUME FlInv, NEW r, ShowReply(r)
  PROVE  FlInv'
<1>1. /\ page' = [page EXCEPT !.shown = r]
      /\ UNCHANGED <<dstate, next, holding, rows, due, conn, owed, follower>>
  BY DEF ShowReply, workerVars
<1>2. /\ page' = [id |-> page.id, shown |-> r, logs |-> page.logs, done |-> page.done]
      /\ page'.id = page.id /\ page'.logs = page.logs /\ page'.done = page.done
  BY <1>1 DEF FlInv, FollowerTypes
<1>3. FollowerTypes' /\ OneSource' /\ PageIsDone'
  BY <1>1, <1>2 DEF FlInv, FollowerTypes, OneSource, PageLogsAreOwn, PageIsDone
<1>4. StreamIsWhole' /\ DoneIsLast'
  BY <1>1, <1>2 DEF FlInv, StreamIsWhole, SourceIsWhole, OnWire, DoneIsLast, SourceIsDone
<1> QED
  BY <1>1, <1>3, <1>4, RowsRest DEF FlInv

(* Only the command goes on.                                               *)
LEMMA CommandGoesOn ==
  ASSUME FlInv, UNCHANGED <<dstate, next, holding, rows, due, conn, owed, page>>,
         follower' = [since |-> follower'.since, printed |-> follower'.printed,
                      step |-> follower'.step, state |-> follower'.state],
         follower'.since \in LogLine \cup {0}, follower'.step \in {"polling", "last", "done"},
         CommandIsWhole'
  PROVE  FlInv'
<1>1. FollowerTypes'
  BY DEF FlInv, FollowerTypes
<1>2. OneSource' /\ PageIsDone' /\ StreamIsWhole' /\ DoneIsLast'
  BY DEF FlInv, OneSource, PageLogsAreOwn, PageIsDone, StreamIsWhole, SourceIsWhole, OnWire,
         DoneIsLast, SourceIsDone
<1> QED
  BY <1>1, <1>2, RowsRest DEF FlInv

(* The command reads the state of the build.                               *)
LEMMA CliPollKeeps ==
  ASSUME FlInv, CliPoll
  PROVE  FlInv'
<1>1. /\ follower = [since |-> follower.since, printed |-> follower.printed,
                     step |-> follower.step, state |-> follower.state]
      /\ follower.since \in LogLine \cup {0} /\ follower.step = "polling"
      /\ dstate[Followed] = "gone" => due[Followed] = {}
      /\ UNCHANGED <<dstate, next, holding, rows, due, conn, owed, page>>
  BY FollowAssumption DEF FlInv, FollowerTypes, DueAreRows, CliPoll, workerVars
<1>2. CliStates \subseteq Terminal
  BY DEF CliStates, Terminal
<1>3. CASE dstate[Followed] = "gone"
  <2>1. follower' = [since |-> follower.since, printed |-> follower.printed,
                     step |-> "done", state |-> follower.state]
    BY <1>1, <1>3 DEF CliPoll
  <2> HIDE DEF FlInv, CommandIsWhole
  <2>2. /\ follower'.since = follower.since /\ follower'.step = "done"
        /\ follower' = [since |-> follower'.since, printed |-> follower'.printed,
                        step |-> follower'.step, state |-> follower'.state]
    BY <2>1
  <2>3. CommandIsWhole'
    BY <1>1, <1>3, <2>2 DEF CommandIsWhole
  <2> QED
    BY <1>1, <2>2, <2>3, CommandGoesOn
<1>4. CASE dstate[Followed] # "gone"
  <2>1. follower' = [since |-> follower.since, printed |-> follower.printed,
                     step |-> "polling", state |-> dstate[Followed]]
    BY <1>1, <1>4 DEF CliPoll
  <2>2. /\ follower'.since = follower.since /\ follower'.printed = follower.printed
        /\ follower'.step = "polling" /\ follower'.state = dstate[Followed]
        /\ follower' = [since |-> follower'.since, printed |-> follower'.printed,
                        step |-> follower'.step, state |-> follower'.state]
    BY <2>1
  <2>3. CommandIsWhole'
    BY <1>1, <1>2, <1>4, <2>2 DEF FlInv, CommandIsWhole
  <2> QED
    BY <1>1, <2>2, <2>3, CommandGoesOn
<1> QED
  BY <1>3, <1>4

(* The command prints the new rows, and stops if the state says so.        *)
LEMMA CliLinesKeeps ==
  ASSUME FlInv, CliLines
  PROVE  FlInv'
<1> DEFINE since == follower.since
           fresh == {n \in rows[Followed] : n > since}
           newest == Max(fresh \cup {since})
           step == IF follower.state \in CliStates THEN "last" ELSE "polling"
<1>1. /\ follower' = [since |-> newest, printed |-> follower.printed \cup fresh, step |-> step,
                      state |-> "none"]
      /\ follower.step = "polling"
      /\ UNCHANGED <<dstate, next, holding, rows, due, conn, owed, page>>
  BY DEF CliLines, workerVars
<1>2. /\ rows[Followed] \subseteq LogLine /\ due[Followed] \subseteq rows[Followed]
      /\ LogLine \subseteq Nat /\ 0 \notin LogLine /\ 0 \in Nat
      /\ since \in LogLine \/ since = 0
      /\ dstate[Followed] = "gone" => rows[Followed] = {}
  BY FollowAssumption, LinesOf DEF FlInv, FollowerTypes, DueAreRows
<1>3. fresh \subseteq LogLine /\ fresh \subseteq rows[Followed]
  BY <1>2
<1>4. newest \in fresh \cup {since} /\ \A n \in fresh \cup {since} : n <= newest
  BY <1>2, <1>3, MaxOfLines
<1> HIDE DEF newest, fresh, step
<1>5. /\ follower'.since = newest /\ follower'.printed = follower.printed \cup fresh
      /\ follower'.step = step /\ follower'.state = "none"
      /\ follower' = [since |-> follower'.since, printed |-> follower'.printed,
                      step |-> follower'.step, state |-> follower'.state]
  BY <1>1
<1>6. step \in {"polling", "last"} /\ (step = "last" => follower.state \in CliStates)
  BY DEF step
<1>7. "none" \notin CliStates
  BY DEF CliStates
<1>8. newest \in LogLine \cup {0}
  BY <1>2, <1>3, <1>4
<1>9. CommandIsWhole'
  <2>1. ASSUME dstate[Followed] # "gone"
        PROVE  /\ since \in rows[Followed] \cup {0}
               /\ \A n \in due[Followed] \cup {since} :
                    n = 0 \/ n > since \/ n \in follower.printed
               /\ follower.state \in CliStates => dstate[Followed] \in Terminal
    BY <1>1, <2>1 DEF FlInv, CommandIsWhole
  <2>2. since \in Nat
    BY <1>2, Zenon
  <2>3. \A n \in rows[Followed] : n <= since \/ n \in fresh
    <3>1. rows[Followed] \subseteq Nat
      BY <1>2
    <3> QED
      BY <2>2, <3>1 DEF fresh
  <2>4. newest = since \/ newest \in fresh
    BY <1>4
  <2> HIDE DEF since
  <2>5. ASSUME dstate[Followed] # "gone", NEW n \in due[Followed] \cup {newest}
        PROVE  n = 0 \/ n \in follower'.printed
    <3>1. CASE n \in fresh
      BY <1>5, <3>1
    <3>2. CASE n \notin fresh
      <4>1. n = since \/ (n \in due[Followed] /\ n <= since)
        BY <1>2, <2>3, <2>4, <2>5, <3>2
      <4>2. n \in Nat
        BY <1>2, <2>2, <4>1
      <4> QED
        BY <1>5, <2>1, <2>2, <2>5, <4>1, <4>2
    <3> QED
      BY <3>1, <3>2
  <2>6. dstate[Followed] # "gone" => newest \in rows[Followed] \cup {0}
    BY <1>3, <2>1, <2>4
  <2>7. due[Followed] \subseteq follower'.printed
    <3>1. CASE dstate[Followed] = "gone"
      BY <1>2, <3>1
    <3>2. CASE dstate[Followed] # "gone"
      BY <1>2, <2>5, <3>2
    <3> QED
      BY <3>1, <3>2
  <2> QED
    BY <1>1, <1>5, <1>6, <1>7, <2>1, <2>5, <2>6, <2>7 DEF CommandIsWhole
<1> QED
  BY <1>1, <1>5, <1>6, <1>8, <1>9, CommandGoesOn

(* The last message of the command.                                        *)
LEMMA CliLastKeeps ==
  ASSUME FlInv, CliLast
  PROVE  FlInv'
<1>1. /\ follower' = [follower EXCEPT !.step = "done"] /\ follower.step = "last"
      /\ UNCHANGED <<dstate, next, holding, rows, due, conn, owed, page>>
  BY DEF CliLast, workerVars
<1>2. /\ follower' = [since |-> follower.since, printed |-> follower.printed, step |-> "done",
                      state |-> follower.state]
      /\ follower.since \in LogLine \cup {0}
  BY <1>1 DEF FlInv, FollowerTypes
<1>3. /\ follower'.since = follower.since /\ follower'.printed = follower.printed
      /\ follower'.step = "done"
      /\ follower' = [since |-> follower'.since, printed |-> follower'.printed,
                      step |-> follower'.step, state |-> follower'.state]
  BY <1>2
<1>4. CommandIsWhole'
  BY <1>1, <1>3 DEF FlInv, CommandIsWhole
<1> QED
  BY <1>1, <1>2, <1>3, <1>4, CommandGoesOn

-----------------------------------------------------------------------------
(* The invariant holds at the start: no row is written.                    *)
LEMMA FollowStart ==
  ASSUME FollowInit
  PROVE  FlInv
<1>0. LogLine \subseteq Nat /\ 1 \in LogLine /\ MaxRows \in Nat /\ 0 \in 0..MaxRows
  BY FollowAssumption DEF LogLine
<1>1. RowTypes
  BY <1>0 DEF FollowInit, RowTypes, RowState, ActiveStates
<1>2. FollowerTypes
  <2>1. conn \in [Deployment -> StreamState]
    BY ClosedSource DEF FollowInit
  <2>2. /\ page = [id |-> page.id, shown |-> page.shown, logs |-> page.logs, done |-> page.done]
        /\ page.id = NoDeployment /\ page.logs = {}
    BY DEF FollowInit, NoPage
  <2>3. /\ follower = [since |-> follower.since, printed |-> follower.printed,
                       step |-> follower.step, state |-> follower.state]
        /\ follower.since = 0 /\ follower.step \in {"polling", "off"}
    BY DEF FollowInit
  <2> QED
    BY <2>1, <2>2, <2>3 DEF FollowerTypes
<1>3. OneSource /\ DueAreRows /\ StreamIsWhole /\ DoneIsLast
  BY ClosedSource DEF FollowInit, OneSource, PageLogsAreOwn, NoPage, DueAreRows,
                      StreamIsWhole, DoneIsLast
<1>4. PageIsDone
  BY DEF FollowInit, PageIsDone, NoPage
<1>5. CommandIsWhole
  BY FollowAssumption DEF FollowInit, CommandIsWhole, CliStates
<1> QED
  BY <1>1, <1>2, <1>3, <1>4, <1>5 DEF FlInv

(* Every step of the worker, the page and the command keeps the invariant. *)
LEMMA FollowStep ==
  ASSUME FlInv, [PageNext \/ CommandNext]_followVars
  PROVE  FlInv'
<1>1. CASE UNCHANGED followVars
  BY <1>1, PageRests DEF followVars, workerVars
<1>2. CASE Build(Followed)
  BY <1>2, BuildKeeps
<1>3. ASSUME NEW d \in Deployment, ReadLines(d) \/ StreamTick(d) \/ Deliver(d) \/ Break(d)
      PROVE  FlInv'
  BY <1>3, ReadLinesKeeps, StreamTickKeeps, DeliverKeeps, BreakKeeps
<1>4. ASSUME NEW d \in Deployment, OpenPage(d)
      PROVE  FlInv'
  BY <1>4, ShowRouteKeeps DEF OpenPage, workerVars
<1>5. CASE GoElsewhere
  BY <1>5, LeavePageKeeps DEF GoElsewhere, workerVars
<1>6. CASE ServeAct
  <2>1. CASE ActRefused
    BY <2>1, PageRests DEF ActRefused, workerVars
  <2>2. CASE ~ActRefused
    <3>1. /\ dstate[act.of] # "gone" /\ UNCHANGED <<next, holding, conn, owed, page, follower>>
          /\ \/ Redeploy(act.of) \/ Promote(act.of) \/ Delete(act.of)
             \/ dstate[act.of] # "gone" /\ Cancel(act.of)
      BY <1>6, <2>2 DEF ServeAct, NoLogChange, ActAnswered
    <3> QED
      BY <3>1, ServedKeeps
  <2> QED
    BY <2>1, <2>2
<1>7. CASE FinishAct
  <2>1. UNCHANGED <<dstate, next, holding, rows, due, follower>>
    BY <1>7 DEF FinishAct, workerVars
  <2>2. \/ \E d \in Deployment : ShowRoute(d)
        \/ LeavePage \/ UNCHANGED <<conn, owed, page>>
    BY <1>7 DEF FinishAct
  <2> QED
    BY <2>1, <2>2, ShowRouteKeeps, LeavePageKeeps, PageRests
<1>8. ASSUME NEW r, ShowReply(r)
      PROVE  FlInv'
  BY <1>8, ShowReplyKeeps
<1>9. ASSUME NEW kind, Press(kind)
      PROVE  FlInv'
  BY <1>9, PageRests DEF Press, workerVars
<1>a. CASE Others(Followed)
  BY <1>a, ServedKeeps DEF Others, NoLogChange
<1>b. CASE CliPoll \/ CliLines \/ CliLast
  BY <1>b, CliPollKeeps, CliLinesKeeps, CliLastKeeps
<1> QED
  BY <1>1, <1>2, <1>3, <1>4, <1>5, <1>6, <1>7, <1>8, <1>9, <1>a, <1>b DEF PageNext, CommandNext

-----------------------------------------------------------------------------
(* Following a build: types                                                *)

(* The call of a button is about a deployment that was shown.              *)
Somebody == Deployment \cup {NoDeployment}
ActState ==
  [kind : Buttons \cup {"none"}, of : Somebody, phase : {"sent", "answered"}, mounted : BOOLEAN]
ActTyped ==
  /\ page.shown.of \in Somebody /\ act \in ActState
  /\ \A r \in replies : r.of \in Somebody

(* What is on the wire is typed.                                           *)
LEMMA HeadTyped ==
  ASSUME FlInv, NEW d \in Deployment, conn[d].wire # <<>>
  PROVE  Head(conn[d].wire).row.of \in Somebody
<1>1. conn[d] \in StreamState
  BY DEF FlInv, FollowerTypes
<1>2. conn[d].wire \in Seq(StreamEvent)
  BY <1>1 DEF StreamState
<1>3. Head(conn[d].wire) \in StreamEvent
  BY <1>2
<1> QED
  BY <1>3 DEF StreamEvent, ShownRow, Somebody

(* The calls of the buttons are of deployments, whatever is shown when.    *)
LEMMA ActTypedStep ==
  ASSUME FlInv, ActTyped, [PageNext \/ CommandNext]_followVars
  PROVE  ActTyped'
<1>1. ASSUME UNCHANGED <<page, act, replies>>
      PROVE  ActTyped'
  BY <1>1 DEF ActTyped
<1>2. NoDeployment \in Somebody /\ Deployment \subseteq Somebody
  BY DEF Somebody
<1>3. NoPage.shown.of = NoDeployment /\ NoAct.of = NoDeployment
  BY DEF NoPage, Nothing, NoAct
<1>4. page = [id |-> page.id, shown |-> page.shown, logs |-> page.logs, done |-> page.done]
  BY DEF FlInv, FollowerTypes
<1>5. ASSUME NEW d \in Somebody, AskDeployment(d)
      PROVE  \A r \in replies' : r.of \in Somebody
  BY <1>5 DEF AskDeployment, RowOf, ActTyped
<1>6. ASSUME NEW d \in Deployment, ShowRoute(d), act' \in ActState
      PROVE  ActTyped'
  <2>1. page'.shown = page.shown
    BY <1>6 DEF ShowRoute, NoPage
  <2> QED
    BY <1>2, <1>5, <1>6, <2>1 DEF ShowRoute, ActTyped
<1>7. CASE UNCHANGED followVars
  BY <1>1, <1>7 DEF followVars
<1>8. CASE Build(Followed) \/ Others(Followed) \/ CliPoll \/ CliLines \/ CliLast
  BY <1>1, <1>8 DEF Build, StartBuilding, TakeNumber, AppendRow, PublishNote, Finish, Rest, Others,
                    CliPoll, CliLines, CliLast
<1>9. ASSUME NEW d \in Deployment, ReadLines(d) \/ StreamTick(d) \/ Break(d)
      PROVE  ActTyped'
  BY <1>1, <1>9 DEF ReadLines, StreamTick, Break
<1>a. ASSUME NEW d \in Deployment, Deliver(d)
      PROVE  ActTyped'
  <2>1. Head(conn[d].wire).row.of \in Somebody
    BY <1>a, HeadTyped DEF Deliver
  <2>2. \/ OnLog(d, Head(conn[d].wire).seqs) \/ OnState(Head(conn[d].wire).row) \/ OnDone(d)
    <3>1. Head(conn[d].wire).event \in {"log", "state", "done"}
      <4>1. conn[d].wire \in Seq(StreamEvent) /\ conn[d].wire # <<>>
        BY <1>a DEF Deliver, FlInv, FollowerTypes, StreamState
      <4>2. Head(conn[d].wire) \in StreamEvent
        BY <4>1
      <4> QED
        BY <4>2 DEF StreamEvent
    <3> QED
      BY <1>a, <3>1 DEF Deliver
  <2>3. UNCHANGED act
    BY <1>a DEF Deliver
  <2>4. CASE OnLog(d, Head(conn[d].wire).seqs)
    BY <1>4, <2>3, <2>4 DEF OnLog, ActTyped
  <2>5. CASE OnState(Head(conn[d].wire).row)
    BY <1>4, <2>1, <2>3, <2>5 DEF OnState, ActTyped
  <2>6. CASE OnDone(d)
    <3>1. page'.shown = page.shown /\ \A r \in replies' : r.of \in Somebody
      BY <1>2, <1>4, <1>5, <2>6 DEF OnDone
    <3> QED
      BY <2>3, <3>1 DEF ActTyped
  <2> QED
    BY <2>2, <2>4, <2>5, <2>6
<1>b. ASSUME NEW d \in Deployment, OpenPage(d)
      PROVE  ActTyped'
  BY <1>6, <1>b DEF OpenPage, ActTyped
<1>c. ASSUME LeavePage, act' \in ActState
      PROVE  ActTyped'
  BY <1>2, <1>3, <1>c DEF LeavePage, ActTyped
<1>h. /\ act \in ActState /\ NoAct \in ActState
      /\ [act EXCEPT !.mounted = FALSE] \in ActState
      /\ [act EXCEPT !.phase = "answered"] \in ActState
  BY <1>2 DEF ActTyped, ActState, NoAct
<1>d. CASE GoElsewhere
  BY <1>c, <1>d, <1>h DEF GoElsewhere
<1>i. CASE ServeAct
  <2>1. act' \in ActState /\ UNCHANGED <<page, replies>>
    BY <1>h, <1>i DEF ServeAct, ActAnswered, ActRefused
  <2> QED
    BY <2>1 DEF ActTyped
<1>e. CASE FinishAct
  <2>1. act' \in ActState
    BY <1>h, <1>e DEF FinishAct
  <2>2. \/ \E d \in Deployment : ShowRoute(d)
        \/ AskDeployment(act.of) /\ UNCHANGED <<conn, page>>
        \/ LeavePage \/ UNCHANGED <<conn, page, replies>>
    BY <1>e DEF FinishAct
  <2>3. act.of \in Somebody
    BY <1>h DEF ActState
  <2> QED
    BY <1>5, <1>6, <1>c, <2>1, <2>2, <2>3 DEF ActTyped
<1>f. ASSUME NEW r \in replies, ShowReply(r)
      PROVE  ActTyped'
  BY <1>4, <1>f DEF ShowReply, ActTyped
<1>g. ASSUME NEW kind \in Buttons, Press(kind)
      PROVE  ActTyped'
  BY <1>g DEF Press, ActTyped, ActState
<1> QED
  BY <1>7, <1>8, <1>9, <1>a, <1>b, <1>d, <1>e, <1>f, <1>g, <1>i
     DEF PageNext, CommandNext

(* No button has been pressed at the start.                                *)
LEMMA ActTypedStart == FollowInit => ActTyped
  BY DEF FollowInit, NoPage, Nothing, NoAct, Somebody, ActState, ActTyped

(* The types the followers have are those they should.                     *)
LEMMA FollowersTyped == FlInv /\ ActTyped => FollowTypeOK
  BY DEF FlInv, RowTypes, FollowerTypes, OneSource, ActTyped, ActState, Somebody, RowState, LogLine,
         FollowTypeOK

-----------------------------------------------------------------------------
(* The bell                                                                *)

NoteList == [listed : SUBSET Note, unread : SUBSET Note, pending : SUBSET Offers]
BellState ==
  [list : NoteList, count : 0..Cardinality(Note), open : BOOLEAN, busy : Note \cup {NoNote}]
BellCall ==
  [kind : {"read", "read-all", "respond"}, note : Note \cup {NoNote},
   phase : {"sent", "ok", "refused"}]

FewPolls == polls \subseteq NoteList /\ IsFiniteSet(polls) /\ Cardinality(polls) <= MaxPolls
FewCalls == calls \subseteq BellCall /\ IsFiniteSet(calls) /\ Cardinality(calls) <= MaxCalls
BellInv == inbox \in NoteList /\ bell \in BellState /\ FewPolls /\ FewCalls

(* A user has finitely many notifications.                                 *)
LEMMA NotesAreFinite ==
  /\ Cardinality(Note) \in Nat /\ MaxPolls \in Nat /\ MaxCalls \in Nat
  /\ \A S \in SUBSET Note : Cardinality(S) \in 0..Cardinality(Note)
<1>1. IsFiniteSet(Note) /\ MaxPolls \in Nat /\ MaxCalls \in Nat
  BY BellAssumption
<1>2. Cardinality(Note) \in Nat
  BY <1>1, FS_CardinalityType
<1>3. ASSUME NEW S \in SUBSET Note
      PROVE  Cardinality(S) \in 0..Cardinality(Note)
  <2>1. IsFiniteSet(S) /\ Cardinality(S) <= Cardinality(Note)
    BY <1>1, FS_Subset
  <2>2. Cardinality(S) \in Nat
    BY <2>1, FS_CardinalityType
  <2> QED
    BY <1>2, <2>1, <2>2
<1> QED
  BY <1>1, <1>2, <1>3

(* Marking and resolving notifications keeps the types of a list.          *)
LEMMA MarksTyped ==
  ASSUME NEW l \in NoteList, NEW n, NEW S
  PROVE  ReadIn(l, S) \in NoteList /\ ResolvedIn(l, n) \in NoteList
  BY DEF NoteList, ReadIn, ResolvedIn

(* One less on the badge, and what a GET brings.                           *)
LEMMA BadgeTyped ==
  ASSUME bell \in BellState
  PROVE  /\ OneLess(bell.count) \in 0..Cardinality(Note) /\ 0 \in 0..Cardinality(Note)
         /\ \A s \in NoteList : Loaded(s) \in BellState
<1>1. bell.count \in 0..Cardinality(Note) /\ Cardinality(Note) \in Nat
  BY NotesAreFinite DEF BellState
<1>2. OneLess(bell.count) \in 0..Cardinality(Note) /\ 0 \in 0..Cardinality(Note)
  BY <1>1 DEF OneLess
<1>3. ASSUME NEW s \in NoteList
      PROVE  Loaded(s) \in BellState
  <2>1. Cardinality(s.unread) \in 0..Cardinality(Note)
    BY NotesAreFinite DEF NoteList
  <2> QED
    BY <2>1 DEF Loaded, BellState
<1> QED
  BY <1>2, <1>3

(* A call is answered or fails: it goes, or another takes its place.       *)
LEMMA CallsReplaced ==
  ASSUME FewCalls, NEW c \in calls, NEW d \in BellCall,
         calls' \in {calls \ {c}, (calls \ {c}) \cup {d}}
  PROVE  FewCalls'
<1>1. /\ IsFiniteSet(calls \ {c}) /\ Cardinality(calls \ {c}) = Cardinality(calls) - 1
      /\ Cardinality(calls) \in Nat
  BY FS_RemoveElement, FS_CardinalityType DEF FewCalls
<1>2. /\ IsFiniteSet((calls \ {c}) \cup {d})
      /\ \/ Cardinality((calls \ {c}) \cup {d}) = Cardinality(calls \ {c})
         \/ Cardinality((calls \ {c}) \cup {d}) = Cardinality(calls \ {c}) + 1
  BY <1>1, FS_AddElement
<1>3. /\ Cardinality(calls \ {c}) <= MaxCalls /\ Cardinality((calls \ {c}) \cup {d}) <= MaxCalls
  BY <1>1, <1>2, NotesAreFinite DEF FewCalls
<1>4. calls' \subseteq BellCall
  BY DEF FewCalls
<1> QED
  BY <1>1, <1>2, <1>3, <1>4 DEF FewCalls

(* A call is sent.                                                         *)
LEMMA CallSent ==
  ASSUME FewCalls, NEW kind \in {"read", "read-all", "respond"}, NEW n \in Note \cup {NoNote},
         Call(kind, n)
  PROVE  FewCalls'
<1> DEFINE c == [kind |-> kind, note |-> n, phase |-> "sent"]
<1>1. c \in BellCall /\ calls' = calls \cup {c} /\ Cardinality(calls) < MaxCalls
  BY DEF Call, BellCall
<1> HIDE DEF c
<1>2. /\ IsFiniteSet(calls \cup {c})
      /\ \/ Cardinality(calls \cup {c}) = Cardinality(calls)
         \/ Cardinality(calls \cup {c}) = Cardinality(calls) + 1
      /\ Cardinality(calls) \in Nat
  BY FS_AddElement, FS_CardinalityType DEF FewCalls
<1> QED
  BY <1>1, <1>2, NotesAreFinite DEF FewCalls

(* A GET is sent, or answered or lost.                                     *)
LEMMA PollsChange ==
  ASSUME FewPolls, inbox \in NoteList, AskBell \/ polls' \in SUBSET polls
  PROVE  FewPolls'
<1>1. CASE AskBell
  <2>1. IsFiniteSet(polls \cup {inbox})
    BY FS_AddElement DEF FewPolls
  <2> QED
    BY <1>1, <2>1 DEF AskBell, FewPolls
<1>2. CASE polls' \in SUBSET polls
  <2>1. /\ IsFiniteSet(polls') /\ Cardinality(polls') <= Cardinality(polls)
        /\ Cardinality(polls') \in Nat /\ Cardinality(polls) \in Nat
    BY <1>2, FS_Subset, FS_CardinalityType DEF FewPolls
  <2> QED
    BY <1>2, <2>1, NotesAreFinite DEF FewPolls
<1> QED
  BY <1>1, <1>2

(* The steps of the server keep the types.                                 *)
LEMMA BellServerKeeps ==
  ASSUME BellInv,
         \/ \E n \in Note : Notify(n) \/ Withdraw(n)
         \/ \E c \in calls : ServeBell(c) \/ Fails(c)
  PROVE  BellInv'
<1>1. ASSUME NEW n \in Note, Notify(n) \/ Withdraw(n)
      PROVE  BellInv'
  <2>1. inbox' \in NoteList
    <3>1. CASE Notify(n)
      BY <3>1 DEF Notify, BellInv, NoteList
    <3>2. CASE Withdraw(n)
      BY <3>2, MarksTyped DEF Withdraw, BellInv
    <3> QED
      BY <1>1, <3>1, <3>2
  <2> QED
    BY <1>1, <2>1 DEF Notify, Withdraw, BellInv, FewPolls, FewCalls
<1>2. ASSUME NEW c \in calls, ServeBell(c) \/ Fails(c)
      PROVE  BellInv'
  <2>1. c \in BellCall
    BY <1>2 DEF BellInv, FewCalls
  <2>2. /\ [c EXCEPT !.phase = "ok"] \in BellCall
        /\ [c EXCEPT !.phase = "refused"] \in BellCall
    BY <2>1 DEF BellCall
  <2>3. PICK d \in BellCall : calls' \in {calls \ {c}, (calls \ {c}) \cup {d}}
    <3>1. CASE ServeBell(c)
      BY <2>1, <2>2, <3>1 DEF ServeBell, BellCall
    <3>2. CASE Fails(c)
      BY <2>2, <3>2 DEF Fails
    <3> QED
      BY <1>2, <3>1, <3>2
  <2>4. FewCalls'
    BY <2>3, CallsReplaced DEF BellInv
  <2>5. inbox' \in NoteList /\ UNCHANGED <<bell, polls>>
    <3>1. \A S, n : ReadIn(inbox, S) \in NoteList /\ ResolvedIn(inbox, n) \in NoteList
      BY MarksTyped DEF BellInv
    <3>2. CASE ServeBell(c)
      <4>1. c.kind \in {"read", "read-all", "respond"}
        BY <2>1 DEF BellCall
      <4>2. \/ inbox' = ReadIn(inbox, {c.note}) \/ inbox' = ReadIn(inbox, Note)
            \/ inbox' = ResolvedIn(inbox, c.note)
        BY <3>2, <4>1 DEF ServeBell
      <4> QED
        BY <3>1, <3>2, <4>2 DEF ServeBell
    <3>3. CASE Fails(c)
      BY <3>3 DEF Fails, BellInv
    <3> QED
      BY <1>2, <3>2, <3>3
  <2> QED
    BY <2>4, <2>5 DEF BellInv, FewPolls
<1> QED
  BY <1>1, <1>2

(* The steps of the component keep the types.                              *)
LEMMA BellPageKeeps ==
  ASSUME BellInv,
         \/ Poll \/ OpenPanel \/ ClosePanel \/ MarkAllRead
         \/ \E n \in Note : OpenNotification(n) \/ RespondToTransfer(n)
         \/ \E c \in calls : Responded(c)
         \/ \E s \in polls : ShowLoaded(s) \/ LoadFails(s)
  PROVE  BellInv'
<1>1. inbox \in NoteList /\ bell \in BellState /\ bell.list \in NoteList /\ FewPolls /\ FewCalls
  BY DEF BellInv, BellState
<1>2. ASSUME inbox' = inbox, bell' \in BellState, AskBell \/ polls' \in SUBSET polls, FewCalls'
      PROVE  BellInv'
  BY <1>1, <1>2, PollsChange DEF BellInv
<1>3. ASSUME UNCHANGED calls
      PROVE  FewCalls'
  BY <1>1, <1>3 DEF FewCalls
<1>4. /\ \A b \in BOOLEAN : [bell EXCEPT !.open = b] \in BellState
      /\ \A n \in Note \cup {NoNote} : [bell EXCEPT !.busy = n] \in BellState
      /\ \A n \in Note : MarkedLocally(n) \in BellState
  <2>1. \A n : ReadIn(bell.list, {n}) \in NoteList
    BY <1>1, MarksTyped
  <2> QED
    BY <1>1, <2>1, BadgeTyped DEF BellState, MarkedLocally
<1>5. CASE Poll
  BY <1>1, <1>2, <1>3, <1>5 DEF Poll
<1>6. CASE OpenPanel \/ ClosePanel
  BY <1>1, <1>2, <1>3, <1>4, <1>6 DEF OpenPanel, ClosePanel
<1>7. CASE MarkAllRead
  <2>1. [bell EXCEPT !.list = ReadIn(bell.list, Note), !.count = 0] \in BellState
    BY <1>1, MarksTyped, BadgeTyped DEF BellState
  <2>2. FewCalls'
    BY <1>1, <1>7, CallSent DEF MarkAllRead
  <2> QED
    BY <1>2, <1>7, <2>1, <2>2 DEF MarkAllRead
<1>8. ASSUME NEW n \in Note, OpenNotification(n)
      PROVE  BellInv'
  <2>1. PICK leads \in BOOLEAN :
          \/ bell' = [MarkedLocally(n) EXCEPT !.open = ~leads] /\ Call("read", n)
          \/ bell' = [bell EXCEPT !.open = ~leads] /\ UNCHANGED calls
    BY <1>8 DEF OpenNotification
  <2>2. /\ [MarkedLocally(n) EXCEPT !.open = ~leads] \in BellState
        /\ [bell EXCEPT !.open = ~leads] \in BellState
    BY <1>4 DEF BellState
  <2>3. bell' \in BellState /\ FewCalls'
    BY <1>1, <1>3, <2>1, <2>2, CallSent
  <2> QED
    BY <1>2, <1>8, <2>3 DEF OpenNotification
<1>9. ASSUME NEW n \in Note, RespondToTransfer(n)
      PROVE  BellInv'
  BY <1>1, <1>2, <1>4, <1>9, CallSent DEF RespondToTransfer
<1>a. ASSUME NEW c \in calls, Responded(c)
      PROVE  BellInv'
  <2>1. [bell EXCEPT !.list = ResolvedIn(bell.list, c.note), !.count = OneLess(bell.count),
                     !.busy = NoNote] \in BellState
    BY <1>1, MarksTyped, BadgeTyped DEF BellState
  <2>2. bell' \in BellState
    BY <1>4, <1>a, <2>1 DEF Responded
  <2>3. c \in BellCall
    BY <1>1 DEF FewCalls
  <2>4. FewCalls'
    BY <1>1, <1>a, <2>3, CallsReplaced DEF Responded
  <2> QED
    BY <1>2, <1>a, <2>2, <2>4 DEF Responded
<1>b. ASSUME NEW s \in polls, ShowLoaded(s) \/ LoadFails(s)
      PROVE  BellInv'
  <2>1. bell' \in BellState
    BY <1>1, <1>b, BadgeTyped DEF ShowLoaded, LoadFails, FewPolls
  <2> QED
    BY <1>2, <1>3, <1>b, <2>1 DEF ShowLoaded, LoadFails
<1> QED
  BY <1>5, <1>6, <1>7, <1>8, <1>9, <1>a, <1>b

(* The bell starts empty and keeps its types.                              *)
LEMMA BellStart == BellInit => BellInv
<1> SUFFICES ASSUME BellInit PROVE BellInv
  OBVIOUS
<1>1. Empty \in NoteList /\ 0 \in 0..Cardinality(Note)
  BY NotesAreFinite DEF Empty, NoteList
<1>2. bell \in BellState
  BY <1>1 DEF BellInit, BellState
<1>3. IsFiniteSet({}) /\ Cardinality({}) = 0
  BY FS_EmptySet
<1> QED
  BY <1>1, <1>2, <1>3, NotesAreFinite DEF BellInit, BellInv, FewPolls, FewCalls

(* A step on the bell keeps its types.                                     *)
LEMMA BellStep == BellInv /\ [BellNext]_bellVars => BellInv'
<1>1. BellInv /\ UNCHANGED bellVars => BellInv'
  BY DEF bellVars, BellInv, FewPolls, FewCalls
<1> QED
  BY <1>1, BellServerKeeps, BellPageKeeps DEF BellNext

-----------------------------------------------------------------------------
(* The lists                                                               *)

FullRow == [Item -> Version]
StoredRow == [Item -> Version \cup {Deleted}]
EditState == [patch : Edits, phase : {"sent", "ok"}, answer : FullRow \cup {NotShown}]
ListsInv ==
  /\ stored \in StoredRow /\ shown \in FullRow \cup {NotShown}
  /\ stream \in [open : BOOLEAN, seen : FullRow, wire : SUBSET (Item \X Version)]
  /\ typed \in [FormField -> Version] \cup {NotShown}
  /\ gets \subseteq FullRow /\ edits \subseteq EditState /\ disturbed \in BOOLEAN
  /\ \A c \in edits : c.phase = "ok" => c.answer \in FullRow

(* What rows can be, and what the form can be made of.                     *)
LEMMA RowsTyped ==
  /\ 0 \in Version /\ 1 \in Version /\ None \in FullRow /\ MaxVersion \in Nat
  /\ FormField \subseteq Item /\ FullRow \subseteq StoredRow
  /\ (stored \in StoredRow => Rows \in FullRow)
  /\ \A f \in FullRow : Restrict(f, FormField) \in [FormField -> Version]
<1>1. 0 \in Version /\ 1 \in Version /\ FormField \subseteq Item /\ MaxVersion \in Nat
  BY ListsAssumption DEF Version
<1>2. None \in FullRow
  BY <1>1 DEF None, FullRow
<1>3. ASSUME NEW f \in FullRow
      PROVE  Restrict(f, FormField) \in [FormField -> Version]
  BY <1>1 DEF Restrict, FullRow
<1>4. FullRow \subseteq StoredRow /\ (stored \in StoredRow => Rows \in FullRow)
  BY <1>1 DEF Rows, FullRow, StoredRow
<1> QED
  BY <1>1, <1>2, <1>3, <1>4

(* A patch has values for some fields.                                     *)
LEMMA PatchTyped ==
  ASSUME NEW S \in SUBSET Item, S # {}, NEW patch \in [S -> Version]
  PROVE  patch \in Edits
  BY DEF Edits

(* What a patch makes of a row is a row.                                   *)
LEMMA PatchedTyped ==
  ASSUME stored \in StoredRow, NEW patch \in Edits
  PROVE  Patched(patch) \in FullRow /\ Patched(patch) \in StoredRow
<1>2. Rows \in FullRow
  BY RowsTyped
<1>1. PICK S \in SUBSET Item : patch \in [S -> Version]
  BY DEF Edits
<1>3. Patched(patch) \in FullRow
  BY <1>1, <1>2 DEF Patched, FullRow
<1> QED
  BY <1>3, RowsTyped

(* An edit that is sent.                                                   *)
LEMMA SendEditTyped ==
  ASSUME ListsInv, NEW patch \in Edits, SendEdit(patch)
  PROVE  edits' \subseteq EditState /\ \A c \in edits' : c.phase = "ok" => c.answer \in FullRow
<1> DEFINE e == [patch |-> patch, phase |-> "sent", answer |-> NotShown]
<1>1. e \in EditState /\ e.phase = "sent"
  BY DEF EditState
<1>2. edits' = edits \cup {e}
  BY DEF SendEdit
<1> HIDE DEF e
<1> QED
  BY <1>1, <1>2 DEF ListsInv

(* The event stream and the loads keep the types.                          *)
LEMMA LoadsKeep ==
  ASSUME ListsInv,
         \/ SendChanges \/ OnDeployment \/ BreakStream \/ Reconnect \/ ReloadAll
         \/ \E r \in Item : Change(r) \/ Remove(r)
         \/ \E snapshot \in gets : ShowLoad(snapshot) \/ FailedLoad(snapshot)
  PROVE  ListsInv'
<1>1. CASE SendChanges
  <2> DEFINE changed == {r \in Item : stored[r] \notin {0, Deleted} /\ stored[r] # stream.seen[r]}
             now == [r \in Item |-> IF r \in changed THEN stored[r] ELSE stream.seen[r]]
             sent == {<<r, stored[r]>> : r \in changed}
  <2>1. stored \in StoredRow /\ stream.seen \in FullRow
    BY DEF ListsInv
  <2>2. now \in FullRow /\ sent \in SUBSET (Item \X Version)
    BY <2>1 DEF FullRow, StoredRow
  <2>3. stream' = [stream EXCEPT !.seen = now, !.wire = sent]
    BY <1>1 DEF SendChanges
  <2> HIDE DEF now, sent
  <2>4. stream' \in [open : BOOLEAN, seen : FullRow, wire : SUBSET (Item \X Version)]
    BY <2>2, <2>3 DEF ListsInv
  <2>5. UNCHANGED <<mode, stored, shown, typed, gets, edits, breaks, editsMade, disturbed>>
    BY <1>1, Zenon DEF SendChanges
  <2> QED
    BY <2>4, <2>5 DEF ListsInv
<1>2. CASE OnDeployment
  <2>1. PICK e \in stream.wire :
          /\ stream' = [stream EXCEPT !.wire = @ \ {e}] /\ shown' = Upsert(e[1], e[2])
          /\ disturbed' = (disturbed \/ gets # {})
          /\ UNCHANGED <<mode, stored, typed, gets, edits, breaks, editsMade>>
    BY <1>2 DEF OnDeployment
  <2>2. e[1] \in Item /\ e[2] \in Version
    BY DEF ListsInv
  <2>3. shown' \in FullRow \cup {NotShown}
    BY <2>1, <2>2 DEF ListsInv, Upsert, FullRow
  <2>4. stream' \in [open : BOOLEAN, seen : FullRow, wire : SUBSET (Item \X Version)]
    BY <2>1 DEF ListsInv
  <2>5. disturbed' \in BOOLEAN
    BY <2>1, Zenon
  <2> QED
    BY <2>1, <2>3, <2>4, <2>5 DEF ListsInv
<1>3. CASE BreakStream \/ Reconnect
  <2>1. stream' \in [open : BOOLEAN, seen : FullRow, wire : SUBSET (Item \X Version)]
    <3>1. CASE BreakStream
      BY <3>1 DEF BreakStream, ListsInv
    <3>2. CASE Reconnect
      BY <3>2, RowsTyped DEF Reconnect, SeenAtFirst
    <3> QED
      BY <1>3, <3>1, <3>2
  <2> QED
    BY <1>3, <2>1 DEF BreakStream, Reconnect, ListsInv
<1>4. CASE ReloadAll
  <2>1. disturbed' \in BOOLEAN
    BY <1>4, Zenon DEF ReloadAll, Reload
  <2> QED
    BY <1>4, <2>1, RowsTyped DEF ReloadAll, Reload, ListsInv
<1>5. ASSUME NEW r \in Item, Change(r) \/ Remove(r)
      PROVE  ListsInv'
  <2>1. CASE Change(r)
    <3>1. stored[r] + 1 \in Version
      BY <2>1, RowsTyped DEF Change, ListsInv, StoredRow, Version, Deleted
    <3>2. stored' \in StoredRow
      BY <2>1, <3>1 DEF Change, ListsInv, StoredRow
    <3> QED
      BY <2>1, <3>2 DEF Change, ListsInv
  <2>2. CASE Remove(r)
    <3>1. stored' \in StoredRow
      BY <2>2 DEF Remove, ListsInv, StoredRow
    <3> QED
      BY <2>2, <3>1 DEF Remove, ListsInv
  <2> QED
    BY <1>5, <2>1, <2>2
<1>6. ASSUME NEW snapshot \in gets, ShowLoad(snapshot) \/ FailedLoad(snapshot)
      PROVE  ListsInv'
  <2>1. snapshot \in FullRow
    BY DEF ListsInv
  <2>2. Restrict(snapshot, FormField) \in [FormField -> Version]
    BY <2>1, RowsTyped
  <2> QED
    BY <1>6, <2>1, <2>2 DEF ShowLoad, FailedLoad, ListsInv
<1> QED
  BY <1>1, <1>2, <1>3, <1>4, <1>5, <1>6

(* Edits, and what the server makes of them, keep the types.               *)
LEMMA EditsKeep ==
  ASSUME ListsInv,
         \/ SaveBuild \/ \E r \in Item : ToggleGit(r)
         \/ \E f \in FormField, v \in Version : TypeField(f, v)
         \/ \E patch \in Edits : Edit(patch)
         \/ \E c \in edits : ServeEdit(c) \/ EditRefused(c) \/ EditDone(c) \/ SaveDone(c)
  PROVE  ListsInv'
<1>1. ASSUME NEW patch \in Edits, SendEdit(patch),
             UNCHANGED <<mode, stored, stream, shown, typed, gets, breaks, disturbed>>
      PROVE  ListsInv'
  BY <1>1, SendEditTyped DEF ListsInv
<1>2. CASE SaveBuild
  <2>1. typed \in [FormField -> Version] /\ typed # NotShown
    BY <1>2 DEF SaveBuild, ListsInv
  <2>2. FormField # {}
    BY <2>1 DEF NotShown
  <2>3. typed \in Edits
    BY <2>1, <2>2, RowsTyped, PatchTyped
  <2> QED
    BY <1>1, <1>2, <2>3 DEF SaveBuild
<1>3. ASSUME NEW r \in Item, ToggleGit(r)
      PROVE  ListsInv'
  <2> DEFINE patch == [x \in {r} |-> IF shown[r] = 0 THEN 1 ELSE 0]
  <2>1. patch \in [{r} -> Version]
    BY RowsTyped
  <2> HIDE DEF patch
  <2>2. patch \in Edits
    BY <2>1, PatchTyped
  <2> QED
    BY <1>1, <1>3, <2>2 DEF ToggleGit, patch
<1>4. ASSUME NEW f \in FormField, NEW v \in Version, TypeField(f, v)
      PROVE  ListsInv'
  BY <1>4 DEF TypeField, ListsInv
<1>5. ASSUME NEW patch \in Edits, Edit(patch)
      PROVE  ListsInv'
  BY <1>1, <1>5 DEF Edit
<1>6. ASSUME NEW c \in edits, ServeEdit(c)
      PROVE  ListsInv'
  <2>1. c \in EditState /\ c.patch \in Edits
    BY DEF ListsInv, EditState
  <2>2. PICK row : row = Patched(c.patch)
    OBVIOUS
  <2>3. row \in FullRow /\ row \in StoredRow
    BY <2>1, <2>2, PatchedTyped DEF ListsInv
  <2>4. PICK e : e = [c EXCEPT !.phase = "ok", !.answer = row]
    OBVIOUS
  <2>5. e \in EditState /\ e.answer = row
    BY <2>1, <2>3, <2>4 DEF EditState
  <2>6. /\ stored' = row /\ edits' = (edits \ {c}) \cup {e}
        /\ UNCHANGED <<mode, stream, shown, typed, gets, breaks, editsMade, disturbed>>
    BY <1>6, <2>2, <2>4, Zenon DEF ServeEdit
  <2> QED
    BY <2>3, <2>5, <2>6 DEF ListsInv
<1>7. ASSUME NEW c \in edits, EditRefused(c)
      PROVE  ListsInv'
  BY <1>7 DEF EditRefused, ListsInv
<1>8. ASSUME NEW c \in edits, EditDone(c)
      PROVE  ListsInv'
  <2>1. disturbed' \in BOOLEAN
    BY <1>8, Zenon DEF EditDone, Reload
  <2> QED
    BY <1>8, <2>1, RowsTyped DEF EditDone, Reload, ListsInv
<1>9. ASSUME NEW c \in edits, SaveDone(c)
      PROVE  ListsInv'
  <2>1. disturbed' \in BOOLEAN
    BY <1>9, Zenon DEF SaveDone
  <2> QED
    BY <1>9, <2>1 DEF SaveDone, ListsInv
<1> QED
  BY <1>2, <1>3, <1>4, <1>5, <1>6, <1>7, <1>8, <1>9

(* A list starts with one load under way and keeps its types.              *)
LEMMA ListsStart == ListsInit => ListsInv
<1> SUFFICES ASSUME ListsInit PROVE ListsInv
  OBVIOUS
<1>1. stream.open \in BOOLEAN
  BY DEF ListsInit, Live
<1>2. stream \in [open : BOOLEAN, seen : FullRow, wire : SUBSET (Item \X Version)]
  BY <1>1, RowsTyped DEF ListsInit
<1> QED
  BY <1>2, RowsTyped DEF ListsInit, ListsInv, FullRow

(* A step on a list keeps its types.                                       *)
LEMMA ListsStep == ListsInv /\ [ListsNext]_listsVars => ListsInv'
<1>1. ListsInv /\ UNCHANGED listsVars => ListsInv'
  BY DEF listsVars, ListsInv
<1> QED
  BY <1>1, LoadsKeep, EditsKeep DEF ListsNext

(* The types the lists have are those they should.                         *)
LEMMA ListsTyped == ListsInv => ListsTypeOK
  BY DEF ListsInv, FullRow, StoredRow, EditState, ListsTypeOK

-----------------------------------------------------------------------------
(* The dashboard                                                           *)

(* The dashboard starts where its parts do.                                *)
LEMMA PartsStart == DashboardInit =>
  /\ SignInInit /\ OwnershipInit /\ ProjectsInit /\ FollowInit /\ TailInit /\ BellInit /\ ListsInit
  /\ screen \in Screens
  BY DEF DashboardInit

(* A step on another screen stutters for the login page.                   *)
LEMMA SignInSteps == [DashboardNext]_dashboardVars => [SignInNext]_siVars
  BY DEF DashboardNext, dashboardVars, On

(* A step on another screen stutters for the account and its projects.     *)
LEMMA OwnershipSteps == [DashboardNext]_dashboardVars => [OwnershipNext]_ownershipVars
  BY DEF DashboardNext, dashboardVars, On

(* A step on another screen stutters for the project pages.                *)
LEMMA ProjectSteps == [DashboardNext]_dashboardVars => [ProjectsNext]_projectVars
  BY DEF DashboardNext, dashboardVars, On

(* A step on another screen stutters for those who follow a build.         *)
LEMMA FollowSteps == [DashboardNext]_dashboardVars => [PageNext \/ CommandNext]_followVars
  BY DEF DashboardNext, dashboardVars, On

(* A step on another screen stutters for the log page.                     *)
LEMMA TailSteps == [DashboardNext]_dashboardVars => [TailNext]_tailVars
  BY DEF DashboardNext, dashboardVars, On

(* A step on another screen stutters for the bell and for the lists.       *)
LEMMA OtherSteps == [DashboardNext]_dashboardVars =>
  [BellNext]_bellVars /\ [ListsNext]_listsVars /\ UNCHANGED screen
  BY DEF DashboardNext, dashboardVars, On

(* The invariants of the parts.                                            *)
PartsInv == SiInv /\ OwnInv /\ PrInv /\ FlInv /\ TailInv
PartsTyped == PagesTyped /\ ActTyped /\ BellInv /\ ListsInv /\ screen \in Screens

(* The dashboard keeps the invariants of its parts.                        *)
LEMMA DashboardKeeps == DashboardSpec => [](PartsInv /\ PartsTyped)
<1>1. DashboardInit => PartsInv
  BY PartsStart, SignInStart, OwnershipStart, ProjectsStart, FollowStart, TailStart DEF PartsInv
<1>2. PartsInv /\ [DashboardNext]_dashboardVars => PartsInv'
  BY SignInSteps, OwnershipSteps, ProjectSteps, FollowSteps, TailSteps,
     SignInStep, OwnershipStep, ProjectsStep, FollowStep, TailStep DEF PartsInv
<1>3. DashboardInit => PartsTyped
  BY PartsStart, PagesTypedStart, ActTypedStart, BellStart, ListsStart DEF PartsTyped
<1>4. PartsInv /\ PartsTyped /\ [DashboardNext]_dashboardVars => PartsTyped'
  BY ProjectSteps, FollowSteps, OtherSteps, PagesTypedStep, ActTypedStep, BellStep, ListsStep
     DEF PartsInv, PartsTyped
<1> QED
  BY <1>1, <1>2, <1>3, <1>4, PTL DEF DashboardSpec

(* All that the screens keep has its type, whatever is done on them.       *)
THEOREM DashboardIsTyped == DashboardSpec => []DashboardTypeOK
<1>1. PartsInv /\ PartsTyped => SignInTypeOK /\ OwnershipTypeOK /\ TailTypeOK
  <2>1. SiInv => SignInTypeOK
    BY DEF SiInv, SiTypes, RequestsAreFit, Reads, TokenIsProven, Form, Addresses, SignInTypeOK
  <2>2. OwnInv => OwnershipTypeOK
    BY DEF OwnInv, OwnTypes, AdmittedAreProper, AccountState, ImportState, OwnershipTypeOK
  <2>3. TailInv => TailTypeOK
    BY DEF TailInv, TailTypes, TailTypeOK
  <2> QED
    BY <2>1, <2>2, <2>3 DEF PartsInv
<1>2. BellInv => BellTypeOK
  BY DEF BellInv, NoteList, BellState, FewPolls, FewCalls, BellTypeOK
<1>3. PartsInv /\ PartsTyped => DashboardTypeOK
  BY <1>1, <1>2, ProjectsTyped, FollowersTyped, ListsTyped DEF PartsInv, PartsTyped, DashboardTypeOK
<1> QED
  BY <1>3, DashboardKeeps, PTL

(* As long as no answer is overtaken, no more requests come in between two *)
(* ticks than an answer holds and no reload for a new filter fails, the    *)
(* log page shows the newest rows without a gap, each once and in order.   *)
THEOREM LogPageIsExact == DashboardSpec => []TailIsExact
<1>1. PartsInv => TailIsExact
  BY TailShows DEF PartsInv
<1> QED
  BY <1>1, DashboardKeeps, PTL

(* A sign-in code takes fewer wrong guesses than MaxAttempts and as many   *)
(* checks of it as were ever under way at once, however many clients ask.  *)
THEOREM CodesResistGuessing == DashboardSpec => []GuessesBounded
<1>1. PartsInv => GuessesBounded
  BY SignInSafe DEF PartsInv
<1> QED
  BY <1>1, DashboardKeeps, PTL

(* Every session and every password that was changed goes back to a code   *)
(* that was sent to its own address and that was used.                     *)
THEOREM OnlyProvenCredentials == DashboardSpec => []CredentialsAreProven
<1>1. PartsInv => CredentialsAreProven
  BY SignInSafe DEF PartsInv
<1> QED
  BY <1>1, DashboardKeeps, PTL

(* A project has an owner who exists, but for a request that outlived its  *)
(* account, and an offer goes from the owner to another member.            *)
THEOREM NoOrphanedProject == DashboardSpec => []ProjectsAreOwned
<1>1. PartsInv => ProjectsAreOwned
  BY DEF PartsInv, OwnInv
<1> QED
  BY <1>1, DashboardKeeps, PTL

(* A deletion that is sent names the project whose name was typed, however *)
(* the user moved between projects meanwhile.                              *)
THEOREM DeletionIsConfirmed == DashboardSpec => []DeletesWhatWasConfirmed
<1>1. PartsInv => DeletesWhatWasConfirmed
  BY DEF PartsInv, PrInv, CallIsKnown, DeletesWhatWasConfirmed
<1> QED
  BY <1>1, DashboardKeeps, PTL

(* What was deleted here does not come back to the list, but for an answer *)
(* that was under way.                                                     *)
THEOREM DeletionLasts == DashboardSpec => []DeletedStaysGone
<1>1. PartsInv => DeletedStaysGone
  BY DEF PartsInv, PrInv
<1> QED
  BY <1>1, DashboardKeeps, PTL

(* The page never mixes the build logs of two deployments, however late    *)
(* events arrive after the user moved on.                                  *)
THEOREM LogsAreOwn == DashboardSpec => []PageLogsAreOwn
<1>1. PartsInv => PageLogsAreOwn
  BY DEF PartsInv, FlInv, OneSource
<1> QED
  BY <1>1, DashboardKeeps, PTL

(* A page that is told the build is over has every line that was appended  *)
(* in order before the last tick read them, wherever the worker writes     *)
(* between its reads; the command, every line appended in order before the *)
(* end of the build.                                                       *)
THEOREM NothingIsMissed == DashboardSpec => []FollowersSeeAll
<1>1. PartsInv => FollowersSeeAll
  BY DEF PartsInv, FlInv, PageIsDone, CommandIsWhole, FollowersSeeAll
<1> QED
  BY <1>1, DashboardKeeps, PTL
=============================================================================
