------------------------------- MODULE Lists --------------------------------
(***************************************************************************)
(* The lists of the dashboard. Those of deployments (ProjectDeployments    *)
(* and AllDeployments) load once and follow the workspace event stream;    *)
(* the tables (environment variables, domains, comments, integrations)     *)
(* reload after each edit; the settings of a project show the row that     *)
(* answers a save. What is under way may overlap. The previews of          *)
(* Projects.tsx, which a replay of the stream leaves wrong, are not here.  *)
(***************************************************************************)
EXTENDS Naturals, FiniteSets, Functions

CONSTANTS Item,           \* rows of the list, or fields of the settings
          FormField,      \* the fields that are saved together (BuildTab)
          MaxVersion,     \* bound: values of a row; 0 says there is none
          MaxGets, MaxEditCalls, MaxBreaks, MaxEdits   \* bounds

ASSUME ListsAssumption ==
  /\ FormField \subseteq Item
  /\ {MaxGets, MaxEditCalls, MaxBreaks, MaxEdits} \subseteq Nat /\ MaxVersion \in Nat \ {0}

VARIABLES
  mode,        \* which of the lists is shown
  stored,      \* the rows the server has; of a deployment, its state
  stream,      \* the workspace event stream: `seen' and what is on the wire
  shown,       \* what the page shows, or NotShown
  typed,       \* the form of BuildTab
  gets, edits, \* GETs and edits under way
  breaks, editsMade,   \* how often the stream broke; how many edits there were
  disturbed    \* history: a load or a save failed or overlapped with another change

listsVars ==
  <<mode, stored, stream, shown, typed, gets, edits, breaks, editsMade, disturbed>>

Modes == {"deployments", "table", "settings"}
Live == mode = "deployments"
Version == 0..MaxVersion
Deleted == MaxVersion + 1
None == [r \in Item |-> 0]
NotShown == [r \in {} |-> 0]
Edits == {patch \in UNION {[S -> Version] : S \in SUBSET Item} : DOMAIN patch # {}}

ListsInit ==
  /\ mode \in Modes /\ stored \in [Item -> Version]
  /\ stream = [open |-> Live, seen |-> None, wire |-> {}]
  /\ shown = NotShown /\ typed = NotShown /\ gets = {stored} /\ edits = {}
  /\ breaks = 0 /\ editsMade = 0 /\ disturbed = FALSE

(* Types of the state of a list.                                           *)
ListsTypeOK ==
  /\ stored \in [Item -> Version \cup {Deleted}] /\ shown \in [Item -> Version] \cup {NotShown}
  /\ stream.seen \in [Item -> Version] /\ stream.wire \subseteq Item \X Version
  /\ typed \in [FormField -> Version] \cup {NotShown} /\ gets \subseteq [Item -> Version]
  /\ \A c \in edits : c.patch \in Edits /\ c.answer \in [Item -> Version] \cup {NotShown}
  /\ disturbed \in BOOLEAN

-----------------------------------------------------------------------------
(* The event stream: workspace_events                                      *)

(* A deployment is made, changes its state, or is deleted, which no event  *)
(* says; nor does one say which deployment is promoted.                    *)
Change(r) ==
  /\ Live /\ stored[r] < MaxVersion /\ stored' = [stored EXCEPT ![r] = @ + 1]
  /\ UNCHANGED <<mode, stream, shown, typed, gets, edits, breaks, editsMade, disturbed>>
Remove(r) ==
  /\ Live /\ stored[r] \notin {0, Deleted} /\ stored' = [stored EXCEPT ![r] = Deleted]
  /\ UNCHANGED <<mode, stream, shown, typed, gets, edits, breaks, editsMade, disturbed>>

(* One tick compares every state with the one it sent last. Bound: it      *)
(* waits until the page has handled the events of the tick before. Bound:  *)
(* fewer rows than the 50 it looks at.                                     *)
SendChanges ==
  LET changed == {r \in Item : stored[r] \notin {0, Deleted} /\ stored[r] # stream.seen[r]}
  IN /\ stream.open /\ stream.wire = {} /\ changed # {}
     /\ stream' =
          [stream EXCEPT !.seen = [r \in Item |-> IF r \in changed THEN stored[r] ELSE @[r]],
                         !.wire = {<<r, stored[r]>> : r \in changed}]
     /\ UNCHANGED <<mode, stored, shown, typed, gets, edits, breaks, editsMade, disturbed>>

(* Nothing is done with an event before the first load.                    *)
Upsert(r, v) == IF shown = NotShown THEN shown ELSE [shown EXCEPT ![r] = v]

OnDeployment ==
  \E e \in stream.wire :
    /\ stream' = [stream EXCEPT !.wire = @ \ {e}]
    /\ shown' = Upsert(e[1], e[2])
    /\ disturbed' = (disturbed \/ gets # {})
    /\ UNCHANGED <<mode, stored, typed, gets, edits, breaks, editsMade>>

SeenBefore == stream.seen     \* a mutant: a new connection does not start over
SeenAtFirst == None

(* The connection breaks with what is on the wire; the browser reconnects. *)
BreakStream ==
  /\ stream.open /\ breaks < MaxBreaks /\ breaks' = breaks + 1
  /\ stream' = [stream EXCEPT !.open = FALSE, !.wire = {}]
  /\ UNCHANGED <<mode, stored, shown, typed, gets, edits, editsMade, disturbed>>
Reconnect ==
  /\ Live /\ ~stream.open
  /\ stream' = [open |-> TRUE, seen |-> SeenAtFirst, wire |-> {}]
  /\ UNCHANGED <<mode, stored, shown, typed, gets, edits, breaks, editsMade, disturbed>>

-----------------------------------------------------------------------------
(* Loading                                                                 *)

(* What the server answers: the rows it has now.                           *)
Rows == [r \in Item |-> IF stored[r] = Deleted THEN 0 ELSE stored[r]]

Reload ==
  /\ Cardinality(gets) < MaxGets /\ gets' = gets \cup {Rows}
  /\ disturbed' = (disturbed \/ gets # {})

(* The list of projects changed, so that AllEnvVars and AllDomains load.   *)
ReloadAll ==
  /\ mode = "table" /\ Reload
  /\ UNCHANGED <<mode, stored, stream, shown, typed, edits, breaks, editsMade>>

(* BuildTab takes its form from what is loaded first.                      *)
ShowLoad(snapshot) ==
  /\ gets' = gets \ {snapshot} /\ shown' = snapshot
  /\ typed' = IF mode = "settings" THEN Restrict(snapshot, FormField) ELSE typed
  /\ UNCHANGED <<mode, stored, stream, edits, breaks, editsMade, disturbed>>
FailedLoad(snapshot) ==
  /\ gets' = gets \ {snapshot} /\ disturbed' = TRUE
  /\ UNCHANGED <<mode, stored, stream, shown, typed, edits, breaks, editsMade>>

-----------------------------------------------------------------------------
(* Editing                                                                 *)

SendEdit(patch) ==
  /\ shown # NotShown /\ editsMade < MaxEdits /\ Cardinality(edits) < MaxEditCalls
  /\ edits' = edits \cup {[patch |-> patch, phase |-> "sent", answer |-> NotShown]}
  /\ editsMade' = editsMade + 1

(* A row is added, changed or removed, or several are imported.            *)
Edit(patch) ==
  /\ mode = "table" /\ SendEdit(patch)
  /\ UNCHANGED <<mode, stored, stream, shown, typed, gets, breaks, disturbed>>

(* The server stores the patch. The answer to a save is the whole row.     *)
Patched(patch) == [r \in Item |-> IF r \in DOMAIN patch THEN patch[r] ELSE Rows[r]]
ServeEdit(c) ==
  /\ c.phase = "sent" /\ stored' = Patched(c.patch)
  /\ edits' = (edits \ {c}) \cup {[c EXCEPT !.phase = "ok", !.answer = Patched(c.patch)]}
  /\ UNCHANGED <<mode, stream, shown, typed, gets, breaks, editsMade, disturbed>>
EditRefused(c) ==
  /\ c.phase = "sent" /\ edits' = edits \ {c}
  /\ UNCHANGED <<mode, stored, stream, shown, typed, gets, breaks, editsMade, disturbed>>
EditDone(c) ==
  /\ mode = "table" /\ c.phase = "ok" /\ edits' = edits \ {c} /\ Reload
  /\ UNCHANGED <<mode, stored, stream, shown, typed, breaks, editsMade>>

(* The settings: what is typed in BuildTab, its Save, and the switches of  *)
(* GitTab, which show what the server has.                                 *)
TypeField(f, v) ==
  /\ mode = "settings" /\ typed # NotShown /\ typed[f] # v
  /\ typed' = [typed EXCEPT ![f] = v]
  /\ UNCHANGED <<mode, stored, stream, shown, gets, edits, breaks, editsMade, disturbed>>
SaveBuild ==
  /\ mode = "settings" /\ typed # NotShown /\ SendEdit(typed)
  /\ UNCHANGED <<mode, stored, stream, shown, typed, gets, breaks, disturbed>>
ToggleGit(r) ==
  /\ mode = "settings" /\ shown # NotShown /\ r \notin FormField
  /\ SendEdit([x \in {r} |-> IF shown[r] = 0 THEN 1 ELSE 0])
  /\ UNCHANGED <<mode, stored, stream, shown, typed, gets, breaks, disturbed>>
SaveDone(c) ==
  /\ mode = "settings" /\ c.phase = "ok" /\ edits' = edits \ {c} /\ shown' = c.answer
  /\ disturbed' = (disturbed \/ edits # {c} \/ gets # {})
  /\ UNCHANGED <<mode, stored, stream, typed, gets, breaks, editsMade>>

-----------------------------------------------------------------------------
ListsNext ==
  \/ SendChanges \/ OnDeployment \/ BreakStream \/ Reconnect \/ ReloadAll \/ SaveBuild
  \/ \E r \in Item : Change(r) \/ Remove(r) \/ ToggleGit(r)
  \/ \E f \in FormField, v \in Version : TypeField(f, v)
  \/ \E snapshot \in gets : ShowLoad(snapshot) \/ FailedLoad(snapshot)
  \/ \E patch \in Edits : Edit(patch)
  \/ \E c \in edits : ServeEdit(c) \/ EditRefused(c) \/ EditDone(c) \/ SaveDone(c)

(* The server ticks, EventSource reconnects, and what was sent is answered. *)
ListsFair ==
  \/ SendChanges \/ OnDeployment \/ Reconnect
  \/ \E snapshot \in gets : ShowLoad(snapshot)
  \/ \E c \in edits : EditDone(c) \/ SaveDone(c)

-----------------------------------------------------------------------------
Agrees ==
  IF Live THEN \A r \in Item : Rows[r] # 0 => shown # NotShown /\ shown[r] = Rows[r]
  ELSE shown = Rows

(* A list comes to show what the server has, of a deployment its state,    *)
(* whatever events a broken connection lost and whatever the edits were,   *)
(* unless something failed or overlapped. What was deleted may still be    *)
(* listed (deployments.rs:236-258, ProjectDeployments.tsx:52-67,           *)
(* ProjectSettings.tsx:47-58, 542-568).                                    *)
RowsSettle == <>[](disturbed \/ Agrees)
=============================================================================
