------------------------------ MODULE Projects ------------------------------
(***************************************************************************)
(* The projects of the dashboard: the list that main.tsx shares, the shell *)
(* ProjectLayout.tsx that loads the project of the route, and the settings *)
(* page inside it with its saving and deleting. A project is its own slug  *)
(* and name. The server answers a GET at once, in any time.                *)
(***************************************************************************)
EXTENDS Naturals, FiniteSets

CONSTANTS Project, NoProject,
          MaxAnswers      \* bound: answers under way

ASSUME ProjectsAssumption == NoProject \notin Project /\ MaxAnswers \in Nat \ {0}

VARIABLES
  exists,             \* the server: projects
  session,            \* somebody is signed in
  list, current,      \* the shared list or NotLoaded; the project in the switcher
  route, shell,       \* the slug of /projects/:slug; what ProjectLayout has loaded
  settings,           \* the state of ProjectSettings
  answers,            \* what the server answered and the browser does not have yet
  call,               \* a PATCH, POST or DELETE of the settings page
  removed, late       \* history: deleted here; deleted with an answer under way

projectVars ==
  <<exists, session, list, current, route, shell, settings, answers, call, removed, late>>

NotLoaded == {NoProject}
Closed == [tab |-> "none", project |-> NoProject, step |-> "idle", typed |-> NoProject]
NoCall == [kind |-> "none", slug |-> NoProject, typed |-> NoProject, next |-> NoProject,
           phase |-> "sent", mounted |-> FALSE]
Tabs == {"general", "build"}

ProjectsInit ==
  /\ exists = Project /\ session = TRUE
  /\ list = NotLoaded /\ current = NoProject /\ route = NoProject /\ shell = NoProject
  /\ settings = Closed /\ answers = {} /\ call = NoCall /\ removed = {} /\ late = {}

(* Types of the state of the project pages.                                *)
ProjectsTypeOK ==
  /\ exists \subseteq Project
  /\ list \subseteq Project \/ list = NotLoaded
  /\ route \in Project \cup {NoProject} /\ current \in Project \cup {NoProject}
  /\ settings.tab # "none" => shell # NoProject /\ route # NoProject
  /\ settings.project \in {NoProject, route}
  /\ Cardinality(answers) <= MaxAnswers

pageVars == <<list, current, route, shell, settings>>
history == <<removed, late>>

-----------------------------------------------------------------------------
(* Requests                                                                *)

Row(p) == IF p \in exists THEN p ELSE NoProject
Answer(to, p) ==
  [to |-> to, of |-> p, row |-> Row(p), rows |-> IF to = "list" THEN exists ELSE {}]
Ask(to, p) ==
  /\ answers' = answers \cup {Answer(to, p)} /\ Cardinality(answers') <= MaxAnswers

(* Other members, in their own browsers.                                   *)
OthersDelete(p) ==
  /\ p \in exists /\ exists' = exists \ {p}
  /\ UNCHANGED <<session, pageVars, answers, call, history>>

-----------------------------------------------------------------------------
(* The shared list: main.tsx                                               *)

Upserted(p) == IF list = NotLoaded THEN {p} ELSE list \cup {p}
KeptListed(p) == list             \* a mutant: remove leaves the list as it is
Removed(p) == list \ {p}
CurrentAfter(p) == IF current = p THEN NoProject ELSE current

LoadProjects ==
  /\ session /\ Ask("list", NoProject)
  /\ UNCHANGED <<exists, session, pageVars, call, history>>
ShowProjects(a) ==      \* a load that fails empties the list
  /\ a.to = "list" /\ list' \in {a.rows, {}} /\ answers' = answers \ {a}
  /\ UNCHANGED <<exists, session, current, route, shell, settings, call, history>>

GoHome ==
  /\ route' = NoProject /\ shell' = NoProject /\ settings' = Closed
  /\ answers' = {a \in answers : a.to # "settings"}

(* signOut clears the shared state; without a user every route leads to    *)
(* the login page, and from there to the home page.                        *)
SignOut ==
  /\ session /\ session' = FALSE /\ list' = NotLoaded /\ current' = NoProject
  /\ GoHome
  /\ call' = [call EXCEPT !.mounted = FALSE]
  /\ UNCHANGED <<exists, history>>
SignInAgain ==
  /\ ~session /\ session' = TRUE /\ Ask("list", NoProject)
  /\ UNCHANGED <<exists, pageVars, call, history>>

-----------------------------------------------------------------------------
(* The shell: ProjectLayout.tsx                                            *)

KeptShell == [shell |-> shell, settings |-> settings]   \* a mutant: the old project stays
Unloaded == [shell |-> NoProject, settings |-> Closed]

(* The route names p: the pages of the project before go, and p is loaded. *)
EnterProject(p) ==
  /\ route' = p /\ shell' = Unloaded.shell /\ settings' = Unloaded.settings
  /\ answers' = {a \in answers : a.to # "settings"} \cup {Answer("shell", p)}
  /\ Cardinality(answers') <= MaxAnswers

Navigate(p) ==
  /\ session /\ route # p /\ EnterProject(p)
  /\ call' = [call EXCEPT !.mounted = FALSE]
  /\ UNCHANGED <<exists, session, list, current, history>>
Home ==
  /\ session /\ route # NoProject /\ GoHome /\ current' = NoProject
  /\ call' = [call EXCEPT !.mounted = FALSE]
  /\ UNCHANGED <<exists, session, list, history>>

(* A deployment of the project changed its state.                          *)
Activity ==
  /\ session /\ route # NoProject /\ Ask("shell", route)
  /\ UNCHANGED <<exists, session, pageVars, call, history>>

(* reload ends, maybe when the user has left the project it asked for.     *)
ShowProject(a) ==
  LET mounted == session /\ route # NoProject
  IN /\ a.to = "shell" /\ a.row # NoProject /\ answers' = answers \ {a}
     /\ shell' = IF mounted THEN a.row ELSE shell
     /\ current' = a.of /\ list' = Upserted(a.of)
     /\ UNCHANGED <<exists, session, route, settings, call, history>>
ProjectGone(a) ==
  /\ a.to = "shell" /\ a.row = NoProject
  /\ list' = Removed(a.of) /\ current' = NoProject
  /\ route' = NoProject /\ shell' = NoProject /\ settings' = Closed
  /\ answers' = {b \in answers \ {a} : b.to # "settings"}
  /\ call' = [call EXCEPT !.mounted = FALSE]
  /\ UNCHANGED <<exists, session, history>>
ShellFails(a) ==         \* for another reason: the shell shows the error
  /\ a.to = "shell" /\ shell' = NoProject /\ settings' = Closed /\ current' = NoProject
  /\ answers' = {b \in answers \ {a} : b.to # "settings"}
  /\ call' = [call EXCEPT !.mounted = FALSE]
  /\ UNCHANGED <<exists, session, list, route, history>>

-----------------------------------------------------------------------------
(* The settings of the project in the route: ProjectSettings.tsx           *)

Shown == settings.project # NoProject /\ settings.tab # "none"

OpenSettings(tab) ==
  /\ session /\ shell # NoProject /\ settings.tab = "none"
  /\ settings' = [Closed EXCEPT !.tab = tab] /\ Ask("settings", route)
  /\ UNCHANGED <<exists, session, list, current, route, shell, call, history>>
ShowSettings(a) ==
  /\ a.to = "settings" /\ answers' = answers \ {a}
  /\ settings' = [settings EXCEPT !.project = a.row]
  /\ UNCHANGED <<exists, session, list, current, route, shell, call, history>>
OnlySettings ==
  UNCHANGED <<exists, session, list, current, route, shell, answers, call, history>>

(* The general tab forgets what was typed when another tab is shown.       *)
SetTab(tab) ==
  /\ Shown /\ tab # settings.tab
  /\ settings' = [settings EXCEPT !.tab = tab, !.step = "idle", !.typed = NoProject]
  /\ call' = IF call.kind = "delete"
             THEN [call EXCEPT !.mounted = FALSE] ELSE call
  /\ UNCHANGED <<exists, session, list, current, route, shell, answers, history>>

(* Bound: one call at a time, also when the page was left meanwhile.       *)
Send(kind, typed, next) ==
  /\ call = NoCall
  /\ call' = [kind |-> kind, slug |-> route, typed |-> typed, next |-> next,
              phase |-> "sent", mounted |-> TRUE]
  /\ UNCHANGED <<exists, session, list, current, route, shell, answers, history>>

Save ==
  Shown /\ Send("save", NoProject, NoProject) /\ UNCHANGED settings

StartConfirming ==
  /\ Shown /\ settings.tab = "general" /\ settings.step = "idle"
  /\ settings' = [settings EXCEPT !.step = "confirming"] /\ OnlySettings
TypeName ==
  /\ Shown /\ settings.step = "confirming" /\ settings.typed = NoProject
  /\ settings' = [settings EXCEPT !.typed = settings.project] /\ OnlySettings
CancelConfirm ==
  /\ settings.step = "confirming"
  /\ settings' = [settings EXCEPT !.step = "idle", !.typed = NoProject] /\ OnlySettings

(* nextSlugAfter is evaluated before the project is gone.                  *)
NextSlugAfter(p) ==
  LET others == list \ {p, NoProject}
  IN IF others = {} THEN NoProject ELSE CHOOSE q \in others : TRUE
ConfirmDelete ==
  /\ Shown /\ settings.step = "confirming" /\ settings.typed # NoProject
  /\ Send("delete", settings.typed, NextSlugAfter(settings.project))
  /\ settings' = [settings EXCEPT !.step = "deleting"]

(* The server answers; only admins and creators may delete.                *)
Serve ==
  /\ call # NoCall /\ call.phase = "sent"
  /\ \/ /\ call.slug \in exists
        /\ exists' = IF call.kind = "delete" THEN exists \ {call.slug} ELSE exists
        /\ call' = [call EXCEPT !.phase = "ok"]
     \/ call' = [call EXCEPT !.phase = "refused"] /\ UNCHANGED exists
  /\ UNCHANGED <<session, pageVars, answers, history>>

(* The page shows the row that came with the answer.                       *)
Saved ==
  /\ call.phase \in {"ok", "refused"} /\ call.kind = "save" /\ call' = NoCall
  /\ settings' = IF call.mounted /\ call.phase = "ok"
                 THEN [settings EXCEPT !.project = call.slug] ELSE settings
  /\ UNCHANGED <<exists, session, list, current, route, shell, answers, history>>

Mentions(a, p) == p \in a.rows \/ a.row = p

(* remove and navigate run also when the user is elsewhere by then.        *)
FinishDelete ==
  LET p == call.typed
  IN /\ call.kind = "delete" /\ call.phase = "ok" /\ call' = NoCall
     /\ list' = Removed(p) /\ current' = CurrentAfter(p)
     /\ removed' = removed \cup {p}
     /\ late' = IF \E a \in answers : Mentions(a, p) THEN late \cup {p} ELSE late
     /\ IF call.next = NoProject \/ ~session THEN GoHome
        ELSE IF route = call.next THEN UNCHANGED <<route, shell, settings, answers>>
        ELSE EnterProject(call.next)
     /\ UNCHANGED <<exists, session>>
DeleteRefused ==
  /\ call.kind = "delete" /\ call.phase = "refused" /\ call' = NoCall
  /\ settings' = IF call.mounted THEN [settings EXCEPT !.step = "idle", !.typed = NoProject]
                 ELSE settings
  /\ UNCHANGED <<exists, session, list, current, route, shell, answers, history>>

-----------------------------------------------------------------------------
ProjectsNext ==
  \/ LoadProjects \/ SignOut \/ SignInAgain \/ Home \/ Activity
  \/ Save \/ StartConfirming \/ TypeName \/ CancelConfirm \/ ConfirmDelete
  \/ Serve \/ Saved \/ FinishDelete \/ DeleteRefused
  \/ \E p \in Project : Navigate(p) \/ OthersDelete(p)
  \/ \E tab \in Tabs : OpenSettings(tab) \/ SetTab(tab)
  \/ \E a \in answers :
       ShowProjects(a) \/ ShowProject(a) \/ ShowSettings(a) \/ ProjectGone(a) \/ ShellFails(a)

-----------------------------------------------------------------------------
(* The project that a confirmed deletion deletes, the one in the route, is *)
(* the one whose name was typed, however the user moved between projects   *)
(* meanwhile (ProjectSettings.tsx:215-225, ProjectLayout.tsx:57-60).       *)
DeletesWhatWasConfirmed == call.kind = "delete" => call.slug = call.typed

(* A project deleted here stays out of the switcher and of the redirects,  *)
(* unless an answer that names it was still under way (projects.ts:4-9).   *)
DeletedStaysGone == list \cap (removed \ late) = {}
=============================================================================
