----------------------------- MODULE Dashboard ------------------------------
(***************************************************************************)
(* The clients of the API: the pages of the dashboard and the commands of  *)
(* avail. The pages share no state but the session and the list of         *)
(* projects, which Projects has; a behaviour is that of one screen.        *)
(***************************************************************************)
EXTENDS SignIn, Follow, Bell, Projects, Tail, Lists, Ownership

VARIABLE screen     \* what runs: a page, or a command

dashboardVars ==
  <<siVars, followVars, bellVars, projectVars, tailVars, listsVars, ownershipVars, screen>>

Screens == {"login", "page", "command", "bell", "projects", "logs", "lists", "account"}

(* What is not on the screen rests in one state.                           *)
DashboardInit ==
  /\ screen \in Screens
  /\ SignInInit /\ (screen # "login" => \A e \in Email : password[e] = Unset)
  /\ FollowInit /\ (follower.step = "polling") = (screen = "command")
  /\ BellInit /\ ProjectsInit
  /\ TailInit /\ (screen # "logs" => logged = 0)
  /\ ListsInit /\ (screen # "lists" => mode = "deployments" /\ stored = None)
  /\ OwnershipInit
  /\ (screen # "account" => passwords = {} /\ \A p \in Repo : owner[p] = NoUser)

On(s) ==
  /\ screen = s /\ UNCHANGED screen
  /\ s # "login" => UNCHANGED siVars
  /\ s \notin {"page", "command"} => UNCHANGED followVars
  /\ s # "bell" => UNCHANGED bellVars
  /\ s # "projects" => UNCHANGED projectVars
  /\ s # "logs" => UNCHANGED tailVars
  /\ s # "lists" => UNCHANGED listsVars
  /\ s # "account" => UNCHANGED ownershipVars

DashboardNext ==
  \/ On("login") /\ SignInNext
  \/ On("page") /\ PageNext
  \/ On("command") /\ CommandNext
  \/ On("bell") /\ BellNext
  \/ On("projects") /\ ProjectsNext
  \/ On("logs") /\ TailNext
  \/ On("lists") /\ ListsNext
  \/ On("account") /\ OwnershipNext

(* The loops of the command and of the bell go on, the server ticks and    *)
(* answers, and the browser reconnects and delivers.                       *)
DashboardSpec ==
  /\ DashboardInit /\ [][DashboardNext]_dashboardVars
  /\ WF_dashboardVars(On("command") /\ CliPoll)
  /\ WF_dashboardVars(On("command") /\ CliLines) /\ WF_dashboardVars(On("command") /\ CliLast)
  /\ WF_dashboardVars(On("bell") /\ Poll)
  /\ WF_dashboardVars(On("bell") /\ \E s \in polls : ShowLoaded(s))
  /\ WF_dashboardVars(On("bell") /\ CallsFair)
  /\ WF_dashboardVars(On("lists") /\ ListsFair)

(* Types of the state of all screens.                                      *)
DashboardTypeOK ==
  /\ screen \in Screens
  /\ SignInTypeOK /\ FollowTypeOK /\ BellTypeOK /\ ProjectsTypeOK
  /\ TailTypeOK /\ ListsTypeOK /\ OwnershipTypeOK
=============================================================================
