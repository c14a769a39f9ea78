------------------------------ MODULE Builder -------------------------------
(***************************************************************************)
(* runBuild of apps/builder: what it decides from the source it fetched,   *)
(* and the steps from the checkout to manifest.json. All deployments are   *)
(* of one project and share its workspace; whoever calls runBuild lets one *)
(* build of a project run at a time and then writes the deployment's row.  *)
(***************************************************************************)
EXTENDS Naturals, SequencesExt

CONSTANTS
  Deployment,
  Absent,
  Project,      \* the settings of the project
  Source,       \* what the commit of each deployment holds
  Presets,      \* the frameworks, in the order they are tried
  Directory,    \* where a build may leave its output
  ServerFrameworks, StartCommands,
  Candidates    \* DEFAULT_OUTPUT_CANDIDATES

ASSUME BuilderAssumption ==
  Absent \notin Deployment \cup Directory /\ Candidates \in Seq(Directory)

VARIABLES
  row,          \* the state of each deployment
  stage,        \* how far its build is
  step,         \* the shell of that stage: run has been called, and resolves
  aborted,      \* the signal of the build
  tree,         \* the workspace: the commit checked out, and whose output is where
  snap,         \* the copy of it in each deployment's directory
  onDisk        \* manifest.json is there

buildVars == <<row, stage, step, aborted, tree, snap, onDisk>>

-----------------------------------------------------------------------------
(* resolveSettings: the project's settings win, then the config file, then *)
(* the preset.                                                             *)

Coalesce(values) ==
  LET i == SelectInSeq(values, LAMBDA v : v # Absent) IN IF i = 0 THEN Absent ELSE values[i]

(* detectFramework: the first that matches and no other match supersedes.  *)
CheckItem(facts, item) == item \in facts
Matches(facts, preset) ==
  /\ preset.every \cup preset.some # {}
  /\ \A item \in preset.every : CheckItem(facts, item)
  /\ preset.some = {} \/ \E item \in preset.some : CheckItem(facts, item)
Detected(facts) ==
  LET matched == SelectSeq(Presets, LAMBDA preset : Matches(facts, preset))
      superseded == UNION {matched[i].supersedes : i \in DOMAIN matched}
      winner == SelectInSeq(matched, LAMBDA m : m.slug \notin superseded)
  IN IF matched = <<>> THEN Absent
     ELSE IF winner = 0 THEN matched[1].slug ELSE matched[winner].slug

ConfigFile(d) == Source[d].config

Framework(d) ==
  Coalesce(<<Project.framework, ConfigFile(d).framework, Detected(Source[d].facts)>>)

NoPreset == [install |-> Absent, build |-> Absent, output |-> Absent, default |-> Absent]
PresetOf(d) ==
  LET i == SelectInSeq(Presets, LAMBDA p : p.slug = Framework(d))
  IN IF i = 0 THEN NoPreset ELSE Presets[i]

Script(d, name) == IF name \in Source[d].facts THEN name ELSE Absent
Setting(d, name, otherwise) ==
  Coalesce(<<Project[name], ConfigFile(d)[name]>> \o otherwise)

InstallCommand(d) == Setting(d, "install", <<PresetOf(d).install, Script(d, "package.json")>>)
BuildCommand(d) == Setting(d, "build", <<Script(d, "build"), PresetOf(d).build>>)
ServeMode(d) ==
  Setting(d, "serveMode", <<IF Framework(d) \in ServerFrameworks THEN "server" ELSE "static">>)
StartCommand(d) ==
  IF ServeMode(d) # "server" THEN Absent
  ELSE Coalesce(<<ConfigFile(d).start,
                  IF Framework(d) \in StartCommands THEN "preset" ELSE Absent, Script(d, "start")>>)

(* resolveOutputDirectory, on the directories there are; Absent is the root. *)
ResolveOutputDirectory(d, out) ==
  LET declared == Setting(d, "output", <<PresetOf(d).output>>)
      Existing(dir) == IF dir # Absent /\ out[dir] # Absent THEN dir ELSE Absent
      next == IF Framework(d) = "nextjs" THEN "out" ELSE Absent
      guesses == <<PresetOf(d).default, next>> \o Candidates
  IN IF declared # Absent THEN Existing(declared)
     ELSE Coalesce([i \in DOMAIN guesses |-> Existing(guesses[i])])

-----------------------------------------------------------------------------
NoTree == [commit |-> Absent, out |-> [dir \in Directory |-> Absent]]
NoSnap == [tree |-> NoTree, whole |-> FALSE]
Stages == {"queued", "fetch", "install", "build", "snapshot", "done", "failed"}

BuilderInit ==
  /\ row = [d \in Deployment |-> "BUILDING"] /\ stage = [d \in Deployment |-> "queued"]
  /\ step = [d \in Deployment |-> "none"] /\ aborted = [d \in Deployment |-> FALSE]
  /\ tree = NoTree /\ snap = [d \in Deployment |-> NoSnap]
  /\ onDisk = [d \in Deployment |-> FALSE]

Trees == [commit : Deployment \cup {Absent}, out : [Directory -> Deployment \cup {Absent}]]
(* Types of the state of builds and artifacts.                             *)
BuilderTypeOK ==
  /\ row \in [Deployment -> {"BUILDING", "READY", "ERROR", "ABSENT"}]
  /\ stage \in [Deployment -> Stages]
  /\ step \in [Deployment -> {"none", "running", "killed", "ok", "failed"}]
  /\ aborted \in [Deployment -> BOOLEAN] /\ tree \in Trees
  /\ snap \in [Deployment -> [tree : Trees, whole : BOOLEAN]]
  /\ onDisk \in [Deployment -> BOOLEAN]

Enter(d, s) == stage' = [stage EXCEPT ![d] = s] /\ step' = [step EXCEPT ![d] = "running"]

(* fetchSource begins. No other build of the project is under way.         *)
StartBuild(d) ==
  /\ stage[d] = "queued"
  /\ \A e \in Deployment : stage[e] \in {"queued", "done", "failed"}
  /\ Enter(d, "fetch")
  /\ UNCHANGED <<row, aborted, tree, snap, onDisk>>

(* checkout --force and clean: what git ignores stays from earlier builds. *)
FetchedUnclean(d) ==              \* a mutant: no git clean
  [commit |-> d,
   out |-> [dir \in Directory |-> IF dir \in Source[d].dirs THEN d ELSE tree.out[dir]]]
Fetched(d) ==
  [commit |-> d,
   out |-> [dir \in Directory |-> IF dir \in Source[d].dirs THEN d
                                  ELSE IF dir \in Source[d].ignored THEN tree.out[dir] ELSE Absent]]
Built(d) ==
  [tree EXCEPT !.out = [dir \in Directory |-> IF dir \in Source[d].writes THEN d ELSE @[dir]]]

(* snapshot: whole unless its shell fails.                                 *)
Copied(ok) == [tree |-> tree, whole |-> ok]

(* The shell of a step exits. What a failed one did may be done or not.    *)
ShellExits(d) ==
  /\ step[d] \in {"running", "killed"}
  /\ step' = [step EXCEPT ![d] = IF @ = "killed" THEN "failed" ELSE "ok"]
             \/ step' = [step EXCEPT ![d] = "failed"]
  /\ LET effect == CASE stage[d] = "fetch" -> Fetched(d) [] stage[d] = "build" -> Built(d)
                     [] OTHER -> tree
     IN tree' = effect \/ (step'[d] = "failed" /\ tree' = tree)
  /\ snap' = IF stage[d] = "snapshot"
             THEN [snap EXCEPT ![d] = Copied(step'[d] = "ok")] ELSE snap
  /\ UNCHANGED <<row, stage, aborted, onDisk>>

(* The signal kills the shell of the moment; the next step does not look.  *)
Abort(d) ==
  /\ stage[d] \notin {"queued", "done", "failed"} /\ ~aborted[d]
  /\ aborted' = [aborted EXCEPT ![d] = TRUE]
  /\ step' = [step EXCEPT ![d] = IF @ = "running" THEN "killed" ELSE @]
  /\ UNCHANGED <<row, stage, tree, snap, onDisk>>

(* The code of run decides whether the build goes on.                      *)
StepEnded(d) == step[d] \in {"ok", "failed"}      \* a mutant: whatever the code
Succeeded(d) == step[d] = "ok"

(* The signal of a build that is over is heard by nobody.                  *)
Over(d) == aborted' = [aborted EXCEPT ![d] = FALSE]

Fail(d) ==
  /\ stage' = [stage EXCEPT ![d] = "failed"] /\ step' = [step EXCEPT ![d] = "none"]
  /\ row' = [row EXCEPT ![d] = "ERROR"] /\ Over(d)
  /\ UNCHANGED <<tree, snap, onDisk>>

(* A code other than 0, a config file or root directory that is not right, *)
(* or a server without a start command.                                    *)
StepFails(d) == step[d] \in {"ok", "failed"} /\ ~Succeeded(d) /\ Fail(d)
SettingsThrow(d) == stage[d] = "fetch" /\ Succeeded(d) /\ ~Source[d].valid /\ Fail(d)

(* The steps after s that there is a command for.                          *)
Following(d, s) ==
  LET later == CASE s = "fetch" -> <<"install", "build">>
                 [] s = "install" -> <<"build">>
                 [] OTHER -> <<>>
      Wanted(t) == IF t = "install" THEN InstallCommand(d) # Absent ELSE BuildCommand(d) # Absent
      i == SelectInSeq(later, Wanted)
  IN IF i = 0 THEN "snapshot" ELSE later[i]

NoStart(d) == ServeMode(d) = "server" /\ StartCommand(d) = Absent

NextStep(d) ==
  /\ stage[d] \in {"fetch", "install", "build"} /\ Succeeded(d)
  /\ stage[d] = "fetch" => Source[d].valid
  /\ LET s == Following(d, stage[d])
     IN IF s = "snapshot" /\ NoStart(d) THEN Fail(d)
        ELSE Enter(d, s) /\ UNCHANGED <<row, aborted, tree, snap, onDisk>>

(* manifest.json is written, runBuild returns, the caller marks the row.   *)
WriteManifest(d) ==
  /\ stage[d] = "snapshot" /\ Succeeded(d)
  /\ onDisk' = [onDisk EXCEPT ![d] = TRUE]
  /\ stage' = [stage EXCEPT ![d] = "done"] /\ step' = [step EXCEPT ![d] = "none"]
  /\ row' = [row EXCEPT ![d] = "READY"] /\ Over(d)
  /\ UNCHANGED <<tree, snap>>

RunBuild(d) ==
  \/ StartBuild(d) \/ ShellExits(d) \/ StepFails(d) \/ SettingsThrow(d) \/ NextStep(d)
  \/ WriteManifest(d)

StaticDir(d) == ResolveOutputDirectory(d, snap[d].tree.out)
=============================================================================
