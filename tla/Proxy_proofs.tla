---------------------------- MODULE Proxy_proofs ----------------------------
(***************************************************************************)
(* Theorems about Proxy: for any number of deployments, requests and       *)
(* functions, any settings, presets, sources and directories.              *)
(***************************************************************************)
EXTENDS Proxy, Runtimes_proofs, Ordering

-----------------------------------------------------------------------------
(* The invariant                                                           *)

(* The copy of a tree that build d may publish: of its own commit, and     *)
(* with no output of another one in a directory that git clean removes.    *)
Own(t, d) ==
  /\ t.commit = d
  /\ \A dir \in Directory \ Source[d].ignored : t.out[dir] \in {d, Absent}
Whole(d) == snap[d].whole /\ Own(snap[d].tree, d)

Busy(d) == stage[d] \notin {"queued", "done", "failed"}
Fetching(d) == stage[d] = "fetch" /\ step[d] # "ok"

(* The workspace belongs to one build, from its checkout to its end.       *)
OneBuild == \A d, e \in Deployment : Busy(d) /\ Busy(e) => d = e
TreeIsOwn == \A d \in Deployment : Busy(d) /\ ~Fetching(d) => Own(tree, d)

(* ManifestMeansWhole is not inductive: it rests on what is in the copy    *)
(* when the shell of snapshot has succeeded, and that on the tree.         *)
SnapIsOwn == \A d \in Deployment :
  /\ stage[d] = "snapshot" /\ step[d] = "ok" => Whole(d)
  /\ onDisk[d] => stage[d] = "done" /\ Whole(d)

(* A row leaves BUILDING when its build ends, and so does its last shell.  *)
RowsFollow == \A d \in Deployment :
  /\ row[d] # "BUILDING" => stage[d] \in {"done", "failed"}
  /\ step[d] # "none" => Busy(d)

Log ==
  /\ current \in Deployment \cup {None}
  /\ status \in [Request -> {0, 200, 308, 404, 502, 503}]
  /\ about \in [Request -> Deployment \cup {None}]
  /\ recorded \in [Request -> BOOLEAN] /\ ended \in [Request -> SUBSET {"finish", "close"}]
  /\ written \in [Request -> Nat] /\ warned \subseteq Request
  /\ logRows \in Nat /\ sincePrune \in 0..(PruneEvery - 1)

Artifacts == BuilderTypeOK /\ OneBuild /\ TreeIsOwn /\ SnapIsOwn /\ RowsFollow

-----------------------------------------------------------------------------
(* What resolves is there                                                  *)

(* A set of positions has a first one, and it is its Min.                  *)
LEMMA FirstPosition ==
  ASSUME NEW N \in Nat, NEW S \in SUBSET (1..N), S # {}
  PROVE  Min(S) \in S /\ \A k \in S : Min(S) <= k
<1>1. IsFiniteSet(S)
  BY PositionsAreFinite
<1>2. \E x \in S : \A y \in S : x <= y
  BY <1>1, LeastExists
<1> QED
  BY <1>2 DEF Min

(* Coalesce returns one of the values, or none.                            *)
LEMMA CoalescePicks ==
  ASSUME NEW S, NEW values \in Seq(S)
  PROVE  Coalesce(values) = Absent \/ \E i \in 1..Len(values) : Coalesce(values) = values[i]
<1> DEFINE I == {i \in 1..Len(values) : values[i] # Absent}
           i == IF I # {} THEN Min(I) ELSE 0
<1>1. Coalesce(values) = IF i = 0 THEN Absent ELSE values[i]
  BY DEF Coalesce, SelectInSeq
<1>2. CASE I # {}
  <2>1. Len(values) \in Nat /\ I \in SUBSET (1..Len(values))
    OBVIOUS
  <2>3. Min(I) \in I
    <3> HIDE DEF I
    <3> QED
      BY <1>2, <2>1, FirstPosition
  <2> QED
    BY <1>1, <1>2, <2>1, <2>3
<1>3. CASE I = {}
  BY <1>1, <1>3
<1> QED
  BY <1>2, <1>3

(* The output directory that is found is one that a build wrote.           *)
LEMMA ResolvedExists ==
  ASSUME NEW d \in Deployment, NEW out
  PROVE  \/ ResolveOutputDirectory(d, out) = Absent
         \/ out[ResolveOutputDirectory(d, out)] # Absent
<1> DEFINE declared == Setting(d, "output", <<PresetOf(d).output>>)
           Existing(dir) == IF dir # Absent /\ out[dir] # Absent THEN dir ELSE Absent
           next == IF Framework(d) = "nextjs" THEN "out" ELSE Absent
           guesses == <<PresetOf(d).default, next>> \o Candidates
           values == [i \in DOMAIN guesses |-> Existing(guesses[i])]
<1>1. ResolveOutputDirectory(d, out) =
        IF declared # Absent THEN Existing(declared) ELSE Coalesce(values)
  BY DEF ResolveOutputDirectory
<1>2. \A dir : Existing(dir) = Absent \/ out[Existing(dir)] # Absent
  OBVIOUS
<1>3. Coalesce(values) = Absent \/ out[Coalesce(values)] # Absent
  <2> DEFINE G == Directory \cup {PresetOf(d).default, next}
             V == {Existing(g) : g \in G}
  <2>1. guesses \in Seq(G)
    <3>1. Candidates \in Seq(G)
      BY BuilderAssumption
    <3>2. <<PresetOf(d).default, next>> \in Seq(G)
      OBVIOUS
    <3> HIDE DEF G, next
    <3> QED
      BY <3>1, <3>2
  <2>2. values \in Seq(V) /\ \A i \in 1..Len(values) : values[i] = Existing(guesses[i])
    <3> HIDE DEF guesses, G, Existing
    <3>1. DOMAIN guesses = 1..Len(guesses) /\ Len(guesses) \in Nat
      BY <2>1
    <3>2. \A i \in 1..Len(guesses) : guesses[i] \in G
      BY <2>1
    <3>3. values \in [1..Len(guesses) -> V]
      BY <3>1, <3>2
    <3> QED
      BY <3>1, <3>3
  <2>3. Coalesce(values) = Absent \/ \E i \in 1..Len(values) : Coalesce(values) = values[i]
    <3> HIDE DEF values, V
    <3> QED
      BY <2>2, CoalescePicks
  <2> HIDE DEF values, Existing, guesses
  <2> QED
    BY <1>2, <2>2, <2>3
<1> HIDE DEF Existing, values, declared
<1> QED
  BY <1>1, <1>2, <1>3

(* Whatever commands there are, the stages come in their order.            *)
LEMMA StagesFollow ==
  ASSUME NEW d \in Deployment, NEW s \in {"fetch", "install", "build"}
  PROVE  Following(d, s) \in {"install", "build", "snapshot"}
<1> DEFINE later == CASE s = "fetch" -> <<"install", "build">>
                      [] s = "install" -> <<"build">>
                      [] OTHER -> <<>>
           Wanted(t) == IF t = "install" THEN InstallCommand(d) # Absent
                                         ELSE BuildCommand(d) # Absent
           I == {i \in 1..Len(later) : Wanted(later[i])}
           i == IF I # {} THEN Min(I) ELSE 0
<1>1. Following(d, s) = IF i = 0 THEN "snapshot" ELSE later[i]
  BY DEF Following, SelectInSeq
<1>2. Len(later) \in Nat /\ \A j \in 1..Len(later) : later[j] \in {"install", "build"}
  <2>1. CASE s = "fetch"
    BY <2>1
  <2>2. CASE s = "install"
    BY <2>2
  <2>3. CASE s = "build"
    BY <2>3
  <2> QED
    BY <2>1, <2>2, <2>3
<1>3. CASE I # {}
  <2>1. I \in SUBSET (1..Len(later))
    OBVIOUS
  <2>3. Min(I) \in I
    <3> HIDE DEF I, later
    <3> QED
      BY <1>2, <1>3, <2>1, FirstPosition
  <2> HIDE DEF I, later
  <2> QED
    BY <1>1, <1>2, <1>3, <2>1, <2>3
<1>4. CASE I = {}
  BY <1>1, <1>4
<1> QED
  BY <1>3, <1>4

-----------------------------------------------------------------------------
(* The builder                                                             *)

(* Source, tree and what a shell makes of it are trees.                    *)
LEMMA TreesTyped ==
  ASSUME BuilderTypeOK, NEW d \in Deployment
  PROVE  Fetched(d) \in Trees /\ Built(d) \in Trees /\ NoTree \in Trees
<1>1. /\ tree \in [commit : Deployment \cup {Absent}, out : [Directory -> Deployment \cup {Absent}]]
      /\ \A dir \in Directory : tree.out[dir] \in Deployment \cup {Absent}
  BY DEF BuilderTypeOK, Trees
<1>2. Fetched(d) \in Trees
  BY <1>1 DEF Fetched, Trees
<1>3. Built(d) \in Trees
  <2>1. [dir \in Directory |-> IF dir \in Source[d].writes THEN d ELSE tree.out[dir]]
          \in [Directory -> Deployment \cup {Absent}]
    BY <1>1
  <2> QED
    BY <1>1, <2>1 DEF Built, Trees
<1>4. NoTree \in Trees
  BY DEF NoTree, Trees
<1> QED
  BY <1>2, <1>3, <1>4

(* git clean leaves no output of another build where none is ignored, and  *)
(* a build command adds its own.                                           *)
LEMMA FetchedIsOwn ==
  ASSUME NEW d \in Deployment
  PROVE  Own(Fetched(d), d)
  BY DEF Own, Fetched

(* What is built from its own commit is the own output.                    *)
LEMMA BuiltIsOwn ==
  ASSUME BuilderTypeOK, NEW d \in Deployment, Own(tree, d)
  PROVE  Own(Built(d), d)
<1>1. tree \in [commit : Deployment \cup {Absent}, out : [Directory -> Deployment \cup {Absent}]]
  BY DEF BuilderTypeOK, Trees
<1>2. /\ Built(d).commit = tree.commit
      /\ \A dir \in Directory :
           Built(d).out[dir] = IF dir \in Source[d].writes THEN d ELSE tree.out[dir]
  BY <1>1 DEF Built
<1> QED
  BY <1>2 DEF Own

(* A step of build d leaves the records of the others alone.               *)
OnlyOf(d) ==
  /\ BuilderTypeOK'
  /\ \A e \in Deployment \ {d} :
       /\ stage'[e] = stage[e] /\ step'[e] = step[e] /\ row'[e] = row[e]
       /\ snap'[e] = snap[e] /\ onDisk'[e] = onDisk[e]

(* The invariant has to be shown for the build that moves: the others are  *)
(* not under way, or nothing of theirs is touched.                         *)
LEMMA OneMoves ==
  ASSUME Artifacts, NEW d \in Deployment, OnlyOf(d),
         Busy(d)' => Busy(d) \/ \A e \in Deployment : ~Busy(e),
         Busy(d)' /\ ~Fetching(d)' => Own(tree, d)',
         stage'[d] = "snapshot" /\ step'[d] = "ok" => Whole(d)',
         onDisk'[d] => stage'[d] = "done" /\ Whole(d)',
         row'[d] # "BUILDING" => stage'[d] \in {"done", "failed"},
         step'[d] # "none" => Busy(d)',
         tree' = tree \/ Busy(d)
  PROVE  Artifacts'
<1>1. BuilderTypeOK' /\ BuilderTypeOK
  BY DEF OnlyOf, Artifacts
<1>2. \A e \in Deployment \ {d} :
        /\ Busy(e)' <=> Busy(e)
        /\ Fetching(e)' <=> Fetching(e)
        /\ Whole(e)' <=> Whole(e)
  BY DEF OnlyOf, Busy, Fetching, Whole, Own
<1>3. OneBuild'
  <2>1. ASSUME NEW e \in Deployment, NEW f \in Deployment, Busy(e)', Busy(f)'
        PROVE  e = f
    BY <1>2, <2>1 DEF Artifacts, OneBuild
  <2> QED
    BY <2>1 DEF OneBuild, Busy
<1>4. TreeIsOwn'
  <2>1. ASSUME NEW e \in Deployment \ {d}, Busy(e)', ~Fetching(e)'
        PROVE  Own(tree, e)'
    <3>1. Busy(e) /\ ~Fetching(e) /\ ~Busy(d)
      BY <1>2, <2>1 DEF Artifacts, OneBuild
    <3>2. tree' = tree /\ Own(tree, e)
      BY <3>1 DEF Artifacts, TreeIsOwn
    <3> QED
      BY <3>2 DEF Own
  <2> QED
    BY <2>1 DEF TreeIsOwn, Busy, Fetching, Own
<1>5. SnapIsOwn'
  BY <1>2 DEF SnapIsOwn, OnlyOf, Artifacts, Whole, Own
<1>6. RowsFollow'
  BY <1>2 DEF RowsFollow, OnlyOf, Artifacts, Busy
<1> QED
  BY <1>1, <1>3, <1>4, <1>5, <1>6 DEF Artifacts

(* A build that is under way has no manifest and a row that is BUILDING.   *)
LEMMA BusyHasNone ==
  ASSUME Artifacts, NEW d \in Deployment, Busy(d) \/ stage[d] = "queued"
  PROVE  ~onDisk[d] /\ row[d] = "BUILDING"
  BY DEF Artifacts, SnapIsOwn, RowsFollow, Busy, BuilderTypeOK

(* A build that starts has no artifacts yet.                               *)
LEMMA StartBuildKeeps ==
  ASSUME Artifacts, NEW d \in Deployment, StartBuild(d)
  PROVE  Artifacts'
<1>1. /\ stage' = [stage EXCEPT ![d] = "fetch"] /\ step' = [step EXCEPT ![d] = "running"]
      /\ UNCHANGED <<row, aborted, tree, snap, onDisk>>
      /\ \A e \in Deployment : ~Busy(e)
  BY DEF StartBuild, Enter, Busy
<1>2. BuilderTypeOK /\ ~onDisk[d] /\ row[d] = "BUILDING"
  BY BusyHasNone DEF Artifacts, StartBuild
<1>3. /\ OnlyOf(d)
      /\ stage'[d] = "fetch" /\ step'[d] = "running"
  BY <1>1, <1>2 DEF OnlyOf, BuilderTypeOK, Stages
<1> QED
  BY <1>1, <1>2, <1>3, OneMoves DEF Fetching, Busy

(* The copy of a shell that succeeded is whole.                            *)
LEMMA CopiedWhole ==
  ASSUME NEW ok, ok
  PROVE  Copied(ok).whole
  BY Zenon DEF Copied

(* A shell that ends well leaves its whole effect.                         *)
LEMMA ShellExitsKeeps ==
  ASSUME Artifacts, NEW d \in Deployment, ShellExits(d), Busy(d)
  PROVE  Artifacts'
<1>1. BuilderTypeOK /\ ~onDisk[d] /\ row[d] = "BUILDING"
  BY BusyHasNone DEF Artifacts
<1>2. PICK s \in {"ok", "failed"} : step' = [step EXCEPT ![d] = s]
  BY DEF ShellExits
<1>3. step'[d] = s /\ UNCHANGED <<row, stage, aborted, onDisk>>
  BY <1>1, <1>2 DEF ShellExits, BuilderTypeOK
<1>4. tree' \in {tree, Fetched(d), Built(d)}
  BY DEF ShellExits
<1>5. snap' = snap \/ (stage[d] = "snapshot" /\ snap' = [snap EXCEPT ![d] = Copied(s = "ok")])
  BY <1>3 DEF ShellExits
<1>6. tree' \in Trees
  BY <1>1, <1>4, TreesTyped DEF BuilderTypeOK
<1>7. Copied(s = "ok") \in [tree : Trees, whole : BOOLEAN]
  <2>1. tree \in Trees /\ (s = "ok") \in BOOLEAN
    BY <1>1 DEF BuilderTypeOK
  <2> QED
    BY <2>1 DEF Copied
<1>8. snap' \in [Deployment -> [tree : Trees, whole : BOOLEAN]]
  BY <1>1, <1>5, <1>7 DEF BuilderTypeOK
<1>9. OnlyOf(d)
  <2>1. step' \in [Deployment -> {"none", "running", "killed", "ok", "failed"}]
    BY <1>1, <1>2 DEF BuilderTypeOK
  <2>2. BuilderTypeOK'
    BY <1>1, <1>3, <1>6, <1>8, <2>1 DEF BuilderTypeOK
  <2>3. \A e \in Deployment \ {d} : step'[e] = step[e] /\ snap'[e] = snap[e]
    BY <1>1, <1>2, <1>5 DEF BuilderTypeOK
  <2> QED
    BY <1>3, <2>2, <2>3 DEF OnlyOf
<1>10. ASSUME ~Fetching(d)'
       PROVE  Own(tree, d)'
  <2>1. stage[d] # "fetch" \/ s = "ok"
    BY <1>3, <1>10 DEF Fetching
  <2>2. CASE stage[d] = "fetch"
    <3>1. tree' = Fetched(d)
      BY <1>3, <2>1, <2>2 DEF ShellExits
    <3> QED
      BY <3>1, FetchedIsOwn DEF Own
  <2>3. CASE stage[d] # "fetch"
    <3>1. Own(tree, d) /\ tree' \in {tree, Built(d)}
      BY <2>3 DEF Artifacts, TreeIsOwn, Fetching, ShellExits
    <3>2. Own(Built(d), d)
      BY <1>1, <3>1, BuiltIsOwn
    <3> QED
      BY <3>1, <3>2 DEF Own
  <2> QED
    BY <2>2, <2>3
<1>11. ASSUME stage[d] = "snapshot", s = "ok"
       PROVE  Whole(d)'
  <2>1. Own(tree, d)
    BY <1>11 DEF Artifacts, TreeIsOwn, Fetching
  <2>2. snap'[d] = Copied(s = "ok")
    BY <1>1, <1>3, <1>11 DEF ShellExits, BuilderTypeOK
  <2>3. snap'[d].tree = tree
    BY <2>2 DEF Copied
  <2>4. snap'[d].whole
    <3>1. Copied(s = "ok").whole
      BY <1>11, CopiedWhole
    <3> QED
      BY <2>2, <3>1
  <2> QED
    BY <2>1, <2>3, <2>4 DEF Whole, Own
<1> QED
  BY <1>1, <1>3, <1>9, <1>10, <1>11, OneMoves DEF Busy

(* A build that is aborted leaves none.                                    *)
LEMMA AbortKeeps ==
  ASSUME Artifacts, NEW d \in Deployment, Abort(d)
  PROVE  Artifacts'
<1>1. Busy(d) /\ BuilderTypeOK /\ ~onDisk[d] /\ row[d] = "BUILDING"
  BY BusyHasNone DEF Abort, Busy, Artifacts
<1>2. /\ step' = [step EXCEPT ![d] = IF @ = "running" THEN "killed" ELSE @]
      /\ aborted' = [aborted EXCEPT ![d] = TRUE] /\ UNCHANGED <<row, stage, tree, snap, onDisk>>
  BY DEF Abort
<1>3. OnlyOf(d) /\ step'[d] = IF step[d] = "running" THEN "killed" ELSE step[d]
  BY <1>1, <1>2 DEF OnlyOf, BuilderTypeOK
<1>4. (step'[d] = "ok" => step[d] = "ok") /\ (step[d] = "ok" => step'[d] = "ok")
  BY <1>3
<1>5. Busy(d)' /\ ~Fetching(d)' => Own(tree, d)'
  BY <1>1, <1>2, <1>4 DEF Artifacts, TreeIsOwn, Fetching, Own
<1>6. stage'[d] = "snapshot" /\ step'[d] = "ok" => Whole(d)'
  BY <1>2, <1>4 DEF Artifacts, SnapIsOwn, Whole, Own
<1> QED
  BY <1>1, <1>2, <1>3, <1>5, <1>6, OneMoves DEF Busy

(* Nor does one that fails.                                                *)
LEMMA FailKeeps ==
  ASSUME Artifacts, NEW d \in Deployment, Fail(d), Busy(d)
  PROVE  Artifacts'
<1>1. BuilderTypeOK /\ ~onDisk[d]
  BY BusyHasNone DEF Artifacts
<1>2. OnlyOf(d) /\ stage'[d] = "failed" /\ step'[d] = "none" /\ ~onDisk'[d]
  BY <1>1 DEF Fail, Over, OnlyOf, BuilderTypeOK, Stages
<1> QED
  BY <1>2, OneMoves DEF Busy, Fail

(* The next stage starts with a tree that is the build's own.              *)
LEMMA NextStepKeeps ==
  ASSUME Artifacts, NEW d \in Deployment, NextStep(d)
  PROVE  Artifacts'
<1>1. stage[d] \in {"fetch", "install", "build"} /\ step[d] = "ok" /\ Busy(d)
  BY DEF NextStep, Succeeded, Busy
<1>2. BuilderTypeOK /\ ~onDisk[d] /\ row[d] = "BUILDING" /\ Own(tree, d)
  BY <1>1, BusyHasNone DEF Artifacts, TreeIsOwn, Fetching
<1>3. CASE Fail(d)
  BY <1>1, <1>3, FailKeeps
<1>4. CASE ~Fail(d)
  <2>1. PICK s : Enter(d, s) /\ UNCHANGED <<row, aborted, tree, snap, onDisk>>
                 /\ s = Following(d, stage[d])
    BY <1>4 DEF NextStep
  <2>2. s \in {"install", "build", "snapshot"}
    BY <1>1, <2>1, StagesFollow
  <2>3. /\ OnlyOf(d)
        /\ stage'[d] = s /\ step'[d] = "running"
    BY <1>2, <2>1, <2>2 DEF Enter, OnlyOf, BuilderTypeOK, Stages
  <2>4. Own(tree, d)'
    BY <1>2, <2>1 DEF Own
  <2> QED
    BY <1>1, <1>2, <2>1, <2>2, <2>3, <2>4, OneMoves DEF Busy
<1> QED
  BY <1>3, <1>4

(* Only a shell of snapshot that succeeded gets as far as the manifest.    *)
LEMMA WriteManifestKeeps ==
  ASSUME Artifacts, NEW d \in Deployment, WriteManifest(d)
  PROVE  Artifacts'
<1>1. BuilderTypeOK /\ Busy(d) /\ Whole(d)
  BY DEF Artifacts, SnapIsOwn, WriteManifest, Succeeded, Busy
<1>2. OnlyOf(d) /\ stage'[d] = "done" /\ step'[d] = "none"
  BY <1>1 DEF WriteManifest, Over, OnlyOf, BuilderTypeOK, Stages
<1>3. Whole(d)'
  BY <1>1 DEF Whole, Own, WriteManifest
<1> QED
  BY <1>1, <1>2, <1>3, OneMoves DEF Busy, WriteManifest

(* A deployment that is removed was built.                                 *)
LEMMA RemoveKeeps ==
  ASSUME Artifacts, NEW d \in Deployment, RemoveDeployment(d)
  PROVE  Artifacts'
<1>1. BuilderTypeOK /\ stage[d] \in {"done", "failed"} /\ step[d] = "none"
  BY DEF Artifacts, RowsFollow, RemoveDeployment, Busy
<1>2. NoSnap \in [tree : Trees, whole : BOOLEAN]
  BY <1>1, TreesTyped DEF NoSnap
<1>3. /\ UNCHANGED <<stage, step, aborted, tree>>
      /\ onDisk' = [onDisk EXCEPT ![d] = FALSE] /\ snap' = [snap EXCEPT ![d] = NoSnap]
      /\ row' \in {row, [row EXCEPT ![d] = "ABSENT"]}
  BY DEF RemoveDeployment
<1>4. OnlyOf(d) /\ ~onDisk'[d]
  BY <1>1, <1>2, <1>3 DEF OnlyOf, BuilderTypeOK
<1> QED
  BY <1>1, <1>3, <1>4, OneMoves DEF Busy

(* What leaves the builds alone.                                           *)
LEMMA BuildsStay ==
  ASSUME Artifacts, UNCHANGED buildVars
  PROVE  Artifacts'
  BY DEF Artifacts, BuilderTypeOK, OneBuild, TreeIsOwn, SnapIsOwn, RowsFollow, Busy, Fetching,
         Whole, Own, buildVars

(* The steps that direct a build keep what artifacts are.                  *)
LEMMA ControlKeeps ==
  ASSUME Artifacts, NEW d \in Deployment, Control(d)
  PROVE  Artifacts'
<1>1. CASE StartBuild(d) \/ Abort(d) \/ NextStep(d) \/ WriteManifest(d) \/ RemoveDeployment(d)
  BY <1>1, StartBuildKeeps, AbortKeeps, NextStepKeeps, WriteManifestKeeps, RemoveKeeps
<1>2. CASE ShellExits(d) \/ StepFails(d) \/ SettingsThrow(d)
  <2>1. Busy(d)
    BY <1>2 DEF ShellExits, StepFails, SettingsThrow, Artifacts, RowsFollow, Busy
  <2> QED
    BY <1>2, <2>1, ShellExitsKeeps, FailKeeps DEF StepFails, SettingsThrow
<1>3. CASE Promote(d)
  BY <1>3, BuildsStay DEF Promote
<1> QED
  BY <1>1, <1>2, <1>3 DEF Control, Builds, RunBuild

-----------------------------------------------------------------------------
(* The access log                                                          *)

(* A row that is inserted is counted, and the log is cut in time.          *)
LEMMA InsertKeeps ==
  ASSUME Log, NEW r \in Request, Insert(r)
  PROVE  /\ written' \in [Request -> Nat] /\ warned' \subseteq Request
         /\ logRows' \in Nat /\ sincePrune' \in 0..(PruneEvery - 1)
<1>1. /\ written \in [Request -> Nat] /\ warned \subseteq Request
      /\ logRows \in Nat /\ sincePrune \in 0..(PruneEvery - 1)
      /\ LogKeep \in Nat /\ PruneEvery \in Nat \ {0}
  BY ProxyAssumption DEF Log
<1>2. written' \in [Request -> Nat] /\ warned' \subseteq Request
  BY <1>1 DEF Insert
<1>3. CASE PruneDue
  <2>1. sincePrune' = 0 /\ logRows' \in {logRows + 1, Min({logRows + 1, LogKeep})}
    BY <1>3 DEF Insert
  <2>2. \E x \in {logRows + 1, LogKeep} : \A y \in {logRows + 1, LogKeep} : x <= y
    <3>1. CASE LogKeep <= logRows + 1
      BY <1>1, <3>1
    <3>2. CASE ~(LogKeep <= logRows + 1)
      BY <1>1, <3>2
    <3> QED
      BY <3>1, <3>2
  <2>3. Min({logRows + 1, LogKeep}) \in {logRows + 1, LogKeep}
    BY <2>2 DEF Min
  <2> QED
    BY <1>1, <1>2, <2>1, <2>3
<1>4. CASE ~PruneDue
  <2>1. sincePrune' = sincePrune + 1 /\ logRows' = logRows + 1
    BY <1>4 DEF Insert
  <2> QED
    BY <1>1, <1>2, <1>4, <2>1 DEF PruneDue
<1> QED
  BY <1>3, <1>4

(* One attempt, which may fail, or none.                                   *)
LEMMA RecordKeeps ==
  ASSUME Log, NEW r \in Request, Record(r)
  PROVE  /\ recorded' \in [Request -> BOOLEAN]
         /\ written' \in [Request -> Nat] /\ warned' \subseteq Request
         /\ logRows' \in Nat /\ sincePrune' \in 0..(PruneEvery - 1)
<1>0. recorded \in [Request -> BOOLEAN]
  BY DEF Log
<1>1. recorded' \in [Request -> BOOLEAN]
  <2>1. recorded' = recorded \/ recorded' = [recorded EXCEPT ![r] = TRUE]
    BY DEF Record
  <2> QED
    BY <1>0, <2>1
<1>2. CASE Insert(r)
  BY <1>1, <1>2, InsertKeeps
<1>3. CASE InsertFails(r)
  BY <1>1, <1>3 DEF InsertFails, Log
<1>4. CASE UNCHANGED tableVars
  BY <1>1, <1>4 DEF tableVars, Log
<1> QED
  BY <1>2, <1>3, <1>4 DEF Record

(* What leaves the log alone.                                              *)
LEMMA LogStays ==
  ASSUME Log, UNCHANGED logVars, current' \in Deployment \cup {None}
  PROVE  Log'
  BY DEF Log, logVars, tableVars

(* An event of a response.                                                 *)
LEMMA EmitKeeps ==
  ASSUME Log, NEW r \in Request, NEW event \in {"finish", "close"}, Emit(r, event)
  PROVE  Log'
<1>1. UNCHANGED <<current, status, about>> /\ ended' = [ended EXCEPT ![r] = @ \cup {event}]
  BY DEF Emit
<1>2. Record(r)
  BY DEF Emit, RecordedOn
<1>3. ended' \in [Request -> SUBSET {"finish", "close"}]
  BY <1>1 DEF Log
<1> QED
  BY <1>1, <1>2, <1>3, RecordKeeps DEF Log

(* The answers of handle.                                                  *)
LEMMA HandleKeeps ==
  ASSUME Log, NEW r \in Request, NEW d \in Deployment, NEW p \in Path, Handle(r, d, p)
  PROVE  Log' /\ UNCHANGED buildVars
<1>0. /\ status \in [Request -> {0, 200, 308, 404, 502, 503}]
      /\ about \in [Request -> Deployment \cup {None}]
  BY DEF Log
<1>1. ASSUME NEW e \in Deployment \cup {None}, NEW code \in {200, 308, 404, 502, 503},
             Answer(r, e, code)
      PROVE  Log' /\ UNCHANGED buildVars
  <2>1. /\ status' \in [Request -> {0, 200, 308, 404, 502, 503}]
        /\ about' \in [Request -> Deployment \cup {None}]
    BY <1>0, <1>1 DEF Answer
  <2>2. UNCHANGED <<buildVars, current, recorded, ended, tableVars>>
    BY <1>1 DEF Answer
  <2> QED
    BY <2>1, <2>2 DEF Log, tableVars
<1>2. CASE ServeRuntime(r, d, p)
  <2>1. about' \in [Request -> Deployment \cup {None}]
    BY <1>0, <1>2 DEF ServeRuntime
  <2>2. UNCHANGED <<buildVars, current, status, recorded, ended, tableVars>>
    BY <1>2 DEF ServeRuntime
  <2> QED
    BY <2>1, <2>2 DEF Log, tableVars
<1>3. CASE NoTarget(r, d) \/ NotReady(r, d) \/ NoArtifacts(r, d) \/ Redirect(r, d, p)
  BY <1>1, <1>3 DEF NoTarget, NotReady, NoArtifacts, Redirect
<1>4. CASE ServeFiles(r, d, p)
  <2>1. StaticStatus(d, PathOf(d, p)) \in {200, 404}
    BY DEF StaticStatus
  <2> QED
    BY <1>1, <1>4, <2>1 DEF ServeFiles
<1> QED
  BY <1>2, <1>3, <1>4 DEF Handle

-----------------------------------------------------------------------------
(* The composition                                                         *)

(* For the runtime manager a step of the proxy is one of its own, or none: *)
(* the keys that requests name are keys.                                   *)
LEMMA RuntimeSteps == [Next]_vars => [RuntimesNext]_<<execVars, rtVars>>
<1> SUFFICES ASSUME [Next]_vars PROVE [RuntimesNext]_<<execVars, rtVars>>
  OBVIOUS
<1>1. ASSUME NEW r \in Request, NEW d \in Deployment, NEW p \in Path, Handle(r, d, p)
      PROVE  [RuntimesNext]_<<execVars, rtVars>>
  <2>1. CASE ServeRuntime(r, d, p)
    <3>1. PICK i \in IF Server(d) THEN {0} ELSE FunctionFor(d, p) : Acquire(r, KeyFor(d, i))
      BY <2>1 DEF ServeRuntime
    <3>2. KeyFor(d, i) \in Key
      BY <3>1, ProxyAssumption
    <3> QED
      BY <3>1, <3>2 DEF RuntimesNext
  <2>2. CASE ~ServeRuntime(r, d, p)
    BY <1>1, <2>2 DEF Handle, NoTarget, NotReady, NoArtifacts, Redirect, ServeFiles, Answer
  <2> QED
    BY <2>1, <2>2
<1>2. ASSUME NEW r \in Request, Edge(Upstream(r)) \/ Finish(r) \/ CloseResponse(r) \/ HangUp(r)
      PROVE  [RuntimesNext]_<<execVars, rtVars>>
  BY <1>2 DEF Edge, Finish, CloseResponse, HangUp, Emit, RuntimesNext
<1>3. ASSUME NEW p \in Proc, Edge(Runtime(p))
      PROVE  [RuntimesNext]_<<execVars, rtVars>>
  BY <1>3 DEF Edge, RuntimesNext
<1>4. CASE Edge(ReapIdle) \/ Edge(Shutdown) \/ Edge(ExitProcess)
  BY <1>4 DEF Edge, RuntimesNext
<1>5. CASE (\E d \in Deployment : Control(d)) \/ Done \/ UNCHANGED vars
  BY <1>5 DEF Control, Done, vars
<1> QED
  BY <1>1, <1>2, <1>3, <1>4, <1>5 DEF Next, Work

(* The proxy starts with nothing built, nothing listed and nothing logged. *)
LEMMA EdgeStart == Init => BootInv /\ Artifacts /\ Log
<1> SUFFICES ASSUME Init PROVE BootInv /\ Artifacts /\ Log
  OBVIOUS
<1>1. BootInv
  BY InitBootInv DEF Init
<1>2. NoTree \in Trees
  BY DEF NoTree, Trees
<1>3. BuilderTypeOK
  BY <1>2 DEF Init, BuilderInit, BuilderTypeOK, NoSnap, Stages
<1>4. OneBuild /\ TreeIsOwn /\ SnapIsOwn /\ RowsFollow
  BY DEF Init, BuilderInit, OneBuild, TreeIsOwn, SnapIsOwn, RowsFollow, Busy
<1>5. Log
  BY ProxyAssumption DEF Init, Log
<1> QED
  BY <1>1, <1>3, <1>4, <1>5 DEF Artifacts

(* Every step keeps the artifacts as they are or builds one, and logs.     *)
LEMMA EdgeStep ==
  BootInv /\ Artifacts /\ Log /\ [Next]_vars => (BootInv /\ Artifacts /\ Log)'
<1> SUFFICES ASSUME BootInv, Artifacts, Log, [Next]_vars PROVE (BootInv /\ Artifacts /\ Log)'
  OBVIOUS
<1>1. BootInv'
  BY RuntimeSteps, NextBootInv
<1>c. current \in Deployment \cup {None}
  BY DEF Log
<1>2. CASE UNCHANGED edgeVars
  <2>1. UNCHANGED buildVars /\ UNCHANGED logVars /\ current' = current
    BY <1>2 DEF edgeVars
  <2> QED
    BY <1>1, <1>c, <2>1, BuildsStay, LogStays
<1>3. ASSUME NEW r \in Request, NEW d \in Deployment, NEW p \in Path, Handle(r, d, p)
      PROVE  (Artifacts /\ Log)'
  BY <1>3, HandleKeeps, BuildsStay
<1>4. ASSUME NEW r \in Request, Finish(r) \/ CloseResponse(r) \/ HangUp(r)
      PROVE  (Artifacts /\ Log)'
  <2>1. PICK event \in {"finish", "close"} : Emit(r, event)
    BY <1>4 DEF Finish, CloseResponse, HangUp
  <2>2. UNCHANGED buildVars
    BY <2>1 DEF Emit
  <2> QED
    BY <2>1, <2>2, EmitKeeps, BuildsStay
<1>5. ASSUME NEW d \in Deployment, Control(d)
      PROVE  (Artifacts /\ Log)'
  <2>1. UNCHANGED logVars /\ current' \in {current, d}
    BY <1>5 DEF Control, Promote, RemoveDeployment
  <2> QED
    BY <1>5, <1>c, <2>1, ControlKeeps, LogStays
<1>6. CASE Done \/ UNCHANGED vars
  BY <1>2, <1>6 DEF Done, vars
<1> QED
  BY <1>1, <1>2, <1>3, <1>4, <1>5, <1>6 DEF Next, Work, Edge

-----------------------------------------------------------------------------
(* Routes                                                                  *)

(* SelectInSeq, for the tests the matchers use: the first catch-all.       *)
LEMMA FirstCatchAll ==
  ASSUME NEW Seg, NEW route \in Seq(Seg)
  PROVE  /\ Fixed(route) = 0 => \A i \in 1..Len(route) : route[i].kind # "all"
         /\ Fixed(route) # 0 =>
              /\ Fixed(route) \in 1..Len(route) /\ route[Fixed(route)].kind = "all"
              /\ \A i \in 1..Len(route) : i < Fixed(route) => route[i].kind # "all"
<1> DEFINE S == {i \in 1..Len(route) : route[i].kind = "all"}
<1>1. Fixed(route) = IF S # {} THEN Min(S) ELSE 0
  BY DEF Fixed, SelectInSeq
<1>2. Len(route) \in Nat
  OBVIOUS
<1>3. CASE S = {}
  BY <1>1, <1>3
<1>4. CASE S # {}
  <2>1. Min(S) \in S /\ \A k \in S : Min(S) <= k
    BY <1>2, <1>4, FirstPosition
  <2>2. Fixed(route) = Min(S)
    BY <1>1, <1>4
  <2>3. Fixed(route) \in 1..Len(route) /\ route[Fixed(route)].kind = "all"
    BY <2>1, <2>2
  <2>4. ASSUME NEW i \in 1..Len(route), i < Fixed(route)
        PROVE  i \notin S
    <3>1. Fixed(route) \in Nat /\ i \in Nat
      BY <1>2, <2>3
    <3>2. i \in S => Fixed(route) <= i
      BY <2>1, <2>2
    <3> QED
      BY <2>4, <3>1, <3>2
  <2>5. Fixed(route) # 0
    BY <1>2, <2>3
  <2> QED
    BY <2>3, <2>4, <2>5
<1> QED
  BY <1>3, <1>4

(* The matchers of the proxy and of the function host agree on every route *)
(* and every path.                                                         *)
THEOREM MatchersAgree ==
  ASSUME NEW Seg, NEW Name, NEW route \in Seq(Seg), NEW path \in Seq(Name)
  PROVE  MatchRoute(route, path) <=> MatchFunctionRoute(route, path)
<1> DEFINE Stops(i) == route[i].kind = "all" \/ i > Len(path) \/ ~SegmentMatches(route[i], path[i])
           positions == [i \in DOMAIN route |-> i]
           S == {i \in 1..Len(route) : Stops(i)}
           first == IF S # {} THEN Min(S) ELSE 0
<1>0. Len(route) \in Nat /\ DOMAIN route = 1..Len(route) /\ Len(path) \in Nat
  OBVIOUS
<1>1. MatchRoute(route, path)
        <=> IF first = 0 THEN Len(path) = Len(route) ELSE route[first].kind = "all"
  <2>1. positions \in Seq(Nat) /\ Len(positions) = Len(route)
    BY <1>0
  <2>2. {i \in 1..Len(positions) : Stops(positions[i])} = S
    BY <1>0, <2>1
  <2> QED
    BY <2>2 DEF MatchRoute, SelectInSeq
<1>2. CASE S = {}
  <2>1. first = 0 /\ Fixed(route) = 0
    BY <1>0, <1>2, FirstCatchAll
  <2>2. \A i \in 1..Len(route) : i <= Len(path) /\ SegmentMatches(route[i], path[i])
    BY <1>0, <1>2
  <2> QED
    BY <1>0, <1>1, <2>1, <2>2 DEF MatchFunctionRoute, PrefixMatches
<1>3. CASE S # {}
  <2>1. first \in S /\ first \in 1..Len(route) /\ \A k \in S : first <= k
    BY <1>0, <1>3, FirstPosition
  <2>2. \A i \in 1..Len(route) : i < first => i <= Len(path) /\ SegmentMatches(route[i], path[i])
                                             /\ route[i].kind # "all"
    BY <1>0, <2>1
  <2> HIDE DEF first, S
  <2>3. first # 0 /\ first \in Nat
    BY <1>0, <2>1
  <2>4. CASE route[first].kind = "all"
    <3>1. Fixed(route) = first
      BY <1>0, <2>1, <2>2, <2>4, FirstCatchAll
    <3>2. first - 1 <= Len(path)
      <4>1. CASE first = 1
        BY <1>0, <4>1
      <4>2. CASE first # 1
        <5>1. first - 1 \in 1..Len(route) /\ first - 1 < first
          BY <1>0, <2>1, <4>2
        <5> QED
          BY <2>2, <5>1
      <4> QED
        BY <4>1, <4>2
    <3>3. \A i \in 1..(first - 1) : i \in 1..Len(route) /\ i < first
      BY <1>0, <2>1
    <3> QED
      BY <1>1, <2>2, <2>3, <2>4, <3>1, <3>2, <3>3 DEF MatchFunctionRoute, PrefixMatches
  <2>5. CASE route[first].kind # "all"
    <3>1. first > Len(path) \/ ~SegmentMatches(route[first], path[first])
      BY <2>1, <2>5 DEF S
    <3>2. CASE Fixed(route) = 0
      BY <1>0, <1>1, <2>1, <2>3, <2>5, <3>1, <3>2 DEF MatchFunctionRoute, PrefixMatches
    <3>3. CASE Fixed(route) # 0
      <4>1. Fixed(route) \in S /\ Fixed(route) \in 1..Len(route) /\ route[Fixed(route)].kind = "all"
        BY <3>3, FirstCatchAll DEF S
      <4>2. first <= Fixed(route) /\ first # Fixed(route)
        BY <2>1, <2>5, <4>1
      <4>3. first \in 1..(Fixed(route) - 1)
        BY <1>0, <2>1, <4>1, <4>2
      <4>4. ~PrefixMatches(route, path, Fixed(route) - 1)
        BY <1>0, <2>1, <3>1, <4>1, <4>3 DEF PrefixMatches
      <4> QED
        BY <1>1, <2>3, <2>5, <3>3, <4>4 DEF MatchFunctionRoute
    <3> QED
      BY <3>2, <3>3
  <2> QED
    BY <2>4, <2>5
<1> QED
  BY <1>2, <1>3

(* In the order of the manifest there is a first one among the entries     *)
(* that match: those without parameters, then without a catch-all, then    *)
(* the longest, then the one found first.                                  *)
LEMMA OneComesFirst ==
  ASSUME NEW routes, NEW N \in Nat, NEW M \in SUBSET (1..N), M # {},
         \A i \in M : RouteLength(routes[i]) \in Int
  PROVE  \E i \in M : \A j \in M : ~Before(routes[j], routes[i])
                                    /\ (Before(routes[i], routes[j]) \/ i <= j)
<1> DEFINE A == IF \E i \in M : ~IsDynamic(routes[i])
                THEN {i \in M : ~IsDynamic(routes[i])} ELSE M
           B == IF \E i \in A : ~IsCatchAll(routes[i])
                THEN {i \in A : ~IsCatchAll(routes[i])} ELSE A
           L == {RouteLength(routes[i]) : i \in B}
<1>1. A \subseteq M /\ A # {} /\ B \subseteq A /\ B # {}
  OBVIOUS
<1>2. IsFiniteSet(B) /\ B \subseteq 1..N
  <2>1. B \subseteq 1..N
    BY <1>1
  <2> HIDE DEF B
  <2> QED
    BY <2>1, PositionsAreFinite
<1>3. IsFiniteSet(L) /\ L \subseteq Int /\ L # {}
  <2> DEFINE f == [i \in B |-> RouteLength(routes[i])]
  <2> HIDE DEF B
  <2>1. f \in Surjection(B, L)
    BY DEF Surjection
  <2>2. L \subseteq Int /\ L # {}
    BY <1>1
  <2> QED
    BY <1>2, <2>1, <2>2, FS_Surjection
<1>4. PICK longest \in L : \A k \in L : k <= longest
  BY <1>3, GreatestExists
<1> DEFINE C == {i \in B : RouteLength(routes[i]) = longest}
<1>5. C \subseteq B /\ C # {} /\ C \subseteq 1..N
  BY <1>2
<1>6. PICK i \in C : \A j \in C : i <= j
  BY <1>5, FirstPosition
<1>7. /\ i \in M /\ i \in A /\ i \in B
      /\ \A j \in M : j \notin A => ~IsDynamic(routes[i]) /\ IsDynamic(routes[j])
      /\ \A j \in A : IsDynamic(routes[j]) <=> IsDynamic(routes[i])
      /\ \A j \in A : j \notin B => ~IsCatchAll(routes[i]) /\ IsCatchAll(routes[j])
      /\ \A j \in B : IsCatchAll(routes[j]) <=> IsCatchAll(routes[i])
  BY <1>1, <1>6
<1>8. \A j \in B : /\ RouteLength(routes[j]) <= RouteLength(routes[i])
                   /\ j \notin C => RouteLength(routes[i]) > RouteLength(routes[j])
  <2>1. RouteLength(routes[i]) = longest /\ longest \in Int
    BY <1>3, <1>6
  <2>2. ASSUME NEW j \in B
        PROVE  RouteLength(routes[j]) \in Int /\ RouteLength(routes[j]) <= longest
    BY <1>1, <1>4
  <2> HIDE DEF B, L
  <2> QED
    BY <2>1, <2>2
<1> HIDE DEF A, B, L
<1>9. ASSUME NEW j \in M
      PROVE  ~Before(routes[j], routes[i]) /\ (Before(routes[i], routes[j]) \/ i <= j)
  <2> DEFINE dj == IsDynamic(routes[j])
             di == IsDynamic(routes[i])
             cj == IsCatchAll(routes[j])
             ci == IsCatchAll(routes[i])
  <2>0. dj \in BOOLEAN /\ di \in BOOLEAN /\ cj \in BOOLEAN /\ ci \in BOOLEAN
    BY DEF IsDynamic, IsCatchAll
  <2>1. RouteLength(routes[j]) \in Int /\ RouteLength(routes[i]) \in Int
    BY <1>7
  <2>2. CASE j \notin A
    BY <1>7, <2>2 DEF Before
  <2>3. CASE j \in A /\ j \notin B
    <3>1. (dj <=> di) /\ ~ci /\ cj
      BY <1>7, <2>3
    <3> QED
      BY <2>0, <3>1 DEF Before
  <2>4. CASE j \in A /\ j \in B
    <3>1. (dj <=> di) /\ (cj <=> ci)
      BY <1>7, <2>4
    <3>2. RouteLength(routes[j]) <= RouteLength(routes[i])
      BY <1>8, <2>4
    <3>3. ~(RouteLength(routes[j]) > RouteLength(routes[i]))
      BY <2>1, <3>2
    <3>4. j \in C \/ RouteLength(routes[i]) > RouteLength(routes[j])
      BY <1>8, <2>4
    <3>5. j \in C => i <= j
      BY <1>6
    <3> HIDE DEF C
    <3> QED
      BY <2>0, <3>1, <3>3, <3>4, <3>5, Zenon DEF Before
  <2> QED
    BY <2>2, <2>3, <2>4
<1> QED
  BY <1>7, <1>9

(* A path that some function matches goes to exactly one of them, whatever *)
(* functions a project has: handle never falls through to the files, nor   *)
(* is its choice left to chance (server.ts findFunction).                  *)
THEOREM OneFunctionServes ==
  ASSUME NEW Route, NEW routes \in Seq(Route), NEW path,
         \A i \in DOMAIN routes : RouteLength(routes[i]) \in Int,
         \E i \in DOMAIN routes : MatchFunctionRoute(routes[i], path)
  PROVE  /\ \E i \in DOMAIN routes : FindFunction(routes, path) = {i}
         /\ \A i \in FindFunction(routes, path) : MatchFunctionRoute(routes[i], path)
<1> DEFINE M == {i \in DOMAIN routes : MatchFunctionRoute(routes[i], path)}
<1>1. Len(routes) \in Nat /\ DOMAIN routes = 1..Len(routes)
  OBVIOUS
<1>2. M # {} /\ M \subseteq 1..Len(routes)
  BY <1>1
<1>3. FindFunction(routes, path) = {i \in M : \A j \in M : ~Before(routes[j], routes[i])
                                           /\ (Before(routes[i], routes[j]) \/ i <= j)}
  BY DEF FindFunction
<1>4. PICK i \in M : i \in FindFunction(routes, path)
  BY <1>1, <1>2, <1>3, OneComesFirst
<1>5. ASSUME NEW j \in FindFunction(routes, path)
      PROVE  j = i
  <2>1. j \in M /\ i \in M
    BY <1>3
  <2> HIDE DEF M
  <2>2. i <= j /\ j <= i
    BY <1>3, <1>4, <2>1
  <2> QED
    BY <1>1, <1>2, <2>1, <2>2
<1> QED
  BY <1>3, <1>4, <1>5

-----------------------------------------------------------------------------
(* Theorems                                                                *)

(* Runtimes, builds and log keep their invariants in the whole proxy.      *)
THEOREM EdgeInvariance == Spec => [](BootInv /\ Artifacts /\ Log)
  BY EdgeStart, EdgeStep, PTL DEF Spec

(* Every variable of the proxy, of its runtimes and of the builds behind   *)
(* it keeps its type; the counter of the log never passes PruneEvery.      *)
THEOREM EdgeTypeCorrect == Spec => []TypeOK
<1>1. BootInv /\ Artifacts /\ Log => TypeOK
  BY DEF BootInv, Artifacts, Log, TypeOK
<1> QED
  BY <1>1, EdgeInvariance, PTL

(* A directory with a manifest holds a whole copy of the commit of its     *)
(* deployment, wherever a build is aborted, fails or is removed.           *)
THEOREM NoHalfArtifact == Spec => []ManifestMeansWhole
<1>1. Artifacts => ManifestMeansWhole
  BY DEF Artifacts, SnapIsOwn, Whole, Own, ManifestMeansWhole
<1> QED
  BY <1>1, EdgeInvariance, PTL

(* The directory that is served was written by the deployment's own build, *)
(* however often the workspace was used before, unless git ignores it.     *)
THEOREM OwnOutput == Spec => []PublishesOwnOutput
<1>1. Artifacts => PublishesOwnOutput
  <2> SUFFICES ASSUME Artifacts, NEW d \in Deployment, onDisk[d],
                      StaticDir(d) \in Directory \ Source[d].ignored
               PROVE  snap[d].tree.out[StaticDir(d)] = d
    BY DEF PublishesOwnOutput
  <2>1. snap[d].tree.out[StaticDir(d)] \in {d, Absent}
    BY DEF Artifacts, SnapIsOwn, Whole, Own
  <2>2. StaticDir(d) # Absent
    BY BuilderAssumption
  <2>3. snap[d].tree.out[StaticDir(d)] # Absent
    BY <2>2, ResolvedExists DEF StaticDir
  <2> QED
    BY <2>1, <2>3
<1> QED
  BY <1>1, EdgeInvariance, PTL

(* The function host accepts every path that the proxy sends it, whatever  *)
(* functions a site has and however its rules rewrite the path: it is      *)
(* given the route by which the proxy chose it, and the two matchers agree.*)
THEOREM HostAccepts == Spec => []HostAcceptsPath
<1>1. HostAcceptsPath
  <2> SUFFICES ASSUME NEW d \in Deployment, NEW p \in Path, NEW i \in FunctionFor(d, p)
               PROVE  MatchRoute(Site[d].functions[i], PathOf(d, p))
    BY DEF HostAcceptsPath
  <2>1. /\ i \in DOMAIN Site[d].functions
        /\ MatchFunctionRoute(Site[d].functions[i], PathOf(d, p))
    BY DEF FunctionFor, FindFunction
  <2>2. Site[d].functions[i] \in Seq(Segment) /\ PathOf(d, p) \in Seq(STRING)
    BY <2>1, ProxyAssumption
  <2> QED
    BY <2>1, <2>2, MatchersAgree
<1> QED
  BY <1>1, PTL
=============================================================================
