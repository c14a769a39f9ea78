# AvailDeploy in TLA+

AvailDeploy (Avail Harbor) builds Git repositories and serves the results, on one host. This directory
models how its processes share deployments, how its proxy and development supervisor handle the
processes they start, and what its dashboard makes of late answers; it checks the models with TLC and
proves their invariants with TLAPS. Paths below are relative to the repository; `worker.rs` is
`rust-api/src/bin/worker.rs`, `builder/`, `db/`, `routes/` and `services/` are below `rust-api/src/`,
`proxy`, `builder`, `dashboard` and `cli` are below `apps/`.

## The system

| part | state it keeps | operations | it talks to |
| --- | --- | --- | --- |
| **avail-api** (`main.rs`, `routes/`, `services/`) | nothing but the rows; one process-wide mutex around its connection | deploy, redeploy, cancel, promote, delete, delete project; accounts, transfers, sign-in codes, environment variables, comments, webhooks; event streams that poll the rows | the database; removes deployment directories in spawned tasks |
| **avail-worker** (`worker.rs`, `builder/`) | `running` (build → cancellation token), `running_projects`, a semaphore of `BUILD_CONCURRENCY` permits, all in memory | `tick` every second, one `execute` task per build, `check_cancel_flags`, `cleanup_old_deployments`, `recover_on_boot` | the database (a connection and a mutex of its own); shells in a checkout per project; deployment directories |
| **proxy** (`proxy/`) | runtime instances by key, boots in progress, ports; a counter of logged requests | `resolveTarget`, redirects and rewrites, static files, functions, `acquire` / `stop` / `reapIdle` of runtimes, the access log | reads aliases, rows and manifests; starts processes; writes `request_logs` |
| **Node builder** (`builder/`) | a checkout per project | `run` and `kill` of shells, which the proxy uses; `runBuild`, which the control plane no longer calls | directories that the proxy serves |
| **database** (`db/`) | projects, deployments, aliases, events, logs, sessions, codes, transfers | one statement or one transaction at a time; foreign keys with ON DELETE CASCADE | |
| **dashboard, CLI** | what a page shows, requests under way, two kinds of event streams | sign in, follow a build, lists, settings, notifications, request logs, transfers, account | avail-api |
| **`scripts/dev.mjs`** | child processes, the last build, a debounced watcher | starts, watches, rebuilds, kills and restarts the services | SIGTERM |

`README.md:426-427` and `451-452` of the repository say that builds are made by `avail-worker`, and that the
proxy uses only the process primitives of `builder/`. Its `runBuild` is still there, and `builder/mod.rs`
under `rust-api` is a port of it step by step: Builder models it as the detailed view of a build, Worker the
port.

The server's processes interact only through rows and files. Deploying inserts a `QUEUED` row that the
worker's next tick finds. Cancelling a running build sets `meta.cancelRequested`, which a later tick
turns into a cancelled token. A build that ends moves aliases, which is what the proxy resolves a host
with. The dashboard hears of all this by answers and event streams, in any order the network gives.

**What is hard.** Each process has a mutex around its own connection, so a handler of the API and a
section of the worker exclude nothing of each other: they interleave statement by statement, and what
either read before may be stale when it writes. The worker works from the snapshot `tick` took; its
locks and permits are in memory and vanish with it; files are removed after, and rows changed before,
or the other way round. Both processes may be killed anywhere. In the proxy, requests meet boots that
time out, processes that die and a shutdown. `dev.mjs` is a single loop of callbacks whose timers,
builds and exits come in any order. A page of the dashboard is reused for another project or deployment
while requests of the one before are under way. `hazards` in PROJECT.json lists each place, with the
properties that watch it, or why none does.

**What makes each component correct**

* scheduler: one build per project, at most `BUILD_CONCURRENCY`, nothing leaked, nothing left waiting;
* execution: a row in progress always has a task that will settle it; READY only with files; aborted
  only on request;
* deployment API: an answer given stays true; at most one current production deployment; no dangling
  alias; what production serves is protected from delete and pruning;
* proxy runtimes: one boot per function, no dead process listed, no request left waiting while the proxy
  runs;
* request path: a request meets a whole artifact of the right commit or an error, and gets one row in the
  log, unless that row's insert fails or the proxy exits first;
* event streams: a page that is told the build is over has the lines that were due when the stream last
  read lines, and the command every line due before the end; a list of deployments comes to show their
  states (the home page, and what was promoted or deleted, it does not: see "Not modelled");
* sign-in codes: guesses that overlap are the only ones beyond the limit; a credential only by the code that
  was sent; accounts: every project keeps an owner, offers stay between its owner and another member;
* pages: what they show belongs to what they are about, and settles on what the server has;
* supervisor: one process per service, of the newest build; every edit gets built; nothing that was started
  before the shutdown survives it (what a timer or an await starts later does).

## Modules

```
Database ──┬── Worker ──┐
           └── Api ─────┴── Platform ──┬── MCPlatform                          (TLC)
BuildQueue ──INSTANCE──────┘           └── Platform_proofs ── Lifecycle_proofs (TLAPS)

Executor ──┬── Runtimes ──┬── MCRuntimes, Runtimes_proofs
           │              │
           └── Builder ───┼── Proxy ──┬── MCProxy
Routing ──────────────────┘           └── Proxy_proofs (with Runtimes_proofs)

SignIn, Follow, Bell, Projects, Tail, Lists, Ownership ── Dashboard ── Dashboard_proofs
                                          (with Pages_proofs and Ordering)
Supervisor ── MCSupervisor, Supervisor_proofs
```

### The platform

**Database** has the tables as functions from ids to rows, and one operator per SQL statement or
transaction. A row keeps `state`, `target`, whether `output_path` is set, `is_current_production` and
`meta.cancelRequested`. Ids are numbered in the order of `created_at`. Aliases are two functions from
projects: production and branch (all deployments of a project share one branch here; aliases of type
`deployment` and custom domains are left out). `disk` is the set of deployments whose directory is
complete. `Upserted` fails silently on a foreign key, as the worker ignores the error of
`aliases::upsert`; the API can never meet it, since only the API deletes rows.

**Worker** has the poll loop (`TickRead`, `TickStart`, `TickSkip`, `CheckCancelFlags`) and, for each
deployment, the stage its task is in. A task's step ends where the code releases the database mutex or
awaits. Inside `assign_aliases` it ends after each statement, because the API can run a statement
there; `DbFree` says that no other thread of the worker gets the mutex meanwhile. Two phases that write
the same state one after the other (Initializing and Cloning, Installing and Building, Collecting and
Publishing) are one write. A shell is one stage that may succeed or fail whatever the token says: the
`select!` of `executor.rs` may see the exit first, and a failure is called CANCELED only by the token.
The end of a task is the three steps of the code: `running`, `running_projects`, the permit. `Kill`
forgets all memory and may leave shells behind; `Boot` is `recover_on_boot`.

**Api** has the handlers. `apiOp` says which statement the running handler executes next, `apiDep` for
which deployment; one handler runs at a time since it holds the mutex throughout (`trigger_deploy`
releases it around its GitHub call, before its first write). `trash` holds the directories of
`spawn_deployment_cleanup`. `RestartApi` drops a handler where it is.

**Platform** puts the two side by side and states the properties. **BuildQueue** is the abstract
promise of the scheduler: a set of builds, `Start`, `End`, `Forget`. `ImplementsBuildQueue` instantiates
it with `building <- Active`, the tasks that are not over.

### The edge

**Executor** is `run` and `kill` of `builder/src/executor.ts`: a script file, the shell on it, the
command the shell starts (`job`), and the close of its output, which is what `run` waits for. A signal
reaches the shell and, only with `KillsTree` (Windows' taskkill), what it started. `kill` looks at
`killed` and at the exit code, which stays null for a child that a signal ended.

**Runtimes** is `proxy/src/runtime.ts`: the maps `instances` and `starting`, the phases of a boot cut
at each await (`PortFree`, `PortBusy`, `BootThrows`, then `PortAnswers` or `BootTimeout`), the exit
callback (`Exited`), `ReapIdle`, `Shutdown`, the exit of the proxy that follows it at any moment
(`ExitProcess`: the last connection closed, or 3 s passed), and the request that waits for the boot and is
forwarded (`Upstream`). After the exit only the processes it started go on. `script` is the content of the
file that all boots with one label share; `loaded` is what the shell read there.

**Builder** is `builder/src/index.ts`, `git.ts` and `settings.ts`: `runBuild` as a chain of shells, each
of which may fail or be aborted. The tree of the checkout keeps the commit and, per output directory,
which build wrote it; the checkout is shared and `git clean` keeps what the commit ignores. Detection
of a framework and the resolution of settings are operators over a table of presets. A snapshot copies
the tree, possibly in part; only `WriteManifest` makes it servable.

**Routing** has the pure parts: the order `functions.ts` gives to routes, the matcher of the proxy
(`routing.ts`) and the one of `function-server.mjs`, redirects, rewrites, and the candidates of
`static.ts`. A path is a sequence of names, a pattern a sequence of segments; a name has a length in
characters because the order of routes depends on it.

**Proxy** composes them: `handle` of `proxy/src/server.ts` with its early returns in their order, and
`finish`, `close` and hang-ups of a response. `Record` sets `recorded` and then tries its only insert:
`written` counts the rows in `request_logs`, `warned` has the requests whose insert failed. The log is pruned
every `PruneEvery` rows. `Control` is what writes the rows and files it reads.

### The dashboard and the CLI

Each module has the pages of one kind together with the part of the server they talk to. A request is
a record that the server serves, and that the page is told of, in separate steps; between the two the
page may be left, or reused.

* **SignIn**: `Login.tsx`, `avail login` and the handlers of `auth.rs`. A handler that checks a code is
  two steps, as it reads the code in one section of the mutex and bumps the counter in another. Beside the
  form and the command there is any set of other clients (`OtherClient`) that check codes; `overlap` is a
  history variable: how many checks of a code were under way together, at most.
* **Follow**: `deployment_events` and the worker's two writers of `build_logs`, against
  `DeploymentPage.tsx` and `avail deploy`. A tick of the stream reads the lines and then the state, a poll
  of the command the state and then the lines; the worker is another process and may write in between.
  Two history variables: `due`, the lines appended in order before the row was terminal, and `owed`, those
  of them that were due when the stream last read lines.
* **Bell**: `NotificationBell.tsx` over `notifications.rs`.
* **Projects**: the shared list of `main.tsx`, `ProjectLayout.tsx`, `ProjectSettings.tsx`.
* **Tail**: `ProjectLogs.tsx` over the listing of `request_logs`.
* **Lists**: the pages that load once and follow `workspace_events` (`ProjectDeployments.tsx`,
  `AllDeployments.tsx`), the tables that reload after each edit, and the forms of the build and Git
  settings. A deployment may be deleted, which no event says.
* **Ownership**: transfers, imports, deletion of projects and accounts, with requests that are let in
  (`auth.rs`, the extractor) before they get the mutex; `AccountSettings.tsx` and the transfer card.

**Dashboard** runs any one of them. The pages share no state but the session and the list of projects,
both in Projects, so the screens are alternatives and not a product.

### The supervisor

**Supervisor** is `scripts/dev.mjs`: a list of the processes launched for each service, the last of
them the one that `children` has; the start timer, the debounced watcher, a build, the kill with its
time limit, the two launches of a restart with an await between them, the exit event with the pids that
were marked as intended, and the shutdown with its delayed exit. `late` marks what was started after
the shutdown had begun.

## Runs

| run | instance | question | result |
| --- | --- | --- | --- |
| `scheduling` | 2 projects, 3 deployments (1 and 3 of one project), 2 permits, one kill | do the registries and the semaphore do what BuildQueue promises? | holds |
| `routing` | 1 project, 2 deployments of either target, every handler, keep 1, one API kill | do flags, aliases and files agree while handlers race builds and pruning? | holds |
| `progress` | 1 project, 2 deployments, cancel and delete project, one kill, fair | does every deployment settle? Is only what was asked for aborted? | holds |
| `boots` | 2 functions of one deployment, 2 processes, 2 ports, 2 requests, fair | do requests get an answer from a process that is there, while the proxy runs? | holds |
| `edge` | 2 deployments in one checkout: a server and a site with 3 functions; 1 request, 5 paths, fair | what may a request meet while builds publish, abort and are removed? Does it get its row in the log? | holds |
| `supervising` | api, worker and proxy, 2 edits, fair | one process per service, the newest build, every edit, nothing left? | holds |
| `dashboard` | 2 rows, addresses, projects, deployments or users on each screen, fair | can late, lost or overtaken answers leave a screen or an account wrong? | holds |
| `cancel_race` | 1 deployment | "Canceled before the build started" stays true | **violated** |
| `delete_building` | 2 production deployments | what production serves carries the flag that protects it | **violated** |
| `promote_race` | 2 deployments, keep 1 | what production serves has its files | **violated** |
| `orphan_shell` | 2 deployments, one kill | one shell at most in a project's checkout | **violated** |
| `script_race` | 2 functions of one deployment | the process of a function has only that route loaded | **violated** |

The properties of the platform:

* `TypeOK`; `SerializedBuilds`: two tasks of one project never overlap; `PermitsConserved`: free
  permits, permits about to be dropped and tasks add up to Concurrency; `RegistriesMatchTasks`: the two
  maps say what the tasks are; `ImplementsBuildQueue`: the refinement.
* `AtMostOneProduction`, although promotions of users and builds interleave; `ReadyHasArtifacts`: what
  promote would accept has its files, except between the two steps of a cleanup; `AliasesResolve`.
* `InProgressHasBuilder`: no row is in progress without a task that will still write its outcome, also
  after a restart; `CancelsWereRequested`: no build is aborted because of another one's flag, and no
  stale token outlives its build; `EveryDeploymentSettles`.

Of the edge:

* `OneBootPerKey`; `NeverListsClosed`: a closed process is never found under its function;
  `WaitersHaveABoot` and `RequestsSettle`: nobody waits for a boot that is over, and everybody is
  answered unless the proxy has exited. What they do not exclude: that the exit callback takes a newer
  process off the list, or that two boots choose one port (listed as hazards).
* `ManifestMeansWhole`: a half-made copy is never servable; `PublishesOwnOutput`: nor the output of an
  earlier build that the checkout still holds, except in directories that the commit ignores, where it
  does happen; `HostAcceptsPath`: the two matchers of routes agree on every path sent;
  `EveryRequestLogged`: a request that found a deployment gets one row and never a second, by either event,
  but for an insert that failed and the exit of the proxy.

Of the dashboard and the CLI:

* `GuessesBounded`: a code takes fewer wrong guesses than the limit and the checks that were ever under way
  together. Reading and bumping are two sections, so the documented limit of five (`README.md:97`) holds for
  guesses made one after another, and is exceeded by as many more as overlap; `CredentialsAreProven`:
  sessions and new passwords go back to a used code of the same address, though form and requests overlap.
* `PageLogsAreOwn`; `FollowersSeeAll`: what a follower has when it is told of the end. A line that the worker
  appends between the two reads of the last tick is not sent, and the READY note often is not;
  lines appended out of order are left out. `CommandEnds` (SKIPPED is
  left out: `avail deploy` does not know that state and polls on).
* `BadgeSettles`; `DeletesWhatWasConfirmed`; `DeletedStaysGone`; `TailIsExact`; `RowsSettle` (states of
  deployments, rows of tables, settings); `ProjectsAreOwned`. Four of these have an exception that a history
  variable names, because there the code does lose: `late` (an answer under way at a deletion brings the
  project back), `behind` (a tick that is overtaken, or a reload that fails, leaves a gap), `disturbed` (a
  change during a load), and `lateImports` (an import that outlives its account leaves a project without
  owner).

Of the supervisor: `OneProcessPerService`, `NewestBuildRuns`, `CrashStopsAll`, `ShutdownReachesAll`
(what a timer launches after the shutdown began is `late`, and is missed), `EditsGetBuilt`.

**Bounds and why they suffice.** Two deployments of a project are what serialization, promotion and pruning
relate; a third of another project makes the two permits scarce at the moment one is being dropped. The
second deployment of another project is what makes `scheduling` concurrent. One kill reaches every stage,
since it may come at any step. KeepPerProject is 1 (default 20), so that the second deployment makes the
first stale; in `scheduling` nothing is ever pruned. Deadlock is checked in the runs of the platform: while
the worker is up its loop polls, and a killed worker can be started again, so no state is without a step
whatever the bounds on deployments and kills. TLC's coverage report shows every line of every action of
Worker and Api reached by at least one of the three passing runs.

`SlowTick` is a bound on time, of a kind an interleaving model needs a name for. `tick` reads the queue
and then walks the list without waiting for anything. With `SlowTick = TRUE` the walk may be stalled
for as long as a whole build takes, so that a row it read as QUEUED is started a second time after its
build has ended. `scheduling` and `progress` hold even then. `routing` sets it FALSE (a build does not
end while the loop still has it in its list): with TRUE, and only then, `ReadyHasArtifacts` fails, for
a deployment that is rebuilt while an earlier cleanup removes it. `ReadyHasArtifacts` is also checked
without kills of the worker only: one between removing a directory and clearing `output_path` breaks it
(listed as a hazard).

For the edge, two functions are what share a script and compete for a port, and two requests what finds
a boot pending. The second deployment of `edge` is built in the checkout the first has left, and its
three routes overlap: a literal, a parameter and a catch-all. `boots` and `script_race` are run for a
kill that does not reach what the shell started, as on Linux, and `edge` for one that does; the theorems
cover both. Runtimes never stops for lack of steps but at rest (`AtRest`, `Done`), so deadlock is checked.
`edge` follows a behaviour until the proxy exits; `boots` also what its processes do then.

In `dashboard` two of everything is what a late answer and the page that replaced it need. MaxAttempts is
1 (the code has 5), so that the last guess races the first; `OtherClient` is one more client, which with
`AtAnyTime` FALSE sends only wrong codes while the command asks for one, so that three checks overlap; the
request log has 4 rows, `MaxShown` 3 and `Limit` 2, in the order of the code's 500 and 200, so that an
answer can be full, and the page too; a bound on requests under way (`MaxAnswers`, `MaxGets`, `MaxPolls`)
leaves room for one to overtake another. Screens may really be at rest, and the bounds on edits, codes and
presses end a behaviour: this is the one run with `CHECK_DEADLOCK FALSE`. In `supervising` the second edit
lands in every state of the cycle of the first.

**Fairness.**

* `FairSpec` of Platform: weak fairness of the poll loop, of every task, of dropping a permit and of a
  started handler: the runtime polls every ready task and no lock is held for ever. Weak fairness of
  `Boot`: whoever runs the platform starts a killed worker again. A task's stage with a shell is fair
  because each shell has a time limit; this assumes that the processes a shell started close its output
  when it is killed (`executor.rs` waits for that; listed as a hazard). Users' calls, kills, cleanups
  and the exit of orphans are not fair.
* `RuntimesFairSpec`, and `Fairness` of Proxy: promises settle and timers fire (`Boot`, `Ready`: a boot has
  a time limit), and a socket is answered or fails (`Upstream`, `CloseResponse`). The end of processes is
  not fair, nor is anything a client does.
* `SupervisorSpec`: the debounce timer, cargo, staging and the time limit of a kill. The exit of a child
  that was sent a signal is not fair: the time limit is what the code relies on.
* `DashboardSpec`: the loops of the command and of the bell, and for the lists the ticks of the server,
  the reconnection of the browser and the answers. Clicks, edits and breaks are not fair.

**Findings.** The five violated properties quote what the repository says (PROJECT.json, `findings`):
a cancel answered for a queued deployment is overwritten when `tick` has already read the row; deleting
a production deployment before its build ends clears the current-production flag of the project
although nothing is promoted; promote accepts a deployment whose files a cleanup has already removed;
a shell left over from a killed worker shares the checkout with the next build; two functions of one
deployment that boot together write one script file, and one process loads the other's route.

## Proofs

Every invariant that a passing run checks, and the refinement, is proved for all values of the constants
that the named assumptions allow: 32 properties. Eight modules hold the proofs.

**Platform_proofs**: `TypeCorrect`, `Serialization`, `PermitAccount`, `RegistriesAgree`, `Refinement`.
All rest on one inductive invariant, `IInv`: the conjunction of the four properties. None is inductive
alone. That `TickStart` starts no second build of a project needs `running_projects` to list the projects
of all tasks; that `Unlock` may remove the project needs that no other task is of it; that `permits` and
`dropping` stay in range needs the count of tasks. `StepKinds` reduces every step of both processes to
the seven things the registries can see; `ActiveStarts`, `ActiveEnds`, `ActiveKilled` and `ActiveKept`
say what each does to the set of tasks and its cardinality. `Refinement` follows from the same lemmas: a
start finds a permit free, so by `PermitsConserved` fewer than Concurrency tasks run.

**Lifecycle_proofs** extends it to the rows. What one step does to the table is one of a few kinds (every
row kept, one published, one promoted, some deleted, one inserted), and each theorem looks only at the
kinds its columns depend on.

* `OneProduction` and `NoDanglingAlias` need nothing else: promotion clears the project's flags in the
  transaction that sets one, and the foreign keys do the rest.
* `NoStuckBuild` is inductive together with `TypeOK`; each way into a stage and each write of a state is
  a step of its proof.
* `OnlyRequestedCancels` needs `Fresh`: ids that have not been given out have no task, no token, no place
  in the worker's lists and no row, so that an old token cannot meet a new deployment; and that tokens
  are a part of `running`.
* `ArtifactsStay` (`ArtifactInv`) follows a task past its end (`Past`): from then on its row is not in
  progress and nobody publishes it again, which is why a cleanup that listed it meets no new files. It is
  proved for `MaxCrashes = 0` and `~SlowTick`, and fails without either.
* `OutcomesStay` is an action property, for `~SlowTick`: a row that is READY, SKIPPED or in ERROR keeps that
  state until it is cancelled or deleted, and its build is not started again, across kills too. It needs
  that such a row is `Past`, and that a worker that is down has nothing in memory (`Asleep`). CANCELED is
  left out: the run `cancel_race` shows that it may be built over.
* `CheckoutsAreExclusive`: with `MaxCrashes = 0` one shell at most works in a checkout. This is the claim
  that `orphan_shell` refutes for a worker that is killed; the theorem says that nothing else breaks it.

**Runtimes_proofs**: `BootInv` adds that `starting` is an index of the pending boots (`Index`), that what
is listed was booted for that key (`Booted`, `Listing`), and that a request waits for a pending boot
(`Waiters`). The theorems are `RuntimesTypeCorrect`, `SingleBoot`, `ListedIsOpen` (what has exited is listed
under no key, which says nothing of what else the callback unlists), `NoForgottenWaiter`.

**Proxy_proofs** uses those by composition: a step of the proxy is one of Runtimes or leaves its variables
alone. `Artifacts` adds that one build is under way at a time (`OneBuild`), that the checkout is of the
build that uses it once its fetch is over (`TreeIsOwn`), and the same of snapshots that go on to get a
manifest (`SnapIsOwn`, `RowsFollow`). The log (`Log`) needs only its types. The theorems are
`EdgeTypeCorrect`, `NoHalfArtifact`, `OwnOutput`, `HostAccepts`. They assume that the candidate
directories are directories (`BuilderAssumption`), that each function of a site has a key and a route of
segments, and that paths are sequences of names (`ProxyAssumption`). `HostAccepts` rests on `MatchersAgree`,
about the two matchers alone: one takes the segments before the first catch-all at once, the other walks
until something stops it. The proof looks at the first position where the walk stops, which exists because
a set of positions has a least element. `OneFunctionServes` says that of any number of functions that match
a path the order of `functions.ts` leaves exactly one.

**Supervisor_proofs**: `SupInv` says that only the last process of a service runs unsignalled (`LastRuns`),
which phases of a cycle exclude each other (`Cycle`, `BeforeStart`), that the targets of a restart have a
process (`Known`), that a pid marked as intended was sent a signal (`IntendedWasSent`), that what runs
unsignalled is of the last build (`Newest`), and what a shutdown has signalled (`Reached`). The theorems are
`SupervisorTypeCorrect`, `SingleProcess`, `BuiltIsRun`, `CrashesStop`, `ShutdownIsComplete`.

**Ordering** has no theorem of the system but what the others need of finite sets of numbers: they have a
least and a greatest element, and there is exactly one way to list them from the greatest to the least
(`ListsDown`); what is in front of, or behind, a place in such a list is again one. Without induction over
data, existence is proved by the smallest counterexample, with the library's theorem that the strict
subsets of a finite set are well founded.

**Pages_proofs** proves four modules on their own next-state relations.

* `SiInv`, of SignIn: requests under way and the reset token name codes of their own address
  (`RequestsAreFit`, `TokenIsProven`, `ProofsExist`), and a code's attempts together with the checks that
  have read it and not yet bumped it are fewer than the limit and the checks that overlapped
  (`GuessesCounted`), for any finite set of other clients.
* `OwnInv`, of Ownership: what was let in is proper, and a project has at most one offer (`OneOffer`):
  without that, a second acceptance would give away what its sender no longer owns.
* `PrInv`, of Projects: settings and calls name the project in the route, and answers mention no deleted
  project unless they are late. `PagesTyped` adds what its types need: the list is of projects
  (`ListTyped`), a layout is only there for the project of the route, answers stay within their bound.
* `TailInv`, of Tail: rows are listed from the newest, and while nothing was overtaken (`InStep`) at most one
  answer is under way; it brings what the page lacks (`Brings`: the newest rows for a reload, for a tick all
  rows there were after the highest shown), and the page either is exact or waits for a reload. A tick
  puts its rows in front of the page, which is a list from the newest again because all of them are
  newer; what is cut at `MaxShown` is a prefix of that list.

**Dashboard_proofs** proves Follow, Bell and Lists, and lifts all seven to `DashboardSpec`, since a step on
another screen stutters (`PartsInv`, `PartsTyped`). `FlInv`, of Follow: the only event source that is open is
that of the page (`OneSource`); a source that has come to a line has brought every line that is due up to
there, or has it on the wire, and what becomes due while a tick has read lines and not sent them comes after
them (`StreamIsWhole`); what was owed at the last read is shown, on the wire or in the hands of the tick, and
"done" is the last event (`DoneIsLast`, `PageIsDone`); the command has printed what is due up to its last
line, and once it has read a terminal state nothing more becomes due (`CommandIsWhole`).
`ActTyped`, `BellInv` and `ListsInv` are about types only: that the buttons' state and what events carry is
typed, that what is on the way to the bell is, that lists and answers are rows. The theorems are
`CodesResistGuessing`, `OnlyProvenCredentials`, `NoOrphanedProject`, `DeletionIsConfirmed`, `DeletionLasts`,
`LogsAreOwn`, `NothingIsMissed`, `LogPageIsExact`, `DashboardIsTyped`.

**What the proofs found in the models.** `TailIsExact` was first stated for a page no larger than an answer;
with the code's 200 and 500 it was false, as a reload leaves a page of 200 rows although there are more.
It now says so, `behind` also counts a reload that fails after a change of filter, and the run has a page
larger than an answer. `MaxVersion` must be at least 1: the switches of the Git settings write that value.
Routes had no type, and the matchers agree on sequences only.

Assumptions: each module has one, named after it, next to its constants: at least one permit
(`concurrency.max(1)` in `main`), natural bounds, absent values that are not values, every deployment id
belongs to a project, finitely many notifications, at least one version of a row. TLC evaluates them in the
runs.

Only model-checked: liveness under fairness (`EveryDeploymentSettles`, `RequestsSettle`,
`EveryRequestLogged`, `EditsGetBuilt`, `CommandEnds`, `BadgeSettles`, `RowsSettle`), which is out of the
prover's reach, and the five violated properties, of which one is proved for a worker that is not killed.

## Not modelled

* In the platform: events, notifications, commit statuses and pull-request comments (the worker drops
  their errors and nothing depends on them); statements that fail because the database is busy for more
  than five seconds; two workers at once; the content of a build. The copy of the executor in `builder/`
  is one stage of Worker; a child that holds the output open after the time limit is excluded by the
  fairness assumption and listed as a hazard, as is the panic on a log line cut inside a character.
* At the edge: headers, ranges, compression, TLS and the body of a response; custom domains.
* In the API: mail and OAuth, signatures of webhooks and the matching of repositories, encryption of
  environment variables, ids and configuration: sequential code over one value, or calls to others.
* The previews of the home page (`Projects.tsx:77-95`): it keeps the last five deployments and takes each
  event for the newest of its project, so a replay of the stream, which comes newest first, leaves it wrong.
  Likewise which deployment is current, in the lists: no event says that one was promoted.
* In the dashboard and the CLI: the overview, the theme, the documentation page (`Docs.tsx` is text) and
  the commands that are one request.

PROJECT.json `components` has the status of every part.

## Plan

1. The executor of the worker as a module of its own, with the draining of its output, and the Worker
   over it, so that `EveryDeploymentSettles` rests on the end of processes instead of the fairness of a
   stage.
2. Statements that fail for lock contention, in `Database`, and what `assign_aliases` leaves then.
3. Webhooks: the deliveries of a push against deletions and pull-request previews.
