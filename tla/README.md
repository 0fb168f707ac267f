# A verification project for acyl

acyl creates a Kubernetes environment for a pull request, keeps it up to date
and destroys it when the pull request is closed. These TLA+ modules model the
parts of it where goroutines, processes, the database, GitHub and Kubernetes
interleave, check them with TLC on small instances, and prove the most important
safety properties with TLAPS for every instance. Paths below are relative to
`src/`.

## 1. The system

An event of GitHub reaches `pkg/api` by one of two routes, and starts
`env.Manager.Create`, `Update` or `Delete` in the background. Each takes the
distributed lock of its pull request (`pkg/locker`, on Postgres), works on the
records in Postgres (`pkg/persistence`), reads configuration and charts from
GitHub (`pkg/nitro/meta`), and lets the chart installer (`pkg/nitro/metahelm`,
over the vendored metahelm library) build images (`pkg/nitro/images`) and install
the graph of charts into a namespace. All of them write the status of the event,
which the user interface shows. A reaper (`pkg/reap`) and a cleanup job remove
what is left. Three versions of an HTTP API and the interface read the same
tables, and may ask for a destruction or a rebuild.

| Component | State | Operations | What is hard | What makes it correct |
|---|---|---|---|---|
| Lock, `pkg/locker` | session, advisory lock, listener, `handleEvents`, keepalive | `Lock`, `Release`; `New`, `Notify`, `Unlock` | lost sessions and notifications, timers, preemption of waiters | one worker at a time, who can always be preempted; the lock is always given up |
| Environment manager, `pkg/nitro/env` | `qa_environments`, goroutines per operation | `Create`, `Update`, `Delete`, `lockingOperation`, `enforceGlobalLimit`, `deleteNamespace` | operations that run on after they lost the lock; locks inside locks; asynchronous teardown; partial failure | one record, one live operation; records, rows, releases and namespaces agree; the limit holds in the end |
| Chart installer, `pkg/nitro/metahelm` | rows, releases, namespaces, ClusterRoleBindings | `BuildAndInstallCharts`, `BuildAndUpgradeCharts`, `DeleteNamespace`, `Cleanup` | many steps, each of which may fail; three deadlines; goroutines per chart; a cluster-wide object that outlives its namespace | dependencies and images first; success is complete; nothing installed after the end; no binding forgotten or missing |
| Image builder, `pkg/nitro/images` | started and completed maps of a batch | `StartBuilds`, `Started`, `Completed`, `Stop` | goroutines that start late, hang or are cancelled | a chart waits for its image |
| Graph walk, vendored `metahelm/pkg` | levels of the graph, a goroutine per chart | `Build`, `Walk`, `Install`, `Upgrade` | cancellation without waiting | topological order |
| Metadata, `pkg/nitro/meta`, `pkg/match` | directory with fetched charts | `Get`, `FetchCharts`, `GetRefForRepo` | dependencies of dependencies, renamed; fetches that share variables | what is accepted can be installed, in the declared order, from one commit per repository |
| Reaper and cleanup, `pkg/reap`, `persistence/cleanup.go` | none of its own | `Reap`, `PruneDestroyedEnvRecords`, `Cleanup` | act on lists read earlier, under a lock that others do not take | remove nothing in use, leave nothing behind |
| Event logger, `pkg/eventlogger` | the status document of an event | `SetNewStatus` ... `SetCompletedStatus` | six kinds of writers, no lock, strict JSON updates | never erased, never back, ends with the outcome |
| Data layers, `pkg/persistence` | five tables; the maps of the layer in memory and its files | all methods of `DataLayer` | two implementations of one interface, and tests that use the other one; a save that is interrupted | both answer the same; what is saved has its record |
| API and interface, `pkg/api` | event logs, answers, wait groups | webhooks, searches, lists, details, rebuild, destroy | reads one after the other while operations go on; values read before the lock and used under it; the end of the process | answers tell what happened and do not contradict each other; no operation is cut off |
| Sessions of the interface | `ui_sessions`, the cookie | log in, call back, call, expire | several tabs share one cookie | tabs do not shut each other out |
| File system in memory, `pkg/memfs` | two maps: files by path and by directory | `MkdirAll`, `OpenFile`, `Symlink`, `Remove` | one lock per call of the storage, not per operation | the maps agree; who works in a directory of their own is not disturbed |
| GitHub app, `pkg/ghapp`, `pkg/ghevent` | event logs | two handlers of the same event | two routes with separate filters | both start the same operation |
| Fake lock, `pkg/locker` | contenders in memory | as the lock | a mutex held while waiting | as the lock |

`PROJECT.json` has the complete list of components, and the hazards: the lines
where something can go wrong that a test would hardly reach.

## 2. The modules

    LockService        what a preemptible lock promises
      ^ implemented by PreemptiveLocker (Postgres, goroutines, time, faults)
      ^ used by EnvManager              (operations on one pull request)
                  ChartInstaller          its installation in detail
                  Metadata, ChartFetch    its configuration and charts
                  ChartFiles, MemFS       the files of the charts
                  EventStatus             the status it writes
      ^ used by Fleet                   (several pull requests, reaper, cleanup)

    Server             DataLayers (PGLayer, FakeDataLayer), Login, Intake,
                       Reads, Cluster, Shutdown

`LockService` joins the two sides: `PreemptiveLocker` is shown to implement it,
and `EnvManager` is built on it and shown to keep its side. `EnvManager` has an
installation and the reading of the configuration as steps that succeed or fail;
`ChartInstaller`, `ChartFetch` and `Metadata` are those steps in detail. `Fleet`
uses the lock as `LockService` promises it. Neither has a holder that its lock object
can no longer reach, which the locker does have (`Preemptible`, section 4): such a
caller is in `LockService` one that has left. `Server` puts together the parts that
meet the operations only in the database, GitHub or Kubernetes, each of which is
a group of behaviours of its own: they do not wait for each other.

### LockService
Per client a phase: out, trying, in, leaving, gone. At most one is `in`. A client
that was told to leave no longer counts: after a lost session or a preemption
timeout the lock really is free before its former holder has stopped, and a new
client may enter while the old one is leaving. Nor does a client that nobody can
tell to leave any more, because its `handleEvents` has given up on it or has ended
at a reconnection: for the service it is gone, although its operation may go on.
The service is fair to those who try (they get an answer) and to those who leave.

### PreemptiveLocker (`locker.go`, `postgres_lock.go`)
Every element of `Lockers` is one single-use lock object for one key.

| Variables | In the code |
|---|---|
| `caller`, `timer` | where the calling goroutine is in `PreemptiveLocker.Lock`, the operation, `Release`; lockTimeout, then lockDelay |
| `handler`, `hTimer` | `handleEvents` and `handleNotification`; maxLockDuration, preemptionTimeout, the 5 seconds of `Unlock` |
| `keep`, `pingIn` | `postgresSessionController.run` |
| `conn`, `owner`, `holds`, `ahead` | the `sql.Conn`, and in Postgres who holds the advisory lock, how often, and who queues |
| `listener`, `inbox` | the `pq.Listener` and its channel |

`Direct` are lock objects used as the reaper uses them: `PreemptableLock` alone,
no lockDelay, the channel ignored, the context never cancelled. `failureThreshold`
is never stored by its constructor, so the first failed ping is reported
(`KeepAliveFails`). A statement that waits for the advisory lock keeps the
`sql.Conn` busy (`ConnBusy`), so an `Unlock` from `handleEvents` queues behind it:
this is what makes the preemption of a waiter delicate. `Reachable` says that
`handleEvents` of a lock object can still tell its caller to yield. The pool may keep open a
session whose unlock failed, with the lock (`Pool`).

Time is discrete and a unit is 5 seconds. `Tick` waits for every step that takes
no time, which is the assumption that scheduling and non-blocking statements are
short against a unit. Faults (a dead process, a lost session, a broken listener
connection, a failed unlock, a database error, a junk notification) are bounded
by `MaxFaults`, and only by that.

### EnvManager (`env.go`, the state-changing part of `metahelm.go`)
Every element of `Ops` is one call of Create, Update or Delete for one pull
request. `phase` is what its `lockingOperation` does with the lock; `pc` is the
goroutine that runs the operation, which goes on when the first has left;
`teardown` is `deleteNamespace`. The rest is the database (`status`, `latest`,
`row`, `releases`) and Kubernetes (`live`). A step is one statement or one
Kubernetes call, and fails when its context is cancelled, if the code passes
that context at all: the status writes of the deferred functions and the
Kubernetes calls do not depend on it. Records and namespaces are named by the
operation that created them, since each creates at most one.

Abstractions: a statement that is in flight when its context is cancelled either
has taken effect or has not (the 10 seconds of lockDelay cover the rest); a
namespace is gone when its deletion is accepted; the global limit and the pruning
of records are in `Fleet`.

### ChartInstaller (`metahelm.go`, `imagebuild.go`, `furan.go`, vendored `metahelm.go` and `dag.go`)
One run of `installOrUpgradeCharts`. `deps` and `level` are the graph (every
acyclic one, level being what `calcLevels` computes), `build` and `images` the
batch of builds, `stage` and `at` the walk, `chart` the goroutine of each chart,
`released` what Helm was asked for, and three flags the contexts and deadlines.
A cancelled build is recorded as a success, as `furan.go` does. `Walk` returns at
a cancelled context without waiting for the goroutines it started, and they go on
here too. The synthetic root of a graph with several roots is left out, as it
only adds an empty level.

`LateStart = FALSE` says that the goroutines of `StartBuilds` have begun when the
walk starts: the set up of the namespace and of Tiller, at least one call over
the network, lies between. `LateStart = TRUE` drops that assumption.

### EventStatus (`eventlogger/status.go`, the SQL of `eventlogs.go`)
The status document of one event (`doc`) and all that writes it: the handler
(`webhook`), `lockingOperation` (`caller`) and its goroutine that waits for a
preemption (`watcher`), the operation (`op`), and the goroutines of builds
(`image`) and charts (`chart`), which outlive it. No writer looks at its context;
each statement is atomic. `jsonb_set` and `||` are strict, so a path through a
node the tree does not have makes the column NULL. Times are left out, except
that `completed` comes with a final status. `limited` remembers that
`enforceGlobalLimit` ran a nested `Delete`, which writes the same document.

### Fleet (`env.go` 206-370, 550-673, `reaper.go`, `cleanup.go`, `metahelm.go` 1012-1084)
Several pull requests, each with the create that its webhooks ask for (`pc`, `newNs`),
and the reaper (`phase`). Every agent runs at most one `Delete`, for whose lock it
waits (`target`), from a list it read before (`todo`). `younger` and `old` are the
creation timestamps; one age stands for the hour, the month and the weeks of the code.

What goes on without a lock is most of it:
* `teardowns`: `go m.deleteNamespace` (env.go:641). `Delete` writes the status and is
  over; later `TeardownStep` deletes the namespace it was given, in three tries, and the
  row that has the name of the environment by then, which may be that of a new create.
* `late`: `lockingOperation` returns, and releases the lock, as soon as its context is
  cancelled (`Abandon`, by preemption or timeout), and the goroutine of the operation
  goes on. What it still does (`LeftOf`) depends on where it was: write Failure and
  delete its namespace, finish an installation and write Success, delete the namespace
  of an old row; of a `Delete`, write Destroyed. `LateStep` is one of these.
* the lists of the reaper and `orphan`, the namespace that the cleanup job has found
  without a row and is about to delete.

`disturbed` is a history variable: the pull requests to whose row, or status Success, a
goroutine without the lock has put its hand. A new row takes a pull request out again.

Abstractions: a `Delete` with the lock is one step, so only a create holds a lock from
step to step; namespace and row of a teardown are one step that may fail in between;
the database statements of an abandoned create that its cancelled context refuses are
left out, those that do not look at it are in; goroutines at the same step of the same
work count as one; a record that replaces a pruned one has the same name, so that late
work finds more to change than under the fresh names of the program. Updates, and the
single statements of creates and teardowns, are in `EnvManager`.

### ChartFetch and Metadata (`meta.go`, `match.go`)
`ChartFetch` is `FetchCharts`: one goroutine per dependency, and the variables
`loc` and `err` of the enclosing function, which all of them assign. Each
assignment and each read is a step; `couts` is what is returned, a location is
the index of the chart it belongs to. `Metadata` adds `Get`: `world` says what
GitHub answers (the acyl.yml of every repository, its branches, overrides), and
`calls` is the stack of `processDep`, below which is the loop of `Get`. A call has
its dependency (`dep`), what it has made of the entries of its acyl.yml (`deps`), and
the names that `renameRequires` has still to replace (`renames`), which it does in any
order, as a range over a map goes. `repomap`, `transitiveDeps` and the two lists are
those of the code. What `Get` does with one entry, with one name or at the end of a list
is a step (`ProcessRepo`, `ProcessChart`, `Rename`, `Return`, `EndDirect`, `EndEnv`);
`config` is what it returns, and `GenerateCharts` the part of the installation that
may refuse that.

### MemFS and ChartFiles (`pkg/memfs`, `tempdir.go`, `meta.go` 435-499)
`MemFS` is the file system that the tests use in place of that of the OS: `files`
and `children` are the maps of `storage`, `node` the mode and content of each
`*file`. `ChartFiles` has two users of it: an operation (`operation`) makes its temporary
directory (`td`), its goroutines (`at`) write the entries of a chart one after the
other (`todo`, `entry`, `target`, `file`), the installation reads them, and
`RemoveAll` (`victim`) removes the directory. Each step is what happens under one
lock of `storage`. `Contents` are the charts. That no two operations have the same
directory is what `nextSuffix` is for, and assumed, as is `ChartsWellFormed` of the
charts (section 5). `Configuration` puts `Metadata`, `ChartFetch` and `ChartFiles`
together, as behaviours of their own.

### PGLayer, FakeDataLayer, DataLayers (`pkg/persistence`)
`PGLayer` has the tables as functions from the primary key to the row, each write
as an action and each query as an operator; `FakeDataLayer` the same of
`fake.go`, with `Save` and `Load`, where a save truncates a file before it writes
it. `DataLayers` calls both with the same arguments. Its guards are what the
callers ensure, and are named there. `KnownDifferences` says in what the two queries
differ that do not answer the same. `group` selects which calls a behaviour
makes: those of records, of columns, of rows and releases, of logs, of a status,
of its tree, of sessions, and of a local command with its files.

### Login (`api_ui.go`, `middleware.go`)
A browser with several tabs and one cookie. `pc` is the request of a tab,
`sid` the session id it was sent with, `own` the one whose state GitHub sends
back, `doomed` the session that a call of its page is about to delete. The
statements of two handlers interleave; the session rows are those of `PGLayer`.

### Intake (`api_v0.go`, `ghevent.go`, `ghapp`, `api_ui.go`)
The same event sent by both routes: `at` is the next check or call of GitHub of
each, `log` the event log it made, `started` its operation, `answer` its status
code; of the events that are not of a pull request the app's dispatcher answers those
that have a handler (check_run, check_suite) and ping with 200, the others with 202. The second part is the rebuild that a user asks for: `asked` is what its
handler has read before the lock, `lock` what the operation that holds the lock
works with, `env` the environment that others change in between.

### Cluster (`metahelm.go`)
The namespace, its Tiller and the ClusterRoleBinding of one environment, whose
repository may or may not be on the list of privileged ones of this process.
`step` is the operation, `tear` the goroutines of `deleteNamespace` with the row
they were started with, `job` the binding that the cleanup job is about to
delete. The name of the binding is that of the environment, so successive
namespaces contend for it. `disturbed`, `leaked` and `interrupted` record what the
property has to except.

### Reads (`api_v0.go`, `api_v1.go`, `api_v2.go`, `api_ui.go`)
`SearchEnvs` answers one query in all versions of the API. The other requests are
sequences of reads (`page`): permissions on GitHub (`perms`), rows, logs, and pods
in a namespace (`living`), each at the time it is made, while operations and
permissions change. `listed` and `events` are the links that a user has got.

### Shutdown (`cmd/server.go`, the wait groups of `pkg/api`)
`req` is a request of one of the three routes that start operations, `op` its
operation, `waited` how many of the wait groups `main` has waited for. The
groups are waited for in the order of `WaitGroups`; a destruction is in none.

### MC modules and configurations
`MCPreemptiveLocker`, `MCEnvManager`, `MCChartInstaller`, `MCEventStatus`,
`MCFleet`, `MCMetadata` and `MCServer` give the sets of constants; `MixedCharts.cfg`
needs none. Deadlock is not checked: lock objects are single-use, calls,
requests, events and creates are finitely many, and a process ends, so every
instance stops. That whoever waits is answered is stated as liveness instead.

## 3. The runs

| Run | Instance | Shows |
|---|---|---|
| `locker_safety` | 3 lockers, one used as the reaper does, the default durations, one fault after LISTEN | `MutualExclusion`, `LockIsAttended` |
| `locker_preempted` | 3 lockers, the default durations, no fault | `Preemptible` fails (section 4) |
| `locker_service` | 2 lockers, the default durations, one fault of any kind | `ImplementsLockService` (the refinement, liveness included), `BlockedHolderLosesLock`, `SessionReturned`, `LockReturns` |
| `env_overlap` | 2 overlapping calls of any kind, every failure, changing configuration | `OneLiveContext`, `OneRecord`, `NoRowConflict`, `KeepsLockContract` |
| `env_serial` | 4 calls in sequence, failing configuration, charts or installation | `SettledSuccess`, `SettledOwned` |
| `teardown_race` | 3 calls in sequence, changing configuration | `SettledSuccess` fails (section 4) |
| `chart_install` | 3 charts, 2 with an image, all 25 graphs | `DependenciesFirst`, `ImageFirst`, `SuccessIsComplete`, `NoLateRelease`, `AllEnd` |
| `event_status` | 2 charts, 1 with an image, 1 chart of another environment, every operation | `OutcomeShown`, `DoneIsComplete`, `NeverErased`, `ProgressKept`, `EventEnds` |
| `fleet` | 2 pull requests, limit 1, 2 creates, 1 crash or failing deletion, with fairness | `UpHasNamespace`, `ChangedUnderLock`, `LimitRestored`, `CreatesReturn`, `LeftoversGo` |
| `metadata` | every world of 3 repositories; `FetchCharts` of up to 2 dependencies; the files of 2 operations with 2 charts (a file; a directory with a link, and a vars file), one failing fetch | `Installable`, `TransitivesRequired`, `RefsMatch`, `LocationsExist`, `FilesKept`, `FetchEnds` |
| `mixed_charts` | `FetchCharts` of up to 2 dependencies | `OwnChart` fails (section 4) |
| `server` | the groups of `Server`, one after the other | `SameAnswers`, `NotAllRejected`, `OperationsFinish`, `BindingsAccountedFor`, `RequestsKept`, `ReadsAgree` |

What the properties of `server` say, each of its group: the layer in memory
answers every query as Postgres does, but for `GetMostRecent` and a search without
conditions, whose difference is stated, and what a killed command has saved has its
record; of two tabs that log in, not both are rejected for what the other did; the
process does not end under the operation of a webhook that `main` has waited for;
no binding of a privileged environment is forgotten, missing or in the way of the
next; both routes of GitHub start what the event asks for and answer accordingly,
and a full rebuild gives another namespace; the versions of the API agree on a
search, and a link that a user has got leads to what it promised.

### Bounds
* *Locker.* Two lock objects make a holder and a waiter, a third preempts the
  waiter while it waits. A unit is 5 seconds: the default durations are 4, 2, 2
  and at most 1 units, with maxLockDuration cut from 30.5 minutes to 35 seconds,
  longer than every other timer. All three configurations of the locker have these.
  `locker_service` has two lock objects: a third would only preempt the waiter, and
  that is `locker_preempted`. `locker_safety` leaves out the failures before LISTEN,
  after which a lock object holds nothing; they are in `locker_service`. One fault
  reaches every hazard of the list but one: a listener that reconnects and then a
  session that dies leave a holder that nobody can reach working next to another.
* *Operations.* Preemption involves two calls, and the theorems hold for any
  number; four in sequence allow create, update, failure and delete of one record.
* *Charts.* Three give chains, forks, joins and several roots. For the status two
  are enough, with and without an image: its statements are per node.
* *Fleet.* Two pull requests and a limit of one make each create destroy the
  environment of the other, while the reaper lists both. Two creates may both be of one
  pull request, so that a record is reused while a teardown or an abandoned create of
  it goes on. One fault is a crash or a failed deletion at any point. The theorems hold
  for any number. `MCFleet` lets the first webhook be that of `a`, as the two are alike.
* *Metadata.* Three repositories give dependencies of dependencies in all
  directions, cycles, and two ways to the same one; the theorems hold for any number
  and depth. Two goroutines are what it takes to mix shared variables.
* *Chart files.* Two operations that create and remove below the same `tmp`, one
  goroutine of each at a time, and each kind of entry once.
* *Server.* Two names, two events and three sessions in the data layers, over
  searches by at most three parameters; two tabs, one of which polls; two
  webhooks, a destruction and a rebuild; two namespaces, two teardowns, one
  failing call and one restart with another list; every event with at most two
  things wrong and one outage of GitHub; two operations besides a rebuild; one
  change and one failing call during a page. Every race in question is one of two.

Every property of a passing run has a mutant in `PROJECT.json`: a definition
marked "Broken variant", which changes one step as a plausible bug would, and
under which TLC finds the property violated.

### Fairness
* `PreemptiveLocker`: goroutines that can run do run, statements that can
  complete do, and time passes. Nothing obliges a caller to start, an operation
  to end or a fault to happen. That a caller which was told to yield releases is
  what `lockingOperation` guarantees (`KeepsLockContract`).
* `EnvManager`: only the lock's answers, the notification of a holder somebody
  waits for, and the return of `lockingOperation`. The steps of an operation are
  not fair, since the code says it "can block indefinitely".
* `ChartInstaller`: the walk, the goroutines of the charts, and time. Helm calls
  and health polls have timeouts of their own. A build may hang for ever, so
  there is no fairness for its end.
* `EventStatus`: the goroutines run, and every operation has a timeout
  (`enforceTimeout`). Nobody need preempt the event, and a build may hang.
* `Fleet`: weak fairness only, of the operations, their goroutines, time and the
  cleanup job together (`Work`), and of the reaper, which runs again and again. That
  whoever waits for a lock gets it or gives up follows from the preemption of holders.
* `ChartFetch`: goroutines run and their two minutes pass; a fetch may hang.

`LockReturns`, `SessionReturned`, `BlockedHolderLosesLock`, `AllEnd`, `EventEnds`,
`LimitRestored`, `CreatesReturn`, `LeftoversGo`, `FetchEnds` and the fair parts of
the two contracts rest on these. `Server` has safety properties only.

## 4. Findings

Three runs show that the code does not do what its comments say; `PROJECT.json`
quotes them.

* `locker_preempted`: with the default durations lockTimeout (20 s) is longer than
  preemptionTimeout (10 s). `handleEvents` gives up on a waiter that does not listen to
  its channel yet, its `Unlock` waits for the connection that is busy with
  `pg_advisory_lock`, and the lock may still be granted: `Lock` returns success instead
  of the error that locker.go:256-257 promises, and the caller cannot be preempted any
  more. In the same instance the `Unlock` that has waited then gives the advisory lock
  away, and a third lock object is let in while the second works: two callers at once,
  without any fault. So `MutualExclusion` and `LockService` count those who can be
  told to yield. Two lock objects do not get there.
* `teardown_race`: an update that rebuilds starts `deleteNamespace` of the old
  namespace in the background, which deletes the row and the releases by the NAME
  of the environment (env.go:784, 660; metahelm.go:1042). When it is slow, they
  are those of the environment just built, which stays in status Success without.
* `mixed_charts`: the goroutines of `FetchCharts` assign the same `loc`
  (meta.go:517), so a dependency may be installed from the chart of another.

What follows came up while modelling. The models contain the behaviour, and the
properties are stated so that they do not deny it; there is no run about it.

Lock and operations:
* A reconnection of the listener ends `handleEvents`: then neither maxLockDuration
  nor preemptionTimeout is enforced (`Deaf`, the exception in
  `BlockedHolderLosesLock`, `SessionReturned`, `LockIsAttended` and `Preemptible`).
* Deleting an environment in status Failure leaves its namespace, and pruning
  deletes its row; the cleanup job then finds the namespace orphaned.
* A preempted operation writes Failure over Destroyed, or Success over whatever has
  been done since.
* `deleteNamespace` of a delete may take the row of a create that reuses the record, as
  that of an update does in `teardown_race`. The environment stays in status Success
  without a row: it can be neither updated nor deleted ("missing k8s environment"), still
  counts against the global limit, and the cleanup job takes its namespace. This is what
  `UpHasNamespace` excepts as `disturbed`, and why `LimitRestored` counts environments
  that have a row.
* A rebuild does not set status Updating. A server that dies during one leaves
  Success without a namespace, or without the binding.
* The goroutines of `StartBuilds` must have begun before the walk: a build that
  has not been scheduled yet counts as none (`LateStart`).
* `BuildAndUpgradeCharts` uses `k8senv` before it checks it for nil.

Many environments:
* The reaper destroys environments from lists it read before, which includes one
  that has come up since; it cannot destroy one in status Spawned without a row.
* The nested `Delete` of the global limit writes the status document of the
  creating event: it may make it NULL, and with `setloggername` it moves the event
  to the destroyed environment (the exception `limited` in `EventStatus`).

Configuration:
* The parent of a dependency two levels down has the name it had before it was
  prefixed. A declared name may look like a prefixed one (`lib-x`), and `GetName` may
  give two repositories one prefix (it cuts names at 64 characters); then what
  `renameRequires` makes of a requirement may depend on the order of a map, and names
  may meet, which `ValidateNames` refuses. `WellFormed` in `Metadata` leaves this out.
* A dependency may have the name of the application, whose chart location it then
  replaces (meta.go:538); and requirements may go in a circle, also because an
  acyl.yml of a dependency may require what only the triggering one declares,
  although "requires references the 'name' field of other direct dependencies only"
  (doc/acyl-v2.yml:112). `Get` accepts all of it, and the graph is refused after
  the namespace has been made (`WellDeclared` in `Metadata`).
* `ChartError` of the vendored metahelm is wrapped by pkg/errors 0.8.0, which has no
  `Unwrap`, so `errors.As` at env.go:250 does not find it when it is wrapped.
* doc/acyl-v2.yml:4 says that only pull requests against `target_branches` get an
  environment. The first route checks it (github_event.go:138-154), the app's
  route does not.
* The directory of a fetch that fails is not removed (env.go:452).
* `tempDir` is "copypasta from ioutil.TempDir" (tempdir.go:32) but for `MkdirAll`,
  which does not fail when the directory is there: the loop that would try another
  name never does. Two operations in one directory would overwrite each other's
  charts and remove them; suffixes differ within a process.
* `memfs` is "modified to be threadsafe" (memfs/README.md:3). Two users of one
  directory can still leave a file without a directory (storage.go:188-206) or
  use a nil `*file` (memory.go:59); `Rename`, which nobody calls, ranges over the
  map without the lock, and moves files whose path merely begins like the one
  renamed; `Truncate` and `Len` read contents without the lock.

API and interface:
* The check of a session at api_ui.go:508 and middleware.go:173 deletes what it read
  as invalid before, by which time the callback may have authenticated it. The
  callback does not check expiry.
* `envDestroyHandler` starts its goroutine in no wait group; a rebuild counts
  itself after the handlers, so `main` may have passed; a request on a connection
  that was open is handled after `WaitForHandlers`; `Done` is called before the
  answer is flushed.
* The search handlers do not return after an error: the answer 500 is followed by
  a list. A query with an unknown parameter only, or with `pr` and an empty
  `repo`, answers 500.
* The guard for "destroyed" compares exactly, the parser of a status ignores case.
* A handler of a rebuild reads the repository data before permissions and lock, so
  an older revision may be installed over a newer one. Webhooks can overtake each
  other before the lock.
* An event that is ignored, or whose acyl.yml could not be read, keeps its status
  pending or unknown; that of a rebuild is NULL until `Update` runs.
* Details of an environment whose events have gone answer 500; the comment at
  api_v2.go:713 says that there cannot be one. A history below one hour is cut to
  zero hours, and one of at most zero is no filter; an empty list of visible
  repositories is no filter either.
* The default list may have environments whose page is then denied.
* What the app's handler sets with `SetResponder` for an error never takes effect: its
  error callback answers 500. The first route takes any event with a supported action as one of a pull request.
* A pending pod without a container status makes `GetPodList` panic
  (metahelm.go:1147).
* `authenticate` shares one `rand.Rand` between requests without a lock
  (api_ui.go:408).

The two data layers differ where `DataLayers` has a guard or a view: the layer in
memory counts environments where Postgres counts days in `GetMostRecent`
(`SameAnswers` says when they agree); Postgres refuses a search without conditions,
which in memory finds everything; the layer in memory returns live
pointers, uses the id of a deleted session again, adds no "spawned" and "Marked
as" events, has a zero log where Postgres has none, has a status from the start,
answers an error where an UPDATE of Postgres affects nothing, sorts the logs of a
pull request differently, and cuts an interval exactly where Postgres takes whole
hours. `Load` merges into what is there, and sessions are not saved.

The fake lock (fake_lock.go:41) waits with the mutex of its store held, so while
somebody waits nobody can unlock, notify or ask for another lock; a waiter can
only time out, unless the channel is drained by an unlock that came before. Its
timer of maxLockDuration is not stopped by an unlock, and then releases, also
what somebody else holds by that time. `LockService` is not implemented; only
tests and local commands use it.

## 5. The proofs

`tlapm` checks every proof; none rests on anything but the assumptions named here.

**PreemptiveLocker_proofs.** `TypeCorrect` needs no assumption beyond
`LockerAssumption`. `Exclusion` and `ImplementsSafely` assume `SafeDurations`: pings come
more often than lockDelay (3 seconds against 10 by default), so that a dead session is
found in time. Nothing is asked of the other durations, nor of the faults.
Mutual exclusion is not inductive: when a session dies, the advisory lock is free
and its holder still works. `LockerInv` says what protects it then: the dead
session's ping is due before the lock delay of whoever got the lock is over
(or the notification already waits in the holder's channel, which is read before
time passes); and of two lock objects that were granted the lock and can be told to
yield, one is the older: its session is dead, and the other is still in its lock delay,
with more of it left than the older one's keepalive needs to notice. Each part is a
conjunct with a lemma for each group of steps. `AlwaysAttended` (`LockIsAttended`) needs
no duration: it assumes that no call fails before LISTEN (`"db"`), and rests on
`AttendedInv`: handleEvents has ended only if the session is closed, the caller was told
to release, or the handler is deaf, and has not started only if Lock is still in
progress or the session is lost. `ImplementsSafely` maps a caller and its handler to the
phase of a client and every step to a step of `LockService` or to a stutter.

**EnvManager_proofs.** For any number of calls, with every failure. `EnvInv`
relates the two goroutines of a call: whoever runs under a live context is `in`
by `LockService`, so there is one (`OneLive`); any record that exists is
`latest`, and a live operation about to insert one still finds none
(`SingleRecord`); and between `DeleteRow` and
`InsertRow` of a live operation nobody else inserts (`RowIsFree`). `SafeContract`
shows that every step is one of `LockService` or leaves the phases alone.
`SuccessBelongs` (`SettledSuccess`) and `NothingOrphaned` (`SettledOwned`) assume
`OneByOne`: calls do not overlap, the configuration does not change, and neither the
cluster, nor a timeout, nor the process fails. Each of these can leave a namespace or
releases behind (section 4); what remains, failing metadata, charts, ingest or
installation, cannot. Neither property says anything while a call runs, so `SerialInv`
does: at most one call is not idle; `Stage` describes the record, the row, the
namespace and the releases at each point of its operation, and of the teardown that a
failure starts; and between calls `Rest` holds, from which both properties follow.

**ChartInstaller_proofs.** For any finite set of charts and any acyclic graph.
`ChartInv` has four parts: types; `WalkInv`, which levels are finished, running
and not begun; `OrderInv`, that what was released had all that it requires done;
and `ContextInv`, that after the result the context of the walk is cancelled.
`ImageInv` adds that a chart beyond the callback has its image, and needs
`PromptBuilds` (`LateStart = FALSE`).

**EventStatus_proofs.** For any charts, any subset of them with an image, and any
order of the writers. That a statement never meets a missing node is not
inductive: it holds because of when the goroutines start. `Order` says that none of
a node is active before the walk; `TreeInTime` that the tree is empty before
`SetInitialStatus` and complete from then on; `TreeTrue` that what the tree shows
as over is over, so nobody takes it back. `DocumentKept` and `TreeMonotone` are
proved of each writer from these.

What that document says in the end is the second part, for the same parameters.
`OutcomeShown` and `DoneIsComplete` speak of a state in which everybody
has finished; `OutcomeInv` says of every state before it why they will hold.
`SeenTrue` relates what the caller was told to the result of the operation;
`StatusTrue` says that the status becomes done only with an operation that ends without
an error, and is failed again once the caller has recorded one; `ChartsTrue` that a
chart beyond its callback has its image and that such an operation has waited for all
charts; `TreeTold` that the tree shows what is over. The last two and `Inv` give the
nodes of a document that is done.

**Fleet_proofs.** For any number of pull requests, any limit and bounds, any crashes
and failing deletions. That an environment that is up has its namespace depends on who
may delete one, and most of those who may have no lock: so `Inv` says what they cannot
have. `OwnInv`: the rows, namespaces, teardowns and late work of a pull request are its
own. `NewInv`: the namespace that a create has made is there, and no teardown, no late
work and not the cleanup job is about to delete it. `RowInv`: at the end of a create the
row is that of its new namespace; and unless `disturbed`, the row of an environment in
status Success is of a namespace that is there, is not the orphan, and that no late work
is about to delete. From it follows `UpHasNamespace`. `LockProtects` is shown of each
action (`UnderLock`): it either leaves a running environment alone, or is a step of the
holder of its lock, of a `Delete` that ends, or of work that has been left behind.

**Metadata_proofs.** For any repositories, acyl.yml, branches and overrides, and
dependencies of any depth. `WorldsAssumption` says what a world is (`WellFormed`): fields
of the right kind, and declared names that do not look like prefixed ones; names are
sequences here, in which repositories differ (section 4); `NoneAssumption`, that a missing
configuration is not a failed one. None of the three properties is inductive: they
speak of the configuration, so `GetInv` has to say while `Get` walks why it will have
them. That part is `Walk`, which is about the calls under way and what they have found:
* `CallsInv`: no two calls are for one repository, and each is for the next entry of the
  one below it. A call has made its `deps` of the entries that it has gone through
  (`CallOK`): each has the name with the prefix, and its requirements are those of the
  entry in which some names, which are the ones not in `renames`, have been replaced
  (`RequiresFor`). The dependency that a call is for has the branch of branch
  matching, and requires what has been added for it (`HeadOK`).
* What has been found, on the stack or below it, is complete (`DepOK`): if it is a
  repository, everything it declares has been found, with its requirements renamed.
  This is how the end of a call (`HeadCompletes`) becomes `TransitivesRequired`.
* `NamesInv`: a prefixed name tells the repository it was made for, and a chart given by
  path has the commit of that. From this comes `RefsMatch`.
* `GraphInv`: what has been found is in layers, one for each repository that has
  been processed. A layer is ordered when its acyl.yml is (`CallOrdered`), and
  requires only names of layers before it (`CallLayer`), so the union is (`Layer`).
  This is the part of `Installable` about circles; the rest is what `ValidateNames`
  checks (`AcceptedNames`).

A step keeps `Walk` by one lemma each (`WalkWithRepo`, `WalkWithChart`, `WalkRenames`,
`WalkReturns`, `WalkEndsDirect`), and `EndEnv` turns it into the properties
(`AcceptedRefs`, `AcceptedTransitives`, `AcceptedCharts`). The lemmas before are about
sequences of arbitrary elements, `Renamed`, and `Populates`, which is turned from
offsets into titles (`PopulatesOrders`, `OrdersPopulate`).

At the end of the module is `FetchCharts`, for any number of dependencies. A location
may be that of another chart, but whatever `loc` and `couts` hold was fetched completely
(`LocationsWritten`), since it is assigned after the fetch (`NothingBefore`) and
nobody starts before the chart of the application is there. `FetchesForGet` shows that
`Metadata` calls it as `ChartFetch` allows, so that this holds there too.

**ChartFiles_proofs.** For any operations, charts and names of directories, provided
the charts are `ChartsWellFormed` (`FilesAssumption`): a file is not also a directory, the
vars file is not
one of the chart's own files, and a link leads to a file of its chart. The code checks
none of these: the first is so of anything that git stores, the others of the charts
that acyl is used with; otherwise a chart overwrites its own file, or has a link that
leads nowhere, which is between GitHub and that chart. `TempDir` takes a name that no
other operation has (section 2). `FilesInv` says why nobody then meets anybody else:
each operation has its own directory (`OwnDirectory`), a file is above a directory or
an entry, or is an entry that has been written (`FilesPlaced`), and what has been
written is there with its content until its operation removes it (`FilesThere`). A
path has had one file (`OneFile`), so that a write goes to the file at its path, and
what a `RemoveAll` has found empty is empty still when it removes it under another
lock (`Victims`). The lemmas before are about prefixes of paths, and about `New` and
`Delete` of `storage`: that each keeps `TreeKept` as long as only a file or an empty
directory is removed. From the invariant, `InvIntact` reads the charts, links followed.

**Server_proofs.** Each part of `Server` has an invariant over its own variables, and a
property holds of `Server` because no other part touches these.

* *DataLayers.* `LayersInv` relates each table to the map of the other layer
  (`RecordsMatch`, `RowsMatch`, `LogsMatch`, `SessionsMatch`), up to what only one of
  them has; `LogsNamed` that both find the logs of an environment; `FilesMatch` what
  the files of a killed command may lack. A lemma per statement shows that both do the
  same, one per query that both then answer the same, or differ as `KnownDifferences`
  says (`RecentDiffers`, `DifferencesKnown`). `LayersAssumption`: `NULL` is no
  name, times are numbers, and no search cuts exactly at the time of a record, where
  the layers differ (section 4).
* *Login.* For any number of tabs. When all tabs are rejected or on their way to be
  checked, the one that was redirected last passes (`SomebodyPasses`): until its
  redirection arrives its session is there and nobody is going to delete it (`Kept`),
  because nobody else can have seen its id (`Unknown`). `LoginAssumption`: there is a tab,
  and the bounds are numbers.
* *Shutdown.* No operation that was counted runs after the wait for v0 because no
  handler that could start one is left (`HandlersReturned`), which depends on the order
  in which `main` waits.
* *Intake.* `Progressing` says at which step of a route there is a log, an operation and
  an answer; `RebuildSteps` what the operation of a rebuild can still rely on of what
  its handler has read before the lock. `IntakeAssumption`: only an event of a pull
  request has a commit, and an acyl.yml is found, missing or malformed.
* *Cluster.* `RowListed` and `BindingListed` say that whatever is there for a privileged
  environment can be found by somebody who will remove it, `BindingThere` that an
  environment which is up has it, `NamespaceFirst` that a binding is deleted after its
  namespace. All of it is void once `leaked` or `disturbed`, as in the property.
* *Reads.* `SearchAnswered` compares the answers of the versions; `LinksKept` and
  `PageOpen` say what of an earlier read of a page still holds at the next one.
  `QueriesAssumption`: a parameter that is given has a value. `DatabasesAssumption`: a
  row belongs to a record, a record has a known status, a repository and an event, and
  a status can be shown; all of it is what `Create` writes, and logs may go later.

`NullAssumption` and the conjuncts about `NULL` only say that the model value is none of
the others. TLC evaluates every assumption on its instance.

Only model-checked: all liveness and the fair parts of the two contracts, which are
out of the prover's reach. Every invariant and every action property of a passing run
is proved, under the assumptions named here.

## 6. Not modelled

* The Docker backend, notifications, commit statuses, metrics, logging, secrets,
  name generation, branding, the command line, and the code of the GitHub client:
  I/O and presentation on which no state depends.
* Parsing of acyl.yml and of requests beyond what the filters distinguish, chart
  values and templates, and most of `GenerateCharts`: pure functions on text. Their
  outcomes, valid, missing or malformed, are inputs of `Metadata` and `Intake`.
* The fake lock, which does not implement what it stands for (section 4).
* In the modelled components: Kubernetes objects other than namespaces, Tiller
  and ClusterRoleBindings; error reports and ill-formed graphs of the vendored
  walk; the data races on `name`, `err` and `builderr`, whose values are only
  reported; errors of the database in `Login`, `Cluster` and `Reads`.

## 7. Plan

1. `GenerateCharts` with its overrides and values as a function on small maps.
2. A fake lock that implements `LockService` as far as it does, and the tests'
   use of it.
3. Larger instances: three pull requests in `Fleet`, three dependencies in
   `ChartFetch`, two environments in `Cluster`.
