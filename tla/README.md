# Formal model of rc-repro

rc-repro boots a chosen version of Rocket.Chat with a compatible MongoDB, on
Docker Compose or Kubernetes, seeds it, measures it, and bins it again. One
machine usually runs one `rc-repro serve` (the web GUI; its long operations are
job threads) next to any number of CLI commands. They share a directory of
workspaces, a directory of lock files and a directory of write-ahead notes, and
any of them may be killed at any time. What is hard about the program is this
sharing, and it is what this directory models.

The TLA+ modules are translations of the Python (and, for the job dialog,
JavaScript) source. `PROJECT.json` maps every definition to the lines it stands
for. Model checking: `tlc -config <run>.cfg <module>.tla`; proofs: `tlapm
<module>.tla`.

Contents: 1 inventory, 2 plan, 3 modules and their correspondence to the code,
4 runs, 5 proofs, 6 divergences, 7 what is not modelled.

## 1. Inventory

Paths are under `src/rc_repro/`.

| component | state | operations | what is hard | what makes it correct |
|---|---|---|---|---|
| Workspace lock, `runner.py` `repro_lock` | an RLock per name and process, an flock per name, a thread-local depth | enter and leave `with repro_lock(name)` | two layers, reentrancy, two timeouts, a process that dies | exclusion over threads and processes; no layer leaks on any path; every caller answered |
| Write-ahead notes, `services/journal.py` | one JSON file per note: kind, workspace, owner pid and start time, prior values | `record`, `clear`, `clear_kind`, `recover` at the start of `serve`, `abandoned`, `pending_seed` | kills between any two steps, pids used again, a live process next to a dead one's notes | a temporary change is never without a note; recovery undoes only what dead processes left |
| Performance runs, `services/perf.py`, `perf/constrain.py`, `perf/mongoprof.py` | API rate limiter, metrics endpoint, container caps, Mongo profiler | load test, capacity search, benchmark | a chain of changes undone in a `finally`, with calls that fail | the workspace is put back, or a note says what is left |
| Seeding, `seed.py`, `scaleseed.py` | limiter and email-2FA while it writes; users, rooms, messages | `seed`, `check_seed` | as above, and a plan compared with what landed | as above; a seed lands once |
| Creation, `services/lifecycle.py` and `cli.py up`, `ready` | the workspace's record and containers, the CREATE_UNFINISHED note | `create_repro`, `wait_and_finalize`, `ready`, `run_seed_inline` | containers outlive the create that was killed and look finished | what is unfinished is noted, `ready` finishes it, nothing is done twice or at once |
| Job manager, `web/jobs.py` | registry, threads, two pools of slots, draining flag | `submit`, the worker, eviction, trimming of results, `drain` | `submit` is three critical sections; workers and drain come between | slots are neither lost nor made; unfinished jobs stay findable; memory is bounded; jobs end |
| Job progress, `web/app.py` `job_stream`, `data/webui/app.js` | bounded event buffer, SSE generator, the dialog's index and retries | emit, stream, reconnect, reconcile, poll | streams break, the buffer drops, jobs are evicted | no line twice, none skipped, in the end the true outcome, or that it could not be asked |
| Admission, `services/lifecycle.py` gates, `capacity`, `services/doctor.py` | none; the host is looked at | the gates of a create, the home page's rooms, `doctor` | three pieces of code judge one host | what is foretold is what happens |
| Names, documents and ports, `services/lifecycle.py`, `services/topology.py`, `versions.py`, `compose.py`, `services/envvars.py` | the record and the compose document | `up`, `--force`, reuse, `env`, monitoring, start, stop, down | a rebuild remembers some flags and forgets others; ports of every kind | no port is promised twice; `up` gives back the https name and the environment |
| Owners, `services/lifecycle.py`, `cli.py` | `created_by`, `owner` and its history, the deletion policy | resolve a name, `chown`, `down`, `prune` | a typed word means different things to different people and at different times | a word finds the workspace it made; only owners and admins delete |
| Compose lifecycle, `services/lifecycle.py`, `runner.py` | records, containers, networks, volumes | create, reuse, start, stop, teardown, prune | partial teardown, prune next to create | nothing half made or half removed is lost track of |
| Query cache, list and panel, `runner.py`, `services/lifecycle.py` | value and time per docker query | read, fill, invalidate, `list_repros`, `detail` | a fill may span a mutation; two views of one thing | no stale value after a command; the views agree |
| Benchmarks, `services/perf.py` | a workspace of a fixed name, its note | `bench_one`, repair | no lock, kills, a name that may be somebody's | what is left is noted; a person's workspace stays |
| Backup and restore, `services/backup.py` | archives, quiesced services, two kinds of note | backup, restore, `restore --new` | Rocket.Chat stopped around the dump, dropped databases | what is stopped or lost is noted, nothing writes under a dump, a failed restore is visible |
| Upgrade and rollback, `services/upgrade.py` | image tag, `upgraded_from`, pre-upgrade backup | upgrade, rollback | stop, two files, `up`, migration and restore each fail differently | compose file, metadata, container and data are of one version, or the user has been told |
| Accounts and sessions, `services/sessions.py`, `services/users.py`, `web/signin.py` | two files, a cached copy per process | sign in, verify, revoke, add, remove, change role | two locks, a cache checked by a stamp, several processes | changes are not lost, an admin remains, an ended session stays ended |
| Getting in, `cli.py serve`, `web/app.py`, `services/firstrun.py` | the first-run link, what the box remembers, the throttle | `serve`, claim, sign in, guard of every request | edge, proxy, plain address; restarts | the address that was printed lets people in |
| Log stream, `web/app.py` `logs_stream` | a child, a bounded queue, a handler | pump, drop, tell, notice a browser that left | the browser is slower than the container, or gone | every gap is told; the child ends |
| Edge ingress and TLS, `services/edge.py`, `tls.py`, `tls_local.py` | route files, the shared Traefik container and the networks it has joined | up, down, attach, detach, register | many workspaces share one container, which is made anew beside them | what runs is served, and nothing else |
| Kubernetes runtime, `services/k8s.py` | a kind cluster, namespaces, shared helm releases, port-forwards, replica notes | create, down, prune, monitor, ready, stop, start, restart | refused reads, kills, counting users of what is shared, pids used again | everything is recorded; shared releases outlive their users; `ready` speaks of itself |
| Capacity search and SLO, `services/perf.py`, `perf/slo.py` | bounds of the search | doubling, bisecting | steps that measure nothing, boundary values | the answer was measured |
| Seeded rooms, `seed.py`, `services/lifecycle.py` `check_seed` | users, rooms, messages | create, fill, read back, verify | calls refused, or done and not answered; content of an earlier seed | the report and the check are true |
| Audit and event logs, `services/audit.py`, `services/eventlog.py` | two files and their predecessors | append, rotate | rotation by several threads and processes | the newest lines survive |
| Configuration, `config.py` | `config.yaml` | locked read-modify-write | threads and processes writing at once, values from the environment | no setting is lost |
| Presets, measurement helpers, HTTP client, CLI and JSON output, diagnosis | none of their own | reading, rendering | little that is concurrent | not modelled (section 7) |

Interactions. CLI commands and jobs call the services; a service takes the
workspace lock for its mutating part and may nest `_ports` in it. Performance
runs, seeds and creates write notes before or after what they change and clear
them afterwards; `serve` runs `journal.recover` when it starts, before it
accepts work; `ready` reads the notes of dead creates. The GUI sees a job only
through its registry entry and its event buffer.

## 2. Plan

Order: what other modules rely on first, then what a user loses most by.

1. `Mutex`, `ReproLock`, `ReproLockProofs` - done.
2. `SideEffects`, `SideEffectsProofs`: notes, performance runs, seeds, recovery - done.
3. `Jobs`, `JobsProofs`, `JobStream` - done.
4. `CreateFlow`: creates, `ready` and lost seeds - done.
5. `Restore`, `RestoreProofs`: backup, restore, upgrade and rollback - done.
6. `Kube`, `KubeServing`, `KubeProofs`, with the abstract `Ledger` and
   `SharedResource` - done.
7. `ComposeHost`: workspaces, ports and the edge, again under `Ledger` - done.
8. `Accounts`, `Console`, `LogTail`: the console - done.
9. `SeedRooms`, `Search`, `DockerView`: what seeds, searches and views say - done.
10. `Admission`, `Blueprint`, `Ownership`: what stands before a create, what is
    written of it and whose it is - done.
11. `EventLog`, `AuditTrail`, `ConfigFile`, `Bench`: files that several processes
    write, and benchmarks - done.
12. `HostProofs`: the components of points 7 to 9 that `Host` composes, and
    `ConfigFile` - done.
13. `WebProofs`: `JobStream`, `LogTail`, `Console`, `EventLog`, `AuditTrail` - done.
14. `CrewProofs`: `CreateFlow`, `Admission`, `Blueprint`, `Ownership`, `Bench`; and
    `KubeServing` in `KubeProofs` - done.

Every safety and action property that a passing run checks is a theorem; what is
left to the runs is liveness (section 5). Left to model: section 7.

## 3. Modules

### Mutex and ReproLock

`Mutex` is what the callers of `repro_lock` rely on: a name has at most one
holding thread, the holder may enter again, a dead holder holds nothing.

`ReproLock` is the code. `owner`/`count` are the RLocks (`_THREAD_LOCKS`),
`held` is `_HELD.names`, `flock` the kernel's lock on the file of a name,
`frames` the bodies a thread is inside. `Call`, `AcquireThreadLock` /
`ThreadLockTimeout`, `AcquireFileLock` / `FileLockTimeout`, `LeaveBody` and
`Unwind` are the steps of the context manager between which another thread can
run; `Kill` is the death of a process, after which its name stands for the
process that replaces it. The thread-local counter and the RLock count are kept
apart because the code keeps them apart: `NothingLeaks` says they agree.
`ImplementsMutex` is the refinement, with `frames` mapped to itself.

### SideEffects

One workspace, processes `serve` and CLI. An operation is the sequence of its
steps in the order of the source (`Steps`: `Opening`, the work, `Closing`): read
a setting, note it, set it, apply caps or the profiler, work, undo, clear. Every step is an
action, so a kill falls between any two of them. `Closing` is the
`finally`. `Flaky` says which calls may report failure; one that does may have been
carried out all the same (`Took`: a timeout). `unheard` is history: a change that was
reported failed, and whose note the code dropped for that. `MustChange`, `Noted`,
`DropsNote` and `Checked` are the conditions by which the operations differ; a
seed and an import (`Writers`) hold the workspace lock, so one excludes the other. `Boot`
gives a pid to a new process, with a new start time; a `serve` collects the
abandoned notes then and repairs and forgets them one by one (`Repair`,
`Forget`). A setting is `normal` or `test`; caps and the profiler are restored
to the value their note carries.

### Jobs

`Admit`/`Refuse`, `List`, `Register`, `StartThread` are the pieces of `submit`
between which others run; `Acquire`, `Settle`, `Tell`, `Release` are the worker.
The registry is the set of its jobs with the order in which they entered;
`Evicted` and `Trimmed` are the two loops over it. `drain` is `Refusing`,
`Collect`, `Answer`, then the process exits. `Settle` is one step for the
assignments of result, finish time and status: whoever looks at a job looks at
its status first. Whether the worker waited for its slot makes no difference to
what follows, so there is one `Acquire`.

### JobStream

One job and one dialog. Events are their absolute indices; `First` is the
oldest the buffer still has. A request about the job may fail whatever the job does
(`Outcome`), and the dialog then says so and `Failed` (`unasked`). `Snapshot` is a round of the generator, `Connect`,
`Receive`, `Lost`, `Reconcile`, `Poll` are `connectJob`, its two handlers,
`reconcileJob` and `pollJobUntilDone`. The job's own steps are those of `Jobs`
(`Settle` before `Tell`, eviction once it is over).

### CreateFlow

One workspace. A task is a CLI command or a job thread; its program counter
walks through `create_repro`, `_create_repro_locked` and `wait_and_finalize`.
`live` of a note is `owner_alive`, kept true by the model while the owner's
process is (what start times are for is the subject of `SideEffects`).
`seed_here` is `here`. The lock is taken as `Mutex` promises it, reentrancy
included (`SeedLock`). `ready` takes no lock but for the pending seed. The checks
of a create are one choice here (`Refuse`); they are `Admission`'s. What is
written of a workspace is `Blueprint`'s, what happens to its containers
`ComposeHost`'s.

### Admission, Blueprint, Ownership, Bench

These four and `CreateFlow` are the crews of `MCCreateFlow`: a behaviour has one.

`Admission` judges a host (`box`: docker, memory, tools, clusters) three times.
`Refusal` is the list of gates of a create in their order, `capacity` the rooms of
the home page, `Look` what `doctor` says; `told` keeps what was said and what has
been made since. The two properties compare the later refusal with what was said.
The engine and memory figures of the source are kept (`WORKSPACE_MB`, ...).

`Blueprint` takes a command as one step and keeps what outlives it: the record, the
compose document, the route and the state of the containers. `Create` is `up` with
everything it derives (axes, instances, MongoDB, ports, https name, environment),
`_reuse` the `up` that finds a workspace, `SetEnv` is `env`, `Attach` and `Detach` are
`monitor`. `Asks` are the flags together with what the world answers to them.

`Ownership` has names as sequences of their parts, because two names that are
different sequences may be one string, and `derive_for`, `sanitize` and
`resolve_name` make words into names as the source does. A shell that deletes asks,
is checked, waits for the lock, and deletes; `undisturbed` says that nobody changed
owners meanwhile.

`Bench` is one name that `bench_one` uses and a person may use too. `boxes` is what
the containers and volumes of that name contain, which the record need not agree
with. `Recover` and `Repair` are the journal's part. `before` lists the benchmarks
begun before the person's workspace was made, `scars` is as in `Restore`.

### Ledger, SharedResource, Kube, KubeServing, ComposeHost

`Ledger` says that what is held outside the state directory is written down in it:
`Take` needs a record, `Forget` needs that nothing is held. `Kube` and `ComposeHost`
implement it (`Records == INSTANCE Ledger WITH held <- ..., recorded <- ...`), with
namespaces in the one and volumes and networks in the other. `SharedResource` says
when a thing that serves all workspaces may go: whoever removes it has gone through its
users, and those it is removed under came after that began. `Kube` implements
it twice, for the MongoDB operator and for monitoring.

`Kube` follows the kubectl, helm and kind calls of a create, a monitor attach or
detach, a `down` and a prune one by one (`pc`), over the state of the cluster (`ns`,
`work`, `wants`, `helm`) and of the home (`record`, `lock`, `CLUSTER_LOCK`). A call
may be refused; the code's readers of a refused list are translated as they stand
(`RefusedIsEmpty`, `UnreadIsNo` are their mutants). `helm` has the pending
states that a killed install leaves. A count of users is as many steps as the code has
reads: is the release there (`Installed`), who may use it (`ListUsers`), and, for
monitoring, does this namespace, then the next (`AskWants`); `since` has the namespaces
still to be asked and, as history for `SharedResource`, the users that arrived since
the list: with the label of their namespace or, where a label was left, when the
namespace becomes active again.

`KubeServing` has processes of kubectl with their pid, port and address family
(`proc`), the pid in the record, the replicas and the annotation that notes them.
`Look` to `Ask` are `_wait_serving_kubernetes`, `Enter` to `Leave` are
`_set_state_kubernetes`. Other programs come and go with the pids and ports: ones that
are no Rocket.Chat, Compose workspaces of the same home on the port of their record, and
Rocket.Chats that are no workspace of it. `api_info` takes any Rocket.Chat for the
workspace, so `ReadyIsItself` exempts the last kind by name (section 6, 31), and the
theorem supposes the ports in the records apart.

`ComposeHost` does for Compose what `Kube` does: ports, routes, the edge's container
with the networks it has joined, containers and volumes, between each docker call
and file any other process. Two histories are exempt in `RunningIsServed`: `hurt`, a
workspace whose last command failed or died, from all of it; and `unjoined`, one whose
network the edge lacks because docker refused it or the edge's command was killed, from
having its network, although its own commands succeeded (section 6, 58).

### Accounts, Console, LogTail

`Accounts` is two files and three kinds of lock: a command reads and writes the
accounts under `users.lock` and the sessions under the lock of their file and
`sessions._lock`, and a request that only checks reads the copy of its process,
which `Stamp`, `Text`, `Look` refresh when the stamp differs (`old`). A read may fail,
and then the copy is used as it is, under the lock too (`Load`). History: `late` says a
request began after its session had ended, `unread` that a read failed for it, which
`SessionsStayEnded` exempts (section 6, 57).

`Console` is `serve`: what it binds, prints, warns of and remembers (`Serve`), and
what the application then makes of the requests of browsers that come directly, over
the edge or through a proxy: `signin_gate`, `claim_gate`, `Page`, `LogOpens`.
`fails` is the throttle, `own` and `member` are history.

`LogTail` is `logs_stream`: the thread that reads the child (`PrintLine`), the event
loop's `Offer` to a bounded queue, the handler (`Get`, `SendNotice`, `Send`) and
`WatchClient`. `owed` are the skipped lines of a notice on its way.

### SeedRooms, Search, DockerView

`SeedRooms` makes the rooms of a plan, fills them, adds the discussions, and reads
back; a call is carried out, refused, carried out without an answer, or answered with
a page in place of JSON (`NoId`, `PagedFacts`). `rid`, `failed`, `blank`, `counted` are
the seed's books, `there` and `content` is Rocket.Chat. `SeedReportIsTrue` exempts by
name the dms whose owner could not sign in (`unowned`; section 6, 59) and what a page
said (`paged`; 60).
`Search` is `run_capacity`: doubling, bisecting, and the `Breach` that is reported.
`DockerView` has `past`, the moments of docker; an answer is the moment it was read
from, so that the cache (`Hit`, `Miss`, `Ask`, `Store`, `Return`) is about which
moment is shown. Its second half, `list_repros` and `detail`, is what list and panel
make of one moment, compared for every combination of containers.

### ConfigFile, EventLog, AuditTrail

`ConfigFile` is `update_config` under its two locks (`TakeMutex`, `TakeFlock`,
`Load`, `Save`) beside `serve`, which reads with its environment and saves without
them (`Recall`). `EventLog` and `AuditTrail` count lines. In the first a writer has
the file open while others rename it (`fd`, `Followed`); the second moves file after
file without any lock (`moving`).

### MCHost, MCKube, MCWeb, MCCreateFlow

Parts that share no state are checked in one run, one part per behaviour, so that
states add up and do not multiply. Every property is stated in its component; the MC
module says of which part it is. Constants stay open in the parts, and the values TLC
takes are at the end of the MC module (`MCBoxes`, `MCServed`, ...). What is taken of
the constants is assumed there by name (`HostConstants`, `WebConstants`, a conjunct for
each part; `ServedIs`, `ScaledIs`; in `MCCreateFlow` one for each crew): the proofs
start from it, and TLC evaluates it on the instance. What the code does not see to is
no assumption but a definition (`OneServe`, `NobodySetsMetrics`, `AccountsAreApart`,
`PortsGivenOnce`), and a hypothesis of the theorem that needs it. `MCWeb` has two consoles,
`Door("edge")` and `Door("lab")`, which are one module with different browsers and
options.

### Restore

One Compose workspace and the operations that write or stop it. `record` is
`repro.json`, `compose` is `docker-compose.yml`, `box` the Rocket.Chat container
with its image and who stopped it, `db` the schema version and what is left of
the data, `bundles` the archives, `notes` the two kinds of note. A process walks
through one operation; `job[p]` is its locals, among them `mem`, the metadata it
has read and will write, and `prev`, the compose document an upgrade keeps.

`NoteStopped`, `Quiesce`, ..., `ClearStopped` are `_Quiesced` and the dump or
the load inside it. A restore is also what a rollback does last, and a backup
and a rollback are parts of an upgrade, so the same actions serve all four:
`Restoring(p)` says p is in `_restore_locked`, `Undoing(p)` that it undoes its
own upgrade. `runner.write` is two actions, `WriteCompose` and `WriteRecord`.
`Migrate` is what Rocket.Chat does to the database when it boots. The lock is
`Mutex` with one name, held from `Acquire` on; operations wait for it, or give
up at any time while it is taken (`LockTimeout`). `Recover`, `Repair` and `Mend`
are `journal.recover`, which takes no lock.

`scars` records accidents the code does not prevent, so that each property can
say which of them it does not survive: `cut` (a kill between the two files),
`stale` (a rollback wrote metadata read before another operation changed it),
`broken` (an upgrade or rollback that was killed, or failed and could not be
undone), `woken` (recovery started Rocket.Chat under a dump or a load),
`unstopped` (a stop failed and nobody looked). Each is reachable in the run, and
with any one of these exemptions taken out the property that has it fails, save `cut`
in `RollbackRestores`, which needs a second upgrade.

## 4. Runs

| run | result | asks |
|---|---|---|
| `ReproLock` | pass | accounting of the layers, answers to callers, refinement of `Mutex` |
| `SideEffects` | pass | settings changed are noted (but for `unheard`), recovery is complete for its predecessors and spares the living, caps that did not come back keep their note |
| `SideEffectsRecovery` | violation | recovery turns the limiter on under a live load test |
| `Jobs` | pass | slots, eviction, drain, every admitted job ends |
| `Web` | pass | the job's dialog shows lines in order and reports in the end, the true outcome or that it could not ask; gaps in a log are told, its child ends; the printed address works; rotations lose only what is oldest |
| `CreateFlow` | pass | creates and benchmarks at work are noted, seeds come one by one, `ready` finishes a lost seed before it forgets it; gates do what was foretold; ports never meet; `up` gives back name and environment; names find their workspace and only owners delete |
| `CreateSkipsSeed` | violation | `ready` drops a lost CLI seed |
| `Restore` | pass | stopped containers and lost data are noted, dumps are quiet, files and container agree, a successful rollback has rolled back |
| `Kube` | pass | refinements of `Ledger` and `SharedResource`, a failed create keeps the volume, `ready` speaks of its own workspace, only its own forward is stopped, replicas come back |
| `KubePrune` | violation | prune deletes a workspace that came up after its list was made |
| `Host` | pass | refinement of `Ledger`, routes and networks of the edge, accounts and settings change one by one, sessions stay ended, views, seed report, capacity |
| `ConfigKeepsToken` | violation | `serve` writes a token of its environment to `config.yaml` |

A property that is a conjunction over parts has a mutant for one of them; the
others are named in the comments of the modules.

Bounds, and why they are enough.

- `ReproLock`: two threads of one process and one of another (both layers meet
  contention), a workspace name and `_ports` nested in it, depth 2 (outermost
  and inner frame; deeper frames behave as the inner one). The proof has no
  bounds.
- `SideEffects`: one pid for `serve`, one for CLI commands, each used by two
  processes (`MaxInc` 2: a pid used again), two operations over all (`MaxRuns`
  2: a predecessor and one at work, or two at once). Only `serve` changes caps:
  two processes that do restore each other's (section 6). The calls allowed to
  fail (`MCFlaky`) are those whose answer the code looks at; each that fails was
  carried out or was not.
- `Jobs`: two jobs on one slot of the measurement pool and one job without a
  pool; a queue of one, a registry of two and no kept results, so the queue
  refuses, the registry evicts and results are trimmed with three jobs.
  `KEEP_RESULTS = 0` is a case the code has a branch for.
- `Web`: `job`: a buffer of two events and four lines, so it drops; two retries.
  `log`: a queue of two and five lines, so it drops twice. `edge` and `lab`:
  three and four browsers, two links, two failures allowed: one browser is locked out
  beside another. `events`: two threads and a command, a file full with two
  lines; nobody is held up within its line while others fill a file (`Prompt`), else
  a line goes to a file that two renames have thrown away. `audit`: three threads,
  three places; overlapping rotations are exempt (`crowded`, section 6).
- `CreateFlow`, `killed`: two job threads, which give a create and a `ready` at once,
  a retry, and a kill of both at every step. The requests are those that wait:
  what others leave is in section 6; so are compose and readiness failures.
  `still`: a job and a CLI command, all failures, no kill. `gates`: the hosts of
  `Boxes`: engine, memory and ports for Compose, memory for an own cluster, engines
  below, above and of unknown CPUs and memory, every age of the tools, every pair of
  clusters; memory around the limits for none, one, two and
  four rooms. `ports`: two workspaces and eight ports, one taken, with side ports and
  monitoring at fixed ones. `plans`: one workspace and sixteen requests, one or more
  for each branch of the derivation. `owners`: two people, one with an account or
  without, four words, one of them odd and one with the other's prefix, two
  workspaces at a time, one shell that deletes. `bench`: two benchmarks in two
  processes, so one is at work, killed or repaired beside the other.
- `Restore`: a job of `serve` (upgrade or backup), a CLI restore, rollback or
  start, and a CLI change of the environment or stop, over two versions, with
  one later start of `serve`. Upgrade and rollback need two versions; a third
  would be a second upgrade, which begins as the first did. Three processes are
  one at work, one that left its damage behind, and one that waits with what it
  has read. Not flaky are mongodump, whose failure only ends a backup early, and
  the `up` of an upgrade being undone (section 6).
- `Kube`: `cluster`: two workspaces, one with the operator, and two processes, one
  that makes and one that removes, one kill: one counts users while the other
  arrives, `down --volumes` of either workspace included, so the operator is counted
  and removed with and without a user left. `serving`: two workspaces and one of
  Compose, two pids, one program that is no forward: a pid and a port are each used
  again. `scaling`: two workloads, one with two replicas, so a stop can
  fail between them.
- `Host`: workspaces: two names, one with a public certificate, two ports, so that a
  rebuild beside the other finds none, one kill, a process that makes and one that
  stops, removes, prunes and moves the edge.
  Accounts: two requests of `serve` and a command, two people, two sessions of one:
  a session read, ended and read again by two processes. Settings: three threads, two
  processes. View: one change of docker, two ticks, one query of the three that are
  cached alike. Seed: a room of every kind, one message each (`Want`), one page
  (`MaxPages`), four remains of an earlier seed (`Earlier`: nothing, a team, a team with
  an empty channel, all but the team's message). Capacity: six starts and four maxima, with boundaries on both sides.

Deadlock is checked for `ReproLock`, `Kube` and `Host`, where somebody can
always begin again. The others are finite: operations, jobs and tasks are used up,
and a state with nothing left to do is no fault.

Type invariants are stated in most modules and were checked with TLC on the instances
of the runs; the runs leave them to the proofs.

Fairness. `ReproLock`: a thread inside the lock's own code keeps running; both
waits have deadlines. Bodies may never end, and the property does not need them
to. `Jobs`: threads run and operations end, as every call they make has a
timeout; a submit may be refused, and the process may exit. `JobStream`: the
worker goes on, generator and dialog poll on timers, a generator that has
returned raises `onerror`; a connection may break and a request fail at any time, and
neither need.
`LogTail`: the event loop runs what is ready (`Server`, `WatchClient`); a container
need not log, and a browser need not read. No other module states fairness.

Mutants. Every property of a passing run has a mutant, a plausible slip in the code,
next to the definition it replaces (`\* Mutant of ...`); TLC refutes the property
with it.

## 5. Proofs

`ReproLockProofs`, for all processes, threads, names and depths, from the three
assumptions of `ReproLock` (every thread has a process, the null thread is none
of them, the platform flag is Boolean): type correctness, `NothingLeaks`,
`MutualExclusion` (theorem `LockExcludes`), and with `HasFlock` the refinement of
`Mutex`. `NothingLeaks` is the invariant, and is inductive only with `Bookkeeping`: a
free thread lock has no recursion count, and a thread polls for the file lock only
from its outermost frame. Each action preserves the conjunction (one lemma each);
mutual exclusion follows since a thread in a body owns the file lock of the name, and
the file lock has one owner; the refinement since a thread enters an outermost
body only when the file lock is free.

`JobsProofs`, for every finite set of jobs and all pools, sizes and limits: type
correctness, `SlotsAccounted`, `ActiveIsKept`, `DrainNamesWhatItAwaited` and
the action property `ResultsBounded`, from the assumptions of `Jobs` (the set of
jobs is finite, each has a pool or none, pools have slots, limits are numbers).
The inductive invariant adds how a job's status follows from where its thread is
(`StatusFollowsThread`): eviction looks at the status only, and so cannot hit a
job whose thread is at work; and a job still active when `drain` answers is
alive and registered. `SlotsAccounted` needs one element added to or removed
from a finite set. `ResultsBounded` rests on `UntrimmedAreFew`: of the finished
jobs left untrimmed take the one submitted first, then all of them are among
those not older than it, of which there are at most `KeepResults`; and on
`ResultCameFirst`: an event carries a result only of a job that had one, so
trimming, which looks at the result, also reaches results left in an event.

`RestoreProofs`, for all processes, operations, versions and flaky calls, from
the two assumptions of `Restore` (the null process is none, bounds are numbers):
type correctness and exclusion, `DumpsAreQuiet`, `StoppedIsNoted` and
`LostDataIsNoted`. Types need `JobsFit`: which operation can be at which place
(a bundle that is packed exists, only operations that write files get to where
they are written). Most cases of the others are closed by two lemmas: who does
not hold the lock changes nothing but itself (`Bystander`), and two are not
inside at once (`Alone`). `StopInv` is what makes `StoppedIsNoted` inductive:
recovery handles only notes whose owner is gone, so it clears none of a section
at work; and some note of a stopped container is not among those it is about to
clear, since it starts the container before it marks one repaired. `LossInv`
does it for `LostDataIsNoted`: a dump of a database that lost its data is itself
lost, and may be loaded much later by a restore that succeeds and clears its own
note; what holds then is that the note of the first loss was never cleared
(`LossLasts`), so the invariant follows the loss through bundles and locals.

`HostProofs` begins with the settings, for all threads, processes, requests and values
of the environment: `SettingsChangeOneByOne`, which the run `Host` checks as a part of
`FilesChangeOneByOne`. Whoever reads or writes under the locks has the one of the
file (`UnderLock`); so what it has read is what the file is when it writes
(`Current`), unless `serve` wrote in between. Both need the place of a thread to fit
its request (`Shape`). The process lock is not needed.

`SideEffectsProofs`, for all processes, operations, pids used again and kills.
`PredecessorsAreCleared` holds without any condition: what a `serve` still has to
clear is among the notes it has collected (`Pending`). `SettingsAreRecorded` is about
every place at which an operation can be killed, so the invariant speaks of the steps
that are left (`todo`): a changed setting has a note that nobody is about to drop
before the setting is back (`Cover`, `InForce`), unless the call that changed it was
reported failed (`Changed`, item 55), and a recovery holds notes of the
dead only (`Dead`). `NotesGoInTime` adds that the caps are what the note says where it
is about to go (`CapsBack`). The hypotheses are where the code is weaker than its
comments (section 6, 1, 3, 4 and 7): `HasProc`, without which every owner passes for
dead; `LoadTestsReach`, that the calls with which a performance run restores a setting
work, since it clears the note whatever they report; and `OneKeepsCaps`, that one
process alone changes and recovers caps. That a live run's note is kept
(`RecoverySparesTheLiving`) needs only the first.

`RestoreProofs` goes on to `RecordTellsTheTruth` and `RollbackRestores`. Whoever has
the lock is at some distance from a home that is in order, and the invariant says for
each place what is written and what is not: of the two files (`Filing`), of container
and database (`Truthful`), of what the process knows (`Knowing`) and of what its
rollback has put back (`Keeping`). Some thirty actions fall into eight classes
(`Moved`: a step that only walks on, a load, a write, a start ...), and each invariant
is proved over these. `"up_again" \notin Flaky` is item 19 of section 6.

`KubeProofs`, for all workspaces, processes and commands, every refusal and kill: type
correctness, both refinements (`EverythingIsRecorded`, `SharedReleasesOutliveTheirUsers`),
`FailedCreateKeepsTheVolume`, and that a namespace always has a record. `IInv` has the
places of a process and the locks it holds there (`Control`), the cluster (`Cluster`),
and what a process has made sure of and may still rely on (`Known`): its record is
written before it makes anything (`Written`), what it saw to be gone stays gone while
it has the lock (`Confirmed`), and every user of a release it is counting has yet to be
asked or has come since the list (`Counted`). A step of the program is a step of the abstract
specification or changes nothing of it, one case per action.

`HostProofs`, from `HostConstants`: every property of the run `Host` is a theorem.
- Workspaces: `RunningIsServed` and the refinement of `Ledger`. `HostInv` says which
  place goes with which command (`Placed`), which lock it has (`HasLock`), what it
  has done so far to its workspace (`Mid`), and that a workspace nobody is at and
  nothing has hurt is served (`Served`). The network may be missing while some process
  goes through the routes and has this one before it (`Coming`): that is what makes a
  start of the edge harmless beside creates. A refused join is noted in `unjoined`.
- Accounts and sessions: who writes a file has its lock and has read what is in it
  (`Booked`, `Rewriting`); a process whose stamp is current has what is in the file
  (`Stamped`); a request that came too late has a session that is neither in the file
  nor in what its process looks at (`TooLate`), unless a read failed. Settings: above.
- Seed: the books never claim more than has arrived, but on the word of a page
  (`Arrived`), and what is read back is so, or less than is so after a page
  (`ReadTruly`); a discussion whose parent was not read cannot hide it, since a plan has
  parents first, and none of them is a dm.
- Search: the two loads keep every measurement outside of them (`Bracket`), and halving
  ends within a quarter of the lower.
- Views: an answer carries a time from before docker was asked, and was true then or
  later (`Dated`); by the times to live it is not older than it claims.

`WebProofs`, from `WebConstants`: the safety properties of the run `Web`.
- Log: the queue is the tail of what was offered (`QueueIsTheTail`), and every line is
  shown, skipped, in a hand, queued or counted (`Accounted`). The proof asks for a
  queue of at least two (`QueueHoldsTwo`; `WS_QUEUE_MAX` is 3000): in a queue
  of one the end of the output would push out the last line, and nobody would be told.
- Dialog: what is on the wire is in order but for what the buffer has dropped, and the
  generator's index is the one after it (`InStream`). Buffer and wire only grow at
  their ends, so a reconnect may start from the dialog's own index. A title is that of
  the job's end, save where the job could not be asked (`unasked`; section 6, 56).
- Rotations: who still writes to the file before the last has seen begin every line of
  the last (`Fresh`), so that no full file appears under it; and a lock of the file one
  has open is enough, since only the file with the name is ever full (`MayReplace`).
  For the trail, whoever moves files alone has an empty place before it (`RoomAhead`).
- Getting in: what is printed is a name that is answered to (`ServerIsSound`), failures
  are counted to whoever is behind them or to a hop that has no name of a browser
  (`Blamed`), the file has the last link until there is an account (`NobodyYet`), and a
  browser's cookie is of the scheme under which the server sees it, however the edge
  moves (`Cookies`, `SchemeOfHop`).

The invariants of `WebProofs` were checked with TLC on the instance of `Web` too.

`CrewProofs`, from the assumptions of `MCCreateFlow`: every property of the run
`CreateFlow`. The crews share nothing, so each has an invariant of its own, and a
theorem about a behaviour takes that of its crew.
- `killed`: `WorkIsNoted` speaks of the moment nobody is at work. In between, a
  workspace that is up and not configured has a note whose owner is dead, or one of a
  create past its checks (`Recalled`, `Kept`): an aborted create takes only its own
  note along, and who clears them all has configured (`Stages`). That seeds come one by
  one follows from who has the lock (`Inside`), also while `ready` finishes a lost seed.
  `ReadyFinishesTheSeed` adds `Sought`: at the clearing a seed has landed or no note is
  of a lost one. That is not inductive when a create of another process may be killed
  after the look at the notes: TLC shows it with two processes, so the theorem has
  `OneServe` (section 6, 51).
- `still`: a call has at most one seed, as it seeds at one place only (`Unseeded`), and
  no note that is left there is one that a `ready` would act upon (`Fair`).
- `bench`: where no `down` was refused and no two benchmarks met, containers of that name
  have a note and a record, and the one at work is noted from before it writes the record
  (`Undisturbed`). A workspace that has become a person's is met only by benchmarks from
  before it (`Older`).
- `gates`: what a host was said to have room for is still there, less what has been made
  since (`RoomIsThere`), and every closed gate has a row of `doctor`, gate by gate.
- `ports`: the document publishes what the record claims (`Agree`), every running
  workspace has both, and a new one takes ports that no record claims. A record's span
  of ports and its fixed ones never meet monitoring's, which the registry of ports in
  `config.py` sees to.
- `plans`: record and document say the same of every variable (`Planned`) but what
  `TRANSPORTER` is with instances. It is not inductive for the variable of the metrics,
  which `--monitor` writes over and `monitor --off` does not put back: hence
  `NobodySetsMetrics` (section 6, 52).
- `owners`: a name begins with whoever made it (`MakersShow`), and who waits to delete
  something may still do so if nobody came between (`ChecksHold`). That `up`
  takes no workspace that somebody else made needs `AccountsAreApart` (section 6, 53).

`KubeProofs` ends with `KubeServing`. `ready` (`ServingInv`): a forward listens on the
port of the workspace it leads to, whoever started it, and a Compose workspace on its
own; so what answers there, if it is a Rocket.Chat of this home, is that of the
workspace, where no other has its port (`PortsGivenOnce`; section 6, 31). `stop`: a process is ended only if its arguments name the workspace,
where arguments can be seen (`~ArgvHidden`; section 6, 27). Replicas (`ScalingInv`): from
its first reading to its last scaling a command is alone with the workspace; what was
noted whole is still noted, and a start has, for each workload, either given its count
or still to give it.

What the proofs found. In `Kube` a namespace that still has its label counts as a user
again when it becomes active, and the model had let it arrive unseen; in `Restore` arms
of a CASE overlapped, so that the undoing of an upgrade could be read as the upgrade,
and `RollbackRestores` had to exempt a kill between two files much earlier (section 6,
20); in `Search` the bound of the gap can be three instead of six; a queue of one line
loses a line in silence; and items 51 to 53 of section 6, each from a step at which an
invariant did not hold.

Theorems that state other than a property of a run: `LockExcludes`,
`ResultsStayBounded`, the three `TypeCorrect`, `NothingUnrecorded`,
`RecoverySparesTheLiving`, and `NoSettingIsLost`, whose property is a part of a run's.

Only model-checked: all liveness (`EveryCallAnswered`, `AdmittedJobsEnd`,
`StreamsEnd`), which is out of the prover's reach; the type invariants of the modules
that `MCCreateFlow`, `MCWeb` and `MCHost` compose, where the proofs carry what they need
of types in their own invariants; and the runs that expect a violation. Nothing is
proved about recursive definitions.

## 6. Divergences

Places where the code does not do what a comment or docstring of it says, met
while modelling. Four have a run that finds them (1, 2, 25, 26). The others that name
a property can be seen by checking it with the constants given, or with the named
exemption taken out of it; properties are named as in their own modules.

1. `services/journal.py:370` - recovery looks at the owner of each note, not at
   who else uses the workspace: repairing a dead run's limiter note turns the
   limiter on under a live load test. `journal.py:20-24` says it must not. Run
   `SideEffectsRecovery`.
2. `services/lifecycle.py:1848` - an abandoned note with `seed_here` is taken
   for one whose CLI will seed; but only abandoned notes get there, so the
   killed CLI's seed is skipped and the note cleared. `cli.py:406-417`,
   `lifecycle.py:1135-1143` say the note is there for that seed. Run
   `CreateSkipsSeed`.
3. `services/journal.py:129-130` - without `/proc` every note counts as
   abandoned; the docstring (122-126) says it falls back to the pid.
   `NotesGoInTime` with `HasProc = FALSE`.
4. `services/perf.py:233`, `421` - the Boolean of `set_setting` is ignored and
   the note cleared; `journal.py:17-18` says a note goes after the change is
   undone. `SettingsAreRecorded` with `<<"loadtest", "limiter">>` flaky.
5. `services/perf.py:175-181`, `379-385` - caps are applied, and the profiler
   started, before they are noted; `seed.py:470-492` notes email 2FA last.
   `journal.py:17-18` says the note is written before. A kill in between leaves
   the change with no note.
6. `services/journal.py:398` - the repair of a profiler note returns
   `bool(None)`, so it is kept for good; `journal.py:46-47` says none may be.
   `PredecessorsAreCleared` has the exception for it.
7. `services/perf.py:174` - two constrained runs in two processes overlap, and
   the one that ends last restores the other's caps. `perf/constrain.py:3-6`,
   `web/jobs.py:56-58`.
8. `web/jobs.py:306` - the queue is counted and entered in two critical
   sections: `QueueBounded` with three pooled jobs, against `jobs.py:100-118`.
9. `web/jobs.py:286` - a submit past the draining check starts its job after
   `drain` has answered: `DrainNamesEverything`, against `jobs.py:230-235`.
10. `web/jobs.py:360` - a result trimmed between the status and the terminal
    event stays in the event until the next submit: `BothReferencesGo`, against
    `jobs.py:178-180`. `ResultsBounded` states what does hold.
11. `web/jobs.py:262` - kept results are those submitted last, not finished
    last (`jobs.py:257-260`: "the newest KEEP_RESULTS finished jobs").
12. `services/lifecycle.py:1867` - a GUI create clears its note before its seed
    runs (1627); 1165-1169 says clearing there deletes the note in the window it
    exists for. `SeedIsNoted` with one job.
13. `services/lifecycle.py:1159` - a create that fails half-way (compose up,
    readiness) clears its note; 1152-1158 says that is for refusals.
    `ConfigurationIsNoted` with all failures.
14. `services/lifecycle.py:1172` - a create that does not wait clears the note a
    killed one left. `ConfigurationIsNoted` with requests that do not wait.
15. `cli.py:495` - the seed of `up --seed` and `seed` takes no lock;
    `lifecycle.py:2271-2281` says a seed is serialised. `SeedsAreSerialised`
    with a CLI task.
16. `services/lifecycle.py:1627` - a create retried after a kill runs the lost
    seed and its own; 1623-1626 says that collides. `OneSeedPerCall` with
    `MayDie = TRUE`.

17. `services/journal.py:413` - recovery takes no lock and may start Rocket.Chat
    under a dump or a load of another process; `services/backup.py:870-871` says
    nothing races it. `DumpsAreQuiet` without `woken`.
18. `services/backup.py:274` - the return code of the stop is ignored, and the
    dump of a running Rocket.Chat passes for a consistent one.
    `DumpsAreQuiet` without `unstopped`.
19. `services/upgrade.py:461` - undoing an upgrade ignores the return code of
    `up` (the explicit rollback looks at it, 508): Rocket.Chat of the new
    version then migrates the restored data again, and the message (326-328)
    says it was rolled back. `RecordTellsTheTruth` and `RollbackRestores` with
    `"up_again"` flaky.
20. `runner.py:164-165` - a kill between the two writes leaves a compose file out
    of sync with its metadata, which the comment above them (161-163) rules out.
    `RecordTellsTheTruth` without `cut`. A later upgrade that fails puts that compose
    file back (253) and says that it was rolled back (326-328): `RollbackRestores`
    without `cut`, with a second upgrade in `Ops`.
21. `services/upgrade.py:470` - an explicit rollback writes metadata it read
    before it waited for the lock, and undoes what the operation it waited for
    has recorded. `RecordTellsTheTruth` without `stale`.
22. `services/upgrade.py:274` - an upgrade killed after its own stop leaves
    Rocket.Chat stopped and no note; and after its write, an old container that
    `start` runs under the new record. `RecordTellsTheTruth` without `broken`.
23. `services/backup.py:888` - a restore that failed after the drop and is
    repeated clears its second note only; `journal.py:269-275` says repeating it
    is what completes it, and the first is reported for good.
24. `services/journal.py:413` - a note kept after a failed start outlives a later
    start and stop by the user, and the next `serve` starts what was stopped on
    purpose.
25. `cli.py:3504-3515` - `serve --domain --email` reads the settings with its
    environment and saves them whole, without `update_config`: a registration token
    of the environment reaches `config.yaml`, and what others wrote meanwhile is
    lost, in both directions. `config.py:206-207`. Run `ConfigKeepsToken`.
26. `services/lifecycle.py:3349` - prune does not look again under the lock;
    3346-3347 says what was grabbed meanwhile is skipped. Run `KubePrune`.
27. `services/lifecycle.py:3784` - stopping a forward passes no port, and a kubectl
    that is k3s shows no arguments, so any process with the pid may be stopped;
    `services/k8s.py:2926-2927` says every caller passes both.
    `OnlyItsForwardIsKilled` with `ArgvHidden = TRUE`.
28. `services/k8s.py:3295-3305` - `workload_exists` is false when the read is refused,
    so a running workspace may be listed as prunable; 3883-3898: users are counted and
    the release removed in two steps, and in many for monitoring (4173-4191), so a
    workspace that comes between loses it; 1303: `delete_cluster` skips
    the guard of its namespaces when the cluster does not answer; 3809: a pending
    release is freed that another process is installing.
29. `services/lifecycle.py:2915-2925` - the pid of a forward is read before the lock;
    a kill between starting one and writing it down leaves it unknown.
30. `services/k8s.py:4593` - `start` of a workspace that was never stopped scales
    two replicas down to one; 4499-4501: a refused annotation is ignored, and a start
    that failed half-way followed by a stop replaces the counts. `CountsComeBack`
    without `intact`.
31. `services/lifecycle.py:3568` - `up --runtime kubernetes --port N` looks at nobody
    else's ports, so `ready` (3880-3915), which asks whether Rocket.Chat answers
    (`rcapi.py:33-44`) and never which one, may take another workspace's Rocket.Chat,
    on the cluster or Compose's, for its own and seed it: `ReadyIsItself` with one port
    for two. The same of a Rocket.Chat that is no workspace of this home, on any port
    in a record: `ReadyIsItself` without `Stranger`.
32. `services/lifecycle.py:703-733` - the port lock is free again before the port is in
    a record. 1530 against 1594: the route is written before the record. 1588: a
    rebuild takes the network down without leaving it, which 3178-3181 says is
    refused; a teardown that fails after it has detached leaves the workspace unserved.
    `RunningIsServed` without `hurt`.
33. `services/edge.py` `edge start` reads what the edge is started with and writes it
    back, and can lose a certificate resolver that a create has just added.
34. `runner.py:923` - "invalidated by every mutation": not by `stop_services`,
    `start_services`, `rm_services` (493-503, 619) nor by the `up` of a create; and a
    fill read before a command is kept after it (931-940). `ViewsAreHonest` without
    `late`. A refused `docker ps` counts as no containers: the list says down or
    stopped, and the panel down, although `lifecycle.py:2762-2765` says that neither
    may claim what it cannot know. List and panel differ when the first of several
    instances alone has lost its container; a paused MongoDB is not degraded.
35. `services/journal.py:344-350` - the repair of a benchmark note does not look whose
    the workspace is now, as `bench_one` does (`perf.py:491-495`): a workspace made
    meanwhile is removed with its volumes. `OwnWorkspacesStay` without `before`.
    `bench_one` takes no lock and ignores the return code of `down`, so containers are
    left with neither record nor note. `BenchesAreNoted` without `scars`.
36. `services/lifecycle.py:1459-1462`, `1594` - a rebuild writes `created_by` of whoever
    rebuilds and drops `owner`, which `chown` gave "for good" (3036);
    "deliberately immutable" (739).
37. `cli.py:988-996`, `services/lifecycle.py:760` - `use` and `chown` resolve a word
    without the person, so `use test` does not find `alice-test`, which the comment
    says it does. A person whose name has characters that `sanitize` changes does not
    find it either (566, 790). Owners are checked before up to a minute of waiting
    for the lock and not after (3046-3060).
38. `services/audit.py:94-108` - rotation takes no lock; two that overlap put a nearly
    empty file over the newest full one. `NewestSurvive` without `crowded`.
39. `services/eventlog.py:150-152` - `_SIZE` counts only the lines of its own process,
    and a rotation that fails resets it: with several writers the file outgrows the
    "two files, ~8 MiB" of its docstring.
40. `cli.py:390`, `services/lifecycle.py:924-931` - the address of `up --domain D
    --email E` is not remembered (only `serve` saves it), so that `up --force` is
    refused afterwards; `up --force --email E` alone makes the workspace one with a
    local certificate (896, 935-936).
41. `compose.py:275`, `404`, `services/upgrade.py:199-203` - a variable the user has set
    (`TRANSPORTER`, the metrics) is written over by a rebuild with instances or
    monitoring, and an upgrade may remove `MONGO_OPLOG_URL`; `README.md:361-364` says
    overrides are kept. `UpGivesBack` without its exception.
42. `services/topology.py:296`, `presets/multi_instance.py:65` - `--replicas 3 --set instances=2`
    makes two and records three; replicas above five or of one are changed without a
    word.
43. `services/lifecycle.py` `check_sidecar_ports` looks at other fixed ports only: a
    fixed port may be one that a stopped workspace has for Rocket.Chat.
    `PortsNeverMeet` without its exception.
44. A rebuild takes neither deployment, bind address nor the MongoDB pairing from the
    record, so `up --force` may put another MongoDB on the same volume, without the
    checks that an upgrade makes.
45. `services/k8s.py:854-857` - `preflight` ends early when kind is installed and docker
    does not answer, so storage is not looked at; `services/doctor.py:672-687` says "ok" of an
    own cluster that is dead or has no usable storage, and does not look at the engine's
    floor that a create asks for. `AdmissionIsForetold` without `Unasked` and the
    exception for own clusters.
46. `seed.py:1011-1017` - a refused read of a team counts as "not in it", so a fault is
    reported that is none; a discussion whose parent is missing is reported too, which
    952-954 says it is not. `SeedReportIsTrue` of `TeamRooms`.
47. `services/edge.py:666` says the edge's address is read anew; `cli.py:3798` reads it once.
    `web/app.py:940-968`: two browsers with one first-run link can both make an
    admin. `serve --domain X --bind 127.0.0.1` prints an address the edge cannot
    reach.
48. `data/webui/app.js:1751-1774` - a filter changed between a line's arrival and the
    next frame shows the line twice; a skip notice may come one line before its gap.
49. `web/app.py:882-897` - a session is minted from a credential that was verified
    before and may have been revoked since.
50. `services/journal.py:429` - two `ready` at once both finish the same lost seed.
51. `services/lifecycle.py:1846` against `1867` - `ready` looks at abandoned notes and
    later clears the notes of every create; a create of another process killed in
    between loses its note, and the seed with it, although 1135-1143 says the note
    stays until a seed has landed. `ReadyFinishesTheSeed` with the two jobs in two
    processes.
52. `compose.py:404`, `services/monitor.py:179-212` - `--monitor` writes over a variable
    of the metrics that the user has set; neither `monitor --off` nor an `up` that reuses
    the workspace puts it back, although the record still has it. `UpGivesBack` with
    `METRICS` among what may be set.
53. `services/users.py:47`, `services/lifecycle.py:70-93` - names of accounts may have
    dashes, so `ann` and `ann-bob` are two people. `up --name bob-test` of the first and
    `up --name test` of the second name one workspace, which 70-78 says must not happen.
    `OwnersKeepTheirs` with such people and the word `bob-test`.
54. `services/lifecycle.py:228-234` - `capacity()` is to promise no room that a create is
    refused for memory, but does not know the engine's floor (363-371): on a host with
    room whose engine has less than 6 GiB the first Kubernetes workspace, which makes
    the cluster, is refused. `AdmissionIsForetold` without that exception in `KeepsRoom`.
55. `rcapi.py:395-396` - a call that timed out counts as failed although Rocket.Chat may
    have carried it out. `seed.py:491-493` and `cli.py:2721-2724` then clear the note of
    a limiter that is off, and a kill before the `finally` leaves it off with nothing on
    disk: `SettingsAreRecorded` without `unheard`. After such an answer for email 2FA
    (`seed.py:470-476`) it is neither noted nor put back.
56. `data/webui/app.js:2388-2392`, `2406-2411` - one failed request about a job, on which
    nothing of the job depends, ends the dialog as "Failed", of a job that runs or has
    succeeded; 2381-2383 and 2420-2422 say that the dialog reports the truth and will
    still report the result. `DialogIsTrue` without `unasked`.
57. `services/sessions.py:163-164` - a sessions file that cannot be read is taken to be
    what the process has kept of it. A request is answered for a session that another
    process has ended; under the lock (`force`) the stale rows are written back, which
    brings ended sessions back and drops new ones; and a sign-out of a session not among
    them reports that there was none. 156-157 say that a revocation is seen.
    `SessionsStayEnded` without `unread`.
58. `services/lifecycle.py:1615-1616`, `services/edge.py:477` - what `attach`
    returns is discarded by every caller, and `edge start` says every name is served
    (`cli.py:1473`): when docker refuses to join a network, or the edge's command is
    killed before it comes to it, the command that made the workspace has succeeded and
    its name answers 502. 1609-1614 is there against that.
    `RunningIsServed` without `unjoined`.
59. `seed.py:638-640` - without a session of its first user a dm is made by the admin:
    another room, of the admin and the second user. The seed reports the planned one
    created and its messages sent. `SeedReportIsTrue` without `unowned`.
60. `seed.py:503-519` - a 200 without JSON, of which the comment there knows, is an
    empty answer. A room so answered is neither created nor failed, a message so
    answered is counted (700-706) whether or not it arrived, and a room read back so is
    missing or short (916-923, 981-985) although "I could not read it" is not "it is
    wrong" (818-820). `SeedReportIsTrue` without `paged`.

## 7. Not modelled

Left out whole, because nothing in them is kept, shared or in an order that could go
wrong: presets (data) and the steps after readiness (one call each, a step of
`CreateFlow`); k6 scripts, resource sampling, verdicts, timelines and reports, which
render what one measurement gave; the Rocket.Chat client, whose calls are choices among
their outcomes in the other modules; parsing and output of the CLI, JSON, the texts of
the GUI; diagnosis and generated skills, which read and report.

Left out of modelled components, and why.

- Kubernetes: adopted clusters (they run through the same calls, without the
  cluster's own lifecycle), manifests and chart values, upgrades, backups, and the
  services of scenarios.
- Edge: adopting another holder of :443, certificates and their budget, which
  depend on an authority outside; the address of the console.
- Backups and upgrades: `--new`, `--live`, `--force`, `--no-rollback`, pruning and
  deleting bundles, the Kubernetes branches.
- Documents: what a custom preset may put into a compose file, `--fresh`.
- Admission: the rows of doctor on the console, the edge and state files, the inotify
  and disk rows. Nothing orders two creates that pass the memory gate at once.
- Accounts: hashing, roles of routes, a stamp that cannot be read twice in a row, which
  does what a failed read does (section 6, 57). Console: cookies of another site, printing a
  service file. Logs: wording, redaction, reading the audit log back.
- Seeds: drawing a plan from a profile, threads, reactions, users, scale seeding.
- Owners: `default_repro`, the policy for privileged fields of a create.
- Import: reading and filtering a dump, and a dump that sets the limiter itself,
  which closes no note.

Calls to docker, kubectl, helm, Rocket.Chat and mongosh appear as choices among their
outcomes.
