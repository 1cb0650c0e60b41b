# TLA+ models of ekilied

ekilied is the host agent of a deployment platform: a daemon that receives jobs from a control
plane over a WebSocket and, as a fallback, over an HTTP poll, runs them on the host, streams
their logs back and reports how they ended. This directory holds TLA+ models of its concurrent
core, the TLC configurations that check them on small instances, and TLAPS proofs that every safety
invariant those configurations check holds for every instance.

    tlc -workers 2 -config MCJobEngine.cfg MCJobEngine      model checking (one line per cfg)
    tlapm JobEngineProofs.tla                               the proofs (and the other *Proofs)

Paths below are relative to the repository; `jobengine/` and `agent/` are under `src/internals/`.

## 1. The system

| Component | State it keeps | Operations | Model |
|---|---|---|---|
| Job engine, `jobengine/jobengine.go` | `dispatched` and `active` (maps keyed by job), `semaphore`, `DeployLock.active` | `HandleJobTrigger`, `HandleJobTriggerFull`, `Execute`, deferred clean-up | `JobEngine` |
| Job channels, `agent/agent.go`, `agent/websocket.go` | the snapshot the poll loop walks | `httpPollLoop`, the dispatch loop in `connectOnce`, claim, complete, list | `JobEngine` |
| Log batcher, `LogBatcher` in `jobengine.go` | `lines`, `seq`, its context | `Write`, `flushNow`, `flushLoop`, `heartbeatLoop`, `Close` | `LogBatcher` |
| WebSocket connection, `agent/websocket.go` | the link, the connection's context, the wait group of its goroutines | `Connect`, `connectOnce`, pumps, dispatch loop | `Connection` |
| Docker log streams, `agent/logstream.go` | the registry from stream id to cancel function | `startLogStream`, `stop`, `stopAll`, `remove` | `Connection` |
| Self-update and restart, `jobengine/self_update.go`, `restart.go`, `reexec_unix.go`, `agent.go`, `main.go` | `updateInProgress`; the binary and its `.bak` on disk | `CheckForUpdate`, `SelfUpdate`, `RestartAgent`, `finishSelfUpdate`, `--update` | `SelfUpdate` |
| Registration and session, `agent.go`, `main.go`, `config.go`, `models/`, `pkg/database/` | agent id and session token in memory, in the YAML file and in SQLite; the one-time token at the control plane | `runSetup`, `register`, `saveIdentity`, `SaveSession`, resume, rotation | `Session` |
| Egress queues and heartbeats, `websocket.go`, `heartbeat.go` | two bounded queues shared by successive connections | enqueue, drop, pump, HTTP fallback | `Egress` |
| Configuration, `config/config.go`, `main.go` | the effective configuration | layering of defaults, file, flags, environment; `SaveSession`, `MarshalSetup` | `Config` |
| Actions on shared host files, `ssh.go`, `nginx.go`, `supervisor.go`, `env.go`, `sites.go`, `deploy.go` | checkouts, `.env`, vhosts, supervisor programs, `authorized_keys` | the job actions | `HostJobs` |
| Parameter validation, `validate.go` | none | `validateActionParams` | assumption on requests in `HostJobs` |
| Installers, diagnostics, DTOs | none of the agent's own | external commands | not modelled |

How they interact. A WebSocket message or a poll hit starts a goroutine in the job engine. That
goroutine talks to the control plane (claim, logs, complete) over HTTP, independently of the
connection that triggered it, and owns one log batcher. The connection owns its pumps and its
stream workers and must get rid of them before the next one is dialled. A self-update, started by
the update loop, by a job or by hand, ends in a restart that kills all of the above; SIGTERM
cancels the root context, from which every other context derives, and waits for the loops, but
not for job goroutines.

What makes each part correct, and what makes that hard:

- *Job engine*: a job runs at most once per offer although it arrives over two channels, twice,
  late, or again after a lost answer; two deploys of a site never overlap; no path (409, timeout,
  full semaphore, busy site, panic, cancellation) forgets its clean-up; an accepted job is
  answered. Hard because the clean-up is four deferred calls in a fixed order, and another
  goroutine for the same job may come in between any two of them.
- *Log batcher*: each line is sent once and in sequence although three goroutines take batches
  from one buffer and post them outside its mutex; the end of the log arrives; the loops end.
- *Connection*: nothing of a connection survives it; a drop and a shutdown get through whatever
  the dispatch loop is doing; the registry of streams agrees with the workers that run.
- *Self-update*: the service's path keeps a binary, an update never goes backwards, failures are
  reported, the newest release ends up running. Hard because the swap is three file operations,
  each of which may fail, the running file moves with the first rename, and the updater is killed
  by what it asks for.
- *Session*: a registration token is used once, and whatever crash follows, the agent that comes
  up again either has the session or can be given one. Hard because the session is in memory, in a
  file two programs write, and in a database whose path depends on four layers of configuration.
- *Egress*: two bounded queues outlive every connection; a message is sent once, in order, and a
  connection that breaks takes no more with it than what its pump holds.
- *Host jobs*: supervisord and nginx are told about whole directories by jobs that know of one file
  each; a deploy's script runs on the commit that was checked out for it; nothing locks
  `authorized_keys`. Hard because jobs of one site and of others overlap between any two file
  operations, and only `deploy` and `site_sync` exclude each other.

## 2. Modules

| Module | Role |
|---|---|
| `JobContract` | abstract specification: what the job engine promises the control plane |
| `JobEngine` | the engine, its two channels, the external control plane; refines `JobContract` |
| `JobEngineProofs` | theorems about `JobEngine` |
| `LogBatcher` | the batcher of one job and its three goroutines |
| `Connection` | the connect loop, the goroutines of a connection, the log streams |
| `SelfUpdate` | three updaters, the files they swap, the agent's restarts |
| `Config` | operators: the layers of the configuration, and the two ways to write the file |
| `Session` | boot, registration, the file, the database, `--setup`, crashes |
| `Egress` | the two queues, who fills them, the pump that empties them, over several connections |
| `HostJobs` | what concurrent jobs do to checkouts, `.env`, nginx, supervisor and `authorized_keys` |
| `HostJobsProofs` | theorems about the checkouts of `HostJobs` |
| `HostFilesProofs` | theorems about what `HostJobs` leaves behind: services, keys, types |
| `LogBatcherProofs`, `ConnectionProofs`, `SelfUpdateProofs`, `SessionProofs`, `EgressProofs` | theorems about the module each extends |
| `MC*` | constants of the checked instances; the bounds are in the `.cfg` files |

Each module but `JobContract` has a few *variants*: copies of an action with one plausible
bug (a forgotten clean-up, a check left out, a swapped order). No specification uses them. Each
property of section 4 fails when one of them takes the place of the action it is a copy of, which
is how we know that the property can fail.

### JobEngine

A task is a goroutine; an idle task is one that does not exist. `pc` names the next access to
shared state, `job` the job it handles:

| `pc` | what comes next | in `jobengine.go` |
|---|---|---|
| `mark` | `markDispatched`: `LoadOrStore` | `MarkDispatched`, `SkipDuplicate` |
| `claim` | `ClaimJob` under `claimTimeout` | `ClaimGranted`, `ClaimConflict`, `ClaimFails` |
| `dedup` | `active.LoadOrStore` in `Execute` | `Dedup` |
| `slot` | the select on the semaphore and `ctx.Done()` | `AcquireSlot`, `CancelWait` |
| `work` | validation, then the action | `WorkReturns`, `TakeSiteLock`, `SiteBusy`, `WorkPanics` |
| `script` | the action, holding the deploy lock of its site | `ScriptReturns`, `WorkPanics` |
| `report` | `CompleteJob` | `Report`, `ReportLost` |
| `unslot`, `inactivate`, `unmark` | the deferred calls, in the order they run | `ReleaseSlot`, `DeleteActive`, `ClearDispatched` |

`HandleJobTriggerFull` differs from `HandleJobTrigger` only in where the action and parameters
come from, so both are this chain. What an action does to the host is abstracted: it returns,
panics, hangs, or takes the deploy lock first. Duplicates are not special: `WSTrigger` may name
any job at any time, so a trigger may be late, repeated, or for a job that is finished.

The control plane (`cp`) is external and modelled from what the requests assume of it: a claim is
atomic and its answer is about the claimed job (`HandleJobTrigger` executes under the id in the
answer), one for a job that is not pending gets a 409, the list shows pending jobs, and a job that
was accepted and not answered may be offered again (`Requeue`). A claim the agent has given up on
stays in `late` and may still arrive: that is the case the code's timeout makes possible.

`credit` is a history variable: offers of the control plane not yet used by a start, here or
elsewhere. `faulted` records the jobs that a lost message, or the end of the process, has hit;
"no accepted job is dropped" is claimed of the others.

`Stop` is SIGTERM: it cancels the root context, and from then on requests fail (`MayFail`) while
goroutines go on until `Exit`, which waits for none of them. `Crash` and `Exit` both end in
`Reboot`, after which nothing in memory is left.

### LogBatcher

A line is its sequence number. Taking a batch (under the mutex) and posting it (outside) are
separate steps, so a post of the flush loop and one of the job can be in flight together. The
job's own pc covers explicit flushes between writes, the flush before the report, and the three
stages of `Close`: final flush (detached context), wait for its post, `cancel`. Where a line is -
in the buffer, in a request, received, lost to the network, aborted by a cancelled context - is
recorded so that properties can speak about all lines ever numbered.

### Connection

The `Connect` goroutine is `main`. It runs the dispatch loop itself, which is why a container
listing that does not return (`main = "listing"`) holds up everything after it. Pumps carry the
number of the connection they belong to. A worker goes from `follow` (reading Docker's stream)
over `ended` (about to run its deferred `remove`) to `done`; `reg` is the registry. `CtxDone(e)`
is the connection's context, a child of the agent's. Docker is external: a listing need not
answer, a followed log ends when the container stops or its context is cancelled. Message
contents are left out, so the dispatch loop may receive a listing request, a start or a stop at
any time, also after the link dropped (`readCh` buffers).

### SelfUpdate

Path n is the service's path with n times `.bak`: `SelfUpdate` renames whatever `os.Executable`
answers. On Linux (go.mod asks for Go 1.25) `os.Executable` reads the link `/proc/self/exe` at
each call, and the link follows the running file through renames; `exe` and `linked` model that.
After a swap the running agent's own file is therefore the `.bak`, and so is what a second swap
by the same process, or a re-exec, refers to. This is the one external fact the module's results
depend on most.

The update loop and a `self_update` job share the agent's guard; `ekilied --update` is another
process with its own. Download, checksum and smoke test are one step that succeeds or fails; the
swap is one action per file operation (`RemoveBackup`, `Backup`, `Install`, `Restore`), and each of
them may fail, for any cause (`RemoveBackup` again, `BackupFails`, `InstallFails`,
`RestoreFails`). The code goes on after a removal that failed, since the rename after it replaces
what is there, and it does not look at the error of the restoring rename. `halved` records that a
swap was left half done, by that failure or because the agent ended between the renames. With
systemd, `QueueRestart` is followed by `Terminate` (SIGTERM) and `Exit` at any later time; without
it, `Reexec`. `systemd` is chosen in `Init`, as `detectSystemd` answers the same at each call.

### Config and Session

A source of the configuration (file, command line, environment) is a function from keys to values
or `Unset`; each layer of `Load` is an operator on one key, since the only keys that depend on
another are the database path and the WebSocket URL. `Session` is two processes. The daemon's `pc`
names the point in `main`: `down`, `loaded` (after `Load` and the database), `ready` (after
`restoreSessionFromDB`), `answered` (the control plane has answered), `identified` (identity row
saved), `saved` (`SaveSession` done), `running`. The other is `ekilied --setup`, which registers
with the same `Register`, empties the file (`SetupTruncate`), writes it anew with whatever session
it was given (`SetupWrite`), and never writes a row to the database; it may end before any of this
(`SetupEnds`). A daemon may load the file in between, or rename another over it, which leaves setup
with a file that has no name any more (`unlinked`). Either registration may be answered with a 201
that has no session: the daemon's is stopped by `SaveSession`, the setup's is not. `emptied` records
that a setup has left the file without a session, `replaced` that a rotation or a setup has replaced
the one the daemon loaded or saved. A session is the number of its
issue; the control plane takes a token once. A crash, a lost answer or a failed write ends the
daemon at any point, and it starts again. The tickers panic on an interval that is not positive
(`TickersStart`), which is one way for a configuration to end the daemon.

### Egress

A message is its place in the order of entry into the queues, and its priority. The pump's select,
its inner drain loop and its writes are steps of their own, so a message can be in the pump's hand
when the link breaks. `Connection` has the registry and the wait group in full; here one log
stream stands for all, and a connection is up, broken or being torn down. The order of teardown is
the same: `Cancel`, then everything has ended, then `TornDown` (`setConn(nil)`), which is why a
heartbeat can enter the queue while the link is already dead.

### HostJobs

A worker is a goroutine inside a job's action; `job` is its request, the file operation or command
it comes to next, and what it has read so far. Requests are a constant, so an instance chooses
which actions meet; they are assumed to be what `validateActionParams` lets through
(`RequestsAssumption`), since `Execute` calls it before any action. Commands are modelled by their effect on files: `supervisorctl update` makes
supervisord run what the directory has, `nginx -t` looks at every linked vhost, `reload` takes
them. Git is modelled as far as `cloneRepo` depends on it: a clone with `--depth=1` has one branch
and refuses a directory that is not empty; a fetch moves `origin/<branch>` only for that branch;
`origin/HEAD` stays at the clone's commit. A site's name and a daemon's are sequences of the parts
between hyphens, since `<site>-<daemon>` and the glob `<site>-*` are about nothing else. `torn`,
`wanted` and `tangled` are history variables: which service was not told of the last change
because a job failed or died, which keys the jobs left, and whether key jobs overlapped in a way
that may lose one.

## 3. Fairness

- *JobEngine*: weak fairness of each goroutine's own steps, of the poll loop and of the end of a
  cancelled process; strong fairness of `AcquireSlot`, since a Go channel serves blocked senders
  in order. None for the end of an action: deploy scripts and `command` jobs run without a
  timeout. Properties that need actions to end say so (`ActionsEnd`).
- *LogBatcher*: a post ends (the HTTP client has a timeout of 30 s), the loops run. Strong
  fairness of `LoopStops`: a select between a ready ticker and a closed `Done` channel picks
  uniformly, so it cannot choose the ticker for ever.
- *Connection*: the goroutines run; a read on a dead link fails in the end; strong fairness of
  `LoopEnds`, since the channel the dispatch loop drains is bounded and closed. None for Docker,
  for the egress pump noticing a dead link (it may have nothing to write), or for messages.
- *SelfUpdate*: the ticker of the loop, an update that has begun, the report, and systemd carrying
  out what it queued. None for releases, jobs, or the manual flag.
- *Session*: the service manager starts the daemon again (`Restart=always` in the unit), a started
  process runs on, a registration request ends within the client's timeout, one way or the other.
  None for a request's success, for an operator who runs setup, or for rotations.
- *Egress*: the pump, the forwarder and a heartbeat that has begun run on; the client dials until
  it has a connection; a cancelled follow returns. Strong fairness of `TakeHigh` and `TakeLow`,
  since a Go select among ready channels picks at random. None for messages.
- *HostJobs*: none; it states safety only. Scripts and commands run without a timeout.

## 4. Runs

| cfg | Instance | States | Shows |
|---|---|---|---|
| `MCJobEngine` | 2 jobs on one site, 2 goroutines, 2 slots, 2 WebSocket triggers, 1 requeue, 1 stop or crash, 1 job hit by lost messages; symmetric | 414 000 | all safety properties, and that `JobEngine` implements `JobContract` |
| `MCJobEngineLive` | 2 jobs, 1 slot, 1 trigger, 1 faulted job, no restart | 37 000 | `MarksAreReturned`, `PendingIsReached`, `NoSlotStarvation` |
| `MCLogBatcher` | 3 lines, 1 heartbeat, lossy network | 83 000 | lines, numbering, flush before report, end of the loops |
| `MCConnection` | 2 connections, 2 stream ids, 2 workers, 3 starts | 69 000 | registry, teardown, drop and shutdown |
| `MCSelfUpdate` | 3 releases, 3 `.bak` levels, 2 events (jobs, manual runs, crashes, failures of any operation) | 183 000 | guard, swap, restart, and that updates arrive |
| `MCSession` | 5 files, 5 command lines, 4 environments, 2 tokens, 2 crashes, 1 setup, 1 rotation | 76 000 | layers in order, sessions survive crashes and are resumed |
| `MCEgress` | queues of 2, 4 messages, 2 connections | 35 000 | order, loss, and that what is queued gets out |
| `MCHostJobs` | 2 workers, 3 jobs out of 14 requests, 2 sites, 1 push, 1 crash; symmetric | 810 000 | services match files, scripts run their checkout, keys are kept |
| `MCJobEngineClaim`, `MCSelfUpdateReexec`, `MCHostJobsDelete`, `MCHostJobsDefault` | smaller | | a statement of the documentation that the code does not keep: see section 5 |

The safety properties:

- `JobEngine`: `OneOwnerPerJob`, `NothingLeaks` (each mark, entry, slot and lock has a live
  holder, and the other way round), `DedupNeverDrops` (the duplicate branch of `Execute`, which
  would leak the mark, is dead code), `AtMostOncePerOffer`, `DeployExclusive`,
  `AcceptedIsHandled`.
- `LogBatcher`: `EveryLineOnce`, `ReportAfterFlush`.
- `Connection`: `NothingSurvives`, `EntriesAreLive`, `FollowedIsTracked` (a live stream can be stopped
  by its id).
- `SelfUpdate`: `GuardIsHonest`, `AgentSwapsAlone`, `ServiceKeepsBinary`, `NoSilentSuccess`,
  `NoDowngrade`.
- `Session`: `LayersInOrder` (a reference definition of the precedence against `Load`),
  `SurvivesCrash` (at every moment the next start would find a session, and the one that is in
  use unless a rotation or a setup has replaced it). Liveness: `StoredIsResumed`.
- `Egress`: `OnlyHighOvertakes`, `LossIsBounded`. Liveness: `QueuedGetsOut`.
- `HostJobs`: `ServicesMatchFiles`, `ScriptRunsCheckout`, `KeysSettle`.

Where a property has a proviso, the proviso is what the code cannot keep: `KeysSettle` leaves out
removals that overlap (`removeSSHKey` reads, filters and rewrites without a lock),
`ScriptRunsCheckout` leaves out a `site_delete` in the middle of a deploy (it takes no lock),
`ServicesMatchFiles` a last change that failed (a vhost that nginx refuses stays linked and makes
every later site's job fail as well, until it is replaced), `SurvivesCrash` and `StoredIsResumed` a
setup that has emptied the file and ended, or was answered without a session, `StoredIsResumed` also
an interval that a ticker refuses, `ServiceKeepsBinary` a swap left half done (the end of the agent
between the two renames, or a restoring rename that fails), `FollowedIsTracked` a stream whose id was also that
of a stream that was stopped and has ended by now. `NoDowngrade`, `UpdatesArrive` and the second half
of `ServiceKeepsBinary` (who is between its renames has a backup to restore) leave out
`ekilied --update`, which another process runs; `NoSilentSuccess` and `UpdatesArrive` are about
systemd. Each proviso is needed: TLC refutes the property without it. PROJECT.json lists what they
leave out as hazards that no property covers.

Why the bounds are enough. (For safety the proofs of section 6 remove them; what remains is that
the liveness properties and the violations see the interesting cases.) *JobEngine*: every conflict in the engine is between two goroutines,
over a job, a slot or a site. Two goroutines that may pick the same or different jobs on one site
reach all of them, and one fault, requeue and crash each can fall between any two steps; two
triggers plus the poll loop give a job three deliveries. *LogBatcher*: three lines put one batch in each of the two requests and one in
the buffer. *Connection*: a second connection is what a leftover of the first would disturb; two
ids with two workers is the least with reuse of an id and a second stream; the third start is the
rejected one. *SelfUpdate*: with a third release an updater can hold one that is no longer the
newest; three `.bak` levels let a process swap twice after a re-exec; two events let a failure
meet a job, or a crash meet a failure. `Fetched` is disabled at the last path: a longer chain
repeats what the shorter ones do, and with two events no updater gets there and has to wait.
*Session*: each layer disagrees with the one before it about a number, a zero, a token, the
database path; two crashes leave the daemon, started again, to die once more. *Egress*: four messages overflow a queue of two with one in the pump, and the second
connection gets what the first left. *HostJobs*: two jobs overlap between any two operations and
the third finds what they left; one site's name begins with the other's; the push and the crash
fall anywhere. All but `JobEngine` and `LogBatcher` run with `CHECK_DEADLOCK FALSE`: a stopped
agent, or one with nothing left to do within the bounds, is a legitimate end. `JobEngine` and
`LogBatcher` check deadlock; the only state they may rest in is named by a stuttering action
(`PollEmpty`: the loop gets an empty answer and no goroutine is left; `Over`: the batcher is
closed and its loops have ended).

The symmetry set of `MCJobEngine` permutes goroutines and jobs, which nothing tells apart there
(both jobs have the same site); the liveness run uses no symmetry.

## 5. Where code and documentation disagree

Each of these is a run whose cfg checks one property that quotes the repository; TLC finds it
violated.

| cfg, property | Statement | What the code does |
|---|---|---|
| `MCJobEngineClaim`, `PollWillRedeliver` | "not executing; poll will redeliver", `jobengine.go:337` | a claim that took effect but whose answer was lost leaves the job accepted; the poll lists pending jobs only |
| `MCSelfUpdateReexec`, `ReexecRunsNewBinary` | "re-executes the new binary in place", `README.md:100` | the running file is the `.bak` by then, and `os.Executable` says so: the old version runs again |
| `MCHostJobsDelete`, `DeleteKeepsOthers` | "all supervisor programs for the site", `README.md:70` | the glob `shop-*.conf` also finds the programs of the site `shop-api` |
| `MCHostJobsDefault`, `DefaultIsCheckedOut` | "both fresh-clone and already-cloned paths behave consistently (checkout the remote's default branch)", `deploy.go:55-56` | `git fetch origin HEAD` moves only `FETCH_HEAD`, so `origin/HEAD` stays at the first clone's commit; the deploy succeeds on stale code |

Others have no run of their own. Where a model has them, its properties state what does hold.

- *Trailing lines* (`docs/walkthrough.md:396-397`: "never lost"): `Close` cancels the context of a
  periodic post that is in flight, with its lines. `EveryLineOnce` counts such lines as `aborted`.
- *Stream limit* (`README.md:56`): the worker of a stopped stream removes the entry of a new stream
  with the same id, which is then neither counted nor to be stopped by its id. `FollowedIsTracked`
  excepts the new stream of such an id, and shows that there is no other way to lose an entry.
- *Listings* "are cancelled when the connection drops" (`docs/walkthrough.md:213-214`): the
  cancellation comes after the dispatch loop, which waits for the listing. `DropEndsConnection`
  needs Docker to answer.
- *Manual update* (`README.md:98`): the guard is a variable of the process, and `--update` is
  another one. `AgentSwapsAlone` is about the agent's own updaters.
- *A restore that fails* (`self_update.go:204`): its error is ignored. The service's path is empty
  then, the agent runs from `.bak`, its next update swaps the backup (`.bak.bak`) and leaves the
  service's path as it is, and the restart it asks for finds no binary.
- *Setup* (`README.md:61`: "writes `agent_id` and `session_token`"): `runSetup` does not look at the
  session it was given (`main.go:311-333`), as `SaveSession` does. Answered with a 201 without one it
  writes an `agent.yml` without one over a good one and prints "setup complete". It also truncates
  the file before it writes, and a daemon that starts in between has no session from it.
- *Report before stop* (`README.md:100`): under systemd the restart is queued first, and SIGTERM
  may come before the report.
- *First deploy after `site_create`*: `site_create` with an environment leaves `.env` in
  `current/`, and so do `write_env` and `command`; `git clone` refuses a directory that is not
  empty, so the first deploy or sync of such a site fails, every time (`Clone`).
- *Commit and branch*: a fresh clone ignores `commit_sha`; a deploy of another branch than the one
  that was cloned fails, since a clone with `--depth=1` tracks that one only (`Checkout`).
- *.env*: a deploy that finds none copies `env.example` over one that a `write_env` has written
  meanwhile (`StatEnv`, `BootstrapEnv`).
- *Daemon names*: the daemon `api-web` of `shop` and the daemon `web` of `shop-api` are the same
  program, and the second `daemon_create` replaces the first.
- *Keys*: `ssh_key_add` appends to whatever is there; to a file without a newline at its end it
  glues the key to the last one.
- *Configuration*: `--update-interval` has a default, so the file's value never counts; a flag of
  zero is "not given" and a variable of zero means the default; `--data-dir` puts the database into
  `ekilied.db`, `EKILIED_DATA_DIR` into `agent.db`; the poll interval and WebSocket URL of a
  registration are used until the next start only; `--setup` writes the session to the file but
  not to the database, and takes the file's other keys away.

## 6. Proofs

Every safety invariant of section 4, and the refinement of `JobContract`, is a theorem for all
values of the constants. The pattern is the same everywhere: `IInv` is the conjunction of the
type invariant, the properties and the strengthenings named below; `InitIInv` shows that it holds
at first, one lemma per conjunct that a step keeps it (a step per action that can disturb it), and
each theorem is a consequence of `IInv`. The assumptions on constants are the named `ASSUME`s of
the modules, which TLC evaluates in every run; but for those listed here they only say that bounds
are natural numbers and that the value for "none" is not an ordinary one.

### Job engine

`JobEngineProofs` proves, for all `Jobs`, `Sites`, `SiteOf`, finite `Tasks` and all bounds:

| Theorem | Statement |
|---|---|
| `TypeCorrect` | `Spec => []TypeOK` |
| `OwnerIsUnique` | `Spec => []OneOwnerPerJob` |
| `BooksAreExact` | `Spec => []NothingLeaks` |
| `DedupIsRedundant` | `Spec => []DedupNeverDrops` |
| `DeploysExclude` | `Spec => []DeployExclusive` |
| `StartsAreEntitled` | `Spec => []AtMostOncePerOffer` |
| `AcceptedJobsAreKept` | `Spec => []AcceptedIsHandled` |
| `ImplementsContract` | `Spec => Contract!Spec` |

Assumptions: `NoJob` is not a job, `NoSite` is not a site, `SiteOf` maps jobs to sites or
`NoSite`, `Tasks` is finite (for the cardinality behind the semaphore), `MaxConcurrent` is a
positive natural number and the bounds are natural numbers. TLC evaluates them in every run.

The argument. None of the properties is inductive alone. `OneOwnerPerJob` holds after
`MarkDispatched` only if the mark is set whenever somebody is between `mark` and `unmark`
(`Marks`: `dispatched = JobOf(Marked)`). Given one owner, the other books are the owner's alone:
`Actives` (`active = JobOf(Activated)`), from which the duplicate branch is dead, `SiteBook`
(the site locks are the sites of tasks at `script`, one each), and `SlotCount` (the semaphore
counts its holders; this is where finiteness of `Tasks` is used). `CreditCovers` says where the
unused offers are: one for a job that is pending, one for a job claimed and not yet started; it
needs that both are never the same offer, and gives `AtMostOncePerOffer`. `Handled` adds to
`AcceptedIsHandled` that a claim in `late` belongs to a faulted job. `IInv` is the conjunction;
`Inductive` puts together one lemma per conjunct, each with a step per action that disturbs it,
and `StepKinds` disposes of the actions that touch no book.

Refinement. `running` is the set of jobs whose goroutine holds a slot, `deploying` the set of
those at `script`. `AcquireSlot` is `Start` (the contract's bound on running jobs follows from
`SlotCount` and a surjection from holders to their jobs; its credit from `CreditCovers`),
`TakeSiteLock` and `ScriptReturns` are `EnterDeploy` and `LeaveDeploy`, `ReleaseSlot` is `Finish`,
`Requeue` and `OtherWorkerClaims` are `Offer` and `GoesElsewhere`, `Exit` and `Crash` are `Abort`;
a panic inside the locked section leaves it; all other steps stutter.

### Host jobs

`HostJobsProofs` proves, for all `Workers`, `Sites`, `Branches`, `Requests` and all bounds:

| Theorem | Statement |
|---|---|
| `DeploysAndSyncsExclude` | `Spec => []LockExcludes`: two deploys or syncs of one site never overlap |
| `ScriptsRunTheirCheckout` | `Spec => []ScriptRunsCheckout` |

Assumptions: `Default` and `Moving` are branches, `None` is neither a branch nor a site, requests
are valid (`validateActionParams`), and a deploy or sync names a branch or `None`. The argument: `ScriptRunsCheckout` is not
inductive, since the commit that a checkout takes was put there by the fetch before. `DeployKept`
adds that at "checkout" the tracked commit of the branch is fresh, and that a deploy's `since` is no
later than the tip of its branch, which pushes only move on. Both speak about a checkout that other
jobs can reach; `Locks` (a holder's site is locked, and has one holder) says that no other deploy or
sync does, and `OthersStandAside` that every other job leaves `.git` as it is or takes it away
(`site_delete`), which the property allows for. `OthersKept` is where the two meet. `IInv` is the
conjunction with the shapes of the records.

`HostFilesProofs` starts from that invariant and proves, for any sites, programs, keys and
goroutines as well:

| Theorem | Statement |
|---|---|
| `TypeCorrect` | `Spec => []TypeOK` |
| `ServicesFollowFiles` | `Spec => []ServicesMatchFiles` |
| `KeysAreSettled` | `Spec => []KeysSettle` |

Further assumptions: `Workers` is finite (a set of locks has as many elements as it has holders),
the names of sites and daemons are sequences of at least one part (which is what the patterns of
`validate.go` demand), and the old `authorized_keys` is a sequence of lines. The argument:
`ServicesMatchFiles` and `KeysSettle` say something about the moment when no job is at work, so a
step that is not the last of its job could break them unnoticed. `SupervisorDue` and `NginxDue`
carry the debt: while a service is behind its files, and no job failed or died, some job is still
on its way to the `update` or the `reload`. For `NginxDue` that needs `Carried`: the job that is
about to link or test has written the vhost. `KeysInHand` does the same for keys: as long as
removals were alone, `wanted` is what the file has, but between truncation and write, when it is
what that one job has read. What `Without` (the loop of `removeSSHKey`) returns is proved by the
least index at which it would go wrong.

### Log batcher

`LogBatcherProofs`, for any number of lines and heartbeats:

| Theorem | Statement |
|---|---|
| `TypeCorrect` | `Spec => []TypeOK` |
| `LinesKept` | `Spec => []EveryLineOnce` |
| `FlushedFirst` | `Spec => []ReportAfterFlush` |

`EveryLineOnce` counts the places of each line, which no step can be shown to keep without saying
which places there are. `EveryLineHasPlace` has it that six sets (received, the request of the job,
that of the loop, the buffer, and the two kinds of lost lines) share out the numbers given, and two
lemmas treat every step as one that moves all lines of a place to another, or adds a number to one.
A place must be empty before it is filled: `PostersPost` says so of the requests. `BatchesDiffer`
and `BatchesRun` add that received batches share no line and are consecutive, the latter because
the buffer ends with the newest number. `FlushedBeforeReport` is `ReportAfterFlush` from the flush
on, with heartbeat lines, which come when they like, left out.

### Connection

`ConnectionProofs`, for any number of stream ids, workers and connections:

| Theorem | Statement |
|---|---|
| `TypeCorrect` | `Spec => []TypeOK` |
| `ConnectOnceCleansUp` | `Spec => []NothingSurvives` |
| `RegistryIsLive` | `Spec => []EntriesAreLive` |
| `FollowedCanBeStopped` | `Spec => []FollowedIsTracked` |

The end of `connectOnce` waits for the goroutines of its own connection. That this is a wait for
all of them is `OneConnection`: whatever is alive carries the current number, so nothing of an
older one can be left. `StartedHaveIds` is what lets `EntriesAreLive` survive the deferred `remove`,
which deletes by stream id: the entry it may take belongs to another worker with that id, or to
itself. For `FollowedIsTracked` the case to look at is a worker that ends uncancelled with another
one's id: having lost its own entry, it has a stopped and ended stream of that id behind it already,
which stays so (`StepLeft`).

### Egress

`EgressProofs`, for queues of any capacity and any number of messages and connections:

| Theorem | Statement |
|---|---|
| `TypeCorrect` | `Spec => []TypeOK` |
| `HighOvertakesOnly` | `Spec => []OnlyHighOvertakes` |
| `LossBounded` | `Spec => []LossIsBounded` |

`OnlyHighOvertakes` looks at what was written; that the next write keeps it depends on what is
still to be written. `InOrder` says that each queue, with the message the pump took from it, is in
order of entry; `SentInOrder` and `LostInOrder` that what was written or lost came before it, and
that the pump turns to a low message only when every high one in the queue is newer. `LinkAndPump`
bounds the loss: a pump fails at most once, and each connection has one. `Balanced` is the
bookkeeping of all messages, for which a lost one must not be in the set already.

### Self-update

`SelfUpdateProofs`, for any number of releases, paths and events:

| Theorem | Statement |
|---|---|
| `TypeCorrect` | `Spec => []TypeOK` |
| `GuardStaysHonest` | `Spec => []GuardIsHonest` |
| `SwapsExclusive` | `Spec => []AgentSwapsAlone` |
| `ServiceHasBinary` | `Spec => []ServiceKeepsBinary` |
| `NeverDowngrades` | `Spec => []NoDowngrade` |
| `FailuresAreReported` | `Spec => []NoSilentSuccess` |

`GuardIsHonest` is not enough for `AgentSwapsAlone`, since a guard that is set does not say how many
have it: `OneSwaps` does. `AgentKnowsItsFile` ties three things together while nobody runs
`--update`: the running agent's file holds the version it runs, who swaps took its path from there
(and moved it, once past the backup), and the release in hand is newer than that version. From it
`NoDowngrade` follows, although the release may be outdated by then, and so does the backup that
`ServiceKeepsBinary` promises, which is the file the agent runs. The other half of
`ServiceKeepsBinary` is inductive as `ServiceEmptied`, whoever swaps: only the updater whose own path
is the service's empties it, it leaves it full unless the restore fails, and `halved` stays.
`JobIsFrank` gives the states of a job from which success can still be reported.

### Session

`SessionProofs`, for any files, command lines, environments and tokens:

| Theorem | Statement |
|---|---|
| `TypeCorrect` | `Spec => []TypeOK` |
| `SessionsSurvive` | `Spec => []SurvivesCrash` |
| `LaterSourcesWin` | `Spec => []LayersInOrder` |
| `EndpointOnce` | a derived WebSocket URL ends in the agents' endpoint, and deriving from it again returns it |

Assumptions: a source is a function on the configuration's keys with a session number and a token,
or `Unset`, under those two (`SourcesAssumption`); the API URLs of command line, environment and
setup are ones a WebSocket URL can be derived from (`URLsAssumption`): with one that is not, a
start succeeds or fails with the `ws_url` that happens to be in `agent.yml`, and a setup that
replaces the file can make the next start fail. `SurvivesCrash` is about a daemon that runs;
`Resumable` follows its session through the boot: at `loaded` only the sources can have it, from
`ready` on they or the database, under the path they name now, unless a setup has emptied the file.
`SameSession` adds which session that is: who registers has none in its command line or environment,
so what it saves is what the next start takes, until something replaces it. The path depends on the file, which
`--setup` and `SaveSession` replace meanwhile; `PathsKnown` and lemmas about `Layered` (which keys a
change of the file can reach) show that it stays the same or that a session comes with the file.
`EndpointOnce` is about sequences of path segments of any length, over any set of segments that has
the endpoint's own.

### Model-checked only

The liveness properties: `MarksAreReturned`, `PendingIsReached`, `NoSlotStarvation`, `LoopsEnd`,
`DropEndsConnection`, `StopEndsConnect`, `UpdatesArrive`, `StoredIsResumed`, `QueuedGetsOut`.
Fairness and ENABLED are outside what the prover handles. The four statements of section 5 are
refuted by TLC. The library's induction theorems cannot be used, since they are stated for a
predicate parameter; where a proof needs induction over a sequence it picks the least
counterexample (`WFMin` of the well-founded relations).

## 7. Not modelled

- *Installers, diagnostics, DTOs*: external commands and data. The engine sees of them only that an
  action returns, fails, panics or hangs.
- *The patterns of names and the containment of paths* (`validate.go`): string predicates. Which
  action must name what is the assumption on requests in `HostJobs`.
- *Actions that change nothing of the agent's or run one command*: `read_env`,
  `read_nginx_config`, `daemon_restart`, `service_restart`, `ssl_issue`.
- *What deploy scripts and `command` jobs do*: anything at all, also to the checkout. The
  properties of `HostJobs` are about what the agent itself does to the host.
- *Disks that refuse an operation*, but for the renames and the removal of a self-update, and for the
  session's files, where a failed write is fatal and counts as a crash. A write of setup that
  fails leaves the empty file, not a part of it.
- *`SaveSession` beside a setup*: it reads `agent.yml`, and renames its own over it, in one step.
- *Messages beyond the 64 that `readCh` holds*: they are dropped. For jobs that is a trigger that
  does not come, which `JobEngine` has, since the poll loop does not need one (`PendingIsReached`).
- *YAML and wire syntax*, log lines' wording and truncation, metrics.
- *Time*: durations, backoff and tickers are nondeterministic order.
- *Self-update*: permissions of the new file, the comparison of version strings, and an operator
  stopping the service (a crash is the stronger case).

## 8. Plan

1. An abstract log (a sequence of lines that only grows, and a set that was lost) refined by
   `LogBatcher`; `Egress` composed with `Connection` over the egress pump.
2. `compareVersions` as an operator checked against a reference order over bounded inputs.
3. Proofs: that `LogBatcher` implements the abstract log of item 1, step by step; action
   properties of the swap (`SelfUpdate`) and of the two writers of `agent.yml` (`Session`).
