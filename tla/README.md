# Verification of dsh-remote-control

dsh-remote-control lets an agent on a control machine open projects, create
and delete schedules and prepare plugins, skills and runtimes on a remote
machine, over SSH. These modules model its control logic in TLA+, check it with
TLC on small instances and prove the central invariants with TLAPS for all
instances. Paths below are relative to the repository (`src/`).

## 1. Inventory

### The remote side

| Part | State it keeps | Operations |
|---|---|---|
| Remote Host daemon, `lib/remote-host.mjs` | the in-flight request (a promise chain serialises them), who said hello, the gateway adapter, the ticket bindings | hello, project.open, schedule.create, schedule.delete, gateway.bind, operation.get / list, state.reconcile, runtime.auth.* |
| State store, `lib/state-store.mjs` | `host-state.json` (revision, operations, gateway), its copy in memory, a lock file | open, update (write to a temporary file, fsync, rename, fsync of the directory), close |
| Session Control port, `lib/session-control-port.mjs` | one socket per call | openProject, createSchedule, deleteSchedule, the auth confirmations |
| Stdio bridge, `bin/dsh-remote-host.mjs` | a daemon of its own per SSH session, frame ids seen | reads frames, answers them, shuts down when stdin ends |
| Model gateway, `lib/gateway.mjs` | the binding in use | bind, forward a model request |
| Runtime manager, `lib/runtime-manager.mjs` | runtimes, leases, auth challenges, reserved tickets | ensure, stage and commit a ticket reservation, restore it after a restart, start and cancel a device-code login |
| Remote artifact installer, `lib/remote-artifact-installer.mjs` | version directories and one `current` pointer per artifact | status, install, probe, rollback |
| Host and DSH installers, `bin/dsh-remote-host-installer.mjs`, `bin/dsh-remote-dsh-installer.mjs` | the installed package, the service unit | install, status, configure |

### The control side

| Part | State it keeps | Operations |
|---|---|---|
| Connector, `lib/connector.mjs` | the connection and its greeting, the highest confirmed revision, a cache of it on disk | connect, openProject, getOperation, list, reconcile, bindGateway |
| Remote project controller, `lib/remote-project-controller.mjs` | one promise chain and one cached connection per host | add, update, remove, inspect a host; open a project; create, delete a schedule; reconcile |
| Host registry, `lib/host-registry.mjs` | a revisioned file of hosts, staged known_hosts files, a lock file | add, update, remove, stage, discard |
| Managed host, `lib/managed-host.mjs` | the promise of readiness, tunnel, bridge, connector | ensureReady, the operations, close |
| Plugin and runtime synchronisers, `lib/plugin-sync.mjs`, `lib/runtime-manager.mjs` | a status per sync operation, in memory only | plan, sync, reconcile, rollback |
| SSH transport, `lib/ssh.mjs` | the child processes | run a command, upload, open a tunnel, the bridge |
| DSH plugin, `lib/dsh-plugin.mjs` | agents with the remote tools mounted | admission, mount, mask, unmount |
| Bootstrap, `lib/bootstrap.mjs`, `lib/dsh-host-bootstrap.mjs` | none beyond the running call | plan, bootstrap, reconcile |

### How they interact

The controller takes its per-host chain, asks the managed host for a ready
connection (bootstrap, plugin sync, runtime sync, bridge, hello) and calls the
Connector. The Connector sends one envelope over the bridge. The daemon looks
the envelope up by operation id and by idempotency key, records the operation
in the store *before* acting, calls Session Control over a Unix socket and
records the outcome. Responses carry a revision, by which the Connector knows
what is confirmed. The synchronisers run the artifact installer
through SSH commands, and what they did comes back to the daemon as a receipt in
the project.open request.

### What is hard, and what makes each part correct

* **Crash or restart at any await of the daemon.** An operation must be on disk
  before Session Control sees it, a restart must settle what it finds running,
  and must not run it by itself.
* **A late, lost or unreadable answer of Session Control.** The outcome is then
  unproven: the operation may be replayed under the same source, body and
  idempotency key and must never be recorded twice, nor as failed when it was
  executed.
* **A store write that fails halfway.** Memory and disk then differ by one
  update; nothing that was reported may be lost and no reported revision may
  come back lower.
* **Confused identities.** Ids, keys and bodies of one source used by another, or
  an id with a new key, must not touch or reveal a foreign operation.
* **Artifacts.** A sync that cannot prove what the remote side did must not claim
  that it restored it; a receipt must speak of what `current` points to.
* **Lock files.** One owner per state directory, also when a stale lock is taken
  over by two processes at once.
* **Controller concurrency.** A connection cached after an await may belong to a
  profile that was replaced; a host removed during an update must stay removed.
* **Ticket reservations.** A runtime auth ticket serves one operation; a
  restart must bind it to the operation it was reserved for or release it.
* **Logins.** A challenge, its process and four timers end a login in any order;
  no process may be forgotten and no ended login may come back.
* **Installers.** An installer may die between two file operations, or outlive the
  SSH command that started it and work beside the next one; a failure is judged
  by a status read afterwards.
* **A link that is replaced.** Timers, answers and exit events race for each
  request; a new ssh child is a new Remote Host process that knows nobody.
* **Tools under changing permissions.** An agent below one with Full Access sees
  its tools unless they are masked, and a reference to a tool outlives the grant.

`PROJECT.json` lists each hazard at its line with the properties that cover it.

## 2. Modules

| Module | Models |
|---|---|
| `OperationLedger` | what the daemon promises of an operation, without store, calls or processes |
| `RemoteHost` | the daemon, its store and the outcome of its Session Control calls |
| `ArtifactSync` | the plugin synchroniser, the SSH commands it runs and the artifact installer |
| `StateLock` | the lock file of the state store and of the host registry |
| `ProjectController` | the tool calls of the control machine over the registry and the connections |
| `HostSetup` | the preparation of a remote machine: the three bootstraps, their installers and the service |
| `HostLink` | the connector, the stdio bridge, its ssh children and their Remote Host processes |
| `RuntimeAuth` | the tickets of external runtimes, from their issue to a lease, with the runtime manager |
| `LoginFlow` | the login commands the runtime manager runs |
| `PluginMount` | which agents of the local DSH hold the remote tools |
| `RemoteHostProofs`, `ProjectControllerProofs`, `ArtifactSyncProofs`, `HostSetupProofs`, `HostLinkProofs`, `RuntimeAuthProofs`, `LoginFlowProofs`, `PluginMountProofs` | inductive invariants and theorems about the module of that name; `ProjectControllerProofs` also about `StateLock`, `RemoteHostProofs` about `OperationLedger` |
| `MC...` | symmetry and plans for TLC |

The modules share no variables. `PluginMount` decides who may call the tools whose
calls `ProjectController` orders. What is one outcome there, the preparation of a
host, is `HostSetup`, whose step "plugin" is `ArtifactSync`; what it ends with, a
connection, is `HostLink`. A request that comes over the link is handled as
`RemoteHost` says; `RuntimeAuth` refines its project.open by the tickets of the
request, and leaves out what `RemoteHost` decides (by what a request is found).
`RemoteHost` is one such process over one store. `StateLock` says how two can come
to share a store, and `HostLink` lets them.

### RemoteHost

The daemon serialises requests with a promise chain (`remote-host.mjs:79-83`),
so a single variable `h` holds the handler in progress: its program counter,
request, operation id and error. Between two of its awaits nothing else of the
daemon runs; between two steps of the model a crash, a late effect of Session
Control or the next step may happen.

* `disk` and `mem` are the store: `{revision, operations, gateway}`. `WriteOk`
  is an update whose rename and fsync succeed. `WriteFails` is one that throws:
  memory stays, and the disk holds the old or the new state, for the fsync of the
  directory comes after the rename (`state-store.mjs:146-169`).
* `CreateRecord`, `RetryRecord` and `AnswerFromRecord` are the three ways a
  request begins, in the order of the code: `#findExistingOperation` (`Existing`,
  `Compatible`), the retry list (`CanRetry`), else the record as it is.
* `RefuseUnready`, `PrepareFails`, `CallSessionControl`, `SessionControlReplies`,
  `ReplyLost`, `FinishProject`, `FinishSchedule`, `FinishBinding` and
  `RecordError` are the rest of the handlers. project.open finishes inside its
  `try`, the schedule operations return `#finishOperation` without awaiting it,
  outside theirs: a failed final write is recorded as a failure in the first
  case and escapes in the second. gateway.bind has two updates and no call.
* `SessionControlActs` and `SessionControlRefuses` are the service: it executes a
  call once per source, type and idempotency key, at any time after the call was
  written, also after the daemon gave up or died.
* `Crash` loses everything but the disk. `Restart` is `RemoteHostDaemon.create`.
* `told` and `toldRev` are history: what connectors were told is final, and the
  highest revision they saw.

Data is abstracted to what decisions read. A body is its digest; the token of a
gateway.bind is its body; the sync receipts of a project.open, which the body
digest leaves out, are the flag `ready`; all error codes that the daemon counts as
unproven are the one code `UNKNOWN_TERMINAL`.

`OperationLedger` is the abstract specification: operations begin, take effect,
settle, reopen or are interrupted. The refinement maps `status` to the record in
memory (equal to the one on disk while the daemon is down) and `effect` to what
Session Control did.

### ArtifactSync

`sync` is the one call in progress on the control machine (`plugin-sync.mjs:141-195`):
its operation, the command it is at, what each item's `current` was before and
how far a rollback has come. `remote` is the other machine: the version
directories, `current`, and the staging directories with their files.

* `ReadStatus`, `RunCommand`, `Probe`, `CleanupDir` run the commands of a plan in
  order. `CommandFails` is a command that did nothing, a part (an install that
  published its version but did not switch `current`) or all of its work and
  whose result did not arrive; `CommandRefused` one whose work is impossible, as
  an rmdir of a directory that is not empty.
* `Errors` are the ways a command fails for its caller: its result is lost, cannot be
  read or is too large, or the command was not sent because the pin of the host key does
  not hold (`unsent`, which changes nothing).
* A failure starts the rollback of the items changed so far, in reverse
  (`RollBack`, `RollBackFails`), and `SettleFailure` decides between
  needs-attention and persistence-unknown as `plugin-sync.mjs:185` does; a rollback is
  unknown after the first two errors and failed after the others (276-287).
  `Observe` and `SettleReconcile` are reconcile.
* `late` are commands that outlived their ssh process: a timeout ends only the
  local one (`ssh.mjs:152`). `LateCommands` admits them.
* `ControlCrash` loses the statuses, which are in memory only.

### StateLock

Each process creates the lock (`Create`), writes its pid (`Stamp`), loads the
file (`Load`), writes whole copies (`Update`) and closes (`Release`), after which a
request in progress may still write until the process ends. One that finds a lock
reads it (`Inspect`), asks for the pid (`Probe`), removes the lock if nobody has that
pid (`Unlink`), and tries once more. Every other error of its file operations is
answered like an owner alive, and leaves what it created (`Errs`); a lock that cannot be
read counts as one without a pid (`InspectFails`). Starts may overlap as they like,
`Exit` is a death anywhere, and `PidTaken` and `PidFreed` are other programs with the
pid of a process that ended, so that `InUse` is what `kill(pid, 0)` sees. `Forced` is
the registry's removal with force.

History says who took the lock while whom (`crossed`), who met a pid in use (`met`),
whose file operation failed (`failed`), who removed whose lock (`robberies`), and
whether a write landed after its writer's release over a later owner (`overrun`).

### ProjectController

The controller runs in one thread: an action is what a call does between two
awaits. `call` is each call's place; `tail` and `after` are `hostLocks`, the
promise chains: a call takes as predecessor the tail it finds and becomes the
tail, and the last one to end removes the chain
(`remote-project-controller.mjs:193-200`). `queue` is the registry's
(`host-registry.mjs:180-191`). `cache` and `conn` are the connections, named by
the call that made them, with `readying` for a preparation in progress and `up`
for an open bridge. A preparation, with its bootstraps, its sync and its bridge,
is one outcome: `ConnectionReady` or `ConnectionFails` for all who await it.
`pin` is which target's key is in a host's known_hosts file.

A call names its host by id (`hostId` is another spelling of it) or by target, and
each look-up takes the name anew (`host-registry.mjs:128-133`): with no match, or
several, the call fails (`Matches`, `Resolves`). `call.host` is what the name matched
when the call was made, and whose chain it joined; `call.work` what it matched at its
turn (`FindConnection`), which differs after a removal and an addition. open and
schedule calls look the name up again for their answer, reconcile and runtimeStatus
as soon as they have the connection, and removal does by id after it closed the
connection. What is left of an ended call is how it ended.

add, update, remove and runtimeStatus take no chain. `disturbed` is history: the
hosts with calls that overlapped outside a chain, that a call made for another host
came to work on, with a failed registry write,
or with calls under way at a disposal or a restart. `Restart` is the death of
the process and its next start: the registry is what the file holds, the
known_hosts files are what they were, and all else is forgotten.

### HostSetup

`setup` is the control machine: the phase of `#ensureReady`
(`managed-host.mjs:136-206`: DSH, Remote Host, reach, profile, check) and where it
is in a bootstrap (staging, waiting for the installer, cleaning, reconciling).
`procs` are the installers on the remote machine; `dsh`, `host`, `profile` and
`service` are what they change, one file operation per step.

* `Look` ... `AwaitHealth` are the installation of DSH in the order of
  `bin/dsh-remote-dsh-installer.mjs:221-314`: look at the version directory, build
  in a staging directory, set a damaged version aside (first rename), publish
  (second rename, with `PutBack` if it fails), switch `current`, copy the
  installer, enable the service, wait for an answer. `PublishHost` and
  `SwitchHost` are the Remote Host's installer; `Declare`, `InstallDeps`, `Claim`
  and `RestartService` are `configure` (398-429).
* `StepFails` is a failure at any of them, or the end of the installer. Between the
  two renames the directory that was set aside is then renamed back, or stays where it
  is: the installer was killed, or that rename failed too, which nobody is told (294).
* `CommandTimesOut` ends the local ssh only: the installer goes on, with nobody
  waiting. `Reboot` ends all processes. `Damage`, `ServiceDies` and `SystemdStarts`
  are the machine's.
* `ControlGivesUp` is `close()`, which stops nothing (`managed-host.mjs:240-247`): the
  setup goes on as one of `old`, whose later installers may start at any time
  (`OldLaunches`), until it fails or finishes (`OldEnds`). It shares the directory of
  staged files with the next setup of its release, and each removes what the other
  needs (`Disturbance`). `ControlDies` ends the control process and its setups.
* After any failure `Reconcile` takes a good status for success
  (`StatusIsGood`), `ReconcileFails` ends the setup.
* History: `setup.clean` says no fault has hit this setup and nothing of an earlier
  one is still at work; `strayed` that an installer ever outlived its command or its
  setup; `cut` are directories left set aside between the two
  renames; `setup.via` says whether the profile was confirmed by its installer's
  receipt or by a status.

Writes of `package.json`, `cordis.patch.yml` and the profile's manifest are one
step each; the copy of the installer, which answers every later status, is two.

### HostLink

`call` is each request by its number; `bridge` the current child and the table of
requests in progress (`ssh.mjs:209-263`); `ssh`, `wire` and `daemon` are each
child, its frames and its Remote Host process. `Reset` is `#reset`: whatever child
the event is about, the current one is killed and all requests are rejected; the
exit handler is not bound to its child (`ssh.mjs:223`), so the late exit of an
old child takes its successor along (`Exits`). `Write` starts a child when there is
none. `Connect` is the greeting; the connector stays connected through resets.
`Handle` refuses clients that did not greet this process
(`remote-host.mjs:674-675`).

Each Remote Host process has its own copy of the state (`store`), read at its start, and
an update rewrites the file from that copy. `DaemonRefused` ends a process that finds
another alive; `DaemonStarts` lets it serve when none serves, or, counted as a fault,
beside one that does, as after a lock that was robbed (`StateLock`, `TwoOwners`).

### RuntimeAuth

The tickets in the daemon (`tickets`), their reservations in the store (`rows`), and
the runtime manager's staged confirmations (`pending`), `commits` and `leases`. A
project.open binds its tickets in memory, records them with the operation
(`Reserve`), stages them (`Ensure`), marks them attempted before it calls Session
Control (`Attempt`), commits them to the Session that was opened (`Commit`),
records that, and consumes them with the operation's result (`Finish`). Every
write may fail, the daemon may crash between any two steps, and `Restart` rebuilds
tickets, confirmations and leases from the rows. `ChallengeEnds`,
`Deadline` and `LeaseEnds` pass the expiry of a challenge, a ticket and a lease at any
time at which something still asks for it.

### LoginFlow

`h` is the challenge request in progress; `managed` and `byRuntime` are the runtime
manager's maps, `login` each challenge's state and `proc` its process. `Publish`,
`Flood`, `Closed`, `Timeout`, `Expire`, `Cancel` and `Exit` race to end a login;
the first is kept (`End`). `Terminate` sends SIGTERM, `Grace` SIGKILL. `Shutdown`
and `Clear` are the runner's part of the closing of the Remote Host, outside the
queue of requests; `ExitHost` ends the process with its timers.

### PluginMount

`tools` is the plugin: the record mounted for each agent (`rec`), the records that
are active, the agents whose inherited tools are masked, and whether a refresh is
queued. The functions on it are the plugin's (`dsh-plugin.mjs:154-200`), each with
the `tools/change` events that its registrations raise (`ToolsChange`). The rest
is DSH: agents that come and go, permissions that change before their event is
sent or without one, relay turns, a foreign tool of one of the names. `held` is the
reference an agent took at its last permitted call; `stale` are the agents of
which the plugin heard nothing since they changed.

## 3. Runs

| Run | Question | Result |
|---|---|---|
| `RemoteHost` | Are records unique, durable, private to their source and honest through retries, crashes, a failing write and late answers? | holds |
| `RemoteHostProgress` | Does every running operation settle, and does the daemon implement the ledger? | holds |
| `ArtifactSync` | Are completed receipts true, is what a failed sync claims to have restored restored, is a rollback's target still there, do leftovers keep no sync from completing? | holds |
| `StateLock` | To whom alone can an owner lose its lock, what is lost then, and what alone keeps a process from starting? | holds |
| `ProjectController` | One call of a chain, and of a host, at a time, a target per host, nobody stuck; for undisturbed hosts the right key and connection? | holds |
| `RuntimeAuth` | Does a ticket serve one operation, was every call reserved on disk, is a lease paid for, does a recoverable operation keep its tickets and a completed one none? | holds |
| `LoginFlow` | Is every running login known and its runtime's only one, every ended one never revived, and does each end in time? | holds |
| `HostSetup` | Where alone does `current` not exist, do leftovers of any kind keep no later setup from completing, does ready mean installed and answering, does a setup end? | holds |
| `HostLink` | Is the table of requests exact, is a greeted process never unknown, is a repeated operation counted once in the file and in every copy, does every call return? | holds |
| `PluginMount` | Do limited agents see no tool, full ones their own, does a reference run under its grant only, does nothing stay behind? | holds |
| `TwoOwners` | One owner, with starts that overlap? | violated |
| `ReconcileRecovers` | Can a connected client read again after its link was lost? | violated: the new Remote Host process does not know it, and it does not greet again |

Several of the run properties are conjunctions of named parts, which the modules
state one by one: `ReportsHold` and `RecordsAreHonest` (`RemoteHost`),
`RollbacksRestore`, `SoleOwner`, `UndisturbedHostsAgree`, `TicketsFollowOutcome` and
`ToolsFollowAccess`. The theorems prove the parts, then the whole.

What each violated run contradicts is quoted under `findings` in `PROJECT.json`.

**Promises the code does not keep.** These are stated in the modules and checked by
no run; added to the run's configuration (`INVARIANT` or `PROPERTY`), each is
violated.

| Definition | Run | What happens |
|---|---|---|
| `RemoteHost!ExecutedIsNeverFailed` | `RemoteHost` | the store write that records a project's success fails inside the `try` whose catch records every unlisted error as failed (`remote-host.mjs:352`); `docs/protocol-contract.md:49` allows only needs-attention |
| `RemoteHost!ExecutedStaysReplayable` | `RemoteHost` | a replay refused for its receipts, which the body hash leaves out, overwrites the retryable error (`remote-host.mjs:194`); `README.md:146-147` promises the replay |
| `ProjectController!AlwaysPinned` | `ProjectController` | the loser of two overlapping additions of one host removes the winner's known_hosts file (`remote-project-controller.mjs:102`); `docs/install-and-development.md:22` says each host has one |
| `LoginFlow!CloseEndsLogins` | `LoginFlow` | a request in progress starts a login after the shutdown cancelled the active ones, and the timer that follows SIGTERM by SIGKILL dies with the process (`runtime-manager.mjs:115-122, 553`); `docs/stage-c-acceptance.md:19` says closing cleans them up |
| `HostSetup!ReadyIsServed` | `HostSetup` | a profile's command that failed after the manifest was written is reconciled by it, whatever the service runs (`bin/dsh-remote-dsh-installer.mjs:425-426`); `docs/install-and-development.md:34` says the profile is installed and DSH restarted |

Read while modelling and not expressed as a property: `current` is switched before
the service is written, where `README.md:109` has it switched after the service is
healthy; `enable --now` leaves a running old version alone, and a status reports the
version of `current`, not the running one; a fresh connector saves a lower revision
over a higher cached one (`connector.mjs:47-64`, against
`docs/protocol-contract.md:154`); a ticket's deadline that passes during the call to
Session Control ends the operation in an error that is in no retry list
(`remote-host.mjs:375-379`); the runtime synchroniser's staging directories
(`runtime-manager.mjs:630`) collide after a failed upload; the connector identity
is created empty and written afterwards (`connector-identity.mjs:83`); the bridge
forgets a frame id after 256 others (`bin/dsh-remote-host.mjs:101-103`).

**What the passing runs leave out.** `RemoteHost` assumes `SameKeyPerId`: a
source that repeats an operation id repeats its key. The shipped Connector does,
the daemon does not check it, and without it a replay may be sent under a key
that is not its record's. The run `StateLock` excludes nothing of the code; its
properties say what is left of the lock's promise: two owners, after a robbery of one
whose start crossed the robber's, or by a process that could not read the lock or had
been robbed itself; a lost update, after a robbery or by a write that lands after its
writer's release; a refusal, also by a program that has a dead owner's pid by now or
for an error of the start's own. In `ArtifactSync` receipts and
restorations are claimed as long as no command outlived its ssh: a late install acts
after the rollback that followed its timeout (`ssh.mjs:152`). A failed rollback whose
result was too large, or that was not sent, is reported as needs-attention with the
rollback's status failed (`plugin-sync.mjs:185`); restored is only what that status
calls complete or not needed. `HostSetup`
excludes from `CurrentExists` the moment between the two renames and what an installer
left that ended in it, until a later one published the version;
from `HealthySetupCompletes` a setup that begins beside a stray installer or an old
setup, or
with a stopped service over a torn profile (the first installer waits for a
service that cannot start before the profile is mended by the third); from
`ReadyMeansInstalled` setups after a command timed out or a setup was closed under way.
`HostLink`
has one connector. `ProjectController` speaks of keys and connections of
undisturbed hosts only; for the others `PROJECT.json` names, at the lines of the
hazards, how each claim fails. `OneAtATime` speaks of every chain, and of every host
that no call reached from another's chain: there two calls may be at work, since the
code looks the name up again after the chain was chosen. The other properties hold of
every host.
`RuntimeAuth` takes Session Control's confirmation of a challenge as given, and
`PluginMount` a scope of depth two.

**Bounds.** *RemoteHost*: two operation ids and two keys are what it takes for an
id to fall on one record and its key on another; two sources and two bodies for
confusion between owners. Three requests are an operation, its retry, and a
read or a third attempt on the result; one failing write separates disk from
memory, and further ones only repeat that difference, as the next successful
write closes it. *ArtifactSync*: two items are the least with a first that is
switched when the second fails; two operations with different versions, each of
which may run again, give a predecessor to roll back to; two faults are a
failing command and a failing rollback. *StateLock*: a dead owner, or an owner
robbed, with two starts that cross; two updates, the least of which one can be lost.
File errors and taken pids are not bounded.
*ProjectController*: the races take two calls, a chain with a member that waits
for a waiting one takes three; two hosts and two targets for conflicts by id and
by target. The same two names serve as ids and as targets, so that a name can match
two hosts; names, calls and profiles are interchangeable. That a call meets, on another
host than it was made for, one of that host's own chain takes four calls (two of them to
remove and add); there only the theorem `Chains` speaks. *RuntimeAuth*: two operations of a source
compete for two tickets over two runtimes and two Sessions, one of them may be
repeated, one write fails; no request names a ticket twice, as its second runtime would
refuse it like any ticket of another runtime. *LoginFlow*: two runtimes and room for two challenges
are what it takes to prune one; three starts replace one twice. *HostSetup*: a
setup that leaves an installer behind, the one beside it and one that finds the
remains, also when the first is closed and goes on; two faults, as the failure of a
failure's repair; two releases, so that a
stray installer and a setup differ (the first setup installs the one named first, which
loses nothing, as the two are interchangeable until then). *HostLink*: a greeting, two requests that
fill the table and one more; three children are an old one whose exit is late,
its successor and the next, and two of them may own the state together; two faults, a
robbed lock and a lost link; the instance begins with a durable revision of one, which the
one operation may have already. *PluginMount*: a parent and a
child, the least with an inheritance; six changes grant, revoke and grant again
with a turn and a foreign tool. Crashes and restarts are not bounded elsewhere.

**Fairness.** In `RemoteHostProgress`, `WF_vars(Handler)`: a
started handler runs on, because each of its awaits ends: the store write ends
or throws, and the socket answers, fails or reaches the port's timeout
(`session-control-port.mjs:281`). `WF_vars(Restart)`: a stopped daemon is started
by the next bridge, whose Session Control probe is assumed to succeed in the end.
No fairness is assumed of Session Control or of connectors. Crashes may recur
for ever; `RunningSettles` holds because a restart settles what it finds. After
a failed write an operation may stay running until a restart that nothing
forces, so the property says: settles, or a write failed. `LoginFlow`: the
runner's timers fire (`Timeout`, `Grace`) and the operating system ends a killed
process (`Die`); commands need not end by themselves. `HostSetup`: the control
machine goes on (`ControlStep`), and an installer does its next step
(`ProcStep`), since its tools end and its wait for the service is a minute at most;
the service need not start. `HostLink`: only the timer of each request fires;
nothing makes the remote side answer.

**Deadlock** is checked in the runs of `RemoteHost` and `ArtifactSync`. It is not
in those of `StateLock` and `ProjectController`, whose processes and calls run
once and then are done; there `RefusedByTheLiving` and `SomeoneProceeds` say that
none is kept from going on. `HostSetup`, `HostLink` and `PluginMount` stop when
their bounds are used up; `SetupEnds` and `CallsSettle` say that what was begun
does not hang.

## 4. Proofs

All theorems hold for any values of the constants, under the assumptions named
in the modules (null values differ from proper ones, bounds are naturals). The
inductive invariants (`IInv`, in `ProjectControllerProofs` one per topic) are stated in
the proof modules.

**`RemoteHostProofs`** proves the type invariant and every safety invariant of the
run `RemoteHost`, and `IdleMeansSettled` (nothing is left running by a serving
daemon at rest unless a write failed), from one inductive invariant, `IInv`. The invariants are not
inductive alone: that success is only recorded of an effect needs to know that
a handler past its call holds the key of its record; that a told state is
durable needs to know that a final record in memory is the same on disk,
although a failed write may have put the disk ahead; that keys are unique on
disk after a failed write needs the same. `IInv` therefore states `StoreOK` of
the disk and of memory alike, and adds `FinalIsDurable`, `Revisions`,
`HandlerOK` (the handler's operation is its request's, and running), `DownOK`
and `OnlyHandlerRuns`. The argument is one lemma per action, over lemmas that
say what a creation, a change of state and an interruption do to a good store.
The theorems assume `SameKeyPerId`.

`LedgerImplemented`: every step of the daemon is a step of `OperationLedger` or a
stutter. It needs, beyond `IInv`, `DiskOneStepAhead`: the disk is memory or one
update ahead of it, and that update is one the ledger would take. A crash after
a write that failed beyond its rename makes the lead visible, which is then
that one step; a restart that interrupts what it finds is another. What the
ledger keeps (`SuccessHadEffect`, `FinalStays`) is proved of the ledger's own steps
and carried over: `VisibleSuccessHadEffect` and
`VisibleOutcomeStays` say it of what a connector can see of the daemon.

**`ProjectControllerProofs`** proves, after the types (`TypeInv`, with what each
place of a call says of it and of the queue):

* `OneTargetEach`: only the update queue changes the registry, and each update is
  checked against the registry of its own turn.
* `Chains`: `ChainInv` says the calls made for a host are linked, the tail is alive and
  awaited by nobody, one at most has its turn, and no set of waiting calls waits
  within itself (`Grounded`). The last part is what makes removing the chain
  safe: if its last call ends, a chained call left over would have to wait for
  another, and that for another, within a set that cannot be empty. Of hosts it needs
  `AtHome`: a call works on the host it was made for, or on a disturbed one.
* `Pins` and `Connections`, together `Undisturbed`: `QuietInv` says that the calls under way for an
  undisturbed host are those of its chain or one other (`Alone`), that a
  preparation is awaited by a call of its host (`Wired`), and what holds
  of the host between the steps (`Settled`). It needs `ChainInv` and `AtHome`: a
  connection is cached over none because the call that prepares it was made for its
  host and is the only one at work.
* `NoCircularWait`: while a call has not ended, one has all it awaits
  (`SomeoneCanProceed`). `Attended` says that an update under way has its place in the
  queue and that whoever awaits a connection awaits one in preparation, which
  needs `Wired`: a call that caches its new connection takes nobody's away. For the
  chains it is `Grounded`: of the calls of a chain that wait without a turn, one
  waits for a call outside that set.

The same module proves of `StateLock`, of every behaviour: `SoleOwner` from `LockInv`.
Two processes that take the lock at once know of each other (`CrossersKnow`); whoever
holds it was robbed or is named in it (`HoldersHold`), so that two holders are one robbed;
who is about to remove a holder's lock has crossed it, failed to read it, or will find its
pid in use (`HoldersAreSpared`); and without a robbery or a late write an owner's copy is
the file (`CopyIsFile`).
`RefusedByTheLiving` is proved from `RefusalInv`: any change of the
lock behind the back of a waiting process is the work of one it has met.

**`ArtifactSyncProofs`** rests on an invariant of two layers. What holds always:
versions are only added, so that all that is current or remembered stays installed
(`VersionsKept`), and the call in progress is at a place its plan has
(`PlaceOK`). That already gives `TargetsStayInstalled`, whatever late commands do.
What holds until a command outlives its ssh (`Intact`, `Restored`, `OwnFiles`,
`HealthyOK`): each artifact is as the sync found it, or the sync remembers how it
found it (`Remembers`), the actions before the one at hand are done, and what has
been rolled back is back. Each command is reduced to `Did`, which says what it may have
changed when it failed at any point, and `Completed`, what it has changed when it
succeeded. That a version is remembered before it changes depends on a plan
naming an item once, and `HealthySyncsComplete` on a staging
directory per operation, which plugins have and runtimes do not. `RollbacksDoRestore`
holds for every kind of error: a rollback that failed or is unknown never becomes
complete again. `LastTodo` is a
`CHOOSE` of the last position: that there is one follows from the naturals
being well founded.

**`HostSetupProofs`**: `CurrentIsThere` from `InstallersFit`, for any number of
installers at work beside each other: the directory of a release is there, or an
installer holds it between the two renames, or one ended there and nobody has published
the release since (`Present`);
no step of any installer takes it from another. `ReadyIsInstalled` from
`Established`: while nobody else works on the machine, what a phase has done stays
done. `UnhitSetupsComplete` from `Unhit`: an installer no fault hits finds, at each of
its steps, the directory as it saw it (`DirectoryAsSeen`), and the service can be
started.

**`HostLinkProofs`** proves the types (`TypeCorrect`: each copy of the state counts a
repeated operation once, also where two processes own the state), that the table is exact
(`TableIsExact`) and that a
refusal comes from another child than the one greeted (`RefusalsFollowLoss`), for
any number of requests and children. A frame's number is no proof of whose frame it
is; the invariant says that a number not yet used is on no wire (`FreshOK`), and
what a frame says of a request that is still in progress (`FramesOK`,
`AnswersOK`): it is of the child the request was sent to, and an answered greeting was
heard. The connector greets once at a time (`ConnectionOK`).

**`RuntimeAuthProofs`** proves the four safety invariants of `RuntimeAuth`.
`StoreOK` is stated of disk and memory, since a failed write may leave either: a
reservation is that of its operation and of a ticket issued for it (`RowOK`), what
was asked of Session Control is reserved and marked attempted (`AskedOK`), and a
completed operation has consumed its tickets (`CompletedOK`). `SameRequests` keeps
disk and memory from telling of different requests; `AskedHolds`, `PendingOK` and
`CommitsOK` say that what the daemon and the manager hold belongs to the operation
that brought the ticket; `HandlerOK` has one clause for each stage of
project.open. A restart rebuilds all of it from the rows.

**`LoginFlowProofs`** proves `RunningIsAlwaysKnown` and `EndedStaysEnded`. The invariant
is inductive with the types; the work is in `Kept`, which prunes one ended login and
must not prune one that runs.

**`PluginMountProofs`** proves the three invariants of `PluginMount`, and that a record
once inactive is never activated again (`RevokedStaysRevoked`), for any number of
agents. A refresh is a loop over the agents, each visit of which may remove
records, mount, mask and raise events (`Reconcile`); the model states it as a
recursive function over the positions of the list. `ReconcileFacts` says what one visit
does: it settles its agent and unsettles no other. `PassFacts` says the same of
the whole loop: that the function exists is a choice of the smallest position
without one, and that a fact holds at every position is the absence of a smallest
exception (`FirstNumber`, from the naturals being well founded), which needs no
induction rule. The invariant: each record is held by the agent it was mounted for
(`MountsOK`), a plugin that is off leaves nothing (`QuietUnlessOn`), an agent heard of
since it last changed is mounted and masked as its access says unless a refresh is
queued (`KnownAreSettled`), and a reference to a record an agent has names that agent
(`HeldNamesItsOwner`).

Only model-checked: `RunningSettles`, `LoginEnds`, `SetupEnds`, `CallsSettle` (liveness), and of
`SomeoneProceeds` the half that says each call with all it awaits can take a step
(`ENABLED`), which the prover does not treat.

## 5. Plan

Every component with state of its own has a module. What is left, the most
important first:

1. The runtime synchroniser as `ArtifactSync` with `StagingPerOp = FALSE`, and a
   second control machine over the same artifacts.
2. The connector's cache on disk, with the change of a host's incarnation.

Runs that ask a question of the same instance are kept in one run.

## 6. Not modelled

Validation of envelopes, desired states, paths and artifacts, archive building,
HTTP and SSH argument construction are functions without state whose result the
models take as given. The content of error messages, logs and skills plays no
part in any property. Inspecting and probing a host change no state. Of the model
gateway, the tunnel, the DSH HTTP client, host key discovery and the socket service
of the runtime manager only the outcome matters to the callers that are modelled.
The connector identity is one small file, created once.
