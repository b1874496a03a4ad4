# Barista: TLA+ specifications

Specifications of Barista, a node agent that runs sandboxed instances (sessions that can
be paused, resumed, forked and moved between nodes) on a substrate and journals what it
does in SQLite, of the fleet that nodes form over a bucket, and of the agent inside each
guest. They are translated from the Rust sources under `src/crates`; `PROJECT.json` gives
for every definition the lines it stands for. Source paths below are relative to
`src/crates/barista-node-agent/src` unless they name another crate.

## The system and its parts

| part | sources | modelled by |
|---|---|---|
| state machines of an instance and of an operation | `state_machine.rs`, `ops.rs` (verbs) | `StateMachine` |
| operation engine: submit, execute, finalize, cancel, crash recovery | `ops.rs`, `db.rs` | `Ops`, promise in `Lifecycle` |
| deadlines of an instance: TTL, wake alarm, idle declaration, readiness | `reconcile.rs`, `db.rs`, `service.rs` | `Deadlines` |
| reconcile loop: orphans, vanished sandboxes, credentials | `reconcile.rs`, `db.rs` | `Sweeps` |
| fleet lease: one owner of a session name, by conditional writes | `barista-fleet/src/lease.rs` | `Lease`, promise in `Ownership` |
| fleet phase: acquire, materialise, stamp, fence, release | `fleet_phase.rs`, `fleet.rs` | `Fleet`, over `Lease` |
| snapshots of an instance and which one a resume takes | `ops.rs`, `restore.rs`, `db.rs` | `Snapshots` |
| where an image may go: keys, forks, exports, imports | `restore.rs`, `snapshot_key.rs`, `capsule.rs`, `admission.rs` | `Portable` |
| capsules and content-addressed objects | `capsule_ops.rs`, `objects.rs`, `db.rs` | `Capsules` |
| runtime on hypeman: sandboxes, ports, credentials | `runtime/hypeman/*` | `Hypeman`; what a verb leaves of a sandbox in `Ops` |
| runtime on Docker | `runtime/fake.rs` | `Docker` |
| event journal, bus, streams, retention; the CLI's wait | `events.rs`, `db.rs`, `service.rs`, `barista-cli/src/follow.rs` | `Events` |
| inventory by pages | `service.rs`, `db.rs` | `Paging` |
| application log | `runtime/hypeman/client.rs`, `service.rs` | `Logs` |
| exec, from terminal to process | `barista-cli`, `passthrough.rs`, `barista-guest-agent/src/exec.rs` | `Exec` |
| copies in and out | `barista-cli`, `passthrough.rs`, `barista-guest-agent/src/service.rs` | `Files` |
| guest agent's life, and the node's dial | `barista-guest-agent/src/serve.rs`, `bootstrap.rs`, `runtime/hypeman/channel.rs` | `Serve` |
| hooks and duties around a memory image | `ops.rs`, `barista-guest-agent/src/duties.rs`, `cmd.rs` | `Restore` |
| calendar of `wake-at` | `barista-cli/src/wake.rs` | `Wake` |
| identity, ids, configuration, rendering, generated bindings | | not modelled: data or I/O |

A client call becomes an *operation*: one transaction writes the operation row and moves
the instance to a transitional state, then a detached task (the *executor*) calls the
substrate and a second transaction records where the instance ended. The operation owns
its instance while `executor_active` is set, which outlives the operation when it is
canceled: nothing interrupts an executor. A crash loses the executors; at the next start
`Db::open` and `recover` settle every operation and every transitional instance before
the node serves. A loop ticks beside them: it acts on deadlines, sweeps what nothing
names and runs the fleet phase.

Nodes that share a bucket form a *fleet*. Consumers write `desired/<name>`; a node owns a
session name while it holds the lease `sessions/<name>`, an object it renews with writes
conditional on the ETag it last saw. The reconciler of each node runs a *pass* every
tick: renew, fence what was lost, list what is desired, tear down and release what is
not, acquire what is free, and drive the instance of each name it owns with ordinary
operations. The executors of those operations are a second writer of the lease: they
stamp the run state before and after they call the substrate. A journal row per name is
all that a restarted node knows of its leases.

Inside a sandbox the guest agent runs the workload and serves the node over a channel
pinned to the instance: exec, file copies, health, and the hooks and duties around a
snapshot.

## Modules

* `StateMachine` - the two transition tables, their predicates and, for each verb, the
  transitional and final state. Constants and operators only.
* `Ops` - the engine. `inst`, `op*` and `executorActive` are the journal (survive a
  crash); `pc`, `recorded`, `result` are the executor tasks (do not); `sandbox`, `late`,
  `lost` are the substrate, outside the process. One action per transaction or runtime
  call: `submit`; `execute_begin`, `execute_epoch_error`, `execute_runtime`,
  `execute_compensate`, `execute_finalize`, `execute_finalize_lost`; `cancel`; `Crash`,
  `open`, `fail_inflight_op`, `recover_call`, `recover_record`, `sweep_orphans`; the
  sweep for vanished sandboxes, the one writer of an instance's state that asks for
  neither state nor claim (`list_present`, `judge_missing`, `fail_vanished`, with what it
  has read in `verdict`; its counter is in `Sweeps`); and what the substrate does by itself, `SandboxDies` and `LateBoot` (a boot accepted
  from a process that died). A runtime call may fail at any time, before or after it took
  effect. `Spec` has finalizing transactions that fail; `SoundSpec` leaves them out.
* `Lifecycle` - what the engine promises, with no executor, crash or substrate in it: an
  instance is claimed, moves along the table while claimed, and is at rest or claimed
  otherwise; at any time its sandbox may vanish and it is FAILED (`Vanish`), and only the
  operation that holds it then may still write over that (`Overrules`). `Ops` implements it (`Promise`, `KeepsPromise`) with the set of active
  operations as the claim.
* `Lease` - the lease of one name under its most general client: a node may acquire with
  any clock reading and write with any `Held` it was given and has not dropped. `store`
  is the object, `held` the Helds of each node, `seen` what an acquisition has read.
  Actions are the functions of `lease.rs`; `acquire` is cut between its read and its
  write. `put` answers "ok", "refused", or "error", and an error may hide a write that
  was applied (`LostAnswers`). ETags are a digest of the body or an identity of the write
  (`UniqueTags`): backends differ, and with digests an object may return to a version it
  had.
* `Ownership` - what the lease promises: a register with an owner and an epoch that a
  takeover changes in one step. `Lease` implements it (`Register`, `IsRegister`).
* `Fleet` - the fleet phase of every node, for one name. `row`, `inst`, `keys` are the
  journal; `held` is the map of Helds, `pc`, `want`, `mine`, `target` the pass, `task`
  and `stamps` the executors, all lost in a crash; `store` and `desired` are the bucket.
  `mine` is the copy of a `Held` that a pass works from: where the code takes that copy
  before it takes the lock `lease_writes`, the model does too. The engine is reduced to
  what a pass sees of it (`Submits`, `execute_begin`, `execute_finish`);
  `recovered_states` is its recovery. After a restart a node goes through `recover`,
  `fence`, `confirm` and `join` before its first pass. It implements `Lease`
  (`FleetLease`, `IsLease`) with map and copies as the Helds.
* `Deadlines` - one instance and the clock. `row` has the columns a deadline looks at,
  `keys` the idempotency keys of the node's own submissions. `tick` is where the
  reconciler is and the copy of the row it read at the top of the tick: `tick_read`,
  `fire_due_wake`, `enforce_ttl`, the probe (`probe_answered`, `probe_ends`),
  `set_instance_ready`, `enforce_idle`. A passthrough call is `note_activity`,
  `set_ttl_deadline`, `mark_activity`; an alarm is `set_wake`, `set_wake_at`: what is
  computed before a journal write and written after it are two steps. `submit`, `settle`
  and `crash` are the engine as a deadline sees it; `guest` is what the guest agent would
  answer to Health, and survives a pause when the resume is from memory. `used` is
  history, read by properties only. `BusySpec` is `Spec` with a workload that never
  declares itself idle.
* `Sweeps` - the three sweeps, one action per read and per deletion (`list_sandboxes`,
  `list_rows`, `decide`, `reap_sandbox`; `list_present`, `judge`, `fail_vanished`;
  `list_credentials`, `owners`, `remove_credential`). `listed`, `live`, `doomed` and
  `suspect` are what the pass has read and decided, `box` and `vol` the substrate,
  `phase` the journal. Boots, destroys and a fork, whose clone wears its source's tag
  until the substrate re-identifies it, run in between; `absent` is history.
* `Snapshots` - the verbs of snapshots on one instance. `rows` and `latest` are the
  journal, `sandbox.image` the image a pause left, `objects` the explicit snapshots, `sub`
  a submission past its checks and not yet accepted, `op` the operation and its step. The
  action of each verb is cut at every journal write and substrate call, and each may fail
  (`MaxFaults`) or be the last before a crash.
* `Portable` - several nodes and what the compatibility keys let through: instances,
  snapshot rows, exported manifests, imports, and nodes that come back with another CPU
  class or bundle. A verb is one step here.
* `Capsules` - object files, staging files and the bucket against the registered
  capsules, reference counts, GC marks and keys of the journal. One task per key; each
  verb is a chain of steps without a lock across them (`Step`), beside the collection,
  crashes and the boot sweeps.
* `Hypeman` - two instances on the substrate: volume, sandbox, ingress and port of a boot,
  each call of which may be refused or take effect unanswered; names that are not unique;
  `held` is `PortReservations`, and others publish on the same ports.
* `Docker` - two node agents on one daemon: `box` by container name, `row` the journals,
  `acted` what the runtime answered. A pause is a stop that says so.
* `Events` - `ev` is every event ever journaled, `kept` those the table still has,
  `pruned` the recorded cursor, `lock` and `sending` the emitters, `watch` the streams
  with their broadcast buffers, `sweep` retention by chunks, `op` and `wait` the command
  line that waits for an operation.
* `Paging` - a walk over the pages of `ListInstances`; addresses are asked for after the
  rows were read, and the page is cut by bytes with them. `why` says what a walk that did
  not reach its end was given up for.
* `Logs` - the frames of a log stream, cut into pieces anywhere, through the task, its
  buffer and its channel to a caller who may hang up.
* `Exec` - one exec: the CLI's pump and read loop, the node's two halves, the guest's
  input task, output pumps and exec task, and three kinds of workload, over bounded
  channels and two transports that may break. `nin` tells a caller's half that ended from
  one that broke. A poll of the guest's `select!` looks at the break and then at the exit,
  two steps: a break may come between them (`broke = "missed"`), and where neither is
  ready the task is parked until one is.
* `Files` - one upload or download: the caller's stream, the node's failure slot, the
  guest's bounded write and chunked read.
* `Serve` - the agent from bootstrap to exit, its workload and signals (the handler of
  which may fail to install, which ends the wait at once as a signal would), and the
  node's dial to an address that may have changed hands. The wait for the workload, the
  store of its code and the shutdown that follows are steps of their own.
* `Restore` - the pre-snapshot hook, the image with its CRNG key and clock, the duties in
  their order and the post-restore hook, with failures of each. A row that cannot be read
  ends hook or duties without a note, as the code has it.
* `Wake` - a calendar turned day by day, against which the conversions are checked.
* `MCOps`, `MCFleet` - instances of `Ops` and `Fleet`. `MCNode`, `MCStore`, `MCReaders`
  and `MCGuest` put components that share no state into one run each: one behaviour is
  of one part, chosen at the start, and `of` says which. The parts that are proved about
  are extended, the others instantiated over the spare variables `x1`, `x2`, ...
* `OpsProofs`, `FleetProofs` (the lease; types and claims of the fleet phase),
  `PassProofs` (the passes of the fleet phase), `DeadlinesProofs`, `SweepsProofs`,
  `EventsProofs`, `SnapshotsProofs`, `SandboxProofs` (`Restore`, `Serve`, `Docker`) -
  theorems.

Operators under a comment `Mutation:` are plausible bugs. Nothing uses them; each exists
to show that some property would catch it.

## What the runs check

| run | question | result |
|---|---|---|
| `node` | executors exclude each other (`OneExecutor`); the journal never contradicts the substrate about an instance at rest (`JournalHonest`); an epoch has one owner (`OneOwnerPerEpoch`); the lease is an atomic register (`IsRegister`); two journals never claim one epoch, and a workload that may be up is one its journal can name (`FleetHonest`) | holds |
| `ops_promise` | the engine implements `Lifecycle` (`KeepsPromise`); cancellation strands nothing (`NotStranded`); every operation settles and every claim is released, but for a canceled operation whose instance was failed as vanished (`EverySettles`, `ClaimReleases`) | holds, without forks |
| `fork_cancel` | `NotStranded` with forks | violated |
| `fleet_liveness` | a desired session comes up on its owner, after a takeover, or after a crash that left its instance in a terminal state (`Realised`); passes and stamps are a legal client of `Lease` (`IsLease`) | holds |
| `fleet_restart` | the instance a lease names is gone before the lease is released (`TeardownFirst`); a deleted session is torn down and no longer renewed (`Withdrawn`), across a crash | holds |
| `fence_retry` | a fence that did not take is tried again | violated |
| `deadlines_liveness` | a RUNNING session with a TTL has a lease (`RunningIsLeased`); an armed deadline was not acted on before (`FreshKeys`); the TTL takes no session that was renewed (`LeaseHonoured`); a lapsed lease ends the run or is renewed (`LeaseEnds`); an alarm does not stay armed past its time (`AlarmAnswered`) | holds, for sessions that were started |
| `idle_run` | an idle declaration acts on the run it was made in (`IdleOfThisRun`) | violated |
| `sweeps` | a sweep does not delete the running sandbox of a live instance (`SparesWorkload`); what nothing names is gone in the end (`ZeroOrphans`) | holds |
| `store` | a resume brings back the memory it names or none (`ServesWhatItNames`), never comes up cold when memory is required (`StrictNeverCold`); names are unique (`NamesUnique`); explicit snapshots stay until their deletion is asked for (`KeptUntilAsked`); an image goes only to its machine (`Portability`); references, tiers and bytes of capsules (`CapsulesHonest`); sandboxes, ports and credentials (`SandboxHonest`); containers (`ContainersHonest`); nobody waits for a step that cannot come (`NeverStuck`) | holds |
| `readers` | a stream passes over nothing it wants (`NoHole`); pages and logs are complete and in order, and a walk is given up only for what is stated (`ReadersHonest`); calendar and durations are right on every day up to 2101 (`CalendarRight`); who waits for an operation returns (`FollowerReturns`) | holds |
| `guest` | a resume that tells of the restore and of nothing degraded is not degraded (`HonestResume`); nothing the workload can notice precedes the new key (`KeyFirst`); the channel ends at this guest (`Pinned`); the agent's exit is its workload's (`ExitIsWorkloads`); exit codes, copies and declared idleness are what happened (`GuestHonest`); who is owed an answer gets one (`EveryoneAnswered`) | holds |

The violations are disagreements between the code and its own documents, comments,
events or log lines, quoted in `PROJECT.json`. `fork_cancel`: a fork that is canceled
and then succeeds has to go from `CREATING` to `RUNNING`, the table has no such edge, and
the finalize that would release the claim rolls back. The instance then refuses every
verb, and its sandbox runs on, until the agent restarts. The other verbs have their final
edge in the table, which is what `ops_promise` and the theorems about it say. They meet
the same rollback in one case: the sweep for vanished sandboxes has written FAILED under
an operation that was canceled. Nothing is stranded half-way then, but the claim stays
until the next start, and `ClaimReleases` names that exception.

In the fleet the lease itself is sound; what goes wrong is what a node concludes from it.
`fence_retry`: nothing reads the rows that are marked as being fenced.

`idle_run`: the column `run_epoch_ms` is stamped by `set_instance_state`, which in a
running node only crash recovery calls; `finish_operation`, which ends every start and
resume, leaves it alone. A workload declares itself idle, a client pauses the session and
resumes it from memory, the guest still has the declaration, and the guard that should
recognise it compares with 0.

### Disagreements without a run

Places where modelling met a sentence of the repository that the code does not keep, and
no run is kept for it. Most of them TLC reproduced on a variant of a run; the properties
of the runs are stated so that they hold of what the code does.

In the fleet:

* The write that names an instance uses a `Held` copied before the lock; a stamp in
  between rotates the version, and the refusal is read as a takeover, so a node fences
  what nobody took (`fleet_phase.rs:551`, against `fleet.rs:64`).
* The stamp after a finalize reads the journal before it has the lock and after the claim
  is gone, so two stamps may be written in the other order, and a stale run state may
  say "running" (`fleet_phase.rs:123`, against `lease.rs:104`).
* A restart that fences something spawns an executor, which holds the agent;
  `Arc::get_mut` then fails and the node stays out of its fleet (`lib.rs:352`, against
  `main.rs:230`).
* A fence is keyed by name and instance. A node that is fenced, wins the name back,
  starts the instance again and is fenced again replays the first stop
  (`fleet_phase.rs:1029`, against "this node stopped its workload", `:1003`). A start is
  keyed by epoch and instance, so a session stopped by a client is not started again in
  the same epoch (`:1128`, against `:507`). A delete is keyed likewise: one that failed
  is replayed, and the withdrawn session stays (`Withdrawn` fails with `OpsFail`).
* A restart with the bucket away leaves the row alone; later passes never compare it
  with the lease (`:934`, against "fences itself at first contact", `:302`).
* A renewal applied and answered by an error makes the next one fail, and the node
  fences a session nobody took (`:237`, against `lease.rs:160`).
* `hold_lease` keeps the fencing flag of the row it updates (`db.rs:1126`, against
  `fleet_phase.rs:818`); after a restart the release sweep then skips the name.
* The sweep takes an expired lease of its own back with a new epoch and leaves the old
  one in the row, so the next restart fences it as taken over (`:783`, against `:920`).
  More generally a new epoch does not mean a new owner (`lease.rs:262`, against `:71`),
  and a node holds back its own session under the policy `hold` after its lease has
  expired (`fleet_phase.rs:401`, against `fleet.rs:279`).
* A record rewritten with a new instance id leaves the older instance running when the
  name is released (`:799`, against `:735`).
* The release uses a `Held` copied before the lock; refused because of a stamp, it
  counts as done, and the name stays taken for the TTL (`:862`, against `:868`). And it
  trusts what it saw of the instance before the write: a client that creates an instance
  under the leased id in between would leave one behind, hence the assumption of
  `TeardownBeforeRelease`.

In the engine, the deadlines and the sweeps:

* A fork goes from `CREATING` to `RUNNING` outside the table (`ops.rs:61`, against
  `state_machine.rs:1`); a destroy whose finalize was lost cannot be retried before a
  restart (against `state_machine.rs:78`); and the finalize of a canceled operation does
  move the instance (against `service.rs:1552`).
* An alarm is spent without an operation if the row read at the top of the tick was
  RUNNING. A pause submitted since then puts the session to sleep with no alarm
  (`reconcile.rs:1045`, against "The state at *firing* time decides", `:1000`). An alarm
  set on a `CREATED` instance is deferred on every tick until somebody starts it
  (`:1034`); hence the condition of `AlarmAnswered`.
* The verdict of a probe is written whatever the instance has become meanwhile, so a
  paused one may be recorded ready (`db.rs:1105`, against `ops.rs:1566`).
* A renewal is computed and then written, whatever the lease has become. With
  `CallsArePrompt = FALSE` TLC violates `LeaseHonoured` and `FreshKeys`
  (`reconcile.rs:1161`). Likewise `set_wake` tests its time and then writes it
  (`service.rs:955`).
* A fork that ends between the listing of sandboxes and the question which forks are in
  flight leaves a clone that is reaped as a duplicate (`reconcile.rs:533`); of duplicates
  none of which runs the last one listed is kept (`:563`, "they are all equally dead",
  which a standby image is not); a vanished instance is failed whatever state it has
  reached since (`:704`), DESTROYED included, and whoever holds it: an operation at work
  then writes over FAILED, or, if it was canceled, keeps its claim (`db.rs:1788`).

In snapshots, capsules and the substrate:

* A pointer to an explicit snapshot taken while PAUSED, deleted again, leaves a resume
  with no memory though the pause's image is there (`service.rs:1223`, "Deleting a
  snapshot touches nothing"); where a pause's row could not be written and an older
  explicit snapshot is the latest, the resume is not cold (`ops.rs:1102`).
* Nothing decides compatibility for a fork, and a restore of an imported capsule skips
  admission (against "a check that cannot see who is calling cannot be skipped by a
  caller", `admission.rs:16`). Imported capsules are registered in the bucket's tier
  where it has them (`capsule_ops.rs:464`, against `restore.rs:151`).
* The collection removes bytes before it asks the journal again (`objects.rs:559`,
  against "never deleted", `:547`), and a staging file of an upload under way is swept
  by a collection at run time (`:502`).
* `used_ports` is read once and reservations are taken later (`ingress.rs:252`, against
  "settles every same-node race", `:27`).

For readers and in the guest:

* A stream whose cursor passes the floor check just before a sweep replays what is left:
  what the sweep took is missed silently (`service.rs:1661`). `NoHole` sets such events
  apart (`raced`).
* A page token carries no filter, so that one reused with another filter is taken
  (`service.rs:60`, against "Reusing it with different states or labels is refused",
  `docs/api/index.md:53`); and one that ends at an instance whose id is in lower case is
  refused (`service.rs:92`), so the walk cannot go on.
* A log frame within three bytes of the limit may be refused or not depending on how it
  is cut (`client.rs:675`, against `:419`); the fake runtime passes on an unterminated
  last line (`fake.rs:580`).
* `wake-at` takes an offset of +99:99 and "-5m", which is five minutes ago
  (`barista-cli/src/wake.rs:110`). `DurationExact` covers durations of either sign.
* Exec. A break that is sent between the two polls of one `select!` loses to the exit it
  caused (`barista-guest-agent/src/exec.rs:269`, against "a ready `wait()` in the broken
  case implies a ready `broke_rx`", `:265`); the caller is gone by then, so nobody reads
  the code. A caller's break reaches the guest as an ordinary end, so the workload reads
  EOF (`passthrough.rs:188`, against "A broken stream is *not* an EOF",
  `exec.rs:363`); when the guest takes that end before the reset behind it, a
  workload that neither reads nor writes is not reaped (against "lets the guest reap the
  process", `passthrough.rs:263`). And the pump that is left behind when the drain is cut
  short keeps the stream open: the caller has its exit code, but `barista exec` does not
  return while a grandchild holds the pipe (`exec.rs:388`, against "must not wedge the
  stream", `:34`).
* A post-restore hook that exits with a code other than 0 is not recorded as a
  degradation (`ops.rs:2169`, against `:2144`); a fork runs none of the restore duties
  (against `openspec/specs/guest-agent/spec.md:247`); "No host time supplied: ... say so"
  says nothing (`duties.rs:192`).
* The first readiness probe is awaited before the agent serves, and it is unbounded
  (`barista-guest-agent/src/serve.rs:145`, against "nothing in the node waits on this to
  finish", `state.rs:131`). A SIGTERM before its handler is installed is lost.

### Bounds

*Engine.* The instances of a node share nothing but the process, so one instance with
three operations covers create, a canceled verb and one that follows it, with a crash at
any step (`node`), or two, one of them inside recovery (`ops_promise`). The ids of
operations are taken in one order (`TakenInOrder`), since they are interchangeable.
`CHECK_DEADLOCK FALSE`: when all operation ids are used and everything settled, nothing is left to do.

*Fleet.* One name: names share only the bucket and the lock. Two nodes make every race
for a lease; `Clocks = {1, 2}` with `Ttl = 1` lets a lease be live to one node and
expired to another at any moment, so time needs no variable of its own. `MaxEpoch` bounds
the takeovers, `MaxWrites` the writes of the desired record, `MaxCrashes` the crashes,
`MaxHeld` the Helds a node keeps in the general lease. There one is enough for a
superseded one to be used: an applied write whose answer was lost leaves the older `Held`
with its owner, and a takeover leaves it with the former one. `InstanceIds` without
`RecordIds` are those a node may mint for a session whose instance has ended. ETags are
digests of the body, the case in which an old version can come back. The questions are
split over runs so that each has the actors it needs; the proofs have all of them at once.
`fleet_liveness` starts with two nodes in the fleet and no crash to come, or with one node
that may crash at any step while the other is not in the fleet (`TakeoverOrCrash`); a
second instance id lets the session come up again under a fresh one after a crash has left
the first FAILED.

*Deadlines.* One instance, as deadlines of different instances meet nowhere. Times up to
`MaxTime = 3` give a lease, its renewal and its expiry with `Ttl = 1`, and an alarm
before, between and after them; the reconciler's own verbs are not counted in `MaxVerbs`;
`idle_run` needs three (start, pause, resume). Deadlock is checked: the reconciler can
always tick.

*Sweeps.* A source, a fork's target, two verbs and one mishap (a call that fails, a
sandbox that comes or goes), with the threshold at 2 instead of 3: the counter has its
first, its last and its reset value.

*Store.* Two captures and four verbs give pause, explicit capture, deletion and a resume
in any order, with one crash and one failed write; two capsules that share an object, one
of which names it twice, under two keys, with one crash; two nodes with two instances and
two snapshots, or one and a changed bundle; two instances with two ports, three verbs and
one fault; one container name on two nodes with two runs.

*Readers.* Two emitters race; buffer, page and chunk hold one entry, so that every lag,
continuation and interruption happens with three events; three instances of three sizes
of which one is too large with an address; two frames of five kinds cut anywhere; every
day from 1970 to 2101, which has each leap rule.

*Guest.* Channels of one frame, one chunk each way and one fault for exec, where a pty is
tried with a filter only, the one workload that can tell it from pipes
(`TerminalMatters`); three chunks
over channels of two for copies, with two faults; four operations and two faults for the
duties; one dial attempt and one change of addresses for the agent.

Symmetry is used for the nodes of the lease and of the daemon and for the instances of
`Portable`, in the runs without a liveness property.

### Fairness

`Fairness` of `Ops` is weak fairness of each executor and of recovery. An executor is a
spawned tokio task whose runtime calls end, because the HTTP client bounds each one
(`HTTP_TIMEOUT`); recovery runs to its end before the node serves, and the supervisor
restarts a dead process. Nothing is assumed of clients, of cancellation or of crashes.
It stands over `SoundSpec`: a lost finalize keeps its claim until a restart, and no
fairness makes a restart happen.

`FleetFairness` is weak fairness of each node's pass, of its executors and of its
restart. The reconciler runs a pass every tick and never two at once, a pass ends because
every request to the bucket does, and the supervisor restarts the agent. Consumers,
clients and crashes are not fair, and a live bucket is a constant of the liveness runs
(`Unreachable = FALSE`), since nothing can come up while it is away.

`FairSpec` of `Deadlines` is weak fairness of the reconciler's steps (a tick every
second, each probe under `PROBE_TIMEOUT`), of executors as above, and of the writes that
end a call, which are local; and strong fairness of the clock, since a client that calls
without pause does not hold time back. It is strong because the model stops the clock
within a call. It stands over `BusySpec`: `LeaseEnds` and `AlarmAnswered` are about what
ends without the workload's help (a declaring workload is in the run `guest`).

`Sweeps`: weak fairness of the loop, of boots and of a fork's end; strong fairness of
`list_credentials`, which the loop passes by until its interval is over.

`Events`: weak fairness of emitters that hold the lock, of each stream and of the
follower, which are tasks that wait for nothing but each other. `MCGuest`: weak fairness
of the steps the code takes by itself as one action (`Progress` of each part), which is
as little as can be asked; clients, workloads that are servers, signals and the network
are not in it.

## What is proved

Every theorem is for any value of the constants that their named assumptions allow (sets
of nodes, instances and operations of any size, any bounds on crashes and faults), and
says more than the run that checks the same property on a small instance.

**Engine** (`OpsProofs`), with transactions that fail, for any verbs:

* `TypeCorrect`, `ExecutorsExclude` (`OneExecutor`), `RecordedNeverStale`,
  `JournalStaysHonest` (`JournalHonest`), `TransitionalAlwaysOwned`; `DestroyedStays`,
  the action property `DestroyedForGood`: neither a destroyed instance comes back nor a
  failed one that nobody holds, though the vanished sweep may write FAILED over DESTROYED;
* `EngineKeepsPromise`: if clients do not fork, every step of the engine is a step or a
  stutter of `Lifecycle` (`KeepsPromise`). The assumption is necessary: a fork leaves the
  table;
* `NothingStranded` (`NotStranded`), without forks and over `SoundSpec`: a half-way
  instance of a serving node has an executor at work on it.

`IInv` adds to the invariants: an active operation is in flight or canceled, and two
active operations name different instances (`ClaimInv`); a task exists only for an active
operation of a serving node, and the instance it works on is in the state that was
recorded for it or FAILED (`TaskInv`); what the vanished sweep has judged (`VerdictInv`);
what the sandbox may be, given where the task is
(`WorkInv`); facts about checkpoints, late boots and the phases of recovery. The claim is
taken in the transaction that tests it and given up only by a finalize or by recovery,
hence exclusion, hence nobody but the vanished sweep moves the row meanwhile, hence the
recorded state stands or the row is FAILED. FAILED says nothing of the substrate that
could be false, and the state a finalize writes describes what the executor saw there, up
to the deaths collected in `lost`. For `NothingStranded` the invariant is
that an active operation has a living task (`ActiveIsLive`), which a lost finalize would
break and a fork's canceled finalize would leave no edge for.

**Lease** (`FleetProofs`, first part), with either kind of ETag, with or without lost
answers: `LeaseTypeCorrect`, `EpochsExclude` (`OneOwnerPerEpoch`), `SupersededIsHarmless`
(the action property `NothingOverwritten`), `LeaseIsRegister` (`IsRegister`). `LInv` adds
to the types that a `Held` of a node is owned by it and not ahead of the object, that one
of the object's epoch is the owner's, and that nodes hold different epochs. Clocks do not
occur in it: they decide who tries, never who succeeds. The step that needs care is an
equal ETag for an equal body; it is harmless because all that a write is conditional on
is then equal too.

**Fleet phase** (`FleetProofs`, second part, and `PassProofs`), with lost answers, failing operations, an
unreachable bucket and crashes:

* `FleetTypeCorrect`; `ClaimsExclude` (`NoSharedClaim`), which with the types is
  inductive: a step either keeps owner and epoch of the lease, or is the takeover of one
  node, which advances the epoch, and no step writes a row of an epoch it did not have
  but for `acquire`, whose row has the epoch it has just taken;
* `FleetIsLeaseClient` (`IsLease`), where ETags are digests: the phase implements
  `Lease`, so what is proved of the lease under any client is true of the fleet. Every
  step is classified by what it does to the Helds of its node (`Drops`, `Reads`,
  `Acquires`, `Writes`, `Releases`), and each class is one step of `Lease`. The invariant
  is `PassInv` (`PassesInPlace`): a pass works from at most one copy, has it only where
  it works with it, and reads for an acquisition only while it holds nothing, so that two
  Helds a node are enough. `Lease` bounds the count of versions where every write has an
  identity (`MaxVersion`), which `Fleet` does not; hence the assumption
  `UniqueTags = FALSE`;
* `TeardownBeforeRelease` (`TeardownFirst`), if no client creates instances under ids the
  fleet has minted (`"Create" \notin ClientKinds`). `SettledInv` (`EnginesSettled`): no
  task is at work on what is gone, none survives a crash, and what a pass found gone
  stays gone until it has written the release. A submission never brings back what is
  destroyed, a task works only on what is not gone, and only the release takes the
  expiry of a lease to 0 (`OnlyReleased`).

**Deadlines** (`DeadlinesProofs`), where no time passes between what a call computes and
what it writes (`CallsArePrompt`): `TypeCorrect`, `RunningAlwaysLeased`
(`RunningIsLeased`), `DeadlinesAlwaysFresh` (`FreshKeys`), `LeaseAlwaysHonoured` (the
action property `LeaseHonoured`, however old the row the reconciler acts on).
`DeadlineInv` adds that every key is of a deadline not later than now, that an armed
lease is one TTL after the last renewal, that a call in progress carries a deadline of
the future, and that an executor lands in no interrupted snapshot. Keys of the past and
deadlines of the future never meet, hence freshness; a claim matches only the lease that
is in the row, hence the renewal wins. Without the assumption TLC violates the last two.

**Sweeps** (`SweepsProofs`), for any verbs, mishaps and threshold: `WorkloadsAreSpared`
(`SparesWorkload`), `CredentialsAreSpared` (`SparesCredential`),
`FailedOnlyWhenVanished` (`VanishedThrice`). The argument is that a row at its end
(`DESTROYING`, `DESTROYED`, `FAILED`) never comes back. `SInv` says that every sandbox
and every volume has a row (`RowsInv`) and that what a pass has doomed is of a row at its
end (`ReapInv`, `TokenInv`); so a decision on an old reading is still right when it is
carried out. `CountInv` ties the loop's counter to the listings.

**Events** (`EventsProofs`), for any emitters, streams, buffers, pages and chunks:
`EventsTypeCorrect`, `FloorAlwaysHonest`, `StreamsHaveNoHole` (`NoHole`),
`StreamsGoForward` (the action property `InOrder`). `EInv` says that the journal lacks
only a prefix, at or below what the sweeps recorded; that who has yet to broadcast has
the lock and the last cursor; and, per stream, that its buffer is in the order of the
cursors (`BufferOK`), that what a replay has ahead is in the journal or was taken by a
sweep meanwhile (`ReplayOK`), that what a live stream has not delivered is in its buffer,
on its way, or after a lag in the journal (`LiveOK`), and that all it passed was
delivered (`PassedOK`).

**Snapshots** (`SnapshotsProofs`): `MemoryIsTheNamed` (`ServesWhatItNames`),
`StrictIsNeverCold` (`StrictNeverCold`), `PointerAlwaysResolves`, `SnapshotsAreKept`
(`KeptUntilAsked`), `JournalAlwaysMatches`, `NamesAreUnique` (`NamesUnique`). Ids grow, a
row is inserted under the newest id while its operation is alone, and the pointer is at
the newest row or nowhere; so a row at or after the image the sandbox holds is a capture
of that image. Separate invariants carry the agreement of journal and substrate
(`Matched`) and the names (`NameInv`).

**Guest** (`SandboxProofs`): `ResumeIsHonest` (`HonestResume`), `KeyComesFirst`
(`KeyFirst`), `SnapshotIsHonest`; `ChannelIsPinned` (`Pinned`), `ExitIsTheWorkloads`
(`ExitIsWorkloads`). The invariants say which duties are done at each place of an
operation and what its notes tell of those that are not, that the agent is past its store
of the code when it ends, and that a dial past its first check has the host's identity.
A resume whose row could not be read reports no restore, and so is no witness against
`HonestResume`; a hook that could not be asked leaves the snapshot's outcome open.

**Containers** (`SandboxProofs`), for any nodes that share a daemon, any instances and
exit codes: `DockerTypeCorrect`, `ContainersKept` (`ContainerKept`), `PausedIsStill`
(`PausedHoldsNothing`), `ExitsHonest` (`ExitHonest`), `SweepLeavesNoOrphan`
(`NoOrphanAfterSweep`), the parts of `ContainersHonest`. `DockerInv` speaks of one
instance at a time (`Good`): it has its container from the moment its row says `CREATED`
until the operation that ends it, also while that operation is half-way; the run on
record is the container's but while a boot is in flight; and what the daemon answered a
pause or a stop is true of the container before the journal hears of it. Names tell
nodes apart (`NamesApart`), so every action but a crash, the end of recovery and the
sweep changes one instance (`OneCell`). The sweep spares what a row holds as live, and
when it runs no row is half-way any more (`Recovering`).

A property that a run checks was model-checked on the bounds of that run before its theorem
was proved. Most leaves are set reasoning and name Zenon as their prover; the ones that
name none need arithmetic or sequences and go to the SMT solver first.

### Only model-checked

Liveness under fairness and everything stated with `ENABLED` (`EverySettles`,
`ClaimReleases`, `Realised`, `Withdrawn`, `LeaseEnds`, `AlarmAnswered`, `ZeroOrphans`,
`FollowerReturns`, `EveryoneAnswered`, `NeverStuck`) is out of the prover's reach, and so
is what a recursive definition computes for every input (`Wake`, `Logs`, `Paging`,
`Capsules`). Safety that is checked and not proved: `FenceRemembered` of the fleet, and
the properties of `Portable`, `Capsules`, `Hypeman`, `Paging`, `Logs`, `Wake`, `Exec` and
`Files`.

## Assumptions and omissions

* An operation id stands for an idempotency key; a repeated key reads the first row and
  changes nothing, which is a stutter.
* SQLite transactions are atomic and durable.
* In `Ops` a sandbox in standby and a stopped one are both "halted".
* `await_input` / `resume_with_input` have no caller outside tests; the states they use
  are in the tables, the transitions are not taken.
* In the fleet: a journal read or write that fails (the code then skips the name for the
  pass, or gives a lease back it could not record), admission refusals and records that
  do not decode (the lease is held, nothing is started), and the report of an outage
  (events only) are left out. A name is acquired without the retry of
  `acquire_with_retry`, as the phase does. The stamp before the runtime call is one step:
  the journal cannot move between its read and its write while the operation has its
  claim. `FAILED` instances are left to the orphan sweep, so `MayRun` does not count
  them. `FenceRemembered` is about a session with one instance: a rewritten record leaves
  the older one without a row.
* In `Deadlines` and `Events` the clock never goes back (`now_ms` is the wall clock);
  idempotency keys of clients are fresh; a cancellation is a stutter, since the executor
  ends the same way. A guest may answer until the operation that ends it is finalized.
* Contents are abstracted to what the properties tell apart: an object is good, bad or
  absent, an image is a number, a chunk is counted, a certificate is the instance's own
  or another's.
* Not modelled: generated bindings, argument parsing and rendering, preflight and
  configuration, terminals and the vsock bridge, ids and certificates (data or I/O that
  changes no state of the system).
