# Kivi: TLA+ specifications, model checking and proofs

Kivi is a key-value store written in Rust. A namespace is cut into *tablets*; each
tablet is a Raft group with replicas on some of the nodes. A replicated *control
plane* decides where tablets live and how they are split and merged, every node
serves a *directory* that maps keys to tablets, clients run transactions that
span tablets, replicas hold *roster leases* under which they answer reads from their
own state, and the embedded engine keeps its data in a write-ahead log and checkpoints.
This directory holds TLA+ modules for the parts of that system whose correctness
depends on the order in which things happen, the TLC configurations that check them on
small instances, and TLAPS proofs for the properties that matter most. `PROJECT.json`
maps every definition to the lines it models.

How much of Kivi this is: the mapped lines are 4.7% of the implementation. The rest is
listed in section 8. Breadth was given up for whole handlers: a part is specified with all
its error paths or not at all.

## 1. The system

| Part | Crates | Where it is specified |
|---|---|---|
| Tablet directory: allocation, split, merge, retirement, routing | `kivi-tablet` | `DirectorySnapshot`, `Directory` |
| Range arithmetic: hash prefixes, ordered intervals, genesis tilings | `kivi-tablet`, `kivi-server` | `Ranges` |
| Control state machine: nodes, placements, migrations, splits, merges | `kivi-control` | `ControlState` |
| Topology cutover: how a committed plan becomes the directory of every node | `kivi-server` | `Topology` |
| Transactions, cluster: client driver, store entries, resolvers | `kivi-client`, `kivi-state`, `kivi-server` | `TxnStore`, `TxnCluster` |
| Transactions, embedded: the engine's batches and its resolver | `kivi-engine`, `kivi-state` | `TxnStore`, `TxnEngine` |
| Write-ahead log of one lane | `kivi-durability` | `Wal` |
| Group commit, session dedup, live tablets | `kivi-engine` | `ClientRequests`, `CommitPipeline`, `LiveTablet` |
| Checkpoints, sweep, log reclamation | `kivi-checkpoint`, `kivi-engine` | `Checkpoint` |
| The durable node: its three threads, crash and recovery | `kivi-engine` | `Durable`, which implements `DurableStore` |
| Roster leases: engine, driver, coverage gate of a write | `kivi-types`, `kivi-consensus` | `LeaseTiming`, `RosterEngine`, `RosterLease` |
| Everything else | | not specified, see section 8 |

How the parts meet. A split or merge is proposed to the control state machine
(`ControlState`), which admits it or not. The leader's reconciler drives an admitted
plan to `Ready` and pushes it to the nodes; each node also replays the committed
plans it knows of (`Topology`). Both paths apply the plan to a directory snapshot
with the operations of `DirectorySnapshot`, whose sets of points stand for the
hash prefixes and key intervals of `Ranges`. Clients route by those directories and
write; a write that spans tablets is a transaction (`TxnCluster`), whose single
steps are entries applied by the store of one tablet (`TxnStore`). A write to a tablet
with roster leases is acknowledged only after the coverage gate (`RosterLease`), so that
replicas may read locally. In the embedded engine a write goes through the group-commit
pipeline into a log lane, and checkpoints let the log be reclaimed (`Durable`).

## 2. Modules and code

**`DirectorySnapshot`** has the data of one `DirectorySnapshot` and its operations as
operators: each maps a snapshot to the set of its possible results, and the empty set
is `Err`. **`Directory`** calls them in any order on one snapshot; one action per public
method. A range is a set of points with a kind (hash or ordered).

**`Ranges`** justifies that abstraction. It has prefixes and bounds as the code has them
(shifts, masks, absent ends) and compares each operation with the set of points it
stands for. Its steps are the turns of `static_tiles` and then splits and merges of the tiles
in any order.

**`ControlState`** has one action per arm of `ControlState::apply` about nodes, placements,
migrations, splits and merges. Proposals are built from an *image*, a copy of the
allocators read at some earlier time: `images` holds every image a proposer may still
have, so a proposal may be as stale as one likes.

**`Topology`** has a committed set of plans, the view each node has of it, and for each
node the directory it serves. Three activities of a node read and write that directory
with a plain load and a plain store: the replay of committed plans (`ReplayLoad`,
`WorkStep`, `WorkRound`, `WorkStore`), the cutover endpoint (`PushLoad`, `PushStore`), and
the reconciler's own publication. `Crash` loses the directory and the view, `Restart`
rebuilds the directory from the genesis tiling, `Prune` removes the oldest completed
plans beyond the retention cap. The data side of a cutover (fences, seeds) is not in
this module.

**`TxnStore`** has the entries of a transaction as the store applies them: prepare,
finalize, discard, record writes, and the ordinary writes of other clients. A value is
represented by its writer. Versions restart when a key is deleted, as in the code.

**`TxnCluster`** composes it with the client's driver (read, prepare in order, decide,
finalize or discard, re-drive), one resolver task per tablet, and other clients. A call
can be lost: the caller sees an error, and the request stays in `late`, from where it is
applied later or dropped. Each call has an identity of its own, so a request is applied
at most once; a retry is a new request. The age of a reservation is 0, 1 (older than the
resolver's grace) or 2 (older than the lease). `conf`, chosen initially from `Configs`,
says which transactions are guarded, how old a reservation may get while its driver runs,
and which calls may fail.

**`TxnEngine`** composes `TxnStore` with the embedded engine: batches of one process, its
resolver pass, and a crash that kills all drivers and keeps the store. A call to a durable tablet
is prepared on a scratch copy before it is logged (`commit.rs:475`). One that conflicts or
diverges there is an error of that request and changes nothing (`Fails`); one that meets a full
worker queue is refused as well (`Overloaded`). In a cluster such an entry is in the log before it is
applied, so there it faults (`TxnStore`, `state_machine.rs:1009`).

**`Wal`** is one `LocalWalLane` as operators on the lane's fields and on its segment files:
`append_batch` with `ensure_open`, `rotate` and the write, `seal_active_segment`,
`recover_from` with torn tails and floors, and the sealed scans and deletions of
reclamation. An operation that can fail returns the set of its outcomes. Sizes are counted
in batches; an incomplete batch is the constant `Torn`.

**`LiveTablet`** is the committed state of a tablet: positions, session dedup with its cap and
floor, band tracking, replay. **`CommitPipeline`** is the coordinator's queue, open batch and
batch in flight: admission, prediction of outcomes over the overlay, sealing when due, and the
settling of a proof or of a failure. **`Checkpoint`** has incremental builds, publication,
the sweep, loading with the fallback to the previous checkpoint, and `plan_reclaim`.

**`Durable`** composes them. The worker polls (`Poll`), the lane thread seals (`LaneSeal`), the
checkpoint worker goes from `Capture` to `DeleteSegments`, one action per step that another
thread or a crash can come between, clients send and retry (`Submit`), and `Crash` leaves any
prefix of an append that was under way. `restart` records what a recovery from the present
disk would find, so that properties can speak of it at every step.

**`DurableStore`** is the promise: histories of keys that only grow, answers that agree with
them. `Durable` is checked to implement it, with the histories that a restart would rebuild for
`store` (`KeepsPromise`). So every intermediate state of a write, a publication, a sweep and a
deletion is a state from which a crash loses nothing that was told.

**`LeaseTiming`** has the durations of `LeaseParams` with the drift allowance.
**`RosterEngine`** is `RosterEngine` of `kivi-types/src/roster.rs`: grantor and grantee side,
`tick`, `receive`, revocation, quarantine, floors, evidence. **`RosterLease`** runs one engine
per node under the driver of `consistency.rs` (`lease_drive`, `lease_receive`,
`takeover_fence`) and the calls and the coverage gate of `node.rs`. Raft is external there: terms,
logs, elections and commits are modelled by what that code reads of them.

The `MC*` modules give the finite instances. A definition with the word *Mutant* in its
comment stands before the one it changes, and changes it as a plausible bug would; each
property is shown to fail under one of them, so none holds by the shape of the model.

## 3. Runs

`tlc -config <cfg> <module>` runs one of them. State counts are distinct states.

| Run | Config, module | Checks | Result |
|---|---|---|---|
| `directory` | `MCDirectory` | `SingleAuthority`, `RedirectsForward`, `StaleRouteResolves`, `LifecycleForward` | holds, 11,873 |
| `ranges` | `Ranges` | `TilingExact`, `OverlapsIsIntersection`, `MergeUndoesSplit`, `CoverageCheckExact`, `ScanCoversQuery` | holds, 844 |
| `control` | `MCControlState` | `OneLivePlanPerTablet`, `PlacementFrozenUnderPlan`, `PlanOrder`, `AllocatorsAhead`, `PlacementMovesForward` | holds, 80,760 |
| `topology` | `MCTopology` | `CoverageExact`, `SameTabletSameRange` | holds, 525,981 |
| `topology_converges` | `TopologyConverges`, `MCTopology` | `EveryCutoverReachesEveryNode` (liveness) | holds, 42,328 |
| `txn_safety` | `TxnSafety`, `MCTxnCluster` | `Atomic`, `CommitCoversReservations`, `ReportIsTruth`, `ReservedKeyFrozen`, `DecisionStable`, `GuardedWriteSeesRead` | holds, 403,915 |
| `txn_liveness` | `TxnLiveness`, `MCTxnCluster` | `TypeOK`, `ReservationsEnd` (liveness) | holds, 34,129 |
| `engine_txn` | `TxnEngine`, `MCTxnEngine` | `Atomic`, `KeptUntilApplied`, `ReportIsTruth` | holds, 262,063 |
| `engine_recovery` | `TxnEngineRecovery`, `MCTxnEngine` | `AllOrNothing` (liveness) | **violated** |
| `durable` | `Durable`, `MCDurable` | `TypeOK`, `PredictionHolds`, `ReadsAreDurable`, `RestartRebuildsTablets`, `KeepsPromise` (refinement), `EveryRequestIsAnswered` (liveness) | holds, 67,532 |
| `durable_restart` | `DurableRestart`, `MCDurable` | `NothingAckedIsLost` | **violated** |
| `lease` | `RosterLease`, `MCRosterLease` | `TypeOK`, `HoldsAreExcluded`, `QuarantineOutlivesHolds`, `CoveredReads` | holds, 478,464 |

What they show.

* **Directory.** However the operations are called, no point has two active tablets, a
  tablet only moves forward through its lifecycle, redirects only point forward (so chains
  have no cycle, as the comment on `successor_ranges` says, and its visited set is never
  needed to end a search), and a stale route always leads to a tablet that is active or about
  to be replaced.
* **Ranges.** The bit arithmetic on prefixes and the comparisons of bounds agree with set
  operations on the points and splits tile. Merging undoes splitting, in both directions: what it
  joins some split would cut, and it joins the children of every split.
* **Control.** Proposals of any age never give a tablet two live plans, never move a
  placement under a live plan, and keep plan ids in the order replay needs.
* **Topology.** Whatever replays, pushes, overwritten stores, crashes and pruning
  interleave, a served directory sends every key to exactly one tablet, and a tablet id
  means one range on every node and at all times. A node that misses a cutover or restarts
  around it serves it in the end, *as long as the plan is retained*.
* **Transactions, cluster.** With any one fault (a lost or late call, a dead driver) and
  resolvers that may read stale records, a transaction is applied on all its keys or on
  none, has one decision, and its caller is never told otherwise. With drivers slower than
  the grace (but within the lease), or other writers around, reserved keys do not change and
  version guards hold.
  All reservations are released in the end.
* **Transactions, engine.** No batch is applied on one key and discarded on another. Once one write
  is applied, the other keys keep their reservation until theirs is, whoever crashed and whatever the
  resolver tried. A caller is told that its batch committed only if all of it did, and that it
  conflicted or was aborted only if none of it did.
* **Durability.** With appends that fail or tear, a segment that cannot be created, a lost
  checkpoint file and two process deaths, at any step of any thread: nothing acknowledged is
  lost, a retried request executes once and hears one answer, reads never see what a crash can
  take back, a restart rebuilds each tablet exactly, outcomes predicted before the write are
  the outcomes of applying, and no request stays in the pipeline. This is under the three
  configurations of section 5, which keep apart what section 4 shows to go wrong together.
* **Leases.** With an election, a lost message, a restart, a stalled driver or delays: a hold
  outlasts its grantor's exclusion by no more than a message takes beyond the drift allowances
  (not at all when messages arrive within them), and never the quarantine of the
  grantor's successor. When messages arrive within the unit, a node that serves reads has applied every
  acknowledged write whose gate waited for it or whose commit the writer's lease driver had seen.

## 4. Where code and comments disagree

Two runs end in a violation, and each is a finding in `PROJECT.json`.

1. `engine_recovery`. The engine's decision is finalized with a `Delete`
   (`kivi-engine/src/engine.rs:2835`), so it is never stored. After a crash, or a call refused by
   a full queue, between two finalizes the resolver finds no decision and fences, which stores
   nothing either. Its discard of the other key carries the zero digest and is refused on the
   scratch copy (`commit.rs:510`, `2030`), at every pass: the batch stays half applied and the
   key reserved for ever. `Atomic` and `KeptUntilApplied` hold there, since the other write is neither
   discarded nor released. `engine.rs:2598` says "all writes commit or none does".
2. `durable_restart`. After a restart, band tracking starts clean although the replay of the
   log tail changed bands (`kivi-engine/src/engine.rs:1217`). The next checkpoint takes those
   bands from the previous manifest under a cut that covers the replayed records, and the restart
   after that loses acknowledged writes. The comment says "no retroactive dirt is owed".

The following were found with the modules as they are and the constants given, but are not runs of
the project. Where a constant is not named it is the one of the configuration in the first column.

| Configuration | Constants | Violated | What happens |
|---|---|---|---|
| `DurableRestart` | `target` 9, `lives` {1}, `faults` {"publish"}, `Sends(1,1,0)`, `MaxFaults` 1, `MaxCheckpoints` 3 | `NothingAckedIsLost`, 18 states | `capture_view` clears the dirt before the publication that then fails; the next checkpoint reuses a stale band (`engine.rs:1217`). |
| `DurableRestart` | `Tablets` `TwoTablets`, `TabletOf` `OwnTablet`, `target` 9, `lives` {1}, `Sends(1,1,0)` | deadlock, 13 states | The sweep of one tablet deletes the other's installed files (`kivi-checkpoint/src/publish.rs:307`); recovery refuses to start. `publish.rs:304` says it deletes files "no installed checkpoint references". |
| `DurableRestart` | `target` 9, `lives` {}, {"space"}, `Sends(1,1,0)`, `MaxFaults` 1, `MaxCheckpoints` 0 | `NothingAckedIsLost`, 8 states | A full disk leaves a whole batch in the segment, and the lane writes another under the same number (`kivi-durability/src/wal.rs:1460`). `provider.rs:45` says "nothing is half-recorded". |
| `DurableRestart` | `target` 2, `lives` {1}, `Sends(1,1,1)` | `NothingAckedIsLost`, 14 states | The lane rotates between the floor snapshot and the listing (`kivi-engine/src/checkpoint.rs:893`): the floor skips a segment that no checkpoint covers. |
| `DurableRestart` | `target` 9, `lives` {}, {"header"}, `Sends(2,1,0)`, `MaxFaults` 1, `MaxCheckpoints` 0 | recovery refused, 9 states | A segment file without its header is emptied and reused, and is no longer the last one at the next restart (`wal.rs:1232`). |
| `DurableRestart` | `target` 9, `lives` {1}, {"tear"}, `Sends(1,1,0)`, `MaxFaults` 1 | recovery refused, 11 states | `seal_active_segment` closes a segment whose last append tore; a tear that is not in the last segment is fatal. |
| `TopologyConverges` | `Nodes` {n1}, `Tablets` 1..5, `GenesisKeys` {}, `MaxPlans` 2, `MaxRetained` 1 | `EveryCutoverReachesEveryNode`, 24 states | `prune_terminal_plans` (`kivi-server/src/control.rs:2732`) removes completed plans that a restarted node, which replays from the genesis tiling, still needs. The comment on the replay says every member eventually applies every committed cutover. |
| `TxnSafety`, no symmetry | one configuration: `guarded` {}, `age` 0, `versions` 0, no deletes, `faults` {"discard"} | `NeverDiverges`, 14 states | A discard that was lost and is applied after its retry meets the next transaction's reservation; apply returns `TxnDiverged` (`kivi-state/src/store.rs:2973`), which the driver's comment takes for a harmless conflict. |
| `RosterLease` | `Budget(0,1,0,0,0,0,0)` | `LocalReadsSeeCompletedWrites`, 10 states | A lease is being established while the gate looks up whom to wait for (`kivi-consensus/src/node.rs:3004`); its floor was sent before the commit was seen. `node.rs:2929` says "a later local read can never miss an externally completed write". |
| `RosterLease` | `Budget(1,1,0,0,1,0,0)`, no constraint | the same, for writes acknowledged by a restarted node 1 that has no engine yet, 11 states | The quarantine is the engine's, and the gate passes before the first `lease_drive` has made one (`kivi-types/src/roster.rs:925`). |
| `RosterLease` | `Reordering` TRUE, `Budget(1,1,0,0,0,1,0)` | `HoldsAreExcluded`, 19 states | Attempt ids are reused after an election; a delayed message of the first attempt is taken for one of the second. `node.rs:3251` says "message loss/duplication/reordering is protocol-tolerated". |
| `RosterLease` | `Budget(5,0,0,0,0,0,1)` | `RemovalUncoversNothing`, 26 states | The last renewal before the grantor mutes arrives a unit late. The exclusion counts from its sending and the hold from its receipt (`roster.rs:1397`, `1744`), so the exclusion ends first. The comment in `tick` (`roster.rs:1373`) says "removing here never uncovers a live hold". |
| `RosterLease` | `Budget(5,1,0,0,0,0,1)`, the write when `time` is at most 1 | `CoveredReads`, 30 states | The same, with a write in between: its gate no longer waits for the grantee, which reads without it. |

Seen while modelling, in states the modules reach:

* `resolve_successor` (`directory.rs:560`, `608`) returns the first active successor when none
  contains the key; its comment says it returns `None` and never guesses.
* A genesis placement changes a placement without advancing the placement version
  (`kivi-control/src/state.rs:533`); `placement.rs:22` says every change advances it by one.
* Replay and the cutover endpoint store the directory without a compare-and-swap
  (`cluster.rs:698`), so one can overwrite the other and a retired parent is active again
  until the next replay; `cluster.rs:566` says it never reappears. Coverage stays exact.
* `control_merges_create` (`cluster.rs:4630`) does not check adjacency; its comment says so. Such
  a merge is accepted, fences its parents and never publishes.
* A finalize whose answer is lost is applied again by the re-drive (`store.rs:2965`);
  `txn.rs:34` says every step is idempotent.
* A driver that stalls past the lease inside its decision replaces the resolver's `Aborted`
  by `Committed` (`ordered.rs:1187`); the runs and the proofs are for drivers faster than that.
* After a delete a key gets its old versions again (`store.rs:4541`), so a version guard can
  pass on an object its caller never read; `GuardedWriteSeesRead` is checked without deletes.

Seen in reading only: `flush_blocking` (`commit.rs:1344`) with a linger; `commit.rs:32` says there is
no linger timer, and line 120 has one; the comment on the drift allowance gives two formulas
that differ (the code's is the larger, which is the safe side).

## 5. Bounds

Every bound is a constant named in its module, and bounds steps of the environment (plans
created, faults, versions), never what the code does in reply.

* `directory`: three tablets, two points, both layouts. Three tablets allow a split, a
  merge, and chains of two redirects; a version bound of 12 is beyond the longest useful
  sequence of operations. Tablets and points are symmetric: nothing orders them.
* `ranges`: four-bit hashes, seven keys, up to nine genesis tablets, so that counts below,
  at and above a power of two occur, and prefixes of length zero and of full length.
* `control`: two nodes, four tablets, three versions, two plans. A split needs a parent and
  two children, and two plans are what the exclusion properties relate. The constraint
  `Explored` keeps nodes to the three states that `CreateMigration` tells apart, places
  tablets in id order and lets one plan at a time be between its first and its terminal
  phase. The proofs of section 7 have none of these restrictions.
* `topology`: one genesis tablet over three points, two nodes, two plans, five tablets, one
  crash, one retained plan: two splits, or a split and the merge that undoes it, with the first
  plan pruned. Two plans and two nodes are what overwriting a store takes. The action constraint
  `LocalStepsFirst` runs the private computation of a replay, and the change of a plan to `Ready`,
  before other steps: the former read and write one node's own copy only, so they commute with all
  others, and the same directories are served. `FirstSplitAtOne` leaves out the mirror image.
* `topology_converges`: a genesis of two tablets, one plan (a split or their merge), one crash, two
  nodes, enough retention, no constraint.
* Transactions: two transactions that write the same two keys in opposite orders, so that
  they conflict both ways, and one re-drive. `txn_safety` has four configurations: `Faulty` (any one
  call lost, late or never made; reservations younger than the grace while their driver runs),
  `Contended` (guarded writes, other writers), `Slow` (guarded writes, drivers slower than the
  grace) and `Deleted` (other clients delete keys). Drivers slower than the lease and guarded
  writes to keys that are deleted are in none of them, since there the code does what section 4
  says. `txn_liveness` has one transaction and two faults. The symmetry `Swap` exchanges the two
  transactions and the two keys together, which maps the instance to itself.
* `engine_txn`: two batches over the same two keys and one crash or overloaded call. A reservation
  may reach the lease while its driver runs. The constraints are `OneRival` (another client changes one of
  the two keys, and then one batch has not begun: the rival of a batch is a client or the
  other batch) and `OneSlow` (one reservation at a time gets old under a running driver). The proofs have
  neither. `engine_recovery` has one batch, one fault and no constraint.
* `durable`: three requests of two sessions, one repeated, one conditional on a key that another
  writes; batches of at most two; dedup of two outcomes per session, so that one is forgotten; two
  crashes, one fault, two checkpoints. `SoundConfigs` are three ways to run the node: segments
  of one batch, without checkpoints, with failing and tearing appends and rotations; large
  segments with checkpoints in the first life, failing appends and a lost checkpoint file; and
  checkpoints in the second life only. They leave out the combinations of section 4.
* `lease`: two nodes, a lease of three units, a guard of one, renewal every unit. A budget is
  `Budget(time, writes, losses, stalls, restarts, elections, delay)`. Three of the six have a write, next to an
  election, a lost message or a restart (in the first unit, `EarlyRestart`), with messages that arrive
  within the unit. The other three have no write and messages that take up to a unit, alone,
  with a restart and with a stalled driver, and run until leases lapse. Three units are the shortest lease
  in which a late renewal still finds its hold alive. These are real restrictions: messages between
  two nodes arrive in order, both clocks run at the same rate and the slack is zero (drift is in
  the proofs), and with two nodes the floor that a renewal brings never matters beside the one
  that the grant brought. `HoldsAreExcluded` was also run with a lease of four units, a guard of two,
  a drift that makes the slack two, and delays of one to three units.

Deadlock is checked in `durable`, where a state without a step would be a node that never answers
or never starts. The other systems may come to rest, when the bounds are used up or every
transaction has ended.

## 6. Fairness

* `Topology`: weak fairness of each node's sync with the control image, of its restart, of the
  steps of a replay in progress, of a push in progress, and of giving up a pass; strong
  fairness of starting a replay, since a publication on the same node can disable it time
  and again. All are periodic tasks or calls with timeouts in the code. Crashes, proposals and
  pruning have no fairness.
* `TxnCluster`: weak fairness of each driver (unless it crashed), of time, of each tablet's
  resolver and of the delivery of a late request; and from some time on only healthy steps
  happen: resolver passes succeed and read the leader's record, and other clients leave
  the keys alone. This is the usual "after the last fault"; without it a resolver that
  always reads a stale replica would wait for ever, and the code makes no other promise.
* `TxnEngine` (`FairSpec`, for `engine_recovery`): weak fairness of each batch that runs, of the
  resolver, whose passes follow each other, and of time. So the violation is not a resolver that
  never comes.
* `Durable`: weak fairness of a poll after the linger, since the worker loop polls for as long as
  requests are pending; of the lane thread while a batch is in flight; of the checkpoint worker once
  it has begun; and of starting a dead process that can start. The condition under which each is
  enabled is written out. Submissions, crashes, captures and faults have no fairness.

## 7. Proofs

`tlapm <module>` checks them. They hold for every value of the constants, under the named
assumptions, which TLC evaluates in the runs.

| Module | Theorems | Assumptions |
|---|---|---|
| `DirectoryProofs` | `TypeCorrect`, `SingleAuthorityHolds`, `RedirectsForwardHolds`, `LifecycleForwardHolds`, `StaleRouteResolvesHolds` | `MaxVersionAssumption`, `TabletsAssumption` |
| `RangesProofs` | `TilingExactHolds`, `OverlapsIsIntersectionHolds`, `MergeUndoesSplitHolds`, `CoverageCheckExactHolds`, `ScanCoversQueryHolds` | `RangesAssumption` |
| `ControlStateProofs` | `TypeCorrect`, `OneLivePlanHolds`, `PlacementFrozenHolds`, `PlanOrderHolds`, `AllocatorsAheadHolds`, `PlacementMovesForwardHolds` | `ControlAssumption` |
| `TopologyProofs` | `TypeCorrect`, `CoverageHolds`, `OneMeaningHolds` | `MaxVersionAssumption`, `TopologyAssumption`, `GenesisAssumption` |
| `TxnProofs` | `TypeCorrect`, `AtomicHolds`, `ReservedKeyFrozenHolds`, `CommitCoversReservationsHolds`, `DecisionStableHolds` | `TxnStoreAssumption`, `TxnClusterAssumption`, and `TimelyDrivers` in each theorem |
| `TxnReportProofs` | `ReportIsTruthHolds`, `GuardedWriteSeesReadHolds` | as `TxnProofs`; the second also `NoDeletes` |
| `TxnEngineProofs` | `TypeCorrect`, `AtomicHolds`, `KeptUntilAppliedHolds`, `ReportIsTruthHolds`, `ReservedKeyFrozenHolds`, `NothingDecidedHolds` | `TxnStoreAssumption`, `TxnEngineAssumption` |
| `NodeProofs` | durable store: `NothingIsForgotten`, `RetriesAreHarmless` | none |
| | reclamation: `ObsoleteIsCovered`, `FloorSkipsOnlyCovered`, `DeletedIsNeverReplayed` | in each theorem |
| | leases: `HoldInsideExclusion`, `QuarantineCoversForgottenGrants`, `CoverageEndsOnlyByReply`, `DriverKeepsCoverage` | `ParamsValid`, that is `validate` |
| | group commit: `PollKeepsPredictions`, `OtherStepsKeepPredictions` | `RequestAssumption`, `TabletAssumption` |

* **Directory.** The inductive invariant adds to the type invariant that the snapshot passes
  `validate`, that a tablet which does not exist has no redirect, that no tablet was retired
  after the current version, and `RedirectsForward` itself. `SingleAuthority` follows from
  `validate`, which each operation reruns on its result; `RedirectsForward` needs the
  retirement times to be bounded by the version so that a new tombstone is later than all
  others. `StaleRouteResolves` is about chains of any length. A hop that meets only tombstones meets
  a new one (`HopGrows`: the one retired last redirects to a later one), so a search that met no
  live tablet in as many hops as there are tablets would have met more tablets than exist.
* **Ranges.** Every prefix and every interval is a set of consecutive points from `Lo` to `Hi`, and the
  length of a prefix divides its first point (`PrefixAligned`). The inductive invariant `Tiled` says
  that the tiles are such sets, that two of them never meet, and that together they are the whole
  space; `SplitCuts` and `MergeJoins` show that a split cuts one interval in two and a merge joins
  two that touch. The two directions of `MergeUndoesSplit` are `MergedWasSplit` and `SplitMerges`. `OverlapsIsIntersection` rests on alignment: two prefixes that meet are
  nested. The last two theorems need what sorting does: `KeyOrder` shows that `InKeyOrder` lists
  every tile once and by ascending starts, by counting the tiles below each. What holds of
  all powers of two, and of all ranks, is proved from the least number for which it fails.
* **Control.** `PlanOrder` is not inductive because a proposal may be stale. What closes it is
  `ImagesBehind`: no image is ahead of the state, and an image that already saw a plan's
  generation also saw its id taken. `PlacementMovesForward` needs `BlankUnplaced`: a tablet
  without replicas has version 0. `Ahead` bounds ids and versions by the allocators.
* **Topology.** `Good(d)` says that a snapshot passes `validate`, catches no tablet between two
  states, and gives every key an owner. `ApplyGood` shows that applying any plan to a good
  snapshot gives a good one, whatever the snapshot already contains. The inductive
  invariant says that every snapshot, served or being computed, is good, and that every copy
  of a plan has different children. So coverage does not depend on which store
  wins a race, which plans a node missed, or what was pruned. That two nodes never understand
  different ranges by one tablet id (`OneMeaningHolds`) is a statement on all plans ever
  created. Its invariant `MInv` says that there is one function `R` from tablets to ranges which
  every snapshot agrees with, served or being computed, and which gives the children of every copy
  of a plan what `split_child_ranges` or `merge_parent_ranges` derives from the parents. All
  steps keep `R`, except that a new plan extends it at ids that the allocator has never handed
  out: `Below` says that nothing mentions those yet.
* **Transactions.** The theorems are about any transactions, keys and write sets, any number of
  lost, late and dropped calls, of crashes and of re-drives, and other clients that write and
  delete. `TimelyDrivers` says that no reservation gets older than the lease
  (`MAX_TXN_LIFETIME_MICROS`) while its driver runs, though it may outlive the grace; without it a driver that wakes up late overwrites the fence of a resolver
  (section 4), so it cannot be dropped. The inductive invariant `IInv` has three layers.
  `StoreOK` is about the store: a key has at most one reservation, a reserved record has no
  decision yet, writes are applied only under `Committed` and discarded only under `Aborted`
  or `Fenced`, and what is committed is `Secured`: each of its keys has the write or is still
  reserved for it. `Sound` says of every request on its way, whoever sent it, that applying it
  now is harmless; `TaskOK` and `DriverOK` say what a resolver task and a driver in a given
  place may rely on. `IntentOK` and `Dead` separate drivers from fences: whatever is old enough to
  be fenced belongs to a transaction whose driver is gone with all it has sent. The proof then
  has two parts: any sound request keeps `StoreOK` and takes nothing back that the others
  rely on (`ExecuteKeeps`, `Advance`), and every action sends only sound requests. An entry that
  fails to apply (`fault`) stops everything, and is shown to change neither objects nor
  outcomes, so the theorems hold in those states too.
* **What callers are told.** `RInv` stands on top of `IInv`. `Told` says what a driver knows in
  each place: the keys it has finalized have its write, a driver that verifies has its record
  committed, and one that gives up with a negative outcome has no commit on its way (`Coming`): neither
  does it hold an unfinalized commit itself, nor is a finalize of one late. `Evidence` says
  what reservations, late requests and resolver tasks carry: a write that is no delete, to a key of the batch, at
  the version the caller read when the transaction is guarded. `Onward` is what every step then
  does: no write is undone, only a commit on its way is recorded, and versions grow. For
  guarded writes `Fresh` adds that an object is newer than what a caller read or equal to it;
  it needs `NoDeletes`, since a deleted object starts again at version 1, and the
  theorem is false without it (section 4). `TxnStoreAssumption` excludes a transaction that is
  called like a deleted value.
* **Transactions of the engine.** A batch may be overtaken by the resolver in the middle, any call
  may be refused, and the process may crash at any point. The invariant turns on `NothingDecided`: the
  decision is finalized with a `Delete`, so no record is ever there to be read, and the resolver,
  finding none, never applies anything. Its discards carry the digest of a fence, which differs from that
  of the batch (`OwnDigests`, `TaskOK`): on a reservation of a batch they are refused and change
  nothing. So a reservation of a batch is touched by its own driver only. `DriverOK` says what
  the driver has done by the place it is at: every key is reserved before it decides (`Kept`), nothing is
  written before it finalizes, nothing is given up before it discards, and it never does both. `Atomic`,
  `KeptUntilApplied` and `ReportIsTruth` follow, and so does why a batch can stay half done:
  nobody but a driver that is gone could finish it. `AllOrNothing` is false, as
  `engine_recovery` shows (section 4).
* **Durability.** The theorems about `DurableStore` are about the promise; that `Durable` keeps it is
  model-checked. The theorems on reclamation are about `plan_reclaim` and the recovery floor as operators, for any
  listing of segments, any floors and any records. The theorems on group commit are about the
  operators that `Durable` polls with, for any queue, batch and tablets. `Prepared` says of a worker
  that its unapplied items, in the open batch or on the lane, are `Chained`: the n-th item of a tablet
  has the n-th commit after the applied one, and a version that counts the writes of its
  key in the store and in the items before it. `PollKeepsPredictions` shows that a proof applies such a batch
  without a failed assertion (`ItemApplies`, from one item to the next), that an error gives back exactly the
  positions the batch took (`BaseIsApplied`), and that an entry which joins continues the chain
  (`ChainedLonger`). A node without a log starts that way (`FreshNodeIsPrepared`). With the other steps of
  a running worker this is `PredictionHolds` from one start of the process to its end, given that
  recovery leaves tablets that have applied every commit they numbered; that it does is
  model-checked.
* **Leases.** The timing theorems are arithmetic over all durations and drifts that `validate`
  accepts. The other two are about single calls of the engine, for any state of it.

Only model-checked, and why:

* liveness and everything under fairness: out of the prover's reach;
* `Durable` as a whole, with its refinement of `DurableStore`: recovery sorts, filters and replays
  sequences of records by library operators, and what they compute for every log is an induction over data.
  Of `PredictionHolds` only the part between two restarts is proved, as said above;
* the protocol invariants of `RosterLease`: the engine's loopback is a recursive operator.

## 8. What is not modelled

* Raft: the `openraft` library. A tablet is one store to which entries are applied in order.
* The adaptive placement policy: scores over floating-point loads. What it decides enters
  `ControlState` as proposals.
* Codecs, wire formats, parsing: no state. Simulation, laboratory, hardware probing,
  observation and measurement tools: not part of the serving system.
* Whole parts: the control plane's catalog of namespaces, indexes and layouts; failure detector,
  node lifecycle and repair; group reconciler and migrations; the data side of a cutover (fences,
  seeds); consensus node and proposal path; semantic objects and mutations; chunk store and its
  garbage collection; redundancy coordinator; memory fabric; RESP front end; client routing.
* Within modelled parts. Directory: `MultiDirectory` and the redirect accessors. Transactions: routing
  drift, records whose tablet is gone, the single-tablet path, the server-side guard abort,
  index obligations, and transaction ids that come back when the engine restarts its salt. The
  engine's tablets are durable ones; an engine without a log applies in place (`tablet.rs:541`), and is
  not modelled. A read that the engine refuses counts as an absent record, which is what `read_record` makes of it.
  Durability: chunk, fabric and material records, the TTL sweep, several lanes and workers, the
  raft log's records, `flush_blocking`; the planning of a reclamation and the write of its floor record are
  one step, with no crash between them (nothing durable changes before the record). Leases: ALR, consistency tokens, changes of voters and of
  authority, generations within a term; the driver reads its view and the committed index at
  once, and a batch of messages to several peers is sent at once, where `send_lease_batches` waits
  for each peer before it calls the next. A coverage poll and its answer are one step; the
  responder's id is the peer's and its `healthy` flag is set (a poll that finds otherwise counts as not
  answered, which the model has as a poll that does not come).

## 9. Plan

In this order, each with its properties and, where marked *, proofs:

1. `Cutover`: fences, final seeds and intents of a split or merge; no acknowledged write is
   lost across a cutover, with a restart of a fenced replica and a write between its fence
   check and its append.
2. `Migration`*: `next_step` and `drive_plan` over changing leaders; a group never loses its
   quorum to a plan. `NodeLifecycle`*: drain, removal, repair and genesis activation.
   `FailureDetector`: hysteresis of suspicion and grace.
3. `ControlCatalog`*: namespaces, indexes, layouts and their generations.
4. Chunk garbage collection, the redundancy coordinator, the memory fabric's residency, the
   RESP front end's blocking operations, the client's routing and retries.
5. Proofs*: `HoldsAreExcluded`, and the steps of `Durable` as steps of
   `DurableStore`.
