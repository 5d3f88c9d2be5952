# TLA+ models of koi

This directory holds TLA+ models of koi, a small cluster coordinator. koi
elects one node to play the *elector*. The elector picks one *runner* to be
the *master*. Each runner's service supervisor then drives the local service
scripts to match. Every module is translated from the C++ under `src/src/`.
The `map` section of `PROJECT.json` names the source lines that each
definition models.

## 1. Inventory

### Components, their state and their operations

| Component | Source | State | Operations |
|---|---|---|---|
| Cluster layer (elector-role election) | `cluster.cpp`, `cluster.hpp` | `_mode` ∈ {Servant, Candidate, Leader}, tick counter `_t`, `_last_seen`, `_candidate_time`, `_leader`, `_flags` (Elector/Runner/Leader/Failed) | `update()` (one tick: `update_leader/candidate/servant`), `set_leader`, `update_state`, `reply_leader`, `set/clear` flag, `get_elector`, `get/set_masterstate` |
| Peer table | `clusterstate.cpp` | list of nodes (id, name, flags, endpoints, last_seen), `_elector`, `_master` | `update` (upsert, keep the longer name, adopt the Elector flag), `update_seen`, `timeout_nodes` (5 s prune) |
| Heartbeat network | `network.cpp`, `sequence.hpp` | endpoint map, inbound queue, per-sender sequence map | `handle` (sequence gate, then queue), `recv` (drain, skip own and foreign-cluster messages), `send`, `sendto`, `whois` |
| Elector | `elector.cpp`, `elector.hpp` | runner table (`_runners`: state, mode, services, last_seen, last_failed, uptime), `_master`, `_target_master` (map iterators), `_manual_master_mode`, failure log (≤ 10), start time | `update()` = `_repromote_master`, `_check_runner_health`, `_check_master_health`, `_election`, `_forget_old_runners`, `save_state`; `handle` (HealthReport); `load_state` (at start); RPCs `promote`, `demote`, `elect`, `maintenance`, `status`, `failures`; `on_tick` (StateUpdate) |
| Runner | `runner.cpp`, `runner.hpp` | `_state` ∈ {Failed, Disconnected, Stopped, Live, Slave, Master}, `_mode`, `_enabled`, `_failcount`, `_last_transition`, elector info (uuid, last_seen, master, uptime), quorum-loss timer, sequence map | `update()` = `_check_timeouts`, `_update_elector_state`/`_check_elector_transition`, `_check_recovery`, `_check_service_status`; `handle` (StateUpdate, sequence and restart detection); `transition` (drives the supervisor); `on_tick` (HealthReport); RPCs `start`, `stop`, `recover` |
| Service supervisor | `servicemgr.cpp`, `servicemgr.hpp`, `service_info.hpp` | per service: state (9 values), flags, priority, running child and its event; `_target_action` | `start/stop/promote/demote/fail` (set target), `update` (status checks + `update_states`), `_update_service`, `complete_transition`, `check_exitcode`, `verify_states`, `allow_*` priority gates, `forget_failure`, `wait_for_demote`, `wait_for_shutdown` |
| Emitter | `emitter.cpp` | receivers, tick counter (`_current_tick`, the sequence number of every StateUpdate/HealthReport) | `update` (++tick), `immediate_tick`, periodic `_process_tick` |
| Nexus | `nexus.cpp`, `run.cpp` | socket, links, inbound queue, optional runner and elector | `_route` by message kind, `up`/`down` callbacks (start/stop the elector), `update` (drain, cluster tick, elector and runner ticks, Failed flag), RPC dispatch and redirects, `has_quorum`, main loop and restart-on-reconfigure |
| Codec and frame | `archive.hpp`, `msg.cpp`, `crypt.cpp` | an archive's `_data` and `_list_stack` while a message is encoded | append, push/pop container, done, valid; reader; `write_archive`/`read_archive` per message body, `encode`/`decode`; compression, BTEA, nonce |
| CLI client | `cli.cpp`, `cli_command.hpp` | server endpoint, command, start time, `_complete` | `execute_command` (send, resend every 2 s, 6 s timeout), `handle_receive_from` (decode, `command::handle`, follow a redirect) |
| Out of scope | `settings.cpp`, `logging.cpp`, `file.cpp`, `os.cpp`, `globber.hpp`, `hex.hpp`, … | | CLI, config parsing, logging, process spawning, path helpers |

### How the components interact

* All components run on one thread. `nexus::update` runs every main-loop
  iteration (about every 333 ms). It drains the inbound queue, routing
  HeartBeats to the cluster layer, HealthReports to the elector and
  StateUpdates to the runner. Every `cluster_update_interval` it runs one
  cluster tick. Then it runs the elector and runner updates.
* The cluster layer calls the Nexus through callbacks. `_on_up` runs when the
  node becomes Leader: the Nexus starts an elector and sets the Elector flag.
  `_on_down` runs when the node leaves Leader: the Nexus stops the elector.
* The elector's StateUpdates tell each runner who the master is. The runner's
  HealthReports tell the elector the runner's state and services. Both kinds
  are UDP datagrams. They can be lost, duplicated or reordered. Each is gated
  by a per-sender sequence number.
* The elector saves its master choice into the cluster state. Leader
  heartbeats spread that state, so a new elector can reload it (`load_state`).
* A runner state transition sets the supervisor's target action. The
  supervisor's result (error, promotable or not) feeds back into the runner's
  state.

### What is hard

* **Asynchrony and loss.** Heartbeats, StateUpdates and HealthReports are
  UDP. Ticks on different nodes interleave. The election relies on timing
  (`Limit` = 4 ticks), not on a consensus protocol.
* **Timeouts.** The runner's `elector_lost_time` is 3 s and its
  `elector_gone_time` is 8 min. The elector's `master_dead_time` is 5 s,
  `initial_promotion_delay` is 5 s, the failure-promotion timeout is 60 s and
  the forget time is 30 min.
* **Stale references.** The elector keeps `std::map` iterators (`_master`,
  `_target_master`) across ticks, while `_forget_old_runners` erases entries.
* **Restarts.** An elector restart resets its tick counter, which is also its
  sequence number. Runners detect the restart from the uptime going
  backwards. A new elector reloads the remembered master.
* **Child processes.** Scripts run concurrently with the main loop. They can
  time out, be killed, or fail. Priorities order them.
* **Numeric edges.** The recovery backoff computes
  `(int)pow((float)factor, failcount)`.

### Properties that make each component correct

* Cluster layer: eventually exactly one elector-capable node is Leader. The
  spec adds that it is the one with the largest id. Every Leader runs an
  elector.
* Elector: `_master` and `_target_master` always name a runner in the
  table. The elector never promotes a runner while another runner still
  reports a promoted service. Manual mode holds off automatic election until
  `elect`.
* Runner: the runner reaches Master only from Live or Slave, and only on the
  elector's word. It drops its master role when the elector is gone or quorum
  is lost. Failure recovery backs off with a growing wait.
* Supervisor: each step either resolves the target or moves toward it.
  Priorities order start, stop, promote and demote. A timed-out child is
  killed and marks the service failed.
* End to end: at most one runner is Master once messages flow. This is
  best-effort and fails under partition.

## 2. Plan

Modules, in order of importance:

1. **`Cluster`** (done). Election of the elector role among nodes over
   heartbeats. It has crashes and restarts, bounded loss, and rounds of
   equal-period ticks. `MC_Cluster` instantiates it. Checks: leader
   uniqueness, eventual stable leader, and the spec's "largest id wins"
   (violated).
2. **`Elector`** (done). The elector's whole tick pipeline, `handle`,
   `load_state` and the RPCs. Health reports come from an environment that
   sends what runners can send. Checks: no dangling `_master`, no dangling
   `_target_master` (violated), manual mode means no master, and an
   announced master is healthy.
3. **`RecoveryBackoff`** (done). The runner's recovery wait as a pure
   operator with 32-bit `int` conversion, checked against the spec's
   monotone reference.
4. **`Runner`** (done). `runner::update`, `handle` with sequence and
   restart detection, `transition`, and the RPCs, against electors whose
   StateUpdates are lost and reordered. The supervisor is abstracted to its
   target action and a status verdict. Checks: the target follows the
   state, StateUpdates are applied in order (violated), and a Master
   without quorum demotes (violated).
5. **`ServiceManager`** and **`ServiceShutdown`** (done). The per-service
   state machine, `_update_service`, `complete_transition`, priority gates,
   overrides, timeouts, status exit codes and the child handles, plus the
   destructor's `wait_for_shutdown`. Still to come: a refinement of an
   abstract "resolve toward target" spec, and status checks under a timed
   model of `status_interval`.
6. **`KoiSystem`** (not built). It composes Elector and Runner over a lossy
   StateUpdate/HealthReport channel, and gets its elector from Cluster's
   Leader. Checks: at most one Master once the elector is stable (liveness),
   and a two-masters window under partition (a violation that documents the
   best-effort design). It was not built. The run list is full at twelve, and each of its questions is about time: how long two Masters coexist, and when the elector is stable. Answering them needs the elector's, the runner's and the cluster's timers on one clock. Each module keeps its own abstract clock, and joining the three state spaces would be beyond TLC's reach. The runner's half of the question is checked by `ElectorGoneDemotes`.
7. **`Codec`** (done). The chive archive writer as a state machine and
   its reader as a recursive operator. Checks: what is written is read
   back, and every write step refines the abstract `ArchiveSpec` (both violated for lists of 4 kB or more).
8. **`ClusterState`** (done). The peer table of every node, composed with
   `Cluster`'s ticks: upserts, the Leader's embedded list, servant replies
   and the 5 s prune. It checks `get_elector` agreement and, as further
   configurations, the freshness and completeness of the table that
   `has_quorum` counts.
9. **`Rpc`** (done). The CLI's request and its redirects, against
   `ClusterState`'s ticking, crashing peer tables. Checks: an elector
   command is answered (liveness), and a start naming a node runs on that
   node (violated).
10. **`Messages`** (done). msg.cpp's layouts of all five message bodies,
   encoded and decoded. Checks, as further configurations: round trip,
   the endpoint set's mru (violated), the StateUpdate's maintenance flag
   (violated).

`ArchiveSpec` is the first abstract specification, refined by `Codec`. Others worth stating: the elector role as "eventually a
unique leader", and the supervisor as "each service moves monotonically
toward the target's resolving set" (refinement in step 5).

## 3. Modules and runs

Every module has an `MC_` module that fixes the constants for TLC, and one
`.cfg` per run. `PROJECT.json` lists the runs, the mutant of the code
behind each property, the source lines of each definition, the findings and
the hazards.

`PROJECT.json` lists twelve runs. Further configurations are kept beside
them as `.cfg` files and are marked so below. They check secondary
properties. `PROJECT.json` records each result on the matching hazard,
not as a run.

### `Cluster` (cluster.cpp, network.cpp, nexus.cpp tick, run.cpp restart loop)

**State.** The state is per node:

* `mode` is `_mode`.
* `since` and `candFor` are `_t - _last_seen` and `_t - _candidate_time`, saturated at `Limit`.
* `leader` is `_leader`.
* `inbox` holds the senders of the Leader-flagged heartbeats queued by `network::handle`.
* `up` is the set of nodes whose process runs.

**Actions.**

* `Update(n)` is one `cluster::update`. It drains the inbox, runs `update_leader`, `update_candidate` or `update_servant`, and sends heartbeats. Any subset of those heartbeats may be lost, up to `MaxLoss` in all.
* `NewRound` starts the next round of ticks.
* `Crash` and `Restart` are the main loop of `run.cpp` dying and starting a fresh `cluster`.

**Fairness.** `Update` and `Restart` have weak fairness: every node ticks every `cluster_update_interval`, and the restart loop in `run.cpp` restarts a dead process. `NewRound` has weak fairness too.

**Runs.** `MC_Cluster` has nodes {1, 2, 3}, all elector-capable, and `Limit = 4` as in the code.

* `cluster_reliable` (further configuration, holds; 65,194 states) allows one crash and one lost heartbeat. It checks `TypeOK`, `AtMostOneLeader` and `EventuallyStableLeader`. One lost heartbeat is not enough for two candidates to both promote; two are (see `cluster_lossy`).
* `cluster_lossy` (further configuration, holds) allows three lost datagrams and checks `EventuallyStableLeader`. `AtMostOneLeader` is not checked there, because it fails with loss. Two candidates that miss each other's heartbeats both promote after `Limit` ticks. That is the best-effort design: the larger one wins once heartbeats flow again.
* `cluster_largest` (further configuration, violated) checks spec §8.6, "the largest id becomes Leader". A node that restarts while a smaller id leads accepts that Leader as a Servant (`update_servant` takes a Leader flag from any id), and never stands.
* `cluster_settle` (further configuration, violated) checks spec §8.6, "all others settle in Servant". A candidate deposed by a larger Leader keeps its stale `_last_seen`. Its next tick that has no queued heartbeat starts a new candidacy, and this can repeat for ever.

Three nodes and `Limit` ticks are enough for two candidates to overlap and for a Leader to be deposed.

### `ClusterState` (clusterstate.cpp; cluster.cpp drains, `update_state`, `set_leader`, `reply_leader`; network.cpp `send` with state)

`ClusterState` extends `Cluster`. Each `PeerTick(n, d)` is `Cluster`'s `Tick(n, d)` together with what the same `cluster::update` does to node `n`'s `_state`, so the election and the tables move in one step.

**State.**

* `table[n]` is `_state._nodes` of node `n`. It maps each id to its age in rounds since `last_seen` and its Elector flag. The Elector flag is set by `nexus::up` exactly when the node becomes Leader, and cleared by `nexus::down`, so the model sets it from the mode.
* `gossip[m][s]` is the node list that `s`'s queued Leader-flagged heartbeat at `m` embeds: id to Elector flag. A Candidate's heartbeat has none (`NoList`, the empty function; a Leader's list always holds the Leader).
* `replies[m]` holds the senders of the servant replies (`reply_leader`, a unicast `sendto`) queued at `m`.
* `downFor` is a ghost: rounds since each node's last crash.

**Actions.**

* `PeerTick(n, d)`: `_update_state` upserts `n` itself. Then comes the drain, by mode (`Drained`). A Leader upserts every sender, replies included (`Heard`). A Servant, or a Candidate beaten by a larger Leader, follows each Leader heartbeat it lets through (`Follow`): `update_state` absorbs the embedded list stamped "seen now" (`Absorb`), and `set_leader` upserts the sender only when the leader changes. The order of the drain is free, ending at the leader `Cluster` picked. A Leader broadcasts its table as it stands before pruning. `update_seen` refreshes `n`. `timeout_nodes` erases what `is_outdated` finds older than 5 s (`Pruned`). A Servant replies to each Leader it followed.
* `PeerNewRound` ages every entry by one round. `PeerCrash` loses the table and the queues. `PeerRestart` starts with the empty table of `clusterstate::clusterstate`.

**Abstractions.** A round is one `cluster_update_interval`. `nexus::update` ticks the cluster once the interval has passed at a main-loop iteration, so ticks are 1 s to 4/3 s apart. An entry `a` rounds old was therefore last seen between `a` and `4a/3` seconds ago. `is_outdated`'s 5 s may hold from `MinPruneAge = 4` rounds and surely holds from `MaxPruneAge = 6`, and `Pruned` lets any set between the two go. Replies are not lost; `Cluster`'s broadcast losses stand for the network's. Names, addresses and the informational `_elector` and `_master` fields are left out.

**Fairness.** The same as `Cluster`: every node ticks, dead nodes restart, rounds advance. The tick's fairness is stated on `TickedBy(n)`, the step that adds `n` to `ticked`. Only `PeerTick(n, _)` takes that step, and it is enabled exactly when `TickedBy(n)` is, so the formula is the same; TLC evaluates it without recomputing the tables.

**Runs.** `MC_ClusterState` has nodes {1, 2, 3} and `Limit = 4`.

* `cluster_peers` (pass, 272,013 states, about 30 s) allows one crash and no loss. `DownCap = 0` there, because the ghost `downFor` is only read by `LeaderTableFresh`. It checks `AtMostOneLeader`, `EventuallyStableLeader`, and `ElectorFlagsConverge`: once the crashes are over, every live table flags the Leader and no other node, so `get_elector` names the same node everywhere. A deposed Leader's flag is overwritten by the new Leader's list, which carries the flags the new Leader holds. The type invariant `PeersTypeOK` is not part of the run: the bounds it checks (ages up to `MaxPruneAge`, tick differences up to `Limit`) are the model's own saturations. The code's uint64 tick counter has no cap that a bug could break.

  Two further configurations cover loss:
  * `peers_loss2` (holds, 167,287 states, about 20 s) has two lost heartbeats and no crash. It checks `AtMostOneLeader` and `EventuallyStableLeader`, so two candidates never both promote with only two losses. Three losses do give two Leaders for a while (`cluster_lossy`). `ElectorFlagsConverge` is left out there: without a crash or a second Leader, no node is ever deposed, so no flag can go stale.
  * `peers_lossy` (holds) is one crash and one lost heartbeat together: 1,547,224 states in about 4 min, too close to the time cap for the run list.
* `peer_stale` (further configuration, violated) allows two crashes and checks `LeaderTableFresh`: a node dead for more than 5 s plus one round is gone from every Leader's table. Node 1 dies, and Leader 3 keeps listing it until its own prune. Node 2, flapping between Servant and Candidate, absorbs that list with every entry stamped "seen now" (the `last_seen` in the list is ignored, a TODO at clusterstate.cpp:117). Node 3 dies, and node 2 becomes Leader `Limit` ticks later. Its table, which `has_quorum` counts, still holds node 1, dead for eight rounds.
* `peer_complete` (further configuration, violated) has no crash and no loss, and checks `LeaderSeesAll`: the Leader's table eventually lists every live node. Node 1 times out as Servant at a tick with an empty queue. At the next tick, as Candidate, it is beaten by Leader 3 and becomes Servant again without following it. It never drains a heartbeat as a Servant, so it never replies, and Leader 3 never lists it. This needs the tick order to keep alternating, which the wall-clock schedule allows but does not force.

### `Elector` (elector.cpp; runner reports from runner.cpp on_tick)

**State.** The runner table is `known`, plus one function per `runner_info` field. `master` and `target` are the iterators, as runner ids. `manual` is `_manual_master_mode`. `warm` says the elector is past `initial_promotion_delay`. `quorum` is `has_quorum()`.

Time is kept only as the comparisons the code makes:

* `age` is Fresh within `master_dead_time`, Dead beyond it, and Old beyond the 30-minute forget time.
* `recentFail` is true within the failure-promotion timeout.

**Actions.**

* `Update` is the whole `elector::update` pipeline, in code order.
* `Report` is `handle` of a HealthReport.
* `PromoteByName`, `PromoteById`, `Demote` and `Elect` are the RPCs. `Demote` is `rpc_demote`, which calls `DemoteMaster` (`demote_master`): with a master, manual mode is set and the master is cleared; without one, nothing changes and the answer is 'Error: Masterless'.
* `Restart` is `nexus::down` followed by `up` and `load_state`.
* Time passes through `RunnerAges`, `FailureAges` and `WarmUp`.
* The peer table changes through `QuorumChanges`.

There is no fairness: every property checked is a safety property.

**Runs.** `MC_Elector` has two runners with distinct names, so the election has a choice and a runner can be forgotten while another is master.

* `elector_safety` (pass) checks three properties. `MasterNeverDangles` says `_master` never points at an erased entry. `ManualMeansMasterless` says demote mode has no master. `MasterAnnouncedHealthy` says that after each tick the master passes the master health check. Reports carry one state of each class the elector tells apart: Failed, Stopped, Slave and Master.
* `elector_target` (violation) checks `TargetNeverDangles`; this is a **code bug**. `_forget_old_runners` erases the entry that `_target_master` still points at. The steps: promote the current master; the master goes silent and health marks it Disconnected; elections are skipped because there is no quorum; after 30 minutes the entry is forgotten. The next `_election` or `rpc_status` then dereferences an erased iterator.
* `elector_manual` (further configuration, violated) checks `TargetKeptUntilElected`, spec §8.7. A promoted target that is Live when the election runs is dropped, not waited for, and another runner is elected in the same tick.

### `RecoveryBackoff` (runner.cpp `_check_recovery`, `forget_failure`, `rpc_recover`)

**State.** `failcount` is `_failcount`. `gap` is the wait before the last recovery, in units of `auto_recover_time`. `quiet` says the time since the last transition exceeds `failcount_reset_time`.

**The wait.** `Waits` computes `max(1, (int)pow(factor, failcount))`. pow is exact in double while the result fits in an int. When it does not fit, the conversion is undefined behaviour, and the model takes the INT_MIN of x86-64 or the INT_MAX of AArch64.

**Fairness.** `Recover`, `ResetFailcount` and `TimePasses` have weak fairness: `runner::update` runs `_check_recovery` every main-loop iteration, and time passes.

**Runs.**

* `recovery_live` (further configuration, holds) uses factors {1, 2, 3, 8} and `auto_recover` 40. It checks `TypeOK` (the failcount stays within auto_recover) and `FailedEventuallyLeaves`.
* `recovery_backoff` (further configuration, violated) uses the default `auto_recover` of 120 and factor 2. It checks spec §8.9, non-decreasing backoff, and finds a **code bug**: at failcount 31, 2^31 overflows the cast and the wait drops back to one unit. Reaching failcount 31 takes waits of 2^30 times `auto_recover_time`, which is why this finding is kept out of the run list.
* `recovery_reset` (further configuration, violated) checks spec §4.7: "after failcount_reset_time of no further failures, failcount resets to 0". The code resets the failcount only once it has reached `auto_recover`.

### `Runner` (runner.cpp; sequence.hpp; elector `on_tick`; nexus `up`/`down`)

The node's runner follows the elector's StateUpdates and drives its supervisor. `nexus::update` first hands every queued StateUpdate to `runner::handle`, then runs `runner::update`.

**State.**
* `rs` holds the runner's own fields: `st` is `_state`, `target` is the supervisor's `_target_action`, `failcount` is `_failcount`, and `qlost` is `_quorum_lost`. The flags `grace`, `recWait` and `quiet` record whether `quorum_demote_time`, the recovery wait and `failcount_reset_time` have passed.
* `enabled` is `_enabled`.
* `elector` is `_elector` (uuid, uptime, master). `eAge` says how long ago `_last_seen` was: within `elector_lost_time` (Fresh), past it (Lost), or past `elector_gone_time` (Gone).
* `seqnrs` is `sequence::_sequence`, and `quorum` is `has_quorum()`.
* The electors are the environment. `inst[e]` is the running elector instance of node `e`: its number and its tick count. Each `nexus::up` creates a new instance that counts from 0. `net` holds the StateUpdates in flight.
* `heard[e]` records the instance and tick of the last StateUpdate from `e` that was applied. No action reads it.

**Actions.**
* `Update(v, d)` is one `runner::update`, with the supervisor's verdict `v` and `is_disabled()` `d`. The pass itself is the operator `UpdatePass(v, d)`, which gives the runner's fields after it; it composes `CheckTimeouts`, `UpdateElectorState` (with `CheckElectorTransition`), `CheckRecovery` and `CheckServiceStatus` in the code's order. Each of these may call `Transition`, and `ServicesFor` gives the target action that `transition`'s switch leaves.
* `Handle(m)` is `runner::handle`:
  * a new uuid forces the sequence;
  * from the same uuid, a smaller uptime counts as a restart;
  * otherwise `sequence::check` (`SeqAccepts`) drops a seqnr below the stored one.
* `OnTickFailed` is the failed-service transition of `on_tick`.
* `RpcStart`, `RpcStop` and `RpcRecover` are the three RPCs.
* The environment:
  * `ElectorUp` and `ElectorDown` are `nexus::up` and `nexus::down`. `ElectorTick` is an elector tick that sends a StateUpdate naming any master of `Masters`. `Lose` drops a datagram. Reordering comes from `net` being a set.
  * `ElectorAges`, `GraceElapses`, `RecoveryWaitElapses` and `ResetTimeElapses` let time pass.
  * `QuorumChanges` flips the quorum.

Ticks past `MaxTick` all carry `MaxTick`. The runner compares a tick only with stored values, which are at most `MaxTick`, so it treats these ticks as the later ticks they stand for. An elector can therefore keep sending for ever in a finite model.

**Fairness.** `Update` has weak fairness, because the main loop calls it every iteration. `ElectorAges` and `GraceElapses` have weak fairness, because time passes. Nothing is fair for the electors or the network: they may stop, or keep sending.

**Runs.** `MC_Runner` has one elector node, since the runner looks only at the last elector's uuid.
* `runner_safety` (pass, 909k distinct states, about 75 s) has:
  * two instances of that node;
  * StateUpdates naming this node or another;
  * every supervisor verdict, with the supervisor enabled and disabled;
  * `auto_recover` 1.

  It checks `TypeOK` and `ServicesFollowState`: after every step, the target action agrees with the state (Promote while Master, Start or Demote while Live or Slave, Stop or Fail while Disconnected or Stopped, Fail while Failed). One update can make several transitions, and each one adjusts the target by its own rule, so this holding is not a matter of form. The view `MC_View` leaves out the instance numbers and `heard`. No action reads them, so the quotient is exact.

  It also checks `ElectorGoneDemotes`, from spec §4.7: when the runner is Master and the elector has been silent past `elector_gone_time`, the next `runner::update` leaves it not Master, whatever the supervisor's verdict and `is_disabled()`. `_check_timeouts` demotes it, and the stages that follow must not promote it back: `_update_elector_state` ignores a stale elector, and `_check_recovery` and `_check_service_status` never promote. The property is stated over `UpdatePass`, so it is a state invariant and costs no liveness checking. Its mutant drops the freshness guard of `_update_elector_state`; the remembered master then promotes the node again in the same pass. The window until the demotion, in which an old and a new Master coexist, is the best-effort design of spec §4.7; measuring it needs the elector and the runner composed on one clock, which is not modelled.
* `runner_order` (violation) checks `StateUpdatesInOrder`, from spec §4.4 and §5: from each elector node, the runner never applies a StateUpdate older than one it has already applied. Two StateUpdates of one instance arrive swapped. The second one has a smaller uptime, so `handle` takes it for an elector restart, forces the sequence, and applies its stale master. The same property covers a failover, which needs a second elector node: after the new uuid forces the sequence, a delayed StateUpdate from the old elector is also applied.
* `runner_quorum` (violation) checks `QuorumLossDemotes`, from spec §4.7: a Master that has lost quorum eventually stops being Master. The setup is one elector instance that keeps naming this node, services promotable, and no quorum. Once the grace has passed, `_check_timeouts` demotes the node, and in the same `update` `_check_elector_transition` promotes it again. The supervisor's target goes Demote and then Promote at every update, for ever.

### `ServiceManager` (servicemgr.cpp `service_manager`, `service`; cmd.cpp `command`)

**State.** `target` is `_target_action`. `sv[s]` is the service record:
- `st` is `_state`, in the enum order of service_info.hpp, so the code's `<` and `>` comparisons carry over.
- `failed` is the IS_FAILED flag.
- `run` is the event of the tracked child, or `NoEv` when the pid is 0.
- `killed` says SIGKILL has been sent.
- `exit` is `Running` until the child exits, then its status.
- `late` says the event's timeout has passed.
- `lost` records children the supervisor stopped tracking without `waitpid`: `Zombie` if they had exited or were killed, `Live` if still running.

Services are naturals, because the `std::map` iterates in name order. Priorities, script sets and the disabled flag are constants.

**Actions.**
- `Update(m, statusDue, updateDue)` is `service_manager::update`. It runs `verify_states` (`Checked`, `Verified`) when the status interval is due and maintenance mode is off. It returns early when that check fails. Otherwise it runs `update_states` when due: `UpdateLoop` applies `_update_service` to each service in name order, and each service sees the table as the loop has left it.
- `SmStart`, `SmStop`, `SmPromote`, `SmDemote` and `SmFail` are the runner's calls that set the target.
- `ForgetFailure` is `forget_failure`.
- The environment has two actions. `ChildExits` lets a tracked child exit: a killed one with status 0, since WEXITSTATUS of a signalled child is 0; a status script with any code of `StatusCodes`; other scripts with 0 or 1. `TimeoutElapses` sets `late`.
- The per-service operations `SvcStart` through `SvcFail`, `CompleteTransitionM`, `CheckExitcode` and the `Allow*` gates are operators translated line by line from the code, early returns included.

**Fairness.** The main loop calls `update` every iteration and both intervals come round, so a step with the status check and `update_states` is weakly fair. Timeouts elapse, and a SIGKILLed child dies. No fairness is assumed for an unkilled script's exit.

**Runs.** All use two services with priorities 00 and 01. Service 1 has every script; service 2 lacks `demote` and `failed`, so both the scripted and the direct transitions occur.
* `svc_safety` (pass, 150k states) runs `ServiceShutdown`'s specification, so the supervisor may also be destroyed at any point and shut down (next section). Maintenance is on and off. `ShutdownTypeOK` includes a clean handle when there is no pid. `NoUnsupervisedScript`: no child is ever forgotten while it still runs unkilled. `PriorityOrderKept`: starts, promotes, stops and demotes by `update_states` respect the priority order. Status scripts here exit only 0 or 1, because codes 90 to 92 set states outside the gates (`svc_zombie` covers every code). `ShutdownCompletes`: see the next section.
* `svc_zombie` (violation, **code bug**): `NoZombies`. Every SIGKILLed child is forgotten without `waitpid`. This happens on timeouts, on the Starting override, and when `stop()` runs over a running status or start, where `launch_command` overwrites the pid.
* `svc_live` (further configuration, holds): `TargetEventuallyResolved`. Once the target stops changing, every enabled service resolves it again and again, unless one fails. This run has no status scripts. With them, a status check relaunched before each `update_states` can defer `demote()` for ever in the model, and only timing rules that out (see hazards).
* `svc_override` (further configuration, violated): `StopsInPriorityOrder`. The Starting override calls `stop()` without `allow_stop`.
* `svc_unprio` (further configuration, violated): `TargetEventuallyResolved` with a disabled unprioritized service. NO_PRIORITY is -1, so that service gates the prioritized one, which never starts. spec §4.8 says unprioritized services ignore the rule.

### `ServiceShutdown` (servicemgr.cpp `~service_manager`, `wait_for_shutdown`)

`ServiceShutdown` extends `ServiceManager` with `phase`. How the supervisor stops:
1. `koi::run` leaves its main loop (a signal, or a restart for new settings), and the nexus, the runner and the `service_manager` are destroyed.
2. The destructor calls `stop()` (`Destroy`), then `wait_for_shutdown`.
3. Each iteration of `wait_for_shutdown` checks the 360 s cap (`CapReached`, which SIGKILLs and leaves), runs `update_states` (`ShutdownUpdate`), then blocks in `command::wait` on each running child and unruns it (`ShutdownWait`).

`runner::stop`, with `wait_for_demote`, is never called, so it is not modelled.

**Runs.**
* `svc_safety` (above) checks `ShutdownCompletes`: when scripts exit, the loop returns by itself, with no fairness on the cap, from any state the main loop can leave. `shutdown_live` (further configuration, holds) checks the same without status scripts.
* `shutdown_hang` (further configuration, violated): with the cap fair but scripts free to hang, the node never finishes shutting down. `command::wait` blocks, and the cap is only checked between iterations. spec §5 says the supervisor SIGKILLs after a 360 s cap.
* `shutdown_stops` (violation): `ShutdownStopsServices`. Here a start times out in a status check, so the service is marked failed but `fail()` is not called. The shutdown's `update_states` then completes the transition to Started, and the loop, which skips failed services, returns with the service running.

### `Codec` (archive.hpp; msg.cpp `encode`)

Every koi message is a chive archive: a root BigList of chunks, where each
chunk has a type nibble, a size in the header's remaining bits (none, 4, 12
or 20 bits), and a body. `msg::encode` appends the header fields and the
message body, calls `done()` and checks `valid()`. `msg::decode` reads the
same fields back with `reader >>` and `contents()`.

**State.**
* `data` is `_data`, as bytes.
* `stack` is `_list_stack`, with 0-based offsets.
* `phase` is writing, done (done() and valid() passed), or failed (an archive_error, which `encode` catches).
* `ops` bounds the appends.
* `open` is a ghost tree of the values appended into each open list.

String, raw and uuid bodies are a fill byte (`'a'`). What the property
tells apart is where chunks start and end.

**Actions.** There is one action per append overload the messages use:
* `AppendNull`, `AppendBool`.
* `AppendInt`, with the four ranges of `append(int)` and two's-complement bytes for negative values.
* `AppendU64`, for `uint64_t` and `ptime`.
* `AppendUuid`, for nil or not.
* `AppendString`, with the SmallString form and the cut at 0xfff.
* `AppendRaw`, which throws above 0xfff.

`append(vector)` is `PushContainer`, its elements, then `PopContainer`. `PopContainer` back-patches the size as `_pop_container` does. `Done` is `done()` followed by encode's `valid()` check.

**Reader.** The reader is an operator, `Decode`. It is the recursive `chunk_iterator` walk:
* it uses the iterator's own `size()`, `body()` and `operator++`;
* it loops while `_pos != end`, as `operator!=` does;
* `get<T>` throws on a past-the-end iterator.

**Runs.**
* `codec_oversize` (violation): `ArchiveImplemented`. TLC's trace is a list holding a null and a 4093-byte string. The list encodes to 4096 bytes, so `_pop_container` writes its size as 0. `valid()` only checks the root, so it accepts the archive. The refinement breaks at the pop itself. Before the pop, the reader sees the open list holding both values. After it, the root holds an empty list and then the two values as separate fields. `Close` instead gives one list of both. Longer lists make the reader throw. Such lists occur in real messages: a request's arguments, and a runner's service list in `rpc_status`. Messages over 500 bytes are compressed, so an archive of that size can still fit the 8000-byte datagram.
* `codec_roundtrip` (further configuration, holds): `TypeOK`, `RoundTrip` and `ArchiveImplemented` hold over 1,005,251 states, in about 80 s. It uses up to four appends, with ints at every range edge of `append(int)`, strings of 0, 15 and 16 bytes, and raw data of 6 and 4096 bytes, the latter throwing. Lists are nested one deep.

**Abstract specification.** `ArchiveSpec` states what an archive promises. A writer appends values one at a time. `append(vector)` opens a list that holds the values appended until it is closed. A reader sees the same values, nested the same way. Its state is only what a reader would see: the values of each open list, root first (`lists`), and whether the writer has stopped (`finished`). It has no bytes. Its steps are `Add`, `Open`, `Close` and `Stop`.

`MC_Codec` checks `ArchiveImplemented == Archive!ASpec`, where `Archive` is `INSTANCE ArchiveSpec WITH lists <- reads, finished <- phase # "writing"`. The refinement mapping is `MappedLists(data, stack)`: each open list of `_list_stack` is read from its body offset up to the next open list's header (or the buffer's end) by the same `Items` walk as `Decode`. Once the root is closed, the mapping is `Decode` itself. `reads` is an auxiliary variable of `MC_Codec` that holds this mapping, so TLC decodes the bytes once per state. This check is stronger than `RoundTrip`. It holds at every step, not only after `done()`. A bad pop is caught at the pop, and a writer step that left earlier values unreadable would break it at once.

The bounds are enough for what is checked. Each encoding boundary is hit on both sides. A wrapped list needs only one list and two strings.

### `Rpc` (nexus.cpp `handle`, `redirect_to`, `rpc_elector`, `rpc_runner`; cluster.cpp `get_elector`; network.cpp `handle`, `whois`; cli.cpp `client`; cli_command.hpp `command::handle`)

`Rpc` extends `ClusterState`. It adds one CLI request travelling through the cluster while the nodes keep ticking, crashing and restarting. `koi <cmd>` sends a Request to `--host` (by default the local node). `nexus::handle` at that node does one of three things:
* it redirects the CLI to another endpoint, and the CLI sends the same command there (`command::handle` builds a `redirect_command`);
* it runs the request;
* it answers with a message.

**Commands.** Two commands stand for the two routes a request takes:
* `"elector"` is any command of `_elector_rpc` (`promote`, `demote`, `elect`, `maintenance`, `status`, ...). A node that runs the elector (exactly while it is Leader) runs it. Any other node redirects to `get_elector()`, or answers "No elector found" when that is the empty endpoint.
* `"start"` is `start` or `stop`. These are both in `_redirecting_rpc` and in `_runner_rpc`. Given a node argument, `handle` redirects to `redirect_to(arg)` and drops the argument, or answers with an empty response if the node is not in the table. Without an argument, `rpc_runner` runs it if the node is a runner.

**State.**
* `known[n]` is the set of senders in `network::_endpoints`. It is what `whois` can resolve.
* `cli` is the client: its phase, the CLI's machine (`home`), the endpoint it sends to (`at`), the command and its arguments, the node the user named (`goal`, a ghost), the answer and the node that gave it, and its age in rounds.

Endpoints are node ids. The address `0.0.0.0` is the CLI's own machine, `home`: the CLI sends a redirect to 0.0.0.0 to itself.

**Actions.**
* `RpcTick(n, d)` is `PeerTick` plus what `network::handle` records of the senders.
* A node's own table entry always has the address `0.0.0.0:port` after a tick, so `AddrOf(x, x)` is the CLI's own machine. `update()` starts with `_update_state`, which stores that address. A followed Leader's list may then store the real address through `update_state`. But `set_leader` comes right after it and calls `clear(NodeFlag_Leader)`, which calls `_update_state` again (cluster.cpp:221-222, 281-283, 305-310). `mru::insert` makes the newest address the most recent one.
* `CliSend` is `koi <cmd> [node]`, run on machine `h` against node `s`.
* `Handle(x)` is `nexus::handle` at a live node, with `AddrOf` (`redirect_to`), `RpcElector` and `GetElector`/`Whois`, and `RpcRunner`.
* `CliTimeout` is `execute_command`'s `command_timeout`.
* `RpcNewRound` advances the round. A request waiting at a live node is handled before the next round boundary but one: the main loop drains every 1/3 s, and a round is 1 s.

The 2 s resend is not modelled. Requests and responses are not lost. A variant with loss and the resend was tried and dropped: with rounds of 1 s to 4/3 s, every hop of a redirect chain may take almost a whole extra round, so a lost datagram plus a chain of redirects reaches the 6 s timeout in the model, while in real time it takes about 2.7 s. The round is too coarse for this question. A resent `demote` that is run twice answers 'Error: Masterless' the second time, although the first one worked.

**Bounds and time.** `command_timeout` is 6 s and is measured from the client's start time, which redirects never reset. Rounds are 1 s to 4/3 s apart, so the CLI may give up after `TimeoutMin = 4` rounds and surely has after `TimeoutMax = 7`.

**Fairness.** Weak fairness applies to:
* the ticks and restarts, as in `ClusterState`;
* `Handle`, because a live node's main loop drains its socket every iteration;
* `RpcNewRound`;
* `CliTimeout`.

**Runs.** `MC_Rpc` uses `Limit = 4`.
* `rpc_routing` (pass, 366,475 states, under a minute) has two elector-capable nodes, both runners, one crash, and the CLI on node 1's machine. It checks `RpcTypeOK`, and `ElectorRpcAnswered`: an elector command, sent from a koi node's machine while every node is up and no crash remains, is eventually answered by the elector or with "No elector found", never by the timeout. This is so even though `get_elector` may follow a deposed Leader's stale flag, and `whois` may not know the flagged node yet. The new Leader's list overwrites the stale flags within the timeout. A request sent to a node that then crashes, or while one is down, can legitimately time out. That is why the precondition requires every node up and no crash left, and why it holds only at the moment the request is sent.
* `rpc_routing3` (further configuration, holds; 151,222 states) is the same with three nodes, no crash and elector commands only.
* `rpc_wrong_node` (violation, **code bug**): `StartRunsAtTarget`. It has three nodes, runners 1 and 2, and the CLI on any node's machine running `start` with a node argument. TLC finds a trace of four steps:
  1. Node 1 ticks.
  2. On machine 2, `koi -H node1 start node1` is sent.
  3. Node 1's own entry still says 0.0.0.0, so `redirect_to` sends the CLI there.
  4. The CLI sends the start to its own machine, and node 2's runner runs it.

  From a machine with no koi node, the same request times out. spec §4.9 says the command is redirected to the named node. The own entry's address is `0.0.0.0:port` after every tick of every node, so the redirect always goes to the CLI's own machine.

### `Messages` (msg.cpp `write_archive`, `read_archive`, `encode`, `decode`; the endpoint and mru operators)

`Messages` models msg.cpp above the byte level that `Codec` covers. An archive is a sequence of items, each a type tag and a value. A layout is a sequence of ⟨field, type⟩. Each `write_archive` is `Write` over the writer's layout (`HrOut`, `SuOut`, ...), and each `read_archive` is `Read` over the reader's own layout (`HrIn`, `SuIn`, ...). The two are separate definitions because they are separate code. `Fits` is the reader's type check: a wrong type makes `operator>>` throw, and `decode` catches that and fails.

The control is kept:
* the nil-master branch of the StateUpdate, on both sides;
* the has-state branch of the HeartBeat;
* the counts of the service and node lists;
* the reader's range checks on state, mode, action and service state, as written. `> S_NumStates` and `> R_NumModes` accept the count itself. The elector would then log the state through `state_to_string`, reading past its table. No property states this, because koi nodes never send these values and only a datagram encrypted with the cluster password can carry one;
* the Response's name/value pairs read to the end, with a later name overwriting;
* the header's version and op checks.

An endpoint set (`mru<endpoint>`) is written as the List of its addresses in the set's order, and read back by inserting each in turn. Compression, padding, encryption and the nonce are left out: `decode` undoes them, and they do not look at the structure.

The wire is a small state machine. `Build` picks the next message a node builds, and `Transmit` is `nexus::send`'s `encode` followed by the receiver's `decode`. `MC_Messages` enumerates messages of every type as the nodes build them:
* states, modes and actions at the ends of their enums;
* a StateUpdate with no master carrying the defaults that `_send_state_updates` sets;
* heartbeats without state, and heartbeats with state listing up to two nodes whose endpoint sets hold one or two addresses;
* responses over three names and four value types.

**Runs.** These are all further configurations. The run list holds twelve runs, and these checks concern single messages.
* `msg_layouts` (holds, 8,320 states): `ReceivedAsSent`. `decode` gives back what `encode` was given, in the layouts of spec §6, every field at its place. A heartbeat's endpoint sets arrive as sets.
* `msg_mru` (violated): `MruKept`. A node listed with the addresses {1, 2} and most-recent address 1 arrives with most-recent address 2. `cluster::update_state` gives each listed node `n._addrs.get()`, so a node that changed address (or has two) is given the larger one, not the one the Leader heard last. `redirect_to` then sends there.
* `msg_maintenance` (violated): `StateUpdateCarriesMaintenance`. spec §4.6 says the StateUpdate carries the maintenance flag, and `_send_state_updates` sets it (elector.cpp:672), but neither `write_archive` nor `read_archive` handles it. Runners take maintenance from their own settings (`runner::in_maintenance_mode`), so `koi maintenance on`, run by the elector, reaches only the runner on the elector's node. spec §6's schema leaves the flag out, so the spec disagrees with itself here.

## 4. Not modelled (yet)

* `runner::stop`, `settings_changed` and `switch_mode`: nothing calls `stop`, and the mode only feeds the HealthReport.
* The runner's HealthReport contents and the masterstate it forwards to the nexus.
* The supervisor's directory scanning (`update_list`, `_remove_services`, `update_info`). The set of services and their script flags are constants. Also its status summary and log proxy thread.
* `runner::_check_service_status` calls `_services.update(...)` expecting a `ServicesStatus` (Status_Error, Status_Promotable), and `runner::update` calls `_services.is_disabled()`. servicemgr.hpp declares neither: its `update` returns `bool`. `Runner` takes the verdict as an input from a small set, and models the runner's reaction to it from `runner.cpp`.
* In `Elector`, quorum is still an environment variable; `ClusterState` models the table it counts but is not composed with `Elector`. The peer table's names, addresses (`RecentEndpoints`), the empty-name case of `update`, `_elector`, `_master` and `to_string` are not modelled.
* The composition of elector and runners over the lossy StateUpdate/HealthReport channel (`KoiSystem`, Plan item 6, explains why).
* Compression, encryption and the nonce. These transform the finished archive's bytes without looking at its structure.
* msg.cpp writes and reads `hb->_cluster_maintenance`, and cluster.cpp sets `hb->_clusterid`, but `msg::heartbeat` in msg.hpp declares neither member. `Messages` follows msg.cpp's layout, which is also spec §6's: `maintenance:bool` after the master id. Nothing reads the received value.
* The CLI's 2 s resend, which can run a request twice at a node, and the loss of requests and responses (see `Rpc` for why the model's rounds are too coarse for them). `rpc_handle` (`local`) and the cluster's `rpc_handle`. `nexus::rpc_recover` without a node argument looks for a node whose Failed flag is set, then either calls `runner::rpc_recover` (modelled as `Runner`'s `RpcRecover`) or redirects. `nexus_impl::update` sets and clears that flag, and it is as stale as the elector flag of `get_elector`. This routing is not modelled. The CLI's output formatting and argument parsing are also left out.
* Settings parsing, logging and OS helpers. These are I/O code with no concurrent state, and are better served by tests than by TLC.
