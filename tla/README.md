# AetherNet: a TLA+ model of the control plane, the edge, the host and player-state transfer

AetherNet is a Minecraft cloud. A Go daemon runs on every machine; the daemons
share one replicated state machine through hashicorp/raft, and the leader's
scheduler places game servers, watches the machines and scales groups. Plugins
on the game servers (Paper) and on the proxy (Velocity), written in Kotlin, move
players between servers and carry their profiles through Redis.

This directory holds TLA+ modules translated from that code, TLC
configurations that check them on small instances, and TLAPS proofs.
`PROJECT.json` lists components, runs, mutants, the map from definitions to
source lines, findings, hazards and theorems.

    tlc -config MCRaftFSM.cfg MCRaftFSM          # one run
    tlapm RaftFSM_proofs.tla                     # the proofs of one module

## Inventory

| Component | State it keeps | Operations | What is hard | What makes it correct |
|---|---|---|---|---|
| `daemon/internal/raftfsm` | maps of nodes, servers, groups, templates, databases, tokens; idempotency keys; subscriber channels | Apply (15 command types), Snapshot, Persist, Restore, Subscribe, publish | snapshots are encoded while Apply goes on; replay after restart; slow subscribers | equal maps at equal indices; a used key stays used; events follow the log |
| `daemon/internal/cluster` | a handle on Raft | Apply, IsLeader, AddVoter, JoinExisting, ObserveLeaderChanges | leadership lost, or the caller gone, while an entry is in flight | what was acknowledged is committed |
| `daemon/internal/heartbeat` | none (writes its node record) | broadcast every 500 ms | only the leader sends | live machines are recorded Up |
| `daemon/internal/scheduler` | none (reads and writes the FSM) | tick: liveness, markNodeDown, evacuate, autoscale; PickHost | every step reads, decides and commits later; a new leader starts on an older state; the leader dies inside a tick | dead machines are detected, HA servers move, others stay, groups keep their bounds |
| `daemon/internal/api` | none | REST start, stop, restart, delete; gRPC Subscribe; tokens, firewall, mods | read-modify-write without a lock, concurrent with the scheduler | whole records only; no update undone that matters |
| `daemon/internal/tasks` | none; SignAPI caches the last sign states | CreateGroup, DeleteGroup, CreateTemplate, DeleteTemplate; Publish | checks before commits; several commits in one call | groups name templates that exist |
| `bridge/paper`, `bridge/common` | Redis keys `lock:player`, `player:data`, `player:route`, `server:players`; MariaDB row; `pendingProfiles` | quit, pre-login and join handlers of two plugins | lock set by an asynchronous task, TTLs, timeouts, failures between calls, crashes | the profile that arrives is the last one; no lock for ever; the index names the right server |
| `bridge/velocity`, `api/grpc.go` | server registrations in the proxy | event stream, register, unregister | events overlap the initial state, are dropped or die with a stream | the table follows the records the stream carries; players are never sent to an address at which a server was not ready |
| `keepalived` | the role in `keepalived.conf` | follow leader changes, write and reload | observations dropped in two channels, a reload that fails after the rename | the address is on the leader |
| `haproxy` | `haproxy.cfg`, blocked addresses | render, validate, rename, reload; block, sweep | a crash between two of those steps; expiry racing a new block | only validated files in place; one rule for each blocked address |
| `firewall` | the chain `AETHERNET_FW` | open, close, block, unblock, flush | a flush that fails half way | blocks come before what they block |
| `snapshot`, `rcon` | a connection; the server's save-off flag | backup, command | overlapping backups, late answers, refusals that go unnoticed | saving is off while files are read and on afterwards; an answer belongs to its command |
| `docker`, `tasks/templates.go` | containers, ports, scratch directories | start, stop, remove, salvage, materialize, clean up | a port is picked and released; names stay taken; leftovers | the port returned is the server's; a clone is fresh |
| `database/provisioner.go` | a database, its user | create, drop | a retry after some statements took effect | the account that is returned works |
| `tasks/sign_api.go` | the last state of each sign | publish | recorded before it is sent, outside the lock | signs show the last state |
| `modproxy/updater.go` | a queue of updates | scan | a queue nobody drains | updates are queued |
| `api/rbac.go`, `api/server.go` | tokens in the FSM | issue, revoke, authenticate | the node asked may be behind the one that revoked | a revocation holds everywhere in the end |
| `cmd/aether-daemon`, `api/server.go` | which parts run | start, serve, shut down | two goroutines shut down; calls that never end | the Raft node is closed last, and the process ends |
| workbench, `sftp`, rest of `modproxy`, `metrics`, `config`, panel, installer | external systems and files | I/O | | not modelled; see below |

How they interact. Every mutation of the FSM is a command that goes through
`cluster.Apply` on the leader: a caller reads maps under the FSM's read lock,
lets go of it, decides, and commits later. Heartbeat and scheduler are two
tickers of 500 ms on every daemon that do nothing unless `IsLeader()`. The API
handlers run concurrently with both. The FSM tells subscribers (the gRPC
streams to proxies) what it applied. The Paper plugins share nothing with the
daemon but server ids; they synchronise through Redis alone. `main.go` wires
Raft, scheduler, heartbeat, firewall chain, SFTP, metrics and API; the packages
`haproxy`, `keepalived`, `snapshot`, `tasks` and the updater and provisioner are
complete but not started there, so their modules let the environment call them.

`hazards` in `PROJECT.json` lists, with lines, what in this code is hard to
test; the properties below are aimed at that list.

## Modules

| Module | Models | Used by |
|---|---|---|
| `RaftFSM` | `raftfsm`, `cluster.Apply`, the subscriber channel | `MCRaftFSM`, `RaftFSM_proofs` |
| `RaftFSM_proofs` | theorems about `RaftFSM` | |
| `Scheduler` | `heartbeat`, `scheduler`, REST server calls, `tasks/groups.go` | `MCScheduler`, `Scheduler_proofs` |
| `Scheduler_proofs` | theorems about `Scheduler` | |
| `PlayerSync` | both Paper plugins, `RedisStateStore`, `RedisClient` | `MCPlayerSync`, `MCPlayerSyncPlugins`, `PlayerSync_proofs` |
| `PlayerSync_proofs` | theorems about `PlayerSync` | |
| `RouteTable` | abstract: what a proxy's table promises to players | `Routing` (`INSTANCE`) |
| `Routing` | event stream of one daemon, `proxyGRPC.Subscribe`, `AetherNetVelocityPlugin` | `MCRouting`, `Routing_proofs` |
| `Routing_proofs` | theorems about `Routing`, the refinement of `RouteTable` among them | |
| `LeaderVip` | `ObserveLeaderChanges`, `keepalived` | `MCEdge`, `Edge_proofs` |
| `HAProxy` | `haproxy/manager.go` | `MCEdge`, `Edge_proofs` |
| `RateLimiter` | `haproxy/ratelimit.go` | `MCEdge`, `Edge_proofs` |
| `Firewall` | `firewall/iptables.go` | `MCEdge`, `Edge_proofs` |
| `Edge_proofs` | theorems about these four | |
| `Backup` | `snapshot`, `rcon` | `MCHost`, `Backup_proofs` |
| `Backup_proofs` | theorems about `Backup` | |
| `Containers` | `docker/controller.go`, `tasks/templates.go` | `MCHost`, `Host_proofs` |
| `Provisioner` | `database/provisioner.go` | `MCHost`, `Host_proofs` |
| `SignAPI` | `tasks/sign_api.go` | `MCHost`, `Host_proofs` |
| `Updater` | `modproxy/updater.go` | `MCHost` |
| `Tokens` | `api/rbac.go`, `withAuth` | `MCHost` |
| `Daemon` | `main.go`, `api.Server` | `MCHost`, `Host_proofs` |
| `Host_proofs` | theorems about `Containers`, `Provisioner`, `SignAPI`, `Daemon` | |

Components of the edge and of the host are also checked on their own, without an MC
module, where TLC shows a disagreement with what is written about one of them.

Operators whose comment begins with "Mutant:" are plausible bugs. None of them
is used by a specification; each shows that one property can fail.

### RaftFSM

`log` is the committed log and `uncommitted` the tail that a change of leader
may cut: that is all the daemon relies on of Raft, which is external. Per daemon
there is `fsm` (the maps), `applied` (how far the log has been applied), `inHand`
(what `Snapshot()` returned and `Persist` has not written yet), `store` (the
snapshot store) and `subs` (subscriber channels). `waiting` and `acked` are the
calls of `cluster.Apply`. `hist` is a history variable: what the maps are after
each committed entry.

`ApplyCommand` is `FSM.Apply` as a function of the maps: the envelope is
decoded, the idempotency key looked up and recorded *before* the payload is
decoded, then the switch runs. `ApplyLog` is the whole handler: maps, events and
the return to a waiting caller. `Persist` is a separate step, as in the code,
where Raft encodes a snapshot while further entries are applied. `Restart` is
`NewFSM` and `Restore` of the newest snapshot; `InstallSnapshot` replaces a
follower's maps and publishes nothing. A row is a record of two fields, because
`set_state` and `set_host` change one and keep the other; payloads are abstracted
to whether they decode.

### Scheduler

`fsm` here is one record of maps: `RaftFSM` shows that replicas agree. What the
code does between two commits is a step of its own: `sched` is the scheduler's
program counter and local variables (`todo`, the copied node records; `orphans`,
the copied servers; `seen`, the servers by group; `out`, the command handed to
Raft), `requests` are API and service calls between their read and their commits.
`late` holds entries that the last leader had handed to Raft and that its
successor has in its log but has not applied; the successor's scheduler does not
wait for them, since `Run` tests `IsLeader` and calls no barrier.

Time is counted in periods of 500 ms. The age of a node record is the number of
periods since its `LastHeartbeat`, cut off one above the last threshold. In each
period the leader's heartbeat and scheduler tickers fire once, in either order.
Commits are fast against a period and clocks agree: these are assumptions.
Free memory is abstracted to whether there is room, so any viable host may be
the one with the most. A heartbeat is one step, except that it may be in flight
when the leader loses office.

An Apply of the scheduler commits, is cut off by a change of leader, or fails in
office (`SchedulerCommitFails`): the code drops the error or logs it and goes on, so
that `evacuate` runs although Down was not recorded. `flaws` is a history variable
about the latest tick: `"stale"`, it began before the log of the earlier leader was
applied, and `"failed"`, one of its Applies failed.

### PlayerSync

One player, since all keys are per player. A profile is a version number;
`truth` is the version the player last had in hand. Game servers run one of the
two plugins (`Paper` is the set with AetherPaper; the jar's `plugin.yml` and
`paper-plugin.yml` name different main classes). They share the Redis keys and not
the format, so what is stored is a blob: a version and the format it is in. CloudBridge
drops a blob that does not begin with its version number 1; AetherPaper's `onJoin`
throws on one that is no Bukkit object stream, short of `setRoute` and `trackOnline`. A quit is a task whose steps are
the calls to Redis and MariaDB; every one of them may throw. `adverse` records
which kinds of misfortune have happened, so that the properties can say under
which circumstances the transfer is right.

### Routing and RouteTable

`rec` is the FSM's server table; every command that changes a row publishes an
event into `events`, the channel of 100 that `Subscribe` asked for, and a full
channel drops it. `stream` is the handler's place: the channel is registered,
the servers are read, the Ready ones are sent, then the loop forwards. Only
`server_upsert` events are forwarded, and only in states the switch knows: a
`set_state`, a `set_host`, a removal, an Orphaned record and a restored snapshot
never reach the proxy. `wire` are the messages that the plugin has not handled,
`table` is Velocity's registry, `alive` whether the collecting coroutine still
runs. The FSM keys servers by id and Velocity by name; a name is what the caller of
the REST API sent, and neither side checks it. `NameOf` is therefore any function: a
namesake's STOPPED unregisters a server that is Ready, and a namesake that is Ready at
its own address makes `registerServer` throw. `status` is a history variable that says, per server, whether the last
change is one that the stream carries; `FollowsRecords` and `ReadyRouted` are
about those, for servers with a name of their own, and hold through the overlap of
events and initial state.

`RouteTable` is the abstract specification: a name is bound, or bound anew, only to an
address at which a server of that name has been Ready, and freed only when a server
of that name has stopped or crashed. `ImplementsRouteTable` checks that
`Routing` implements it, through `INSTANCE RouteTable WITH` a mapping that is the
identity on the history variables `readyAt` and `gone` and on `table`; the theorem
`ImplementsRouteTableThm` proves it for every instance.

`GrpcStreamClient.streamEvents` is a placeholder in the repository (it waits for
ever); the stub call that its comment describes is taken as external.

### LeaderVip

Per node: Raft's observer channel `obs` and the goroutine's channel `out`, both
of 8 and both dropping when full, the watcher's current write `todo`, the role in
the file (`conf`) and the role keepalived runs with (`running`), which differ
when a reload failed. `naming` is `strings.Contains(leaderAddr, myNodeID)`: a set of
pairs, any of the constant `Namings`. Leader addresses are resolved to `ip:port`, so
with ids such as `node-1` it is empty; with ids that are addresses it is exact, or
holds for a pair too many when one id is a prefix of another.
`Holders` is VRRP: a highest priority.

### HAProxy, RateLimiter, Firewall

`HAProxy.sync` is `Sync` in its steps: two reads, temporary file, `haproxy -c`,
rename, reload; each command may fail, and the daemon may die in between. A
configuration is the set of backends it names: nodes that are Up, and servers with a
port, `ready` or not. `RateLimiter.blocked` counts down
to the deadline, with 0 for the instant `until` itself, at which the address is
neither blocked any more nor expired yet. `odd` remembers for each address what
went wrong, since the properties only hold without it: a second flood between
expiry and sweep leaves a rule for ever. `Firewall.chain` is the rule list in order.

### Backup

One game server, several calls of `BackupServer`, each with its own connection.
`cmd` is the packet id, which counts from 1 as in `Client`. The server answers in
order and late if it likes, and a read that hits its deadline leaves the answer
in the connection. `marks` and `acked` are history: what disturbed a backup, and
which commands returned without error. Objects are named by the second.

### Containers

`call` are invocations of `StartServer` between the pick of a port, the create
and the start. A stopped container keeps its name, so that a later `StartServer`
fails until `RemoveServer`. A container exits on its own at any time and gives its port
up; the policy `unless-stopped` starts it again unless the port is taken by then. A
scratch directory is abstracted to the kinds of file in it, and `os.RemoveAll` may stop
half way. `MaterializeScratch` and `CleanupScratch` have no caller in the repository.

### Provisioner, SignAPI, Updater, Tokens, Daemon

`Provisioner` carries out the statements of `Create` and `Drop` one by one; a
failing statement may have taken effect. `SignAPI` has the recording under the
mutex and the publish outside of it as two steps. `Updater` is the scan with its
blocking send. `Tokens` is a log of upserts and removals and how far each node's
table is; `RaftFSM` shows that tables follow the log. `Daemon` has `run` and the
goroutine of `Serve` with the `sync.Once` between them, and calls in flight.

### MC modules

`MCEdge` and `MCHost` compose the modules above. The components share no variable, so a
behaviour of the whole is an interleaving of one behaviour of each, and every
property speaks of a single component. `focus`, fixed by the initial state, picks
the component that moves; the other ones stay in their initial states. That
keeps the state space a sum and not a product. Fairness is stated for each
component's steps and concerns the one that moves. `HAProxyCatchesUp` is
`EdgeConverges` with that premise; the other temporal properties hold trivially in
the initial states of components that do not move.

Three runs put several questions about one specification together in the same way.
`fsm` asks about replicas, without subscribers, or about the events of the subscribers
of one daemon (`OneQuestion`). `sched_progress` has failover, without calls and without
a deposed leader, or a group with both (`OneTrouble`): the steps that the constraint
leaves out are never subject to fairness, so no behaviour is cut off that would have to
go on, and `RehostedInTerm` says itself that no live leader is deposed. In
`MCPlayerSyncPlugins` the player stays among the servers of one plugin.

## Runs

Passing runs:

| Run | Checks | Instance |
|---|---|---|
| `fsm` | `TypeOK`, `ReplicaAgreement`, `AckedCommitted`, `RetryHasNoEffect`, `EventsFaithful` | 2 daemons, 1 restart, and 3 proposals: of an upsert with a key and a `set_state` without, or of upserts with a subscriber and a channel of 2 |
| `fsm_live` | `Convergence` | 2 daemons, 1 subscriber each with a channel of 1, 2 proposals out of five kinds of command |
| `sched_safety` | `DetectionBound`, `PlacedOnUp`, `NonHAPinned` | 3 daemons, 1 server, 1 crash, 1 deposed leader, 3 periods without a leader, 1 API call, 1 Apply that fails in office |
| `sched_progress` | `TypeOK`, `RehostedInTerm`, `GroupReachesMin` | 3 daemons; 2 servers, 1 crash, no leader deposed, 1 period without a leader; or a group of exactly one, 4 server ids, 1 deposed leader, 1 call |
| `playersync` | `TypeOK`, `FreshWhenCalm`, `IndexWhenCalm`, `LockFreed` | 3 logins, 2 versions; 2 CloudBridge servers, one without a data source, and 2 misfortunes, or 2 AetherPaper servers and 1 misfortune |
| `routing` | safety: `FollowsRecords`, `CollectorSurvives`; temporal: `ReadyRouted`; refinement: `ImplementsRouteTable` | 2 servers of one name and 1 with its own, 2 addresses, 3 changes, 1 broken stream, channel and window of 2 |
| `edge` | safety: `VipFollowsLeader`, `OnlyValidated`, `RulesMatchMap`, `BlocksFirst`; temporal: `VipSettles`, `HAProxyCatchesUp`, `FloodUnblocked` | `LeaderVip`: 2 nodes, three namings, channels of 1, 2 elections, 1 fault. `HAProxy`: 2 nodes, one of which haproxy refuses, 1 server, 3 changes, 2 faults. `RateLimiter`: 1 address, 3 floods, 2 faults. `Firewall`: 2 servers, 1 port, 1 address, 3 rules, 1 fault |
| `host` | safety: `AckedExecuted`, `KeyNamesArchive`, `ConsistentArchive`, `ReturnedPortServes`, `CredentialsWork`, `SignsFollow`, `QuiescentAtClose`; temporal: `SavingResumes`, `UpdatesScheduled`, `TokensTakeHold`, `SignalExits` | `Backup`: 2 backups of 2 reads, 1 autosave, 2 seconds, 1 fault. `Containers`: 2 servers, one of them dynamic, 2 starts, 2 ports, 1 fault. `Provisioner`: 2 creates, 2 drops, 2 faults. `SignAPI`: 2 publishers, 2 servers, 2 states, 4 publishes, 1 fault. `Updater`: 4 jars, queue of 3, 3 releases, 2 faults. `Tokens`: 2 nodes, 1 token, 3 faults. `Daemon`: 2 gRPC calls, one of them a stream, 1 HTTP request |

Why the bounds are enough to be interesting. `fsm`: a retry after a change needs
three entries, and a snapshot that goes wrong needs one apply between `Snapshot`
and `Persist` and one restart; three events overflow a channel of two, so that two stand
in it, one is dropped and the order has a gap. `fsm_live`: a channel of one is full at
once. `sched_safety`: deadline and grace are one period each, so every
node goes through Up, Suspect and Down; a leader can die and its successor be deposed
with writes of both under way, and three periods without a leader make any entry that
it left overdue. `sched_progress` has no Apply that fails in office:
one that does costs the move or the instance, and the first is for good (see
`sched_handover`); four ids suffice for the instances that two leaders
may spawn and one started by a call. `playersync`: a stale profile
needs a version, a second one and a login after each. `routing`: two namesakes are what
it takes for one server's events to change the entry of another, and the third server
shows that its own entry is right meanwhile; three changes give a server that is Ready,
stops and is Ready elsewhere, with a stream that breaks anywhere between; the commands
write Ready, Stopping and Stopped, as Starting is handled like Stopping and Crashed like
Stopped. `LeaderVip`: channels of one overflow with the second observation.
`RateLimiter`: three floods are a block, an extension and a block after expiry.
`Backup`: two backups overlap or follow each other, and one fault is one late
answer, lost connection, restart or crash at any place; an archive of two reads is
the shortest that can be torn. `Updater`: three releases fill the queue when scans repeat.

Deadlock is not checked in any run: all counters are bounded, and an instance
that has used its bounds up may stop.

Fairness. `RaftFSM.FairSpec`: Raft's apply goroutine goes on while there are
entries. `Scheduler.FairSpec`: tickers fire, commands handed to a leader commit,
time passes, and a quorum without a leader elects one. `PlayerSync.FairSpec`:
quit handlers run to their end and Redis honours a TTL; nothing else is assumed
fair, in particular no subscriber has to read and no player has to log in.
`Routing`: the client reconnects and the handler and the collector go on.
`LeaderVip`: Raft tells each node of its leader, and goroutine and watcher go on.
`HAProxy`, `RateLimiter`, `Updater`: the tickers fire and time passes. `Backup`: a
backup goes on, since its calls have deadlines, and the game server serves what it
received. `Tokens`: every node catches up with the log. `Daemon`: its goroutines
go on and unary calls end; nothing makes a proxy hang up.

`RehostedInTerm` holds under two restrictions that the code needs: the leader
that declared a node dead stays in office until it has moved the servers (the
handover run shows what happens otherwise), and an election takes less than
deadline plus grace, so that the new leader has written its own heartbeat, and is
a viable host, before it finds its predecessor overdue.

Runs that show a disagreement between the code and what is written about it:

| Run | Property | What happens |
|---|---|---|
| `sched_live` | `LiveNodesStayUp` | A follower's `broadcast` returns without sending; a former leader that runs is recorded Down after three seconds |
| `sched_handover` | `HAServersRehosted` | The leader commits Down and loses office before `evacuate`; Down nodes are skipped ever after, and HA servers stay on the dead node |
| `sched_bounds` | `LiveCountKept` | Stopping records are counted as instances: a group of exactly one, with one extra start, ends with no live instance |
| `playersync_race` | `ReadsPostQuit` | CloudBridge sets the lock in a task after the quit event; a login elsewhere that checks before it fetches the profile of the quit before. The run starts after a first quit that was left in peace (`FirstQuitOver`), so that there is a profile to fetch |

Twelve more disagreements are findings without a run of their own in `PROJECT.json`.
Each has a configuration under which TLC finds the counterexample within seconds
(`tlc -config <cfg> <module>`); the property is the text of the repository, quoted in
the finding with its line. The finding names the passing run that has the same
component in it.

| Module, cfg | Property | What the code does | What is written |
|---|---|---|---|
| `MCScheduler`, `MCSchedulerDeadline.cfg` | `DownAtDeadline` | Past the deadline a node is Suspect; Down comes a grace later, three seconds as shipped | `scheduler.go:31` "a node missed this much heartbeat -> Down", `docs/architecture.md:39` "declared dead after 1000ms" |
| `MCScheduler`, `MCSchedulerSilent.cfg` | `DownOnlyWhenSilent` | A daemon that is elected again finds its own record of its last term; its heartbeat commits, and `markNodeDown` writes Down over it | `docs/architecture.md:82-84` "When the leader observes `now - lastHeartbeat[N] > 1000ms`" |
| `MCPlayerSync`, `MCPlayerSyncFormat.cfg` | `ProfileTransferred` | A player goes from a server with one plugin to one with the other: the profile cannot be read | `AetherPaperPlugin.kt:24-25` "inject the NBT before the player actually spawns" |
| `MCRouting`, `MCRoutingUpdate.cfg` | `ReadyUpdates` | A server Ready at a second address is not updated: `registerServer` throws and the collector ends | `AetherNetVelocityPlugin.kt:62` "register/update server in Velocity" |
| `LeaderVip`, `MCLeaderVip.cfg` | `VipOnLeader` | No id occurs in an `ip:port`; every node writes BACKUP | `vip.go:3` "a single floating VIP that follows the Raft leader" |
| `HAProxy`, `MCHAProxyReady.cfg` | `OnlyReadyServed` | The filter asks for a port, not for a state | `manager.go:163` "Filter only READY servers" |
| `RateLimiter`, `MCRateLimiter.cfg` | `UnblockedAfterTTL` | A flood between expiry and sweep inserts a second rule; the sweep deletes one | `ratelimit.go:14-15` "IPs are unblocked after BlockTTL unless they continue flooding" |
| `Containers`, `MCContainers.cfg` | `CloneIsFresh` | Salvaged logs are in the directory that the next clone is copied over | `templates.go:20` "Dynamic templates clone fresh on startup" |
| `Provisioner`, `MCProvisioner.cfg` | `PasswordOpens` | `CREATE USER IF NOT EXISTS` keeps the old password; the new one is returned | `provisioner.go:35` "the newly created database credentials" |
| `Updater`, `MCUpdater.cfg` | `EveryUpdateScheduled` | Nothing drains the queue; the updater blocks for ever | `updater.go:27-28` "The daemon drains it on server restart" |
| `Backup`, `MCBackup.cfg` | `NoDirtyReads` | A second backup's flush writes while the first reads | `engine.go:55` "avoids dirty reads" |
| `SignAPI`, `MCSignAPI.cfg` | `DuplicateShown` | The retry of a failed publish is dropped as a duplicate | `sign_api.go:44` "deduplicate" |

The passing runs check what remains true: each of these properties has a weaker one
next to it that names the circumstances, and that holds and, unless it is about
liveness, is proved (`FreshWhenCalm`, `FollowsRecords`, `VipFollowsLeader`,
`EdgeConverges`, `RulesMatchMap`, `CredentialsWork`, `UpdatesScheduled`,
`ConsistentArchive`, `SignsFollow`, `DetectionBound`).

What the passing runs taught about the code, beyond "no error":

* `DetectionBound` leaves out two ticks. The first tick of a term may begin before the
  log of the earlier leader is applied, since `Run` calls no barrier: a leader dies
  with a heartbeat, or a copy marked Suspect, in the log; the cluster stays without a
  leader until that record is overdue; the successor's tick looks at the node and ends;
  then the entry puts an overdue record back as Up or Suspect. The next tick puts it
  right, so detection is late by one period. The other is a tick in which an Apply
  failed. In the model the entries left over are applied in any order, which is more
  than Raft allows.
* Suspect and Down are written from copies, so a heartbeat that came in meanwhile is
  lost (`DownOnlyWhenSilent`). A node that is revived that way, or declared dead, is put
  right by its next heartbeat if it is the leader, and never otherwise (`sched_live`).
* `PlacedOnUp` speaks of evacuation. By then the leader has committed Down, hence
  everything of its predecessor is applied, unless that very Apply failed. A spawn at
  the start of a term has no such barrier.
* Two calls, or a call and an evacuation, may undo each other's update, or bring a
  deleted record back, because they write whole records from copies. `TypeOK` and
  `NonHAPinned` say what survives that; no text in the repository promises more.
* `FreshWhenCalm` holds although MariaDB fails or is not there, index updates fail,
  logins are aborted and players are kicked. Each of the other misfortunes breaks it,
  and so does a move to a server with the other plugin.
* `cluster.Apply` returns the error of the future and not its response: a command that
  the FSM rejects is reported as done. `ApplyLog` models it; no document promises
  otherwise.
* `CollectorSurvives` needs that no name is Ready at two addresses, be it one server
  that moves or two with the same name. Velocity throws on the second, nothing
  catches it, and the proxy handles no event any more.
* `VipFollowsLeader` speaks of leaders whose address names some node, and allows every
  node whose id occurs in it: with ids `10.0.0.1` and `10.0.0.10`, two nodes write
  MASTER. A node that missed the last observation, dropped in a full channel, is
  wrong until the next change and is left out of both VIP properties.
* `ReturnedPortServes`: a server that exits on its own may lose its port to another one
  and then stays down; what the property keeps is that nobody is reached at a port
  that belongs to someone else who runs.
* `AckedExecuted` holds although `auth` looks for a packet of *type* -1, where
  servers refuse with *id* -1, so that a wrong password goes unnoticed: the
  matching by id keeps refusals from being taken for answers, and each command
  runs into its read deadline instead.
* `ConsistentArchive` needs a confirmed flush and no overlap; the code waits for
  neither, and a backup whose RCON fails is returned like any other.
* `KeyNamesArchive`: two backups of a server in one second have one key.
* `CredentialsWork` promises the password only when this call created the user; see
  `PasswordOpens` for the other case.
* `SignsFollow`: a failed publish is not repeated, since the state is recorded
  before it is sent; only a different state makes up for it.
* `UpdatesScheduled` ends where the queue is full: nothing receives from
  `Scheduled`, and every scan queues the same updates again.
* `SignalExits` excepts a subscribed proxy: `GracefulStop` has no deadline, and
  `Shutdown` does not use the context that `run` gives it.
* `JoinExisting` is called before `Serve` has set the hook, so that a daemon that
  is started with `-join` exits with an error, always.

## Proofs

Every invariant and every action property that a passing run checks, and the
refinement, is also a theorem, for all values of the constants. A theorem assumes
the `ASSUME`s of the modules it is about, and `NoClashThm` that all servers run one
plugin; nothing else.

| Module | Theorem | States |
|---|---|---|
| `RaftFSM_proofs` | `TypeCorrect` | `Spec => []TypeOK` |
| | `Agreement` | `Spec => []ReplicaAgreement` |
| | `NoAckedWriteLost` | `Spec => []AckedCommitted` |
| | `RetriesHaveNoEffect` | `Spec => RetryHasNoEffect` |
| | `SubscribersSeeTheLog` | `Spec => []EventsFaithful` |
| `Scheduler_proofs` | `TypeOKThm` | `Spec => []TypeOK` |
| | `NonHAPinnedThm` | `Spec => NonHAPinned` |
| | `PlacedOnUpThm` | `Spec => []PlacedOnUp` |
| | `DetectionBoundThm` | `Spec => []DetectionBound` |
| `PlayerSync_proofs` | `TypeOKThm` | `Spec => []TypeOK` |
| | `FreshWhenCalmThm` | `Spec => []FreshWhenCalm` |
| | `IndexWhenCalmThm` | `Spec => []IndexWhenCalm` |
| | `NoClashThm` | with one plugin everywhere, `Spec => []` no join meets the other format |
| `Routing_proofs` | `ImplementsRouteTableThm` | `RoutingSpec => Promise!TableSpec` |
| | `FollowsRecordsThm`, `CollectorSurvivesThm`, `RoutingTypeOKThm` | `RoutingSpec => []...` |
| `Edge_proofs` | `VipFollowsLeaderThm`, `OnlyValidatedThm`, `RulesMatchMapThm`, `BlocksFirstThm` | each component's specification implies the invariant |
| `Backup_proofs` | `AckedExecutedThm`, `KeyNamesArchiveThm`, `ConsistentArchiveThm` | `BackupSpec => []...` |
| `Host_proofs` | `ReturnedPortServesThm`, `CredentialsWorkThm`, `SignsFollowThm`, `QuiescentAtCloseThm` | each component's specification implies the invariant |

The assumptions are weak. Constants have their types; sets of daemons, backups and
initial servers are finite; and a value that stands for "nothing" (`None`,
`NoLeader`, `NoPort`, `NoSign`, ...) is not one of the things it is distinguished
from: in `Scheduler` no command and no server record (`NoneAssumption`), in
`PlayerSync` no version, step, lock, login or session, in `SignAPI` no message, in
`Containers` `"nobody"` is no call. Code has `nil`, an `ok` result or an empty
string there.

### RaftFSM

`ReplicaAgreement` is not inductive: two daemons that agree now say nothing of
the snapshots from which one of them will be restored. `ReplicaInv` adds what is
missing: the history is what `ApplyCommand` makes of the log
(`HistFollowsLog`), and every live, stored or in-hand copy of the maps is the
history at its index (`CopiesFollowHist`). Agreement follows, as both daemons hold
the same entry of one history.

`RetryHasNoEffect` needs `KeysRecorded`: a key that the log used is in the
idempotency map of every later state. It follows from `ReplicaInv` and from the
lemma that `ApplyCommand` never forgets a key; with it, a daemon that applies a
repeated key has the key in its maps, whatever restores it went through.

`EventsFaithful` is inductive relative to `ReplicaInv`: the event that `ApplyLog`
publishes shows the row after the command (`EventShowsRow`), which is the row of
the history because the daemon's maps follow it.

### Scheduler

`TypeOK` says what is committed; `SchedulerInv` adds what a tick holds: copies of
whole records, of nodes that have a record, and commands about ids that were
handed out. Without it `markNodeDown` might write back a record that is not there.

`NonHAPinned` is about two successive values of a record, and what decides the
second is a copy that was read long before. `Claims` collects every record of a
server that exists anywhere: in the map, in the copies of `evacuate`, in a command
of the scheduler or of a call, in the entries an earlier leader left. `Pinned`
says that all claims about one server agree on whether it requires HA and, unless
it does, on its host. `ClaimsStep` shows that a step only repeats claims, changing
no more than the state, or moving a server that requires HA; the one exception is
a record for an id that was not in use, which no other claim is about.

`PlacedOnUp` needs `EvacuatesSettled`: by the time `evacuate` looks for hosts the
scheduler has committed Down itself, or the Apply failed and the property says nothing,
so that nothing of an earlier leader is left to change a node behind its back; after that only heartbeats write nodes, and they
say Up. `TickEnds` (a scheduler without an office, or that has ticked, holds
nothing) and `CallsLeaveNodes` carry this through changes of leader and calls.

`DetectionBound` follows from `OverdueCovered`: while a record is overdue, the tick
has not ended and will come to it, as the tick has not begun, holds an overdue
copy of it, is about to mark it, or has the command that marks it in Raft's hands.
`OutFresh` says that no command of the scheduler itself makes a record overdue, and
`LogApplied` that a tick that began with nothing of an earlier leader left keeps it so.

### PlayerSync

`FreshWhenCalm` says nothing about where the last version is while the player is
between servers. `TransferInv` does, as long as nothing happened that may cost a
version: it is with a quit handler that has not stored it (`Carried`) or in Redis
(`Stored`), or the player has never been anywhere. To be kept by every step this
needs the protocol around the lock: at most one handler is at work (`Alone`), it
holds the lock from the moment it has set it (`Holding`), no handler is at work
and nothing is locked while the player plays (`Settled`) or once a login has passed
the lock (`Passed`; AetherPaper may leave its loop by time-out, and its second
look then does the work), and what CloudBridge has fetched for the join is what
Redis has (`Loaded`), which rules out a profile left by an aborted login, and in its own
format (`Legible`). It is
these conjuncts that fail when a login overtakes a quit or a lock expires early.

`IndexWhenCalm` is about a moment; `IndexInv` says what the route and the lists are
at each step of a join and of a quit, for servers of either plugin. Both except a join
that met the other plugin's format. `NoClashThm` shows that there is none where all
servers run one plugin: every blob in Redis and in memory is then in the one format
(`OneFormat`).

### Routing

`HistoryInv`: every record, event, message and initial state on its way to the
plugin was true of its server at some time, that is, its address is in `readyAt`
of its name or its name in `gone`. With it each step maps to a step of `RouteTable` or to
none. `FollowsRecords` needs `ToldInv`: for a server whose last change was not lost
or missed, the newest word about it that is still on its way, in the channel, in
the initial states to be sent or on the wire, is its record; and if there is none,
the table shows the record already, provided that no namesake has touched the entry.
`CollectorInv` has the two addresses that a dead collector has met.

### Edge

`BlocksFirst` is inductive with the type of the chain; a lemma about deleting from
a sequence carries it through flushes. `OnlyValidated` needs that the file Sync is
about to rename was accepted (`SyncInv`). `RulesMatchMap` holds address by address.
`VipFollowsLeader` needs `Informed`: for a node that is not behind, the newest
observation it has not acted on, wherever it is between Raft and the file, is the
leader it knows of. Nodes that the leader's address names then run as MASTER and the
others do not, and the tracked script weighs less than the gap (`MasterOutranks`).

### Backup

`AckedExecuted` needs that every answer in a connection is a refusal or that of a
command that took effect (`Honest`), and that ids go up in the order of sending
(`InOrder`), so that an answer with the expected id is of the expected command.
`ConsistentArchive` needs that a backup that is alone has no other's command
outstanding (`OthersQuiet`), so that saving stays off between its save-off and its
save-on (`SavingOff`), so that what it has read is what is on disk (`ReadsDisk`).

### Host

`ReturnedPortServes` needs that a container which a call is about to start has the
port the call picked (`Mine`) and that Docker binds a port once (`OnePerPort`), also when
the restart policy brings back a container that had given its port up.
`CredentialsWork` needs what MariaDB holds after each statement (`Provisioned`);
`SignsFollow` what a publish that is alone in flight carries (`Abreast`);
`QuiescentAtClose` how far the shutdown has come (`ShutdownInv`).

### Only model-checked

All liveness: `Convergence`, `RehostedInTerm`, `GroupReachesMin`, `LockFreed`,
`ReadyRouted`, `VipSettles`, `HAProxyCatchesUp`, `FloodUnblocked`, `SavingResumes`,
`UpdatesScheduled`, `TokensTakeHold` and `SignalExits`. They hold under fairness, and
fairness and ENABLED are out of the prover's reach. `Updater` and `Tokens`, whose
only properties are of that kind, have no theorem.

## Not modelled

Consensus, Redis, MariaDB, Docker, HAProxy, keepalived, iptables, S3, Modrinth and
the game itself are external. Payload formats, logging, HTTP and gRPC framing are
left out. Also left out, and why:

* Cluster membership is fixed: `AddVoter` and `RemoveServer` hand the change to
  Raft, and `-join` never gets as far as asking for one.
* `QuorumGuard`, `RBACMiddleware`, `FlushCache` and `DialWithRetry`: nothing calls
  them. The package `api` declares `hasScope` twice; the model takes a token and a
  route that fit.
* `api/firewall.go` answers without calling the firewall manager; `UpdateSign` and
  `UpdateTablist` answer without doing anything.
* `ForwardMutation`, `SendRCON`, exec, log streaming, the database workbench, the
  routes of `api/mods.go`, Modrinth, CurseForge and loader clients: one request,
  passed on, with no state kept between requests.
* `AetherVelocityPlugin` subscribes to a `VelocityService` that the daemon does
  not offer; `SignSubscriber` reads what `SignAPI` publishes and keeps nothing.
* `sftp`, `metrics`, `config`, panel and installer: files, exposition, parsing and
  a front end.

## Plan

1. Done: `RaftFSM`; `Scheduler`; `PlayerSync`; the edge (`Routing`, `RouteTable`,
   `LeaderVip`, `HAProxy`, `RateLimiter`, `Firewall`); the host (`Backup`, `Containers`,
   `Provisioner`, `SignAPI`, `Updater`, `Tokens`, `Daemon`).
2. Done: theorems for every invariant and action property of the passing runs, and
   the refinement of `RouteTable`.
3. An abstract specification of the FSM (one map per table, one atomic write per
   committed entry, readers that may be behind) that `RaftFSM` implements, with the
   refinement proved; `Scheduler` and `Tokens` rest on it.
4. A bound on how late `DetectionBound` can be after a tick that began on an older log:
   that the tick after the last entry of an earlier leader leaves no overdue record alive.
5. Safety of `Tokens` and `Updater` that their liveness rests on: a token that is
   revoked in the log is refused by every node that has applied it; the queue holds
   only updates that a scan found.
