# A TLA+ model of dnf-robot

dnf-robot runs a fleet of robot accounts against a DNF game server.  It creates
accounts in the game's database, keeps a configured number of them online, moves
them, lets them open stores, trade and join parties, lists goods on the auction and
the gold market, and offers a TCP API and a web administration for all of it.  This
directory holds TLA+ modules of its stateful parts, TLC configurations that check them
on small instances, and proofs checked by TLAPS.

Paths below are relative to `src/internal/` unless they start with `src/`.

## 1. The system's parts

### Parts that are modelled

| part | state it keeps | operations | talks to |
|---|---|---|---|
| actor loop, `actor/actor_*.go` | uid, mode, lease generation, state, stop and control channels | assign, release, command, tick, stop, quarantine | runtime; the ledger sees its exit |
| actor ledger, `actor/ledger.go` | registered actors, leases, draining, blocked and quarantined uids | lease, unlease, reserve, drain, reap, block, unblock | called by supervisor, registry and pressure worker |
| supervisor, `scheduler/supervisor*.go` | phases of a tick, pressure worker | reap, guards, adopt, scale, broken leases, cleanup, recycle, assign | ledger, actors |
| actor registry, `scheduler/actor_registry.go` | none of its own | AttachUID, LogoutUID, StopUIDs, Command | ledger, actors |
| uid lock hub, `foundation/lockhub` | map of reference-counted mutexes | Acquire, Release | every runtime call of an actor |
| robot sessions, `protocol/dnf/task*.go`, `robot_session.go`, `robot_lifecycle.go`, and `protocol/dnfruntime` | command queue, dispatch shards, timer queue, registry of sessions, connect queue, state of each session | Online, Logout, ForceClose, dial, read, reconnect, Shutdown | actors call it; the game server answers |
| position batcher, `scheduler/position_batcher.go` | pending positions, timer, flushing and closed flags | Queue, Discard, timer callback, Close | repository (database) |
| market application, `capability/marketapp` | configuration, loop, job and service mutexes, table state, rebuild state | start, stop, update, clear, rebuild, sync, manual job, reload, Shutdown | market services, database, configuration file |
| listing queues, `marketapp_queue.go`, `_rejection.go`, `_source.go`, `_plan.go` | normal, special and rejected queues, retry counter | reload, select, feedback, reset | a market job drives them |
| store points, `capability/store/coordinator*.go` | claims, occupancies, evidence, cool-downs, packing | Claim, Report, ReleaseUID, Discard, load | the attempt loops in `workflow.go` and `scheduler/actor_runtime.go` |
| delayed writer of the store points, `coordinator_active_cache.go` | dirty count, generation, timer, pending, flushing | schedule, timer callback, Flush | the file `store_points_active.json` |
| manager and operations, `scheduler/lifecycle.go`, `commands.go`, `supervisor_shutdown.go` | operation list, `mutationMu`, flags of a running structural operation, registered actors | attach, log out, create, clean up, delete, shutdown | ledger, supervisor, position batcher |
| robot rows, `scheduler/repository`, `capability/robotlifecycle` | accounts, characters, registry, store rows, create batches (all in the database) | create, roll back, recover, clean up, delete, store rows | manager, supervisor, store workflow; players write the same tables |
| party sockets, `party_relay.go`, `party_udp.go`, `party_supervisor.go` | sockets, generations, flags, writer queue | dial, attach, read, write, detach, close, maintain | session, relay, peers |
| party transport, `party_tqos.go`, `party_reliable.go`, `party_health.go` | negotiation state, sequence numbers, pending packets, route health | probe, answer, send, acknowledge, retry, reset, fail over | the same code in another robot |
| party roster, `party_state.go`, `party_recovery.go` | peers by slot, realtime roster and its candidate, recovery flags | snapshot, realtime roster, confirm, leave an orphaned party | game server |
| store and trade in the session, `robot_store.go`, `robot_trade.go`, `dnfruntime/store.go` | inventory version, create and display flags, table, quote version | open, display, retry, quote, offer, accept | store workflow, game server, database |
| TCP API, `entry/tcpapi`, `foundation/network` | listener, clients, pending slots, delete tokens, background work | accept, read, dispatch, answer, Close | manager, market |
| web administration, `entry/webadmin` | configuration snapshots, memory of the game, script processes, limits | patch, unpatch, reconcile, start, stop, set limit | the game's processes and files |
| market services and patches, `marketapp_service_*.go`, `marketapp_memory_patch.go`, `marketapp_auction_guard.go`, `foundation/filebackup` | processes, item files, memory, numbered copies | ensure, restart, sync, patch, save | market loop, the game's processes and files |
| mail notification, `capability/mailnotify` | cursors, pending mails, cool-down | poll, collect, send, save | database, game server |
| key pairs, `capability/keypair` | key files, key in memory, cached status | build status, release the default | API, diagnostics |
| log files, `foundation/logfile`, `protocol/dnf/log.go` | numbered files, size, buffer | append, rotate, trim at start | everybody |
| launcher, `src/tools/deploy-launcher` | files and processes of the host | upload, stop, move, start, verify | the host, over SSH |

How they meet: the supervisor and API requests lease a uid to an actor in the ledger
and send the actor controls; the actor runs runtime calls inside the uid's lock; those
calls become messages of `RobotSvc` and `RobotDnfTask`, whose goroutines dial, read and
reconnect; movement and stores leave positions with the batcher and points with the
coordinator.  While a robot plays, its session keeps a party's sockets, stores and trades.
The market application is independent of the robots; it and the web administration change
files, processes and memory of the game.  API requests reach all of them through the
manager, whose shutdown ends them in the order of `src/cmd/robot/main.go`.

### What is hard

* **Interleaving.**  Every part has several goroutines, and most hold no lock while they
  wait: a sender waits for an actor, a dial for the network, a rebuild for the loop, a
  write for the database.  What they read before is stale afterwards.
* **Time-outs.**  A control whose sender gave up is still handled; a database write that
  timed out may have been committed; a store attempt may outlive its lease.
* **Failure in the middle.**  A panic in a runtime call, a session that cannot be closed,
  a write that fails, a catalogue that cannot be read for one round.
* **Crashes.**  Creation by several statements, renames of numbered copies, writes into
  another process, a cursor saved after what it stands for.
* **Networks.**  Datagrams lost, repeated and reordered; answers to an earlier request.
* **Ends.**  Stops, logouts, clears and shutdowns meet work that has begun.

The list "hazards" of `PROJECT.json` puts each of these at its line.


## 2. Modules

| module | models | role |
|---|---|---|
| `RefHub` | `foundation/lockhub/refhub.go` | component |
| `Ledger` | `actor/ledger.go` | component, and the abstract specification that `ActorPool` implements |
| `ActorPool` | actor loops, supervisor, pressure worker, registry, on one `Ledger` | composition (EXTENDS `Ledger`) |
| `Sessions` | `RobotSvc`, `RobotDnfTask`, the sessions of one uid | component |
| `PositionBatcher`, `ActiveSave` | the two background writers | components |
| `MarketAuto`, `MarketQueue`, `MarketServices`, `MarketPatches` | the market application | components |
| `StorePoints`, `StoreDisplay`, `TradeDesk` | where, how and for how much a robot sells and buys | components |
| `PartyLinks`, `PartyTransport`, `PartyRoster` | a party: connections, packets, members | components; `PartyTransport` composes two ends |
| `ManagerOps`, `RobotData` | operations and shutdown; rows of robots | components; `ManagerOps` composes requests, supervisor, actors and shutdown |
| `ApiServer`, `GamePatches`, `GameControl` | TCP API; web administration | components |
| `MailNotify`, `KeyPair`, `LogFiles`, `Deploy` | mail, keys, logs, launcher | components |
| `Services`, `Hosts`, on `Parts` | | compositions side by side: of `ManagerOps`, `MailNotify`, `KeyPair`, `GamePatches`, `ApiServer`; of `GameControl`, `Deploy`, `MarketPatches`; with their properties, which runs check and theorems state |
| `ActorPoolProofs`, `SessionsProofs`, `MarketAutoProofs`, `WritersProofs`, `StorePointsProofs`, `PartyLinksProofs`, `SharedProofs`, `ServicesProofs` | | theorems: of `Ledger` and `ActorPool`; of one component each; of `RefHub` and `Hosts`; of `Services` |
| `MCActorPool`, `MCSessions`, `MCProgress`, `MCMarketAuto`, `MCWriters`, `MCWaits`, `MCRobots`, `MCServices` | | instances for TLC |

The rule for steps is the same everywhere: what a goroutine does under one mutex is one
step; between two sections, and while a call waits for somebody, others run.  Each
module's head comment names its mutexes.

**RefHub.**  `FindOrCreate` and `LockMu` are the two halves of Acquire, `UnlockMu` and
`DropRef` those of Release: `lock.mu` is taken after, and given back before, the map's
mutex.  An address is reused once nobody refers to it, as a freed object may be.

**Ledger.**  A method is a step (`indexMu`).  `LedgerSpec` lets anybody call any method
with any argument and lets any actor exit: what holds of it depends on no caller.  Slot
ids are never reused, so an actor is its slot.

**ActorPool.**  One thread per actor loop, one for the supervisor, one for the pressure
worker, one per API request.  A control is put in the bounded channel (`Send`), its
sender waits (`pc = "wait"`), and the answer, the actor's exit or the timer (`GaveUp`)
ends the wait; after that the control stays in the channel with nobody listening.  The
supervisor's tick goes through its phases in the order of the code with the snapshot
each phase takes (`Snapshot`, `todo`), so an item is treated with what was read before the
waits for earlier items.  `Faults` says what the surroundings do: "slow" (timers fire),
"panic" (a runtime call panics during a release), "loss" (an account disappears).

**Sessions.**  One uid: uids share only queue capacity, which "full" in `Env` stands for.
`Vo` are the incarnations of its session; the threads are the dispatcher, the synchronous
Online of a disjoint login, and the dialer, the reader and the refresher of each
incarnation.  RefishConnect, msgLogout and replaceCurrent are split at each lock.  What
the game server sends is a choice among the outcomes the packet handlers tell apart.

**PositionBatcher.**  The n-th position queued is the number n.  A failed write may have
reached the database (`FlushFailed`, `CloseWriteFailed`), and Close may time out.

**ActiveSave.**  The set of displayed stores is a version number; `cacheMu` is kept from
the snapshot to the end of the write, as in the code.

**MarketAuto.**  One market and one item stand for the two markets and their stock.
`autoMu` and `stateMu` sections are steps, `jobMu` and `serviceMu` are held over several.
A worker checks its context when it takes a task (`JobTake`) and not again before its
request is sent (`JobList`): a stop, a clear or a shutdown may come between the two.
Every loop goroutine ever started is kept, with its context; `MaxLoops` is so large that
it stops nothing (an ASSUME states it).

**MarketQueue.**  A round reads candidates, applies a reload, selects under three budgets
and executes with several workers; resets, sales, losses and changing files interleave.

**StorePoints.**  Points are indices of the grid with the code's distances; the code's
neighbouring-cell search and its conflict test are both modelled, so that one can be
wrong about the other.  Deadlines are kept as the time left.

**ManagerOps.**  Requests, the supervisor's tick, the pressure worker and the deferred
shutdown.  `mutationMu` is a readers-writer lock with a waiting writer.  An actor is its
ledger entry and whether its goroutine lives.

**RobotData.**  The database is the only state that outlives `Crash`.  Statements that the
code runs one by one are steps of their own; a transaction is one step.  Players insert
accounts and characters at any time; `late` remembers which numbers they got after an
operation had chosen them, which the code cannot see.

**PartyLinks.**  All fields of one robot under `r.mu`, plus the program counters of its
goroutines.  Goroutines of a former generation are counted (`stale`): they may still act.
A socket name is reused when nobody refers to it.

**PartyTransport.**  Two robots that run the same code, and the packets between them.
`pure` marks an epoch in which both ends began clean: the claim about acknowledgements is
made for those (section 7 tells what happens otherwise).

**PartyRoster.**  One robot, the true party and what it was told; snapshots and realtime
rosters are taken from the truth of their moment and may arrive later.  A snapshot has the
unique ids or not (`WithIds`); one without them is completed from the last realtime roster,
whenever that was, and `mixed` remembers that a member so got the id of another.

**StoreDisplay, TradeDesk.**  Inventories, tables and quotes are version numbers; a step
that uses a value it read earlier keeps the version it read.

**ApiServer.**  The acceptor, one handler per connection, the background actions and the
Close of `src/cmd/robot/main.go`.  Two connections may have the same remote address.

**GamePatches.**  `mem` is what each place of the game's memory holds; the writes of an
enable, a disable and a restore are single steps, a fault makes one of them fail, a kill
ends the web admin between any two.

**MarketServices, MarketPatches, Deploy, MailNotify, GameControl, LogFiles, KeyPair.**  Files,
processes and memory are versions; every step that can fail has a failing outcome that
spends one of `MaxFaults`.  In KeyPair a build looks which files are there, reads the private
key and derives or reads the public key in steps of its own, as ensureGameKeypair does.

## 3. Plan

Done in this order: RefHub (smallest, and the pattern for proofs), Ledger, ActorPool and
the refinement, PositionBatcher, Sessions, MarketAuto, MarketQueue, StorePoints,
ActiveSave; then PartyLinks, PartyTransport, PartyRoster, TradeDesk, StoreDisplay,
RobotData, ApiServer, GamePatches, MarketServices, MarketPatches, Deploy, MailNotify,
GameControl, ManagerOps, LogFiles, KeyPair.

Left:

1. *A single actor*: busy and release flags, modes and the reason an actor stops itself
   (the hazards of section 8).
2. *Caches* of runtime status and characters, whose refreshes race invalidations.
3. *Composition* of `Sessions` with `PartyLinks` and `StoreDisplay`: a session that ends
   under its party and its store at once.
4. *Liveness of the market's commands*: the locks are modelled, their being given back in
   the end is not stated.

To be proved next: the acknowledgements of PartyTransport, `AppliedIsTrue` of PartyRoster,
`SyncedIsLoaded` of MarketServices, `OnePlace` of MarketQueue.

## 4. Runs

| run | instance | what it shows |
|---|---|---|
| `waits` | hub: 3 goroutines, 2 uids, 3 addresses; relay: 1 socket; trade: 2 loaders, 2 tables, 1 panic; patches: 1 edit, 1 fault, 1 kill, 1 restart; market: 1 service, 1 sync, 1 restart, 1 fault, 1 exit | mutual exclusion per uid, entries dropped with their last user; and what happens in the end: waiters enter, sockets are closed and come back, tables are quoted, patches are as configured, an outdated service is replaced |
| `actors` | 1 uid, 1 request, 2 actors without faults; 1 actor with time-outs and panics | one driver per uid; a uid held or with an open session is not handed out (without faults); leases change hands only through the free state; the pool implements the ledger |
| `writers` | 2 uids, 2 positions each, 3 callbacks; 2 changers, 2 flushers, 1 failing write | no position lost or overtaken, Close flushes; no change of the displayed stores lost, one writer, Flush covers what preceded it; every position and every change is saved in the end |
| `sessions` | 3 incarnations, 2 calls, forced close, full queues, shutdown | never two sessions of an account; nothing but an Online brings an ended session back; a shutdown leaves nothing open |
| `progress` | 2 incarnations, 2 calls; 1 actor, 1 request | a session that waits is dialed or removed; an actor told to stop leaves the pool |
| `market` | 2 connections with 2 commands; rebuilds, syncs and manual jobs; 1 edit; shutdown | one loop, none that goes on when disabled or after the shutdown; cleared stock, old tables and old files do not come back; after the shutdown no job but a rebuild's goes on, and that lists at most what it had sent |
| `robots` | stores: 2 robots, 3 points in a column or 2 far ones, 2 tries; party: 2 sockets, or 1 with a stale goroutine of each kind, 2 ends, windows of 1 and 2, 1 or 2 routes, 2 slots with a human and 2 robots, 2 changes of the party with unique ids in every snapshot and 1 with ids in some; session: 2 openers with 1 inventory or 1 opener with 2, 2 tables, 2 peers, or 1 with a panic | blocking points never collide, claims are given back, points are put aside on observations that stand, late attempts touch nothing (`ClaimsStand`); sockets are served, acknowledgements of clean epochs clear what was taken, slots hold who is in them unless an id was misplaced; answers fit what they answer |
| `services` | queues of 3 items, 1 file that becomes unreadable or changes; 2 uids with 1 player, 1 crash or failing statement; 2 requests; 3 connections from 2 addresses with 1 client or 2; 2 services, or 1 that fails, dies and is restarted; 3 copies; 1 launcher with 3 operations; 3 mails; 3 scripts, 3 files; party patch: 1 edit, 1 fault, 1 kill, 1 restart; 9 bytes of log, 1 restart; 1 key release | see the thirteen properties in `Services`, `Hosts` and `MCServices`; no branch of the game without its routine among them |
| `pool_panic` | 1 uid, 2 actors, panics | **violated**: finding 1 |
| `positions_discard` | 1 uid, 2 callbacks | **violated**: finding 2 |
| `sessions_logout` | 2 incarnations, 2 calls | **violated**: finding 3 |
| `market_enabled` | 1 connection, start and stop | **violated**: finding 4 |

**Side by side.**  Several runs put instances side by side: a variable of the MC module (`world`,
`scene`, `part`) is chosen initially and never changes, so each instance is explored by
itself and the run's state space is their sum, not their product.  In `MCWaits`,
`MCRobots` and `MCServices` parts also share the variables `s1`, `s2`, ...; an
INSTANCE gives each part its own.  In `MCServices` the parts of `Services` and `Hosts` use
the variables declared there; a scene with other constants than the configuration's is an
instance of its own on the same variables.  A property of such a module joins what its parts
promise about one subject; each conjunct has its own name in the component's module.

**Mutated forms.**  For each property the modules keep a changed copy of a definition,
marked "Mutant" (a dropped guard, a missing reset, a swapped order), under which TLC finds
the property violated.  A property with several conjuncts has several of them;
`PROJECT.json` lists all that were tried.

**Bounds and why they are enough.**  Every property relates at most two actors, sessions,
points, robots, requests or processes; each instance has that many and one more where the
code keeps a third in play (a third incarnation while one is closed and one is replaced;
a third callback while one writes and one is armed; a third goroutine that re-creates a
lock; a third connection that reuses an address; a third copy in the shifting).  Two calls
or commands suffice for each pair of overlapping operations; a third one would find the
state a pair leaves behind, which the loops' own steps already explore.  One fault is
allowed in each of the services' parts: the code claims to survive a failing step, not a
failing repair; section 7 says what two faults do.  Where a large instance would cost most,
two small ones share the work: two relay sockets and stale goroutines are in different
scenes (`PartyLinksProofs` covers all sizes), and so are two peers and a panic, two market
services and a fault; each pair meets in no property.  `ActorPool` has one uid in its runs:
uids meet only in the capacity of the pool.  What two uids add is described in section 7.
Limits such as the retry interval, the divisors, the window or the lease are small numbers
that keep the code's order relations, which the ASSUMEs state.  Unbounded counters are
bounded by constants named `Max...`.

**Symmetry** is used for slots, incarnations, connections and robots, only in runs
without liveness properties.

**Deadlock** is not checked where the program may stop: after a shutdown, after a game or
a service has ended for good, or when the bounded commands are used up (`sessions`,
`progress`, `market`, `waits`, `robots`, `services`).

**Fairness.**  In `writers` and `progress` it is part of the specification, in `waits` the
hypothesis of each property, since only one part is at work.  What is assumed, and why the
code justifies it:

* `RefHub`: a goroutine inside finishes (weak), and `sync.Mutex` hands the lock to a waiter
  that was passed over for too long (strong, its starvation mode), for the waiter only.
* `PositionBatcher`: timer callbacks run (weak), and a write that is tried again and again
  succeeds at some time (strong; a database that fails for ever is outside the claim).
* `ActiveSave`: timers fire and goroutines run (weak); the property only speaks of
  behaviours in which no write fails.
* `Sessions`: the service's loops, timers and dialing goroutines run (weak); Online,
  Logout, packets and read errors are not fair.
* `ActorPool`: the supervisor ticks, drains and calls go on (weak), the runtime's calls
  return (weak: they have time-outs), and an actor's `select` does not pass over a ready
  channel for ever (strong: Go chooses at random).  Requests are never fair.
* `PartyLinks`: goroutines run, the supervisor's ticker fires, reads have deadlines (weak);
  a dial that is tried again and again succeeds at some time (strong), which only the
  claim about the connection coming back needs.
* `TradeDesk`: loaders run, retries fire (weak).  Peers are not fair.
* `GamePatches`: both supervisors tick, operations go on, the killed web admin is started
  again, the watcher polls (weak); the supervisor gets the mutex that requests also take,
  and the watcher's reset of the failure count comes through (strong).  Edits, faults and
  kills are bounded, so the claim is about the time after the last of them.
* `MarketServices`: rounds of the loop come, steps go on (weak), and the loop gets
  `serviceMu` among other callers (strong, the mutex again).

## 5. Proofs

The theorems hold for every value of the constants that satisfies the module's ASSUME:
any number of goroutines, uids, actors, requests, incarnations, callbacks, positions,
connections, commands, robots, points and sockets.  The ASSUMEs say that model values
differ (`None` is no uid, `Free` is no owner of a mutex), that bounds are natural numbers
and, for the market, that `MaxLoops` is large enough never to hold a start back.  Those of
StorePoints also say that the robots are finitely many, that a claim's lease is no shorter
than `TTL` (pointClaimTTL), and that a point may be used again before its lease is over,
as normalizePointLease and StorePointLeaseDuration of `coordinator.go` ensure.  PartyLinks
is only instantiated and has no ASSUME; its theorems state theirs, that `None` is no socket.
The same goes for the components of `Services` and `Hosts`: they share no state, each is an
instance there, and `ManagerConstants`, `MemoryConstants` and the like, the hypotheses of
their theorems, say what is needed; TLC evaluates them for the constants of the `services`
run (`ConstantsFit` in `MCServices`).  Beyond types:

* a failure while a failure is being undone can leave half of a change behind, in the code
  as in the model, so `BranchHasRoutine`, `LimitTogether` and `AllBytesOrNone` have
  `MaxFaults` at most 1; `AllBytesOrNone` also needs a single patcher when a write fails,
  as two that overlap may undo each other's work;
* one request at a time changes the player limit, and one launcher window is used
  (`Writer` and `Launcher` have at most one element): the code has no lock for either;
* mails are committed in the order of their numbers (`"late"` is not in `Env`): see
  "Mail, logs, keys" of section 7;
* at least two copies are kept (`Count >= 2`; the code's constants are larger).

| theorem | statement | argument |
|---|---|---|
| `HubMutualExclusion` | `RefHub!Spec => []MutualExclusion` | `IInv` below |
| `HubNoLeak` | `RefHub!Spec => []NoLeakedEntry` | inductive relative to `IInv` |
| `LedgerInvariant` | `LedgerSpec => []LedgerInv` | types, and a quarantined uid is blocked and leased to nobody; inductive as it stands |
| `LedgerHandover` | `LedgerSpec => LeaseHandover` | per method, from `LedgerInv` |
| `PoolTypes` | `ActorPool!Spec => []TypeOK` | with `LedgerInv`, one lemma per thread |
| `PoolImplementsLedger` | `ActorPool!Spec => LedgerSpec` | each step of each thread is a ledger method, an exit or a stutter |
| `PoolQuarantine` | the composed program keeps the quarantine and `LeaseHandover` | from the refinement and the ledger's theorems |
| `PoolUniqueDriver` | without faults `ActorPool!Spec => []UniqueDriver` | `CalmInv` below |
| `PoolNotReusable`, `PoolCalmNotReusable` | without faults what is held or has a session is not leasable, of `Spec` and of TLC's `MCSpec` | `CalmInv` and the quarantine |
| `SessionsInvariant` | `Sessions!Spec => []SessionsInv`, with `TypeOK` | one token per incarnation, below |
| `SessionsOneSession` | `Sessions!Spec => []OneSession` | from `SessionsInv` |
| `SessionsShutdownCloses` | `Sessions!Spec => []ShutdownCloses` | from `SessionsInv` |
| `SessionsEnded` | `Sessions!Spec => EndedStaysEnded` | per step, from `SessionsInv` |
| `MarketInvariant` | `MarketAuto!Spec => []MarketInv`, with `TypeOK` | below |
| `MarketLoopObeys` | `MarketAuto!Spec => []LoopObeys` | from `MarketInv` |
| `MarketReplaced` | `MarketAuto!Spec => []ReplacedStaysOut` | from `MarketInv` |
| `MarketShutdownSettles` | `MarketAuto!Spec => ShutdownSettles` | per step, from `MarketInv` and what ends before Shutdown returns (`ClosedInv`) |
| `BatcherKeepsNewest` | `PositionBatcher!Spec => []NewestKept` | `BatcherInv` below |
| `BatcherForward` | `PositionBatcher!Spec => NeverBackwards` | per step, from `BatcherInv` |
| `BatcherCloseFlushes` | `PositionBatcher!Spec => []CloseFlushes` | `BatcherInv`, and what Close took is what was left (`Taken`) |
| `WritersInvariant`, `WritersNothingLost` | `MCWriters!MCSpec => []WritersFlush` | the batcher's invariant and `ActiveInv` below |
| `PointsInvariant`, `PointsNoLeakedClaim` | `StorePoints!Spec => []NoLeakedClaim` | `PointsInv` below |
| `PointsApart` | with `AttemptsFit`, `StorePoints!Spec => []Apart` | `PointsInv` and `FitInv` below |
| `PointsUntouched` | `StorePoints!Spec => [][Tick \/ Restart \/ Untouched]_vars` | per form of step, from `PointsInv` |
| `PointsEvidence` | `StorePoints!Spec => []EvidenceStands` | what is remembered was said and not taken back |
| `LinksInvariant`, `LinksOneAtATime` | `PartyLinks!Spec => []OneAtATime` | `Sound`, below |
| `LinksAttachedIsServed` | `PartyLinks!Spec => []AttachedIsServed` | `Sound`, and where reader and writer of the attached connection are |
| `PointsAreSafe` | with `AttemptsFit`, `StorePoints!Spec => []PointsSafe` | the three theorems on points together |
| `ManagerIsSafe` | `Manager!Spec => []Manager!ManagerSafe /\ []ManagerSafe` | who owns the operation that runs; what the shutdown still has to end |
| `NoMailIsSkipped` | `Mail!Spec => []Mail!PassedIsKept /\ []PassedIsKept` | `MailInv` below |
| `CachedStatusIsCurrent` | `Keys!Spec => []Keys!StatusIsCurrent /\ []StatusIsCurrent` | `KeyInv` below |
| `BranchAlwaysHasRoutine` | `Patches!Spec => []Patches!BranchHasRoutine /\ []BranchHasRoutine` | `PatchInv` below |
| `ApiConnectionsAccounted` | `Api!Spec => []Api!ConnectionsAccounted /\ []ConnectionsAccounted` | `ApiInv` below |
| `ControlAllOrNothing` | `Control!Spec => [](StopWins /\ LimitTogether)` | `ControlInv` below |
| `MemoryAllBytesOrNone` | `Memory!Spec => []AllBytesOrNone` | `MemoryInv` below |
| `BackupCanGoBack` | `Memory!Spec => []CanGoBack` | `BackupInv` below |
| `DeployNothingTorn`, `DeploySuccessMeansNew` | `Deployment!Spec => []NothingTorn`, `Deployment!Spec => [][SuccessMeansNew]_vars` | `DeployInv` below |
| `WritesAllOrNothing`, `ReplacedFilesRecoverable` | `AllOrNothing`, `FilesRecoverable`: what the run states of several components | the theorems above together |

*RefHub.*  Mutual exclusion is not inductive: it depends on two goroutines of one uid
waiting for the same lock object although the map entry may have been deleted and made
again.  `IInv` says that every counted goroutine's lock is the one the map has for its
uid (`MapCurrent`), that a lock serves one uid (`OneUidPerLock`), that `refs` is the
number of counted goroutines (`RefsCount`, a cardinality, hence the assumption that the
goroutines are finitely many), and that who is inside owns the lock (`OwnerInside`).  The
heart of the proof is DropRef: `refs - 1 <= 0` makes the releasing goroutine the only one.

*ActorPool.*  The refinement mapping is the identity on the ledger's variables, since the
module extends `Ledger`; what has to be shown is that every argument the threads pass is
of the ledger's type, which needs the full type invariant (a caller at work has a uid,
a request has an actor).

That a uid has one driver depends on promises that are in flight: an assign in a channel,
a lease taken but not yet sent, a snapshot item about to be released.  `CalmInv` says for
each of them what it promises.  What an actor drives is leased to it until it has exited,
and then quarantined (`HeldInv`); a request that attaches a uid, and the supervisor's
assignments, have the lease of a uid their actor does not drive yet, the request's uid is
not blocked, and no item of the supervisor's names the same pair (`JoinInv`,
`AssignInv`); a uid the supervisor was told is released is not driven by that actor, and
nobody is about to give it back (`ReleaseInv`); a control in a channel belongs to a caller
that waits for exactly this answer (`CtrlInv`, which is where time-outs would break the
argument); an open session belongs to a driver with a lease or is quarantined
(`SessionInv`).  `Faults = {}` is a real restriction: with panics finding 1 refutes the
claim, with time-outs the first observation of section 7.

*Sessions.*  A session that is not registered yet is known to one goroutine or queue only.
`OneToken` follows this token: the goroutine that made the incarnation, the timer queue, a
shard, the dispatcher, the connect queue, its dialer; `NewUnknown` and `EarlyUnknown` say
who can know it before; `Registered` that an open session is the registered one, one that
Shutdown is closing, or a successor that is not announced yet; `Stopped` that whoever goes on
to remove a session has stopped it.  `OneSession` is then one line; the work is in
replaceCurrent, where predecessor and successor change places.

*MarketAuto.*  `LoopInv` relates autoRun, autoStop and autoDone to the goroutines: every
loop before autoDone's has ended, none after it exists.  `StopInv` says who still has to
stop the loop when the market is disabled (`StopPending`), `DownInv` what Shutdown has
reached, `ClearInv` that after a clear no job that read the old stock can still list or has a
request on its way (a clear waits for `jobMu`, which a job keeps until its requests are done),
`DbInv` and `FileInv` that the generation and the stamp tell old work from new.

*The writers.*  `BatcherInv` joins `OneAtWork` (at most one timer callback or Close is
armed, fired or writing with a batch, and which flags say so), `Ordered` (database, batch,
pending and newest position of a robot are in this order) and `NewestKept`.  `Ordered` is
what makes the merge of a failed batch harmless; `OneAtWork` is what makes `Ordered`
inductive.  `ActiveInv` says what the dirty count and the generation mean while a snapshot
is being written (`CacheInv`), what each Flush is waiting for (`FlushInv`), and which
timer is armed, fired or stale (`TimerInv`).

*StorePoints.*  Every step of a robot has one of three forms: it gives claims back or forgets
expired ones (`Yields`), takes a free point (`Takes`), or reports a displayed store
(`Reports`).  The forms are shown to keep the invariants, each of the attempts' actions to
have one of them.  `PointsInv` gives the types, the shape of an attempt at each of its steps
and that a claim is forgotten no sooner than the store it covers (`Covered`); it does not
need attempts to end in time, and neither do the claims that are given back nor what a late
attempt may touch.  `FitInv` does: what an attempt has in hand is still its own (`HandHeld`),
and the points in the active file are apart, however old the file (`FileApart`), which is
what a restart needs.  Two facts about operators carry the rest: a colliding point lies in
one of the three by three cells that are searched (`ConflictIsNear`, from the sizes of the
cells and of a store), and the point chosen is free (`ChoiceIsFree`: the CHOOSEs over passes
and candidates have least elements).

*PartyLinks.*  The code's operations are chains of helpers that run under `r.mu`, and the
proof has their shape: each helper, for any RobotVo, keeps `Sound`, attaches no connection
and brings no stopped session back (`Follows`, which is transitive).  `Sound` says that each
flag tells whether a goroutine of the current generation is at work, that a dial is under
way only while nothing is attached, and that the writer is that of the attached connection,
whose done channel is open.  `Served` adds where the attached connection's reader and writer
are.  The one delicate step is the dial that attaches: `connecting` and the generation make
it the only one, so no writer is left that it would replace.

*ManagerOps.*  An operation in the list that runs belongs to a request that holds the
manager's lock for writing, and the lock has one writer (`MgrWriterHolds`, `MgrOpsOwned`):
so a structural operation is never refused.  For the shutdown, what lives is in the ledger
(`MgrLiveKnown`); when the supervisor begins to drain, no request runs and none begins; and
while it waits, what lives is among what it waits for (`MgrLivePending`).

*MailNotify.*  A poll works on a copy of the saved state; `MailInv` says at each of its
places what the copy has and the file has not.  Everything up to the cursor was told, has
lapsed, is pending, or was dropped for its age by this poll, which its saving will record
(`MailKept`); and a row that is committed later has a larger number (`MailInOrder`).

*KeyPair.*  `KeyTrue` says of a status that it is that of the files and that no builder at
work can make it another one; while no default pair is being released this holds of the
cached status and of the one being built (`KeySettled`).  Once somebody else writes, a write
fails, or a derived public key replaces another one, nothing is claimed (`Undisturbed`): a
build that is about to write a key derived from a private key that is gone can break a pair
at any time, so the invariant follows `derive` and what was read before.

*GamePatches.*  The writes of an operation are a list, and the invariant says what each rest
of such a list finds in memory: enabling writes cave, timer, branch; disabling takes them
away the other way round; left-overs without a branch go in any order; and what is put back
after a failure is undone from its end (`PatchEnabling`, `PatchDisabling`, `PatchClearing`,
`PatchUndoing`).

*ApiServer.*  The counters are cardinalities of sets of connections, so the connections are
numbered and the proof counts.  That a late handler does not take the entry of its
successor rests on the order of arrival: connections of one address are served in the order
of their numbers, and the entry belongs to the newest.  A token that was not shown is told
from one that was; a token gets out only through loopback.

*GameControl.*  Only the script that serverScriptCancel would end is alive, and it is the
last one (`ControlScripts`).  While a request writes, a channel has the new limit exactly if
it is among those written (`ControlWriting`), so taking the last one back is an inverse.

*MarketPatches, memory.*  What a patcher read before it wrote is what is there, except for
what it wrote itself (`MemorySeen`, `MemoryAlone`), or, with several and no failures, all
write the same (`MemoryAgree`).  A patcher whose process was restarted changes nothing.

*MarketPatches, copies.*  It is not enough that a version is somewhere among the copies: the
rotation drops the last one.  `BackupInv` bounds its place: the i-th version saved lies at
place i - 1 or later, by one for each interruption at most, and by one less when the current
version was saved and its replacement failed (`BackupRepeats`), since the next save repeats
it; where the rotation has passed, everything is one further (`BackupMoved`).

*Deploy.*  `DeployAt` gives for each place of an operation what the host has: an upload of
the operation's version, whole once its size was checked, nothing running when it is moved,
only the new program after that.  The copies of the configuration are the last moved ones.

The inductive invariants were checked with TLC, on the instances of the runs, before they
were proved.  For the proofs the models got bounds as guards of the steps that count
(`Become` in MarketAuto, `Arm` in ActiveSave; TLC's instances never reach them),
`OneActive` of ActiveSave is stated without a cardinality, the two outcomes of
refreshPartySelfIdentityUnsafe in PartyLinks have names, and the tokens of ApiServer are a
set of records.

*Only model-checked*: what `PartySafe` says of the transport and of the roster (its first
line is `LinksOneAtATime` and `LinksAttachedIsServed`), `SessionSafe`, `QueuesKeepAll`,
`RobotsWhole`, `DeletesSafe`, `SyncedIsLoaded` of `SuccessIsTrue`, and `LogsWhole`, which
speaks of a concatenation of files, a fold that the prover cannot unfold; all liveness.  The
components' theorems hold at the constants of the MC modules; that the parts of an MC module
do not disturb each other is left to TLC.  The type of `packed` in StorePoints depends on
what a recursion over the grid computes, and no theorem uses it.  Liveness under fairness,
ENABLED, and what recursive definitions compute are out of the reach of the prover.
`UniqueDriver` in the run's faulty world has one actor and is trivial there.

## 6. Findings

1. **A panic during a release counts as a confirmed release** (`actor/actor_loop.go:191`).
   The answer to a release that panicked carries the uid the actor still holds;
   releaseAndWait ignores `ok`, so the supervisor sees the uid it expects and drops the
   lease although the session is open.
2. **A discarded position comes back** (`scheduler/position_batcher.go:317`).  Discard
   while the position's batch is being written leaves nothing for mergeFailedLocked to
   compare with; if the write fails, the old position is queued again, the retry timer takes
   it and hands it to UpdateRobotPositions.  That statement passes over robots that are
   stores already, so the old position lands while the store is being prepared.
3. **A logout that overlaps a reconnect leaves the successor** (`protocol/dnf/task_handlers.go:74`).
4. **A stop and a start during a cycle leave an enabled market without a loop**
   (`capability/marketapp/marketapp_auto.go:15`).

`PROJECT.json` quotes the test or comment that each contradicts.

## 7. Observations

These come from the same modules, with other constants or from reading the code for them.
No configuration is kept for them.

* `HeldNotReusable` also fails with `Faults = {"slow"}`: AttachUID and
  assignIdleAutoActors give the lease back when an assign times out, while the assign
  stays in the channel and the actor takes the uid later.
* `CommandReachesItsUid` fails with two uids and one actor: an adopted actor whose assign
  is still queued looks idle, IdleAutoActors returns it, and it gets a second lease; a
  command for one uid then runs on the other (`actor/ledger.go:401`).
* `UnexpectedExitIsCleanable` of Ledger fails: the reap quarantines the uid of an actor
  that exited undrained, and cleanup skips quarantined uids, although the comment at
  `actor/ledger.go:553` says "Unexpected exits keep their UIDs blocked for supervisor
  cleanup".
* `WaitingIsDialed` fails with "disjoint" in `Env`: enqueueConnect does not ask whether its
  session is still registered, so the dispatcher's older one overwrites the newer entry and
  the registered session is never dialed (`protocol/dnf/task_registry.go:124`).
* `EveryItemTried` fails with `Limits = {1}`: the special queue gets a share only when more
  than one action is available.
* `NoneLost` fails with "catalog" in `Changes`: a round in which the catalogue cannot be
  read drops the queued items that the fallback list does not have.
* `RetryRounds` fails with "iteminfo" in `Changes`: an empty candidate list empties the
  rejected queue, and the next reload lists refused items at once.

*Party.*  A packet of state 3 that is lost leaves the peer's receive window on old numbers.
Acknowledgements of an earlier epoch that arrive late clear packets of the new one
(`party_reliable.go:116`); the claim of `PartySafe` is made for clean epochs.  A frame of a
bad size (`robot_session.go:729`) ends the session without closing the party's links;
finishReturnToSelect closes the UDP socket and leaves `natInfoSent`.  A snapshot without
unique ids and a realtime roster of another time, in either order, are joined slot by slot
(`party_state.go:540`): a member gets the id of another, the next confirmed roster moves its
account into the wrong slot, and the robot may leave a party that has a human.
`AppliedIsTrue` and `OrphansOnly` except this (`mixed`) until a snapshot with unique ids is
taken over.  `ReturnSelectPending` has no time-out.

*Trade and stores.*  The deferred recover of refreshTradeQuote takes `r.mu` again when the
panic comes from a section that holds it.  A late success of the create packet, after the
opener gave up, leaves a created store that nobody displays; a late packet may set
`StoreDisplayAck` besides a rejection; nothing stops an older opener.

*Robot rows.*  A rollback deletes by number without asking whose the rows are now; incomplete
batches are recovered only by the next creation and their actors are not stopped; rows of
`member_security_grade` are never cleaned; orphaned `member_premium` rows are reported as
deleted and stay; the supervisor's cleanup may overlap a creation; only
restoreAutoNormalOnline reads `cleanupPendingUIDs`.

*Manager.*  `errOperationConflict` cannot occur, since `mutationMu` serialises what it guards.

*TCP API.*  An answer is sent by remote address and may go to a newer connection of the same
address.  A token is consumed also when the delete it allows is refused because one runs.
The server closes first, so BeginBackgroundWork never refuses a request.

*Web administration.*  restoreMemoryVerified goes on after a restore that failed: with two
faults a branch into an empty cave is left.  A web admin killed between SIGSTOP and SIGCONT
leaves the game stopped until the next patch.  A half-applied mailbox guard with the guard
switched off is not repaired; its supervisor applies a configuration read before the mutex.
The automatic switch-off saves an old snapshot over a concurrent edit.  Killed between two
writes, the web admin leaves channels with different limits; the cache may show a limit
that was rolled back for 30 s; concurrent requests for the limit are not serialised.  The
cancel function of a script that has ended is kept and ends its process group, services
included; a launch that fails has already cancelled the running stop.

*Market loop.*  Shutdown waits for the loop and for the requests of connections, and not for
a rebuild: the listing that one has on its way may reach the market after Shutdown returned
(`ShutdownSettles`).  A request is taken to have its effect, or none, before the call that
sent it returns; what a market service does with a request whose socket was closed on
cancellation is not modelled.

*Market services and patches.*  A second copy is launched while a process runs without its
port, and the older one may keep the port.  A file written within a second of the process's
start never counts as newer.  SyncItemInfoDAT looks which services run, then writes the file,
then restarts those it saw (`marketapp_pvf.go:153`): a service that the loop starts between
the look and the write keeps the older file, the sync succeeds, and within that second no
later round replaces it.  `SyncedIsLoaded` and `StaleIsReplaced` do not cover this.  Three interrupted calls of filebackup.Save can lose all copies; a retry after
a failed replacement stores the same content again and evicts an older copy.  A vendor's
update between reading and replacing is lost.  Two concurrent patches of the memory and one
fault can leave half a patch that is reported as done.

*Launcher.*  Two launchers share `robot.new`; a restart helper still queued may start the old
program; repeated fresh installs that fail evict the original configuration; an ini file
that cannot be read means a fresh install.

*Mail, logs, keys.*  A mail whose row is committed after one with a higher number is skipped.
After one failed flush the robot's buffered writer keeps its error: the log is silent until
a restart; a failed reopening after a rotation ends it as well, and the log grows past its
bound while rotations fail.  A leftover `.trim.tmp` is never removed.  A key file replaced
by hand during a build, or a failed write of ReleaseDefault, leaves "invalid" cached under
the fresh stamps.  A build that found no public key, by the diagnostics say, derives it from
the private key it reads and writes it whatever is there by then (`keypair.go:265`): after a
ReleaseDefault this puts the old public key beside the new private one, and a CurrentStatus
between the two caches "valid" for the broken pair.  `StatusIsCurrent` excepts it
(`left.crossed`).  A valid key configured by hand unblocks commands although the key in
memory is loaded only at the start.

## 8. Hazards without a property

Of the 40 hazards in `PROJECT.json` one has no property: a control that is handled after its
sender gave up (`actor/actor_loop.go:79`) does break the claim, see section 7.  Four are
covered in part, and their notes say which part is left: `keypair.go:133`,
`marketapp_pvf.go:153`, `party_reliable.go:116` and `party_state.go:540`.  These are known as
well:

* `actor/ledger.go:401`: an actor adopted before its assign is handled gets a second lease.
  `CommandReachesItsUid` states it and is violated (section 7).
* `actor/ledger.go:592`: a uid whose actor exited undrained is quarantined and never
  cleaned.  `UnexpectedExitIsCleanable` states it and is violated (section 7).
* `scheduler/actor_registry.go:49`: LogoutUID reads the mode, the supervisor adopts the
  actor, then LogoutUID marks it draining and nobody stops it.  Needs the reason an actor
  stops itself in the state.
* `actor/actor_state.go:155`: setBusy of any command overwrites StateReleasing while
  `releaseRequested` stays set.  Needs those two flags in the state.
* `marketapp_rebuild.go:57`: rebuild, loop, job and command wait for each other's locks.
  The order is in `MarketAuto`; that every command ends is not stated.

`Deploy` lets the probes of a new robot go on where waitForRemoteRobot gives up after five
looks in a row that find no main process: the model only has more behaviours.

## 9. Not modelled

`PROJECT.json` gives the reason for each part.  Byte layouts and packet decoding, ciphers,
the PVF archive and the catalogue, prices and item tables, plan building, templates,
configuration defaults, HTTP pages, diagnostics and party_debug.go are data, formats or
read-only views: no state of theirs is changed by two actors, and what they decide is a
choice in the modules that use it.  The adaptive policy is arithmetic whose result is an
arbitrary target.  SQL is modelled by the rows it changes.  The caches of section 3 and the
single actor's flags have state and are left for later.
