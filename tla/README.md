# LinaPro core: TLA+ models and proofs

LinaPro is an administration platform written in Go (`apps/lina-core`), with a
Vue front end (`apps/lina-vben`) and a plugin system. One process runs alone,
or several run as a cluster around a PostgreSQL database and a Redis server.
What is hard in it is what the processes share: the leader lock, distributed
locks, the rows of scheduled jobs and their logs, revisions that invalidate
caches, sessions and revoked tokens, and the plugin registry. This directory
models the locks, the election, the scheduled jobs, the two revisioned caches,
logins and sessions, and the plugin lifecycle in TLA+, checks them with TLC and
proves the properties that matter most with TLAPS; the plan at the end lists
what is still to come.

All paths below are relative to `apps/lina-core/internal/service/` unless they
begin with `src/`.

## The system

| Part | State | Operations | Talks to |
|---|---|---|---|
| Lock store, `coordination/internal/redis/redis_lock.go` | a key with an owner token and a lease, a fencing counter | Acquire (SETNX, INCR), Renew, Release (token-checked scripts), IsHeld | Redis |
| Leader election, `cluster/` | `isLeader`, the lock handle, the lease manager goroutine | Start, the select of `run`, `tryAcquire`, renewing, `stepDown`, Stop | lock store; read by cron, jobs, plugins |
| Named locks, `locker/`, `hostlock/` | rows of `sys_locker`, or a coordination handle | Lock, Renew, Unlock, IsHeld, by name; tickets for plugins | lock store, or SQL |
| Scheduled jobs, `jobmgmt/` | `sys_job`, `sys_job_log`, gcron entries, slots, running executions | cron callback, Trigger, Cancel, CRUD, enable, reset, reload, reclaim | cluster (`IsPrimary`), handler registry |
| Built-in cron, `cron/`, `jobhandler/` | gcron entries, the handler registry | projection of built-in jobs, plugin handlers | jobs, plugin lifecycle |
| Cache coordination, `cachecoord/`, `coordination` revisions | one revision per domain, scope and tenant, observed revisions, failure window | MarkChanged, EnsureFresh, CurrentRevision | Redis, or `sys_cache_revision` |
| Runtime configuration, `config/` | snapshot per tenant, tagged with a revision | get, sync watcher, mark changed | cache coordination, `sys_config` |
| Access cache, `role/` | access context per token, tagged with a revision | get, rebuild, mark topology changed, watcher | cache coordination |
| Sessions, `session/` | `sys_online_session`, hot state and index in Redis | Set, Touch, Delete, Cleanup | coordination KV |
| Authentication, `auth/` | revoked tokens, pre-tokens | Login, Refresh, Logout, tenant switch | sessions, coordination KV |
| Plugin runtime, `plugin/` | plugin rows, releases, generations, reconciler revision | install, enable, disable, upgrade, uninstall, reconcile | cluster, locks, cache coordination |
| Key-value cache, `kvcache/` | expiring entries | Get, Set, Incr, CleanupExpired | SQL or Redis |
| Administration data: users, menus, dictionaries, files, notices, i18n | database rows | CRUD | database, caches above |
| Front end, `src/apps/lina-vben` | browser state | views | HTTP API |

### What is hard, and what correctness means

* **Election.** The lease runs out in Redis while the node that holds it is
  slow, paused, or told of an error; `IsLeader` is a flag read elsewhere.
  Correct: one primary at a time; a node that lost its lease notices; nobody
  ends another node's lease; somebody leads in the end; Stop returns.
* **Lock store.** Two commands per acquisition, late commands of former
  holders, lost replies. Correct: only the owner ends or extends a lease; the
  fencing token of the live holder is the largest.
* **Scheduled jobs.** No transaction and no lock spans the row, the gcron
  registry and the counters in memory, and several nodes fire the same job.
  Correct: the quota is not exceeded; slots are neither leaked nor released
  twice; the running log rows are the executions in flight; an enabled job is
  registered wherever it should run.
* **Revisions and caches.** A write bumps a revision, readers tag what they
  load with the revision they saw before loading. Correct: an entry that
  matches the current revision contains every write that revision covers; a
  read is never staler than the declared budget; a failed bump is visible.
* **SQL locks.** `Renew` checks and updates in two statements. Correct: a
  holder that was preempted learns it, and does not extend its successor's lease.
* **Sessions and tokens.** `TouchOrValidate` reads and writes back, racing with
  Logout and with the cleanup. Correct: a revoked session does not come back; a
  refresh token or a pre-token is used once.
* **Plugins.** Reconciling is retried by every node and by the primary, after
  crashes, with partial effects. Correct: a stable state is reached, a failed
  upgrade leaves the old release running, two lifecycle changes never overlap.

`PROJECT.json` lists each hazard at its line.

## The modules

```
LockStore            one lock key in Redis: SETNX, renew and release scripts, expiry
 |- LeaderElection   EXTENDS LockStore: the nodes of the cluster
 |   |- LeaderElectionProofs
 |   `- MCLeaderElection
 `- RedisLock        EXTENDS LockStore: arbitrary clients, the fencing counter
     |- RedisLockProofs
     `- MCRedisLock
ExclusiveLock        what a lock promises        <- implemented by SqlLocker
FencedLock           ... with fencing tokens     <- implemented by RedisLock
SqlLocker            the SQL branch of the locker and the plugins' lock tickets
 |- SqlLockerProofs
 `- MCSqlLocker
JobScheduler         one job on several nodes
 |- JobSchedulerProofs
 `- MCJobScheduler
CacheCoord           revisions in Redis, what each node observed, the stale window
 |- RuntimeConfig    EXTENDS CacheCoord: sys_config, its writers, readers, watcher
 |   |- RuntimeConfigProofs
 |   `- MCRuntimeConfig
 `- AccessCache      EXTENDS CacheCoord: permission snapshots of login tokens
     |- AccessCacheProofs
     `- MCAccessCache
AuthSessions         tokens, revocation, sessions, one-time tickets
 |- AuthSessionsProofs
 `- MCAuthSessions
PluginReconciler     lifecycle of one dynamic plugin on several nodes
 |- PluginReconcilerProofs
 `- MCPluginReconciler
```

### LockStore

`key` and `ttl` are the Redis key and what remains of its lease, in ticks.
`SetNX`, `Extend`, `Delete` and `ReleaseScript` are the commands and the two
Lua scripts of `redis_lock.go`; `Age` is one tick of Redis' clock. Owner tokens
are random in the code; a client takes any token nobody refers to.

### LeaderElection

One action per step of `electionService.run` (`pc`), of the lease manager
goroutine (`mgr`, `due`, `ticker`) and of the environment. `tryAcquire` is three
steps because `Acquire` is two commands and a compensation: `SetNXWins`, `Incr`,
and `IncrFails`, `UndoAcquire`. `stepDown` is `OnStop`, `Join`, `Release`,
`Clear`, in the order of the code. A failing command may or may not have reached
Redis. `Crash` loses what the process knows and leaves the key. Releasing the
lock while shutting down has its own step between which others interleave,
because the code clears `isLeader` after it.

Time is discrete. `Timely` says whether due steps are taken within `Delay`
ticks (`lag`, `mgrLag` count how late they are) or whether processes may be
paused for ever so long. The retry ticker of followers is left free.

### RedisLock

The same key with clients that acquire, renew, release, drop their handle or
lose a reply, and the fencing counter `fence`: what `locker` and `hostlock` use
in a cluster. A client keeps its handle after its lease ran out.
`ImplementsFencedLock` is the refinement: the clients whose token is in the key
and who have their fence own `FencedLock`, whose tokens only grow.

### SqlLocker

One row of `sys_locker` (`row`), and per client the lock call or renewal it is
in, the clock it read and the row it read. `Lock` is `LockReads` (the SELECT),
then an INSERT, a takeover or an UPDATE of its own row (`Inserts`, `TakesOver`,
`OwnRow`), which may succeed, fail, or succeed with its reply lost. A renewal is
`RenewChecks` and `RenewExtends`, two statements, the second by row id; `Expire`
is the UPDATE of a release. `until[c]` is what the client was told. `Delay` bounds how
long a statement may run after its call read the clock. The refinement of
`ExclusiveLock` (property `Exclusive`) says which clients may rely on the lock
(`Relying`): those that were told of a lease with more than `Delay` left, and were not
told so by a renewal that had meanwhile lost its row (`misled`). The first is what a
caller has to allow for, since the expiry is computed from a clock read before the
statement; the second is what the code gets wrong (see below), and it is confined to
the client of that renewal.

### JobScheduler

One user-defined shell job. Shared: the row (`status`, `count`, and `settings`: the
scope, the quota and the limit, which `UpdateJob` rewrites) and its running log rows
(`running`). Per node: the gcron entry (`entry`), `runningCounts`
(`slots`), and whether it is down, has reclaimed its logs, or is up (`phase`).
`call[c]` is one goroutine of `runCronJob` or of a manual trigger with its
locals, among them the job as it read it; `req[a]` is one administration request on some node. Every SQL
statement, every critical section of the mutex and every gcron call is a step:
`Fire` (getJob), `PassScope` or `SkipNotPrimary`, `AcquireSlot`, then `Claim`,
`ClaimLost`, `DisableExhausted` or `QuotaOrCreateFails` (prepareCronQuota),
`CreateExecution`, `RemoveLast`, `Finish`, `Free`, `RemoveExhausted`. Requests are
`Receive`, one write per operation, and `Unregister` or the three steps of
Refresh. `IsPrimary` may answer anything, at any time: the election is modelled
elsewhere. The gcron run and the read of the row are one step; a skipped tick
leaves a terminal log row, of which no property speaks, so it is not kept.
The INSERT of a log row and the UPDATE that closes it may take effect and lose their
reply (`LostLog`, `Finish`). `ClearLogs` deletes any of the running rows: an administrator
who clears the logs, or the retention task, neither of which asks whether a row is
running. `claims`, `orphans` and `cleared` are history: quota claims since the last
reset, rows whose insert or closing update failed, and running rows that were deleted.

### CacheCoord

`revision[s]` is the counter of a scope in Redis. `observed[n][s]` is what
`storeObservedRevision` and `recordSuccess` keep in a node, with the end of the
window in which `EnsureFresh` still returns it when Redis cannot be read.
`EnsureFresh` reads and stores; the steps between are left to the module that
uses it. Events are left out because nothing in the program subscribes to them:
consistency rests on the revisions alone.

### RuntimeConfig

The rows of `sys_config` are the authority; a snapshot is the set of committed
writes its tenant can see, so "stale" means that a write is missing. `write[w]`
is a create, update, delete or import: `Commit` (the transaction),
`BumpRevision`, `BumpFails` or `ReplyLost`, `Mirror` (the rest of
`MarkTenantChanged`), `DropOwn` (removing the own snapshot); in single-node mode
`StoreLocal` takes the place of `Mirror`. The mode (`cluster`) is chosen at the start
from `Modes`. `Serial` says that writes do not overlap; the
code does not see to that, and single-node freshness needs it. `call[c]` is `getRuntimeParamSnapshot`
or `SyncRuntimeParamSnapshot` with its locals: a revision is read (`ReadShared`,
`ReadObserved`, `ReadLocal`) and stored (`ObserveRevision`), the cache is looked up (`Hit`, `Miss`), filled under its lock
(`FoundFilled`, `LoadLocked`, `Insert`), the revision is read again (`Recheck`),
and a snapshot with another tag is dropped and loaded anew (`Differs`, `Load`,
`SetEntry`). `must` and `old` are history: what had been published when the
call began, and `old` which of it more than `MaxStale` before. A writer whose node ends
is in the same state as one that got an error: its caller has no answer, and may
repeat the request.

An entry may expire at any moment (`ExpireEntry`), although the TTL is an hour.
`Tick` assumes that a revision is stored within the tick in which Redis returned
it: the window of the code begins when the answer is stored, so a slow reader
would add its own delay to `MaxStale`.

### AccessCache

The same scheme as `RuntimeConfig` with three differences of the code. A node
keeps one `local` revision, shared by all tenants, that a request uses unasked
for a refresh window (3 s). A writer (`change[w]`) clears its own cache, then
publishes, and an error of publishing is logged and dropped (`MarkFails`). The
watcher (`Sync`) asks Redis whatever the age of the local revision and clears
the cache when it changed. A request is `Request` (local revision), `AskShared`
or `AskObserved`, `Refresh`, `StoreLocal`, then the lookup as above. The
reverse index of tokens is abstracted: clearing removes any of the entries, and
an entry may expire at any time. `cluster` and `tenancy` are chosen at the start from
`Modes`, so a run checks several deployments. Without tenancy there is one revision,
with it one per tenant (`Tenant`, `Tenants`). A snapshot is the set of the changes that
were committed when it was loaded; which of them its token depends on is decided where
the snapshot is judged: those of its own tenant and of the platform (`Touches`). The
several SELECTs that load a snapshot count as one.

### AuthSessions

One user, whose tokens are of the platform or of tenants (`tenant`, chosen when a token
is issued). A token id stands for the access and the refresh token
that share it. In cluster mode a session is a `hot` state with a TTL, an `index`
of the user's tokens, and a `row`; on a single node it is the row. `marked` and
`markedAt` are the shared and the process' revocation markers. `call[c]` is one
request with its locals, and every access to Redis or PostgreSQL is a step that
may fail: `Login` (`SetHot`, `AddRead`, `AddWrite`, `SetRow`, `UndoHot`), `Parse`
with `GetHot`, `RefreshHot`, `TouchRow` (or `GetRow` on a single node) and
`RefreshUser` for an access or a refresh, `Revoke` and `Switch` (`Mark`, `Find`,
`DropHot`, `DropRead`, `DropWrite`, `DropRow`), `Claim`, `ReadTicket`, `Consume`
for pre-login and password-reset tokens, `ReadIndex`, `NextToken`, `DropRows`
for a password reset, which asks for the sessions of tenant 0 (the platform) only
(`OfPlatform`, `Stored`). `CleanupRow` is the cleanup job and
`ChangeTimeout` an administrator. A restart empties the process' markers and, on
a single node, the key-value cache. `used`, `lapsed`, `switch`, `ending`,
`ended` and a call's `due`, `dead` are history.

### PluginReconciler

One dynamic plugin. `row` is its row of `sys_plugin` (`fresh` stands for an
`updated_at` younger than the staleness limit), `schema` whether its tables
exist, `proj[n]` the row of node n in `sys_plugin_node_state`, `lock` the
per-plugin lock. `proc[p]` is the ticker of a node or a management request: it
records its intent (`Record`), takes the node's mutex and reads the row (`Tick`,
`Enter`), takes the lock (`Lock`, `LockHeld`), does the work the row it has read
asks for (`RecoverStale`; `Mark`, `Side`, `Finalize`), undoes it when a step
fails (`SideFails`, `Rollback`, `MarkFailed`), and ends with the projection (`Unlock`,
`Project`). A failed `finalizeState` is undone by nobody: its nil row replaces the
registry the rollback would restore from (`FinalizeFails`), and "reconciling" stays
until the stale sweep. An upgrade runs on any node and marks the row
before it takes mutex and lock (`MarkRunning`, `Reread`, `RestoreUpgrade`). The
gate of a tick (the reconciler revision, or the 5 min safety sweep) is
abstracted to "a tick may run at any time"; that it runs again and again is the
safety sweep's doing, so a lost publication delays and does not prevent.

## What is checked

| Run | Instance | Shows |
|---|---|---|
| `election_timely` | 3 nodes, Lease 6, interval 2, delay 1, 2 faults | `LeaderOwnsLease`, `SinglePrimary`, `OwnerOnlyTouchesLease` |
| `election_paused` | 2 nodes, unbounded pauses, 2 faults, fairness | `StaleLeaderStepsDown`, `LeaderEmerges`, `StopCompletes` |
| `redislock_timely` | 3 clients, Lease 2, delay 1 | `FenceOrdersHolders`, `ImplementsFencedLock` |
| `sqllock_delayed` | 3 clients, Lease 4, delay 2, 8 ticks, lost replies | `Exclusive` (implements `ExclusiveLock`) |
| `jobs_rows` | 2 nodes, 2 calls, 1 request, every operation but update, 2 faults | `QuotaRespected`, `RowsMatchExecutions` |
| `jobs_live` | 1 node, 2 calls, 1 request, updates of limit and quota, 1 fault, fairness | `SlotsExact`, `SlotFrees` |
| `config_reads` | 1 node, 2 tenants, 2 calls, restarts; in a cluster 1 write, 2 ticks, Redis fails; alone 2 writes one after the other | `TagSound`, `FreshRead`, `BoundedStaleness` |
| `access_cache` | 1 node, of a cluster without tenants or alone with 2 tenants; 2 calls, 1 change, 3 ticks, 2 faults | `TagSound`, `FreshAccess`, `BoundedStaleness` |
| `access_tenants` | cluster of 2 nodes with 2 tenants, 1 call, 1 change, no fault | violation of `FreshAccess`: a tag meets another tenant's revision |
| `auth_sessions` | 1 node in either mode, 2 tokens of the platform or of a tenant, 2 calls, 1 ticket, 4 requests, 1 fault | `RevokedStaysOut`, `SingleNodeStaysOut`, `TicketOnce`, `ActiveSessionKept` |
| `plugin_cluster` | 2 nodes, 2 requests in succession, 1 fault, fairness | `SideEffectsExclusive`, `SchemaMatches`, `ReconcilingEnds`, `NodesConverge`, `DesiredReached` |
| `plugin_intent` | 2 nodes, 2 requests at a time, no fault | violation of `IntentKept`: a request's intent is overwritten |

One run of each module also checks its type invariant `TypeOK`.

Each property has a mutant of the code's definition (named after it, with an
underscore) that a run refutes.

### Bounds

Three nodes are the fewest where a crashed holder, a new holder and a late third
node exist at once. One more token than nodes is needed for a key that belongs
to nobody. Lease 6 is the smallest that satisfies the timing assumption with
interval 2 and delay 1; with 5 TLC finds two primaries. Two faults allow a lost
reply followed by a crash, or a failed INCR whose compensation fails.

For jobs, two nodes with one call each, or one node with two, are the ways two
ticks can race; a quota of one makes the first claim the last; `MaxLogs` limits
how many executions start. `jobs_live` leaves out the operations that change neither
limit nor quota, and has one node, because slots are counted per node. Safety of any
larger instance is covered by the proofs. Deadlock checking is off for jobs: a deleted job with no request is a
system at rest.

For the runtime configuration, one write of the platform seen by two calls is every way in which
a snapshot can be loaded before, during and after a publication. Caches,
observations and locks belong to a node, so the two snapshots of one node, only
one of which the writer drops, meet the races that two nodes would; the proofs
hold for any number of nodes, tenants, writes and calls. With a window of one
tick (`MaxStale` 0) and two ticks (`MaxTime` 1) an observation can be too old. On a
single node, where time plays no part, two writes are one that is finished and one that
is under way while a reader loads, and two calls share a snapshot or overwrite each
other's. The constraint `Bounded` of `MCRuntimeConfig` gives each mode these writes;
more of them in a cluster are left to the proofs.
The access cache has a refresh window of its own, so it takes three ticks for a
local revision, stored from an outage, to be used and to end; two faults are an
outage that meets both revisions of one request.

The SQL lock needs three clients for a preempted holder, its successor and a
rival that reads the same expired row. With Lease 4 and delay 2 a client may rely on
its lease for a tick or two, and a renewal may be late enough to meet its successor's
row; a lease, a takeover and a renewal of it fit into eight ticks. For sessions, one node is enough in cluster mode because the state
is in Redis, and its process markers only refuse more; two requests are the
reader and the writer of every race, two tokens the before and after of a tenant
switch or the two entries of an index; four requests are a login, what uses the
session, what ends it, and a later attempt (`MCSpec` gives one token at least to the
platform, as a reset ends nothing else, and starts with the longer timeout). `RefreshTTL` 3 outlives both ticks,
so a marker that ends early is met. For plugins, two nodes are the old and the
new primary; two requests, one after the other, with the tickers of both nodes
give up to three executors at once; one fault is a crash in the middle of the
work, a failing step or a change of the primary. `plugin_intent` needs the
second request while the first is at work, hence two request processes.

### Fairness

`LeaderElection`: goroutines are scheduled, tickers fire, time passes (weak
fairness). A Go `select` with several ready cases picks one at random, so a
closed `stopChan` is not passed over for ever even though a retry tick may be
ready each time: strong fairness of `OnStop`, weak fairness of `MgrStops`.
`Start`, `Crash`, `Stop` and errors are not fair.
`JobScheduler`: a call or request that has begun goes on. `Finish` is fair because
every job has a timeout of 1 s to 24 h, after which the context is cancelled and
the shell executor kills the process group. Firing, triggering, restarting and
requests are not fair.
`PluginReconciler`: a process goes on with its pass (weak fairness of `Pass`);
the node mutex is contended, and a Go mutex hands itself to a starving waiter, so
taking it is strongly fair (`Request`, `Tick`); ticks come again and again since
`runReconciler` ticks every 2 s and the safety sweep passes its gate every 5 min
whatever the revision; the lease ends, a row becomes stale and a node is started
again by its supervisor (`Time`). Requests, faults and elections are not fair: if
no node is primary for ever nothing converges, which is why a crashed primary is
either restarted or replaced.

## What is proved

All theorems hold for every set of nodes, clients, calls and requests and every
value of the constants that satisfies the named ASSUMEs.

* `LeaderElectionProofs`: `TypeCorrect`; `OwnerOnly` (no assumption on time);
  `LeaderOwnsLeaseThm` and `SinglePrimaryThm` under `TimingAssumption`:
  `RenewInterval + 3 * Delay < Lease`. "The flag implies the lease" is not
  inductive, for the lease shrinks with time. The inductive invariant has three
  parts: `TokensDistinct` (no two nodes hold one token), `Control` (flags, lease
  manager and the loop's place agree), `LeaseMargin` (a node that leads or is
  acquiring has at least the time left that its remaining steps may still take:
  until the ticker fires, to renew, to react). The code does not check this
  bound on the configured interval and lease; its defaults (10 s and 30 s)
  satisfy it up to a latency of 6 s.
* `RedisLockProofs`: `FencesUniqueThm` without assumption, since only one INCR
  returns a given value; `FenceOrdersHoldersThm` when INCR follows SETNX within
  the lease. The invariant says that while an INCR is pending its key is still
  alive, so the number it gets is the largest and nobody else draws one.
  `ImplementsFencedLockThm` proves the refinement from the same invariant, step
  by step. `TypeCorrect`.
* `SqlLockerProofs`, for any `Delay`: `TypeCorrect`, `ExclusiveThm` (the refinement of
  `ExclusiveLock` by the clients of `Relying`) and `LeaseKeptThm` (the row of such a
  client is its own, and ends at most `Delay` before what it was told). The invariant
  relates what a client was told to the row, bounds the clock of a call in flight by
  `Delay`, and says that a row read as free is the row still, unless its UPDATE will
  no longer match.
* `JobSchedulerProofs`: `SlotsExactThm` by counting the holders of a node (each
  step of a call acquires, releases or keeps, lemma `SlotEffect`), and, since updates
  change the limit, by counting those that were let in under each limit (lemma
  `LimitStep`); `RowsMatchExecutionsThm` with `LogsFresh` (ids are used once) and
  `CallsPlaced` (a call in flight is on a node that is up, so reclaiming, which
  happens while the node is down, meets no live execution), for rows that are not
  `cleared` or `orphans`; `QuotaRespectedThm` for any `Ops` without `"update"`: the
  stored count equals the claims since the last reset, and the compare-and-set makes
  the copy a call decided on current.
* `RuntimeConfigProofs`, for any `Modes`: `TypeCorrect` in both modes, by an invariant of
  its own (`TypeInv`); `FreshReadThm`, `TagSoundThm` and `BoundedStalenessThm` say of
  cluster mode (`cluster => ...`) what `config_reads` checks, also for writes that overlap.
  That a read is fresh is not inductive: it depends on what other
  calls put into the cache. The invariant states that every snapshot, cached or
  in the hands of a call, contains all writes up to its tag, and that no tag,
  observation or revision read is ahead of the counter (`Sound`, `Behaved`,
  `ObservedBehind`, `WritesBehind`); a new write then gets a revision that no
  existing snapshot claims (lemma `BumpKeeps`), and steps that publish nothing
  need only show what they put where (lemmas `OneCall`, `NothingPublished`).
  Bounded staleness adds `Window`: an observation that misses a write ends within
  `MaxStale` of it, because a revision is stored in the tick in which it was read.
* `AccessCacheProofs`, for any `Modes`: `TypeCorrect`; `TagSoundThm`, `FreshAccessThm`
  and `BoundedStalenessThm` wherever one counter counts every change (`OneCounter`): on
  a single node with any number of tenants, and in a cluster without tenants. In a
  cluster with tenants they do not hold (`access_tenants`). The invariant says
  that no tag is ahead of the counter and every snapshot has the changes up to its tag
  (`Sound`), that a local revision with an open window and an observation are not
  behind what is older than the windows (`LocalOK`, `ObservedOK`), and that once a
  request has its revision every snapshot with that tag has what the request may not
  miss (`Covers` in `Behaved`). `Covers` is what survives between lookup and decision
  while others load, clear and publish. On a single node the counter starts again with
  the process, so `Sound` says there that the current tag has everything.
* `AuthSessionsProofs`: `TypeCorrect`; `TicketOnceThm` without assumption, since a
  claim counts before it reads, and the counter outlives the ticket (`TicketSafe`);
  `RevokedStaysOutThm` under `TimesFit`: a refresh token lives at least as long as a
  session may idle and as an access token that a call signs late. `tokenTTL` takes the
  largest of 7 days, the session timeout and the access lifetime; a session timeout
  raised above 7 days later is what the assumption excludes. The invariant
  (`TokenSafe`, `CallSafe`) says of a revoked session, in cluster mode, that a marker
  outlives its tokens, and on a single node that its row is gone and that no call
  still on its way can bring it back.
  `SingleNodeStaysOutThm` has no assumption on time: a single node accepts a token
  only with its row, and `SessionInv` says that the row of an ended session is gone
  and stays so (a reset ends those of the platform only), because one login at most
  writes it (`OneLogin`) and a session ends
  only after that login was answered (`TokenShape`). A request that began after the
  end is then refused at its first step (`CallShape`).
  `ActiveSessionKeptThm` follows from `SessionInv` and `KeptInv`: while nothing has
  failed, every stored session is either given up (ended by somebody, or once unused
  for the timeout; on a single node the timeout less the write window of the row) or
  all that a request needs is there and notes a use at least as late as the one the
  history remembers (`Kept`, `Noted`). A use is noted in the store some steps before
  the request that makes it is accepted, so a request on its way carries what it has
  established (`KeptCall`), and the steps of others are shown to leave it (`Better`).
* `PluginReconcilerProofs`: `TypeCorrect`; `SideEffectsExclusiveThm` by `LockOwned`
  (whoever is between taking and releasing the lifecycle lock is in it, a failed
  finalize included);
  `SchemaMatchesThm` by `Settled`: without faults only the primary works
  (`OnPrimary`), under a mutex per node (`MutexHeld`), so the row a process has read is
  the row still (`CopyCurrent`), and "reconciling" has a process that ends it
  (`RowExplained`).

Only model-checked: `FreshRead` of the single-node configuration, which holds while
writes do not overlap (`config_reads`) and fails when they do (`config_local.cfg`); and
the liveness properties (`StaleLeaderStepsDown`, `LeaderEmerges`,
`StopCompletes`, `SlotFrees`, `ReconcilingEnds`, `NodesConverge`, `DesiredReached`),
which rest on ENABLED and fairness and are out of the prover's reach. Nothing is proved
about a recursive definition; there is none.

## Departures from the documents

Two of them are runs that TLC finds violated; `PROJECT.json` quotes the lines.

* `plugin_intent`: a request that is served while another one is at work records its
  `desired_state`, and the work in progress then writes `desired_state` from the row it
  had read (`runtime_registry_lifecycle.go:44`); the comment on `updateDesiredState`
  promises that the reconciler converges to the recorded intent.
* `access_tenants`: the one local revision of a process is compared with tags of every
  tenant, and a platform change is not seen under a tenant's revision: a request of a
  tenant is served, with its tenant's current revision, a snapshot without a platform
  change that was published long before (`role-management/spec.md:219,275`,
  `menu-management/spec.md:403`).

The others are kept here, with a configuration where there is one
(`tlc -config X.cfg M` finds the behaviour).

Scheduled jobs:
* `jobs_update.cfg` (`MCJobScheduler`): `UpdateJob` writes back the
  `executed_count` it read (`jobmgmt_job_crud.go:439`); a quota claim in between
  is undone, and the job runs more often than its limit (`job_create.go:28`).
* `jobs_nodes.cfg`: create, update, enable and reset refresh the scheduler of the
  node that served them only (`jobmgmt_job_crud.go:159`);
  `src/openspec/specs/cron-jobs/spec.md:79` wants an all_node job on every node.
* `jobs_tick.cfg`: of two nodes that fire an all_node job together, the one whose
  compare-and-set of `executed_count` loses drops its execution without a log row
  (`scheduler_runner.go:152`).
* Removing an exhausted job's gcron entry can undo a registration made in between.
* An execution whose running row was deleted ends without a trace, and one whose INSERT
  lost its reply leaves a row that stays running until the next restart of its node
  reclaims it (`cleared` and `orphans` of `RowsMatchExecutions`).

Runtime configuration:
* `config_local.cfg` (`MCRuntimeConfig`): on a single node `MarkChanged` bumps the revision and stores it again
  in a second critical section (`config_raw.go:514`). Of two writers that overlap the
  first can set the revision back, and a read that begins after the second has reported
  success is served a snapshot without its write.
* `config_retry.cfg` (`MCRuntimeConfig`): an update repeated after its publication failed finds the
  value in place and succeeds without publishing (`sysconfig_impl.go:88`;
  `src/openspec/specs/distributed-cache-coordination/spec.md:73,86`).

Locks:
* `sqllock_slow.cfg` (`MCSqlLocker`): a renewal delayed between its two statements
  extends the lease of its successor and reports success
  (`locker_impl.go:185`; `src/openspec/specs/distributed-locker/spec.md:39-41`).
  A release during a pending renewal can be undone for one lease in the same way.
* The branch of `Lock` for a row of the same holder (`locker_impl.go:60`) cannot be
  reached through `hostlock`, whose holders are unique; `RenewByName` returns
  `sql.ErrNoRows` rather than `ErrLockNotHeld`; `IsHeld` of the SQL branch does not
  look at the holder, and has no caller outside tests.
* `stepDown` releases the lock before it clears `isLeader` (`SinglePrimary` therefore
  excludes a node that is stepping down), and `FenceOrdersHolders` needs an INCR
  within the lease.

Access cache (`src/openspec/specs/role-management/spec.md`):
* `FailsClosed` fails: a revision of the stale window is stored like a fresh one
  (`:264-272`). `BoundedStaleness` is what remains true.
* An error of publishing is logged and dropped (`:233-241`), and a process that ends
  between commit and publication never publishes; other nodes keep the old grants
  until the TTL. A late store can set the local revision back for up to 3 s.

Sessions and tokens:
* A password reset deletes the sessions of tenant 0 only
  (`auth_password_reset.go:143-145`); a session that was opened in a tenant, by a
  pre-login token or a tenant switch, stays accepted.
* Among those of the platform `ResetEndsSessions` fails: the index is read and written in two commands, and its
  TTL is not extended by a touch, so a password reset can miss a session
  (`session_coordination.go:205`); TLC needs five requests for it (`MaxBegun` 5).
* `SwitchIsFinal` fails: the marker of a tenant switch ends with the access token and
  the refresh token lives on; a switch that races with a revocation replaces its
  longer marker (`user-auth/spec.md:181,189-192`). `RevokedStaysOut` excludes it.
* `CleanupInactive` may delete the row of a session that is in use when the timeout
  is not above the 1 min write throttle, and `Delete` without a row leaves the hot
  state; a request that finds a session inactive drops it by key.
* The login rate limiter's "fixed TTL window" (`auth_rate_limit.go:20`) is prolonged by
  every increment (`redis_kv.go:94-112`). It is not modelled.

Plugins:
* The rollback phase runs the install SQL again (`migration.go:152-161`), so the tables
  of a failed install stay; a failed uninstall restores "installed" without tables.
  `SchemaMatches` speaks of the time without faults.
* When `finalizeState` fails, `registry` is nil for the rollback that follows
  (`runtime_reconciler_install.go:68-70`, `runtime_reconciler_upgrade.go:124,320`):
  nothing is restored or reported, and the plugin is "reconciling" for 5 minutes, until
  the stale sweep.
* A node that dies between `markRuntimeUpgradeRunning` and `markReconciling` leaves
  `upgrade_running` for ever (`upgrade_runtime_plan.go:22`). A failed upgrade writes a
  stable state over another executor's "reconciling" (`plugin-runtime-loading/spec.md:345`).
* A request that meets a held lock reports success without work. After a fail-over a
  row read before the lock lets an install be repeated. An upgrade away from the
  primary can undo an uninstall. Disabling or enabling after an uninstall has passed
  its check reinstalls. After a crash the restored row wants what it already is: the
  interrupted request is not resumed.

## What is not modelled

* Redis losing data (fail-over without the key, or with an older revision), clocks that run at different
  speeds, and the in-memory coordination backend, which is a test double.
* Single-node mode of the election, where the node simply is primary.
* CancelLog (it makes an execution end earlier, which `Finish` allows at any
  time), handler jobs of plugins (users cannot create them), built-in jobs.
* Of authentication: captcha and rate limits, external providers, impersonation,
  login hooks and the login log. A rewritten index always gets the timeout of its call
  as TTL, where `session_coordination.go:485` takes the store's default.
* An error of reading or registering the job inside a Refresh: the entry is then
  missing, as after a crash in the same place.
* Of plugins: a changing or missing artifact (so the projection "failed" of an active
  release that no longer loads), the refresh of a release, the status column of the
  release and the menus, source
  plugins, dependencies between plugins, an uninstall that keeps the data or is
  forced, single-node mode, the WebAssembly runtime and the host services.
* Parts without concurrency of their own: administration CRUD, i18n, menus,
  dictionaries, the HTTP layer, the front end, build tools, generated DAO code.
  They are most of the repository by lines; each operation is one transaction of
  the database.

## Plan

1. *Done*: `LockStore`, `LeaderElection`, `RedisLock`, `JobScheduler`, `CacheCoord`,
   `RuntimeConfig`, `SqlLocker` with its abstract locks, `AccessCache`,
   `AuthSessions`, `PluginReconciler`, each with proofs.
2. Proofs of the access cache in a cluster with tenants, once tags name their tenant.
   (*Done*: the single-node properties of sessions and of the access cache.)
3. `Cluster`: the composition of election, jobs and reconciler, with the primary
   taken from the election instead of chosen freely.
4. The plugin dependency resolver as a pure algorithm against a reference definition.
