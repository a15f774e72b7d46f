# A TLA+ model of ZenProxy

ZenProxy turns subscriptions (lists of upstream proxies) into local ports, one per proxy.
The repository has two programs:

- the **server** (`src/src/`, Rust): users, subscriptions, a pool of proxies with verdicts and
  quality data, a relay API, and a child process sing-box that listens on one local port per
  bound proxy;
- the **client** `sing-box-zenproxy` (Go), a modified sing-box. The additions are in
  `experimental/clashapi` (a store of proxies, dynamic bindings, fetching from the server) and a
  few lines in `route/`. Everything else in that tree, and all of `sing-box-dev-next`, is upstream
  sing-box and is not modelled. The server runs the same build as its child process, so both
  programs rest on `bindings.go`.

This directory holds seven specifications of components (one in two modules, `BindingSync` and
`BindingApi`), two abstract specifications (`PortMap` and `SavedStore`), their TLC configurations
and eight modules of proofs. Both programs are full of handlers that keep
several copies of one fact and lock less than the whole handler; that is what the specifications
are about.

## 1. Inventory

### Server

| Component | State | Operations | What makes it correct |
|---|---|---|---|
| Proxy pool (`pool/manager.rs`) | concurrent map of proxies: status, `local_port`, `error_count`, quality | add, remove, set_status, set/clear port, increment_error, pick_random, load | an advertised port is the proxy's own; verdicts agree with the database |
| SingboxManager and port pool (`singbox/process.rs`) | `PortPool.used`, the child process | allocate, free, create_binding, remove_binding, sync_bindings, start, stop | no port leaks or is given twice, though calls fail or time out |
| Sync passes and subscriptions (`api/subscription.rs`) | none of its own; works on snapshots | add, delete, refresh subscription; sync_proxy_bindings in three modes | pool, allocator and sing-box agree after a pass; a refresh keeps what is still listed, and nothing else; pool and tables hold the same proxies |
| Relay (`api/relay.rs`) | a cache of HTTP clients | choose a proxy, bind it on demand, forward, report failures | a request leaves through the proxy the answer names; a port is created once |
| Validation (`pool/validator.rs`) | `validation_lock` | recheck, rounds of sync + validate, stuck proxies, cleanup | every proxy is judged; no verdict is lost |
| Admin handlers (`api/admin.rs`) | none | delete proxy, cleanup, ban, unban, delete user | as the pool and the database |
| Startup and tasks (`main.rs`) | timers | load, first sync, validation, quality check, auto-refresh, sweeps of sessions and cache | a restart brings back what there was |
| Quality checker (`quality/checker.rs`) | rate limiter, retry counts | check_all, check_batch | retries end, also across restarts; a verdict reaches pool and row; bindings are moved only for a check |
| Authentication (`api/auth.rs`) | sessions, API keys, cache of users | OAuth callback, logout, new key, lookup | a ban, a logout or a new key takes effect in bounded time; a login revives nothing |
| Database (`db.rs`) | SQLite tables behind one mutex | one call, of one statement or of several with no transaction | what a call that stops half-way leaves does no harm |
| Fetch endpoints, router, parsers, configuration | none | read-only or sequential | |

Interactions: handlers are tokio tasks that share `AppState`. The pool is a `DashMap` read and
written entry by entry without a common lock. `AppState.singbox` is a tokio mutex around
SingboxManager, held across HTTP calls to sing-box. `validation_lock` serialises `validate_all`
and the passes of `check_all`, but not the pass that `delete_subscription` spawns, nor
`check_batch`, nor refreshes, deletions and on-demand creations by relay requests. Each fact about a
proxy is written to the pool and then to the database, or the other way round by the cleanup of
failing proxies. No foreign key ties the rows of proxies to their subscription.

### Client

| Component | State | Operations | What makes it correct |
|---|---|---|---|
| Dynamic bindings (`bindings.go`) | `BindingManager.bindings` | create, batch create, delete, delete all | entry, inbound, outbound and route exist together or not at all |
| Port pool (`proxy_manage.go`) | `PortPool.used` | Allocate, Release | no port leaks or is given twice |
| Store (`store.go`) | proxies, subscriptions, `store.json` | one locked call each; `save` in a goroutine | a restart brings back what was in memory |
| Subscriptions (`subscription.go`) | none | add, delete, refresh, in several calls to the store | no orphans, no duplicates |
| Remote fetch (`remote_fetch.go`) | none | fetch from the server, store, bind | as store and bindings |
| Router, inbound and outbound managers | upstream, plus `BindInbound`/`UnbindInbound` | create, remove, bind | |

Interactions: every HTTP request is a goroutine. The store, the map of bindings, the port pool,
the managers and the router each have a lock of their own, and no lock covers a handler.

### Hard behaviours

`PROJECT.json` lists them as hazards, each at its line: handlers that interleave call by call,
snapshots used after a wait, passes that overlap, calls to sing-box that time out and are executed
later, requests dropped by their caller inside a call, port pools at their limit, failures half-way
through a creation, kills between the write to the pool and the one to the database, files written
by several goroutines, and loops (validation rounds, waiting for a mutex) that must end.

## 2. Modules

Names follow the code. One call that takes a lock, or one HTTP exchange, is one step; what a
task does with its local data between two such calls belongs to the step before or after.

### BindingSync and BindingApi: server ports

Three copies of one fact: the pool's `port`, the allocator's `used`, and what sing-box listens on.
`BindingApi` is the third: the API of sing-box (`bindings.go`) as the server calls it. A binding is
an entry of its map (`entries`), an outbound, an inbound with its port and a route, and no lock
covers a call, so a POST is up to five steps and a DELETE four, in the order of the code; the entry
of a DELETE goes first. `calls` has the call in each slot: that of slot `timeouts` is the one the
server waits for (`Live`), and those below are calls it gave up on, which sing-box may still
execute, step by step between those of later calls, or never. `Ask`, `Answered` and `GivenUp` are
the server's side of a call. `BindingSync` extends it with everything else; `status` is the
tri-state that a pass selects by.

| Actions | Code |
|---|---|
| `Check`, `CreateOutbound`, `CreateInbound`, `Undo`, `BindRoute`, `Record` | POST: `createBindingInternal` and the calls it makes to the managers and the router |
| `DropEntry`, `UnbindRoute`, `CloseInbound`, `RemoveOutbound` | DELETE: `deleteBinding`, `removeBindingResources` |
| `Execute` | any of these, of any call |
| `Begin`, `BeginEmpty`, `Withdraw`, `LockManager`, `RemoveBinding`, `Removed`, `CreateBinding`, `Created`, `NotCreated`, `UnlockManager`, `UnsetPorts`, `SetPorts` | one sync pass, `sync_proxy_bindings` with `sync_bindings` inside it, in the order of the code: snapshot, clear unselected ports, lock, removals, creations, unlock, clear, set |
| `PickBound`, `PickUnbound`, `RecheckBound`, `RecheckUnbound`, `RecheckNoPort`, `CreateOnDemand`, `FailOnDemand`, `StorePort`, `Send` | a relay request |
| `DropWaiting`, `DropCreate` | the caller hangs up and the handler's future is dropped at an await |
| `AddProxy`, `RemoveProxy`, `DeleteSubscription`, `SetStatus` | the other writers of the pool |

`Selects` is the selection in each mode. The order inside a class (by `error_count`) is any order,
so a selection is any set the classes allow. Startup is the initial state: some of the first `Max`
Valid proxies are bound, on a fresh sing-box.

History variables: `overlap` (a pass began while another was under way), `mixed` (sing-box was at
work on one tag for two calls at once), `crossed` (an on-demand creation and a pass crossed),
`dropped` (ports allocated for requests that were dropped inside `create_binding`). The safety
properties say what holds as long as all is `Orderly`: no overlap, and nothing mixed. Both happen in
the code. Passes overlap because `delete_subscription` spawns one without `validation_lock`. Calls
mix when a DELETE is given up after its entry is gone and before its listener is closed, and a new
POST of the same tag passes the check of the entries meanwhile: the rest of the old call then closes
the listener of the new binding, and the pool advertises a dead port. Two POSTs of one tag mix too,
when a dropped request leaves the first behind. Nothing in the code prevents
it and nothing is promised after it. The histories make the conditions explicit instead of leaving
the steps out. Without `~mixed`, TLC violates `Routed` in both ways.

`PortMap` is what `BindingSync` promises the readers of the pool (relays, validation and quality
checks), who take no lock: a map of advertised ports and a map of listeners change in turn. A
listener comes or goes only for a proxy that is not advertised, and what is advertised anew is what
is forwarded to the proxy. `BindingSync!Promise` instantiates it with `port`, `Forwarded` (the port
of a proxy that has inbound, route and outbound) and `Orderly`, and `KeepsPromise` is its
specification. The refinement hides the passes, the mutex, the allocator, the half-done calls and
the requests; a step of any of these is a step of `PortMap` or a stutter.

### Validation: verdicts

`status`/`err` (pool) and `row`/`rowErr` (database). `validate_all` is `Recheck`, then rounds of
`Sync`, `Collect`, `Judge`/`SaveVerdict` and `Count`, or `EndStuck` when nothing got a binding,
then `Clean` and `Purge`. `Judge` and `SaveVerdict` are separate steps, since the tasks of
`validate_batch` write the pool and then the database. Relay requests are `Pick`, `Answered`,
`Report`, `SaveReport`. `AdminClean`/`AdminPurge`, `Remove`/`DeleteRow`, `InsertRow`/`AddProxy`
are the other two-step writers, and `Restart` may happen anywhere and loads the pool from the rows.
A sync pass is the choice it makes among Untested proxies and any subset of them that gets a port.
The history `mixed` records that two handlers mixed their writes to one proxy, as when a failure
report falls between the two writes of a verdict. A restart resets it, because it rebuilds the
pool from the rows. Database calls are taken to succeed: the code ignores their errors here.
The loop of rounds has no bound in the code. `Work` counts what a run has still to do, and
`RunShortens` says that every step of the run makes it smaller: the safety half of the loop's
termination, and the reason that "stuck" proxies must be taken out of it.

### Subscriptions: refreshes

One subscription of the server: its row (`sub`, `count`), its proxies in the database (`rows`) and
in the pool (`pool`). `Workers` are concurrent jobs: `Add`, `Refresh`, `Delete` and `Drop` (the
deletion of one proxy) begin them. Adding and refreshing go through the content entry by entry
(`Keep` for a match in `old_map`, `Insert` and `Publish` for a new proxy), then through what is
left of the map (`Forget`, `Erase`), then `Finish`. `FetchFails` and `Abort` end a job early,
`Erase`, `Wipe` and `Unlist` may fail, `Restart` may fall anywhere. A key stands for
`(server, port, proxy_type)`, a content for how many entries it lists of each key; `Snapshot`
keeps one old proxy of each key, as a map does. `Clean`, `Sweep`, `Swept` are the cleanup of failing
proxies that ends every validation or that the admin asks for: it runs beside all jobs, takes rows
first and pool entries after, each by the error counts of its own copy. `Delete` empties the pool,
then `Wipe` and `Unlist` are the statements of `Database::delete_subscription`, which has no
transaction and may stop after any of them. Histories: `raced` (two jobs overlapped), `crossed`
(a deletion of the subscription overlapped adding or refreshing it, which goes on inserting proxies:
there is no foreign key to refuse them), `double` (a content listed a key twice), `lost` (one copy
of a proxy was left, by a deletion that failed in the database or by a cleanup that found different
counts), `trimmed` (what was deleted or cleaned up one by one since the last refresh).

### Auth: users

One user: `user`, `apiKey`, `sessions` with what is left of their `life`, and `auth_cache` with
what is left of its entries. A request the cache does not answer is `Miss`, then `FindKey` or
`FindSession` and `FindUser` (or `Purge`), then `CacheUser`; `Regenerate` leads to `Renew` instead.
A login is `ReadUser`, `Upsert`, `CreateSession` (or `NoSession`, refused by the foreign key). The
others are `Logout`, `Ban`, `Unban`, `DeleteUser`, `SweepSessions` and `Restart`. `Ban` and
`DeleteUser` are two statements each with no transaction, and may stop after the first: a banned
user keeps the sessions, or a user loses the sessions and stays. `Tick` lets time pass. Histories:
`heldAgo` and `activeAgo`, how long ago a credential was good and the user active in the database,
and `spared`: the last ban fell inside a login, or stopped before the sessions.

### Quality: quality checks

What pool (`poolQ`) and database (`dbQ`) know of each proxy's quality, and runs of `check_all`.
`Select` takes proxies that need a check, as many as `Limit` allows; which of them have a port is
decided by passes, relay requests and removals under other locks and none, with creations that fail,
so any of them may (`BindingSync` models these). A task has its verdict (`Answer`), writes it to the
row (`Save`, which may fail) and to the pool (`Publish`), or has none (`Fail`); `Finish` ends the
run. `Remove`/`RemoveRest` are the deletions in their two halves, in either order, whose statements
may fail; `Age` makes data stale. Histories: `asks` (incomplete verdicts in a row), `spoiled` (two
runs checked one proxy at once, or a row was not written), `crossed` (a check was under way when
the proxy went).

### ClientBindings: the client's bindings

A binding is an entry of the map (`bindings`), an outbound, an inbound with its port, a route,
a pool port (`used`) and the `localPort` of a stored proxy. `Handlers` are concurrent requests;
`pc` walks each through `createBindingInternal` (`Check`, `CreateOutbound`, `CreateInbound`,
`Rollback`, `Release`, `BindRoute`, `Record`, `SetLocalPort`) or `removeBindingResources`
(`UnbindRoute`, `RemoveInbound`, `RemoveOutbound`, `ReleasePort`, `ClearLocalPort`). Every call
that can fail may fail. `CreateForProxy` lets the request name a port or a tag; `Refused` is its
path for a stored proxy that a fetch brought without an outbound: the port is allocated, the answer
is 400, and nothing gives the port back. `Batch`, `Fetch`, `BindNext` and `NoPortLeft` are the batch
paths. `Init` is a process that starts: no binding, and a store with whatever `local_port`s an
earlier one saved. Histories: `raced` (two requests worked on one tag at once), `custom` (a request
named a pool port or a tag of a stored proxy), `leaked` (the bindings refused after their port was
allocated), `stale` (proxies whose `local_port` is still what an earlier process saved).

### ProxyStore: the client's file

`data` is the store under its lock. `pending` counts the goroutines of `save` that have not copied
it; a writer then copies (`Copy`), truncates (`Truncate`) and writes (`Write`), or gives up at any
point (`FailSave`), which the code logs. If two writers overlap, the file may be torn. `load` makes
an empty store of anything that does not parse. `Restart` may happen anywhere. The handlers of
subscriptions are several calls each. The proxies brought by one call are one batch, so `owned[s]`
is a number of batches. Histories: `raced` (two handlers on one subscription), `spoiled` (since the
last restart two saves overlapped, or one failed).

`SavedStore` is what `ProxyStore` promises of its file: a store in memory, what a restart would
find (`disk`), and the copies that saves hold. Every change is followed by a save; the file gets
nothing but the empty store or a copy that a save still holds; and as long as saves neither overlap
nor fail (`orderly`), the last one leaves the file with all that is in memory. `ProxyStore!Promise`
instantiates it with `Load(file)`, the copies of the writers at work, `Saving` and `~spoiled`, and
`KeepsPromise` is its specification. The refinement hides the handlers, the number of goroutines
and the state of the file between two writes.

## 3. Runs

`MC*.tla` add symmetry and, where the table says so, a state constraint: `InOrder`
(`MCBindingSync`), `RaceFree` (`MCClientBindings`, `MCProxyStore`) and `Few` (`MCQuality`). A state
that breaks the constraint is checked, and not explored further. `InOrder` and `RaceFree` cut off
what every checked safety property but the type invariant (and `Paired`, which reads neither
`leaked` nor `stale`) has in its condition, so the states left out satisfy it trivially; `Few`
bounds the proxies that meet an exempted case to one. All of these properties are proved without
any constraint (section 4). The liveness runs have neither symmetry nor a constraint.

| Run | Instance | Result |
|---|---|---|
| `sync_serial` | 2 proxies, 1 relay, 1 background pass, Max 1, Batch 1, 1 timeout or dropped call; `InOrder` | `TypeOK`, `Routed`, `PortsAccounted`, `AtRest` and the refinement `KeepsPromise` hold; 2.8 million states |
| `sync_live` | 1 proxy, 1 relay, 1 background pass that may overlap, no timeout | `PassesEnd`, `RelaysAnswered` hold under `FairSpec` |
| `sync_on_demand` | 2 proxies, 2 relays, no background pass, no timeout | `OnDemandOnce` is violated (finding) |
| `verdicts` | 2 proxies, 1 relay, Batch 1, Threshold 2, 1 reported error, 1 restart | `TypeOK`, `CopiesAgree`, `RunShortens`, `EveryProxyJudged`, `FailuresRechecked` hold under `FairSpec` |
| `verdicts_stuck` | the same, no restart | `StuckWereTried` is violated (finding) |
| `client` | 2 handlers, 2 proxies, 1 manual tag, 1 pool port, 1 other; requests may name ports and tags, any `local_port` is saved; `RaceFree` | `TypeOK`, `PoolExact`, `LocalPortTrue`, `Paired` hold; 1.8 million states |
| `client_release` | the same with 2 pool ports | `AutoReleaseOnly` is violated (finding) |
| `store` | 2 handlers, 2 subscriptions, 1 item, 2 writers, 2 pending saves, saves that fail, restarts; `RaceFree` | `TypeOK`, `AlwaysSound`, `SavedAtRest` and the refinement `KeepsPromise` hold; 1.7 million states |
| `subscriptions` | 2 jobs and the cleanup, 2 keys, 2 names, each key listed at most once | `TypeOK`, `CopiesAgree`, `NoOrphans`, `Exact`, `ListedStay` hold; 2.8 million states |
| `subscriptions_double` | 1 job, a key may be listed twice | `OldOnesGo` is violated (finding) |
| `auth` | 2 requests, 2 logins, 2 keys, 1 session, TTL 2, life 2, Delay 1 | `TypeOK`, `StaleBounded`, `SessionsEnd`, `BanHolds`, `KeyStable` hold; 2.1 million states |
| `quality` | 2 proxies, 2 runs, 2 retries, Limit 2; `Few` | `TypeOK`, `RetriesBounded`, `CopiesAgree`, `NoOrphans` hold; 0.9 million states |

**Bounds.** In `sync_serial` two proxies and `Max` 1 make a pass choose, so a port passes from one
proxy to the other, and a leaked port leaves only one of two; one call that is given up and goes
on, step by step, meets every step of every later call and every state of the allocator. In
`sync_live` one proxy suffices, since waiting is for the mutex, which a second pass and a relay
contend for; with a timeout the state graph is beyond a liveness check of a few minutes. What that
leaves out is little: a pass and a request go on after a timeout just as after a refusal
(`Removed`, `NotCreated`, `FailOnDemand`), which the run has, and `DropCreate` only gives the mutex
back; a call given up holds nothing that the server waits for. In `verdicts`, `Batch` 1 with two
proxies forces a second round, and Threshold 2 is reached by a reported failure followed by a bad
verdict, so cleanup has work; one restart meets every pair of half-done writes. In `client` two
proxies compete for one port, so a batch runs out, and one more port and tag are there to be named.
In `store` two writers are what an overlap takes. In `subscriptions` two keys let one entry match
and another not, and two names let an old and a new proxy of one key meet. In `auth` a life and a
TTL of two ticks end during a request and after it, and two logins make different keys. In
`quality` the limit is reached after one verdict that was not final, and two runs may check one
proxy at once or a proxy each. The proofs remove these bounds for all properties but the liveness
ones.

**Deadlock** is checked in every run; none stops.

**Fairness.** `BindingSync!Fairness`: a task not waiting for a mutex goes on, because every call to
sing-box ends with its answer or by the client's timeout of 10 s (`process.rs:54`): weak fairness
of the tasks' own steps and of `Execute(timeouts)`, the steps of the call that the server waits
for. Timeouts are bounded in number, so it is sing-box's answer that ends a call in the model.
Calls that were given up need not go on.
The tokio mutex is granted in arrival order and every holder releases it, so a task that waits gets
it: strong fairness on the acquisition, which is free again and again rather than always. Starting
a validation pass and a relay request, refusals, timeouts and drops are not made fair.
`Validation!FairSpec` has weak fairness of `Run`, as the timer of `start_background_tasks`
(`main.rs:120-133`) starts `validate_all` again and again, and each of its awaits ends. Nothing is
assumed of relay requests, of the admin or of restarts. The other modules state safety only.

### Findings

1. `relay.rs:89-90`: a request drops the mutex before the pool learns the port it created, so a
   second request for the same proxy, waiting for the mutex, re-checks in between and creates the
   binding again (`OnDemandOnce`).
2. `validator.rs:58`: proxies beyond the batch, which nobody tried to bind, are marked Invalid with
   the stuck ones (`StuckWereTried`).
3. `bindings.go:123`: a failed creation releases a port that the request had named and that the pool
   gave to another proxy, whose binding has it or is under way (`AutoReleaseOnly`).
4. `subscription.rs:213`: of several proxies with one key, a refresh sees one. The others are
   neither matched nor removed, and every refresh of a content that lists the key twice leaves one
   more (`OldOnesGo`).

Found while modelling, and not stated as runs: a DELETE that timed out half-way closes the listener
of a newer binding with the same tag (`bindings.go:226-256`; `Orderly` names the condition); a
stored proxy without an outbound costs a port of the client's pool at every request to bind it
(`bindings.go:104-116`; `leaked`); after a restart the client reports the `local_port`s of bindings
that are gone (`store.go:49-71`; `stale`); the statements of `ban_user`, `delete_user` and
`delete_subscription` have no transaction (`db.rs`; `spared`, and what `Wipe` leaves);
`subscription.rs:479-480` calls its `needs_quality_check` the "same logic as checker.rs", which
also asks for retries, so a proxy whose retries are used up may take a port from one that is
checked; a request, and its cached HTTP client, can outlive
the binding it was given, so the answer can name another proxy than it went through
(`relay.rs:97`); an inbound of the client listens before its route is made and after it is removed
(`bindings.go:184`, `:245`); concurrent goroutines of `save` can leave an old or torn file with no
save pending (`store.go:73-92`; `SavedAtRest` names the condition); `RateLimiter` is made anew by
each `check_all`, and `query_ip_api` asks up to three times for one permit, so 40 requests a minute
are no bound (`checker.rs:42`).

## 4. Proofs

Eight modules prove, for **all** values of the constants that the assumptions allow:

| Module | Theorems |
|---|---|
| `BindingSyncProofs` | `TypeCorrect`, `ClaimsHold` (the invariant), `RoutedAlways`, `PortsAccountedAlways`, `AtRestAlways`, `PromiseKept` (`Spec => KeepsPromise`) |
| `ValidationProofs` | `TypeCorrect`, `CopiesAgreeAlways`, `RunShortensAlways` |
| `ClientBindingsProofs` | `TypeCorrect`, `PairedAlways`, `PoolExactAlways`, `LocalPortTrueAlways` |
| `ProxyStoreProofs` | `TypeCorrect`, `AlwaysSoundAlways`, `SavedAtRestAlways`, `PromiseKept` (`Spec => KeepsPromise`) |
| `SubscriptionsProofs` | `TypeCorrect`, `ListedStayAlways`, `CopiesAgreeAlways`, `NoOrphansAlways`, `ExactAlways` |
| `AuthProofs` | `TypeCorrect`, `StaleBoundedAlways`, `SessionsEndAlways`, `BanHoldsAlways`, `KeyStableAlways` |
| `QualityProofs` | `TypeCorrect`, `RetriesBoundedAlways`, `CopiesAgreeAlways`, `NoOrphansAlways` |
| `PromiseProofs` | `PortsLead` (of `PortMap`) |

Every invariant, action property and refinement that a passing run checks is the subject of one of
these theorems. `PortsLead` says what `PortMap` is worth to the readers of the pool, who need to
know nothing of the code.

The assumptions are the named ones of each module: that roles and dummies are distinct, sizes are
naturals, and sets that are counted are finite (relays, handlers, proxies, and the keys a content
may list). What sing-box, the operating system and SQLite do
is what the actions say. Each proof has one step or lemma for each action or group of actions, and
under it one for each conjunct the action can disturb; the last step of a temporal theorem combines
the initial and the step lemma.

Few of these properties are inductive, so each rests on an invariant that says what is *under way*:

- **`ClaimsInv`** (BindingSync) has three parts, each as long as all is `Orderly`. `ApiInv` is
  about sing-box alone: what a call has done so far is there (`Entered`, `OnWay`), one call at a
  time works on a tag (`OneWorker`), a tag without entry at which nobody works has neither inbound
  nor route (`Clean`), and no two proxies share a listener (`OneListener`). `Holdings` is about the
  allocator: what each party to the mutex and each call given up holds (`Held`, `Removals`,
  `OneRemoval`, `LiveUsed`), and the two halves of `PortsAccounted` (`UsedListened`, `DroppedUsed`,
  `ListenedUsed`). `Backing` follows every claim to a port, that is, every copy of a port that is
  or may become an entry of the pool: at most one pass is under way (`Alone`); a port in the pool,
  in the plan of a pass or in the hands of a request is bound for its proxy, and used
  (`PoolBacked`, `PlanBacked`, `RelayBacked`, `LiveDone`); what a request created nobody else
  claims (`RelayAlone`); what a pass removes is not advertised (`Withdrawn`). `PromiseKept` is the
  step simulation from it, with the lemmas `Readvertised` and `Rebound` as the two kinds of step
  `PortMap` sees. `KnownInv`, for `AtRest`, adds that nothing mixes without a timeout
  (`MixedLate`) and that the plan of a pass (`PassKnows`), or else the pool (`PoolKnows`), knows
  every binding.
- **`AgreeInv`** (Validation): the error count of the pool is that of the row plus the reports on
  their way (`Equal`), a proxy in one place only is entering or leaving (`Agreed`), and nobody
  writes while a clean-up is between its halves (`Quiet`). `TypeInv` bounds the errors by those
  reported and the requests that report, as `TypeOK` alone is not inductive. It also says that what
  is to be judged is in the pool as Untested or gone, and not yet saved, and so carries
  `RunShortens`: `WorkFalls` is the case of each step of a run, `WorkAdded` that of all others.
- **`MatchInv`, `PoolInv`** (ClientBindings): what each handler finds of its tag at each program
  counter (`StageOK`, `VictimsOK`), no two on one tag (`Apart`), and a one-to-one match between the
  used ports and their claims, in the map, with a handler or leaked (`Exact`).
- **`SoundInv`, `FileInv`** (ProxyStore): a handler about to add has emptied its subscription
  (`Untouched`), and the last copy taken is the data while no save is pending (`LastCopy`).
  `PromiseKept` is the step simulation from `FileInv`, with one lemma for each kind of step that
  `SavedStore` sees.
- **`MatchInv`, `HandInv`** (Subscriptions): an old proxy still in the map has met none of its
  entries (`Unmet`), so what is erased is not listed (`Unlisted`); and whatever moves from one copy
  to the other passes through one pair of hands (`HandsApart`, `HandsOut`, `HandsKept`), those of a
  job or of the cleanup.
- **`ExactInv`** (Subscriptions): while nothing has overlapped, no content repeated a key and no
  deletion failed (`Calm`), at most one job is at work (`Alone`) and no two rows share a key. The
  entries that job has met (`Met`) have their rows, and every other row is an old one or on its way
  out (`InPlace`, `OwnWork`); a refresh or addition leaves rows, list and count in agreement
  (`Left`). `Exact` compares numbers, and `CountsEntries` gives the bijection between rows and
  entries, so the proof counts no step and needs no induction over a content.
- **`StaleInv`, `LoginInv`** (Auth): the time since a credential was good plus what is left of its
  entry never exceeds `Delay + TTL`; while a
  user is banned, no login is under way that the ban did not see (`spared`).
- **`CountInv`, `OrphanInv`** (Quality): `asks` equals the count in row and pool, or in the one task
  at work; a row without a proxy has a check that crossed its removal.

Only model-checked is liveness: `PassesEnd`, `RelaysAnswered`, `EveryProxyJudged`,
`FailuresRechecked`. Liveness under fairness and `ENABLED` are beyond the prover. For validation,
`RunShortens` proves what can be proved of it.

## 5. Plan

Done in this order: the ports of the server, the most shared state in the repository; the verdicts;
the client; then the abstract `PortMap`, refreshes, users and quality checks, and the proofs; then
the abstract `SavedStore` with its refinement, `Exact`, and the termination of validation. Left:

1. **Composition.** A verdict or a request by port: `Validation` and a relay on top of `PortMap`
   instead of the choice of a result, to say for which proxy a copied port still speaks.
2. **Entries with equal ids** in `ProxyStore`, whose items have no identity.
3. **Numbers and order**: the ports of `PortPool` in 16 bits, the pace of `RateLimiter`, and the
   order inside the classes of a pass, by `error_count`.

## 6. Not modelled

- Upstream sing-box, twice in the repository (`sing-box-zenproxy`, `sing-box-dev-next`), which is
  by far most of its lines. What ZenProxy added to it is modelled from its code, `bindings.go` for
  both programs (`BindingApi`, `ClientBindings`); the managers and the router under it from their
  use.
- Parsing of subscriptions, configuration, read-only endpoints, the proxied bytes themselves, SQL
  and HTTP details: sequential data handling or pure I/O.
- The death of the sing-box child: the server never notices it (`is_running` has no caller), so
  there is no reaction to model. It is listed as a hazard.
- The relay's cache of HTTP clients, the pace of the quality checker's requests, the filters of
  `pick_random`, and the exchange with the OAuth server.
- What properties exclude by name, and models contain: overlapping passes (`overlap`), calls of
  sing-box mixed on one tag (`mixed` of `BindingApi`), requests on one tag or jobs on one
  subscription at once (`raced`), mixed writes of verdicts (`mixed` of `Validation`), saves that
  overlap or fail (`spoiled`), ports and tags named by a request (`custom`), ports leaked by a
  refused request (`leaked`), a `local_port` saved by an earlier process (`stale`), deletions of a
  subscription that cross a refresh and removals that cross a check (`crossed`), logins that a ban
  missed (`spared`), copies lost to a failed deletion or to a cleanup with mixed counts (`lost`).
  The code promises nothing for these. For example, a cleanup with mixed writes can delete a row
  while the pool keeps the proxy until the next restart, and a refresh that crosses the deletion of
  its subscription leaves rows and pool entries of a subscription that is gone.
- Errors of the database elsewhere, which the code logs or ignores, and panics.

## 7. Running

    tlc -config BindingSyncSerial.cfg MCBindingSync     # likewise the other .cfg files
    tlc -config Validation.cfg Validation
    tlapm BindingSyncProofs.tla                         # likewise the other *Proofs modules

Each run takes at most a minute or two with two workers; each module of proofs takes a few
minutes at most from nothing.
