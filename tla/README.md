# Verification of the crawlberg crawl engine

TLA+ modules for the concurrent core of crawlberg (`crates/crawlberg/src`), TLC
configurations that check them on small instances, and TLAPS proofs of the
properties that matter most for every instance. Paths below are relative to
`crates/crawlberg/src/` unless they start with `crates/`.

## The system

`CrawlEngine` crawls a site from a seed. One crawl is a loop
(`engine/crawl_loop.rs`) and the tasks it spawns; several crawls may share one
engine and with it the frontier, the rate limiter and the robots cache.

| Component | State | Operations | Correct when |
|---|---|---|---|
| Crawl loop: `engine/crawl_loop.rs`, `page_result.rs`, `crawl_state.rs`, `selection.rs` | window, in-flight entries, join set, parked hops, latches, counters | spawn pass, select, absorb, deliver, spill | no page twice, limits kept, no work lost, ends and only for a reason |
| Link discovery: `engine/link_discovery.rs`, `link_scope.rs` | none of its own; claims and pushes on the frontier | claim each link, validate, push | a link is queued once, whoever discovers it |
| Redirect chains: `engine/redirect.rs`, `chain_claim.rs` | the URL a chain is at, where it has been, the keys it holds | prepare, step, claim a hop | a hop is admitted only for its own key or a fresh claim |
| Frontier: `traits.rs`, `defaults/frontier.rs` | queue, seen-set | push, pop, claim, mark | a claim is a test-and-set |
| Frontier guard: `engine/frontier_claim.rs` | a weak table of locks by key | claim, mark_seen | atomic per key, bounded, a stuck key holds back no other |
| Robots cache: `engine/robots_cache.rs` | bounded table of shared slots | get_or_fetch, acquire, drop | one fetch per key at a time, bounded, nobody waits for ever |
| Host turns: `engine/host_turn.rs` | a queue and one waiter per host and limiter | enqueue, next, drain | order per host, no host stalls |
| Rate limiter: `defaults/rate_limiter.rs`, `tower/rate_limit.rs` | delay, back-off and a queue per domain | acquire, record_response, set_crawl_delay, sweep | one queue per domain, requests spaced, back-off kept, nobody stuck |
| Batch schedule: `engine/seed_schedule.rs`, `cooperative.rs`, `continuation.rs`, `batch.rs` | seeds, slots, leases, host evidence | start, roll back, park, resume, finish, cancel | slots bounded and never idle, every seed ends |
| Job registry: `api/jobs.rs`, `api/handlers.rs` | job states by id, a detached task per job | create, update, cancel, evict, count | a result stays, a job stops counting, the ceiling holds |
| Browser pools: `browser_pool.rs`, `browser_session_pool.rs`, pooled fetch in `browser.rs` | one Chrome, its health, permits, a launch lock, parked pages | acquire, warm, supervise, retire, park, reuse, shutdown | permits accounted for, no Chrome left behind, calls end |
| Dispatch, HTTP stack, response cache | tiers, averages, cached bodies | fetch | mostly data dependent |
| Content pipeline, CLI, bindings, map, MCP | none | pure functions and adapters | not a matter of interleavings |

How they interact. The loop pops entries from the frontier into a *window* of at
most `max_concurrent`, asks the strategy for one of them, and spawns a task that
*prepares* it (filters, robots.txt through the robots cache, for a redirect hop a
claim through the guarded frontier). A prepared hop comes back to the loop and
queues for its host's turn; a granted turn spawns a task that *fetches*. A fetch
ends as a page, a failure or a refusal, wants another turn, or goes on to a
redirect target, which goes to a backlog and is prepared again. The loop folds a
page in: claims and pushes its links, then delivers it to the list of results or
to a stream, whose receiver may go away at any time. On every exit the tasks are
aborted and what was in the window or in flight is pushed back on the frontier.
A batch runs many such crawls over a few *seed slots*: a crawl works under a
lease it shares with its tasks, and gives it up while all it has waits for hosts.
The REST API runs a crawl or a batch in a detached task per job. A fetch that
needs a browser takes a page of the pool, or one that a session left parked.

What is hard in it: tasks and the loop claim keys on one frontier at any moment
of each other; limits count entries that move between several collections in
different steps; two latches decide whether an empty answer of the frontier is
final; every call of a backend may fail, and every await may be the last; the
strategy, the page budget and the receiver may stop the crawl at any turn. A
slot, a turn, a permit or a browser changes hands between futures that may be
dropped, and is given back by whichever of several steps comes last.
`PROJECT.json` lists these hazards at their lines.

## Modules

| Module | Models | Checked by | Proved in |
|---|---|---|---|
| `AtomicClaim` | what `Frontier::claim` promises | abstract | |
| `GuardedFrontier` | `engine/frontier_claim.rs` over the default claim of `traits.rs` | `GuardedFrontier.cfg` | `GuardedFrontier_proofs` |
| `CrawlWork` | what a crawl may do with an entry | abstract | |
| `CrawlLoop` | one crawl: loop, tasks, redirect chains, discovery, delivery | `MCCrawlLoop` with four cfgs | `CrawlLoop_proofs`, `CrawlLoopLimits_proofs` |
| `RobotsCache` | `engine/robots_cache.rs` with tokio's `Notify` | `MCRobotsCache` with two cfgs | `RobotsCache_proofs` |
| `SeedSchedule` | a batch: slots, leases, host turns, and the places where each crawl's loop asks for them | `MCSeedSchedule` | `SeedSchedule_proofs` |
| `PacedTurns` | what a rate limiter promises | abstract | refined in `PerDomainThrottle_proofs` |
| `PerDomainThrottle` | `defaults/rate_limiter.rs` as `tower/rate_limit.rs` calls it | `MCPerDomainThrottle` | `PerDomainThrottle_proofs` |
| `JobRegistry` | the jobs of the REST API | `JobRegistry.cfg`, `JobRegistryCancel.cfg` | `JobRegistry_proofs` |
| `BrowserPool` | `browser_pool.rs`, the session pool and the pooled fetch | `BrowserPool.cfg` | `BrowserPool_proofs` |

`GuardedFrontier` is what lets `CrawlLoop` take a claim for one step, and
`CrawlLoop` and `SeedSchedule` look at the same loop from two sides: the first
models what becomes of entries and leaves the turns of hosts to the environment,
the second models the turns, slots and leases and leaves the pages abstract.
`PacedTurns` is what both may expect of the limiter behind a turn.

Definitions whose comment begins with *Wrong:* are faulty versions of the
definition after them; no specification uses them. Put in its place, each one
makes the property it belongs to fail, which shows that the property can.

### GuardedFrontier

A call is one `claim` or `mark_seen` future. `KeyLock` is the critical section of
the table's mutex, `Queue` the first poll of `lock().await`, `IsSeen`,
`MarkClaimed` and `MarkSeen` the answers of the backend under the lock; `Fail`
and `Drop` end a call at any await, with the mark under way taken effect or not.
A lock lives while a call owns it: `Alive` is the strong count of the weak
reference. `RefinesAtomicClaim` says that for its callers the two awaits are one
test-and-set. `CrawlLoop` rests on it: there a claim is one step.

### CrawlLoop

An entry is its URL. `pc` is the loop's place: `head` (the `while` test), `spawn`
and `admit` (`spawn_pending_fetches`), `select`, `claim` and `deliver`
(`process_fetch_result`), `tail` (latches, strategy), `exit`, `spill`, `done`.
`hop[u]` is where the hop of entry `u` is: a running task (`prepare`, `fetch`,
`landed`, `extract`), a finished one whose result the loop has not taken
(`ready`, `waiting`, `continue`, `refused`, `failed`, `fetched`, `panicked`), or
parked (`turn`, `backlog`). The join set is what is running or finished.
`window`, `inFlight`, `mayHave` (`frontier_may_have_entries`), `hostAware`
(`host_selection_supported`) and `drainConfirmed` are the code's. `cursor`,
`visited` and `chain` are the redirect chain's URL, past and claimed keys;
`fate` and `ending` record what became of an entry and why the loop stopped.

Choices of the environment: which entries a pop returns, the strategy's answers,
the filters, robots decisions, the budget, which of a page's links are in scope,
what a request is answered with, when a limiter lets somebody through.
Abstracted: contents, depth, priority, order in the queue and in the join set,
counters and events. Calls of the stores and emitters return nothing the loop
uses and are left out; so is the time a full stream holds a delivery back.
Assumed: `select_next` names an entry when it is given some; the frontier starts
empty; `max_concurrent` and `max_pages` are positive, as `types/config.rs`
validates; an aborted task makes no claim after the abort.

`CrawlWork` is the abstract view: an entry waits, is taken up and is settled; it
is put back when the crawl stops early; it is never settled twice, revived or
dropped silently.

### RobotsCache

A call is one `get_or_fetch`. `Arm` creates and enables the `Notified` future,
then `Share`, `Create` or `Wait` is the look at the table under its mutex;
`Read`, `Fetched` are the slot; `DropUse` is the two steps of `CacheUse::drop`,
the count and the notification. `Cancel` drops the future at its awaits, and with
it a `Notified` that passes an unused notification on. `Suspends` says whether a
call may be suspended, and dropped, at the table's mutex.

### SeedSchedule

A job is a seed (while its redirects are resolved) or a page of its crawl. `phase`
is where it is: `ask` (in `CooperativeContext::activity`), `work` (under an
`ActivityGuard`, the set `guard`), `line` (parked in a `HostTurns`), `refused`,
`loop` (the seed's crawl loop runs), `over`, `done`, and for pages `out` (in the
join set) and `fold`. `lease` holds the seeds with a slot, `slotq` the
reservations at the semaphore, `waiter` the jobs whose `HostAdmission` is a
future and `queue` those behind them, `evidence` what an admission tells
`SeedProgress` of its host. The lines are those of the schedule and one set per
crawl; the limiter behind them is one queue per host.

One action is one hold of the context's mutex with what its caller does before
the next await. `LeaseParked`, `LeaseFinished`, `LeaseCompleted` and
`LeaseRolledBack` are the four ways a slot may go back; each looks at the guards
and the waiting jobs as they are at that point. `DelayTurn` is a poll whose guard
ends with it, `RollBack` a start that finds its host taken meanwhile, `Cancel`
what the schedule does when the receiver is gone.

Abstracted: wakers (a future that can go on is polled), the HTTP and the browser
limiter of one host (one limiter per host), seeds that the admission check
refuses before they start, folding a page in (one step), what a page contains.

### PerDomainThrottle

A request is idle, on its way to its domain's mutex (`entering`), `queued` at it,
`asleep` with it, or `sent`. A turn is the mutex of a domain's state; a domain
that is swept and used again gets another one, so `turn` says which mutex a
request is at. Time passes in ticks. Only differences of instants matter to the
code, so states carry ages, cut off at `Ttl`, after which the code tells no two
apart; a sleeper may wake late. `PacesTurns` shows that all this is a line per
domain whose members go one by one, in order, never sooner after the one before
than robots.txt asks for.

What the module assumes, and the code does not check: `HorizonAssumption`. A
`Crawl-delay` longer than the lifetime of a domain's state (one hour) would be
forgotten when the domain was idle for that lifetime. Outside the model: a
configured delay above `MAX_BACKOFF`, which a 429 would shorten (the theorem about
`DelayHolds` assumes `Default <= MaxBackoff`), and the `unwrap_or(now)` of an instant too close to the start of the clock. That a
robots.txt read again overwrites a delay that 429 answers had doubled is what
the code does; `DelayHolds` names it as one of the three ways a delay may shrink.
Halving is of a number of ticks and rounds down, which `DelayHolds` allows for.

### JobRegistry

A POST counts the active jobs (`Check`) and creates its own (`Create`) without
an await in between, so only handlers on other threads come between: at most
`Threads` are there at a time. `EngineFails` is the error of a batch handler whose
engine cannot be made after the check. The task of a job writes its state when it starts
and when it ends, whatever a DELETE wrote meanwhile (`Update`); `Evict` drops
what is older than `MaxAge`, active or not. Time is counted in eviction rounds.

### BrowserPool

A caller is a fetch that wants a page or a call of `warm`. A step ends at an
await, and each hold of a lock is one step: `TakePermit`, `Find` (the browser that
runs), `LockLaunch`, `TakeEnded`, `Launch`, `Open`. Only the hold of the state lock
at the end of a launch has two, `LookAtFlag` and `Install`: the shutdown sets its
flag and turns the health signal off without that lock, so it may do so between
them, and the install turns the signal on again (`is_healthy` asks for the flag
too). `StateFree` keeps everybody else from the state meanwhile. `GiveUp` drops the
call at any await. A browser is a *generation*: `Die` ends its handler,
`Supervise` is its supervisor's look at whether it is still the current one,
`Retire` the task that closes it. `ShutDown` has four steps, between which anything
may happen; a step that began before it may end after it. `Park` and `Reuse` are the
session pool: a parked page keeps its permit.

Abstracted: which sessions are evicted (any choice that keeps the bound), Chrome's
processes, profile directories and tabs. Every launch after `MaxLaunches` fails.
Left out: forks, one-shot launches, a second shutdown, the `Drop` of the pool, and
the await of pending closes on teardown. One thing the code is exposed to and
the model does not see, since it has no tabs: a fetch dropped between taking a
parked page and watching it (`browser.rs:422`) leaves the page's tab open, as
`Page` has no closing `Drop`.

## Runs

| Run | Instance | Shows |
|---|---|---|
| `guarded_frontier` | 3 calls, 2 keys, one of them hung for good | atomic claims, one lock per key, no dead entries, a hung key holds back only itself |
| `crawl_loop` | 5 URLs, 4 keys, 2 hosts; 2 at a time, 3 pages; stream, failing calls, one request that hangs | no page twice, page limit, nothing lost, a reason for every end, a dropped stream ends the crawl |
| `crawl_loop_legacy` | same URLs, all but one linked from the seed, 4 pages; a frontier without host selection that pops short; panics | concurrency limits, termination |
| `crawl_panic` | same site, panics | a violation: a panicked entry stays in flight |
| `crawl_strategy` | same site | a violation: a strategy stop aborts fetches under way |
| `robots_cache` | 4 reads, 3 keys, 2 slots | bound, one fetch per key, nobody left waiting |
| `robots_cancel` | 3 reads, 1 slot, drops at the table's mutex | a violation: a lost wake-up |
| `seed_schedule` | 3 seeds, 2 slots, 2 hosts, of which one's limiter may fail; one redirect across hosts, one crawl of two pages; a receiver that may go | slots bounded and never idle, starts that are taken back leave nothing, lines move, every seed ends |
| `throttle` | 2 requests, 2 domains, one with a robots.txt; delay 1, back-off up to 2, sweeps, jitter of half | one queue per domain, delays hold, order and pace, nobody waits behind one who left |
| `jobs` | 3 requests, 2 threads, a ceiling of 2; panics, hanging crawls, cancels, evictions | results stay, late tasks revive nothing, capacity returns |
| `jobs_ceiling` | 3 requests, one thread, a ceiling of 1 | a violation: a cancelled job runs on uncounted |
| `browser_pool` | 2 calls, 2 pages, 1 session, 2 launches, a shutdown | permits, no browser left behind, health, every call with a permit ends |

Why the bounds are enough. The site is the smallest on which every race exists:
`s` links to `a` and `d`, `a` links back to `s` and on to `b`, `d` redirects to
`c`, which has `b`'s key. So the chain of `d` and the links of `a` compete for one
key, on a host for which others wait; two places make the join set fill while
hops are parked, and three pages out of four let the ceiling bite while fetches
are under way. Three calls over two keys are enough for one call to end, one to
share its lock and a third to look the table up in between. Four reads over two
slots are enough to fill the table, wait, evict and share. The legacy run's seed
links to three pages on two hosts, so that one may be parked, one running and a
third asked for, which only the legacy bound then refuses. Three seeds for two
slots, two on one host and one redirected to the host of the third, let a slot
be asked for by one, reserved by another and given back by a third, a start find
its host taken, and a page queue behind a seed's redirect at one limiter; the
page that needs no turn folds in while its sibling waits. For the throttle two
requests are one that holds the turn and one behind it, and a lifetime of three
ticks is long enough for a delay, doubled and jittered, to be slept through and
short enough for a sweep to come meanwhile. Two calls of the browser pool
suffice for one to launch while the other finds, waits for or replaces the same
browser; two launches for a browser, its successor, and a launch that fails.

Fairness. `crawl_loop`: the runtime polls the loop and every task (weak
fairness); a request is answered or fails in the end, except on `HungUrls`, and
may ask for further turns only boundedly often (strong fairness on settling),
since retries and redirects are bounded in the code. Nothing forces the receiver
to go, a call to fail or a task to panic. `guarded_frontier`: futures are polled,
the backend answers except on hung keys. `robots_cache`: futures are polled, a
fetch ends (the HTTP client has a request timeout). `Terminates` and
`DroppedStreamEnds` name the hung requests explicitly. `seed_schedule`: the
runtime does not rest while some future can go on, a task can end or a host's
delay can pass (weak fairness of all these together: nothing says which is
first); dropping the receiver, stopping a crawl early and failing limiters are
not in it. `throttle`: time passes, and a task that can go on does. `jobs`: time
passes and the eviction task runs; a crawl need not end. `browser_pool`: every
wait on Chrome is bounded by a timeout, so steps go on; the launch lock is
tokio's mutex, which serves in order (strong fairness for a queued call); after
the flag, `shutdown` goes on and the calls that watch the flag end. Nobody need
close a page. `AcquireEnds` leaves out the wait for a permit, which parked pages
may keep: there a call waits until its own deadline.

Deadlock is not checked where the system stops: a crawl or a batch ends, a call
that ended does not begin again, the requests of `jobs` run out, and so do the
launches of a pool that is shut down.

### What the violations show

* `crawl_panic`: the `JoinError` arm of `absorb_fetch_result` retires nothing,
  although `retire_in_flight` promises that "only genuinely running URLs remain".
  The entry counts against `max_pages` (and, for a frontier that is not
  host-aware, against `max_concurrent`) for the rest of the crawl.
* `crawl_strategy`: the documentation of `spawn_pending_fetches` says a strategy
  that has had enough lets fetches in flight finish; the loop's own test of the
  strategy, after every event, drops them.
* `robots_cancel`: `acquire` arms its notification early so that no wake-up is
  lost; a read that was woken and is then dropped while suspended at the table's
  mutex loses it all the same.

* `jobs_ceiling`: `active_count` is documented as a hard ceiling on running jobs;
  a DELETE takes the job out of the count and leaves its task running. The run has
  one thread, so that no two handlers can pass the check together; with more, up
  to `Threads - 1` jobs too many get in that way as well, which no property bounds.

Some of what the code does is modelled and refuted by no property (the hazards of
`PROJECT.json` with a note): the links whose keys were claimed when discovery
failed half way, a cancel that the job's task overwrites, a backed-off delay that
a robots.txt read again replaces.

A related delay that no property refutes: a woken read that finds its key cached
does not pass its wake-up on, so another read may wait for one more release
although a slot is idle.

## Proofs

All for any values of the constants that satisfy the modules' assumptions.

* `GuardedFrontier_proofs`: `TypeCorrect`, `ClaimSafety`, `LocksShared`,
  `NoDeadEntry`, `GrantsUnseen`, `Refinement`. The inductive invariant adds to
  the types that the table finds the lock of every call in flight (`OwnersAreFound`: this is what survives
  `retain`), that of two calls queued for one key one is behind the other, and
  that a claimer between its two awaits holds the lock over an unmarked key.
  One lock per key and the bound of the table follow from the first, mutual
  exclusion from the second, the refinement from the third.
* `CrawlLoop_proofs`: `TypeCorrect`, `ReportedOnce`, `InFlightRuns`, `WorkRefined`.
  `PageReportedOnce` is not inductive: it needs to know for each entry the keys
  held for it (its own from the claim of its link, and its chain's), that these
  are in the seen-set (`HeldIsSeen`) and no two entries hold one key
  (`HeldOnce`), and that a chain holds the key of the address it fetches or
  delivered (`ChainHolds`). `Whereabouts` keeps an entry in one place, so that
  nothing is discovered or settled twice.
  `InFlightRuns` and `WorkRefined` hold while no task panics (with panics the
  first is false, and a panicked entry is settled and yet spilled).
* `CrawlLoopLimits_proofs`: `PageLimit`, by comparing the cardinalities of the
  three sets at every step. `ConcurrencyLimits`, with the room that was found
  still there when an entry is admitted (`RoomToAdmit`), and nothing taken from
  the frontier before the first refill says what it can do (`NothingYet`).
  `EndsWithReason`, while no task panics: it needs what each end of a spawn pass
  says about tasks, turns and window (`PassReason`), that an empty window after
  a refill means a cleared latch (`RefilledInVain`), and that after the frontier
  was asked a short refill has taken all it had (`AskedIsAll`). With a panic
  it is false: a panicked entry stays in flight, so that it counts against the
  limits and is put back on the frontier of a crawl that had nothing left.
* `RobotsCache_proofs`: `TypeCorrect`, `Coalesced`, `Bounded`, and, for calls not
  dropped at the mutex, `WakerThere`. The first two rest on `UsedIsFound`: a slot
  in use is the one the table has for its key. The last one is inductive as it
  stands: a read only starts to wait when some slot is in use, a slot given up
  leads to a notification, and one sent while somebody waits is received.
* `SeedSchedule_proofs`: `SlotsBound` and `NoSlotIdle`, from one invariant per
  seed (`SeedFine`): a guard of one of its jobs implies its lease; a lease
  without a guard means that nothing of it waits and that it is not completed;
  and a seed not yet started has neither guards nor pages. A step concerns one
  seed (`ForOne`), except `Cancel`, and takes a slot only when one is free.
  `TypeCorrect`, `LinesHaveHeads` and `BacklogFree`, from a second invariant on top of
  it (`DInv`). A line holds each of its jobs once, all of them parked for that
  host, none of them a head (`Behind`); a parked job has a turn to come and is in
  its line (`InLine`): so the job that `next` promotes is not a head already, and
  a drained `HostTurns` leaves no parked job behind. `LinesMove` alone is not
  inductive, since it does not say that the jobs of a queue wait for the queue's
  host. For the backlog, no job that has not begun asks for an activity
  (`Asked`), so that a reservation or a lease goes to a seed that was started.
  `WithoutIs` says what `Without` keeps, for every sequence: `Without` is a
  recursive function, and the induction goes by a least number that is missed.
* `PerDomainThrottle_proofs`: `TypeCorrect`, `SweepsSplitNoQueue`, `DelaysHold`,
  `PacedAsPromised`. The invariant adds to the types that a domain's clock is
  never ahead of its last request and that a domain without a state was left
  alone for `Ttl` (`ClocksFine`: a state that is swept or made anew forgets no
  request that still counts); that the queue of a turn is, without repetition,
  those who wait for it, the sleeper at its head (`QueuesFine`); and that all who
  wait for a domain have the turn its state gives out (`OneQueue`), which is what
  a sweep must not break. `PacedAsPromised` maps each step to one step of
  `PacedTurns` or to none: `Queue` arrives, `TakeTurn` and `Go` take the turn and
  go, `Drop` gives up, `SetCrawlDelay` asks, and what a sweep or a new state
  drops is forgotten. That a sleep is long enough rests on a delay never being
  under what robots.txt asks for, and a jittered one being raised to it again
  (`WaitsEnough`).
* `JobRegistry_proofs`: `TypeCorrect` and `ResultsStay`. Both rest on a job being
  made once, by a handler that then accepts it.
* `BrowserPool_proofs`: `NoneLeft`, `HealthRight`, `TypeCorrect`. The invariant adds
  that one call launches at a time, namely the holder of the lock (`OneLaunch`),
  that nothing that works is installed while it does (`NothingRuns`), that a
  browser on its way in belongs to its launch alone (`OnItsWay`), and that a
  shutdown does not take the state in the middle of an install (`StateKept`): so an install
  never overwrites a browser, and the supervisor of a replaced one changes
  nothing. The accounting of permits is by cardinalities, one way out of a call
  after the other.

Only model-checked. Liveness, which is beyond the prover: `OnlyItsOwnKey`,
`Terminates`, `DroppedStreamEnds`, `EveryCallEnds`, `SeedsEnd`,
`CancelReturnsSlots`, `EveryRequestGoes`, `CapacityReturns`, `AcquireEnds`. The
invariants, action properties and refinements that the passing runs check are
all theorems; those with a hypothesis (no task panics, calls are not dropped at
the mutex, `Default <= MaxBackoff`) say so in their statement.

## Not modelled, and the plan

`PROJECT.json` lists every component with its status. What remains, in the order
planned:

1. A resumed crawl on a persistent frontier, and a crawl whose future is dropped:
   what is left on the frontier, and what a chain's claims mean to the next crawl.
2. `run_resumable_jobs`, the loop of a batch scrape, which has no slots or
   contexts: a job that panics in its turn is found by its task id.
3. Two limiters per host in `SeedSchedule`: a job for a blocked host with another
   limiter starts a waiter of its own.
4. Bounded checks of pure algorithms: rule matching in `crates/crawlberg-robots`.

Not planned, and why:

* Bindings and command line (`crates/crawlberg-ffi`, `-php`, `-py`, `-node`, `-wasm`,
  `packages/`): they are most of the repository's Rust, mostly generated, and hold
  no state beyond a handle on the engine. The modules therefore cover a small
  share of the repository's lines, and most of the stateful engine.
* The browser engine, and the interception of its requests (`ssrf_intercept.rs`):
  a browser's protocol and its event data.
* Content extraction, site maps, research, MCP: pure functions or sequential use
  of the engine.
* The tier averages of `defaults/domain_state.rs`: floating-point; that two
  samples may overwrite each other costs a sample of a mean.
