# TLA+ models of the account gateway

These modules model the part of the repository that keeps state under
concurrency: the Go gateway in `src/gateway/backend`. Five questions run through
them. Does an account whose quota is exhausted come back (the quota machinery)?
Is a refresh token, which the upstream takes once, ever spent twice or lost
(credential refresh)? Is a client key charged once for what it used, within its
limit (the billing ledger and the video jobs)? Does anybody wait for ever in
pools that contain each other (the worker pools)? And for how long can a process
route by what it no longer should believe (the routing cache)?

Paths below are relative to `src/gateway/backend/internal/`.

    tlc -workers 2 -config QuotaRecoveryQueue.cfg QuotaRecoveryQueue
    tlc -workers 2 -config BillingLedger.cfg MCBillingLedger
    tlapm BillingLedgerProofs.tla

`PROJECT.json` lists every run with its module and configuration, the wrong
variant that each property is known to catch, the source lines of each
definition, and the hazards.

## Inventory

The repository is a registration tool (Python, `src/serve`, with a React console
in `src/web`) and a gateway it can run beside it (Go, `src/gateway`). The gateway
serves an inference API from a pool of provider accounts (Grok Web, Grok Console,
Grok Build). Several instances may share one relational database and, with the
Redis driver, one runtime store; with the memory driver an instance is alone.

| part | state | operations | what is hard | what makes it right | module |
|---|---|---|---|---|---|
| quota windows (`application/account/service.go`, `infra/persistence/relational`) | per account and mode: remaining, reset time, sync time | refresh, decrement, exhaust, list due | a snapshot is read, saved and reconciled in three steps | an exhausted window is found again | QuotaRecovery |
| recovery queue (`infra/runtime/memory/quota_queue.go`, `infra/runtime/redis/store.go`) | events with due time, attempts, claim token | schedule, ensure, cancel, claim, ack, reschedule | claims outlive their lease; schedules meet claims | a claim owns its event for its lease; stale owners change nothing | QuotaRecoveryQueue, RedisQuotaRecoveryQueue |
| recovery service (`application/quotarecovery`) | the batch it claimed | claim, probe, answer, reconcile | failed probes, restarts, expired leases | every claim is settled; the window recovers | QuotaRecovery |
| refresh queue (`application/account/service.go`, from `QueueQuotaRefresh`) | per key: generations, queued, running, pending, next attempt; a bounded channel | signal, take, refresh, retry, recover | signals during a flight; a full channel | no signal is lost; one flight per key | QuotaRefresh |
| refresh coordinator (memory and Redis) | per key: generation, dirty mark, expiry | mark, read, clear, list | instances refresh against each other | a mark is cleared when its requests are accounted for | QuotaRefresh |
| credential refresh (`application/account`) | tokens, failure counts, cooldowns | ensure, rotate, mark failure | singleflight within a lock between instances; rotated tokens | a refresh token is presented once, its successor is kept | CredentialRefresh |
| client keys and billing (`application/clientkey`) | reservations, spent amounts, markers | reserve, settle, cancel, clean up | crash before settlement; settlement, cancellation and two cleanups of one reservation | charged once; the limit | BillingLedger |
| audit writer (`application/audit`) | bounded queue, batch | create, flush, drain | a full queue, a repeated batch, a refused record | a record is written or counted as lost | BillingLedger |
| video jobs (`application/gateway/video.go`) | job rows, claims with leases, queues | create, claim, run, close, record, recover | restart between steps; two workers of one job | one runner; recorded once, as stored | VideoJobs |
| worker pools (`pkg/batch`) | slots in use, limit, waiting tasks | do, update limit, map | cancellation while waiting, limits that change, pools in pools | the limit; no lost wake-up; no deadlock | BatchPool |
| account selector (`application/gateway/selector.go`) | layered snapshots of candidates, flights, health overrides | load, invalidate, assemble | invalidations during loads, a database out of reach | nothing older than an invalidation, or than a bound | RoutingCache |
| invalidation (`application/invalidation`) | bounded queue of events | notify, publish, receive | full queue, lost publication, coalescing | every instance hears of every change, or reloads | RoutingCache |
| request gateway (`application/gateway`) | leases, cooldowns, attempts | select, attempt, fail over, finalize | failures in the middle of a stream | an attempt releases what it acquired exactly once | its calls only |
| concurrency leases (memory and Redis store) | leases per account or client key | acquire, release with retries, expire | lost releases, leases that end before their request | the limit; every slot comes back | a count in BatchPool |
| sticky sessions, device sessions, observed models, reasoning replay | keyed values with a TTL | bind, touch, delete | a bind races the deletion of its account | no binding to a deleted account | |
| result cache (`pkg/resultcache`) | values, loads in flight | load, set, delete | a delete during a load | no value older than the last delete | |
| administrator sessions (`application/adminauth`) | sessions, password hash | login, refresh, change password | rotation races revocation | no session survives a password change | |
| egress (`application/egress`, `infra/egress`) | nodes, cooldowns, clearance | acquire, report, refresh | several requests report one node | a cooling node is not handed out | |
| settings, models, media, dashboard, update check | rows and files | CRUD | little | | |
| provider adapters, HTTP transport, domain, config, security | none, or per call | translate | formats | | |
| consoles (`src/web`, `src/gateway/frontend`), registration tool, scripts | | user interface, browser automation | external services | | |

Interactions of the modelled parts:

    request --success--> DecrementQuota ------------------> quota window (database)
       |    `----------> QueueQuotaRefresh -> channel -> worker -> lock -> upstream -> window
       |                                          `-> coordinator: mark / read / clear
       |----429--------> ExhaustQuota: read window -> window -> Schedule -> recovery queue
       |----401--------> EnsureCredential -> flight -> lock -> upstream -> account row
       |----reserve----> key row and reservation --record--> audit queue -> writer
       |                                                   `-> settlement (one transaction)
       `----route------> selector snapshots <--invalidation-- writes of all instances
    refresh -> save window -> reconcile: Schedule or Cancel -> recovery queue
    recovery loop: Claim -> ProbeQuotaMode -> window -> Ack or Reschedule
                   every minute: due windows -> Ensure
    video request -> reservation + job row -> queue -> worker claim -> close -> record
                   every few seconds: claimable rows -> queue; unrecorded rows -> record
    startup: exhausted windows with a reset time -> Schedule; critical credentials -> refresh;
             expired reservations -> cleanup; claimable jobs -> queue

## Modules

A variable called `deployment`, `setup`, `cast` or `bound` is chosen in `Init`
from a constant set and never changes: it lets one run check several
deployments or loads. `Spec` keeps it (`Next /\ UNCHANGED ...`).

**QuotaRecoveryItems** defines what each method of the in-process queue does to
its map, as operators on a function from keys to events: `Schedule`, `Ensure`,
`Cancel`, `Claim`, `Ack`, `Reschedule`. Each method holds the queue's mutex, so
each is one step wherever it is used. Time is relative: `due` counts down to 0.

**QuotaRecoveryQueue** is that queue with all its clients. `items` is the map;
`claims` is what workers hold, each with the rest of its lease, because nothing
in the queue knows whether a worker is still alive. A claim may end by an
acknowledgement, a reschedule, or silently (`Abandon`); a call may stamp events
and fail (`ClaimLost`). It is also the abstract specification of any driver of
`repository.QuotaRecoveryQueue`.

**RedisQuotaRecoveryQueue** has the three Redis structures, a sorted set and two
hashes, and one action per Lua script, which does to each structure what the
commands of the script do. A script that returns early is an action that is not
enabled. `RefinesQueue` maps them to `items` and states that the result behaves
as `QuotaRecoveryQueue`. Keys are validated by the Go wrappers before a script
runs, so malformed ones do not appear. Definitions that `QuotaRecovery` has too
are called `RedisInit`, `RedisNext`, `RedisSpec` here, so that one module can
prove about both.

**QuotaRecovery** composes the queue with the persisted windows, the recovery loop
of each instance, and the callers that exhaust, consume and refresh a window, over
an upstream whose quota comes and goes at will (`Consume`, `Refill`). A probe or a
refresh reads, saves and updates the queue in separate steps, or shares the flight
of another one and goes on with what that one saved (`RefreshJoin`, `ProbeJoin`).
A 429 without a Retry-After reads the persisted window to predict the reset
(`ExhaustRead`), persists the exhaustion and schedules the event; when that read
fails, the exhaustion is persisted all the same, without a reset time, and nothing
is scheduled. `blind` is history: the windows last exhausted so. Any of these
calls may fail. The model adds nothing atomic to them. `WebKeys` are modes whose
snapshots always carry a reset time, `ChatKeys` the Console mode whose snapshots
carry one when exhausted, and the other keys are Console image and video, which
never do. A deployment has the in-process queue and one instance, or the Redis
queue. `Restart` is a startup that succeeds: it reads the exhausted windows with a
reset time, at most `Capacity` of them (`Recalled`), schedules each, and would not
serve at all if the queue refused one. `UsesQueue` states that the service is a
client the queue is made for: seen as claims, with what is left of their leases
(`Held`), its probes move as `QuotaRecoveryQueue` allows, except at a restart,
which may lose the queue and schedules several events at once.

**QuotaRefresh** is the refresh queue for one key. `local` is the entry of
`quotaRefreshes` per instance, `channel` the requests of the key in
`quotaRefreshQueue`, `job` the stage of each worker's flight through
`runQuotaRefresh`, with one stage for every stretch of code between two points
where it holds no lock. `outside` is what refreshes that take no lock have read:
recovery probes, the weekly 429 and the console migration, which are calls of the
singleflight that the queue's flights use too (`mode`), and the refresh of a whole
Web account, which is not (`account`). A flight that meets one of the first kind in
its instance joins it (`Join`) and gets what that one read, however long ago; the
others save over whatever was saved since. `missed` is history: the newest request
such a refresh may have left out, and `saved` what was last saved under the lock.
`coord` is the coordinator's entry with, as a history
variable, the requests its mark stands for (`covers`). `used` and `window` count
the requests made and the ones the persisted window accounts for. A deployment
says whether there is a coordinator, whether it outlives an instance, and
whether the key is a Console mode with its minimal interval.

**CredentialRefresh** is the account row, the lock of its refresh and the calls
that meet on it: requests before and after a 401, the scheduler, the recovery at
the start, an administrator's refresh and an administrator's edit. Refresh
tokens are numbered in the order in which the upstream issues them; the row
holds one of them and `issued` is the only one the upstream still takes. `call`
is where a call is and which row it has read, which is what it decides and
writes by. `lost` and `overwritten` are history: the tokens whose successor
never reached the row, and those that a save of a whole row brought back.

**BillingLedger** is one limited client key: the two columns of its row
(`reserved`, `billed`), the reservations (`held`, of which `expired`), the audit
rows, and in every process the markers (`active`), the audit queue, the batch of
its writer and the records it has lost. A request with an estimate reserves; a text
nobody can estimate and a transcription are served and charged without
(`ServeUnreserved`). Every transaction of the database is one
operator (`Book`, `Unbook`, `Settle`) and one step. `lapsed` and `late` are
history: reservations that ever expired, and charges that had none, because it was
gone or never made.

**BillingAccount** is what the ledger of a key promises, on the events alone: an
event holds a part of the limit, gives it back, or is recorded, once. There are no
columns, queues, batches, markers or processes. `ImplementsAccount` states that
`BillingLedger` behaves so.

**VideoJobs** is the table of jobs with their claims and leases, the queues of
every process, the worker with its own copy of what it claimed (`token`,
`outcome`), the request that makes the job and the recovery that records what
workers left behind (`usage`). A reservation is there or not; what it amounts
to is in `BillingLedger`. `suspended` marks workers that slept through their
lease.

**BatchPool** is `pkg/batch`: pools with slots and limits, batches with their
bounded channel and their workers, tasks that pass the category pool and then
its parent, and the leases a category shares with other processes. `worker` has
one stage for every point where a task may be overtaken.

**RoutingCache** is what one process believes about one route with one account.
Versions are only compared for equality with the current one, so a holder of a
version keeps whether it is the current one. `clock` is absolute since the bounds
on staleness are about it. An invalidation takes the health overrides first
(`Apply`) and then, under another lock, the layer (`Drop`); `arriving` are those
in between, `applied` counts the writes whose invalidation dropped its layer,
`known` says that the failure was heard of in time, and `bared` that the override
went and the base layer stayed.

The `MC` modules hold symmetry sets and the functions a configuration cannot
write down. Definitions whose comment starts with *Wrong:* are variants of the
definition below them, as a plausible bug would have it; no specification uses
them. They show which property notices the bug (`mutants` in `PROJECT.json`).

## Runs

| run | instance | shows |
|---|---|---|
| QuotaRecoveryQueue | 3 keys, 2 tokens, capacity 2, batch 2, lease 2, fair time | ownership of claims; stale answers are inert; abandoned claims come due again |
| RedisQuotaRecoveryQueue | 3 keys, 2 tokens, capacity 2, batch 2, lease 2 | the three structures agree; refinement |
| QuotaRecovery | one instance with two callers and the in-process queue, and two instances with the Redis queue, without faults; one instance with one caller, 1 fault and either queue; 1 Web key, lease 1 | a window is exhausted without a reset only by a call that could not read it, and recovers otherwise; claims settle; the queue is used as specified |
| QuotaRefresh | 2 instances, 2 workers each, 2 signals, 1 restart; the same with 1 signal and refreshes without the lock; one instance with those of both kinds and a fault; and one Console instance with an expiring mark | one flight; no signal forgotten and marks cleared when covered, but for what a refresh without the lock left out; saves under the lock in order |
| QuotaRefreshLive | 2 instances, 2 signals; the same with 1 signal, and one instance with 2, beside refreshes without the lock; one instance with 2 faults, and one without a coordinator and 1 fault | flights end; every request is accounted for in the end, but for what a refresh without the lock left out and stranded keys |
| BatchPool | a batch of 2 items and 2 workers through a category with a lease of its own and its parent, a batch of another process that shares the parent's lease, limits 1 and 2, 1 event, 1 cancellation | slots, leases and counts are exact; no lost wake-up; batches return |
| CredentialRefresh | 2 callers of 7 casts over 2 instances, 2 tokens, 1 fault | no token is spent twice, no successor dropped; calls end; what is due is served |
| BillingLedger | 3 requests of 2 processes for a key with room for 2; 2 requests, room for 1 and 4 faults; the same with 3 faults when one has no estimate, and when there is one process | the sums, the limit, charges that find their reservation; refinement of BillingAccount; records end; expired reservations go, but for the marooned ones |
| VideoJobs | 1 job, workers of 2 processes or of the only one, 2 faults; 2 jobs, 1 process, queue of 1 | one runner; records as stored; jobs and reservations end |
| RoutingCache | races of loads, writes and invalidations; a lost event over 6 ticks; a failure over 6 ticks | nothing older than an invalidation; bounded staleness; cooled accounts stay out |
| QuotaRecoveryNoReset | 1 key of the Console chat mode, 1 caller, in-process queue, 1 fault | *violation*, see below |
| QuotaRefreshLostSignal | one instance with the in-process coordinator, 2 signals | *violation*, see below |

### Bounds

Ownership of a claim needs a first owner, a second one after the lease, and a
third event that meets a full queue: three keys, two tokens and a lease of two
ticks contain every pair of those. A token is reused only when nobody holds it,
as two random tokens never coincide. `QuotaRecovery` needs one key, since keys
meet only in the capacity of the queue and in the size of a batch, which the
queue's own runs cover; a fault is a failed probe or call, or a restart, and one of
them suffices for a blind exhaustion, a lost queue or an abandoned claim, which are
repaired separately; the run has them in the smaller deployments, the theorems in
all. A refresh needs
a signal before a flight and one during it, hence two signals; the second
instance and the second worker are there to interleave. Beside refreshes without
the lock two instances have one signal, since a snapshot can already miss it; the
theorems hold for any number. `MaxFaults` counts calls
that fail and full channels, `MaxRestarts` restarts, `MaxSignals` requests.
Generations and attempts have no bound of their own: these three keep them small.

In `BatchPool` the two workers of the first batch contend for its pools and one
worker of another process for the lease; `MaxEvents` counts changes of a limit and
failed lease calls, and one of them suffices to meet every stage of a task.
`CredentialRefresh` takes callers in pairs because the row and the lock are all
they share: a cast names the home and the kind of both. With two tokens the
upstream rotates once, which is where a token may be spent twice, and after that
it only fails (`MaxTokens`); one fault (`MaxFaults`) may be a restart or a failed
call. The theorems of the module hold for all of these numbers. So do those of
`BillingLedger`, whose runs have a key with room for two of three requests, and
one with room for one of two with enough faults for a lost answer, a refused
record and a restart to meet; without an estimate, and in a single process, the
failed cancellation and what it leaves take fewer. `VideoJobs` needs two workers
for the claims and the leases of one job, two processes because the recovery of
one may find what the other left, and a second job only for a full queue. In
`RoutingCache`, `Races` has, without time, every order of one write to each layer
with further invalidations of the overlay, and of one write to the overlay with
further invalidations of both layers; `Losses` and `Failures` have the base layer
and enough ticks (TTL 1, stale 2, load 1, retry 1) for the longest history of a
snapshot. That a failure meets invalidations of the base layer is covered by the
theorem only.

`CHECK_DEADLOCK FALSE` is given where requests, signals, items or time are
bounded: these systems come to rest when everything is done.

### Fairness

Nothing is assumed of requests, faults, restarts, cancellations or the upstream.

* `QuotaRecovery`: time passes; a caller or a probe in progress goes on; the
  recovery loop is one goroutine whose `select` chooses at random among the
  tickers that are ready, so neither claiming nor reconciling is passed over for
  ever although each disables the other while it runs (strong fairness).
* `QuotaRefresh`: a flight goes on, some worker takes what is in the channel, the
  recovery goroutine's tickers keep coming, a refresh without the lock that has read
  saves (or fails) in the end, time passes.
* `CredentialRefresh`: goroutines run, access tokens age, the scheduler looks at
  the database at least once in its interval, an orphaned lock expires. Asking
  for the lock is strongly fair: a caller asks every 200 milliseconds, while two
  failed runs of the scheduler are 30 seconds apart and other callers end.
* `BillingLedger`: the writer takes, flushes and in the end commits; the cleanup
  of every process is periodic.
* `VideoJobs`: workers and requests go on, leases and reservations run out, the
  recovery and the cleanup are periodic.
* `BatchPool`: goroutines are scheduled and the work of a task ends. There is no
  fairness between waiters: every one of them is woken.
* `RoutingCache`: queries end and the flight of a request goes on.

### Disagreements found

Two runs end in a violation, each of a statement in the source:

* `QuotaRecoveryNoReset`: a request gets 429 without a Retry-After from an
  exhausted upstream, and `ExhaustQuota` cannot read the windows
  (`service.go:2892`). The exhaustion is stored with `reset_at` NULL and no event is
  scheduled, whatever the mode. Both queries that could bring the window back ask
  for a reset time: it waits for a refresh somebody asks for, or for the next
  periodic one of its account, if there is one.
* `QuotaRefreshLostSignal`: the recovery goroutine lists a dirty generation, a
  flight of the same instance clears it and drops the entry, and the listing makes a
  new entry for it and queues that. Its flight finds the generation clean, and
  when a request signals before it has dropped the entry, `runQuotaRefresh` returns
  without clearing `running` (`service.go:3420`). The entry stays: later signals of
  this key only increment its generation.

Others follow from the code the models translate and have no run of their own.
A property that would notice one names it as its exception:

* An exhausted Console image or video window never has a reset time. With the
  in-process queue a restart forgets its event, and nothing brings it back before
  the next refresh (`ExhaustedHasReset` is about Web windows).
* A recovery probe has read the upstream, then a request succeeds. Its flight
  publishes the mark, takes the lock and joins the probe's singleflight
  (`service.go:3021`): the older snapshot counts as its refresh, it clears the mark
  and drops the entry, and the window misses the request. `ClearedWhenCovered`,
  `NothingForgotten` and `EventuallyRefreshed` except it (`missed`).
* Refreshes without the lock (`service.go:2918`, `2997`, `3061`) may save an older
  snapshot over a newer one (`LockedSavesInOrder` is about what is read under the
  lock, `missed` excuses the rest).
* A request without a reservation is charged all the same (`late`): the limit holds
  up to such charges.
* The time of the last Console sync is checked before the lock is taken
  (`service.go:3433`), so a waiting instance repeats a read that is seconds old.
* A flight that failed for longer than the 24 hours the shared mark lives
  compares generation 0 with the one it remembers (`service.go:3507`). They never
  agree again, and the loop reads the upstream without a pause.
* `MarkReauthRequired` and `Update` save a whole row that they read before
  (`service.go:2343`): tokens rotated in between are overwritten with spent ones
  (`overwritten`).
* A manual retry that fails for a passing reason clears the mark of a permanent
  failure (`service.go:2602`).
* The cleanup inside a reservation (`client_key_repository.go:435`) takes every
  expired reservation of the key, also of requests and video jobs that still run;
  their charge then comes without one (`late`, `reclaimed`).
* A failed cancellation keeps its marker, and in a deployment of one process the
  marker keeps the expired reservation from the cleanup until a restart
  (`clientkey/service.go:531`). `ExpiredIsFreed` and `ReservationsGo` except it
  (`Marooned`); with another process they hold without.
* A completed video job that is deleted before its use is recorded is never
  charged (`media/service.go:388`).
* The event of a client key, or of another layer, takes the health overrides away
  while the base snapshot from before the failure stays (`selector.go:1632`), and
  an assembled snapshot that was made just before an override ends outlives it
  (`CooledStaysOut` names both). A request that joins a flight past its last
  comparison gets what was read before (`InvalidatedNotServed` is about the
  request that began the flight).

## Proofs

`QuotaRecoveryQueueProofs` proves, for all keys, tokens, leases, limits and
capacities that satisfy `ConstantsAssumption`, what the queue's run checks. The
inductive invariant is `Inv`: type correctness, `LiveClaimOwnsEvent` and
`TokensDistinct`. The second conjunct alone is not inductive: a claim may be
settled by its owner only because no other claim of the same event has the same
token, and that in turn follows from drawing fresh tokens. `OperatorTypes` and
`OwnedEventKept` say once what each queue operation preserves, and `ClaimStep`
handles the hand-out of a batch. That no two workers own one event
(`OneOwner`) is a consequence of `Inv`.
`StaleAnswers` and `OwnerRemoves` are action properties shown from `Inv` for each
action.

`QuotaRecoveryProofs` is about the Redis queue and about the service. Of the
Redis structures it proves that they agree (`Consistent`), with the invariant
`Agree` (typed, one attempts entry per event, tokens only for events), then the
refinement: `WriteView`, `DeleteView` and `StampView` say what each group of
commands looks like through `Items`, and `StepRefines` maps every action of the
Redis queue to the action of the same name or to a stutter (`Refinement`). Every
theorem about the in-process queue that speaks of `items` and `claims` therefore
holds of the Redis queue under `Items`.

Of the service it proves, from `RecoveryAssumption` and for any finite number of
keys and any instances and callers, type correctness (`TypeCorrect`; that every
event is given a delay within `Horizon` is part of it) and `ExhaustedHasReset`
(`ResetKept`), whose exception is the blind windows. The latter is not inductive,
since windows are saved from snapshots taken earlier. `Recoverable` adds what is
on its way: every snapshot that a probe or a refresh of a Web mode has read or
shares, and every exhaustion that is saved and not yet scheduled, has a reset time
(`Carried`), and so has every Web window that is not blind, exhausted or not
(`WebReset`), because a decrement takes the last unit and keeps the reset.
`RestartFindsExhausted` is what that buys: after a restart every exhausted Web
window that is not blind has an event, whatever the queue lost, if the exhausted
windows are no more than the queue can hold. Beyond that
`ListQuotaRecoveryWindows` leaves some out, and only `reconcileDue` finds them.

`QueueUsed` proves `UsesQueue`, with which the two halves meet: every step of the
service between restarts is one that the queue's specification allows, for its
probes as claims. It needs `Distinct`, that a
token names one probe of one instance, since otherwise the answer of one would end
the claim of another. `ClaimsStay`, `AdvanceHolds`, `AnswerHolds`, `ClaimHolds` and
`TickHolds` say what each kind of step does to the claims, and `ClientCalls` turns
that into a step of the queue. `OneProbeOwns` follows from `Distinct` as well.

`CredentialRefreshProofs` proves from `CredentialAssumption` that no token is
presented twice (`NoTokenTwice`) and that no successor is dropped
(`SuccessorStays`), with the exceptions the properties name. Neither is
inductive. `IInv` adds `LockHeld`, that a flight between its second look at the
row and the end of its write holds the lock, and `StoreIsLast`, that what it is
about to store is the last token issued: the first makes the other flights' rows
irrelevant while an exchange is under way, the second says that a write brings
the row up to date. `QuietMove` settles at once all steps that change neither
the row nor what a locked flight has seen.

`BillingLedgerProofs` proves from `BillingAssumption`, for any number of requests
and processes, any limit, amount and cost, that the columns are the sums of the
reservations and charges (`ColumnsHold`), that the limit holds but for overruns
and charges without a reservation (`LimitHolds`), and that such a charge is one of
a request that never reserves, or one whose reservation had expired
(`LateOnlyAfterExpiry`). `IInv` has the sums (`Sums`), the history variables
(`Marks`) and `Owned`, which relates the stage of a request to its row: what is
not handed over is nowhere, a request under cancellation is not charged, and one
that reserves and runs or is charged has its reservation, unless that expired or
was settled. `Booking`, `Unbooking` and `Settling` say what each transaction does
to the sums (with the cardinality lemmas they need, `Count`, `CountPart` and
`CountBoth`), and `Balance` is the arithmetic of a settlement. Each step of a
request or a process then cites the transaction it runs. `AccountImplemented` is
the refinement of `BillingAccount`, from the same invariant: `FitsIsRoom` says
that the comparison with the columns is the comparison with the rows, and
`BookRefines`, `UnbookRefines` and `SettleRefines` map the transactions; a
repeated batch maps to a record of nothing. `RecordedHoldsNothing` is then shown
of the account and holds of the ledger.

`BatchPoolProofs` proves from `PoolAssumption`, for any number of pools, batches,
workers, leases and any limits, `NoLostWakeup` (`NobodyMissed`) and
`NothingLeaks` (`CountsHold`), which are inductive together with `OnTheWay`: a task
on its way in has not started, and one that deals with a lease is in a pool that
has one. The counts of a pool, of a lease and of the waiting tasks are
cardinalities of sets of workers; `CountOne` and `Balance` say how such a set
changes when one worker moves, `Held` and `Innermost` what a worker has at each of
its stages, `StepInv` settles the steps in which one worker moves, and `WokenStep`
the broadcast that wakes all others. The pools and the leases of one path are
distinct, which is part of the assumption.
`EveryItemTallied` has an invariant of its own, `Accounted` (`ItemsAccounted`):
the items sent are those in the channel, those with a worker (`Carrying`) and those
with a result, and a worker of a batch that is not cancelled leaves only when
nothing is left. It needs that a batch with items has a worker, and `mapObserved`
starts at least one (`executor.go:305`).

`VideoJobsProofs` proves from `VideoAssumption`, for any number of jobs, processes
and faults and any length of a queue, that a job has one runner (`RunnerAlone`),
that what is recorded is what the row says (`RecordsMatch`) and that a closed job
stays closed (`ClosedForGood`). `IInv` relates a worker's copy to the row
(`ClaimsFit`), keeps the tokens of two claims apart (`TokensDiffer`), and relates
the audit, the makers and what a recovery has read to the state of the job
(`AuditsFit`, `RowsFit`, `UsageFits`); `Shared` says that the queue and the marks of
a process give a job to one of its workers. `SeizeRows` and `CloseRows` say what a
claim and a close do to the rows, `SettleRecorded` what a record does, and
`RowsAlike` settles the steps that change none of them. `ChargesFunded` ties the
rows to the ledger. Its invariant `Funded` says that a job which may still be
charged has its reservation or one of the excuses the property names (`Backed`),
that a worker which has recorded its job, or gives the reservation back, wrote what
the row says (`WorkersConclude`), that rows are marked after their use was recorded
(`RecordsKept`), and that the reservation of a request under way does not expire
(`RequestsHold`).

`QuotaRefreshProofs` proves from `RefreshAssumption`, for any instances, workers
and deployments, with any refreshes beside them that take no lock, `OneFlight`
(`FlightAlone`), `LockedSavesInOrder` (`SavesOrdered`), `ClearedWhenCovered`
(`MarkCovered`) and `NothingForgotten` (`SignalsKept`). `SavesOrdered` rests on
`ReadFits`: a flight that has read for itself and not saved holds the lock, and no
flight has saved since its read under the lock. `MarkCovered`
rests on `FlightFits`: a flight of the newest generation has read, and later
saved, at least what the mark stands for, or such a refresh has left that out
(`Accounts`). `SaverFits` says so of a flight that is about to save while another
one relies on the window, and `Snapshots` bounds what the refreshes without the lock
carry and ties a flight that joined one to it. No instance remembers a generation that
is ahead of the coordinator's (`Behind`), which holds as long as marks do not
expire. `SignalsKept` needs a second invariant on top of `IInv`, `Told`: while
the mark does not stand for every request, some instance has an entry with a
generation it has not published and no flight has just marked (`Unmarked`); an
entry is never one that a later signal would replace (`Minds`); and a flight that
is past its mark carries a generation that is published (`Carries`), so that no
entry is dropped with an unmarked signal. `FlightMemory` says what a step of a
flight does to the entry and to the generation it carries.

`RoutingCacheProofs` proves from `RoutingAssumption`, for any lifetimes, durations
of a query, numbers of writes and lengths of a behaviour, `InvalidatedNotServed`,
`StalenessBounded` and `CooledStaysOut`. A value misses a change that it does not
show (`Missed`), a write of its layer or the failure of the account. `IInv` follows
a value from the query to the flight, the snapshot, the route and the candidates:
each place says how long after a change the value may still be there (`Within`),
and that a value under the current version shows all that was heard of
(`UpToDate`), where a failure counts once its override is gone (`Spared`). The
bounds of the places add up to `Longest`. `Later` and `Holds` are what a step must
leave true for values to stay where they are; `Moves` reduces the steps of flights
to the one value they move.

Type correctness is proved in all of these modules, and `TypeOK` is then no
invariant of their runs. Each run evaluates the assumption its theorems start from.

Every invariant and every action property of the runs that pass is a theorem.
Only model-checked are the liveness properties (`ClaimRunsOut`, `WindowRecovers`,
`ClaimSettles`, `FlightEnds`, `EventuallyRefreshed`, `BatchReturns`, `CallsEnd`,
`DueIsServed`, `RecordsEnd`, `ExpiredIsFreed`, `JobsEnd`, `ReservationsGo` and
`RouteEnds`), since fairness and ENABLED are out of the prover's reach, and the two
violations. No result here needs induction over data.

## What the models leave out

* The order of events that are due: a claim takes any of them, up to its limit.
* In `QuotaRecovery`, a call that comes while a flight of its key is under way may
  share the result once that is saved, and takes it in a step of its own. Console
  modes always share or wait; Web modes may also be read by a refresh of the whole
  account, which has another flight. The refresh of the Imagine group, the weekly
  window that stands in for other modes, and the periodic catch-up of stale Web
  accounts (`app/startup.go:394`) are not modelled as such; any refresh may start at
  any time (`StartRefresh`), and none is assumed to.
* Nothing states that a 429 always leaves an event: a schedule that meets a claim
  is dropped, and an acknowledgement of the older probe then removes the event.
  The window keeps its reset time, and `reconcileDue` finds it once that has
  passed; this repair is what `WindowRecovers` is about.
* `ClaimSettles` is stated for the in-process queue. With two instances, leases as
  short as one tick can be stolen for ever; the code's leases are four probes long.
* In `QuotaRefresh`, a panic of a flight counts as a failure, the backoff as one
  delay that ends, and a lost release of the lock as a lock that was released.
  Its TTL is the timeout of the flight, which starts before the lock is taken, so a
  flight that reads for itself never outlives its lock; one that joined another
  refresh waits for that one whatever its own time, and may (`LockLapses`). The
  synchronisation of incomplete Console quotas takes a lock of another name and is
  one of the refreshes without it. The queue refreshes the Imagine group outside the
  singleflight, so to its flights every other refresh is one of the kind `account`.
  A mark expires only while every flight is over (`MarkExpires`): it lives 24
  hours and a flight a minute. `ClearedWhenCovered` is stated while it lives and
  not for a Console flight, which clears without reading when its snapshot is
  recent. `EventuallyRefreshed` names as exceptions what `QuotaRefreshLostSignal`
  shows (`Stranded`) and what refreshes without the lock leave out.
* In `CredentialRefresh`, the lock lives two minutes and a flight has 30 seconds
  for the upstream and 5 for every write, so a lock only expires when its holder
  crashed. Left out: the time of the last refresh that is copied into the account,
  disabled accounts, the lengths of the pauses, credentials whose refresh token
  does not rotate, and rows marked permanent by older versions.
* In `BillingLedger`: keys without a limit or that are deleted or change their
  limit, a second reservation of an event, the mode that only observes, the
  shutdown of a writer, a context that has expired when a record is handed over.
  Every reservation and every charge has the same amount.
* In `VideoJobs`: jobs without a price; the choice of accounts and the retries of
  one generation, which is one outcome (`Generated`); the progress reports of a
  running worker, which are synchronous in the adapters of this repository.
* In `BatchPool`: statistics, the jitter at the start, the content of results.
  A sender may still send after the cancellation, as the `select` may. Pools without
  a limiter are covered by the theorems; in the run each pool has one.
* In `RoutingCache`: the eviction of routes, the filter of flagged accounts, the
  consumption of quota by the snapshots' own counters, and the order Redis gives
  to publications (one failure per account). Only queries take time.

### Not modelled

The components marked `not_modelled` in `PROJECT.json`, each with its reason
there. Most of them translate formats, or read and write single rows; four keep
state worth a model of its own and are next in the plan.

## Plan

1. Done: the quota machinery, credential refresh, worker pools, the billing
   ledger, video jobs and the routing cache.
2. `ConcurrencyLease`, an abstract limiter with the memory and the Redis lease as
   implementations; runs with lost releases and expired leases; the bound on
   holders as a theorem. `BatchPool` would then take it instead of a count.
3. The choice among candidates and the attempts of a request, composed with the
   leases and with `RoutingCache`; sticky sessions against deletions.
4. `EgressNodes` (cooldowns and clearance of nodes that several requests report),
   `AdminSession` (rotation against revocation), `ResultCache`.
5. Proofs about what exists: an abstract specification of a job (made, run, closed,
   recorded) that `VideoJobs` implements, and one of a single token that
   `CredentialRefresh` implements.
