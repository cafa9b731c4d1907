# NombaCrypt in TLA+

A verification project for the NombaCrypt engine (`src/backend-engine`): TLA+
modules translated from the C++ source, TLC configurations that check them on
small instances, and TLAPS proofs of the properties that matter most for every
value of the constants. `PROJECT.json` is the index: components, runs, the lines
each definition stands for, mutants, findings, hazards and theorems.

## 1. The system

### Parts, state and operations

| part | source | state | operations |
|---|---|---|---|
| RingBuffer | `src/buffer/ring_buffer.cpp` | `head_`, `tail_`, slots with an atomic state, `total_enqueued_`, `total_dispatched_` | `enqueue` (HTTP threads), `dequeue_for_crypto_verification` (worker), `dequeue_for_processing` and `mark_dispatched` (dispatcher), `get_telemetry` |
| CryptoWorker | `src/pipeline/crypto_worker.cpp` | `enabled_`, statistics, `rr_counter` | scan loop, `verify_slot`, `set_enabled` |
| Dispatcher, main | `main.cpp` | none | dequeue and mark for ever |
| AntiReplayLedger | `src/crypto/anti_replay_ledger.cpp` | map from hash to time, mutex | `insert_and_check`, `evict_expired`, `clear` |
| SubscriptionManager, InstallmentPlan | `src/billing/` | subscriptions, plans, `enabled_`, id counter, mutex | `create_subscription`, `process_payment`, `cancel`, `set_enabled` |
| HTTP server | `src/server/http_server.cpp` | none of its own | `POST /api/accounts` (202/429), `GET` telemetry, events and config, `POST /api/config`, `start`, `stop` |
| httplib `Server`, `ThreadPool` | `include/httplib.h` (vendored) | listening socket, job queue, idle count, base and dynamic threads, `shutdown_` | `listen`, `stop`, `enqueue`, worker loop, keep-alive loop |
| Config | `src/core/config.cpp` | keys, mode, addresses; one shared mutex per call | getters, setters, `load_from_env` |
| HmacVerifier, SequenceHasher | `src/crypto/` | none | HMAC-SHA256, FNV-1a |
| EventLedger | `src/crypto/event_ledger.cpp` | log file, 50 recent events, callbacks | `log_event`, `configure`, `register_telemetry_callback` |
| DunningEngine | `src/dunning/` | retry queue, `running_`, worker thread, condition variable | `schedule_retry`, `stop`, worker loop |
| Reconciler | `src/reconciler/` | expected payments per account | `register_expected_payment`, `run_reconciliation_cycle`, `clear_ledger` |
| NubanProvisioner, NubanCache | `src/nuban/` | student to account number | `provision_account` |
| TokenBucketRateLimiter | `src/rate_limiter/token_bucket.cpp` | tokens, time of the last refill | `try_acquire`, `remaining_tokens` |
| WorkerPool | `src/pipeline/worker_pool.cpp` | not compiled: `CMakeLists.txt:9-30` does not list it | |
| DownstreamForwarder, PayloadSanitizer | `src/forwarder/` | targets, `enabled_` | `add_target`, `remove_target`, `forward`, `set_enabled` |
| WSClient | `UI/src/lib/websocket.ts` | socket, retries, timer | `connect`, `send`, `close`, reconnect |
| UI pages, control API, simulator | `UI/`, `control-api/`, `simulator/` | page state, fixtures, statistics | polling, canned answers, load generation |

Many files that the documentation describes (`dispatcher/`, `ipc/`, most of
`nomba/`, `pipeline/ingest_worker`, `drip_controller`, most of the control API's
services) are empty in this repository; there is nothing to model in them.

### How the parts interact

`listen` accepts connections and queues them for the thread pool, in whose threads
every handler runs. `POST /api/accounts` calls `enqueue` and answers 202 or 429;
`POST /api/config` calls up to seven setters of Config. The single crypto worker
scans the ring from tail to head, verifies the first WRITTEN slot (replay ledger,
then HMAC with a key of Config) and stores PROCESSING or EMPTY into the slot. The
single dispatcher looks at the slot at the tail, and if it is PROCESSING calls
`mark_dispatched`. These threads share the ring's atomics and the plain memory of
its slots, and nothing else orders them. Billing, dunning, reconciliation, NUBAN,
the rate limiter and the forwarder are objects behind mutexes that no route of
`http_server.cpp` and no thread of `main.cpp` calls: their callers may use any
order of calls. The forwarder and the provisioner write to the EventLedger.

### What is hard here

`PROJECT.json` lists the hazards, each at its line. The first group is the
lock-free ring: check and claim are two steps, a slot is visible before it is
filled and is stored WRITTEN a second time, the dispatcher trusts a slot id that may
not have been copied yet, a rejection leaves a hole at the tail.
The second is time: clocks read before a mutex, unsigned differences, the edge of
the window, a system clock that is set. The third is bookkeeping over long sequences of legal calls: plans and
subscriptions with a tolerance per payment. The fourth is threads that wait for
each other: the thread pool's idle count, notifications that find nobody or the wrong
one, stops that arrive at any moment, the dunning worker. The fifth is what changes
under a call that is half done: settings read getter by getter, targets switched
while a transaction is forwarded, a cache looked up and filled in two sections.

### What makes each part correct

- Ring: unique positions, tail behind head, bounded overshoot, no refusal without want
  of room, every written slot decided, only what was verified dispatched.
- Pipeline: contents and verification only refine the ring; nothing is dispatched
  that was not new to the ledger.
- Ledger: an acceptance of a hash excludes another for a whole window.
- Billing: plan and subscription agree, money collected is near what was due,
  terminal states are terminal.
- Dunning: a failed charge is neither lost, doubled nor retried early, and is
  recovered in the end; `stop` returns.
- HTTP server: the idle count is exact, no queued connection is left to sleeping
  threads, every accepted connection is served at most once and closed, a stop ends
  `listen`, and a request taken and not answered is the last of its connection.
- Rate limiter: grants keep to the rate and one bucket; nobody is refused needlessly.
- Forwarder: a transaction goes to targets that are on, once, and cleaned of exactly
  the sensitive values; the answer tells whether it went.
- Provisioner: few accounts per student. Reconciler: settled payments are bounded by
  deposits.

## 2. Modules

| module | models | composed with |
|---|---|---|
| `RingBuffer` | every atomic access of the ring by producers, verifiers and the dispatcher; the verdict on a slot is left open | |
| `RingBufferProofs` | theorems about `RingBuffer` | extends it |
| `Config` | the keys and the mode, set field by field by `POST /api/config` | |
| `Pipeline` | the ring with contents: copying into slots, `verify_slot` with its getters, the ledger's hashes, the shield toggle | extends `RingBuffer` and `Config`, implements `RingBuffer`'s `Spec` |
| `PipelineProofs` | theorems about `Pipeline` | extends it and `RingBufferProofs` |
| `ReplayWindow` | abstract specification: what an anti-replay check promises | |
| `AntiReplay` | `AntiReplayLedger` with its clock and mutex | implements `ReplayWindow` |
| `AntiReplayProofs` | theorems about `AntiReplay` | extends it |
| `Subscriptions` | `SubscriptionManager` and its plans | |
| `SubscriptionsProofs` | theorems about `Subscriptions` | extends it |
| `DunningEngine` | `DunningEngine` and `BackoffStrategy`: queue, worker, condition variable, `stop` | |
| `DunningProofs` | theorems about `DunningEngine` | extends it |
| `ConnectionService` | abstract specification: what `listen` owes its connections | |
| `ThreadPool` | httplib's `ThreadPool`: queue, idle count, base and dynamic threads, shutdown | |
| `HttpServer` | `listen`, `stop`, the keep-alive loop in the pool's threads | extends `ThreadPool`, implements `ConnectionService` |
| `HttpServerProofs` | theorems about `HttpServer` | extends it |
| `TokenBucket`, `TokenBucketProofs` | `TokenBucketRateLimiter` under a clock that may be set, and its theorems | |
| `Callers` | threads that make one call after another | |
| `EventLedger` | the recent events and `log_event` | |
| `PayloadSanitizer` | `sanitize` over texts of tokens, with the reference it is checked against | |
| `DownstreamForwarder` | targets, switch and `forward` | extends `Callers`, `EventLedger`, `PayloadSanitizer` |
| `NubanProvisioner` | `provision_account` and the cache | extends `Callers`, `EventLedger` |
| `Reconciler` | expected payments and cycles | extends `Callers` |
| `Services`, `ServicesProofs` | the three services called by the same threads, and theorems | extends the three |
| `MCRingBuffer`, `MCPipeline`, `MCDunning`, `MCServices` | symmetry and constant values for TLC | |

### Correspondence

*RingBuffer.* `head`, `tail`, `state`, `slotId`, `enqueued`, `dispatched` are the
fields of the class; `verified` is the worker's `stat_verified_`. `pc`, `snapHead`,
`snapTail`, `pos` are the program counter and locals of each `enqueue`; `scanPos`,
`scanEnd` those of the scan; `freeIdx` is the index computed by `mark_dispatched`.
One atomic access is one action: `LoadHead`, `LoadTail` (in either order, as the
expression allows), `Refuse` or `ClaimPosition`, `LockSlot`, `WriteSlot`, `Publish`,
`CountEnqueued`; `ScanTail`, `ScanHead`, `ScanSkip`, `ScanClaim`, `ScanNothing`,
`Approve`, `CountVerified`, `Reject`; `Dequeue`, `MarkDispatched`, `FreeSlot`,
`AdvanceTail`, `CountDispatched`. `Full` is the unsigned comparison of the code: a
tail ahead of the head that was read makes the difference wrap and the ring look
full. Indices are unbounded naturals; `arrived` bounds the requests of a run
(`MaxRequests`). `LockSlot` is the compare-and-swap that
ends the spin and needs an EMPTY slot. Accesses are taken one at a time
(sequential consistency): the code's acquire and release orders allow no more for
the state of one slot, but weaker reorderings of the relaxed counters are not modelled.

*Pipeline.* `memory` is the plain memory of the slots. What
it holds is what a reader would get from `payload` and `payload_len`. `BeginCopy` and
`BeginSignature` are the beginning and end of `memcpy`, between which the payload is
`Torn`; `BeginSignature` and `CopySignature` those of `strncpy`, between which the
signature is `TornSig`; then `CopyLength`, and `FinishCopy` for `slot_id`. Until
`CopyLength` a slot that was never filled reads as an empty text, and another as its
new payload only if that is as long as the old one. Payloads are taken to be within
`MAX_PAYLOAD_SIZE`: `payload_len` is not clamped as the `memcpy` is. Where two producers
copy into one slot at once (section 4), what the last of them stored is what is read;
the run has one producer, and no theorem depends on it. `CopyPayload`,
`HashIsNew`/`HashIsReplay` and `CheckSignature` are the three moments at which
`verify_slot` reads the slot. `seen` is the ledger
without times: the runs are far shorter than its window, and `AntiReplay` has the
times. `Hmac` is injective. `ReadPrimaryKey`, `ReadMode`, `ReadChannelKey` are the
getters `verify_slot` calls, each under Config's mutex for itself.

*Config.* `key`, `multiApi` are its fields. `PostConfig` begins a POST, `SetKey` and
`SetMode` are the setters in the order of the handler; an absent or empty key is
passed over. Addresses and account names, which nothing reads back, are left out.
`held` and `armed` in `Pipeline` are history: the keys a verification could have read.

*AntiReplay.* The clock advances in units of a fraction of the window. A call is two
steps: `Begin` reads the clock, then one action is the body under the mutex.
`accepts` and `answer` are history variables, which `ReplayWindow` speaks of.

*Subscriptions.* Every call runs under one mutex and is one action. A subscription is
a record with its plan's fields. Amounts are whole units that divide evenly by the
number of installments, so that rounding of doubles does not appear; the tolerance
of 1.0 is `Tolerance`. `collected` is history: the money taken per subscription.

*DunningEngine.* `queue` is `retry_queue_`; `wpc` is where `worker_loop` is, `hand`
the charge it has popped, `deadline` the time of its `wait_until`. `calls` are
`schedule_retry` calls that have computed their time and not pushed, `notifying` those
that have pushed and not notified. `mutex_` is held across a step only in `"sleep"` and
`"doze"`, between the worker's decision to wait and its blocking: that gap is where
`stop()`, which takes no mutex, may lose its notification. A notification reaches only
a blocked worker; out of `wait` it tests the predicate again, out of `wait_until` it
goes round the loop. Times are relative to now, so that no clock bounds a run:
`Tick` lowers the time left of every charge, down to `-MaxLate`. `since` is history: it
measures the time since scheduling independently of `left`. `schedule_retry` is called
once per charge; the worker's own call from a failed retry is `Fail` and `Requeue`.

*ThreadPool and HttpServer.* `jobs`, `idle`, `shutdown` are the fields of the pool; `at`
is where each worker is, `hand` the connection it serves. What runs between two
releases of the pool's mutex is one action: `Wait` (a worker counts itself idle and
blocks), `WakeUp` (for a notification, or for nothing), `TakeJob`, `Leave`, `TimeOut`
of a dynamic thread, `FinishJob`; `PushJob` with `Spawn`, and the notification after
the unlock, a step of its own. `lpc` is where `listen` is, `svrSock` and `isRunning` the
server's atomics. `stop` comes only from another thread than those of the pool, as
`HttpServer::stop` is meant; it is `CallStop`, which has read `is_running_` (the code
reads it once more, for an assertion), and `CloseServerSocket`. Of a request only this
is kept: whether it went into the ring (`RingTakes`) and whether its answer could be
written (`Tell202`, `FailToTell`). `Service` maps each connection to its phase in
`ConnectionService`.

*TokenBucket.* Every call is one action, from the reading of the clock to the answer.
`SetClock` sets the system clock, forwards or back. `Elapsed` is the unsigned
difference. `debt` is history: what was granted, less what the rate has paid back
since. Tokens are whole units; the rounding of doubles does not appear.

*Services.* `at[t]` is where thread t is in its call, with the locals it needs later.
A call that holds its mutex from beginning to end is one action (`CallAtOnce`);
`forward` is several although it holds its mutex, because each dispatch writes to the
EventLedger under the ledger's own, where the events of other threads may come in
between: `MutexFree` says that nobody is inside. `provision_account` is `MakeAccount`
(the lookup and the draw), `CacheAccount`, `ReportAccount`. A cycle of the reconciler is
one action: what is outside the mutex is the fetch, which answers the same three
deposits every time. `sends`, `answer`, `given`, `cycles`, `matched` are history.

*PayloadSanitizer.* A text is a sequence of tokens: quotes, colons, braces, blanks and
backslashes for themselves, and one token for a word (field names are words, from the
constant `Words`), an injection pattern, a control character. `RedactField` is the scan of
`redact_field_value` with its positions, `ClosedAt` its inner loop, which jumps two at a
backslash. The reference is `Cleaned`, a function of documents instead of texts, and
`IsFlat` says which documents it is about. Its limits are the code's: an object is flat and
its values are strings or scalars; no value contains the name of a sensitive or required
field (the search does not tell keys from values); there are no control characters in it,
which would be dropped before anything is compared; and a text that ends in a backslash
within a sensitive value makes `substr` throw (`Throw`).

## 3. What the runs show

| run | instance | shows |
|---|---|---|
| `ring_safety` | 2 producers, 2 slots, 5 requests | type, uniqueness of positions, `tail <= head`, overshoot below the number of producers, no refusal with room in the ring unless the dispatcher freed a place during its check |
| `ring_liveness` | 2 producers, 2 slots, 3 requests | every written slot in the window is decided |
| `ring_wedge` | 1 producer, 2 slots, 2 requests | **violation**: an approved slot behind a rejected one is never drained |
| `ring_unverified` | 2 producers, 2 slots, 4 requests | **violation**: more is marked dispatched than was verified |
| `pipeline_contents` | 1 producer, 1 slot, 2 requests, 1 update of the configuration | refinement of the ring; nothing is dispatched without its acceptance or the open shield; nothing passes unsigned once there is a key |
| `pipeline_selfreplay` | 1 producer, 1 request | **violation**: a request is blocked as its own replay |
| `antireplay_serial` | 1 thread, 2 hashes, window 2, time to 5 | refinement of the window; acceptances a window apart |
| `subscriptions_lifecycle` | all calls on small amounts, 2 subscriptions | plan agreement, money near due, terminal states |
| `dunning` | 2 charges, attempts 1 and 2, delays 1 to 4 | charges are conserved, never early, never slept over; every charge is recovered unless stopped; a stop with work left ends the worker |
| `server` | 1 base and 1 dynamic thread, queue of 2, 3 connections of 2 requests | idle count, no stranded job, bound on threads, an untold request is the last; refinement of `ConnectionService`; every accepted connection is closed; a stop ends `listen` |
| `token_bucket` | capacity 5, rate 1, costs 1, 3, 6, clock set once | grants within rate and bucket, one bucket more per setting of the clock; no needless refusal |
| `services` | 2 threads, 5 calls of any kind, 2 targets, 2 transactions, 15 documents, 1 student, 2 references | sent only while on and once; the answer tells; exactly the sensitive values replaced; accounts and settlements bounded |

*Why the bounds are enough.* Five requests over two slots pass the end of the ring
twice, so that slots are reused while an earlier lap is in hand, and exceed the bound
on the overshoot by two if it were wrong. Two loads and two dispatches between them make
the difference of the full check wrap. One slot and two requests reuse the slot,
which is what half-written contents need, and the two requests may be the same
payload twice; one update changes a key and the mode between any two getters. The clock of `AntiReplay` runs past two windows. Two
charges are what an earlier one overtaking a later one takes, first attempts fail and
second ones succeed, and the delays keep the order of 5, 15, 60 and 300 seconds. Three
connections fill a queue of two while one thread is busy, one base thread and two names
for the dynamic one let it time out, be joined and be started again, and two requests
are what a connection needs to go on after one. The costs
include one that no bucket can serve. Two threads and five calls are a target added,
switched and removed around two forwards, three accounts asked for at once, or three
payments expected and two cycles; the documents have a sensitive field first, last and
next to another, as text, empty, number and with an escaped quote, and texts cut at
each of the last three tokens. The proofs remove these bounds for the theorems they cover.

*Fairness.* `FairSpec` has weak fairness of the crypto worker's steps, of
the dispatcher's and of each producer's: they are threads in endless loops on a
preemptive scheduler (`main.cpp` starts them and never stops them), and an
`enqueue` that began runs to its end. Arrival of requests is not fair. `LockSlot` is
a spin that need not succeed, and fairness does not say it does. In `DunningEngine`
time passes, the worker and begun calls go on, and a mutex that is released again and
again is not withheld from a caller for ever (strong fairness of `Push`: spurious
wake-ups would otherwise let the worker keep it); nobody need call, and spurious
wake-ups are not fair. In `HttpServer` the listener's own steps, a begun `stop` and each
worker are weakly fair (the engine's handlers take no lock for longer than a setter,
and reading and writing a request have time limits); that a client connects, that
`accept` returns or fails, that a dynamic thread times out or a wait ends early is not.

*Deadlock.* `CHECK_DEADLOCK FALSE` where a bound on requests or time ends the run.

## 4. Findings

1. **A slot is dispatched on no verification of its own** (`ring_unverified`).
   `main.cpp:16` says the slot "passed all security checks". A slot reads WRITTEN while
   its very first request is still being copied and its `slot_id` is still the 0 of
   `transaction_slot.hpp:19`. The worker may approve it; `mark_dispatched(0)` empties slot 0
   instead, the tail advances and the approved slot stays PROCESSING. If its producer is
   still in the copy when the dispatcher comes round, while another producer holds that
   position and spins on the slot, it is dispatched again. The theorems bound this: it
   takes two HTTP threads (`OneProducerIsVerified`), happens only in the first laps of the
   ring and at most `Capacity * (threads - 1)` times (`UnverifiedDispatchesAreBounded`).
2. **A rejection at the tail stops the dispatcher** (`ring_wedge`). `main.cpp:11` says
   it drains what the worker approves; `dequeue_for_processing` looks only at the tail
   and never passes an EMPTY slot. With one HTTP thread that is for ever
   (`WedgeIsForever`); with several, until one claims beyond the capacity
   (`WedgeLastsWithinCapacity`).
3. **A request is blocked as its own replay** (`pipeline_selfreplay`).
   `enqueue` stores WRITTEN before and after the copy; the worker may verify the slot
   twice and finds its own hash the second time.
Noted while modelling, without a run of its own:

- With the two crypto threads that `constants.hpp:24` and `config.cpp:51` provide for,
  the time of `insert_and_check` is read before the mutex is taken, and an older time
  may make the unsigned age wrap. `main` starts one worker; the theorems about the
  ledger hold for one thread, and for more if they get the mutex in the order of their
  times.
- `ring_buffer.cpp:40` speaks of the "locked memory slot", but the slot can be approved,
  dispatched or rejected while its producer is still copying, and then a second producer
  locks it: two of them copy into one slot at once. TLC finds this with two producers, two
  slots and three requests; with one producer it cannot happen.
- `SETTLED` does not mean paid in full: the tolerance accepts each installment up to one
  unit short (`subscription_manager.cpp:163`). `CollectedNearDue` bounds the sum.
- Two threads that ask for one student's account at once each draw one, and the first is
  forgotten, although `FULL_DOCUMENTATION.md:41` calls the accounts "persistent".
  `AccountsPerStudent` bounds it.
- Every reconciliation cycle fetches the same three deposits, and nothing marks a deposit
  as used: in each cycle it may settle one more payment of its amount.
- `forward` with all targets disabled answers false and logs nothing, unlike a refusal.

## 5. What is proved

- `RingBufferProofs`: for every capacity and all finite sets of producers and
  verifiers. `TypeCorrect` is inductive alone. `TailNeverOvertakes` needs more: the
  dispatcher is past `Dequeue` only while the head is ahead of the tail, and the head
  only grows. `OvershootIsBounded` counts the producers whose snapshots still allow a
  claim: each claim uses one such licence, and the tail of a snapshot is never ahead
  of the real one. `PositionsAreDistinct` holds because claimed positions are below
  the head and each claim takes the head itself. `CountersAreExact` counts claims
  by cardinality. `RefusalsAreForWantOfRoom` (`RefusedOnlyIfFull`) rests on the same
  snapshots as the overshoot: neither load is ahead of its counter, so a difference that
  reaches the capacity, or wraps, means that the ring is full or that the tail has moved.
  `DispatchFreesItsSlot` rests on `SlotIdInv`: a slot whose `slot_id` is not its own has
  the initial 0, and is `Fresh`, each of its positions so far still held by the producer
  that claimed it. Different positions are held by different producers, so a fresh slot has
  come round at most once for each of them (`FreshIsEarly`, an injection from laps to
  producers): beyond the first laps every slot is freed by its own id.
  `UnverifiedDispatchesAreBounded` keeps accounts (`PaidInv`): the positions taken and the
  approved slots still waiting (`Due`) are at most the approvals given and an `Excess`
  that grows only while a fresh slot may come round again. An approval stops counting when the
  dispatcher is about to empty its slot or has gone past it while it is fresh. For one
  producer the excess is nothing, which is `OneProducerIsVerified`: the statement that
  `ring_unverified` refutes for two.
  `WedgeLastsWithinCapacity` and `WedgeIsForever` are action properties: with the slot at
  the tail EMPTY and in nobody's hand, no step but a claim beyond the capacity leads out,
  and with one producer the occupancy bound excludes that claim.
- `PipelineProofs`: every step of the pipeline is a step of the ring or leaves it
  unchanged (`PipelineIsRing`), so the ring's theorems hold of the pipeline;
  `PipelineOccupancyIsBounded` is one of them cited through the refinement.
  `PassedIsSigned` needs `KeyInv`: a key once set is never emptied again, and whatever a
  getter returned is among the keys held since the verification began.
  `ApprovalsAreLicensed` is an invariant of its own, for any producers and verifiers: every
  licence (a hash taken as new, or a look at the open shield) is spent on one approval,
  given or yet to be given by the verifier that got it (`LicenceInv`). Together with the
  ring's accounts, carried over by the refinement, it gives `UnlicensedIsBounded` for any
  number of producers and `DispatchesAreLicensed` (`DispatchedWasNew`) for one, whatever the
  capacity and the number of verifiers. The pipeline's runs have one slot and one producer:
  the other cases are reached by the theorems only.
- `AntiReplayProofs`: the table is exactly the youngest acceptance of each hash that
  eviction may not forget yet, and no decision still to come is taken at a time older than
  the table (`TableInv`); from this invariant every step maps to a step of `ReplayWindow`
  or to a stutter. It is inductive under one condition on the steps, `InOrder`: the calls
  get the mutex in the order in which they read the clock. Under it
  `OrderedLedgerImplementsWindow` and `OrderedAcceptancesApart` hold for any number of
  threads, so reading the clock under the mutex would be enough for the two threads that
  the configuration provides for. The code does not ensure it, and one thread, as `main`
  starts it, does (`OneThreadInOrder`): the serial theorems follow. `LedgerTyped` needs no
  such condition.
- `SubscriptionsProofs`: the agreement of plan and subscription is inductive with the
  type; `CollectedStaysNearDue` adds that each payment moves both sides by at most the
  tolerance; `TerminalSubscriptionsStay` is an action property from the same invariant.

- `DunningProofs`: typing and conservation are one inductive invariant (with at most one
  charge in hand). `NoRetryIsEarly` needs `DelayInv`: what a charge has waited and what
  is left make up its delay. `NoWakeUpIsLost` needs `SeesAll`: while the worker holds
  the mutex it has seen the whole queue, whatever notifications are still on their way.
  Three action properties are the safety halves of the liveness properties TLC checks.
  After `running_` is cleared each step of the worker lowers what is left of its round
  (`StoppingRunsOut`, for `StopsWithWorkLeft`). A stop whose notification fell between the
  worker's test and its wait is ended only by another call of `schedule_retry` or a
  spurious wake-up (`ForgottenStopWaits`), which is why `StopsWithWorkLeft` asks for work.
  And no step puts a charge further from its recovery (`ChargesGetOn`, for
  `EveryChargeRecovered`).
- `HttpServerProofs`: `TypeInv` is the type, the exact idle count and the order of the
  shutdown, inductive together. `NoWakeUpLost` follows from it: while a connection is
  queued and nobody is up, the notification is still to come. `PoolStaysBounded` counts
  alive and unjoined threads, where the join of `Spawn` pays for the thread it starts.
  `OneOwner` (a connection is with `listen`, in the queue or with one worker) carries
  `UntoldIsTheLast` and the refinement `ServerIsService`: each step changes the phase of
  one connection as `ConnectionService` allows, or none.
  The end of `listen` is a liveness property and stays with TLC, but what makes it true is
  proved: the joins wait for nobody who sleeps (`JoinWaitsForNoSleeper`), every step of a
  worker during them shortens the queue or what that worker has ahead of it, and nothing is
  added (`JoinAlwaysGetsOn`), and afterwards no thread and no job is left
  (`ListenReturnsDrained`). Likewise for `AcceptedIsClosed`: no later connection, new thread
  or stop puts an accepted one back in the queue, and a worker that has one keeps it with
  less and less ahead of it until it closes it (`NoConnectionIsPutBack`).
- `TokenBucketProofs`: the invariant is that debt and tokens available now are together at
  most one bucket and one more per setting of the clock, and exactly one bucket as long as
  the clock has not been set; the refill of a query moves
  neither. Arithmetic of the unsigned difference is in `ElapsedIsNat` and `AvailIs`.
- `ServicesProofs`: one thread at most is inside `forward` (`Alone`), its place tells what
  of its transaction was sent (`Whereabouts`), and what nobody forwards and has no answer
  was not sent (`Untouched`); from these `ForwardAnswersTruly` and `ForwardsWhileOn`.
  `FewAccounts` counts the accounts given together with the threads about to cache one.
  `SettlesByDeposits` follows one deposit at a time (`MatchCounts`): it settles one more
  payment of its own reference and amount, or none. `AccountsBecomeFinal` is what is left of
  "persistent": once a student has an account, nobody draws another for him, and it only
  changes to that of a caller who had drawn his before.

  The rest of the module is about the sanitizer. `ScanFindsClosingQuote`: for any text and
  any place in it, the scan that jumps two at a backslash stops right behind the first quote
  that an even number of backslashes stands before, if there is one. `RedactsField`: one
  pass over the text of any flat document replaces the values of its field and nothing
  else; the next pass finds a flat document again. `SanitizesDocument` puts the passes, the
  validation and the trimming together: an acceptable document becomes `Cleaned` of itself,
  any other is refused. The argument follows the text: `Layout` says where each field
  stands, so that the search from the end of one value finds the next field of that name
  and never a word inside a value; it is here that `IsFlat` is needed.
  `ThrowsOnlyOnEscapedEnd` is about any text at all, flat document or not: `substr` can
  throw only if the trimmed text ends in a backslash. With `Holds` (the text of a forward
  under way is what `Sanitize` made of its document) these give `LeavesCleaned`, that
  whatever is sent is the document with exactly its sensitive values replaced. The recursive
  functions are reasoned about without the library's induction theorems: the induction runs
  over the finite set of places from one end of the text or of the document to the other
  (`Upward`, `Downward`: a set of numbers that has the first and with each its neighbour is
  all of them), and for the fold over characters over its prefixes.

Only model-checked: liveness (`WrittenGetsVerdict`, `EveryChargeRecovered`,
`StopsWithWorkLeft`, `AcceptedIsClosed`, `StopEndsListen`: temporal properties under
fairness are out of the prover's reach) and the refutations. `DispatchedWasNew` is proved for one
producer, the only case it is claimed for. What is proved and is no property of a run was
checked with TLC before: `CountersAgree`, `SlotIdInv`, `FreshIsEarly`, `PaidInv`, `FreesWhatItDispatched` and
`UnverifiedBounded` on 2 producers, 2 slots and 5 requests, on 3 producers and 4 requests,
on 4 slots and 5 requests, and on 2 verifiers and 3 requests. The assumptions are those
named in the modules; TLC evaluates them on every run. `VerifiersAssumption` is one: the
set of verifier threads is finite.

## 6. Not modelled, and what is left

- `WorkerPool` is not part of the program: `CMakeLists.txt:9-30` does not list it and
  `main.cpp` starts its threads itself.
- Of `httplib.h` only `listen`, `stop`, the thread pool and the keep-alive loop are modelled.
  It is vendored code of 20724 lines, more than five sixths of the implementation; most of it is
  parsing, TLS, the client, streaming and web sockets, which the engine does not use.
  That is why the modelled lines are a small share of all lines, while nearly all the
  engine's own code that keeps state is modelled.
- Bit-level hashing and HMAC (taken as injective), the card tokenizer (stateless string
  work), logging, the GET routes (they only read), `configure` and the callbacks of the
  EventLedger (called by nobody), the log file (read by nobody).
- The UI's `WSClient` is imported by no page and has no server; the UI's pages, the control
  API's fixtures and the simulators keep no state the engine depends on.
- The empty files.
- Small things within what is modelled: `get_telemetry`, which only displays what it read;
  the `insert_and_check` that takes a time, called by `test_anti_replay.cpp` alone; the
  assertion at `httplib.h:11462`, which a second `stop` would meet in builds without
  `NDEBUG`; a `std::thread` that cannot be started (`httplib.h:10366-10372`); negative
  arguments of `try_acquire`, which no caller passes.

Left to do: a clock that is set in `AntiReplay`, with what the ledger then still
promises; weaker memory orders in `RingBuffer`.
