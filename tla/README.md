# Payment gateway: verification project

TLA+ modules for the payment service of this repository (`src/`), the TLC
configurations that check them on small instances, and TLAPS proofs of what
holds for every instance. Line references are to `src/src/`.

## 1. The system

One Node.js process serves an HTTP API over MongoDB and charges payments through
a (simulated) gateway. All its code runs in one event loop: the code between two
`await`s is atomic, and everything else interleaves.

| Part | Source | State | Operations |
|---|---|---|---|
| payment collection | `models/payment.model.ts`, `types/index.ts` | one document per payment (MongoDB, survives crashes) | conditional and unconditional updates of one document, `updateMany`, `find` |
| payment service | `services/payment.service.ts` | none | `createPayment`, `retryFailedPayment` (both write, then enqueue), `getPayment`, `listPayments` |
| retry queue | `queues/retry.queue.ts` | `jobs`, `processing`, `running` (memory) | `start`, `stop`, `enqueue`, `tick`, `processJob`, `scheduleRetry` |
| webhook service | `services/webhook.service.ts` | none between requests | `handleWebhookCallback`: read, check the transition, update if the status has not moved |
| gateway service | `services/gateway.service.ts` | none | `chargePayment`: never rejects, resolves with success or failure |
| circuit breaker | `services/circuit-breaker.service.ts` | `state`, `failureCount`, `halfOpenCalls`, `lastFailureTime` (memory) | `execute`, `onSuccess`, `onFailure`, `reset` |
| idempotency middleware | `middleware/idempotency.middleware.ts`, `models/idempotency.model.ts` | key records (MongoDB, with a TTL) | lookup, replay, storing of the response |
| server | `app.ts` | the process itself | recovery of stuck payments, start, graceful shutdown |
| controllers, routes, rate limiters, configuration, logger | `controllers`, `routes`, `middleware/rate-limiter.ts`, `config`, `utils` | counters of `express-rate-limit` | validation, status codes, wiring |

How they interact. `POST /api/payments` passes the rate limiter and the
idempotency middleware, writes a PENDING document and pushes an entry on the
queue. Every 500 ms the tick removes the due entries whose payment is not in the
processing set and starts a `processJob` for each. `processJob` claims the
payment (PENDING -> PROCESSING, atomic in MongoDB), charges it through the
breaker, and writes SUCCESS, or FAILED, or PENDING with a backoff and a new
entry. Webhooks and manual retries write the same documents at any time. At
startup, payments left PROCESSING are put back to PENDING and enqueued.

What is hard here, and tests do not reach:

- the worker reads a payment, awaits the gateway and writes back: webhooks,
  manual retries and other workers come in between, and the write of a success
  has no status filter;
- the webhook reads, checks and then writes;
- the `processing` set is volatile, is filled after the tick's filter, and is
  emptied by the `finally` of whichever worker ends first;
- duplicate queue entries, since `scheduleRetry` enqueues whether or not its
  update matched;
- crashes, shutdowns and rejected MongoDB calls (applied or not) at every await,
  and a recovery that itself may be cut short;
- breaker calls that settle in a later state than the one that admitted them;
- the breaker is one for all workers and dies with the process, in whatever state
  and with whatever calls in flight;
- idempotent requests that race each other, their record and its loss;
- a client that pages through a list that grows under it.

`PROJECT.json` lists each of these at its line, with the properties that would
notice it going wrong.

What makes each part correct: a success is never taken back and is backed by a
capture; a payment is never stuck PROCESSING, blocked in the processing set or
forgotten PENDING; the attempts stay within the limit; one worker at a time
holds a payment; every payment is eventually settled; the breaker is open
exactly when it should be, probes within its limit and is never stuck half open;
a key's record holds the one answer given for that key.

## 2. Modules

| Module | Models | EXTENDS |
|---|---|---|
| `PaymentStore` | the collection and the update calls | |
| `RetryQueue` | entries, tick, `processJob`, `scheduleRetry`, rejected updates | `PaymentStore` |
| `PaymentService` | creation and manual retry | `RetryQueue` |
| `WebhookService` | status callbacks | `PaymentStore` |
| `PaymentGateway` | the process (startup, recovery, shutdown, crash) and the composition; its properties | `PaymentService`, `WebhookService` |
| `PaymentLifecycle` | abstract specification: statuses and captures only | |
| `PaymentAttempts` | abstract specification: the attempts at a payment, with no queue, worker or timer | |
| `GatewayService` | `chargePayment`: a worker's charge through the breaker | `RetryQueue`; INSTANCE of `CircuitBreaker` |
| `PaymentSystem` | the server whose workers charge through `GatewayService` | `PaymentGateway`, `GatewayService` |
| `PaymentListing` | `listPayments` under a client that walks through its pages | |
| `PaymentGatewayProofs` | theorems about `PaymentGateway` | `PaymentGateway`, `TLAPS` |
| `QueueProofs` | theorems about the entries of the queue in `PaymentGateway` | `PaymentGatewayProofs` |
| `AttemptsProofs` | `PaymentGateway` implements `PaymentAttempts` | `QueueProofs` |
| `PaymentSystemProofs` | theorems about `PaymentSystem` | `PaymentSystem`, `QueueProofs`; INSTANCE of `CircuitBreakerProofs` |
| `PaymentListingProofs` | theorems about `PaymentListing` | `PaymentListing`, `TLAPS` |
| `CircuitBreaker` | the breaker with overlapping calls | |
| `CircuitBreakerProofs` | theorems about `CircuitBreaker` | `CircuitBreaker`, `TLAPS` |
| `Idempotency` | the middleware around a creation | |
| `IdempotencyProofs` | theorems about `Idempotency` | `Idempotency`, `TLAPS` |
| `MC...` | symmetry sets for TLC | the module named |

### State and code

- `payments[p]` is the document: `status` (ABSENT before creation),
  `retryCount`, `nextRetryAt` as unset / backoff / recovery, `transactionId` as
  unset / from the gateway / from a webhook. These are the fields a filter, a
  guard or a property reads.
- A slot `job[j]` follows one queue entry through its life: `enqueueing` is a
  handler between its write and `enqueue`; `delayed` and `due` are entries of
  `this.jobs`; `claiming`, `charging`, `succeeded`, `failing`, `catching`,
  `requeueing`, `returning` are the awaits of the `processJob` call the tick
  made of it. `Jobs` therefore bounds the entries and calls alive at one time; a
  payment may have many.
- `processing` and `running` are the fields of the class.
- `charges[p]` counts the gateway's captures (saturated at 2). The program has no
  such variable; it is the gateway's own knowledge, against which the records are
  judged.
- `hook[h]` is a webhook request between `findById` and its update.
- `server` is down / recovering / up / stopping.

A MongoDB call takes effect in the step that follows the await, at any moment
while the call is in flight. Backoff delays elapse at any moment: the arithmetic
of `baseDelay * 2^(n-1)` is abstracted to "later". An `undefined` in a `$set` is
dropped by mongoose, so `nextRetryAt: undefined` of the manual retry leaves the
old date in place, as `SetDefined` says.

`Faults` selects what may go wrong: `crash` (the process dies between two steps;
memory and requests are lost, MongoDB and the gateway keep their state),
`shutdown` (SIGTERM: the tick stops, requests in flight are answered, workers are
not waited for), `dbError` (a MongoDB call rejects with its write applied or not;
inside the `try` the `catch` reschedules, elsewhere in `processJob` the promise
of the tick has no handler and the process ends).

In `CircuitBreaker`, an admitted call is `closed` or `probe` according to the
state that admitted it, and becomes `stale` when a later HALF_OPEN period begins;
it settles at any time later. `elapsed` stands for the comparison of `Date.now()`
with `lastFailureTime + recoveryTimeout`.

`GatewayService` splits the charge of `RetryQueue` in two. A slot at `charging`
whose `call` is idle comes to `execute` next: it is admitted (`Admitted`) or
thrown out (`Rejected`, a failed charge at once). An admitted call settles as a
capture (`Approved`), a decline (`Declined`, which resolves and so is a success for
the breaker) or a timeout (`TimedOut`). The simulated gateway draws its outcome
before either timer starts, so a call that times out is never captured too: the
race of the two timers only decides when the call rejects. `PaymentSystem` takes
every other step from `PaymentGateway` (`ServerStep`), gives each process a new
breaker when the old one ends (`BreakerStep`), and lets the recovery timeout elapse
at any moment (`Clock`). `capturesKept` is history: the payments that were captured,
less those whose worker died between the capture and its record. `asked` counts the
calls of the gateway for a payment since its budget of attempts began, or the process.

In `Idempotency` a payment is named by its order of creation; `answered` and a
request's `arrival` are history, there only for the properties. Every call of
MongoDB may reject there, the write of the payment or of the record applied or not.

In `PaymentListing` `createdAt` is the date the server gives a document and `stored`
the set of documents that have arrived, which may be in another order than the
dates. `Find` and `Count` are the two queries of one request; the find takes any of
the orders the sort on `createdAt` allows among payments of the same date. The client is
external: it asks for page after page with one limit, from page 0 or 1 (the controller
makes both 1), and stops at a page that is not full or at the total. `LimitNum` is what
the controller makes of the limit, and `PageSize` the limit in force: the response names
it, and the client goes by it.
`known` and `got` are its history.

## 3. Runs

| Run | Question | Bounds |
|---|---|---|
| `gateway_faults` | What survives every fault with any webhook: types and budget, no stranded PROCESSING payment, none blocked, a gateway identifier only for a captured success, success final, the ways a PENDING payment can be forgotten or a payment get a second entry, and the refinement of `PaymentLifecycle` | 1 payment, 3 slots, 1 webhook, 2 attempts |
| `gateway_restart` | The composition with the breaker, without webhooks, through crashes and shutdowns: one worker per payment, a queue that agrees with the collection, no charge except of a PROCESSING payment, no second capture unless the first was lost with its process, captures recorded, the gateway asked within the budget, a HALF_OPEN breaker that waits for a living worker, and the refinement of `PaymentAttempts` | 2 payments, 3 slots, 2 attempts, threshold 2, 1 probe |
| `gateway_nominal` | While the process lives: no PENDING payment without an entry, no capture off the record | 1 payment, 3 slots, 2 webhooks |
| `gateway_liveness` | Every payment is eventually settled | 1 payment, 3 slots, 1 webhook |
| `breaker` | Counters, state and calls in flight agree; HALF_OPEN is always decided; an outage that is over ends | 4 calls, threshold 3, 2 probes |
| `idempotency` | Records hold creations of their key, do not change, and stop later requests | 2 keys, 3 requests, 3 creations |
| `listing` | A walk through the pages that ends was shown every payment it began with | 5 payments, pages of 2 (limit 3 of at most 2), 4 dates |
| `gateway_terminal`, `gateway_concurrent`, `gateway_recovery`, `breaker_open`, `idempotency_repeat` | findings, section 5 | smallest instance that shows them |

Why the bounds are enough. Payments touch each other only through the tick,
the recovery and the breaker, which treat them uniformly, so one payment with several slots shows
the races on a document, and two payments show all three working
on more than one. Three slots give two workers of one payment and a further entry
or request. Two attempts give a retried and an exhausted failure. One webhook at
a time races every step of a worker; two race each other. The gateway's safety
properties that survive faults are also proved for all bounds (section 4). In the
breaker, four calls exceed both limits, so late failures, late successes and
stale probes overlap. In `Idempotency` three requests race on one key while
another key has its own. In
`gateway_restart` three workers face a threshold of 2 and one probe, so a late call of
an earlier period, a probe and a rejected worker exist at once, and each payment
can be retried, exhausted and retried by hand. In `listing` five payments fill two
pages and start a third, so payments stored between two requests push others over
both page borders, and four dates leave room for ties. `Capped` and `Counted` saturate counters above the value
any guard or property tells apart; `MaxCreated` bounds creations.

No two entries of a payment, and no worker whose payment another has taken over, can
occur in `gateway_restart`, where nothing settles a payment but its worker: that is what
`QueueMatchesStore` says, and `AtMostOneProcessing` and `CaptureWhileProcessing` are its
corollaries for those who read the comment of `RetryQueue` or pay the gateway. Stale workers
and duplicate entries are the matter of `gateway_faults`, `gateway_nominal` and
`gateway_concurrent`. No property forbids the loss of a payment whose request was not
acknowledged: the code does nothing about it, and `ForgottenOnlyByFaults` names it as an exception.

Deadlock is checked except where `Faults = {}`: there the process never ends, and
once every payment has succeeded and nobody sends a request the system rightly
has nothing to do.

Fairness. `gateway_liveness` assumes weak fairness of startup, of the tick, of
each slot's next step and of each webhook's pending update: the event loop runs
every continuation and timer, and MongoDB and the gateway (whose calls carry a
timeout) answer. Nobody is obliged to send a request, a webhook or a manual retry,
and the gateway is not obliged to approve. `breaker` assumes that each admitted
call settles and that the clock goes on (`TimeoutElapses`); nobody has to make a
call, and `reset` is under no fairness. `OutageEnds` names its premises in the
property: from some point on no call fails, and calls go on being made whenever the
breaker would let one through.

Liveness is claimed only with no faults: with a crash, a PENDING payment is
really forgotten (section 5).

## 4. Proofs

`PaymentGatewayProofs` proves, for any `Payments`, `Jobs`, `Hooks`,
`MaxAttempts \in Nat \ {0}` and any subset of the faults:

| Theorem | Property |
|---|---|
| `TypeCorrect` | `TypeOK` |
| `BudgetKept` | `RetryBudget` |
| `NotStranded` | `NoStrandedProcessing` |
| `NotBlocked` | `NoBlockedPayment` |
| `GatewayIdCaptured` | `GatewayIdMeansCaptured` |
| `SuccessStays` | `SuccessIsFinal` |
| `Refinement` | `ImplementsLifecycle` |
| `PendingNotLost` | `NoLostPending`, if `Faults = {}` |
| `ChargesRecorded` | `ChargeRecorded`, if `Faults = {}` |

The assumptions are those named in the modules (`MaxAttemptsAssumption`,
`NoPaymentAssumption`, `FaultsAssumption`), which TLC evaluates on every run.

The argument. First come lemmas on what each write makes of a document (`...Effect`)
and what each step makes of a slot (`Moves`). `TypeInv` strengthens `TypeOK`:
the attempt a claim computes is `retryCount + 1`, which is in range only because a
PENDING payment has an attempt left, so `RetryBudget` is part of it; a used slot
names a payment that exists (else a stale worker could write to a document that
is not there); and no slot is used while the process is down. Stranding: whoever
leaves a payment unfinished has taken it out of PROCESSING, and a new process
takes all out before it serves anything. `CaptureInv` adds that a worker at
`succeeded` holds a captured payment. `DocumentStep` then sums up what any step
can make of one document: nothing, a write to a payment that has not succeeded
that stores no gateway identifier, or the record of a captured success. The
theorems on captures and on success follow from it. The refinement maps
`status` and `captured` and shows that each step of the server is one step of the
lifecycle or changes neither.

The last two hold only without faults, which is how their run is made (`gateway_recovery`
and `ForgottenOnlyByFaults` say what faults break). `QuietInv` says that without faults a process that
started never ends, which leaves five kinds of step (`QuietStep`) to look at.

`QueueProofs` proves what the entries of the queue are worth:

| Theorem | Property |
|---|---|
| `ForgottenByFaultsOnly` | `ForgottenOnlyByFaults` |
| `SecondEntryByRetry` | `CrowdedOnlyByRetry` |
| `OneWorkerWithoutRetry` | `AtMostOneProcessing`, if no step is a manual retry (`[][NoRetry]_vars`) |
| `QueueAndStoreAgree` | `QueueMatchesStore`, if `Hooks = {}` and `"dbError" \notin Faults` |
| `OneWorkerPerPayment` | `AtMostOneProcessing`, under the same conditions |
| `CapturesProcessing` | `CaptureWhileProcessing`, under the same conditions |

The first three hold under every fault and any webhooks. They locate two of the
findings: a PENDING payment is forgotten by the end of its process or by a request
that was not acknowledged, never by a step of the running queue; and without manual
retries no payment ever gets a second entry, so the guarantee of the comment of
`RetryQueue` holds. Both are proved of single steps. A step that leaves a payment PENDING
leaves it somebody to serve it (`Serves`): `scheduleRetry` enqueues whether or not its
update matched, and a rejected update of a worker ends in `catching`, which schedules
again, or with the process. A slot comes into use only by a request, or by a recovery
that starts from an empty queue; a creation finds no document and so no other entry,
which leaves the retry.

`QueueMatchesStore` is inductive as it stands, but only as a whole. An entry that
waits has a PENDING payment (`EntriesMatch`) because nobody claims that payment before it,
which takes `OneEntryEach`; a new entry is the only one because the request that made it
found a payment that was ABSENT or FAILED, for which `EntriesMatch` leaves no entry; and the
`finally` of a call takes its payment out of the processing set (`CallsInSet`)
without unblocking another call because the tick started no second one. A worker that
holds a payment therefore holds it PROCESSING, alone, with the attempt that comes next
(`HeldInv`).

`AttemptsProofs` proves `AttemptsRefinement` (`ImplementsAttempts`, under the same
conditions): what the clients and the gateway see of a payment is `PaymentAttempts`. The
mapping takes the status, or `CAPTURED` for a payment whose worker is at `succeeded`,
and the retry count. By `QueueMatchesStore` the worker that makes a step is the only one
of its payment, with the count it read still in place; so each write of a worker is one
step of the attempts, the end of the process is `Forget`, and ticks, timers, enqueueing
and duplicate work are stutters. The conditions are needed: a webhook settles a payment
between two attempts, and a rejected record of a success becomes a retry.

`CircuitBreakerProofs` proves, for any thresholds above 0 and any finite set of
overlapping calls, `BreakerTypeCorrect` (`TypeOK`), `OpensAtThreshold`
(`OpenIffThreshold`), `ProbesLimited` (`ProbeLimit`) and `HalfOpenIsProbed`
(`HalfOpenHasProbe`). The four are inductive only together: the limit test reads
the counter, the counter equals the number of probes in flight because no probe
settles without ending the HALF_OPEN period, and an OPEN breaker that admits a
call starts a new period in which that call is the only probe.

`PaymentSystemProofs` first shows that the composition is `PaymentGateway` seen from
the payments (`SystemIsGateway`) and `CircuitBreaker` seen from the breaker
(`SystemIsBreaker`), so that every theorem about the two holds of it; what
`CircuitBreakerProofs` shows is used through an INSTANCE with one call per slot.
Then what neither says of the other:

| Theorem | Property |
|---|---|
| `SystemTypeCorrect` | `SystemTypeOK` |
| `HalfOpenCharges` | `HalfOpenIsCharging`, if `Hooks = {}` and `"dbError" \notin Faults` |
| `CapturesRecorded` | `KeptCapturesRecorded`, if `"dbError" \notin Faults` |
| `ChargedOnceUnlessLost` | `CapturedAgainOnlyIfLost`, if `Hooks = {}` and `"dbError" \notin Faults` |
| `GatewayAskedWithinBudget` | `AskedWithinBudget`, under the same conditions |

`SystemInv` says that only slots at `charging` have a call in flight: the server
leaves them alone (`StillCharging`) or ends, and then the breaker is new.
`KeptCapturesRecorded` is inductive with the invariants of the queue: a worker at
`succeeded` writes its record whatever the status, and a SUCCESS with the gateway's
identifier is never written over. A payment captured and not lost is then a SUCCESS,
or has a worker at `succeeded`; by `HeldInv` that worker holds it alone, so nobody else
can charge it. `AskedInv` bounds the calls of the gateway by the attempts: the calls made for
an unfinished payment are at most its failures on record, or, while a worker has asked and not
written the outcome (`Spent`), at most the attempt of that worker (`Fits`). A claim finds the
count of the document in place, a failed charge is written with its attempt, and a manual
retry starts both from nothing. The assumptions are `JobsAssumption` (a finite set of slots, for the
counting of probes) and the two thresholds above 0.

`IdempotencyProofs` proves, for any keys, requests and `MaxCreated \in Nat`,
`IdempotencyTypeCorrect` (`TypeOK`), `ReplaysItsCreation` (`RecordHoldsCreation`),
`RecordStopsRepetition` (`RecordedNeverCreates`) and `RecordsAreStable`
(`RecordIsStable`). `StoringInv` is what makes them inductive: a request that is
about to store carries a payment created with its own key. `ArrivalInv` ties the
history to the record: a request that met one still has it in front of it.

`PaymentListingProofs` proves, for any finite set of payments and any limit asked for,
`ListingTypeCorrect` (`TypeOK`), `WalkComplete` (`ShortPageEndsWalk`) and
`TotalComplete` (`TotalEndsWalk`). `WalkInv` says that a payment the client was not
shown stands beyond what the walk has been through: at least as many newer payments
as it passed are stored (`Newer`, `Passed`). A payment stored meanwhile can only add
to them. A page that is not full ends the collection (`LastPageInv`), so nothing stands beyond
it; the total, as long as it is right, says the same of the pages seen.

Only model-checked: liveness (`EventuallySettled`, `HalfOpenDecided`, `OutageEnds`),
which is outside the prover's reach.

## 5. Findings

Each is a run with one property, taken from the repository's own words, that TLC
violates.

1. `gateway_terminal`: README "Terminal states (SUCCESS, FAILED) cannot be
   overwritten by further webhooks or queue processing." A success is written by
   `findByIdAndUpdate` with no status filter (`queues/retry.queue.ts:85`), over a
   FAILED that a webhook wrote meanwhile.
2. `gateway_concurrent`: "at-most-one concurrent processing per payment"
   (`queues/retry.queue.ts:14`). A FAILED webhook and a manual retry while a
   charge is in flight give the payment a second worker; two due entries of one
   payment pass one tick's filter, and the first `finally` empties the set.
3. `gateway_recovery`: "Reset them to PENDING so the queue re-processes them on
   startup" (`app.ts:46`). A second crash before they are claimed leaves them
   PENDING, and the next startup resets nothing and so looks for nothing.
4. `breaker_open`: OPEN closes only through HALF_OPEN (README, circuit breaker).
   A call admitted while CLOSED that succeeds late closes an OPEN breaker.
5. `idempotency_repeat`: "Any repeated request with the same key returns the
   original HTTP status and body without touching the payment or queue." The
   record is stored after the response was sent and is not awaited.

## 6. Not modelled

- The values of backoff delays and dates, amounts, currencies, gateway error
  texts: no guard reads them.
- Status codes and validation messages of the controllers, `getPayment` and
  `getHealth` (one read each), routes, API docs, configuration and logger.
- The rate limiters: two configurations of `express-rate-limit`. The windows and
  counters are the package's, and nothing else in the program reads them.
- Walks through `listPayments` with a status filter, or among payments of the same
  `createdAt`: payments leave such a list or have no order, and the code promises
  nothing about them.
- A gateway that captures a charge its client gave up: the simulated gateway never
  does, and a real one is not in the repository.

## 7. Plan

Done: everything in section 2, with the theorems of section 4. What is left, and what it
would add:

1. `EventuallySettled` in `PaymentSystem`, with fairness for each call of the gateway:
   that an open breaker lets attempts run out and so never keeps a payment from
   settling. `gateway_liveness` shows it for any outcomes of a charge.
2. One key, one queue entry: `Idempotency` composed with `PaymentService`, so that the
   second payment of a repetition is followed into the queue.
3. `Backoff`: the delay as a function of the attempt, with the dates that the recovery
   compares, instead of "later".
