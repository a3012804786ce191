--------------------------- MODULE PaymentGateway ---------------------------
(***************************************************************************)
(* src/app.ts: the server process that runs the HTTP handlers and the      *)
(* retry queue in one event loop over MongoDB, its startup with the        *)
(* recovery of stuck payments, its graceful shutdown and its crash. This   *)
(* module composes PaymentService (and with it RetryQueue) and             *)
(* WebhookService over the collection of PaymentStore.                     *)
(***************************************************************************)
EXTENDS PaymentService, WebhookService

CONSTANT Faults     \* the faults that may happen

\* crash     the process dies between two steps
\* shutdown  SIGTERM or SIGINT
\* dbError   a MongoDB call rejects, its write applied or not
ASSUME FaultsAssumption == Faults \subseteq {"crash", "shutdown", "dbError"}

VARIABLE server

\* down        no process
\* recovering  recoverStuckPayments awaits the find of the stuck payments
\* up          listening
\* stopping    server.close() waits for the requests in flight
ServerState == {"down", "recovering", "up", "stopping"}

vars == <<payments, job, processing, running, charges, hook, server>>

TypeOK ==
    /\ payments \in [Payments -> Document]
    /\ job \in [Jobs -> JobState]
    /\ processing \subseteq Payments
    /\ running \in BOOLEAN
    /\ charges \in [Payments -> 0..2]
    /\ hook \in [Hooks -> HookState]
    /\ server \in ServerState

Init ==
    /\ StoreInit
    /\ QueueInit
    /\ HookInit
    /\ server = "down"

-----------------------------------------------------------------------------
(* Startup: recoverStuckPayments, then retryQueue.start() and app.listen(). *)

\* Only payments that were put back by a retry before are looked for.
MutantStuck == {p \in Payments : payments[p].status = "PROCESSING" /\ payments[p].nextRetryAt # "unset"}

Stuck == {p \in Payments : payments[p].status = "PROCESSING"}

\* updateMany
Recovered ==
    [p \in Payments |->
        IF p \in Stuck THEN [payments[p] EXCEPT !.status = "PENDING", !.nextRetryAt = "recovery"]
                       ELSE payments[p]]

\* The find of the stuck payments: nextRetryAt at or before now. A backoff
\* date may have been reached; an unset one is never at or before now.
MayBeStuck(p) == payments[p].status = "PENDING" /\ payments[p].nextRetryAt # "unset"
MustBeStuck(p) == payments[p].status = "PENDING" /\ payments[p].nextRetryAt = "recovery"

Recover ==
    /\ server = "down"
    /\ Stuck # {}
    /\ payments' = Recovered
    /\ server' = "recovering"
    /\ UNCHANGED <<job, processing, running, charges, hook>>

\* modifiedCount is 0: nothing is looked for and nothing is enqueued.
StartWithoutRecovery ==
    /\ server = "down"
    /\ Stuck = {}
    /\ running' = TRUE
    /\ server' = "up"
    /\ UNCHANGED <<payments, job, processing, charges, hook>>

\* A payment is enqueued by the reset and by the find.
MutantStartWith(f) ==
    /\ \A p \in Payments : /\ MustBeStuck(p) => \E j \in Jobs : f[j] = p
                           /\ (\E j \in Jobs : f[j] = p) => MayBeStuck(p)
    /\ job' = [j \in Jobs |-> IF f[j] = NoPayment THEN FreeSlot ELSE Slot("claiming", f[j])]
    /\ processing' = {f[j] : j \in Jobs} \ {NoPayment}

\* f enqueues what the find returned, and start() ticks at once.
StartWith(f) ==
    /\ \A p \in Payments : /\ MustBeStuck(p) => \E j \in Jobs : f[j] = p
                           /\ (\E j \in Jobs : f[j] = p) => MayBeStuck(p)
    /\ \A j, k \in Jobs : f[j] = f[k] /\ f[j] # NoPayment => j = k
    /\ job' = [j \in Jobs |-> IF f[j] = NoPayment THEN FreeSlot ELSE Slot("claiming", f[j])]
    /\ processing' = {f[j] : j \in Jobs} \ {NoPayment}

StartAfterRecovery ==
    /\ server = "recovering"
    /\ \E f \in [Jobs -> Payments \cup {NoPayment}] : StartWith(f)
    /\ running' = TRUE
    /\ server' = "up"
    /\ UNCHANGED <<payments, charges, hook>>

-----------------------------------------------------------------------------
(* The end of the process. Everything but MongoDB and the gateway is lost. *)

Die ==
    /\ job' = [j \in Jobs |-> FreeSlot]
    /\ processing' = {}
    /\ running' = FALSE
    /\ hook' = [h \in Hooks |-> NoHook]
    /\ server' = "down"
    /\ UNCHANGED charges

Crash ==
    /\ "crash" \in Faults
    /\ server # "down"
    /\ Die
    /\ UNCHANGED payments

\* A rejection nobody handles ends the process.
UnhandledRejection(j) ==
    /\ "dbError" \in Faults
    /\ UnhandledEffect(j)
    /\ Die

\* A call of recoverStuckPayments rejects: startServer exits.
StartFails ==
    /\ "dbError" \in Faults
    /\ \/ server = "down" /\ Stuck # {} /\ payments' = Recovered
       \/ server = "recovering" /\ UNCHANGED payments
    /\ Die

\* shutdown: the queue stops ticking; calls of processJob are not waited for.
Shutdown ==
    /\ "shutdown" \in Faults
    /\ server = "up"
    /\ running' = FALSE
    /\ server' = "stopping"
    /\ UNCHANGED <<payments, job, processing, charges, hook>>

\* The requests in flight have been answered: disconnect and exit.
Exit ==
    /\ server = "stopping"
    /\ \A j \in Jobs : job[j].pc # "enqueueing"
    /\ \A h \in Hooks : hook[h] = NoHook
    /\ Die
    /\ UNCHANGED payments

-----------------------------------------------------------------------------
(* Requests are handled until the server has closed.                       *)

Serving == server \in {"up", "stopping"}

PaymentRequest(p, j) ==
    /\ Serving
    /\ CreatePayment(p, j) \/ RetryFailedPayment(p, j)
    /\ UNCHANGED <<hook, server>>

PaymentRequestRejects(p) ==
    /\ "dbError" \in Faults
    /\ Serving
    /\ CreateUnacknowledged(p) \/ RetryUnacknowledged(p)
    /\ UNCHANGED <<hook, server>>

Webhook(h) ==
    /\ Serving
    /\ \/ \E p \in Payments, t \in PaymentStatus, txn \in {"unset", "webhook"} :
              ReceiveWebhook(h, p, t, txn)
       \/ UpdateFromWebhook(h)
       \/ "dbError" \in Faults /\ WebhookRejects(h)
    /\ UNCHANGED <<queueVars, server>>

QueueStep(j) ==
    /\ Enqueue(j) \/ BackoffElapses(j) \/ ProcessJob(j)
    /\ UNCHANGED <<hook, server>>

QueueUpdateRejects(j) ==
    /\ "dbError" \in Faults
    /\ UpdateRejects(j)
    /\ UNCHANGED <<hook, server>>

QueueTick == Tick /\ UNCHANGED <<hook, server>>

Next ==
    \/ Recover
    \/ StartWithoutRecovery
    \/ StartAfterRecovery
    \/ Crash
    \/ StartFails
    \/ Shutdown
    \/ Exit
    \/ \E p \in Payments, j \in Jobs : PaymentRequest(p, j)
    \/ \E p \in Payments : PaymentRequestRejects(p)
    \/ \E h \in Hooks : Webhook(h)
    \/ QueueTick
    \/ \E j \in Jobs : QueueStep(j) \/ QueueUpdateRejects(j) \/ UnhandledRejection(j)

Spec == Init /\ [][Next]_vars

\* The event loop runs every continuation, timers fire, and MongoDB and the
\* gateway answer; the operator starts the server again after it ended.
\* Nobody has to send a request or a webhook.
Fairness ==
    /\ WF_vars(Recover)
    /\ WF_vars(StartWithoutRecovery)
    /\ WF_vars(StartAfterRecovery)
    /\ WF_vars(QueueTick)
    /\ \A j \in Jobs : WF_vars(QueueStep(j))
    /\ \A h \in Hooks : WF_vars(UpdateFromWebhook(h) /\ UNCHANGED <<queueVars, server>>)

FairSpec == Spec /\ Fairness

-----------------------------------------------------------------------------
(* What holds under every fault and any webhooks.                          *)

WorksOn(j, p) == job[j].pay = p /\ job[j].pc \in Working

\* A payment that succeeded never becomes anything else: neither a webhook
\* that read an older status, nor the retry of a stale worker, nor the
\* recovery at startup takes a success back.
SuccessIsFinal ==
    [][\A p \in Payments : payments[p].status = "SUCCESS" => payments'[p].status = "SUCCESS"]_vars

\* A payment that waits for a worker, or is held by one, has an attempt left:
\* the exhaustion test of scheduleRetry, the reset of the manual retry and the
\* recovery never bring back a payment whose budget is spent.
RetryBudget ==
    \A p \in Payments :
        payments[p].status \in {"PENDING", "PROCESSING"} => payments[p].retryCount < MaxAttempts

\* While a process runs, a PROCESSING payment is held by one of its workers,
\* which will decide its outcome: whatever crashed, rejected or was overtaken
\* before, none is left PROCESSING with nobody at work on it.
NoStrandedProcessing ==
    server # "down" =>
        \A p \in Payments : payments[p].status = "PROCESSING" => \E j \in Jobs : WorksOn(j, p)

\* A payment kept out of the tick by the processing set has a call of
\* processJob alive whose finally will remove it: no payment is blocked for
\* good.
NoBlockedPayment ==
    \A p \in processing : \E j \in Jobs : job[j].pay = p /\ job[j].pc \in Active

\* A success is backed by a capture of the gateway or by a webhook that said
\* so: a transactionId from the gateway is stored only for a captured payment.
GatewayIdMeansCaptured ==
    \A p \in Payments : payments[p].transactionId = "gateway" =>
        payments[p].status = "SUCCESS" /\ charges[p] > 0

\* The entry, handler or worker of j will get to the payment: it waits for the claim,
\* or its charge failed and is to be retried, when it enqueues the payment whatever
\* its update meets.
Waiting == {"enqueueing", "delayed", "due", "claiming", "requeueing"}
Serves(j, p) ==
    /\ job[j].pay = p
    /\ job[j].pc \in Waiting \/ (job[j].pc \in {"failing", "catching"} /\ ~Exhausted(j))

Awaited(p) == \E j \in Jobs : Serves(j, p)
Forgotten(p) == payments[p].status = "PENDING" /\ ~Awaited(p)

\* A PENDING payment comes to be forgotten in two ways only: its process ends, or
\* the request that wrote it was not acknowledged. No webhook, no stale worker, no
\* rejected update of a worker, whether it was applied or not, makes a running
\* process lose one.
ForgottenOnlyByFaults ==
    [][\A p \in Payments : Forgotten(p)' =>
         \/ Forgotten(p)
         \/ server' \in {"down", "recovering"}
         \/ PaymentRequestRejects(p)]_vars

\* Two entries, handlers or workers of one payment.
Crowded(p) ==
    \E j, k \in Jobs : /\ j # k /\ job[j].pay = p /\ job[k].pay = p
                       /\ job[j].pc # "free" /\ job[k].pc # "free"

\* A payment comes to have a second entry by a manual retry only: retries of the
\* queue, webhooks, recoveries and rejected calls never multiply the entries.
CrowdedOnlyByRetry ==
    [][\A p \in Payments : Crowded(p)' =>
         Crowded(p) \/ \E j \in Jobs : RetryFailedPayment(p, j)]_vars

\* The system implements the lifecycle of PaymentLifecycle: a FAILED payment
\* becomes a SUCCESS only when it was captured, none is processed without
\* having been PENDING, none is lost from the database.
Lifecycle == INSTANCE PaymentLifecycle WITH
    status <- [p \in Payments |-> payments[p].status],
    captured <- {p \in Payments : charges[p] > 0}

ImplementsLifecycle == Lifecycle!Spec

-----------------------------------------------------------------------------
(* What holds under some of the faults: the runs say which.                *)

\* A PENDING payment is never forgotten: an entry of the queue, a handler about
\* to push one, or a worker about to claim it will get to it, however webhooks,
\* manual retries and workers interleave.
NoLostPending ==
    \A p \in Payments : payments[p].status = "PENDING" =>
        \E j \in Jobs : job[j].pay = p /\ job[j].pc \in Waiting

\* Money the gateway captured is on record, with the gateway's identifier, or a
\* worker is about to record it: no webhook and no retry loses a capture.
ChargeRecorded ==
    \A p \in Payments : charges[p] > 0 =>
        \/ payments[p].status = "SUCCESS" /\ payments[p].transactionId = "gateway"
        \/ \E j \in Jobs : job[j].pay = p /\ job[j].pc = "succeeded"

\* At most one worker is between the claim and the outcome of a payment: what
\* the comment of the class RetryQueue guarantees.
AtMostOneProcessing ==
    \A j, k \in Jobs :
        job[j].pc \in Working /\ job[k].pc \in Working /\ job[j].pay = job[k].pay => j = k

\* An entry that waits has a PENDING payment; a worker between claim and outcome has
\* a PROCESSING one, and its attempt is the one that comes next.
EntriesMatch ==
    \A j \in Jobs :
        /\ job[j].pc \in Waiting => payments[job[j].pay].status = "PENDING"
        /\ job[j].pc \in Working => /\ payments[job[j].pay].status = "PROCESSING"
                                   /\ job[j].attempt = payments[job[j].pay].retryCount + 1

\* The processing set holds the payments of the calls of processJob alive.
CallsInSet == processing = {job[j].pay : j \in {k \in Jobs : job[k].pc \in Active}}

\* No payment has two entries, or two calls.
Live == Waiting \cup Working
OneEntryEach ==
    \A j, k \in Jobs : j # k /\ job[j].pay = job[k].pay =>
        /\ ~(job[j].pc \in Live /\ job[k].pc \in Live)
        /\ ~(job[j].pc \in Active /\ job[k].pc \in Active)

\* Without webhooks and rejected calls the queue and the collection agree, through
\* any failed charges, manual retries, crashes, shutdowns and recoveries.
QueueMatchesStore == EntriesMatch /\ CallsInSet /\ OneEntryEach

\* A payment whose capture its worker is about to record.
Phase(p) ==
    IF /\ payments[p].status = "PROCESSING"
       /\ \E j \in Jobs : job[j].pay = p /\ job[j].pc = "succeeded"
    THEN "CAPTURED" ELSE payments[p].status

\* Without webhooks and rejected updates the queue, its workers, the manual retries,
\* crashes and recoveries implement the attempts of PaymentAttempts, for all that
\* workers, entries and ticks of one payment overlap: each failure is counted once, a
\* payment becomes FAILED with its last attempt, and a capture is not followed by
\* another attempt unless the process ended before it was recorded.
Attempts == INSTANCE PaymentAttempts WITH
    phase <- [p \in Payments |-> Phase(p)],
    failures <- [p \in Payments |-> payments[p].retryCount]

ImplementsAttempts == Attempts!Spec

\* The gateway is made to capture only a payment that is PROCESSING: no worker
\* charges a payment that was settled, or put back in the queue, after it was
\* claimed. (Webhooks break this: a callback may overtake the charge.)
CaptureWhileProcessing ==
    [][\A p \in Payments :
         charges'[p] # charges[p] => payments[p].status = "PROCESSING"]_vars

\* Every payment that exists is eventually settled.
EventuallySettled ==
    \A p \in Payments : Exists(p) ~> payments[p].status \in Settled

-----------------------------------------------------------------------------
(* What the documents promise and the code does not keep.                  *)

\* README.md: "Terminal states (SUCCESS, FAILED) cannot be overwritten by
\* further webhooks or queue processing." Only the manual retry of a request
\* reopens a FAILED payment.
TerminalNotOverwritten ==
    [][\A p \in Payments :
         payments[p].status \in Settled => \/ payments'[p].status = payments[p].status
                                           \/ payments[p].status = "FAILED" /\ payments'[p].status = "PENDING"]_vars

\* app.ts, of the payments left in PROCESSING by a crash: "Reset them to PENDING
\* so the queue re-processes them on startup." A second crash before they are
\* claimed leaves them PENDING, where no startup looks for them.
RecoveredAreReprocessed ==
    server = "up" =>
        \A p \in Payments : MustBeStuck(p) => \E j \in Jobs : job[j].pay = p
=============================================================================
