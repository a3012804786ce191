----------------------------- MODULE RetryQueue -----------------------------
(***************************************************************************)
(* src/queues/retry.queue.ts: the in-memory queue, its timer tick and the  *)
(* asynchronous calls of processJob the tick starts.                       *)
(*                                                                         *)
(* A slot of Jobs is one queue entry followed through its life: the call   *)
(* of enqueue that is about to push it, the entry while it waits in        *)
(* this.jobs, and the call of processJob the tick makes of it. The code    *)
(* between two awaits is one step; what an await sends to MongoDB or to    *)
(* the gateway takes effect at any moment while the call is in flight.     *)
(***************************************************************************)
EXTENDS PaymentStore

CONSTANTS
    Jobs,           \* slots: bounds the entries and calls alive at one time
    NoPayment       \* the payment of a free slot

ASSUME NoPaymentAssumption == NoPayment \notin Payments

VARIABLES
    job,            \* [Jobs -> JobState]: this.jobs and the calls in flight
    processing,     \* this.processing
    running,        \* this.running
    charges         \* captures the gateway made per payment, saturated at 2

queueVars == <<job, processing, running, charges>>

\* free       no entry
\* enqueueing a payment was written, the handler's enqueue(id) comes next
\* delayed    in this.jobs, scheduledAt in the future
\* due        in this.jobs, scheduledAt reached
\* claiming   processJob awaits the PENDING -> PROCESSING update
\* charging   processJob awaits chargePayment
\* succeeded  processJob awaits the update that records the success
\* failing    processJob awaits the update of scheduleRetry
\* catching   the same, called from the catch block
\* requeueing the update of scheduleRetry returned, enqueue comes next
\* returning  processJob is over, its finally comes next
JobPC == {"free", "enqueueing", "delayed", "due", "claiming", "charging",
          "succeeded", "failing", "catching", "requeueing", "returning"}

\* The program counters between the claim of a payment and its outcome.
Working == {"charging", "succeeded", "failing", "catching"}

\* The program counters of a processJob call whose finally has not run.
Active == Working \cup {"claiming", "requeueing", "returning"}

\* attempt is payment.retryCount + 1 as the claim returned it.
JobState == [pc : JobPC, pay : Payments \cup {NoPayment}, attempt : 0..MaxAttempts]

FreeSlot == [pc |-> "free", pay |-> NoPayment, attempt |-> 0]
Slot(pc, p) == [pc |-> pc, pay |-> p, attempt |-> 0]

Capped(n) == IF n > 2 THEN 2 ELSE n

QueueInit ==
    /\ job = [j \in Jobs |-> FreeSlot]
    /\ processing = {}
    /\ running = FALSE
    /\ charges = [p \in Payments |-> 0]

-----------------------------------------------------------------------------
(* The queue.                                                              *)

\* enqueue(paymentId) with no delay, in the handler that wrote the payment.
Enqueue(j) ==
    /\ job[j].pc = "enqueueing"
    /\ job' = [job EXCEPT ![j].pc = "due"]
    /\ UNCHANGED <<payments, processing, running, charges>>

\* The clock reaches scheduledAt.
BackoffElapses(j) ==
    /\ job[j].pc = "delayed"
    /\ job' = [job EXCEPT ![j].pc = "due"]
    /\ UNCHANGED <<payments, processing, running, charges>>

\* The filter runs before any payment is added to the set: two due entries of
\* one payment are both ready.
Ready == {j \in Jobs : job[j].pc = "due" /\ job[j].pay \notin processing}

\* Every due entry leaves this.jobs, one whose payment is being processed too.
MutantTick ==
    /\ running
    /\ \E j \in Jobs : job[j].pc = "due"
    /\ job' = [j \in Jobs |-> IF j \in Ready THEN [job[j] EXCEPT !.pc = "claiming"]
                              ELSE IF job[j].pc = "due" THEN FreeSlot
                              ELSE job[j]]
    /\ processing' = processing \cup {job[j].pay : j \in Ready}
    /\ UNCHANGED <<payments, running, charges>>

\* tick: every ready entry leaves this.jobs and its processJob is started. A
\* tick that finds nothing ready changes nothing.
Tick ==
    /\ running
    /\ Ready # {}
    /\ job' = [j \in Jobs |-> IF j \in Ready THEN [job[j] EXCEPT !.pc = "claiming"]
                                             ELSE job[j]]
    /\ processing' = processing \cup {job[j].pay : j \in Ready}
    /\ UNCHANGED <<payments, running, charges>>

-----------------------------------------------------------------------------
(* processJob.                                                             *)

MutantClaimable(p) == payments[p].status # "SUCCESS"       \* settled payments are not tested for
Claimable(p) == payments[p].status = "PENDING"

MutantClaimed(p) == payments                                \* the claim reads and does not write
Claimed(p) == [payments EXCEPT ![p].status = "PROCESSING"]

Claim(j) ==
    /\ job[j].pc = "claiming"
    /\ Claimable(job[j].pay)
    /\ payments' = Claimed(job[j].pay)
    /\ job' = [job EXCEPT ![j].pc = "charging",
                          ![j].attempt = payments[job[j].pay].retryCount + 1]
    /\ UNCHANGED <<processing, running, charges>>

\* findOneAndUpdate matched nothing: processJob returns.
ClaimMisses(j) ==
    /\ job[j].pc = "claiming"
    /\ ~Claimable(job[j].pay)
    /\ job' = [job EXCEPT ![j].pc = "returning"]
    /\ UNCHANGED <<payments, processing, running, charges>>

\* chargePayment resolves with success: the gateway captured the amount.
ChargeSucceeds(j) ==
    /\ job[j].pc = "charging"
    /\ job' = [job EXCEPT ![j].pc = "succeeded"]
    /\ charges' = [charges EXCEPT ![job[j].pay] = Capped(@ + 1)]
    /\ UNCHANGED <<payments, processing, running>>

\* chargePayment never rejects: a decline, a timeout and an open breaker all
\* resolve with success: false.
ChargeFails(j) ==
    /\ job[j].pc = "charging"
    /\ job' = [job EXCEPT ![j].pc = "failing"]
    /\ UNCHANGED <<payments, processing, running, charges>>

\* Only a payment that is still PROCESSING takes the success.
MutantRecorded(p) ==
    FindOneAndUpdate(p, "PROCESSING",
        [payments[p] EXCEPT !.status = "SUCCESS", !.transactionId = "gateway"])

\* findByIdAndUpdate has no status in its filter: the success is written over
\* whatever the status has become since the claim.
Recorded(p) == [payments EXCEPT ![p].status = "SUCCESS", ![p].transactionId = "gateway"]

RecordSuccess(j) ==
    /\ job[j].pc = "succeeded"
    /\ payments' = Recorded(job[j].pay)
    /\ job' = [job EXCEPT ![j].pc = "returning"]
    /\ UNCHANGED <<processing, running, charges>>

-----------------------------------------------------------------------------
(* scheduleRetry, called once after a failed charge and once more by the   *)
(* catch block.                                                            *)

MutantExhausted(j) == job[j].attempt > MaxAttempts          \* one attempt too many
Exhausted(j) == job[j].attempt >= MaxAttempts

\* The failure is written by identifier alone.
MutantAbandoned(j) ==
    [payments EXCEPT ![job[j].pay].status = "FAILED", ![job[j].pay].retryCount = job[j].attempt]

Abandoned(j) ==
    FindOneAndUpdate(job[j].pay, "PROCESSING",
        [payments[job[j].pay] EXCEPT !.status = "FAILED", !.retryCount = job[j].attempt])

Rescheduled(j) ==
    FindOneAndUpdate(job[j].pay, "PROCESSING",
        [payments[job[j].pay] EXCEPT !.status = "PENDING", !.retryCount = job[j].attempt,
                                     !.nextRetryAt = "backoff"])

GiveUp(j) ==
    /\ job[j].pc \in {"failing", "catching"}
    /\ Exhausted(j)
    /\ payments' = Abandoned(j)
    /\ job' = [job EXCEPT ![j].pc = "returning"]
    /\ UNCHANGED <<processing, running, charges>>

\* The entry is pushed again only if the update matched.
MutantScheduleRetry(j) ==
    /\ job[j].pc \in {"failing", "catching"}
    /\ ~Exhausted(j)
    /\ payments' = Rescheduled(j)
    /\ job' = [job EXCEPT ![j].pc = IF payments[job[j].pay].status = "PROCESSING"
                                   THEN "requeueing" ELSE "returning"]
    /\ UNCHANGED <<processing, running, charges>>

\* The result of the update is not read: the entry is pushed again whether or
\* not the payment was still PROCESSING.
ScheduleRetry(j) ==
    /\ job[j].pc \in {"failing", "catching"}
    /\ ~Exhausted(j)
    /\ payments' = Rescheduled(j)
    /\ job' = [job EXCEPT ![j].pc = "requeueing"]
    /\ UNCHANGED <<processing, running, charges>>

\* The finally does not run after a retry was scheduled.
MutantRequeue(j) ==
    /\ job[j].pc = "requeueing"
    /\ job' = [job EXCEPT ![j] = Slot("delayed", job[j].pay)]
    /\ UNCHANGED <<payments, processing, running, charges>>

\* enqueue(paymentId, backoffMs), and the finally of the call that made it.
Requeue(j) ==
    /\ job[j].pc = "requeueing"
    /\ job' = [job EXCEPT ![j] = Slot("delayed", job[j].pay)]
    /\ processing' = processing \ {job[j].pay}
    /\ UNCHANGED <<payments, running, charges>>

\* The finally does not run when the call returns early.
MutantReturn(j) ==
    /\ job[j].pc = "returning"
    /\ job' = [job EXCEPT ![j] = FreeSlot]
    /\ UNCHANGED <<payments, processing, running, charges>>

\* The finally of a call that ends without pushing its entry again.
Return(j) ==
    /\ job[j].pc = "returning"
    /\ job' = [job EXCEPT ![j] = FreeSlot]
    /\ processing' = processing \ {job[j].pay}
    /\ UNCHANGED <<payments, running, charges>>

-----------------------------------------------------------------------------
(* MongoDB calls that reject, before or after the write took effect.       *)

\* Inside the try block: the catch block takes over.
UpdateRejects(j) ==
    /\ \/ job[j].pc = "succeeded" /\ payments' \in {payments, Recorded(job[j].pay)}
       \/ job[j].pc = "failing" /\ Exhausted(j) /\ payments' \in {payments, Abandoned(j)}
       \/ job[j].pc = "failing" /\ ~Exhausted(j) /\ payments' \in {payments, Rescheduled(j)}
    /\ job' = [job EXCEPT ![j].pc = "catching"]
    /\ UNCHANGED <<processing, running, charges>>

\* Outside the try block: the effect a call may leave when its rejection is
\* handled by nobody, the promise of processJob having no catch.
UnhandledEffect(j) ==
    \/ job[j].pc = "claiming" /\ payments' = payments
    \/ job[j].pc = "claiming" /\ Claimable(job[j].pay) /\ payments' = Claimed(job[j].pay)
    \/ job[j].pc = "catching" /\ payments' = payments
    \/ job[j].pc = "catching" /\ Exhausted(j) /\ payments' = Abandoned(j)
    \/ job[j].pc = "catching" /\ ~Exhausted(j) /\ payments' = Rescheduled(j)

ProcessJob(j) ==
    \/ Claim(j)
    \/ ClaimMisses(j)
    \/ ChargeSucceeds(j)
    \/ ChargeFails(j)
    \/ RecordSuccess(j)
    \/ GiveUp(j)
    \/ ScheduleRetry(j)
    \/ Requeue(j)
    \/ Return(j)
=============================================================================
