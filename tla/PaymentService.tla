--------------------------- MODULE PaymentService ---------------------------
(***************************************************************************)
(* src/services/payment.service.ts: the two requests that put a payment in *)
(* the queue. Each writes the document, and once the write is acknowledged *)
(* the handler pushes the entry: a slot at "enqueueing" is a handler       *)
(* between the two.                                                        *)
(***************************************************************************)
EXTENDS RetryQueue

\* Payment.create resolves and the handler is resumed with the document.
CreatePayment(p, j) ==
    /\ ~Exists(p)
    /\ job[j].pc = "free"
    /\ payments' = [payments EXCEPT ![p] = NewDocument]
    /\ job' = [job EXCEPT ![j] = Slot("enqueueing", p)]
    /\ UNCHANGED <<processing, running, charges>>

\* The document is written but the call rejects: the handler never enqueues.
CreateUnacknowledged(p) ==
    /\ ~Exists(p)
    /\ payments' = [payments EXCEPT ![p] = NewDocument]
    /\ UNCHANGED queueVars

\* findOneAndUpdate({_id: p, status: FAILED})
MutantReopenable(p) == Exists(p)               \* whatever its status
Reopenable(p) == payments[p].status = "FAILED"

\* The budget is not given back.
MutantReopened(p) ==
    [payments EXCEPT ![p].status = "PENDING", ![p].nextRetryAt = SetDefined(@, "unset")]

\* The manual retry gives the payment a full budget of attempts again; its
\* nextRetryAt: undefined does not reach the database.
Reopened(p) ==
    [payments EXCEPT ![p] =
        [payments[p] EXCEPT !.status = "PENDING", !.retryCount = 0,
                            !.nextRetryAt = SetDefined(payments[p].nextRetryAt, "unset")]]

RetryFailedPayment(p, j) ==
    /\ Reopenable(p)
    /\ job[j].pc = "free"
    /\ payments' = Reopened(p)
    /\ job' = [job EXCEPT ![j] = Slot("enqueueing", p)]
    /\ UNCHANGED <<processing, running, charges>>

RetryUnacknowledged(p) ==
    /\ Reopenable(p)
    /\ payments' = Reopened(p)
    /\ UNCHANGED queueVars
=============================================================================
