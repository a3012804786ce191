--------------------------- MODULE WebhookService ---------------------------
(***************************************************************************)
(* src/services/webhook.service.ts: a status callback of the gateway reads *)
(* the payment, checks the transition against the status it read, and then *)
(* updates on condition that the status is still that one.                 *)
(***************************************************************************)
EXTENDS PaymentStore

CONSTANTS
    Hooks,          \* webhook requests handled at one time
    NoHook          \* the state of a slot of Hooks that handles no request

VARIABLE hook       \* [Hooks -> HookState]: between findById and the update

HookState == [pay : Payments, seen : {"PENDING", "PROCESSING"}, target : Settled,
              txn : {"unset", "webhook"}] \cup {NoHook}

HookInit == hook = [h \in Hooks |-> NoHook]

\* VALID_TRANSITIONS
ValidTransitions(s) == IF s \in {"PENDING", "PROCESSING"} THEN Settled ELSE {}

\* findById, and the checks on what it returned; the update is built here,
\* with a transactionId only when the target is SUCCESS. A duplicate, an illegal
\* transition, an unknown payment or status end the request with no effect.
ReceiveWebhook(h, p, t, txn) ==
    /\ hook[h] = NoHook
    /\ t # payments[p].status
    /\ t \in ValidTransitions(payments[p].status)
    /\ hook' = [hook EXCEPT ![h] = [pay |-> p, seen |-> payments[p].status,
                                    target |-> t,
                                    txn |-> IF t = "SUCCESS" THEN txn ELSE "unset"]]
    /\ UNCHANGED payments

\* The document with the $set of the callback applied.
Notified(d, w) ==
    [d EXCEPT !.status = w.target, !.transactionId = SetDefined(@, w.txn)]

\* The update is made by identifier alone.
MutantUpdateFromWebhook(h) ==
    /\ hook[h] # NoHook
    /\ payments' = [payments EXCEPT ![hook[h].pay] = Notified(@, hook[h])]
    /\ hook' = [hook EXCEPT ![h] = NoHook]

\* The update misses when the status changed since it was read; the gateway
\* is answered 200 all the same.
UpdateFromWebhook(h) ==
    /\ hook[h] # NoHook
    /\ LET w == hook[h]
       IN  payments' = FindOneAndUpdate(w.pay, w.seen, Notified(payments[w.pay], w))
    /\ hook' = [hook EXCEPT ![h] = NoHook]

\* The update rejects without effect: the request ends with status 500.
WebhookRejects(h) ==
    /\ hook[h] # NoHook
    /\ hook' = [hook EXCEPT ![h] = NoHook]
    /\ UNCHANGED payments
=============================================================================
