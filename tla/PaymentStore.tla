---------------------------- MODULE PaymentStore ----------------------------
(***************************************************************************)
(* The payments collection in MongoDB (src/models/payment.model.ts), the   *)
(* only state that survives a crash of the server, and the two update      *)
(* calls the services make on it. A document keeps the fields that some    *)
(* guard, filter or property reads; amount, currency, customer and the     *)
(* dates that are only displayed are left out.                             *)
(***************************************************************************)
EXTENDS Integers

CONSTANTS
    Payments,       \* identifiers of the payments that may be created
    MaxAttempts     \* config.retry.maxAttempts

\* config.retry.maxAttempts is 3 by default; the environment may set another
\* positive number of attempts.
ASSUME MaxAttemptsAssumption == MaxAttempts \in Nat \ {0}

VARIABLE payments   \* [Payments -> Document]

PaymentStatus == {"PENDING", "PROCESSING", "SUCCESS", "FAILED"}
Settled == {"SUCCESS", "FAILED"}

\* "backoff" is a date written by scheduleRetry, which the clock may or may
\* not have reached; "recovery" one written by recoverStuckPayments, reached.
NextRetryAt == {"unset", "backoff", "recovery"}

\* Who gave the transaction identifier: the response to a charge, or a webhook.
TransactionId == {"unset", "gateway", "webhook"}

\* ABSENT: no document has this identifier yet.
Document == [status : PaymentStatus \cup {"ABSENT"}, retryCount : 0..MaxAttempts,
             nextRetryAt : NextRetryAt, transactionId : TransactionId]

NoDocument == [status |-> "ABSENT", retryCount |-> 0,
               nextRetryAt |-> "unset", transactionId |-> "unset"]

NewDocument == [NoDocument EXCEPT !.status = "PENDING"]

Exists(p) == payments[p].status # "ABSENT"

\* The collection after findOneAndUpdate({_id: p, status: s}, doc): MongoDB
\* reads, compares and writes one document atomically.
FindOneAndUpdate(p, s, doc) ==
    [payments EXCEPT ![p] = IF payments[p].status = s THEN doc ELSE payments[p]]

\* A field given as undefined in a $set is removed from the update before it
\* is sent (mongoose), so the stored field keeps the value it had.
SetDefined(old, value) == IF value = "unset" THEN old ELSE value

StoreInit == payments = [p \in Payments |-> NoDocument]
=============================================================================
