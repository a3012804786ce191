---------------------------- MODULE PaymentSystem ----------------------------
(***************************************************************************)
(* The payment service with its gateway: PaymentGateway, whose workers     *)
(* charge through GatewayService and so through one circuit breaker. The   *)
(* breaker lives in the memory of the process (the singleton               *)
(* gatewayCircuitBreaker) and ends with it.                                *)
(***************************************************************************)
EXTENDS PaymentGateway, GatewayService

\* History, for the properties: no guard reads it.
VARIABLES
    capturesKept,   \* the payments the gateway captured, but those whose worker the
                    \* end of a process took along before it recorded the success
    asked           \* [Payments -> Nat]: the calls of the gateway for a payment since
                    \* it was given its budget of attempts or the process began

systemVars == <<vars, breakerState, capturesKept, asked>>

SystemInit ==
    /\ Init
    /\ Breaker!Init
    /\ capturesKept = {}
    /\ asked = [p \in Payments |-> 0]

\* The breaker outlives the process.
MutantBreakerStep == UNCHANGED breakerState
BreakerStep ==
    IF server' = "down" THEN Breaker!Restart ELSE UNCHANGED breakerState

Unrecorded == {job[j].pay : j \in {k \in Jobs : job[k].pc = "succeeded"}}

\* Everything the server does but settle a charge.
ServerStep ==
    /\ Next
    /\ \A j \in Jobs : ~ChargeSucceeds(j) /\ ~ChargeFails(j)
    /\ BreakerStep
    /\ capturesKept' = IF server' = "down" THEN capturesKept \ Unrecorded ELSE capturesKept
    /\ asked' = [p \in Payments |->
                    IF \/ server' = "down"
                       \/ payments[p].status = "FAILED" /\ payments'[p].status = "PENDING"
                    THEN 0 ELSE asked[p]]

\* The call of chargePayment passes the breaker.
Ask(j) ==
    /\ Admitted(j)
    /\ asked' = [asked EXCEPT ![job[j].pay] = @ + 1]
    /\ UNCHANGED <<hook, server, capturesKept>>

Capture(j) ==
    /\ Approved(j)
    /\ capturesKept' = capturesKept \cup {job[j].pay}
    /\ UNCHANGED <<hook, server, asked>>

ChargeWithoutCapture(j) ==
    /\ \/ Rejected(j)
       \/ Declined(j)
       \/ TimedOut(j)
    /\ UNCHANGED <<hook, server, capturesKept, asked>>

\* The recovery timeout of the breaker elapses.
Clock ==
    /\ Breaker!TimeoutElapses
    /\ UNCHANGED <<vars, capturesKept, asked>>

SystemNext ==
    \/ ServerStep
    \/ \E j \in Jobs : Ask(j)
    \/ \E j \in Jobs : Capture(j)
    \/ \E j \in Jobs : ChargeWithoutCapture(j)
    \/ Clock

SystemSpec == SystemInit /\ [][SystemNext]_systemVars

-----------------------------------------------------------------------------
SystemTypeOK ==
    /\ TypeOK
    /\ Breaker!TypeOK
    /\ capturesKept \subseteq Payments
    /\ asked \in [Payments -> Nat]

\* A breaker that is HALF_OPEN waits for the charge of a payment that is
\* PROCESSING, in a worker that is alive to hear of it: no crash, shutdown or
\* restart leaves the breaker of a process waiting for a charge of another one,
\* rejecting every payment at its limit.
HalfOpenIsCharging ==
    /\ \A j \in Jobs : call[j] # "idle" => job[j].pc = "charging"
    /\ state = "HALF_OPEN" =>
          \E j \in Breaker!Probes : payments[job[j].pay].status = "PROCESSING"

\* What the gateway captured is on record with its identifier, or the worker that
\* heard of it is about to record it, through crashes, shutdowns, recoveries and
\* webhooks: only the end of the process between the two loses a capture.
KeptCapturesRecorded ==
    \A p \in capturesKept :
        \/ payments[p].status = "SUCCESS" /\ payments[p].transactionId = "gateway"
        \/ \E j \in Jobs : job[j].pay = p /\ job[j].pc = "succeeded"

\* Without webhooks and rejected updates the gateway is asked for a payment at most
\* maxAttempts times until it is retried by hand, or the process ends and takes the
\* count of the attempt in flight along: no timeout, decline, rejection, backoff or
\* duplicate entry gives an attempt away twice.
AskedWithinBudget == \A p \in Payments : asked[p] <= MaxAttempts

\* Without webhooks and rejected updates the gateway captures a payment a second
\* time only if the end of a process, a crash or a shutdown, took the worker of
\* the first capture along before its success was recorded: whatever the breaker
\* rejected, timed out or admitted late, and whatever else was cut short, what is
\* captured is recorded before anything else is done with the payment.
CapturedAgainOnlyIfLost ==
    [][\A j \in Jobs : Approved(j) => job[j].pay \notin capturesKept]_systemVars
=============================================================================
