--------------------------- MODULE GatewayService ---------------------------
(***************************************************************************)
(* src/services/gateway.service.ts: chargePayment, which the worker of a   *)
(* slot awaits at "charging", over the circuit breaker all workers share   *)
(* and the simulated gateway. A charging slot whose call is idle is a      *)
(* claim that was applied and whose worker comes to chargePayment next.    *)
(***************************************************************************)
EXTENDS RetryQueue, FiniteSets

CONSTANTS FailureThreshold, HalfOpenMaxCalls

ASSUME JobsAssumption == IsFiniteSet(Jobs)
ASSUME GatewayThresholdAssumption == FailureThreshold \in Nat \ {0}
ASSUME GatewayHalfOpenAssumption == HalfOpenMaxCalls \in Nat \ {0}

VARIABLES state, failureCount, halfOpenCalls, elapsed, call

breakerState == <<state, failureCount, halfOpenCalls, elapsed, call>>

\* A worker has at most one call of the gateway in flight.
Breaker == INSTANCE CircuitBreaker WITH Calls <- Jobs

\* execute lets the call through to the gateway.
Admitted(j) ==
    /\ job[j].pc = "charging"
    /\ \/ Breaker!ExecuteClosed(j)
       \/ Breaker!ExecuteHalfOpen(j) /\ ~Breaker!LimitReached
    /\ UNCHANGED <<payments, queueVars>>

\* execute throws: chargePayment resolves with a failure and the attempt is
\* spent, though the gateway was not asked.
Rejected(j) ==
    /\ call[j] = "idle"
    /\ \/ state = "OPEN" /\ ~elapsed /\ UNCHANGED breakerState
       \/ Breaker!ExecuteHalfOpen(j) /\ Breaker!LimitReached
    /\ ChargeFails(j)

\* The gateway captures the amount.
Approved(j) == Breaker!OnSuccess(j) /\ ChargeSucceeds(j)

\* The gateway declines. The operation resolves all the same, so the breaker
\* counts a success.
Declined(j) == Breaker!OnSuccess(j) /\ ChargeFails(j)

\* The first of the two timers of a request that times out rejects; the race has
\* handled the other one, which has no effect when it fires.
TimedOut(j) == Breaker!OnFailure(j) /\ ChargeFails(j)
=============================================================================
