--------------------------- MODULE CircuitBreaker ---------------------------
(***************************************************************************)
(* src/services/circuit-breaker.service.ts: execute admits a call of the   *)
(* gateway or throws, synchronously; an admitted call is in flight until   *)
(* the operation settles, and onSuccess or onFailure then acts on the      *)
(* state the breaker has by that time, not the one that admitted the call. *)
(***************************************************************************)
EXTENDS Integers, FiniteSets

CONSTANTS
    Calls,              \* bounds the calls in flight at one time
    FailureThreshold,
    HalfOpenMaxCalls

\* The defaults are 5 and 2. With a limit of 0 the first call after the
\* recovery timeout would leave the breaker HALF_OPEN for ever.
ASSUME CallsAssumption == IsFiniteSet(Calls)
ASSUME ThresholdAssumption == FailureThreshold \in Nat \ {0}
ASSUME HalfOpenAssumption == HalfOpenMaxCalls \in Nat \ {0}

VARIABLES
    state,              \* this.state
    failureCount,       \* this.failureCount, saturated at the threshold
    halfOpenCalls,      \* this.halfOpenCalls
    elapsed,            \* Date.now() - this.lastFailureTime >= this.recoveryTimeout
    call                \* [Calls -> CallState]

breakerVars == <<state, failureCount, halfOpenCalls, elapsed, call>>

\* idle    not in flight
\* closed  in flight, admitted by a CLOSED breaker
\* probe   in flight, admitted in the latest HALF_OPEN period
\* stale   in flight, admitted in an earlier one
CallState == {"idle", "closed", "probe", "stale"}

Probes == {c \in Calls : call[c] = "probe"}

Init ==
    /\ state = "CLOSED"
    /\ failureCount = 0
    /\ halfOpenCalls = 0
    /\ elapsed = TRUE
    /\ call = [c \in Calls |-> "idle"]

-----------------------------------------------------------------------------
(* execute                                                                 *)

ExecuteClosed(c) ==
    /\ call[c] = "idle"
    /\ state = "CLOSED"
    /\ call' = [call EXCEPT ![c] = "closed"]
    /\ UNCHANGED <<state, failureCount, halfOpenCalls, elapsed>>

\* The call that makes the breaker half open starts a new count.
MutantProbesSoFar == halfOpenCalls                  \* the old count goes on
ProbesSoFar == IF state = "OPEN" THEN 0 ELSE halfOpenCalls

MutantLimitReached == ProbesSoFar > HalfOpenMaxCalls
LimitReached == ProbesSoFar >= HalfOpenMaxCalls

Admitted(c) ==
    [d \in Calls |-> IF d = c THEN "probe"
                     ELSE IF state = "OPEN" /\ call[d] = "probe" THEN "stale"
                     ELSE call[d]]

\* A HALF_OPEN breaker, or an OPEN one whose recovery timeout has elapsed, tests
\* the limit and admits the call as a probe or throws. An OPEN breaker whose
\* timeout has not elapsed throws and changes nothing.
ExecuteHalfOpen(c) ==
    /\ call[c] = "idle"
    /\ state = "HALF_OPEN" \/ (state = "OPEN" /\ elapsed)
    /\ state' = "HALF_OPEN"
    /\ halfOpenCalls' = IF LimitReached THEN ProbesSoFar ELSE ProbesSoFar + 1
    /\ call' = IF LimitReached THEN call ELSE Admitted(c)
    /\ UNCHANGED <<failureCount, elapsed>>

-----------------------------------------------------------------------------
(* The operation settles.                                                  *)

\* The failures counted before the success are kept.
MutantOnSuccess(c) ==
    /\ call[c] # "idle"
    /\ call' = [call EXCEPT ![c] = "idle"]
    /\ state' = "CLOSED"
    /\ UNCHANGED <<failureCount, halfOpenCalls, elapsed>>

OnSuccess(c) ==
    /\ call[c] # "idle"
    /\ call' = [call EXCEPT ![c] = "idle"]
    /\ state' = "CLOSED"
    /\ failureCount' = 0
    /\ UNCHANGED <<halfOpenCalls, elapsed>>

MutantCounted(n) == IF n = FailureThreshold THEN n ELSE n + 2
Counted(n) == IF n = FailureThreshold THEN n ELSE n + 1

OnFailure(c) ==
    /\ call[c] # "idle"
    /\ call' = [call EXCEPT ![c] = "idle"]
    /\ failureCount' = Counted(failureCount)
    /\ elapsed' = FALSE
    /\ state' = IF state = "HALF_OPEN" \/ failureCount' >= FailureThreshold
                THEN "OPEN" ELSE state
    /\ UNCHANGED halfOpenCalls

-----------------------------------------------------------------------------
TimeoutElapses ==
    /\ ~elapsed
    /\ elapsed' = TRUE
    /\ UNCHANGED <<state, failureCount, halfOpenCalls, call>>

\* reset(): the calls in flight go on.
Reset ==
    /\ state' = "CLOSED"
    /\ failureCount' = 0
    /\ elapsed' = TRUE
    /\ halfOpenCalls' = 0
    /\ UNCHANGED call

\* The process ends, and with it the calls in flight; a new one has a new
\* breaker, for nothing of it is stored.
Restart ==
    /\ state' = "CLOSED"
    /\ failureCount' = 0
    /\ halfOpenCalls' = 0
    /\ elapsed' = TRUE
    /\ call' = [c \in Calls |-> "idle"]

Next ==
    \/ \E c \in Calls : ExecuteClosed(c)
    \/ \E c \in Calls : ExecuteHalfOpen(c)
    \/ \E c \in Calls : OnSuccess(c)
    \/ \E c \in Calls : OnFailure(c)
    \/ TimeoutElapses
    \/ Reset
    \/ Restart

Spec == Init /\ [][Next]_breakerVars

\* The gateway answers every call, or the call times out; the clock goes on.
FairSpec ==
    /\ Spec
    /\ \A c \in Calls : WF_breakerVars(OnSuccess(c) \/ OnFailure(c))
    /\ WF_breakerVars(TimeoutElapses)

-----------------------------------------------------------------------------
TypeOK ==
    /\ state \in {"CLOSED", "OPEN", "HALF_OPEN"}
    /\ failureCount \in 0..FailureThreshold
    /\ halfOpenCalls \in 0..HalfOpenMaxCalls
    /\ elapsed \in BOOLEAN
    /\ call \in [Calls -> CallState]

\* The breaker is CLOSED exactly while fewer than the threshold of failures were
\* counted since the last success: a call that settles late, in another state
\* than it was admitted in, can neither leave an exhausted breaker CLOSED nor
\* open one too early.
OpenIffThreshold == state = "CLOSED" <=> failureCount < FailureThreshold

\* A recovery period never puts more than the configured number of probes on
\* the gateway at one time.
ProbeLimit == Cardinality(Probes) <= HalfOpenMaxCalls

\* In HALF_OPEN the counter is the number of probes in flight, and there is at
\* least one: some call will still decide, so the breaker can never be stuck
\* rejecting every call at its probe limit.
HalfOpenHasProbe ==
    state = "HALF_OPEN" => halfOpenCalls = Cardinality(Probes) /\ Probes # {}

\* A HALF_OPEN breaker is eventually decided.
HalfOpenDecided == state = "HALF_OPEN" ~> state # "HALF_OPEN"

\* When the gateway has recovered and payments go on being charged, an OPEN
\* breaker finds out: no count, no leftover of an earlier period and no call
\* that settles late keeps it from closing again.
OutageEnds ==
    /\ <>[][\A c \in Calls : ~OnFailure(c)]_breakerVars
    /\ WF_breakerVars(\E c \in Calls : ExecuteHalfOpen(c))
    => (state = "OPEN" ~> state = "CLOSED")

\* README.md: an OPEN breaker goes "fast-fail" and then HALF_OPEN, where "success
\* closes the circuit": a success never closes an OPEN breaker.
OpenClosesThroughHalfOpen ==
    [][state = "OPEN" => state' # "CLOSED" \/ Reset \/ Restart]_breakerVars
=============================================================================
