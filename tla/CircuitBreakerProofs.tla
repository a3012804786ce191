------------------------ MODULE CircuitBreakerProofs ------------------------
(***************************************************************************)
(* Proofs about CircuitBreaker, for any thresholds and any finite set of   *)
(* overlapping calls.                                                      *)
(***************************************************************************)
EXTENDS CircuitBreaker, FiniteSetTheorems, TLAPS

\* The invariants of the breaker are inductive together: the limit test reads
\* the counter, the counter is right because no probe settles without ending
\* the HALF_OPEN period, and types hold because the limit does.
BreakerInv == TypeOK /\ OpenIffThreshold /\ ProbeLimit /\ HalfOpenHasProbe

LEMMA ProbesFinite ==
    /\ IsFiniteSet(Probes)
    /\ Cardinality(Probes) \in Nat
<1>1. IsFiniteSet(Probes)
  BY CallsAssumption, FS_Subset DEF Probes
<1> QED BY <1>1, FS_CardinalityType

LEMMA InitBreakerInv == Init => BreakerInv
<1> SUFFICES ASSUME Init PROVE BreakerInv
  OBVIOUS
<1>1. TypeOK
  BY ThresholdAssumption, HalfOpenAssumption DEF Init, TypeOK, CallState
<1>2. Probes = {}
  BY DEF Init, Probes
<1>3. ProbeLimit
  BY <1>2, FS_EmptySet, HalfOpenAssumption DEF ProbeLimit
<1> QED BY <1>1, <1>3, ThresholdAssumption DEF Init, BreakerInv, OpenIffThreshold, HalfOpenHasProbe

\* A call that settles is no probe any more; no other call becomes one.
LEMMA SettledProbes ==
    ASSUME TypeOK, NEW c \in Calls, call' = [call EXCEPT ![c] = "idle"]
    PROVE  /\ call' \in [Calls -> CallState]
           /\ Cardinality(Probes') <= Cardinality(Probes)
<1>1. call' \in [Calls -> CallState]
  BY DEF TypeOK, CallState
<1>2. Probes' \subseteq Probes
  BY DEF TypeOK, Probes
<1> QED BY <1>1, <1>2, ProbesFinite, FS_Subset

\* A call that is admitted by an OPEN breaker is its only probe, and one that is
\* admitted by a HALF_OPEN breaker is one more.
LEMMA AdmittedProbes ==
    ASSUME TypeOK, NEW c \in Calls, call[c] = "idle", call' = Admitted(c)
    PROVE  /\ call' \in [Calls -> CallState]
           /\ c \in Probes'
           /\ state = "OPEN" => Cardinality(Probes') = 1
           /\ state # "OPEN" => Cardinality(Probes') = Cardinality(Probes) + 1
<1>1. call' \in [Calls -> CallState] /\ c \in Probes'
  BY DEF Admitted, TypeOK, CallState, Probes
<1>2. CASE state = "OPEN"
  <2>1. Probes' = {c}
    BY <1>2 DEF Admitted, Probes
  <2> QED BY <1>1, <1>2, <2>1, FS_Singleton
<1>3. CASE state # "OPEN"
  <2>1. Probes' = Probes \cup {c} /\ c \notin Probes
    BY <1>3 DEF Admitted, Probes
  <2> QED BY <1>1, <1>3, <2>1, ProbesFinite, FS_AddElement
<1> QED BY <1>2, <1>3

LEMMA ExecuteHalfOpenInv ==
    ASSUME BreakerInv, NEW c \in Calls, ExecuteHalfOpen(c)
    PROVE  BreakerInv'
<1>0. TypeOK /\ OpenIffThreshold /\ ProbeLimit /\ HalfOpenHasProbe
  BY DEF BreakerInv
<1>1. OpenIffThreshold'
  BY <1>0 DEF ExecuteHalfOpen, OpenIffThreshold
<1>2. CASE LimitReached
  <2>1. state = "HALF_OPEN" /\ UNCHANGED <<halfOpenCalls, call>>
    BY <1>2, HalfOpenAssumption DEF ExecuteHalfOpen, LimitReached, ProbesSoFar
  <2>2. Probes' = Probes
    BY <2>1 DEF Probes
  <2> QED BY <1>0, <1>1, <2>1, <2>2
          DEF ExecuteHalfOpen, BreakerInv, TypeOK, ProbeLimit, HalfOpenHasProbe
<1>3. CASE ~LimitReached
  <2>1. /\ call' \in [Calls -> CallState] /\ c \in Probes'
        /\ state = "OPEN" => Cardinality(Probes') = 1
        /\ state # "OPEN" => Cardinality(Probes') = Cardinality(Probes) + 1
    BY <1>0, <1>3, AdmittedProbes DEF ExecuteHalfOpen
  <2>2. halfOpenCalls' = Cardinality(Probes')
    BY <1>0, <1>3, <2>1 DEF ExecuteHalfOpen, ProbesSoFar, HalfOpenHasProbe
  <2>3. halfOpenCalls' \in 0..HalfOpenMaxCalls
    BY <1>0, <1>3, HalfOpenAssumption DEF ExecuteHalfOpen, LimitReached, ProbesSoFar, TypeOK
  <2>4. TypeOK'
    BY <1>0, <2>1, <2>3 DEF ExecuteHalfOpen, TypeOK
  <2>5. ProbeLimit' /\ HalfOpenHasProbe'
    BY <2>1, <2>2, <2>3, HalfOpenAssumption DEF ProbeLimit, HalfOpenHasProbe
  <2> QED BY <1>1, <2>4, <2>5 DEF BreakerInv
<1> QED BY <1>2, <1>3

LEMMA OnSuccessInv ==
    ASSUME BreakerInv, NEW c \in Calls, OnSuccess(c)
    PROVE  BreakerInv'
<1>0. TypeOK /\ ProbeLimit
  BY DEF BreakerInv
<1>1. call' \in [Calls -> CallState] /\ Cardinality(Probes') <= Cardinality(Probes)
  BY <1>0, SettledProbes DEF OnSuccess
<1>2. TypeOK' /\ OpenIffThreshold'
  BY <1>0, <1>1, ThresholdAssumption DEF OnSuccess, TypeOK, OpenIffThreshold
<1>3. Cardinality(Probes') \in Nat
  BY <1>0, <1>1, CallsAssumption, FS_Subset, FS_CardinalityType DEF Probes
<1>4. ProbeLimit' /\ HalfOpenHasProbe'
  BY <1>0, <1>1, <1>3, ProbesFinite, HalfOpenAssumption DEF OnSuccess, ProbeLimit, HalfOpenHasProbe
<1> QED BY <1>2, <1>4 DEF BreakerInv

LEMMA OnFailureInv ==
    ASSUME BreakerInv, NEW c \in Calls, OnFailure(c)
    PROVE  BreakerInv'
<1>0. TypeOK /\ ProbeLimit /\ OpenIffThreshold
  BY DEF BreakerInv
<1>1. call' \in [Calls -> CallState] /\ Cardinality(Probes') <= Cardinality(Probes)
  BY <1>0, SettledProbes DEF OnFailure
<1>2. failureCount' \in 0..FailureThreshold
  BY <1>0, ThresholdAssumption DEF OnFailure, TypeOK, Counted
<1>3. state' # "HALF_OPEN" /\ state' \in {"CLOSED", "OPEN"}
  BY <1>0 DEF OnFailure, TypeOK
<1>4. TypeOK'
  BY <1>0, <1>1, <1>2, <1>3 DEF OnFailure, TypeOK
<1>5. OpenIffThreshold'
  BY <1>0, <1>2, ThresholdAssumption DEF OnFailure, TypeOK, OpenIffThreshold, Counted
<1>6. Cardinality(Probes') \in Nat
  BY <1>1, CallsAssumption, FS_Subset, FS_CardinalityType DEF Probes
<1>7. ProbeLimit' /\ HalfOpenHasProbe'
  BY <1>0, <1>1, <1>3, <1>6, ProbesFinite, HalfOpenAssumption DEF ProbeLimit, HalfOpenHasProbe
<1> QED BY <1>4, <1>5, <1>7 DEF BreakerInv

LEMMA NextBreakerInv ==
    ASSUME BreakerInv, [Next]_breakerVars
    PROVE  BreakerInv'
<1>0. TypeOK /\ OpenIffThreshold /\ ProbeLimit /\ HalfOpenHasProbe
  BY DEF BreakerInv
<1>1. CASE UNCHANGED breakerVars \/ TimeoutElapses
  BY <1>0, <1>1 DEF breakerVars, TimeoutElapses, BreakerInv, TypeOK, OpenIffThreshold, ProbeLimit,
                    HalfOpenHasProbe, Probes
<1>2. CASE \E c \in Calls : ExecuteClosed(c)
  <2>1. PICK c \in Calls : ExecuteClosed(c)
    BY <1>2
  <2>2. Probes' = Probes
    BY <1>0, <2>1 DEF ExecuteClosed, TypeOK, Probes
  <2>3. TypeOK'
    BY <1>0, <2>1 DEF ExecuteClosed, TypeOK, CallState
  <2> QED BY <1>0, <2>1, <2>2, <2>3
          DEF ExecuteClosed, BreakerInv, OpenIffThreshold, ProbeLimit, HalfOpenHasProbe
<1>3. CASE Reset
  <2>1. Probes' = Probes
    BY <1>3 DEF Reset, Probes
  <2> QED BY <1>0, <1>3, <2>1, ThresholdAssumption, HalfOpenAssumption
          DEF Reset, BreakerInv, TypeOK, OpenIffThreshold, ProbeLimit, HalfOpenHasProbe
<1>4. CASE Restart
  <2>1. Probes' = {}
    BY <1>4 DEF Restart, Probes
  <2>2. ProbeLimit'
    BY <2>1, FS_EmptySet, HalfOpenAssumption DEF ProbeLimit
  <2>3. TypeOK'
    BY <1>4, ThresholdAssumption, HalfOpenAssumption DEF Restart, TypeOK, CallState
  <2> QED BY <1>4, <2>2, <2>3, ThresholdAssumption
          DEF Restart, BreakerInv, OpenIffThreshold, HalfOpenHasProbe
<1> QED
  BY <1>1, <1>2, <1>3, <1>4, ExecuteHalfOpenInv, OnSuccessInv, OnFailureInv DEF Next

LEMMA BreakerInvariant == Spec => []BreakerInv
BY InitBreakerInv, NextBreakerInv, PTL DEF Spec

\* Every variable keeps its type; in particular the count of probes never
\* passes its limit.
THEOREM BreakerTypeCorrect == Spec => []TypeOK
<1>1. BreakerInv => TypeOK
  BY DEF BreakerInv
<1> QED BY <1>1, BreakerInvariant, PTL

\* The breaker is CLOSED exactly while it counted fewer failures than the
\* threshold, whatever state its late calls were admitted in.
THEOREM OpensAtThreshold == Spec => []OpenIffThreshold
<1>1. BreakerInv => OpenIffThreshold
  BY DEF BreakerInv
<1> QED BY <1>1, BreakerInvariant, PTL

\* Never more probes of a recovery period are in flight than configured.
THEOREM ProbesLimited == Spec => []ProbeLimit
<1>1. BreakerInv => ProbeLimit
  BY DEF BreakerInv
<1> QED BY <1>1, BreakerInvariant, PTL

\* A HALF_OPEN breaker has a probe in flight that will decide it: it can never
\* be stuck rejecting every call.
THEOREM HalfOpenIsProbed == Spec => []HalfOpenHasProbe
<1>1. BreakerInv => HalfOpenHasProbe
  BY DEF BreakerInv
<1> QED BY <1>1, BreakerInvariant, PTL
=============================================================================
