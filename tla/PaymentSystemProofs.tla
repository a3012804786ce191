------------------------- MODULE PaymentSystemProofs -------------------------
(***************************************************************************)
(* Proofs about PaymentSystem: it is PaymentGateway seen from the payments *)
(* and CircuitBreaker seen from the breaker, so what is proved of the two  *)
(* holds of it, and what neither says of the other.                        *)
(***************************************************************************)
EXTENDS PaymentSystem, QueueProofs

BreakerProofs == INSTANCE CircuitBreakerProofs WITH Calls <- Jobs

-----------------------------------------------------------------------------
(* The two views.                                                          *)

\* A step of a call of chargePayment.
Charge(j) == Ask(j) \/ Capture(j) \/ ChargeWithoutCapture(j)

LEMMA ChargeMaps ==
    ASSUME NEW j \in Jobs, Charge(j)
    PROVE  /\ UNCHANGED <<hook, server>>
           /\ UNCHANGED <<payments, queueVars>> \/ ChargeSucceeds(j) \/ ChargeFails(j)
BY DEF Charge, Ask, Capture, ChargeWithoutCapture, Approved, Admitted, Rejected, Declined, TimedOut

LEMMA StepMaps == [SystemNext]_systemVars => [Next]_vars
<1> SUFFICES ASSUME [SystemNext]_systemVars PROVE [Next]_vars
  OBVIOUS
<1>1. CASE UNCHANGED systemVars \/ ServerStep \/ Clock
  BY <1>1 DEF systemVars, ServerStep, Clock
<1>2. ASSUME NEW j \in Jobs, Charge(j) PROVE [Next]_vars
  <2>1. UNCHANGED vars \/ QueueStep(j)
    BY <1>2, ChargeMaps DEF QueueStep, ProcessJob, vars, queueVars
  <2> QED BY <2>1 DEF Next
<1> QED BY <1>1, <1>2 DEF SystemNext, Charge

\* The service with its gateway is PaymentGateway: what holds of its payments
\* and its queue holds whatever the breaker does, and no property needs the
\* gateway to be asked.
THEOREM SystemIsGateway == SystemSpec => Spec
<1>1. SystemInit => Init
  BY DEF SystemInit
<1> QED BY <1>1, StepMaps, PTL DEF SystemSpec, Spec

LEMMA BreakerStepMaps == [SystemNext]_systemVars => [Breaker!Next]_breakerState
<1> SUFFICES ASSUME [SystemNext]_systemVars PROVE [Breaker!Next]_breakerState
  OBVIOUS
<1>1. CASE UNCHANGED systemVars
  BY <1>1 DEF systemVars
<1>2. CASE ServerStep
  BY <1>2 DEF ServerStep, BreakerStep, Breaker!Next
<1>3. CASE Clock
  BY <1>3 DEF Clock, Breaker!Next
<1>4. ASSUME NEW j \in Jobs, Charge(j)
      PROVE  [Breaker!Next]_breakerState
  BY <1>4 DEF Charge, Ask, Capture, ChargeWithoutCapture, Approved, Admitted, Rejected,
              Declined, TimedOut, Breaker!Next
<1> QED BY <1>1, <1>2, <1>3, <1>4 DEF SystemNext, Charge

\* The breaker the workers share is CircuitBreaker, with one call per worker.
THEOREM SystemIsBreaker == SystemSpec => Breaker!Spec
<1>1. SystemInit => Breaker!Init
  BY DEF SystemInit
<1>2. [SystemNext]_systemVars => [Breaker!Next]_(Breaker!breakerVars)
  BY BreakerStepMaps DEF breakerState, Breaker!breakerVars
<1> QED BY <1>1, <1>2, PTL DEF SystemSpec, Breaker!Spec

-----------------------------------------------------------------------------
(* What CircuitBreakerProofs shows, for the calls of the workers.          *)

LEMMA JobsFinite == BreakerProofs!IsFiniteSet(Jobs)
BY JobsAssumption DEF IsFiniteSet, BreakerProofs!IsFiniteSet

LEMMA SameBreaker == Breaker!Spec => BreakerProofs!Spec
<1>1. Breaker!Init => BreakerProofs!Init
  BY DEF Breaker!Init, BreakerProofs!Init
<1>2. [Breaker!Next]_(Breaker!breakerVars) => [BreakerProofs!Next]_(BreakerProofs!breakerVars)
  BY DEF Breaker!breakerVars, BreakerProofs!breakerVars, Breaker!Next, BreakerProofs!Next,
     Breaker!ExecuteClosed, BreakerProofs!ExecuteClosed,
     Breaker!ExecuteHalfOpen, BreakerProofs!ExecuteHalfOpen,
     Breaker!LimitReached, BreakerProofs!LimitReached,
     Breaker!ProbesSoFar, BreakerProofs!ProbesSoFar, Breaker!Admitted, BreakerProofs!Admitted,
     Breaker!OnSuccess, BreakerProofs!OnSuccess, Breaker!OnFailure, BreakerProofs!OnFailure,
     Breaker!Counted, BreakerProofs!Counted,
     Breaker!TimeoutElapses, BreakerProofs!TimeoutElapses,
     Breaker!Reset, BreakerProofs!Reset, Breaker!Restart, BreakerProofs!Restart
<1> QED BY <1>1, <1>2, PTL DEF Breaker!Spec, BreakerProofs!Spec

Probed == state = "HALF_OPEN" => Breaker!Probes # {}

LEMMA BreakerInvariants == SystemSpec => []Breaker!TypeOK /\ []Probed
<1>1. BreakerProofs!Spec => []BreakerProofs!TypeOK
  BY BreakerProofs!BreakerTypeCorrect, JobsFinite, GatewayThresholdAssumption,
     GatewayHalfOpenAssumption, PTL
<1>2. BreakerProofs!Spec => []BreakerProofs!HalfOpenHasProbe
  BY BreakerProofs!HalfOpenIsProbed, JobsFinite, GatewayThresholdAssumption,
     GatewayHalfOpenAssumption, PTL
<1>3. BreakerProofs!TypeOK => Breaker!TypeOK
  BY DEF Breaker!TypeOK, BreakerProofs!TypeOK, Breaker!CallState, BreakerProofs!CallState
<1>4. BreakerProofs!HalfOpenHasProbe => Probed
  BY DEF BreakerProofs!HalfOpenHasProbe, BreakerProofs!Probes, Breaker!Probes, Probed
<1> QED BY <1>1, <1>2, <1>3, <1>4, SameBreaker, SystemIsBreaker, PTL

-----------------------------------------------------------------------------
(* Types, and the calls of the breaker belong to workers that charge.      *)

CallsCharging == \A j \in Jobs : call[j] # "idle" => job[j].pc = "charging"

SystemInv ==
    /\ CallsCharging
    /\ capturesKept \subseteq Payments
    /\ asked \in [Payments -> Nat]

\* The server leaves a worker charging, or ends and takes all workers along.
LEMMA StillCharging ==
    ASSUME TypeInv, ServerStep, server' # "down", NEW j \in Jobs, job[j].pc = "charging"
    PROVE  job'[j] = job[j]
<1>1. SlotsOK /\ job \in [Jobs -> JobState] /\ server \notin {"down", "recovering"}
  BY DEF TypeInv, SlotsOK, IdleWhenDown
<1>2. CASE UNCHANGED job
  BY <1>2
<1>3. CASE \E p \in Payments, k \in Jobs : PaymentRequest(p, k)
  BY <1>1, <1>3 DEF PaymentRequest, CreatePayment, RetryFailedPayment
<1>4. CASE QueueTick
  BY <1>1, <1>4 DEF QueueTick, Tick, Ready
<1>5. CASE \E k \in Jobs : QueueStep(k) \/ QueueUpdateRejects(k)
  <2>1. PICK k \in Jobs : QueueStep(k) \/ QueueUpdateRejects(k)
    BY <1>5
  <2>2. job[k].pc # "charging" /\ \A i \in Jobs \ {k} : job'[i] = job[i]
    BY <1>1, <2>1 DEF ServerStep, QueueStep, QueueUpdateRejects, UpdateRejects, Enqueue,
       BackoffElapses, ProcessJob, Claim, ClaimMisses, RecordSuccess, GiveUp, ScheduleRetry,
       Requeue, Return
  <2> QED BY <2>2
<1>6. CASE Recover \/ StartWithoutRecovery \/ Shutdown \/ \E p \in Payments : PaymentRequestRejects(p)
  BY <1>2, <1>6 DEF Recover, StartWithoutRecovery, Shutdown, PaymentRequestRejects,
     CreateUnacknowledged, RetryUnacknowledged, queueVars
<1>7. CASE \E h \in Hooks : Webhook(h)
  BY <1>2, <1>7 DEF Webhook, queueVars
<1> QED
  BY <1>1, <1>3, <1>4, <1>5, <1>6, <1>7
  DEF ServerStep, Next, StartAfterRecovery, Crash, StartFails, Exit, UnhandledRejection, Die

\* A charge moves the slot of its worker alone, and so does its call.
LEMMA ChargeMoves ==
    ASSUME job \in [Jobs -> JobState], Breaker!TypeOK, NEW j \in Jobs,
           Charge(j)
    PROVE  /\ job[j].pc = "charging" \/ call[j] # "idle"
           /\ \A k \in Jobs \ {j} : job'[k] = job[k] /\ (call'[k] # "idle" => call[k] # "idle")
           /\ call'[j] # "idle" => job'[j] = job[j]
           /\ job[j].pc = "charging"
<1>0. call \in [Jobs -> Breaker!CallState]
  BY DEF Breaker!TypeOK
<1>1. CASE Admitted(j)
  <2>1. \A k \in Jobs : call'[k] # "idle" => k = j \/ call[k] # "idle"
    BY <1>0, <1>1 DEF Admitted, Breaker!ExecuteClosed, Breaker!ExecuteHalfOpen, Breaker!Admitted
  <2> QED BY <1>1, <2>1 DEF Admitted, queueVars
<1>2. CASE Rejected(j)
  <2>1. UNCHANGED call /\ call[j] = "idle"
    BY <1>2 DEF Rejected, breakerState, Breaker!ExecuteHalfOpen
  <2> QED BY <1>2, <2>1 DEF Rejected, ChargeFails
<1>3. CASE Breaker!OnSuccess(j) \/ Breaker!OnFailure(j)
  <2>1. call' = [call EXCEPT ![j] = "idle"]
    BY <1>3 DEF Breaker!OnSuccess, Breaker!OnFailure
  <2>2. ChargeSucceeds(j) \/ ChargeFails(j)
    BY <1>3 DEF Charge, Ask, Capture, ChargeWithoutCapture, Approved, Declined, TimedOut,
       Admitted, Rejected,
       Breaker!OnSuccess, Breaker!OnFailure, Breaker!ExecuteClosed, Breaker!ExecuteHalfOpen
  <2> QED BY <1>0, <2>1, <2>2 DEF ChargeSucceeds, ChargeFails
<1> QED
  BY <1>1, <1>2, <1>3 DEF Charge, Ask, Capture, ChargeWithoutCapture, Approved, Declined, TimedOut

LEMMA NextSystemInv ==
    ASSUME TypeInv, Breaker!TypeOK, SystemInv, [SystemNext]_systemVars
    PROVE  SystemInv'
<1>1. CASE UNCHANGED systemVars \/ Clock
  BY <1>1 DEF systemVars, vars, breakerState, Clock, Breaker!TimeoutElapses, SystemInv,
              CallsCharging
<1>2. CASE ServerStep /\ server' = "down"
  BY <1>2 DEF ServerStep, BreakerStep, Breaker!Restart, SystemInv, CallsCharging
<1>3. CASE ServerStep /\ server' # "down"
  BY <1>3, StillCharging DEF ServerStep, BreakerStep, breakerState, SystemInv, CallsCharging
<1>4. ASSUME NEW j \in Jobs, Charge(j)
      PROVE  SystemInv'
  <2>1. SlotsOK /\ job \in [Jobs -> JobState]
    BY DEF TypeInv, SlotsOK
  <2>2. /\ job[j].pc = "charging"
        /\ \A k \in Jobs \ {j} : job'[k] = job[k] /\ (call'[k] # "idle" => call[k] # "idle")
        /\ call'[j] # "idle" => job'[j] = job[j]
    BY <1>4, <2>1, ChargeMoves
  <2>3. CallsCharging'
    BY <2>2 DEF SystemInv, CallsCharging
  <2>4. job[j].pay \in Payments
    BY <2>1, <2>2 DEF SlotsOK
  <2>5. capturesKept' \subseteq Payments
    BY <1>4, <2>4 DEF Charge, Ask, Capture, ChargeWithoutCapture, SystemInv
  <2>6. asked' \in [Payments -> Nat]
    BY <1>4 DEF Charge, Ask, Capture, ChargeWithoutCapture, SystemInv
  <2> QED BY <2>3, <2>5, <2>6 DEF SystemInv
<1> QED BY <1>1, <1>2, <1>3, <1>4 DEF SystemNext, Charge

LEMMA SystemInvariant == SystemSpec => []SystemInv
<1>1. SystemInit => SystemInv
  BY DEF SystemInit, Breaker!Init, SystemInv, CallsCharging
<1>2. TypeInv /\ Breaker!TypeOK /\ SystemInv /\ [SystemNext]_systemVars => SystemInv'
  BY NextSystemInv
<1> QED BY <1>1, <1>2, SystemIsGateway, TypeInvariant, BreakerInvariants, PTL DEF SystemSpec

\* The types of both parts, and of the history, hold in the composition.
THEOREM SystemTypeCorrect == SystemSpec => []SystemTypeOK
<1>1. TypeOK /\ Breaker!TypeOK /\ SystemInv => SystemTypeOK
  BY DEF SystemInv, SystemTypeOK
<1> QED BY <1>1, SystemIsGateway, TypeCorrect, BreakerInvariants, SystemInvariant, PTL

\* A HALF_OPEN breaker waits for the charge of a PROCESSING payment by a worker
\* of the running process. Webhooks settle payments under their workers, so
\* there are none.
THEOREM HalfOpenCharges ==
    ASSUME Hooks = {}, "dbError" \notin Faults
    PROVE  SystemSpec => []HalfOpenIsCharging
<1>1. SystemInv /\ Probed /\ HeldInv => HalfOpenIsCharging
  <2> SUFFICES ASSUME SystemInv, Probed, HeldInv PROVE HalfOpenIsCharging
    OBVIOUS
  <2>1. \A j \in Breaker!Probes : j \in Jobs /\ job[j].pc = "charging"
    BY DEF Breaker!Probes, SystemInv, CallsCharging
  <2>2. \A j \in Breaker!Probes : payments[job[j].pay].status = "PROCESSING"
    BY <2>1 DEF HeldInv, HeldProcessing, Working
  <2> QED BY <2>2 DEF Probed, SystemInv, CallsCharging, HalfOpenIsCharging
<1> QED BY <1>1, SystemInvariant, BreakerInvariants, SystemIsGateway, HeldInvariant, PTL

-----------------------------------------------------------------------------
(* What was captured is on record, or its worker holds the payment until   *)
(* it is; and so no payment is captured again but for those lost.          *)

OnRecord(p) == payments[p].status = "SUCCESS" /\ payments[p].transactionId = "gateway"

\* Without rejections a worker at "succeeded" records its success or stays.
LEMMA SuccessesKept ==
    ASSUME "dbError" \notin Faults, TypeInv, Next, server' # "down", NEW k \in Jobs,
           job[k].pc = "succeeded"
    PROVE  \/ job'[k].pc = "succeeded" /\ job'[k].pay = job[k].pay
           \/ /\ payments'[job[k].pay].status = "SUCCESS"
              /\ payments'[job[k].pay].transactionId = "gateway"
<1>1. /\ SlotsOK /\ job \in [Jobs -> JobState] /\ server \notin {"down", "recovering"}
      /\ payments \in Documents /\ job[k].pay \in Payments
  BY DEF TypeInv, DocumentsOK, SlotsOK, IdleWhenDown
<1>2. CASE UNCHANGED job
  BY <1>2
<1>3. CASE \E p \in Payments, j \in Jobs : PaymentRequest(p, j)
  BY <1>1, <1>3 DEF PaymentRequest, CreatePayment, RetryFailedPayment
<1>4. CASE QueueTick
  BY <1>1, <1>4 DEF QueueTick, Tick, Ready
<1>5. CASE \E j \in Jobs : QueueStep(j)
  <2>1. PICK j \in Jobs : QueueStep(j)
    BY <1>5
  <2>2. CASE RecordSuccess(j)
    <3>1. payments' = Recorded(job[j].pay) /\ \A i \in Jobs \ {j} : job'[i] = job[i]
      BY <1>1, <2>2 DEF RecordSuccess
    <3>2. CASE j = k
      BY <1>1, <3>1, <3>2, RecordedEffect
    <3> QED BY <3>1, <3>2
  <2>3. CASE ~RecordSuccess(j)
    <3>1. job[j].pc # "succeeded" /\ \A i \in Jobs \ {j} : job'[i] = job[i]
      BY <1>1, <2>1, <2>3 DEF QueueStep, Enqueue, BackoffElapses, ProcessJob, Claim, ClaimMisses,
         ChargeSucceeds, ChargeFails, GiveUp, ScheduleRetry, Requeue, Return
    <3> QED BY <3>1
  <2> QED BY <2>2, <2>3
<1>6. CASE Recover \/ StartWithoutRecovery \/ Shutdown
  BY <1>2, <1>6 DEF Recover, StartWithoutRecovery, Shutdown
<1>7. CASE \E h \in Hooks : Webhook(h)
  BY <1>2, <1>7 DEF Webhook, queueVars
<1> QED
  BY <1>1, <1>3, <1>4, <1>5, <1>6, <1>7
  DEF Next, StartAfterRecovery, Crash, StartFails, Exit, UnhandledRejection, Die,
      PaymentRequestRejects, QueueUpdateRejects

LEMMA NextCapturesRecorded ==
    ASSUME "dbError" \notin Faults, TypeInv, SucceededCaptured, SystemInv, Breaker!TypeOK,
           KeptCapturesRecorded, [SystemNext]_systemVars
    PROVE  KeptCapturesRecorded'
<1>0. capturesKept \subseteq Payments /\ SlotsOK /\ job \in [Jobs -> JobState]
  BY DEF SystemInv, TypeInv, SlotsOK
<1>1. \A p \in Payments : OnRecord(p) => OnRecord(p)'
  BY StepMaps, NextDocumentStep DEF DocumentStep, OnRecord
<1>2. CASE UNCHANGED systemVars \/ Clock
  BY <1>2 DEF systemVars, vars, Clock, KeptCapturesRecorded
<1>3. CASE ServerStep /\ server' = "down"
  <2>1. capturesKept' = capturesKept \ Unrecorded
    BY <1>3 DEF ServerStep
  <2>2. \A p \in capturesKept' : p \in capturesKept /\ OnRecord(p)
    BY <2>1 DEF Unrecorded, KeptCapturesRecorded, OnRecord
  <2> QED BY <1>0, <1>1, <2>2 DEF KeptCapturesRecorded, OnRecord
<1>4. CASE ServerStep /\ server' # "down"
  <2>1. \A k \in Jobs : job[k].pc = "succeeded" =>
            \/ job'[k].pc = "succeeded" /\ job'[k].pay = job[k].pay
            \/ /\ payments'[job[k].pay].status = "SUCCESS"
               /\ payments'[job[k].pay].transactionId = "gateway"
    BY <1>4, SuccessesKept DEF ServerStep
  <2>2. capturesKept' = capturesKept
    BY <1>4 DEF ServerStep
  <2> QED BY <1>0, <1>1, <2>1, <2>2 DEF KeptCapturesRecorded, OnRecord
<1>5. ASSUME NEW j \in Jobs, Charge(j)
      PROVE  KeptCapturesRecorded'
  <2>1. job[j].pc = "charging" /\ \A k \in Jobs \ {j} : job'[k] = job[k]
    BY <1>0, <1>5, ChargeMoves
  <2>2. \A k \in Jobs : job[k].pc = "succeeded" => job'[k] = job[k]
    BY <2>1
  <2>3. CASE Capture(j)
    <3>1. job'[j].pc = "succeeded" /\ job'[j].pay = job[j].pay
      BY <1>0, <2>3 DEF Capture, Approved, ChargeSucceeds
    <3>2. capturesKept' = capturesKept \cup {job[j].pay}
      BY <2>3 DEF Capture
    <3> QED BY <1>0, <1>1, <2>2, <3>1, <3>2 DEF KeptCapturesRecorded, OnRecord
  <2>4. CASE Ask(j) \/ ChargeWithoutCapture(j)
    <3>1. UNCHANGED capturesKept
      BY <2>4 DEF Ask, ChargeWithoutCapture
    <3> QED BY <1>0, <1>1, <2>2, <3>1 DEF KeptCapturesRecorded, OnRecord
  <2> QED BY <1>5, <2>3, <2>4 DEF Charge
<1> QED BY <1>2, <1>3, <1>4, <1>5 DEF SystemNext, Charge

\* Whatever webhooks, retries, crashes, shutdowns and recoveries come between, what
\* the gateway captured is on record with its identifier, or in the hands of the
\* worker that records it next; the end of a process between the two is the one
\* way to lose it. Rejected updates are excluded: a rejected record becomes a retry.
THEOREM CapturesRecorded ==
    ASSUME "dbError" \notin Faults
    PROVE  SystemSpec => []KeptCapturesRecorded
<1>1. SystemInit => KeptCapturesRecorded
  BY DEF SystemInit, KeptCapturesRecorded
<1>2. /\ TypeInv /\ CaptureInv /\ SystemInv /\ Breaker!TypeOK /\ KeptCapturesRecorded
      /\ [SystemNext]_systemVars
      => KeptCapturesRecorded'
  BY NextCapturesRecorded DEF CaptureInv
<1> QED BY <1>1, <1>2, SystemIsGateway, TypeInvariant, CaptureInvariant, SystemInvariant,
           BreakerInvariants, PTL DEF SystemSpec

\* The customer is charged once for a payment, through declines, timeouts, an
\* open breaker, any number of retries, crashes and shutdowns, unless one of
\* these loses the outcome of the charge.
THEOREM ChargedOnceUnlessLost ==
    ASSUME Hooks = {}, "dbError" \notin Faults
    PROVE  SystemSpec => CapturedAgainOnlyIfLost
<1>1. TypeInv /\ HeldInv /\ KeptCapturesRecorded /\ [SystemNext]_systemVars =>
          [\A j \in Jobs : Approved(j) => job[j].pay \notin capturesKept]_systemVars
  <2> SUFFICES ASSUME HeldInv, KeptCapturesRecorded, NEW j \in Jobs, Approved(j),
                      job[j].pay \in capturesKept
               PROVE  FALSE
    OBVIOUS
  <2>1. job[j].pc = "charging" /\ payments[job[j].pay].status = "PROCESSING"
    BY DEF Approved, ChargeSucceeds, HeldInv, HeldProcessing, Working
  <2>2. PICK k \in Jobs : job[k].pay = job[j].pay /\ job[k].pc = "succeeded"
    BY <2>1 DEF KeptCapturesRecorded
  <2>3. k = j
    BY <2>1, <2>2 DEF HeldInv, AtMostOneProcessing, Working
  <2> QED BY <2>1, <2>2, <2>3
<1> QED BY <1>1, SystemIsGateway, TypeInvariant, HeldInvariant, CapturesRecorded, PTL
        DEF SystemSpec, CapturedAgainOnlyIfLost

-----------------------------------------------------------------------------
(* The gateway is not asked more often than the budget allows. While a     *)
(* payment waits, it was asked once per failure recorded in retryCount at  *)
(* most; while it is in work, once more at most if its worker has asked,   *)
(* and no other worker is there to ask (QueueMatchesStore).                *)

\* The worker of j has asked the gateway and its answer is not on record.
Spent(j) ==
    \/ job[j].pc \in {"succeeded", "failing", "catching"}
    \/ job[j].pc = "charging" /\ call[j] # "idle"

Fits(p) ==
    /\ asked[p] <= MaxAttempts
    /\ payments[p].status = "ABSENT" => asked[p] = 0
    /\ payments[p].status \in {"PENDING", "PROCESSING"} =>
          \/ asked[p] <= payments[p].retryCount
          \/ \E j \in Jobs : job[j].pay = p /\ Spent(j) /\ asked[p] <= job[j].attempt

AskedInv == \A p \in Payments : Fits(p)

\* The slot j keeps what it has spent.
KeepsSpent(j) ==
    Spent(j) => Spent(j)' /\ job'[j].pay = job[j].pay /\ job'[j].attempt = job[j].attempt

LEMMA FitsKept ==
    ASSUME NEW p \in Payments, Fits(p), asked'[p] = asked[p], payments'[p] = payments[p],
           \A k \in Jobs : job[k].pay = p => KeepsSpent(k)
    PROVE  Fits(p)'
BY DEF Fits, KeepsSpent

LEMMA UnaskedFits ==
    ASSUME DocumentsOK', NEW p \in Payments, asked'[p] = 0
    PROVE  Fits(p)'
<1>1. payments'[p].retryCount \in 0..MaxAttempts
  BY DEF DocumentsOK, Documents, Document
<1> QED BY <1>1, MaxAttemptsAssumption DEF Fits

LEMMA WaitingFits ==
    ASSUME NEW p \in Payments, asked'[p] <= MaxAttempts, payments'[p].status # "ABSENT",
           payments'[p].status \in {"PENDING", "PROCESSING"} => asked'[p] <= payments'[p].retryCount
    PROVE  Fits(p)'
BY DEF Fits

\* Of the entries for a payment only one can have asked, and it is at work.
LEMMA OneSpent ==
    ASSUME QueueMatchesStore, NEW j \in Jobs, job[j].pc \in Live
    PROVE  \A k \in Jobs : job[k].pay = job[j].pay /\ Spent(k) => k = j
BY DEF QueueMatchesStore, OneEntryEach, Spent, Live, Working

\* While the entry of a payment waits, the failures on record count what was asked.
LEMMA WaitingCounts ==
    ASSUME QueueMatchesStore, AskedInv, NEW j \in Jobs, NEW q \in Payments, job[j].pay = q,
           job[j].pc \in Live, ~Spent(j), payments[q].status \in {"PENDING", "PROCESSING"}
    PROVE  asked[q] <= payments[q].retryCount
BY OneSpent DEF AskedInv, Fits

LEMMA QueueStepAsked ==
    ASSUME TypeInv, QueueMatchesStore, SystemInv, AskedInv, NEW j \in Jobs, QueueStep(j),
           ~ChargeSucceeds(j), ~ChargeFails(j), UNCHANGED call, UNCHANGED asked
    PROVE  AskedInv'
<1> PICK q \in Payments : q = job[j].pay
  BY QueueStepBusy
<1>0. /\ DocumentsOK /\ SlotsOK
      /\ payments \in Documents /\ job \in [Jobs -> JobState]
  BY DEF TypeInv, DocumentsOK, SlotsOK
<1>1. \A k \in Jobs \ {j} : job'[k] = job[k]
  BY <1>0 DEF QueueStep, Enqueue, BackoffElapses, ProcessJob, Claim, ClaimMisses, RecordSuccess,
     GiveUp, ScheduleRetry, Requeue, Return
<1>2. \A k \in Jobs \ {j} : KeepsSpent(k)
  BY <1>1 DEF KeepsSpent, Spent
<1>3. OnlyAt(q)
  BY <1>0, ClaimedEffect, RecordedEffect, AbandonedEffect, RescheduledEffect
  DEF QueueStep, Enqueue, BackoffElapses, ProcessJob, Claim, ClaimMisses, RecordSuccess,
      GiveUp, ScheduleRetry, Requeue, Return, OnlyAt
<1>4. \A p \in Payments \ {q} : Fits(p)'
  BY <1>2, <1>3, FitsKept DEF OnlyAt, AskedInv
<1>5. asked'[q] <= MaxAttempts /\ asked[q] \in Nat
  BY <1>0 DEF AskedInv, Fits, SystemInv
<1>6. Fits(q)'
  <2>1. CASE \/ Enqueue(j) \/ BackoffElapses(j) \/ ClaimMisses(j) \/ Requeue(j) \/ Return(j)
    <3>1. UNCHANGED payments /\ ~Spent(j)
      BY <2>1 DEF Enqueue, BackoffElapses, ClaimMisses, Requeue, Return, Spent
    <3>2. \A k \in Jobs : KeepsSpent(k)
      BY <1>2, <3>1 DEF KeepsSpent
    <3> QED BY <1>0, <3>1, <3>2, FitsKept DEF AskedInv
  <2>2. CASE Claim(j)
    <3>1. /\ job[j].pc \in Live /\ ~Spent(j) /\ payments[q].status = "PENDING"
      BY <2>2 DEF Claim, Claimable, Spent, Live, Waiting
    <3>2. asked[q] <= payments[q].retryCount
      BY <1>0, <3>1, WaitingCounts
    <3>3. /\ payments'[q].status = "PROCESSING"
          /\ payments'[q].retryCount = payments[q].retryCount
      BY <1>0, <2>2, ClaimedEffect DEF Claim
    <3> QED BY <1>0, <1>5, <3>2, <3>3, WaitingFits
  <2>3. CASE RecordSuccess(j)
    <3>1. payments'[q].status = "SUCCESS"
      BY <1>0, <2>3, RecordedEffect DEF RecordSuccess
    <3> QED BY <1>0, <1>5, <3>1, WaitingFits
  <2>4. CASE GiveUp(j) \/ ScheduleRetry(j)
    <3>1. /\ job[j].pc \in Live /\ payments[q].status = "PROCESSING"
          /\ job[j].attempt = payments[q].retryCount + 1
      BY <2>4 DEF GiveUp, ScheduleRetry, QueueMatchesStore, EntriesMatch, Live, Working
    <3>2. \/ payments'[q].status = "FAILED"
          \/ payments'[q].status = "PENDING" /\ payments'[q].retryCount = job[j].attempt
      BY <1>0, <2>4, <3>1, AbandonedEffect, RescheduledEffect DEF GiveUp, ScheduleRetry
    <3>3. asked[q] <= payments[q].retryCount \/ asked[q] <= job[j].attempt
      BY <1>0, <3>1, OneSpent DEF AskedInv, Fits
    <3>4. payments[q].retryCount \in Nat
      BY <1>0 DEF Documents, Document
    <3>5. asked[q] <= job[j].attempt
      BY <1>5, <3>1, <3>3, <3>4
    <3> QED BY <1>0, <1>5, <3>2, <3>5, WaitingFits
  <2> QED BY <2>1, <2>2, <2>3, <2>4 DEF QueueStep, ProcessJob
<1> QED BY <1>4, <1>6 DEF AskedInv

LEMMA RequestAsked ==
    ASSUME TypeInv, TypeInv', QueueMatchesStore, AskedInv, NEW q \in Payments, NEW j \in Jobs,
           PaymentRequest(q, j), UNCHANGED call,
           \A p \in Payments :
              asked'[p] = IF payments[p].status = "FAILED" /\ payments'[p].status = "PENDING"
                          THEN 0 ELSE asked[p]
    PROVE  AskedInv'
<1>0. SlotsOK /\ payments \in Documents
  BY DEF TypeInv, DocumentsOK
<1>1. job[j].pc = "free" /\ \A k \in Jobs \ {j} : job'[k] = job[k]
  BY <1>0, RequestGivesSlot
<1>2. OnlyAt(q) /\ payments'[q].status = "PENDING" /\ payments[q].status \in {"ABSENT", "FAILED"}
  BY <1>0, CreatedEffect, ReopenedEffect
  DEF PaymentRequest, CreatePayment, RetryFailedPayment, Exists, Reopenable
<1>3. \A k \in Jobs : KeepsSpent(k)
  BY <1>1 DEF KeepsSpent, Spent
<1>4. \A p \in Payments \ {q} : Fits(p)'
  <2> SUFFICES ASSUME NEW p \in Payments \ {q} PROVE Fits(p)'
    OBVIOUS
  <2>1. payments'[p] = payments[p]
    BY <1>2 DEF OnlyAt
  <2>2. asked'[p] = asked[p]
    BY <2>1
  <2> QED BY <1>3, <2>1, <2>2, FitsKept DEF AskedInv
<1>5. asked'[q] = 0
  BY <1>2 DEF AskedInv, Fits
<1> QED BY <1>4, <1>5, UnaskedFits DEF AskedInv, TypeInv

\* Only a request reopens a FAILED payment.
LEMMA QueueStepNotReopening ==
    ASSUME TypeInv, QueueMatchesStore, NEW j \in Jobs, QueueStep(j), NEW p \in Payments,
           payments[p].status = "FAILED"
    PROVE  payments'[p].status # "PENDING"
<1>0. /\ payments \in Documents /\ job \in [Jobs -> JobState] /\ job[j].pay \in Payments
  BY QueueStepBusy DEF TypeInv, DocumentsOK, SlotsOK
<1>1. CASE UNCHANGED payments
  BY <1>1
<1>2. CASE Claim(j)
  BY <1>0, <1>2, ClaimedEffect DEF Claim, OnlyAt
<1>3. CASE RecordSuccess(j)
  BY <1>0, <1>3, RecordedEffect DEF RecordSuccess, OnlyAt
<1>4. CASE GiveUp(j) \/ ScheduleRetry(j)
  BY <1>0, <1>4, AbandonedEffect, RescheduledEffect DEF GiveUp, ScheduleRetry, OnlyAt
<1> QED
  BY <1>1, <1>2, <1>3, <1>4
  DEF QueueStep, Enqueue, BackoffElapses, ProcessJob, ClaimMisses, ChargeSucceeds, ChargeFails,
      Requeue, Return

LEMMA ServerStepAsked ==
    ASSUME Hooks = {}, "dbError" \notin Faults, TypeInv, TypeInv', QueueMatchesStore,
           SystemInv, AskedInv, ServerStep
    PROVE  AskedInv'
<1>1. \A p \in Payments :
          asked'[p] = IF \/ server' = "down"
                         \/ payments[p].status = "FAILED" /\ payments'[p].status = "PENDING"
                      THEN 0 ELSE asked[p]
  BY DEF ServerStep
<1>2. CASE server' = "down"
  BY <1>1, <1>2, UnaskedFits DEF AskedInv, TypeInv
<1>3. CASE server' # "down"
  <2>0. UNCHANGED call
    BY <1>3 DEF ServerStep, BreakerStep, breakerState
  <2>1. asked \in [Payments -> Nat] /\ asked' = [p \in Payments |-> asked'[p]]
    BY DEF SystemInv, ServerStep
  <2>2. CASE Recover
    <3> SUFFICES ASSUME NEW p \in Payments PROVE Fits(p)'
      BY DEF AskedInv
    <3>1. \A k \in Jobs : ~Spent(k)
      BY <2>2 DEF Recover, TypeInv, IdleWhenDown, Spent
    <3>2. payments \in Documents /\ payments' = Recovered
      BY <2>2 DEF TypeInv, DocumentsOK, Recover
    <3>3. asked'[p] = asked[p]
      BY <1>1, <1>3, <3>2, RecoveredEffect
    <3>4. CASE payments[p].status = "PROCESSING"
      <4>1. asked[p] <= MaxAttempts /\ asked[p] <= payments[p].retryCount
        BY <3>1, <3>4 DEF AskedInv, Fits
      <4>2. /\ payments'[p].status = "PENDING"
            /\ payments'[p].retryCount = payments[p].retryCount
        BY <3>2, <3>4, RecoveredEffect
      <4> QED BY <3>3, <4>1, <4>2, WaitingFits
    <3>5. CASE payments[p].status # "PROCESSING"
      <4>1. payments'[p] = payments[p]
        BY <3>2, <3>5, RecoveredEffect
      <4> QED BY <3>1, <3>3, <4>1, FitsKept DEF AskedInv, KeepsSpent
    <3> QED BY <3>4, <3>5
  <2>3. CASE StartWithoutRecovery \/ StartAfterRecovery \/ Shutdown \/ QueueTick
    <3>1. UNCHANGED payments
      BY <2>3 DEF StartWithoutRecovery, StartAfterRecovery, Shutdown, QueueTick, Tick
    <3>2. \A k \in Jobs : KeepsSpent(k)
      <4>1. CASE StartWithoutRecovery \/ Shutdown
        BY <2>0, <4>1 DEF StartWithoutRecovery, Shutdown, KeepsSpent, Spent
      <4>2. CASE StartAfterRecovery
        BY <4>2 DEF StartAfterRecovery, TypeInv, IdleWhenDown, KeepsSpent, Spent
      <4>3. CASE QueueTick
        BY <2>0, <4>3, TickSlots DEF TypeInv, KeepsSpent, Spent
      <4> QED BY <2>3, <4>1, <4>2, <4>3
    <3>3. \A p \in Payments : asked'[p] = asked[p]
      BY <1>1, <1>3, <3>1
    <3> QED BY <3>1, <3>2, <3>3, FitsKept DEF AskedInv
  <2>4. CASE \E p \in Payments, j \in Jobs : PaymentRequest(p, j)
    BY <1>1, <1>3, <2>0, <2>4, RequestAsked
  <2>5. CASE \E j \in Jobs : QueueStep(j)
    <3>1. PICK j \in Jobs : QueueStep(j)
      BY <2>5
    <3>2. ~ChargeSucceeds(j) /\ ~ChargeFails(j)
      BY DEF ServerStep
    <3>3. \A p \in Payments : ~(payments[p].status = "FAILED" /\ payments'[p].status = "PENDING")
      BY <3>1, <3>2, QueueStepNotReopening
    <3>4. UNCHANGED asked
      BY <1>1, <1>3, <2>1, <3>3
    <3> QED BY <2>0, <3>1, <3>2, <3>4, QueueStepAsked
  <2> QED
    BY <1>3, <2>2, <2>3, <2>4, <2>5
    DEF ServerStep, Next, Crash, StartFails, Exit, UnhandledRejection, PaymentRequestRejects,
        QueueUpdateRejects, Die
<1> QED BY <1>2, <1>3

LEMMA ChargeAsked ==
    ASSUME TypeInv, Breaker!TypeOK, QueueMatchesStore, SystemInv, AskedInv, NEW j \in Jobs,
           Charge(j)
    PROVE  AskedInv'
<1>0. /\ SlotsOK /\ job \in [Jobs -> JobState] /\ payments \in Documents
      /\ call \in [Jobs -> Breaker!CallState]
  BY DEF TypeInv, DocumentsOK, SlotsOK, Breaker!TypeOK
<1>1. job[j].pc = "charging" /\ \A k \in Jobs \ {j} : job'[k] = job[k]
  BY <1>0, ChargeMoves
<1> PICK q \in Payments : q = job[j].pay
  BY <1>0, <1>1 DEF SlotsOK
<1>2. job[j].pc \in Live
  BY <1>1 DEF Live, Working
<1>3. CASE Ask(j)
  <2>1. /\ UNCHANGED <<payments, job>> /\ call[j] = "idle" /\ call'[j] # "idle"
        /\ \A k \in Jobs : call[k] # "idle" => call'[k] # "idle"
    BY <1>0, <1>3 DEF Ask, Admitted, queueVars, Breaker!ExecuteClosed, Breaker!ExecuteHalfOpen,
       Breaker!Admitted
  <2>2. /\ asked'[q] = asked[q] + 1 /\ asked[q] \in Nat
        /\ \A p \in Payments \ {q} : asked'[p] = asked[p]
    BY <1>2, <1>3 DEF Ask, SystemInv
  <2>3. \A k \in Jobs : KeepsSpent(k)
    BY <2>1 DEF KeepsSpent, Spent
  <2>4. \A p \in Payments \ {q} : Fits(p)'
    BY <2>1, <2>2, <2>3, FitsKept DEF AskedInv
  <2>5. payments[q].status = "PROCESSING" /\ job[j].attempt = payments[q].retryCount + 1
    BY <1>1 DEF QueueMatchesStore, EntriesMatch, Working
  <2>6. asked[q] <= payments[q].retryCount
    BY <1>1, <1>2, <2>1, <2>5, WaitingCounts DEF Spent
  <2>7. /\ job[j].attempt \in 0..MaxAttempts /\ payments[q].retryCount \in Nat
    BY <1>0, <1>2 DEF JobState, Documents, Document
  <2>8. asked'[q] <= job[j].attempt /\ asked'[q] <= MaxAttempts
    BY <2>2, <2>5, <2>6, <2>7, MaxAttemptsAssumption
  <2>9. Spent(j)' /\ job'[j].pay = q /\ job'[j].attempt = job[j].attempt
    BY <1>1, <2>1 DEF Spent
  <2>10. Fits(q)'
    <3>1. payments'[q].status = "PROCESSING"
      BY <2>1, <2>5
    <3> QED BY <2>8, <2>9, <3>1 DEF Fits
  <2> QED BY <2>4, <2>10 DEF AskedInv
<1>4. CASE Capture(j) \/ ChargeWithoutCapture(j)
  <2>1. UNCHANGED asked /\ (ChargeSucceeds(j) \/ ChargeFails(j))
    BY <1>4 DEF Capture, ChargeWithoutCapture, Approved, Rejected, Declined, TimedOut
  <2>2. /\ UNCHANGED payments /\ job'[j].pc \in {"succeeded", "failing"}
        /\ job'[j].pay = q /\ job'[j].attempt = job[j].attempt
    BY <1>0, <2>1 DEF ChargeSucceeds, ChargeFails, JobState
  <2>3. \A k \in Jobs \ {j} : call'[k] = call[k]
    BY <1>0, <1>4 DEF Capture, ChargeWithoutCapture, Approved, Rejected, Declined, TimedOut,
       Breaker!OnSuccess, Breaker!OnFailure, Breaker!ExecuteHalfOpen, breakerState
  <2>4. \A k \in Jobs : KeepsSpent(k)
    BY <1>1, <2>2, <2>3 DEF KeepsSpent, Spent
  <2> QED BY <2>1, <2>2, <2>4, FitsKept DEF AskedInv
<1> QED BY <1>3, <1>4 DEF Charge

\* Through declines, timeouts, an open breaker, backoffs, crashes and recoveries the
\* gateway is asked for a payment at most maxAttempts times until somebody retries
\* it by hand or the process ends, for any limit and any number of workers.
THEOREM GatewayAskedWithinBudget ==
    ASSUME Hooks = {}, "dbError" \notin Faults
    PROVE  SystemSpec => []AskedWithinBudget
<1>1. SystemInit => AskedInv
  <2> SUFFICES ASSUME SystemInit PROVE AskedInv
    OBVIOUS
  <2>1. \A p \in Payments : asked[p] = 0 /\ payments[p].status = "ABSENT"
    BY DEF SystemInit, Init, StoreInit, NoDocument
  <2>2. 0 <= MaxAttempts
    BY MaxAttemptsAssumption
  <2>3. ASSUME NEW p \in Payments PROVE Fits(p)
    <3>1. asked[p] = 0 /\ payments[p].status = "ABSENT"
      BY <2>1
    <3> QED BY <2>2, <3>1 DEF Fits
  <2> QED BY <2>3 DEF AskedInv
<1>2. /\ TypeInv /\ TypeInv' /\ Breaker!TypeOK /\ QueueMatchesStore /\ SystemInv /\ AskedInv
      /\ [SystemNext]_systemVars
      => AskedInv'
  <2> SUFFICES ASSUME TypeInv, TypeInv', Breaker!TypeOK, QueueMatchesStore, SystemInv, AskedInv,
                      [SystemNext]_systemVars
               PROVE  AskedInv'
    OBVIOUS
  <2>1. CASE UNCHANGED systemVars \/ Clock
    BY <2>1 DEF systemVars, vars, breakerState, Clock, Breaker!TimeoutElapses, AskedInv, Fits,
       Spent
  <2>2. CASE ServerStep
    BY <2>2, ServerStepAsked
  <2> QED BY <2>1, <2>2, ChargeAsked DEF SystemNext, Charge
<1>3. AskedInv => AskedWithinBudget
  BY DEF AskedInv, Fits, AskedWithinBudget
<1> QED BY <1>1, <1>2, <1>3, SystemIsGateway, TypeInvariant, BreakerInvariants, SystemInvariant,
           QueueAndStoreAgree, PTL DEF SystemSpec
=============================================================================
