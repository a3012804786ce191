--------------------------- MODULE AttemptsProofs ---------------------------
(***************************************************************************)
(* Proof that PaymentGateway implements PaymentAttempts when no webhook    *)
(* arrives and no update rejects. What QueueProofs shows is what makes the *)
(* overlap of workers, entries and ticks invisible: the worker that makes  *)
(* a step is the only one its payment has.                                 *)
(***************************************************************************)
EXTENDS QueueProofs

-----------------------------------------------------------------------------
(* The view of one payment.                                                *)

\* Only the view of q changes, to phase s and n failures.
Enters(q, s, n) ==
    /\ Phase(q)' = s /\ payments'[q].retryCount = n
    /\ \A p \in Payments \ {q} :
          Phase(p)' = Phase(p) /\ payments'[p].retryCount = payments[p].retryCount

ViewUnchanged ==
    \A p \in Payments : Phase(p)' = Phase(p) /\ payments'[p].retryCount = payments[p].retryCount

LEMMA EntersMaps ==
    ASSUME NEW q \in Payments, NEW s, NEW n, Enters(q, s, n)
    PROVE  /\ Attempts!Enters(q, s)
           /\ [p \in Payments |-> payments'[p].retryCount]
                = [[p \in Payments |-> payments[p].retryCount] EXCEPT ![q] = n]
BY DEF Enters, Attempts!Enters

\* A step that counts no failure.
LEMMA EntersKeeps ==
    ASSUME NEW q \in Payments, NEW s, Enters(q, s, payments[q].retryCount)
    PROVE  /\ Attempts!Enters(q, s)
           /\ UNCHANGED [p \in Payments |-> payments[p].retryCount]
<1>1. \A p \in Payments : payments'[p].retryCount = payments[p].retryCount
  BY DEF Enters
<1> QED BY <1>1, EntersMaps

LEMMA ViewUnchangedMaps == ViewUnchanged => UNCHANGED Attempts!attemptVars
BY DEF ViewUnchanged, Attempts!attemptVars

\* Nobody captured p: its phase is its status.
LEMMA PlainPhase ==
    ASSUME NEW p \in Payments
    PROVE  /\ (\A k \in Jobs : job[k].pay = p => job[k].pc # "succeeded")
                  => Phase(p) = payments[p].status
           /\ (\A k \in Jobs : job'[k].pay = p => job'[k].pc # "succeeded")
                  => Phase(p)' = payments'[p].status
           /\ payments[p].status # "PROCESSING" => Phase(p) = payments[p].status
           /\ payments'[p].status # "PROCESSING" => Phase(p)' = payments'[p].status
BY DEF Phase

\* A step of slot j that writes at most the document of its payment q.
LEMMA SlotStepView ==
    ASSUME NEW j \in Jobs, NEW q \in Payments, OnlyAt(q),
           \A k \in Jobs \ {j} : job'[k] = job[k],
           job[j].pc # "free" => job[j].pay = q,
           job'[j].pc # "free" => job'[j].pay = q
    PROVE  \A p \in Payments \ {q} :
               Phase(p)' = Phase(p) /\ payments'[p].retryCount = payments[p].retryCount
<1> SUFFICES ASSUME NEW p \in Payments \ {q}
             PROVE  Phase(p)' = Phase(p) /\ payments'[p].retryCount = payments[p].retryCount
  OBVIOUS
<1>1. payments'[p] = payments[p]
  BY DEF OnlyAt
<1>2. \A k \in Jobs : (job'[k].pay = p /\ job'[k].pc = "succeeded")
                      <=> (job[k].pay = p /\ job[k].pc = "succeeded")
  OBVIOUS
<1> QED BY <1>1, <1>2 DEF Phase

\* Slots that captured nothing, before and after, do not show.
LEMMA UnseenStep ==
    ASSUME UNCHANGED payments,
           \A k \in Jobs : job[k].pc = "succeeded" \/ job'[k].pc = "succeeded" => job'[k] = job[k]
    PROVE  ViewUnchanged
<1> SUFFICES ASSUME NEW p \in Payments
             PROVE  Phase(p)' = Phase(p) /\ payments'[p].retryCount = payments[p].retryCount
  BY DEF ViewUnchanged
<1>1. \A k \in Jobs : (job'[k].pay = p /\ job'[k].pc = "succeeded")
                      <=> (job[k].pay = p /\ job[k].pc = "succeeded")
  OBVIOUS
<1> QED BY <1>1 DEF Phase

LEMMA AbandonedCount ==
    ASSUME payments \in Documents, job \in [Jobs -> JobState], NEW j \in Jobs,
           NEW q \in Payments, job[j].pay = q, payments[q].status = "PROCESSING",
           payments' = Abandoned(j)
    PROVE  payments'[q].status = "FAILED" /\ payments'[q].retryCount = job[j].attempt
BY DEF Documents, Abandoned, FindOneAndUpdate, Document

-----------------------------------------------------------------------------
(* The steps.                                                              *)

LEMMA QueueStepMaps ==
    ASSUME TypeInv, QueueMatchesStore, NEW j \in Jobs, QueueStep(j)
    PROVE  [Attempts!Next]_(Attempts!attemptVars)
<1> PICK q \in Payments : q = job[j].pay
  BY QueueStepBusy
<1>0. /\ DocumentsOK /\ SlotsOK /\ payments \in Documents /\ job \in [Jobs -> JobState]
      /\ payments[q].retryCount \in 0..MaxAttempts /\ job[j].attempt \in 0..MaxAttempts
  BY DEF TypeInv, DocumentsOK, SlotsOK, Documents, Document, JobState
<1>a. job[j].pc \in Live =>
          \A k \in Jobs \ {j} : job[k].pay = q => job[k].pc # "succeeded"
  BY <1>0, AloneWithPayment DEF Live, Working
<1>b. /\ job[j].pc \in Waiting => payments[q].status = "PENDING"
      /\ job[j].pc \in Working => /\ payments[q].status = "PROCESSING"
                                  /\ job[j].attempt = payments[q].retryCount + 1
  BY DEF QueueMatchesStore, EntriesMatch
<1>1. CASE \/ Enqueue(j) \/ BackoffElapses(j) \/ ClaimMisses(j) \/ ChargeFails(j)
           \/ Requeue(j) \/ Return(j)
  <2>1. UNCHANGED payments /\ job[j].pc # "succeeded" /\ \A k \in Jobs \ {j} : job'[k] = job[k]
    BY <1>0, <1>1 DEF Enqueue, BackoffElapses, ClaimMisses, ChargeFails, Requeue, Return
  <2>2. job'[j].pc # "succeeded"
    BY <1>0, <1>1, FreeSlotTyped
    DEF Enqueue, BackoffElapses, ClaimMisses, ChargeFails, Requeue, Return, Slot, JobState
  <2> QED BY <2>1, <2>2, UnseenStep, ViewUnchangedMaps
<1>2. CASE Claim(j)
  <2>1. /\ OnlyAt(q) /\ Moves(j, "charging") /\ payments[q].status = "PENDING"
        /\ payments'[q].status = "PROCESSING" /\ payments'[q].retryCount = payments[q].retryCount
    BY <1>0, <1>2, ClaimedEffect, ClaimMoves DEF Claim, Claimable
  <2>2. job[j].pc \in Live
    BY <1>2 DEF Claim, Live, Waiting
  <2>3. \A k \in Jobs : job'[k].pay = q => job'[k].pc # "succeeded"
    BY <1>a, <2>1, <2>2 DEF Moves
  <2>4. Phase(q) = "PENDING" /\ Phase(q)' = "PROCESSING"
    BY <2>1, <2>3, PlainPhase
  <2>5. Enters(q, "PROCESSING", payments[q].retryCount)
    BY <2>1, <2>4, SlotStepView DEF Moves, Enters
  <2>6. Attempts!Begin(q)
    BY <2>4, <2>5, EntersKeeps DEF Attempts!Begin
  <2> QED BY <2>6 DEF Attempts!Next
<1>3. CASE ChargeSucceeds(j)
  <2>1. /\ UNCHANGED payments /\ Moves(j, "succeeded") /\ job[j].pc = "charging"
    BY <1>0, <1>3, MovesEffect DEF ChargeSucceeds, JobPC
  <2>2. job[j].pc \in Live /\ payments[q].status = "PROCESSING"
    BY <1>b, <2>1 DEF Live, Working
  <2>3. Phase(q) = "PROCESSING"
    BY <1>a, <2>1, <2>2, PlainPhase
  <2>4. Phase(q)' = "CAPTURED"
    BY <2>1, <2>2 DEF Phase, Moves
  <2>5. Enters(q, "CAPTURED", payments[q].retryCount)
    BY <1>0, <2>1, <2>4, SlotStepView DEF Moves, Enters, OnlyAt
  <2>6. Attempts!Capture(q)
    BY <2>3, <2>5, EntersKeeps DEF Attempts!Capture
  <2> QED BY <2>6 DEF Attempts!Next
<1>4. CASE RecordSuccess(j)
  <2>1. /\ OnlyAt(q) /\ Moves(j, "returning") /\ job[j].pc = "succeeded"
        /\ payments'[q].status = "SUCCESS"
    BY <1>0, <1>4, RecordedEffect, MovesEffect DEF RecordSuccess, JobPC
  <2>2. payments'[q].retryCount = payments[q].retryCount
    BY <1>0, <1>4 DEF RecordSuccess, Recorded, Documents, Document
  <2>3. Phase(q) = "CAPTURED" /\ Phase(q)' = "SUCCESS"
    BY <1>b, <2>1 DEF Phase, Working
  <2>4. Enters(q, "SUCCESS", payments[q].retryCount)
    BY <2>1, <2>2, <2>3, SlotStepView DEF Moves, Enters
  <2>5. Attempts!Record(q)
    BY <2>3, <2>4, EntersKeeps DEF Attempts!Record
  <2> QED BY <2>5 DEF Attempts!Next
<1>5. CASE GiveUp(j) \/ ScheduleRetry(j)
  <2>1. /\ job[j].pc \in Live /\ job[j].pc # "succeeded" /\ payments[q].status = "PROCESSING"
        /\ job[j].attempt = payments[q].retryCount + 1
    BY <1>5, <1>b DEF GiveUp, ScheduleRetry, Live, Working
  <2>2. Phase(q) = "PROCESSING"
    BY <1>a, <2>1, PlainPhase
  <2>3. CASE GiveUp(j)
    <3>1. /\ OnlyAt(q) /\ Moves(j, "returning") /\ payments'[q].status = "FAILED"
          /\ payments'[q].retryCount = payments[q].retryCount + 1
      BY <1>0, <2>1, <2>3, AbandonedEffect, AbandonedCount, MovesEffect DEF GiveUp, JobPC
    <3>2. payments[q].retryCount + 1 = MaxAttempts
      BY <1>0, <2>1, <2>3, MaxAttemptsAssumption DEF GiveUp, Exhausted
    <3>3. Enters(q, "FAILED", payments[q].retryCount + 1)
      BY <2>1, <3>1, SlotStepView, PlainPhase DEF Moves, Enters
    <3>4. Attempts!Fail(q)
      BY <2>2, <3>2, <3>3, EntersMaps DEF Attempts!Fail
    <3> QED BY <3>4 DEF Attempts!Next
  <2>4. CASE ScheduleRetry(j)
    <3>1. /\ OnlyAt(q) /\ Moves(j, "requeueing") /\ payments'[q].status = "PENDING"
          /\ payments'[q].retryCount = payments[q].retryCount + 1
      BY <1>0, <2>1, <2>4, RescheduledEffect, MovesEffect DEF ScheduleRetry, JobPC
    <3>2. payments[q].retryCount + 1 < MaxAttempts
      BY <1>0, <2>1, <2>4, MaxAttemptsAssumption DEF ScheduleRetry, Exhausted
    <3>3. Enters(q, "PENDING", payments[q].retryCount + 1)
      BY <2>1, <3>1, SlotStepView, PlainPhase DEF Moves, Enters
    <3>4. Attempts!Retry(q)
      BY <2>2, <3>2, <3>3, EntersMaps DEF Attempts!Retry
    <3> QED BY <3>4 DEF Attempts!Next
  <2> QED BY <1>5, <2>3, <2>4
<1> QED
  BY <1>1, <1>2, <1>3, <1>4, <1>5 DEF QueueStep, ProcessJob

LEMMA RequestMaps ==
    ASSUME TypeInv, NEW q \in Payments, NEW j \in Jobs, PaymentRequest(q, j)
    PROVE  [Attempts!Next]_(Attempts!attemptVars)
<1>0. SlotsOK /\ payments \in Documents
  BY DEF TypeInv, DocumentsOK
<1>1. /\ job[j].pc = "free" /\ job'[j].pc = "enqueueing" /\ job'[j].pay = q
      /\ \A k \in Jobs \ {j} : job'[k] = job[k]
  BY <1>0, RequestGivesSlot
<1>2. /\ OnlyAt(q) /\ payments'[q].status = "PENDING" /\ payments'[q].retryCount = 0
      /\ payments[q].status \in {"ABSENT", "FAILED"}
  BY <1>0, CreatedEffect, ReopenedEffect
  DEF PaymentRequest, CreatePayment, RetryFailedPayment, Exists, Reopenable
<1>3. Phase(q) \in {"ABSENT", "FAILED"}
  BY <1>2, PlainPhase
<1>4. Enters(q, "PENDING", 0)
  BY <1>1, <1>2, SlotStepView, PlainPhase DEF Enters
<1>5. Attempts!Submit(q)
  BY <1>3, <1>4, EntersMaps DEF Attempts!Submit
<1> QED BY <1>5 DEF Attempts!Next

LEMMA NextAttempts ==
    ASSUME Hooks = {}, "dbError" \notin Faults, TypeInv, QueueMatchesStore, [Next]_vars
    PROVE  [Attempts!Next]_(Attempts!attemptVars)
<1>1. CASE UNCHANGED vars \/ StartWithoutRecovery \/ Shutdown
  BY <1>1, UnseenStep, ViewUnchangedMaps DEF vars, StartWithoutRecovery, Shutdown
<1>2. CASE Recover
  <2>1. /\ \A k \in Jobs : job[k].pc # "succeeded" /\ job'[k].pc # "succeeded"
        /\ payments \in Documents /\ payments' = Recovered
    BY <1>2 DEF Recover, TypeInv, IdleWhenDown, DocumentsOK
  <2>2. \A p \in Payments : Phase(p) = payments[p].status /\ Phase(p)' = payments'[p].status
    BY <2>1, PlainPhase
  <2>3. \A p \in Payments :
            /\ Phase(p) # "CAPTURED"
            /\ Phase(p)' = IF Phase(p) = "PROCESSING" THEN "PENDING" ELSE Phase(p)
            /\ payments'[p].retryCount = payments[p].retryCount
    BY <2>1, <2>2, RecoveredEffect DEF Documents, Document, PaymentStatus
  <2>4. Attempts!Recover
    BY <2>3 DEF Attempts!Recover
  <2> QED BY <2>4 DEF Attempts!Next
<1>3. CASE Crash \/ Exit
  <2>1. UNCHANGED payments /\ \A k \in Jobs : job'[k].pc # "succeeded"
    BY <1>3 DEF Crash, Exit, Die, FreeSlot
  <2>2. \A p \in Payments : Phase(p)' = payments[p].status
    BY <2>1, PlainPhase
  <2>3. \A p \in Payments :
            payments[p].status = IF Phase(p) = "CAPTURED" THEN "PROCESSING" ELSE Phase(p)
    BY DEF TypeInv, DocumentsOK, Documents, Document, PaymentStatus, Phase
  <2>4. Attempts!Forget
    BY <2>1, <2>2, <2>3 DEF Attempts!Forget
  <2> QED BY <2>4 DEF Attempts!Next
<1>4. CASE StartAfterRecovery
  <2>1. UNCHANGED payments /\ \A k \in Jobs : job[k].pc # "succeeded"
    BY <1>4 DEF StartAfterRecovery, TypeInv, IdleWhenDown
  <2>2. \A k \in Jobs : job'[k].pc # "succeeded"
    BY <1>4, RecoverySlots
  <2> QED BY <2>1, <2>2, UnseenStep, ViewUnchangedMaps
<1>5. CASE \E p \in Payments, j \in Jobs : PaymentRequest(p, j)
  BY <1>5, RequestMaps
<1>6. CASE QueueTick
  <2>1. SlotsOK /\ UNCHANGED payments
    BY <1>6 DEF TypeInv, QueueTick, Tick
  <2>2. \A k \in Jobs :
            job[k].pc = "succeeded" \/ job'[k].pc = "succeeded" => job'[k] = job[k]
    BY <1>6, <2>1, TickSlots
  <2> QED BY <2>1, <2>2, UnseenStep, ViewUnchangedMaps
<1>7. CASE \E j \in Jobs : QueueStep(j)
  BY <1>7, QueueStepMaps
<1> QED
  BY <1>1, <1>2, <1>3, <1>4, <1>5, <1>6, <1>7
  DEF Next, StartFails, PaymentRequestRejects, QueueUpdateRejects, UnhandledRejection

\* Without webhooks and rejected updates the queue implements the attempts: whatever
\* entries, ticks, workers, crashes and recoveries of its payments interleave, each
\* failure is counted once, FAILED comes with the last attempt allowed and not
\* before, and a capture is recorded before anything else happens to its payment.
THEOREM AttemptsRefinement ==
    ASSUME Hooks = {}, "dbError" \notin Faults
    PROVE  Spec => ImplementsAttempts
<1>1. Init => Attempts!Init
  <2> SUFFICES ASSUME Init PROVE Attempts!Init
    OBVIOUS
  <2>1. \A p \in Payments : payments[p].status = "ABSENT" /\ payments[p].retryCount = 0
    BY DEF Init, StoreInit, NoDocument
  <2>2. \A p \in Payments : Phase(p) = "ABSENT"
    BY <2>1, PlainPhase
  <2> QED BY <2>1, <2>2 DEF Attempts!Init
<1>2. TypeInv /\ QueueMatchesStore /\ [Next]_vars => [Attempts!Next]_(Attempts!attemptVars)
  BY NextAttempts
<1> QED BY <1>1, <1>2, TypeInvariant, QueueAndStoreAgree, PTL
        DEF Spec, ImplementsAttempts, Attempts!Spec
=============================================================================
