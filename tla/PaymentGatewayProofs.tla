------------------------ MODULE PaymentGatewayProofs ------------------------
(***************************************************************************)
(* Proofs about PaymentGateway, for any number of payments, queue slots,   *)
(* webhook requests and attempts, and any set of faults.                   *)
(***************************************************************************)
EXTENDS PaymentGateway, TLAPS

-----------------------------------------------------------------------------
(* What the writes to a document do.                                       *)

Documents == [Payments -> Document]

\* Only the document of p is written.
OnlyAt(p) == /\ payments' \in Documents
             /\ \A q \in Payments \ {p} : payments'[q] = payments[q]

LEMMA NoDocumentTyped == NoDocument \in Document
BY MaxAttemptsAssumption DEF NoDocument, Document, NextRetryAt, TransactionId

LEMMA CreatedEffect ==
    ASSUME payments \in Documents, NEW p \in Payments,
           payments' = [payments EXCEPT ![p] = NewDocument]
    PROVE  /\ OnlyAt(p)
           /\ payments'[p].status = "PENDING"
           /\ payments'[p].retryCount = 0
           /\ payments'[p].transactionId = "unset"
<1>1. NewDocument \in Document
  BY NoDocumentTyped DEF NewDocument, Document, PaymentStatus
<1>2. /\ NewDocument.status = "PENDING"
      /\ NewDocument.retryCount = 0
      /\ NewDocument.transactionId = "unset"
  BY DEF NewDocument, NoDocument
<1> QED BY <1>1, <1>2 DEF OnlyAt, Documents

LEMMA ClaimedEffect ==
    ASSUME payments \in Documents, NEW p \in Payments, payments' = Claimed(p)
    PROVE  /\ OnlyAt(p)
           /\ payments'[p].status = "PROCESSING"
           /\ payments'[p].retryCount = payments[p].retryCount
           /\ payments'[p].transactionId = payments[p].transactionId
BY DEF OnlyAt, Documents, Claimed, Document, PaymentStatus

LEMMA RecordedEffect ==
    ASSUME payments \in Documents, NEW p \in Payments, payments' = Recorded(p)
    PROVE  /\ OnlyAt(p)
           /\ payments'[p].status = "SUCCESS"
           /\ payments'[p].transactionId = "gateway"
BY DEF OnlyAt, Documents, Recorded, Document, PaymentStatus, TransactionId

LEMMA ReopenedEffect ==
    ASSUME payments \in Documents, NEW p \in Payments, payments' = Reopened(p)
    PROVE  /\ OnlyAt(p)
           /\ payments'[p].status = "PENDING"
           /\ payments'[p].retryCount = 0
           /\ payments'[p].transactionId = payments[p].transactionId
<1> DEFINE next == payments[p].nextRetryAt
<1> PICK d : d = [payments[p] EXCEPT !.status = "PENDING", !.retryCount = 0, !.nextRetryAt = next]
  OBVIOUS
<1>0. payments[p] \in Document /\ next \in NextRetryAt /\ 0 \in 0..MaxAttempts
  BY MaxAttemptsAssumption DEF Documents, Document
<1>1. /\ d \in Document
      /\ d.status = "PENDING"
      /\ d.retryCount = 0
      /\ d.transactionId = payments[p].transactionId
  BY <1>0 DEF Document, PaymentStatus
<1>2. payments' = [payments EXCEPT ![p] = d]
  BY DEF Reopened, SetDefined
<1> QED BY <1>1, <1>2 DEF OnlyAt, Documents

LEMMA AbandonedEffect ==
    ASSUME payments \in Documents, job \in [Jobs -> JobState], NEW j \in Jobs,
           job[j].pay \in Payments, payments' = Abandoned(j)
    PROVE  /\ OnlyAt(job[j].pay)
           /\ payments[job[j].pay].status = "PROCESSING" =>
                 /\ payments'[job[j].pay].status = "FAILED"
                 /\ payments'[job[j].pay].transactionId = payments[job[j].pay].transactionId
           /\ payments[job[j].pay].status # "PROCESSING" =>
                 payments'[job[j].pay] = payments[job[j].pay]
BY DEF OnlyAt, Documents, Abandoned, FindOneAndUpdate, Document, PaymentStatus, JobState

LEMMA RescheduledEffect ==
    ASSUME payments \in Documents, job \in [Jobs -> JobState], NEW j \in Jobs,
           job[j].pay \in Payments, payments' = Rescheduled(j)
    PROVE  /\ OnlyAt(job[j].pay)
           /\ payments[job[j].pay].status = "PROCESSING" =>
                 /\ payments'[job[j].pay].status = "PENDING"
                 /\ payments'[job[j].pay].retryCount = job[j].attempt
                 /\ payments'[job[j].pay].transactionId = payments[job[j].pay].transactionId
           /\ payments[job[j].pay].status # "PROCESSING" =>
                 payments'[job[j].pay] = payments[job[j].pay]
<1> DEFINE p == job[j].pay
<1> PICK d : d = [payments[p] EXCEPT !.status = "PENDING", !.retryCount = job[j].attempt,
                                     !.nextRetryAt = "backoff"]
  OBVIOUS
<1>0. payments[p] \in Document /\ job[j].attempt \in 0..MaxAttempts /\ "backoff" \in NextRetryAt
  BY DEF Documents, JobState, NextRetryAt
<1>1. /\ d \in Document
      /\ d.status = "PENDING"
      /\ d.retryCount = job[j].attempt
      /\ d.transactionId = payments[p].transactionId
  BY <1>0 DEF Document, PaymentStatus
<1>2. payments' = [payments EXCEPT ![p] = IF payments[p].status = "PROCESSING"
                                           THEN d ELSE payments[p]]
  BY DEF Rescheduled, FindOneAndUpdate
<1> QED BY <1>1, <1>2 DEF OnlyAt, Documents

LEMMA HookTyped ==
    ASSUME hook \in [Hooks -> HookState], NEW h \in Hooks, hook[h] # NoHook
    PROVE  /\ hook[h].pay \in Payments
           /\ hook[h].seen \in {"PENDING", "PROCESSING"}
           /\ hook[h].target \in Settled
           /\ hook[h].txn \in {"unset", "webhook"}
BY DEF HookState

LEMMA NotifiedEffect ==
    ASSUME payments \in Documents, hook \in [Hooks -> HookState], NEW h \in Hooks,
           UpdateFromWebhook(h)
    PROVE  /\ hook[h].pay \in Payments
           /\ OnlyAt(hook[h].pay)
           /\ hook' \in [Hooks -> HookState]
           /\ payments[hook[h].pay].status = hook[h].seen =>
                 /\ payments[hook[h].pay].status \in {"PENDING", "PROCESSING"}
                 /\ payments'[hook[h].pay].status \in Settled
                 /\ payments'[hook[h].pay].transactionId
                        \in {payments[hook[h].pay].transactionId, "webhook"}
           /\ payments[hook[h].pay].status # hook[h].seen =>
                 payments'[hook[h].pay] = payments[hook[h].pay]
<1> DEFINE p == hook[h].pay
           d == Notified(payments[p], hook[h])
<1>1. /\ p \in Payments
      /\ hook[h].seen \in {"PENDING", "PROCESSING"}
      /\ hook[h].target \in Settled
      /\ hook[h].txn \in {"unset", "webhook"}
  BY HookTyped DEF UpdateFromWebhook
<1>2. /\ d \in Document
      /\ d.status = hook[h].target
      /\ d.transactionId \in {payments[p].transactionId, "webhook"}
  BY <1>1 DEF Documents, Notified, SetDefined, Document, Settled, PaymentStatus, TransactionId
<1>3. payments' = [payments EXCEPT ![p] = IF payments[p].status = hook[h].seen
                                           THEN d ELSE payments[p]]
  BY DEF UpdateFromWebhook, FindOneAndUpdate
<1>4. hook' \in [Hooks -> HookState]
  BY DEF UpdateFromWebhook, HookState
<1> HIDE DEF d
<1> QED BY <1>1, <1>2, <1>3, <1>4 DEF OnlyAt, Documents

LEMMA RecoveredEffect ==
    ASSUME payments \in Documents, payments' = Recovered
    PROVE  /\ payments' \in Documents
           /\ \A p \in Payments :
                 /\ payments[p].status = "PROCESSING" =>
                       /\ payments'[p].status = "PENDING"
                       /\ payments'[p].retryCount = payments[p].retryCount
                       /\ payments'[p].transactionId = payments[p].transactionId
                 /\ payments[p].status # "PROCESSING" => payments'[p] = payments[p]
BY DEF Documents, Recovered, Stuck, Document, PaymentStatus, NextRetryAt

-----------------------------------------------------------------------------
(* What the steps do to a slot.                                            *)

LEMMA PCEffect ==
    ASSUME job \in [Jobs -> JobState], NEW j \in Jobs, NEW pc \in JobPC,
           job' = [job EXCEPT ![j].pc = pc]
    PROVE  /\ job' \in [Jobs -> JobState]
           /\ job'[j].pc = pc /\ job'[j].pay = job[j].pay
           /\ \A k \in Jobs \ {j} : job'[k] = job[k]
BY DEF JobState

LEMMA ClaimEffect ==
    ASSUME job \in [Jobs -> JobState], NEW j \in Jobs, NEW n \in 0..MaxAttempts,
           job' = [job EXCEPT ![j].pc = "charging", ![j].attempt = n]
    PROVE  /\ job' \in [Jobs -> JobState]
           /\ job'[j].pc = "charging" /\ job'[j].pay = job[j].pay
           /\ \A k \in Jobs \ {j} : job'[k] = job[k]
BY DEF JobState, JobPC

LEMMA SlotTyped ==
    ASSUME NEW pc \in JobPC, NEW p \in Payments
    PROVE  Slot(pc, p) \in JobState /\ Slot(pc, p).pc = pc /\ Slot(pc, p).pay = p
BY MaxAttemptsAssumption DEF Slot, JobState

LEMMA FreeSlotTyped ==
    FreeSlot \in JobState /\ FreeSlot.pc = "free"
BY MaxAttemptsAssumption DEF FreeSlot, JobState, JobPC

-----------------------------------------------------------------------------
(* The invariant on types. The attempt a claim computes is in range only   *)
(* because a PENDING payment has an attempt left, so the budget belongs to *)
(* it; and a slot in use names a payment that exists, in a live process.   *)

DocumentsOK == payments \in Documents /\ RetryBudget

SlotsOK ==
    /\ job \in [Jobs -> JobState]
    /\ \A j \in Jobs : job[j].pc # "free" => job[j].pay \in Payments /\ Exists(job[j].pay)

RestOK ==
    /\ processing \subseteq Payments
    /\ running \in BOOLEAN
    /\ charges \in [Payments -> 0..2]
    /\ hook \in [Hooks -> HookState]
    /\ server \in ServerState

IdleWhenDown ==
    server \in {"down", "recovering"} =>
        /\ \A j \in Jobs : job[j].pc = "free"
        /\ processing = {}

TypeInv == DocumentsOK /\ SlotsOK /\ RestOK /\ IdleWhenDown

LEMMA TypeInvTypes == TypeInv => TypeOK /\ RetryBudget
BY DEF TypeInv, DocumentsOK, Documents, SlotsOK, RestOK, TypeOK

LEMMA InitTypeInv == Init => TypeInv
<1> SUFFICES ASSUME Init PROVE TypeInv
  OBVIOUS
<1>1. DocumentsOK
  BY NoDocumentTyped DEF Init, StoreInit, DocumentsOK, Documents, RetryBudget, NoDocument
<1>2. SlotsOK /\ IdleWhenDown
  BY FreeSlotTyped DEF Init, QueueInit, SlotsOK, IdleWhenDown
<1>3. hook \in [Hooks -> HookState]
  BY DEF Init, HookInit, HookState
<1>4. charges \in [Payments -> 0..2]
  BY DEF Init, QueueInit
<1>5. RestOK
  BY <1>3, <1>4 DEF Init, QueueInit, RestOK, ServerState
<1> QED BY <1>1, <1>2, <1>5 DEF TypeInv

\* No document disappears.
Kept == \A p \in Payments : Exists(p) => Exists(p)'

LEMMA OnlyAtOK ==
    ASSUME DocumentsOK, NEW p \in Payments, OnlyAt(p),
           \/ payments'[p] = payments[p]
           \/ payments'[p].status \in Settled
           \/ /\ payments'[p].status \in {"PENDING", "PROCESSING"}
              /\ payments'[p].retryCount < MaxAttempts
    PROVE  DocumentsOK' /\ Kept
BY DEF DocumentsOK, OnlyAt, Documents, RetryBudget, Kept, Exists, Settled

LEMMA UnchangedOK ==
    ASSUME DocumentsOK, UNCHANGED payments
    PROVE  DocumentsOK' /\ Kept
BY DEF DocumentsOK, RetryBudget, Kept, Exists

\* The update of scheduleRetry, whoever makes it.
LEMMA AbandonedOK ==
    ASSUME DocumentsOK, SlotsOK, NEW j \in Jobs, job[j].pc # "free", payments' = Abandoned(j)
    PROVE  DocumentsOK' /\ Kept
BY AbandonedEffect, OnlyAtOK DEF DocumentsOK, SlotsOK, Settled

LEMMA RescheduledOK ==
    ASSUME DocumentsOK, SlotsOK, NEW j \in Jobs, job[j].pc # "free", ~Exhausted(j),
           payments' = Rescheduled(j)
    PROVE  DocumentsOK' /\ Kept
<1>1. job[j].attempt < MaxAttempts
  BY MaxAttemptsAssumption DEF Exhausted, SlotsOK, JobState
<1> QED BY <1>1, RescheduledEffect, OnlyAtOK DEF DocumentsOK, SlotsOK

LEMMA ClaimedOK ==
    ASSUME DocumentsOK, NEW p \in Payments, Claimable(p), payments' = Claimed(p)
    PROVE  DocumentsOK' /\ Kept
<1>1. payments[p].retryCount < MaxAttempts
  BY DEF DocumentsOK, RetryBudget, Claimable
<1> QED BY <1>1, ClaimedEffect, OnlyAtOK DEF DocumentsOK

LEMMA RecordedOK ==
    ASSUME DocumentsOK, NEW p \in Payments, payments' = Recorded(p)
    PROVE  DocumentsOK' /\ Kept
BY RecordedEffect, OnlyAtOK DEF DocumentsOK, Settled

LEMMA ReopenedOK ==
    ASSUME DocumentsOK, NEW p \in Payments, payments' = Reopened(p)
    PROVE  DocumentsOK' /\ Kept
BY MaxAttemptsAssumption, ReopenedEffect, OnlyAtOK DEF DocumentsOK

LEMMA CreatedOK ==
    ASSUME DocumentsOK, NEW p \in Payments, payments' = [payments EXCEPT ![p] = NewDocument]
    PROVE  DocumentsOK' /\ Kept
<1>1. OnlyAt(p) /\ payments'[p].status = "PENDING" /\ payments'[p].retryCount = 0
  BY CreatedEffect DEF DocumentsOK
<1> QED BY <1>1, MaxAttemptsAssumption, OnlyAtOK

LEMMA NotifiedOK ==
    ASSUME DocumentsOK, RestOK, NEW h \in Hooks, UpdateFromWebhook(h)
    PROVE  DocumentsOK' /\ Kept
<1> DEFINE p == hook[h].pay
<1>1. payments \in Documents /\ hook \in [Hooks -> HookState]
  BY DEF DocumentsOK, RestOK
<1>2. /\ p \in Payments
      /\ OnlyAt(p)
      /\ payments'[p] = payments[p] \/ payments'[p].status \in Settled
  BY <1>1, NotifiedEffect
<1> HIDE DEF p
<1> QED BY <1>2, OnlyAtOK

LEMMA RecoveredOK ==
    ASSUME DocumentsOK, payments' = Recovered
    PROVE  DocumentsOK' /\ Kept
<1>1. payments' \in Documents
  BY RecoveredEffect DEF DocumentsOK
<1>2. RetryBudget'
  <2> SUFFICES ASSUME NEW p \in Payments, payments'[p].status \in {"PENDING", "PROCESSING"}
               PROVE  payments'[p].retryCount < MaxAttempts
    BY DEF RetryBudget
  <2> QED BY RecoveredEffect DEF DocumentsOK, RetryBudget
<1>3. Kept
  BY RecoveredEffect DEF DocumentsOK, Kept, Exists
<1> QED BY <1>1, <1>2, <1>3 DEF DocumentsOK

\* A slot in use is kept in use, or given to a payment that exists.
LEMMA SlotsKept ==
    ASSUME SlotsOK, Kept, job' \in [Jobs -> JobState],
           \A k \in Jobs : job'[k].pc # "free" =>
               \/ job[k].pc # "free" /\ job'[k].pay = job[k].pay
               \/ job'[k].pay \in Payments /\ payments'[job'[k].pay].status # "ABSENT"
    PROVE  SlotsOK'
BY DEF SlotsOK, Kept, Exists

LEMMA PCStepOK ==
    ASSUME SlotsOK, Kept, NEW j \in Jobs, job[j].pc # "free", NEW pc \in JobPC,
           job' = [job EXCEPT ![j].pc = pc]
    PROVE  SlotsOK'
<1>1. /\ job' \in [Jobs -> JobState]
      /\ job'[j].pay = job[j].pay
      /\ \A k \in Jobs \ {j} : job'[k] = job[k]
  BY PCEffect DEF SlotsOK
<1>2. \A k \in Jobs : job'[k].pc # "free" => job[k].pc # "free" /\ job'[k].pay = job[k].pay
  BY <1>1
<1> QED BY <1>1, <1>2, SlotsKept

\* A slot is given a record for a payment that exists, or is freed.
LEMMA SlotStepOK ==
    ASSUME SlotsOK, Kept, NEW j \in Jobs, NEW r \in JobState,
           job' = [job EXCEPT ![j] = r],
           \/ r.pc = "free"
           \/ r.pay \in Payments /\ payments'[r.pay].status # "ABSENT"
    PROVE  SlotsOK'
<1>1. /\ job' \in [Jobs -> JobState]
      /\ job'[j] = r
      /\ \A k \in Jobs \ {j} : job'[k] = job[k]
  BY DEF SlotsOK
<1>2. \A k \in Jobs : job'[k].pc # "free" =>
          \/ job[k].pc # "free" /\ job'[k].pay = job[k].pay
          \/ job'[k].pay \in Payments /\ payments'[job'[k].pay].status # "ABSENT"
  BY <1>1
<1> QED BY <1>1, <1>2, SlotsKept

LEMMA BusySlot ==
    ASSUME TypeInv, NEW j \in Jobs, job[j].pc # "free"
    PROVE  /\ job[j].pay \in Payments /\ Exists(job[j].pay)
           /\ server \in {"up", "stopping"}
BY DEF TypeInv, SlotsOK, IdleWhenDown, RestOK, ServerState

LEMMA QueueStepTypeInv ==
    ASSUME TypeInv, NEW j \in Jobs, QueueStep(j)
    PROVE  TypeInv'
<1> DEFINE p == job[j].pay
<1>1. job[j].pc # "free"
  BY DEF QueueStep, Enqueue, BackoffElapses, ProcessJob, Claim, ClaimMisses, ChargeSucceeds,
         ChargeFails, RecordSuccess, GiveUp, ScheduleRetry, Requeue, Return
<1>2. p \in Payments /\ Exists(p) /\ server \in {"up", "stopping"}
  BY <1>1, BusySlot
<1>3. DocumentsOK /\ SlotsOK /\ RestOK
  BY DEF TypeInv
<1>4. DocumentsOK' /\ Kept
  <2>1. CASE Claim(j)
    BY <2>1, <1>2, <1>3, ClaimedOK DEF Claim
  <2>2. CASE RecordSuccess(j)
    BY <2>2, <1>2, <1>3, RecordedOK DEF RecordSuccess
  <2>3. CASE GiveUp(j)
    BY <2>3, <1>1, <1>3, AbandonedOK DEF GiveUp
  <2>4. CASE ScheduleRetry(j)
    BY <2>4, <1>1, <1>3, RescheduledOK DEF ScheduleRetry
  <2>5. CASE UNCHANGED payments
    BY <2>5, <1>3, UnchangedOK
  <2> QED
    BY <2>1, <2>2, <2>3, <2>4, <2>5
    DEF QueueStep, Enqueue, BackoffElapses, ProcessJob, ClaimMisses, ChargeSucceeds,
        ChargeFails, Requeue, Return
<1>5. SlotsOK'
  <2>1. CASE Claim(j)
    <3> DEFINE n == payments[p].retryCount + 1
    <3>1. n \in 0..MaxAttempts
      BY <2>1, <1>2, <1>3, MaxAttemptsAssumption
      DEF Claim, Claimable, DocumentsOK, RetryBudget, Documents, Document
    <3>2. /\ job' \in [Jobs -> JobState]
          /\ job'[j].pay = job[j].pay
          /\ \A k \in Jobs \ {j} : job'[k] = job[k]
      <4>1. job' = [job EXCEPT ![j].pc = "charging", ![j].attempt = n]
        BY <2>1 DEF Claim
      <4> HIDE DEF n
      <4> QED BY <4>1, <3>1, <1>3, ClaimEffect DEF SlotsOK
    <3> QED BY <3>2, <1>1, <1>3, <1>4, SlotsKept
  <2>2. CASE Requeue(j)
    <3>1. Slot("delayed", p) \in JobState /\ Slot("delayed", p).pay = p
      BY <1>2, SlotTyped DEF JobPC
    <3>2. job' = [job EXCEPT ![j] = Slot("delayed", p)]
      BY <2>2 DEF Requeue
    <3>3. payments'[p].status # "ABSENT"
      BY <1>2, <1>4 DEF Kept, Exists
    <3> HIDE DEF p
    <3> QED BY <3>1, <3>2, <3>3, <1>2, <1>3, <1>4, SlotStepOK
  <2>3. CASE Return(j)
    BY <2>3, <1>3, <1>4, FreeSlotTyped, SlotStepOK DEF Return
  <2>4. CASE \E pc \in JobPC : job' = [job EXCEPT ![j].pc = pc]
    BY <2>4, <1>1, <1>3, <1>4, PCStepOK
  <2> QED
    BY <2>1, <2>2, <2>3, <2>4
    DEF QueueStep, Enqueue, BackoffElapses, ProcessJob, ClaimMisses, ChargeSucceeds,
        ChargeFails, RecordSuccess, GiveUp, ScheduleRetry, JobPC
<1>6. RestOK'
  <2>1. UNCHANGED <<running, hook, server>> /\ processing' \in {processing, processing \ {p}}
    BY DEF QueueStep, Enqueue, BackoffElapses, ProcessJob, Claim, ClaimMisses, ChargeSucceeds,
           ChargeFails, RecordSuccess, GiveUp, ScheduleRetry, Requeue, Return
  <2>2. charges' \in [Payments -> 0..2]
    <3>1. CASE ChargeSucceeds(j)
      BY <3>1, <1>2, <1>3 DEF ChargeSucceeds, Capped, RestOK
    <3>2. CASE UNCHANGED charges
      BY <3>2, <1>3 DEF RestOK
    <3> QED
      BY <3>1, <3>2
      DEF QueueStep, Enqueue, BackoffElapses, ProcessJob, Claim, ClaimMisses,
          ChargeFails, RecordSuccess, GiveUp, ScheduleRetry, Requeue, Return
  <2> QED BY <2>1, <2>2, <1>3 DEF RestOK
<1>7. IdleWhenDown'
  BY <1>2 DEF QueueStep, IdleWhenDown
<1> QED BY <1>4, <1>5, <1>6, <1>7 DEF TypeInv

LEMMA TickTypeInv ==
    ASSUME TypeInv, QueueTick
    PROVE  TypeInv'
<1>1. DocumentsOK /\ SlotsOK /\ RestOK
  BY DEF TypeInv
<1>2. DocumentsOK' /\ Kept
  BY <1>1, UnchangedOK DEF QueueTick, Tick
<1>3. Ready \subseteq Jobs /\ \A j \in Ready : job[j].pay \in Payments /\ job[j].pc = "due"
  BY <1>1 DEF Ready, SlotsOK
<1>4. job' \in [Jobs -> JobState] /\ \A k \in Jobs : job'[k].pay = job[k].pay
  <2>1. \A j \in Ready : /\ [job[j] EXCEPT !.pc = "claiming"] \in JobState
                         /\ [job[j] EXCEPT !.pc = "claiming"].pay = job[j].pay
    BY <1>1, <1>3 DEF SlotsOK, JobState, JobPC
  <2> QED BY <2>1, <1>1, <1>3 DEF QueueTick, Tick, SlotsOK
<1>5. \A k \in Jobs : job'[k].pc # "free" => job[k].pc # "free"
  BY <1>3 DEF QueueTick, Tick
<1>6. SlotsOK'
  BY <1>1, <1>2, <1>4, <1>5, SlotsKept
<1>7. RestOK'
  BY <1>1, <1>3 DEF QueueTick, Tick, RestOK
<1>8. server \in {"up", "stopping"}
  <2>1. PICK j \in Jobs : job[j].pc = "due"
    BY <1>3 DEF QueueTick, Tick
  <2> QED BY <2>1, BusySlot
<1>9. IdleWhenDown'
  BY <1>8 DEF QueueTick, IdleWhenDown
<1> QED BY <1>2, <1>6, <1>7, <1>9 DEF TypeInv

LEMMA UpdateRejectsTypeInv ==
    ASSUME TypeInv, NEW j \in Jobs, QueueUpdateRejects(j)
    PROVE  TypeInv'
<1>1. job[j].pc # "free"
  BY DEF QueueUpdateRejects, UpdateRejects
<1>2. job[j].pay \in Payments /\ server \in {"up", "stopping"}
  BY <1>1, BusySlot
<1>3. DocumentsOK /\ SlotsOK /\ RestOK
  BY DEF TypeInv
<1>4. DocumentsOK' /\ Kept
  <2>1. CASE UNCHANGED payments
    BY <2>1, <1>3, UnchangedOK
  <2>2. CASE payments' = Recorded(job[j].pay)
    BY <2>2, <1>2, <1>3, RecordedOK
  <2>3. CASE payments' = Abandoned(j)
    BY <2>3, <1>1, <1>3, AbandonedOK
  <2>4. CASE ~Exhausted(j) /\ payments' = Rescheduled(j)
    BY <2>4, <1>1, <1>3, RescheduledOK
  <2> QED BY <2>1, <2>2, <2>3, <2>4 DEF QueueUpdateRejects, UpdateRejects
<1>5. SlotsOK'
  BY <1>1, <1>3, <1>4, PCStepOK DEF QueueUpdateRejects, UpdateRejects, JobPC
<1>6. RestOK' /\ IdleWhenDown'
  BY <1>2, <1>3 DEF QueueUpdateRejects, UpdateRejects, RestOK, IdleWhenDown
<1> QED BY <1>4, <1>5, <1>6 DEF TypeInv

LEMMA DieOK ==
    ASSUME RestOK, Die
    PROVE  SlotsOK' /\ RestOK' /\ IdleWhenDown'
<1>1. SlotsOK' /\ IdleWhenDown'
  BY FreeSlotTyped DEF Die, SlotsOK, IdleWhenDown
<1>2. hook' \in [Hooks -> HookState]
  BY DEF Die, HookState
<1>3. RestOK'
  BY <1>2 DEF Die, RestOK, ServerState
<1> QED BY <1>1, <1>3

LEMMA UnhandledRejectionTypeInv ==
    ASSUME TypeInv, NEW j \in Jobs, UnhandledRejection(j)
    PROVE  TypeInv'
<1>1. job[j].pc # "free"
  BY DEF UnhandledRejection, UnhandledEffect
<1>2. job[j].pay \in Payments
  BY <1>1, BusySlot
<1>3. DocumentsOK /\ SlotsOK /\ RestOK
  BY DEF TypeInv
<1>4. DocumentsOK'
  <2>1. CASE UNCHANGED payments
    BY <2>1, <1>3, UnchangedOK
  <2>2. CASE Claimable(job[j].pay) /\ payments' = Claimed(job[j].pay)
    BY <2>2, <1>2, <1>3, ClaimedOK
  <2>3. CASE payments' = Abandoned(j)
    BY <2>3, <1>1, <1>3, AbandonedOK
  <2>4. CASE ~Exhausted(j) /\ payments' = Rescheduled(j)
    BY <2>4, <1>1, <1>3, RescheduledOK
  <2> QED BY <2>1, <2>2, <2>3, <2>4 DEF UnhandledRejection, UnhandledEffect
<1> QED BY <1>3, <1>4, DieOK DEF UnhandledRejection, TypeInv

LEMMA RequestTypeInv ==
    ASSUME TypeInv, NEW p \in Payments, NEW j \in Jobs, PaymentRequest(p, j)
    PROVE  TypeInv'
<1>1. DocumentsOK /\ SlotsOK /\ RestOK
  BY DEF TypeInv
<1>2. DocumentsOK' /\ Kept
  BY <1>1, CreatedOK, ReopenedOK DEF PaymentRequest, CreatePayment, RetryFailedPayment
<1>3. payments'[p].status # "ABSENT"
  <2>1. CASE payments' = [payments EXCEPT ![p] = NewDocument]
    BY <2>1, <1>1, CreatedEffect DEF DocumentsOK
  <2>2. CASE payments' = Reopened(p)
    BY <2>2, <1>1, ReopenedEffect DEF DocumentsOK
  <2> QED BY <2>1, <2>2 DEF PaymentRequest, CreatePayment, RetryFailedPayment
<1>4. SlotsOK'
  <2>1. Slot("enqueueing", p) \in JobState /\ Slot("enqueueing", p).pay = p
    BY SlotTyped DEF JobPC
  <2>2. job' = [job EXCEPT ![j] = Slot("enqueueing", p)]
    BY DEF PaymentRequest, CreatePayment, RetryFailedPayment
  <2> QED BY <2>1, <2>2, <1>1, <1>2, <1>3, SlotStepOK
<1>5. RestOK' /\ IdleWhenDown'
  BY <1>1 DEF PaymentRequest, Serving, CreatePayment, RetryFailedPayment, RestOK, IdleWhenDown
<1> QED BY <1>2, <1>4, <1>5 DEF TypeInv

\* Steps that leave the slots as they are.
LEMMA SlotsUnchangedOK ==
    ASSUME SlotsOK, Kept, UNCHANGED job
    PROVE  SlotsOK'
BY DEF SlotsOK, Kept, Exists

LEMMA RequestRejectsTypeInv ==
    ASSUME TypeInv, NEW p \in Payments, PaymentRequestRejects(p)
    PROVE  TypeInv'
<1>1. DocumentsOK /\ SlotsOK /\ RestOK
  BY DEF TypeInv
<1>2. DocumentsOK' /\ Kept
  BY <1>1, CreatedOK, ReopenedOK
  DEF PaymentRequestRejects, CreateUnacknowledged, RetryUnacknowledged
<1>3. SlotsOK' /\ RestOK' /\ IdleWhenDown'
  BY <1>1, <1>2, SlotsUnchangedOK
  DEF PaymentRequestRejects, CreateUnacknowledged, RetryUnacknowledged, queueVars, Serving,
      RestOK, IdleWhenDown
<1> QED BY <1>2, <1>3 DEF TypeInv

LEMMA WebhookTypeInv ==
    ASSUME TypeInv, NEW h \in Hooks, Webhook(h)
    PROVE  TypeInv'
<1>1. DocumentsOK /\ SlotsOK /\ RestOK
  BY DEF TypeInv
<1>2. DocumentsOK' /\ Kept /\ hook' \in [Hooks -> HookState]
  <2>1. CASE \E p \in Payments, t \in PaymentStatus, txn \in {"unset", "webhook"} :
                 ReceiveWebhook(h, p, t, txn)
    <3>1. PICK p \in Payments, t \in PaymentStatus, txn \in {"unset", "webhook"} :
              ReceiveWebhook(h, p, t, txn)
      BY <2>1
    <3>2. t \in Settled /\ payments[p].status \in {"PENDING", "PROCESSING"}
      BY <3>1 DEF ReceiveWebhook, ValidTransitions
    <3>3. hook' \in [Hooks -> HookState]
      BY <3>1, <3>2, <1>1 DEF ReceiveWebhook, HookState, RestOK
    <3> QED BY <3>1, <3>3, <1>1, UnchangedOK DEF ReceiveWebhook
  <2>2. CASE UpdateFromWebhook(h)
    BY <2>2, <1>1, NotifiedOK, NotifiedEffect DEF DocumentsOK, RestOK
  <2>3. CASE WebhookRejects(h)
    <3>1. hook' \in [Hooks -> HookState]
      BY <2>3, <1>1 DEF WebhookRejects, RestOK, HookState
    <3> QED BY <3>1, <2>3, <1>1, UnchangedOK DEF WebhookRejects
  <2> QED BY <2>1, <2>2, <2>3 DEF Webhook
<1>3. SlotsOK' /\ RestOK' /\ IdleWhenDown'
  BY <1>1, <1>2, SlotsUnchangedOK DEF Webhook, queueVars, Serving, RestOK, IdleWhenDown
<1> QED BY <1>2, <1>3 DEF TypeInv

\* The steps of the server process that keep the slots and the set.
StartOrStop == Recover \/ StartWithoutRecovery \/ Shutdown

LEMMA StartOrStopTypeInv ==
    ASSUME TypeInv, StartOrStop
    PROVE  TypeInv'
<1>1. DocumentsOK /\ SlotsOK /\ RestOK
  BY DEF TypeInv
<1>2. DocumentsOK' /\ Kept
  BY <1>1, UnchangedOK, RecoveredOK DEF StartOrStop, Recover, StartWithoutRecovery, Shutdown
<1>3. SlotsOK'
  BY <1>1, <1>2, SlotsUnchangedOK DEF StartOrStop, Recover, StartWithoutRecovery, Shutdown
<1>4. RestOK'
  BY <1>1 DEF StartOrStop, Recover, StartWithoutRecovery, Shutdown, RestOK, ServerState
<1>5. IdleWhenDown'
  BY DEF StartOrStop, Recover, StartWithoutRecovery, Shutdown, TypeInv, IdleWhenDown
<1> QED BY <1>2, <1>3, <1>4, <1>5 DEF TypeInv

LEMMA StartAfterRecoveryTypeInv ==
    ASSUME TypeInv, StartAfterRecovery
    PROVE  TypeInv'
<1>1. DocumentsOK /\ SlotsOK /\ RestOK
  BY DEF TypeInv
<1>2. DocumentsOK' /\ Kept
  BY <1>1, UnchangedOK DEF StartAfterRecovery
<1>3. PICK f \in [Jobs -> Payments \cup {NoPayment}] : StartWith(f)
  BY DEF StartAfterRecovery
<1>4. \A j \in Jobs : f[j] # NoPayment => f[j] \in Payments /\ Exists(f[j])
  BY <1>3 DEF StartWith, MayBeStuck, Exists
<1>5. \A j \in Jobs : f[j] # NoPayment =>
          /\ Slot("claiming", f[j]) \in JobState
          /\ Slot("claiming", f[j]).pay = f[j]
  BY <1>4, SlotTyped DEF JobPC
<1>6. job' = [j \in Jobs |-> IF f[j] = NoPayment THEN FreeSlot ELSE Slot("claiming", f[j])]
  BY <1>3 DEF StartWith
<1>7. SlotsOK'
  <2>1. job' \in [Jobs -> JobState]
    BY <1>5, <1>6, FreeSlotTyped
  <2>2. \A j \in Jobs : job'[j].pc # "free" => job'[j].pay \in Payments /\ Exists(job'[j].pay)
    BY <1>4, <1>5, <1>6, FreeSlotTyped
  <2> QED BY <2>1, <2>2 DEF StartAfterRecovery, SlotsOK, Exists
<1>8. RestOK'
  BY <1>1, <1>3 DEF StartAfterRecovery, StartWith, RestOK, ServerState
<1>9. IdleWhenDown'
  BY DEF StartAfterRecovery, IdleWhenDown
<1> QED BY <1>2, <1>7, <1>8, <1>9 DEF TypeInv

\* The steps that end the process by no fault of a worker.
LEMMA EndTypeInv ==
    ASSUME TypeInv, Crash \/ StartFails \/ Exit
    PROVE  TypeInv'
<1>1. DocumentsOK /\ RestOK
  BY DEF TypeInv
<1>2. DocumentsOK'
  BY <1>1, UnchangedOK, RecoveredOK DEF Crash, StartFails, Exit
<1> QED BY <1>1, <1>2, DieOK DEF Crash, StartFails, Exit, TypeInv

LEMMA NextTypeInv ==
    ASSUME TypeInv, [Next]_vars
    PROVE  TypeInv'
<1>1. CASE UNCHANGED vars
  BY <1>1 DEF vars, TypeInv, DocumentsOK, RetryBudget, SlotsOK, Exists, RestOK, IdleWhenDown
<1>2. CASE Recover \/ StartWithoutRecovery \/ Shutdown
  BY <1>2, StartOrStopTypeInv DEF StartOrStop
<1>3. CASE StartAfterRecovery
  BY <1>3, StartAfterRecoveryTypeInv
<1>4. CASE Crash \/ StartFails \/ Exit
  BY <1>4, EndTypeInv
<1>5. CASE \E p \in Payments, j \in Jobs : PaymentRequest(p, j)
  BY <1>5, RequestTypeInv
<1>6. CASE \E p \in Payments : PaymentRequestRejects(p)
  BY <1>6, RequestRejectsTypeInv
<1>7. CASE \E h \in Hooks : Webhook(h)
  BY <1>7, WebhookTypeInv
<1>8. CASE QueueTick
  BY <1>8, TickTypeInv
<1>9. CASE \E j \in Jobs : QueueStep(j) \/ QueueUpdateRejects(j) \/ UnhandledRejection(j)
  BY <1>9, QueueStepTypeInv, UpdateRejectsTypeInv, UnhandledRejectionTypeInv
<1> QED BY <1>1, <1>2, <1>3, <1>4, <1>5, <1>6, <1>7, <1>8, <1>9 DEF Next

LEMMA TypeInvariant == Spec => []TypeInv
<1>1. Init => TypeInv
  BY InitTypeInv
<1>2. TypeInv /\ [Next]_vars => TypeInv'
  BY NextTypeInv
<1> QED BY <1>1, <1>2, PTL DEF Spec

\* Every variable keeps its type in every reachable state.
THEOREM TypeCorrect == Spec => []TypeOK
BY TypeInvariant, TypeInvTypes, PTL

\* A payment that is waiting or in work has an attempt left: the number of
\* attempts never exceeds the limit, through stale workers, manual retries,
\* recoveries and rejected updates.
THEOREM BudgetKept == Spec => []RetryBudget
BY TypeInvariant, TypeInvTypes, PTL

-----------------------------------------------------------------------------
(* What a step of a worker does to its slot.                               *)

\* The slot j moves to pc, and no other slot moves.
Moves(j, pc) ==
    /\ job'[j].pc = pc
    /\ job'[j].pay = job[j].pay
    /\ \A k \in Jobs \ {j} : job'[k] = job[k]

LEMMA MovesEffect ==
    ASSUME SlotsOK, NEW j \in Jobs, NEW pc \in JobPC, job' = [job EXCEPT ![j].pc = pc]
    PROVE  Moves(j, pc)
BY PCEffect DEF SlotsOK, Moves

LEMMA ClaimMoves ==
    ASSUME SlotsOK, DocumentsOK, NEW j \in Jobs, job[j].pay \in Payments, Claim(j)
    PROVE  Moves(j, "charging")
<1> DEFINE n == payments[job[j].pay].retryCount + 1
<1>1. n \in 0..MaxAttempts
  BY MaxAttemptsAssumption DEF Claim, Claimable, DocumentsOK, RetryBudget, Documents, Document
<1>2. job' = [job EXCEPT ![j].pc = "charging", ![j].attempt = n]
  BY DEF Claim
<1> HIDE DEF n
<1> QED BY <1>1, <1>2, ClaimEffect DEF SlotsOK, Moves

LEMMA RequeueMoves ==
    ASSUME SlotsOK, NEW j \in Jobs, Requeue(j)
    PROVE  Moves(j, "delayed")
BY DEF SlotsOK, Requeue, Slot, Moves

-----------------------------------------------------------------------------
(* No PROCESSING payment without a worker. The workers of a payment may be *)
(* many; what matters is that whoever leaves it unfinished has taken it    *)
(* out of PROCESSING, and that a new process takes all of them out.        *)

\* The worker of j goes on, or the payment is not PROCESSING after its step.
LEMMA StillWorkedOn ==
    ASSUME NoStrandedProcessing, NEW j \in Jobs, UNCHANGED server,
           \A k \in Jobs \ {j} : job'[k] = job[k],
           \A p \in Payments : payments'[p].status = "PROCESSING" =>
               \/ payments[p].status = "PROCESSING" /\ ~WorksOn(j, p)
               \/ job'[j].pay = p /\ job'[j].pc \in Working
    PROVE  NoStrandedProcessing'
<1> SUFFICES ASSUME server # "down", NEW p \in Payments, payments'[p].status = "PROCESSING"
             PROVE  \E k \in Jobs : job'[k].pay = p /\ job'[k].pc \in Working
  BY DEF NoStrandedProcessing, WorksOn
<1>1. CASE job'[j].pay = p /\ job'[j].pc \in Working
  BY <1>1
<1>2. CASE payments[p].status = "PROCESSING" /\ ~WorksOn(j, p)
  <2>1. PICK k \in Jobs : WorksOn(k, p)
    BY <1>2 DEF NoStrandedProcessing
  <2>2. job'[k] = job[k]
    BY <1>2, <2>1
  <2> QED BY <2>1, <2>2 DEF WorksOn
<1> QED BY <1>1, <1>2

LEMMA QueueStepNotStranded ==
    ASSUME TypeInv, NoStrandedProcessing, NEW j \in Jobs,
           QueueStep(j) \/ QueueUpdateRejects(j)
    PROVE  NoStrandedProcessing'
<1> DEFINE p == job[j].pay
<1>1. DocumentsOK /\ SlotsOK
  BY DEF TypeInv
<1>2. payments \in Documents /\ job \in [Jobs -> JobState]
  BY <1>1 DEF DocumentsOK, SlotsOK
<1>3. job[j].pc # "free"
  BY DEF QueueStep, Enqueue, BackoffElapses, ProcessJob, Claim, ClaimMisses, ChargeSucceeds,
         ChargeFails, RecordSuccess, GiveUp, ScheduleRetry, Requeue, Return,
         QueueUpdateRejects, UpdateRejects
<1>4. p \in Payments
  BY <1>3, BusySlot
<1>5. UNCHANGED server
  BY DEF QueueStep, QueueUpdateRejects
<1>6. CASE Claim(j)
  <2>1. OnlyAt(p) /\ Moves(j, "charging") /\ job[j].pc = "claiming"
    BY <1>6, <1>1, <1>2, <1>4, ClaimedEffect, ClaimMoves DEF Claim
  <2> QED BY <2>1, <1>5, StillWorkedOn DEF OnlyAt, Moves, Working, WorksOn
<1>7. CASE Enqueue(j) \/ BackoffElapses(j) \/ ClaimMisses(j) \/ Requeue(j) \/ Return(j)
  <2>1. \A k \in Jobs \ {j} : job'[k] = job[k]
    BY <1>2, <1>7 DEF Enqueue, BackoffElapses, ClaimMisses, Requeue, Return
  <2>2. UNCHANGED payments /\ job[j].pc \notin Working
    BY <1>7 DEF Enqueue, BackoffElapses, ClaimMisses, Requeue, Return, Working
  <2> QED BY <2>1, <2>2, <1>5, StillWorkedOn DEF WorksOn
<1>8. CASE ChargeSucceeds(j) \/ ChargeFails(j)
  <2>1. UNCHANGED payments /\ (Moves(j, "succeeded") \/ Moves(j, "failing"))
    BY <1>8, <1>1, MovesEffect DEF ChargeSucceeds, ChargeFails, JobPC
  <2> QED BY <2>1, <1>5, StillWorkedOn DEF Moves, Working, WorksOn
<1>9. CASE RecordSuccess(j)
  <2>1. OnlyAt(p) /\ payments'[p].status = "SUCCESS" /\ Moves(j, "returning")
    BY <1>9, <1>1, <1>2, <1>4, RecordedEffect, MovesEffect DEF RecordSuccess, JobPC
  <2> QED BY <2>1, <1>5, StillWorkedOn DEF OnlyAt, Moves, WorksOn
<1>10. CASE GiveUp(j)
  <2>1. OnlyAt(p) /\ payments'[p].status # "PROCESSING" /\ Moves(j, "returning")
    BY <1>10, <1>1, <1>2, <1>4, AbandonedEffect, MovesEffect DEF GiveUp, JobPC
  <2> QED BY <2>1, <1>5, StillWorkedOn DEF OnlyAt, Moves, WorksOn
<1>11. CASE ScheduleRetry(j)
  <2>1. OnlyAt(p) /\ payments'[p].status # "PROCESSING" /\ Moves(j, "requeueing")
    BY <1>11, <1>1, <1>2, <1>4, RescheduledEffect, MovesEffect DEF ScheduleRetry, JobPC
  <2> QED BY <2>1, <1>5, StillWorkedOn DEF OnlyAt, Moves, WorksOn
<1>12. CASE QueueUpdateRejects(j)
  <2>1. Moves(j, "catching")
    BY <1>12, <1>1, MovesEffect DEF QueueUpdateRejects, UpdateRejects, JobPC
  <2>2. \A q \in Payments \ {p} : payments'[q] = payments[q]
    BY <1>12, <1>2, <1>4, RecordedEffect, AbandonedEffect, RescheduledEffect
    DEF QueueUpdateRejects, UpdateRejects, OnlyAt
  <2> QED BY <2>1, <2>2, <1>4, <1>5, StillWorkedOn DEF Moves, Working, WorksOn
<1> QED
  BY <1>6, <1>7, <1>8, <1>9, <1>10, <1>11, <1>12 DEF QueueStep, ProcessJob

\* Steps that keep every worker and make no payment PROCESSING.
LEMMA WorkersKept ==
    ASSUME NoStrandedProcessing, server' # "down" => server # "down",
           \A k \in Jobs : job[k].pc \in Working => job'[k] = job[k],
           \A p \in Payments :
               payments'[p].status = "PROCESSING" => payments[p].status = "PROCESSING"
    PROVE  NoStrandedProcessing'
BY DEF NoStrandedProcessing, WorksOn

LEMMA NextNotStranded ==
    ASSUME TypeInv, NoStrandedProcessing, [Next]_vars
    PROVE  NoStrandedProcessing'
<1>0. /\ DocumentsOK /\ SlotsOK /\ RestOK
      /\ payments \in Documents /\ job \in [Jobs -> JobState] /\ hook \in [Hooks -> HookState]
  BY DEF TypeInv, DocumentsOK, SlotsOK, RestOK
<1>1. CASE UNCHANGED vars
  BY <1>1, WorkersKept DEF vars
<1>2. CASE StartWithoutRecovery
  BY <1>2 DEF StartWithoutRecovery, Stuck, NoStrandedProcessing
<1>3. CASE Recover
  BY <1>3, <1>0, RecoveredEffect DEF Recover, NoStrandedProcessing
<1>4. CASE StartAfterRecovery
  <2>1. \A p \in Payments : payments[p].status # "PROCESSING"
    BY <1>4 DEF StartAfterRecovery, NoStrandedProcessing, WorksOn, Working, TypeInv, IdleWhenDown
  <2> QED BY <2>1, <1>4 DEF StartAfterRecovery, NoStrandedProcessing
<1>5. CASE \/ Crash \/ StartFails \/ Exit
           \/ \E j \in Jobs : UnhandledRejection(j)
  BY <1>5 DEF Crash, StartFails, Exit, UnhandledRejection, Die, NoStrandedProcessing
<1>6. CASE Shutdown
  BY <1>6, WorkersKept DEF Shutdown
<1>7. CASE \E p \in Payments, j \in Jobs : PaymentRequest(p, j)
  <2>1. PICK p \in Payments, j \in Jobs : PaymentRequest(p, j)
    BY <1>7
  <2>2. OnlyAt(p) /\ payments'[p].status = "PENDING"
    BY <2>1, <1>0, CreatedEffect, ReopenedEffect
    DEF PaymentRequest, CreatePayment, RetryFailedPayment
  <2>3. \A k \in Jobs : job[k].pc \in Working => job'[k] = job[k]
    BY <1>0, <2>1 DEF PaymentRequest, CreatePayment, RetryFailedPayment, Working
  <2> QED BY <2>1, <2>2, <2>3, WorkersKept DEF PaymentRequest, OnlyAt
<1>8. CASE \E p \in Payments : PaymentRequestRejects(p)
  <2>1. PICK p \in Payments : PaymentRequestRejects(p)
    BY <1>8
  <2>2. OnlyAt(p) /\ payments'[p].status = "PENDING" /\ UNCHANGED <<job, server>>
    BY <2>1, <1>0, CreatedEffect, ReopenedEffect
    DEF PaymentRequestRejects, CreateUnacknowledged, RetryUnacknowledged, queueVars
  <2> QED BY <2>2, WorkersKept DEF OnlyAt
<1>9. CASE \E h \in Hooks : Webhook(h)
  <2>1. PICK h \in Hooks : Webhook(h)
    BY <1>9
  <2>2. UNCHANGED <<job, server>>
    BY <2>1 DEF Webhook, queueVars
  <2>3. CASE UNCHANGED payments
    BY <2>2, <2>3, WorkersKept
  <2>4. CASE UpdateFromWebhook(h)
    <3>1. \A p \in Payments :
              payments'[p].status = "PROCESSING" => payments[p].status = "PROCESSING"
      BY <2>4, <1>0, NotifiedEffect DEF OnlyAt, Settled
    <3> QED BY <2>2, <3>1, WorkersKept
  <2> QED BY <2>1, <2>3, <2>4 DEF Webhook, ReceiveWebhook, WebhookRejects
<1>10. CASE QueueTick
  <2>1. \A k \in Jobs : job[k].pc \in Working => job'[k] = job[k]
    BY <1>10 DEF QueueTick, Tick, Ready, Working
  <2> QED BY <1>10, <2>1, WorkersKept DEF QueueTick, Tick
<1>11. CASE \E j \in Jobs : QueueStep(j) \/ QueueUpdateRejects(j)
  BY <1>11, QueueStepNotStranded
<1> QED
  BY <1>1, <1>2, <1>3, <1>4, <1>5, <1>6, <1>7, <1>8, <1>9, <1>10, <1>11 DEF Next

\* While a process runs, a payment that is PROCESSING has a worker, whatever
\* crashed, rejected or was overtaken before.
THEOREM NotStranded == Spec => []NoStrandedProcessing
<1>1. Init => NoStrandedProcessing
  BY DEF Init, NoStrandedProcessing
<1>2. TypeInv /\ NoStrandedProcessing /\ [Next]_vars => NoStrandedProcessing'
  BY NextNotStranded
<1> QED BY <1>1, <1>2, TypeInvariant, PTL DEF Spec

-----------------------------------------------------------------------------
(* Captures. A worker that got a success holds a captured payment until it *)
(* has written it, and its write is the only one that stores an identifier *)
(* of the gateway.                                                         *)

SucceededCaptured ==
    \A j \in Jobs : job[j].pc = "succeeded" => charges[job[j].pay] > 0

CaptureInv == SucceededCaptured /\ GatewayIdMeansCaptured

\* What any step makes of the document of p: nothing, a write to a payment that
\* has not succeeded which stores no identifier of the gateway, or the record
\* of a captured success.
DocumentStep(p) ==
    \/ payments'[p] = payments[p]
    \/ /\ payments[p].status # "SUCCESS"
       /\ payments'[p].transactionId \in {payments[p].transactionId, "unset", "webhook"}
    \/ /\ payments'[p].status = "SUCCESS"
       /\ payments'[p].transactionId = "gateway"
       /\ charges[p] > 0

LEMMA OnlyAtStep ==
    ASSUME NEW p \in Payments, OnlyAt(p), DocumentStep(p)
    PROVE  \A q \in Payments : DocumentStep(q)
BY DEF OnlyAt, DocumentStep

LEMMA NextDocumentStep ==
    ASSUME TypeInv, SucceededCaptured, [Next]_vars
    PROVE  \A p \in Payments : DocumentStep(p)
<1>0. /\ DocumentsOK /\ SlotsOK /\ RestOK
      /\ payments \in Documents /\ job \in [Jobs -> JobState] /\ hook \in [Hooks -> HookState]
  BY DEF TypeInv, DocumentsOK, SlotsOK, RestOK
<1>1. CASE UNCHANGED payments
  BY <1>1 DEF DocumentStep
<1>2. CASE payments' = Recovered
  <2> SUFFICES ASSUME NEW p \in Payments PROVE DocumentStep(p)
    OBVIOUS
  <2> QED BY <1>2, <1>0, RecoveredEffect DEF DocumentStep
<1>3. CASE \E p \in Payments : \/ ~Exists(p) /\ payments' = [payments EXCEPT ![p] = NewDocument]
                               \/ Reopenable(p) /\ payments' = Reopened(p)
  <2>1. PICK p \in Payments : \/ ~Exists(p) /\ payments' = [payments EXCEPT ![p] = NewDocument]
                              \/ Reopenable(p) /\ payments' = Reopened(p)
    BY <1>3
  <2>2. OnlyAt(p) /\ DocumentStep(p)
    BY <2>1, <1>0, CreatedEffect, ReopenedEffect DEF DocumentStep, Exists, Reopenable
  <2> QED BY <2>2, OnlyAtStep
<1>4. CASE \E h \in Hooks : UpdateFromWebhook(h)
  <2>1. PICK h \in Hooks : UpdateFromWebhook(h)
    BY <1>4
  <2> DEFINE p == hook[h].pay
  <2>2. p \in Payments /\ OnlyAt(p) /\ DocumentStep(p)
    BY <2>1, <1>0, NotifiedEffect DEF DocumentStep
  <2> HIDE DEF p
  <2> QED BY <2>2, OnlyAtStep
<1>5. CASE \E j \in Jobs : /\ job[j].pc # "free"
                           /\ \/ Claimable(job[j].pay) /\ payments' = Claimed(job[j].pay)
                              \/ job[j].pc = "succeeded" /\ payments' = Recorded(job[j].pay)
                              \/ payments' = Abandoned(j)
                              \/ payments' = Rescheduled(j)
  <2>1. PICK j \in Jobs : /\ job[j].pc # "free"
                          /\ \/ Claimable(job[j].pay) /\ payments' = Claimed(job[j].pay)
                             \/ job[j].pc = "succeeded" /\ payments' = Recorded(job[j].pay)
                             \/ payments' = Abandoned(j)
                             \/ payments' = Rescheduled(j)
    BY <1>5
  <2> DEFINE p == job[j].pay
  <2>2. p \in Payments
    BY <2>1, <1>0 DEF SlotsOK
  <2>3. CASE Claimable(p) /\ payments' = Claimed(p)
    <3>1. OnlyAt(p) /\ DocumentStep(p)
      BY <2>2, <2>3, <1>0, ClaimedEffect DEF Claimable, DocumentStep
    <3> QED BY <3>1, <2>2, OnlyAtStep
  <2>4. CASE job[j].pc = "succeeded" /\ payments' = Recorded(p)
    <3>1. OnlyAt(p) /\ DocumentStep(p)
      BY <2>2, <2>4, <1>0, RecordedEffect DEF SucceededCaptured, DocumentStep
    <3> QED BY <3>1, <2>2, OnlyAtStep
  <2>5. CASE payments' = Abandoned(j)
    <3>1. OnlyAt(p) /\ DocumentStep(p)
      BY <2>2, <2>5, <1>0, AbandonedEffect DEF DocumentStep
    <3> QED BY <3>1, <2>2, OnlyAtStep
  <2>6. CASE payments' = Rescheduled(j)
    <3>1. OnlyAt(p) /\ DocumentStep(p)
      BY <2>2, <2>6, <1>0, RescheduledEffect DEF DocumentStep
    <3> QED BY <3>1, <2>2, OnlyAtStep
  <2> QED BY <2>1, <2>3, <2>4, <2>5, <2>6
<1>6. CASE UNCHANGED vars \/ StartWithoutRecovery \/ StartAfterRecovery \/ Crash \/ Shutdown
           \/ Exit \/ QueueTick
  BY <1>6, <1>1 DEF vars, StartWithoutRecovery, StartAfterRecovery, Crash, Shutdown, Exit,
                    QueueTick, Tick
<1>7. CASE Recover \/ StartFails
  BY <1>7, <1>1, <1>2 DEF Recover, StartFails
<1>8. CASE \/ \E p \in Payments, j \in Jobs : PaymentRequest(p, j)
           \/ \E p \in Payments : PaymentRequestRejects(p)
  BY <1>8, <1>3 DEF PaymentRequest, PaymentRequestRejects, CreatePayment, RetryFailedPayment,
                    CreateUnacknowledged, RetryUnacknowledged
<1>9. CASE \E h \in Hooks : Webhook(h)
  BY <1>9, <1>1, <1>4 DEF Webhook, ReceiveWebhook, WebhookRejects
<1>10. CASE \E j \in Jobs : QueueStep(j)
  BY <1>10, <1>1, <1>5 DEF QueueStep, Enqueue, BackoffElapses, ProcessJob, Claim, ClaimMisses,
     ChargeSucceeds, ChargeFails, RecordSuccess, GiveUp, ScheduleRetry, Requeue, Return
<1>11. CASE \E j \in Jobs : QueueUpdateRejects(j) \/ UnhandledRejection(j)
  BY <1>11, <1>1, <1>5
  DEF QueueUpdateRejects, UpdateRejects, UnhandledRejection, UnhandledEffect
<1> QED BY <1>6, <1>7, <1>8, <1>9, <1>10, <1>11 DEF Next

\* The gateway captures the payment of one worker, or nothing; and the steps
\* that capture nothing bring no worker to "succeeded".
LEMMA ChargeStep ==
    ASSUME TypeInv, [Next]_vars
    PROVE  \/ \E j \in Jobs : ChargeSucceeds(j)
           \/ /\ UNCHANGED charges
              /\ \A k \in Jobs : job'[k].pc = "succeeded" => job'[k] = job[k]
<1>0. SlotsOK /\ job \in [Jobs -> JobState]
  BY DEF TypeInv, SlotsOK
<1>1. CASE UNCHANGED vars
  BY <1>1 DEF vars
<1>2. CASE Recover \/ StartWithoutRecovery \/ Shutdown
  BY <1>2 DEF Recover, StartWithoutRecovery, Shutdown
<1>3. CASE StartAfterRecovery
  BY <1>3 DEF StartAfterRecovery, StartWith, FreeSlot, Slot
<1>4. CASE Crash \/ StartFails \/ Exit \/ \E j \in Jobs : UnhandledRejection(j)
  BY <1>4 DEF Crash, StartFails, Exit, UnhandledRejection, Die, FreeSlot
<1>5. CASE \E p \in Payments, j \in Jobs : PaymentRequest(p, j)
  BY <1>0, <1>5 DEF PaymentRequest, CreatePayment, RetryFailedPayment, Slot
<1>6. CASE \/ \E p \in Payments : PaymentRequestRejects(p)
           \/ \E h \in Hooks : Webhook(h)
  BY <1>6 DEF PaymentRequestRejects, CreateUnacknowledged, RetryUnacknowledged, Webhook, queueVars
<1>7. CASE QueueTick
  BY <1>0, <1>7 DEF QueueTick, Tick, JobState
<1>8. CASE \E j \in Jobs : QueueStep(j) \/ QueueUpdateRejects(j)
  <2>1. PICK j \in Jobs : QueueStep(j) \/ QueueUpdateRejects(j)
    BY <1>8
  <2>2. job[j].pc # "free"
    BY <2>1 DEF QueueStep, Enqueue, BackoffElapses, ProcessJob, Claim, ClaimMisses,
       ChargeSucceeds, ChargeFails, RecordSuccess, GiveUp, ScheduleRetry, Requeue, Return,
       QueueUpdateRejects, UpdateRejects
  <2>3. CASE ChargeSucceeds(j)
    BY <2>3
  <2>4. CASE Claim(j)
    <3>1. Moves(j, "charging")
      BY <2>2, <2>4, <1>0, BusySlot, ClaimMoves DEF TypeInv
    <3> QED BY <2>4, <3>1 DEF Claim, Moves
  <2>5. CASE Requeue(j) \/ Return(j)
    BY <2>5, <1>0 DEF Requeue, Return, Slot, FreeSlot
  <2>6. CASE \/ Enqueue(j) \/ BackoffElapses(j) \/ ClaimMisses(j) \/ ChargeFails(j)
             \/ RecordSuccess(j) \/ GiveUp(j) \/ ScheduleRetry(j) \/ UpdateRejects(j)
    <3>1. PICK pc \in JobPC \ {"succeeded"} : job' = [job EXCEPT ![j].pc = pc]
      BY <2>6 DEF Enqueue, BackoffElapses, ClaimMisses, ChargeFails, RecordSuccess, GiveUp,
                  ScheduleRetry, UpdateRejects, JobPC
    <3>2. Moves(j, pc)
      BY <3>1, <1>0, MovesEffect
    <3>3. UNCHANGED charges
      BY <2>6 DEF Enqueue, BackoffElapses, ClaimMisses, ChargeFails, RecordSuccess, GiveUp,
                  ScheduleRetry, UpdateRejects
    <3> QED BY <3>2, <3>3 DEF Moves
  <2> QED BY <2>1, <2>3, <2>4, <2>5, <2>6 DEF QueueStep, QueueUpdateRejects, ProcessJob
<1> QED BY <1>1, <1>2, <1>3, <1>4, <1>5, <1>6, <1>7, <1>8 DEF Next

LEMMA CaptureEffect ==
    ASSUME TypeInv, NEW j \in Jobs, ChargeSucceeds(j)
    PROVE  /\ Moves(j, "succeeded")
           /\ charges'[job[j].pay] > 0
           /\ \A p \in Payments : charges[p] > 0 => charges'[p] > 0
<1>1. Moves(j, "succeeded")
  BY MovesEffect DEF ChargeSucceeds, TypeInv, JobPC
<1>2. job[j].pay \in Payments
  BY BusySlot DEF ChargeSucceeds
<1>3. charges \in [Payments -> 0..2]
  BY DEF TypeInv, RestOK
<1> DEFINE n == Capped(charges[job[j].pay] + 1)
<1>4. n > 0
  BY <1>2, <1>3 DEF Capped
<1>5. charges' = [charges EXCEPT ![job[j].pay] = n]
  BY DEF ChargeSucceeds
<1> HIDE DEF n
<1> QED BY <1>1, <1>2, <1>3, <1>4, <1>5

LEMMA NextCaptureInv ==
    ASSUME TypeInv, CaptureInv, [Next]_vars
    PROVE  CaptureInv'
<1>1. \A p \in Payments : charges[p] > 0 => charges'[p] > 0
  BY ChargeStep, CaptureEffect
<1>2. SucceededCaptured'
  <2> SUFFICES ASSUME NEW k \in Jobs, job'[k].pc = "succeeded"
               PROVE  charges'[job'[k].pay] > 0
    BY DEF SucceededCaptured
  <2>1. CASE UNCHANGED charges /\ job'[k] = job[k]
    BY <2>1 DEF CaptureInv, SucceededCaptured
  <2>2. CASE \E j \in Jobs : ChargeSucceeds(j)
    <3>1. PICK j \in Jobs : ChargeSucceeds(j)
      BY <2>2
    <3>2. CASE k = j
      BY <3>1, <3>2, CaptureEffect DEF Moves
    <3>3. CASE k # j
      <4>1. job'[k] = job[k] /\ charges[job[k].pay] > 0
        BY <3>1, <3>3, CaptureEffect DEF Moves, CaptureInv, SucceededCaptured
      <4>2. job[k].pay \in Payments
        BY <4>1, BusySlot
      <4> QED BY <4>1, <4>2, <1>1
    <3> QED BY <3>2, <3>3
  <2> QED BY <2>1, <2>2, ChargeStep
<1>3. GatewayIdMeansCaptured'
  <2> SUFFICES ASSUME NEW p \in Payments, payments'[p].transactionId = "gateway"
               PROVE  payments'[p].status = "SUCCESS" /\ charges'[p] > 0
    BY DEF GatewayIdMeansCaptured
  <2>1. DocumentStep(p)
    BY NextDocumentStep DEF CaptureInv
  <2> QED BY <2>1, <1>1 DEF DocumentStep, CaptureInv, GatewayIdMeansCaptured
<1> QED BY <1>2, <1>3 DEF CaptureInv

LEMMA InitCaptureInv == Init => CaptureInv
BY DEF Init, StoreInit, QueueInit, NoDocument, FreeSlot, CaptureInv, SucceededCaptured,
       GatewayIdMeansCaptured

LEMMA CaptureInvariant == Spec => []CaptureInv
<1>1. TypeInv /\ CaptureInv /\ [Next]_vars => CaptureInv'
  BY NextCaptureInv
<1> QED BY <1>1, InitCaptureInv, TypeInvariant, PTL DEF Spec

\* The identifier of the gateway is stored only for a payment that is a SUCCESS
\* and was captured, whatever stale worker or webhook wrote to it.
THEOREM GatewayIdCaptured == Spec => []GatewayIdMeansCaptured
<1>1. CaptureInv => GatewayIdMeansCaptured
  BY DEF CaptureInv
<1> QED BY <1>1, CaptureInvariant, PTL

\* No step of any actor takes a SUCCESS back.
THEOREM SuccessStays == Spec => SuccessIsFinal
<1>1. TypeInv /\ CaptureInv /\ [Next]_vars =>
          [\A p \in Payments : payments[p].status = "SUCCESS" => payments'[p].status = "SUCCESS"]_vars
  <2> SUFFICES ASSUME TypeInv, CaptureInv, [Next]_vars, NEW p \in Payments,
                      payments[p].status = "SUCCESS"
               PROVE  payments'[p].status = "SUCCESS"
    OBVIOUS
  <2> QED BY NextDocumentStep DEF CaptureInv, DocumentStep
<1> QED BY <1>1, TypeInvariant, CaptureInvariant, PTL DEF Spec, SuccessIsFinal

-----------------------------------------------------------------------------
(* The processing set. A call of processJob leaves it together with the    *)
(* call's own entry, so what is left in the set has a call alive.          *)

LEMMA StillActive ==
    ASSUME NoBlockedPayment, processing' \subseteq processing,
           \A k \in Jobs : job[k].pc \in Active /\ job[k].pay \in processing' =>
               job'[k].pc \in Active /\ job'[k].pay = job[k].pay
    PROVE  NoBlockedPayment'
BY DEF NoBlockedPayment

LEMMA QueueStepNotBlocked ==
    ASSUME TypeInv, NoBlockedPayment, NEW j \in Jobs, QueueStep(j) \/ QueueUpdateRejects(j)
    PROVE  NoBlockedPayment'
<1>0. SlotsOK /\ DocumentsOK /\ job \in [Jobs -> JobState]
  BY DEF TypeInv, SlotsOK
<1>1. job[j].pay \in Payments
  BY BusySlot DEF QueueStep, Enqueue, BackoffElapses, ProcessJob, Claim, ClaimMisses,
     ChargeSucceeds, ChargeFails, RecordSuccess, GiveUp, ScheduleRetry, Requeue, Return,
     QueueUpdateRejects, UpdateRejects
<1>2. CASE Claim(j)
  BY <1>2, <1>0, <1>1, ClaimMoves, StillActive DEF Claim, Moves, Active, Working
<1>3. CASE Requeue(j) \/ Return(j)
  <2>1. processing' = processing \ {job[j].pay} /\ \A k \in Jobs \ {j} : job'[k] = job[k]
    BY <1>3, <1>0 DEF Requeue, Return
  <2> QED BY <2>1, StillActive
<1>4. CASE Enqueue(j) \/ BackoffElapses(j)
  <2>1. Moves(j, "due") /\ UNCHANGED processing /\ job[j].pc \notin Active
    BY <1>4, <1>0, MovesEffect DEF Enqueue, BackoffElapses, JobPC, Active, Working
  <2> QED BY <2>1, StillActive DEF Moves
<1>5. CASE \/ ClaimMisses(j) \/ ChargeSucceeds(j) \/ ChargeFails(j) \/ RecordSuccess(j)
           \/ GiveUp(j) \/ ScheduleRetry(j) \/ UpdateRejects(j)
  <2>1. UNCHANGED processing /\ \E pc \in JobPC \cap Active : job' = [job EXCEPT ![j].pc = pc]
    BY <1>5 DEF ClaimMisses, ChargeSucceeds, ChargeFails, RecordSuccess, GiveUp, ScheduleRetry,
                UpdateRejects, JobPC, Active, Working
  <2>2. UNCHANGED processing /\ \E pc \in Active : Moves(j, pc)
    BY <2>1, <1>0, MovesEffect
  <2> QED BY <2>2, StillActive DEF Moves
<1> QED BY <1>2, <1>3, <1>4, <1>5 DEF QueueStep, ProcessJob, QueueUpdateRejects

LEMMA NextNotBlocked ==
    ASSUME TypeInv, NoBlockedPayment, [Next]_vars
    PROVE  NoBlockedPayment'
<1>0. job \in [Jobs -> JobState]
  BY DEF TypeInv, SlotsOK
<1>1. CASE \/ UNCHANGED vars \/ Recover \/ StartWithoutRecovery \/ Shutdown
           \/ \E p \in Payments : PaymentRequestRejects(p)
           \/ \E h \in Hooks : Webhook(h)
  <2>1. UNCHANGED <<job, processing>>
    BY <1>1 DEF vars, Recover, StartWithoutRecovery, Shutdown, PaymentRequestRejects,
       CreateUnacknowledged, RetryUnacknowledged, Webhook, queueVars
  <2> QED BY <2>1, StillActive
<1>2. CASE StartAfterRecovery
  <2>1. PICK f \in [Jobs -> Payments \cup {NoPayment}] :
            /\ job' = [j \in Jobs |-> IF f[j] = NoPayment THEN FreeSlot ELSE Slot("claiming", f[j])]
            /\ processing' = {f[j] : j \in Jobs} \ {NoPayment}
    BY <1>2 DEF StartAfterRecovery, StartWith
  <2> QED BY <2>1 DEF NoBlockedPayment, Slot, Active
<1>3. CASE Crash \/ StartFails \/ Exit \/ \E j \in Jobs : UnhandledRejection(j)
  BY <1>3 DEF Crash, StartFails, Exit, UnhandledRejection, Die, NoBlockedPayment
<1>4. CASE \E p \in Payments, j \in Jobs : PaymentRequest(p, j)
  <2>1. PICK p \in Payments, j \in Jobs : PaymentRequest(p, j)
    BY <1>4
  <2>2. /\ UNCHANGED processing /\ job[j].pc \notin Active
        /\ \A k \in Jobs \ {j} : job'[k] = job[k]
    BY <2>1, <1>0 DEF PaymentRequest, CreatePayment, RetryFailedPayment, Active, Working
  <2> QED BY <2>2, StillActive
<1>5. CASE QueueTick
  <2>1. /\ processing' = processing \cup {job[j].pay : j \in Ready}
        /\ \A k \in Jobs : k \in Ready => job'[k] = [job[k] EXCEPT !.pc = "claiming"]
        /\ \A k \in Jobs : k \notin Ready => job'[k] = job[k]
    BY <1>5 DEF QueueTick, Tick
  <2>2. ASSUME NEW k \in Jobs, k \in Ready
        PROVE  job'[k].pc = "claiming" /\ job'[k].pay = job[k].pay
    <3>1. job[k] \in JobState /\ job'[k] = [job[k] EXCEPT !.pc = "claiming"]
      BY <2>1, <2>2, <1>0
    <3> QED BY <3>1 DEF JobState
  <2>3. \A k \in Jobs : job[k].pc \in Active => k \notin Ready
    BY DEF Ready, Active, Working
  <2> SUFFICES ASSUME NEW p \in processing'
               PROVE  \E k \in Jobs : job'[k].pay = p /\ job'[k].pc \in Active
    BY DEF NoBlockedPayment
  <2>4. CASE p \in processing
    BY <2>1, <2>3, <2>4 DEF NoBlockedPayment
  <2>5. CASE p \in {job[j].pay : j \in Ready}
    BY <2>2, <2>5 DEF Ready, Active
  <2> QED BY <2>1, <2>4, <2>5
<1>6. CASE \E j \in Jobs : QueueStep(j) \/ QueueUpdateRejects(j)
  BY <1>6, QueueStepNotBlocked
<1> QED BY <1>1, <1>2, <1>3, <1>4, <1>5, <1>6 DEF Next

\* A payment in the processing set has a call of processJob whose finally will
\* take it out: no early return, retry or rejection leaves it there for good.
THEOREM NotBlocked == Spec => []NoBlockedPayment
<1>1. Init => NoBlockedPayment
  BY DEF Init, QueueInit, NoBlockedPayment
<1>2. TypeInv /\ NoBlockedPayment /\ [Next]_vars => NoBlockedPayment'
  BY NextNotBlocked
<1> QED BY <1>1, <1>2, TypeInvariant, PTL DEF Spec

-----------------------------------------------------------------------------
(* Refinement. The lifecycle sees the status of the payments and which of  *)
(* them the gateway captured; every step of the server is a step of it or  *)
(* changes neither.                                                        *)

StatusUnchanged == \A p \in Payments : payments'[p].status = payments[p].status

Captured == {p \in Payments : charges[p] > 0}

LEMMA Becoming ==
    ASSUME NEW p \in Payments, OnlyAt(p), NEW s, payments'[p].status = s
    PROVE  Lifecycle!Becomes(p, s)
BY DEF OnlyAt, Lifecycle!Becomes

\* What a step that captures nothing makes of the statuses.
StatusStep ==
    \/ StatusUnchanged
    \/ \E p \in Payments :
          /\ OnlyAt(p)
          /\ \/ payments[p].status \in {"ABSENT", "FAILED"} /\ payments'[p].status = "PENDING"
             \/ payments[p].status = "PENDING" /\ payments'[p].status = "PROCESSING"
             \/ payments[p].status = "PROCESSING" /\ payments'[p].status = "PENDING"
             \/ payments[p].status \in {"PENDING", "PROCESSING"} /\ payments'[p].status \in Settled
             \/ charges[p] > 0 /\ payments'[p].status = "SUCCESS"
    \/ payments' = Recovered

LEMMA StatusStepMaps ==
    ASSUME TypeInv, StatusStep, UNCHANGED charges
    PROVE  [Lifecycle!Next]_(Lifecycle!lifecycleVars)
<1>1. CASE StatusUnchanged
  BY <1>1 DEF StatusUnchanged, Lifecycle!lifecycleVars
<1>2. CASE payments' = Recovered
  <2>1. Lifecycle!PutAllBack
    BY <1>2, RecoveredEffect DEF TypeInv, DocumentsOK, Lifecycle!PutAllBack
  <2> QED BY <2>1 DEF Lifecycle!Next
<1>3. ASSUME NEW p \in Payments, OnlyAt(p),
             \/ payments[p].status \in {"ABSENT", "FAILED"} /\ payments'[p].status = "PENDING"
             \/ payments[p].status = "PENDING" /\ payments'[p].status = "PROCESSING"
             \/ payments[p].status = "PROCESSING" /\ payments'[p].status = "PENDING"
             \/ payments[p].status \in {"PENDING", "PROCESSING"} /\ payments'[p].status \in Settled
             \/ charges[p] > 0 /\ payments'[p].status = "SUCCESS"
      PROVE  Lifecycle!Next
  <2>1. \A s : payments'[p].status = s => Lifecycle!Becomes(p, s)
    BY <1>3, Becoming
  <2>2. Captured' = Captured
    BY DEF Captured
  <2>3. CASE payments[p].status \in {"ABSENT", "FAILED"} /\ payments'[p].status = "PENDING"
    <3>1. Lifecycle!Submit(p)
      BY <2>1, <2>2, <2>3 DEF Lifecycle!Submit, Captured
    <3> QED BY <3>1 DEF Lifecycle!Next
  <2>4. CASE payments[p].status = "PENDING" /\ payments'[p].status = "PROCESSING"
    <3>1. Lifecycle!Process(p)
      BY <2>1, <2>2, <2>4 DEF Lifecycle!Process, Captured
    <3> QED BY <3>1 DEF Lifecycle!Next
  <2>5. CASE payments[p].status = "PROCESSING" /\ payments'[p].status = "PENDING"
    <3>1. Lifecycle!PutBack(p)
      BY <2>1, <2>2, <2>5 DEF Lifecycle!PutBack, Captured
    <3> QED BY <3>1 DEF Lifecycle!Next
  <2>6. CASE payments[p].status \in {"PENDING", "PROCESSING"} /\ payments'[p].status \in Settled
    <3>1. Lifecycle!Settle(p)
      BY <2>1, <2>2, <2>6 DEF Lifecycle!Settle, Lifecycle!Open, Settled, Captured
    <3> QED BY <3>1 DEF Lifecycle!Next
  <2>7. CASE charges[p] > 0 /\ payments'[p].status = "SUCCESS"
    <3>1. Lifecycle!Record(p)
      BY <2>1, <2>2, <2>7 DEF Lifecycle!Record, Captured
    <3> QED BY <3>1 DEF Lifecycle!Next
  <2> QED BY <1>3, <2>3, <2>4, <2>5, <2>6, <2>7
<1> QED BY <1>1, <1>2, <1>3 DEF StatusStep

LEMMA CaptureMaps ==
    ASSUME TypeInv, NEW j \in Jobs, ChargeSucceeds(j)
    PROVE  [Lifecycle!Next]_(Lifecycle!lifecycleVars)
<1>1. PICK p \in Payments : p = job[j].pay
  BY BusySlot DEF ChargeSucceeds
<1>2. payments[p].status # "ABSENT"
  BY <1>1, BusySlot DEF ChargeSucceeds, Exists
<1>3. charges \in [Payments -> 0..2] /\ charges'[p] > 0
  BY <1>1, CaptureEffect DEF TypeInv, RestOK
<1>4. charges' = [charges EXCEPT ![p] = charges'[p]]
  BY <1>1, <1>3 DEF ChargeSucceeds
<1>5. Captured' = Captured \cup {p}
  BY <1>3, <1>4 DEF Captured
<1>6. Lifecycle!Capture(p)
  BY <1>2, <1>5 DEF ChargeSucceeds, Lifecycle!Capture, Captured
<1> QED BY <1>6 DEF Lifecycle!Next

LEMMA OnlyAtStatus ==
    ASSUME NEW p \in Payments, OnlyAt(p), payments'[p].status = payments[p].status
    PROVE  StatusStep
BY DEF OnlyAt, StatusStep, StatusUnchanged

LEMMA NextStatusStep ==
    ASSUME TypeInv, SucceededCaptured, [Next]_vars
    PROVE  StatusStep
<1>0. /\ DocumentsOK /\ SlotsOK /\ RestOK
      /\ payments \in Documents /\ job \in [Jobs -> JobState] /\ hook \in [Hooks -> HookState]
  BY DEF TypeInv, DocumentsOK, SlotsOK, RestOK
<1>1. CASE UNCHANGED payments
  BY <1>1 DEF StatusStep, StatusUnchanged
<1>2. CASE payments' = Recovered
  BY <1>2 DEF StatusStep
<1>3. CASE \E p \in Payments : \/ ~Exists(p) /\ payments' = [payments EXCEPT ![p] = NewDocument]
                               \/ Reopenable(p) /\ payments' = Reopened(p)
  BY <1>3, <1>0, CreatedEffect, ReopenedEffect DEF StatusStep, Exists, Reopenable
<1>4. CASE \E h \in Hooks : UpdateFromWebhook(h)
  <2>1. PICK h \in Hooks : UpdateFromWebhook(h)
    BY <1>4
  <2> DEFINE p == hook[h].pay
  <2>2. p \in Payments /\ OnlyAt(p)
    BY <2>1, <1>0, NotifiedEffect
  <2>3. \/ payments'[p] = payments[p]
        \/ payments[p].status \in {"PENDING", "PROCESSING"} /\ payments'[p].status \in Settled
    BY <2>1, <1>0, NotifiedEffect
  <2> HIDE DEF p
  <2> QED BY <2>2, <2>3, OnlyAtStatus DEF StatusStep
<1>5. ASSUME NEW j \in Jobs, job[j].pc # "free",
             \/ Claimable(job[j].pay) /\ payments' = Claimed(job[j].pay)
             \/ job[j].pc = "succeeded" /\ payments' = Recorded(job[j].pay)
             \/ payments' = Abandoned(j)
             \/ payments' = Rescheduled(j)
      PROVE  StatusStep
  <2> DEFINE p == job[j].pay
  <2>1. p \in Payments
    BY <1>5, <1>0 DEF SlotsOK
  <2>2. CASE Claimable(p) /\ payments' = Claimed(p)
    BY <2>1, <2>2, <1>0, ClaimedEffect DEF Claimable, StatusStep
  <2>3. CASE job[j].pc = "succeeded" /\ payments' = Recorded(p)
    BY <2>1, <2>3, <1>0, RecordedEffect DEF SucceededCaptured, StatusStep
  <2>4. CASE payments' = Abandoned(j)
    <3>1. /\ OnlyAt(p)
          /\ \/ payments[p].status = "PROCESSING" /\ payments'[p].status = "FAILED"
             \/ payments'[p] = payments[p]
      BY <2>1, <2>4, <1>0, AbandonedEffect
    <3> QED BY <2>1, <3>1, OnlyAtStatus DEF StatusStep, Settled
  <2>5. CASE payments' = Rescheduled(j)
    <3>1. /\ OnlyAt(p)
          /\ \/ payments[p].status = "PROCESSING" /\ payments'[p].status = "PENDING"
             \/ payments'[p] = payments[p]
      BY <2>1, <2>5, <1>0, RescheduledEffect
    <3> QED BY <2>1, <3>1, OnlyAtStatus DEF StatusStep
  <2> QED BY <1>5, <2>2, <2>3, <2>4, <2>5
<1>6. CASE UNCHANGED vars \/ StartWithoutRecovery \/ StartAfterRecovery \/ Crash \/ Shutdown
           \/ Exit \/ QueueTick
  BY <1>6, <1>1 DEF vars, StartWithoutRecovery, StartAfterRecovery, Crash, Shutdown, Exit,
                    QueueTick, Tick
<1>7. CASE Recover \/ StartFails
  BY <1>7, <1>1, <1>2 DEF Recover, StartFails
<1>8. CASE \/ \E p \in Payments, j \in Jobs : PaymentRequest(p, j)
           \/ \E p \in Payments : PaymentRequestRejects(p)
  BY <1>8, <1>3 DEF PaymentRequest, PaymentRequestRejects, CreatePayment, RetryFailedPayment,
                    CreateUnacknowledged, RetryUnacknowledged
<1>9. CASE \E h \in Hooks : Webhook(h)
  BY <1>9, <1>1, <1>4 DEF Webhook, ReceiveWebhook, WebhookRejects
<1>10. CASE \E j \in Jobs : QueueStep(j)
  BY <1>10, <1>1, <1>5 DEF QueueStep, Enqueue, BackoffElapses, ProcessJob, Claim, ClaimMisses,
     ChargeSucceeds, ChargeFails, RecordSuccess, GiveUp, ScheduleRetry, Requeue, Return
<1>11. CASE \E j \in Jobs : QueueUpdateRejects(j) \/ UnhandledRejection(j)
  BY <1>11, <1>1, <1>5
  DEF QueueUpdateRejects, UpdateRejects, UnhandledRejection, UnhandledEffect
<1> QED BY <1>6, <1>7, <1>8, <1>9, <1>10, <1>11 DEF Next

\* The server, with its queue, workers, webhooks, crashes and recovery,
\* implements the lifecycle: every change of a status is one the lifecycle
\* allows, and a FAILED payment becomes a SUCCESS only after a capture.
THEOREM Refinement == Spec => ImplementsLifecycle
<1>1. Init => Lifecycle!Init
  BY DEF Init, StoreInit, QueueInit, NoDocument, Lifecycle!Init
<1>2. TypeInv /\ CaptureInv /\ [Next]_vars => [Lifecycle!Next]_(Lifecycle!lifecycleVars)
  <2> SUFFICES ASSUME TypeInv, CaptureInv, [Next]_vars
               PROVE  [Lifecycle!Next]_(Lifecycle!lifecycleVars)
    OBVIOUS
  <2>1. CASE \E j \in Jobs : ChargeSucceeds(j)
    BY <2>1, CaptureMaps
  <2>2. CASE UNCHANGED charges
    BY <2>2, NextStatusStep, StatusStepMaps DEF CaptureInv
  <2> QED BY <2>1, <2>2, ChargeStep
<1> QED BY <1>1, <1>2, TypeInvariant, CaptureInvariant, PTL
        DEF Spec, ImplementsLifecycle, Lifecycle!Spec

-----------------------------------------------------------------------------
(* Without faults: the process never ends, and only Recover could find     *)
(* payments before it starts, of which there are none.                     *)

QuietInv ==
    /\ server \in {"down", "up"}
    /\ server = "down" => \A p \in Payments : payments[p].status = "ABSENT"

\* The steps left when nothing fails.
QuietStep ==
    \/ UNCHANGED <<payments, job, charges>>
    \/ \E p \in Payments, j \in Jobs : PaymentRequest(p, j)
    \/ \E h \in Hooks : Webhook(h)
    \/ QueueTick
    \/ \E j \in Jobs : QueueStep(j)

LEMMA QueueStepBusy ==
    ASSUME TypeInv, NEW j \in Jobs, QueueStep(j)
    PROVE  job[j].pay \in Payments /\ server \in {"up", "stopping"}
BY BusySlot DEF QueueStep, Enqueue, BackoffElapses, ProcessJob, Claim, ClaimMisses,
   ChargeSucceeds, ChargeFails, RecordSuccess, GiveUp, ScheduleRetry, Requeue, Return

LEMMA NextQuiet ==
    ASSUME Faults = {}, TypeInv, QuietInv, [Next]_vars
    PROVE  QuietInv' /\ QuietStep
<1>1. Stuck # {} => server # "down"
  BY DEF Stuck, QuietInv
<1>2. CASE UNCHANGED vars
  BY <1>2 DEF vars, QuietInv, QuietStep
<1>3. CASE StartWithoutRecovery
  BY <1>3 DEF StartWithoutRecovery, QuietInv, QuietStep
<1>4. CASE \/ \E p \in Payments, j \in Jobs : PaymentRequest(p, j)
           \/ \E h \in Hooks : Webhook(h)
  BY <1>4 DEF PaymentRequest, Webhook, Serving, QuietInv, QuietStep
<1>5. CASE QueueTick
  BY <1>5 DEF QueueTick, Tick, QuietInv, QuietStep
<1>6. CASE \E j \in Jobs : QueueStep(j)
  <2>1. UNCHANGED server /\ server # "down"
    BY <1>6, QueueStepBusy DEF QueueStep
  <2> QED BY <1>6, <2>1 DEF QuietInv, QuietStep
<1> QED
  BY <1>1, <1>2, <1>3, <1>4, <1>5, <1>6
  DEF Next, QuietInv, Recover, StartAfterRecovery, Crash, StartFails, Shutdown, Exit,
      PaymentRequestRejects, QueueUpdateRejects, UnhandledRejection

LEMMA QuietInvariant ==
    ASSUME Faults = {}
    PROVE  Spec => []QuietInv
<1>1. Init => QuietInv
  BY DEF Init, StoreInit, NoDocument, QuietInv
<1>2. TypeInv /\ QuietInv /\ [Next]_vars => QuietInv'
  BY NextQuiet
<1> QED BY <1>1, <1>2, TypeInvariant, PTL DEF Spec

\* The entry of j goes on waiting, or its payment is not PENDING after its step.
LEMMA StillWaitedFor ==
    ASSUME NoLostPending, NEW j \in Jobs,
           \A k \in Jobs \ {j} : job'[k] = job[k],
           \A p \in Payments : payments'[p].status = "PENDING" =>
               \/ /\ payments[p].status = "PENDING"
                  /\ job[j].pay = p => job[j].pc \notin Waiting
               \/ job'[j].pay = p /\ job'[j].pc \in Waiting
    PROVE  NoLostPending'
<1> SUFFICES ASSUME NEW p \in Payments, payments'[p].status = "PENDING"
             PROVE  \E k \in Jobs : job'[k].pay = p /\ job'[k].pc \in Waiting
  BY DEF NoLostPending, Waiting
<1>1. CASE job'[j].pay = p /\ job'[j].pc \in Waiting
  BY <1>1
<1>2. CASE payments[p].status = "PENDING" /\ (job[j].pay = p => job[j].pc \notin Waiting)
  <2>1. PICK k \in Jobs : job[k].pay = p /\ job[k].pc \in Waiting
    BY <1>2 DEF NoLostPending, Waiting
  <2> QED BY <1>2, <2>1
<1> QED BY <1>1, <1>2

LEMMA QueueStepKeepsPending ==
    ASSUME TypeInv, NoLostPending, NEW j \in Jobs, QueueStep(j)
    PROVE  NoLostPending'
<1> DEFINE p == job[j].pay
<1>0. /\ DocumentsOK /\ SlotsOK
      /\ payments \in Documents /\ job \in [Jobs -> JobState] /\ p \in Payments
  BY QueueStepBusy DEF TypeInv, DocumentsOK, SlotsOK
<1>1. CASE Enqueue(j) \/ BackoffElapses(j)
  <2>1. UNCHANGED payments /\ Moves(j, "due")
    BY <1>1, <1>0, MovesEffect DEF Enqueue, BackoffElapses, JobPC
  <2> QED BY <2>1, StillWaitedFor DEF Moves, Waiting
<1>2. CASE Claim(j)
  <2>1. OnlyAt(p) /\ payments'[p].status = "PROCESSING" /\ Moves(j, "charging")
    BY <1>2, <1>0, ClaimedEffect, ClaimMoves DEF Claim
  <2> QED BY <2>1, StillWaitedFor DEF OnlyAt, Moves
<1>3. CASE ClaimMisses(j)
  <2>1. UNCHANGED payments /\ payments[p].status # "PENDING" /\ Moves(j, "returning")
    BY <1>3, <1>0, MovesEffect DEF ClaimMisses, Claimable, JobPC
  <2> QED BY <2>1, StillWaitedFor DEF Moves
<1>4. CASE ChargeSucceeds(j) \/ ChargeFails(j) \/ Return(j)
  <2>1. /\ UNCHANGED payments /\ job[j].pc \notin Waiting
        /\ \A k \in Jobs \ {j} : job'[k] = job[k]
    BY <1>4, <1>0 DEF ChargeSucceeds, ChargeFails, Return, Waiting
  <2> QED BY <2>1, StillWaitedFor
<1>5. CASE RecordSuccess(j)
  <2>1. OnlyAt(p) /\ payments'[p].status = "SUCCESS" /\ Moves(j, "returning")
    BY <1>5, <1>0, RecordedEffect, MovesEffect DEF RecordSuccess, JobPC
  <2> QED BY <2>1, StillWaitedFor DEF OnlyAt, Moves
<1>6. CASE GiveUp(j)
  <2>1. /\ OnlyAt(p) /\ Moves(j, "returning") /\ job[j].pc \notin Waiting
        /\ payments'[p] = payments[p] \/ payments'[p].status # "PENDING"
    BY <1>6, <1>0, AbandonedEffect, MovesEffect DEF GiveUp, JobPC, Waiting
  <2> QED BY <2>1, StillWaitedFor DEF OnlyAt, Moves
<1>7. CASE ScheduleRetry(j)
  <2>1. OnlyAt(p) /\ Moves(j, "requeueing") /\ job[j].pc \notin Waiting
    BY <1>7, <1>0, RescheduledEffect, MovesEffect DEF ScheduleRetry, JobPC, Waiting
  <2> QED BY <2>1, StillWaitedFor DEF OnlyAt, Moves, Waiting
<1>8. CASE Requeue(j)
  <2>1. UNCHANGED payments /\ Moves(j, "delayed")
    BY <1>8, <1>0, RequeueMoves DEF Requeue
  <2> QED BY <2>1, StillWaitedFor DEF Moves, Waiting
<1> QED
  BY <1>1, <1>2, <1>3, <1>4, <1>5, <1>6, <1>7, <1>8 DEF QueueStep, ProcessJob

\* Steps that take no entry away and make no payment PENDING.
LEMMA EntriesKept ==
    ASSUME NoLostPending,
           \A k \in Jobs : job[k].pc \in Waiting =>
               job'[k].pc \in Waiting /\ job'[k].pay = job[k].pay,
           \A p \in Payments :
               payments'[p].status = "PENDING" => payments[p].status = "PENDING"
    PROVE  NoLostPending'
BY DEF NoLostPending, Waiting

LEMMA QuietStepKeepsPending ==
    ASSUME TypeInv, NoLostPending, QuietStep
    PROVE  NoLostPending'
<1>0. /\ SlotsOK /\ payments \in Documents /\ job \in [Jobs -> JobState]
      /\ hook \in [Hooks -> HookState]
  BY DEF TypeInv, DocumentsOK, SlotsOK, RestOK
<1>1. CASE UNCHANGED <<payments, job, charges>>
  BY <1>1, EntriesKept
<1>2. CASE \E p \in Payments, j \in Jobs : PaymentRequest(p, j)
  <2>1. PICK p \in Payments, j \in Jobs : PaymentRequest(p, j)
    BY <1>2
  <2>2. OnlyAt(p) /\ job[j].pc = "free" /\ job' = [job EXCEPT ![j] = Slot("enqueueing", p)]
    BY <2>1, <1>0, CreatedEffect, ReopenedEffect
    DEF PaymentRequest, CreatePayment, RetryFailedPayment
  <2>3. job'[j].pc = "enqueueing" /\ job'[j].pay = p /\ \A k \in Jobs \ {j} : job'[k] = job[k]
    BY <2>2, <1>0 DEF Slot
  <2> QED BY <2>2, <2>3, StillWaitedFor DEF OnlyAt, Waiting
<1>3. CASE \E h \in Hooks : Webhook(h)
  <2>1. PICK h \in Hooks : Webhook(h)
    BY <1>3
  <2>2. UNCHANGED job
    BY <2>1 DEF Webhook, queueVars
  <2>3. CASE UNCHANGED payments
    BY <2>2, <2>3, EntriesKept
  <2>4. CASE UpdateFromWebhook(h)
    <3>1. \A p \in Payments :
              payments'[p].status = "PENDING" => payments[p].status = "PENDING"
      BY <2>4, <1>0, NotifiedEffect DEF OnlyAt, Settled
    <3> QED BY <2>2, <3>1, EntriesKept
  <2> QED BY <2>1, <2>3, <2>4 DEF Webhook, ReceiveWebhook, WebhookRejects
<1>4. CASE QueueTick
  <2>1. /\ UNCHANGED payments
        /\ \A k \in Jobs : \/ job'[k] = [job[k] EXCEPT !.pc = "claiming"]
                           \/ job'[k] = job[k]
    BY <1>4 DEF QueueTick, Tick
  <2>2. \A k \in Jobs : job[k].pc \in Waiting =>
            job'[k].pc \in Waiting /\ job'[k].pay = job[k].pay
    <3> SUFFICES ASSUME NEW k \in Jobs, job[k].pc \in Waiting
                 PROVE  job'[k].pc \in Waiting /\ job'[k].pay = job[k].pay
      OBVIOUS
    <3>1. job[k] \in JobState
      BY <1>0
    <3> QED BY <2>1, <3>1 DEF JobState, Waiting
  <2> QED BY <2>1, <2>2, EntriesKept
<1>5. CASE \E j \in Jobs : QueueStep(j)
  BY <1>5, QueueStepKeepsPending
<1> QED BY <1>1, <1>2, <1>3, <1>4, <1>5 DEF QuietStep

\* Without faults no PENDING payment is forgotten: a queue entry, a handler or
\* a worker will get to it, however webhooks, manual retries and workers of any
\* number interleave.
THEOREM PendingNotLost ==
    ASSUME Faults = {}
    PROVE  Spec => []NoLostPending
<1>1. Init => NoLostPending
  BY DEF Init, StoreInit, NoDocument, NoLostPending
<1>2. TypeInv /\ QuietInv /\ NoLostPending /\ [Next]_vars => NoLostPending'
  BY NextQuiet, QuietStepKeepsPending
<1> QED BY <1>1, <1>2, TypeInvariant, QuietInvariant, PTL DEF Spec

LEMMA QueueStepKeepsCharges ==
    ASSUME TypeInv, CaptureInv, ChargeRecorded, [Next]_vars, NEW j \in Jobs, QueueStep(j)
    PROVE  ChargeRecorded'
<1>0. /\ DocumentsOK /\ SlotsOK
      /\ payments \in Documents /\ job \in [Jobs -> JobState] /\ job[j].pay \in Payments
  BY QueueStepBusy DEF TypeInv, DocumentsOK, SlotsOK
<1> SUFFICES ASSUME NEW p \in Payments, charges'[p] > 0
             PROVE  \/ payments'[p].status = "SUCCESS" /\ payments'[p].transactionId = "gateway"
                    \/ \E k \in Jobs : job'[k].pay = p /\ job'[k].pc = "succeeded"
  BY DEF ChargeRecorded
<1>1. CASE ChargeSucceeds(j)
  <2>1. Moves(j, "succeeded") /\ UNCHANGED payments
    BY <1>1, CaptureEffect DEF ChargeSucceeds
  <2>2. CASE p = job[j].pay
    BY <2>1, <2>2 DEF Moves
  <2>3. CASE p # job[j].pay
    <3>1. charges'[p] = charges[p]
      BY <1>1, <2>3 DEF ChargeSucceeds, TypeInv, RestOK
    <3>2. job[j].pc # "succeeded"
      BY <1>1 DEF ChargeSucceeds
    <3> QED BY <2>1, <3>1, <3>2 DEF ChargeRecorded, Moves
  <2> QED BY <2>2, <2>3
<1>2. CASE RecordSuccess(j)
  <2>1. /\ OnlyAt(job[j].pay) /\ Moves(j, "returning") /\ UNCHANGED charges
        /\ payments'[job[j].pay].status = "SUCCESS"
        /\ payments'[job[j].pay].transactionId = "gateway"
    BY <1>2, <1>0, RecordedEffect, MovesEffect DEF RecordSuccess, JobPC
  <2> QED BY <2>1 DEF OnlyAt, Moves, ChargeRecorded
<1>3. CASE ~ChargeSucceeds(j) /\ ~RecordSuccess(j)
  <2>1. UNCHANGED charges /\ job[j].pc # "succeeded" /\ \A k \in Jobs \ {j} : job'[k] = job[k]
    BY <1>3, <1>0 DEF QueueStep, Enqueue, BackoffElapses, ProcessJob, Claim, ClaimMisses,
       ChargeFails, GiveUp, ScheduleRetry, Requeue, Return
  <2>2. DocumentStep(p)
    BY NextDocumentStep DEF CaptureInv
  <2> QED BY <2>1, <2>2 DEF DocumentStep, ChargeRecorded
<1> QED BY <1>1, <1>2, <1>3

\* Without faults every capture is on record with the gateway's identifier, or
\* the worker that got it is about to record it: no webhook, manual retry or
\* second worker loses one.
THEOREM ChargesRecorded ==
    ASSUME Faults = {}
    PROVE  Spec => []ChargeRecorded
<1>1. Init => ChargeRecorded
  BY DEF Init, QueueInit, ChargeRecorded
<1>2. TypeInv /\ CaptureInv /\ QuietInv /\ ChargeRecorded /\ [Next]_vars => ChargeRecorded'
  <2> SUFFICES ASSUME TypeInv, CaptureInv, QuietInv, ChargeRecorded, [Next]_vars
               PROVE  ChargeRecorded'
    OBVIOUS
  <2>1. CASE \E j \in Jobs : QueueStep(j)
    BY <2>1, QueueStepKeepsCharges
  <2>2. CASE /\ UNCHANGED charges
             /\ \A k \in Jobs : job[k].pc = "succeeded" =>
                    job'[k].pc = "succeeded" /\ job'[k].pay = job[k].pay
    BY <2>2, NextDocumentStep DEF CaptureInv, DocumentStep, ChargeRecorded
  <2>3. job \in [Jobs -> JobState]
    BY DEF TypeInv, SlotsOK
  <2>4. CASE \E p \in Payments, j \in Jobs : PaymentRequest(p, j)
    BY <2>2, <2>3, <2>4 DEF PaymentRequest, CreatePayment, RetryFailedPayment
  <2>5. CASE \/ UNCHANGED <<payments, job, charges>> \/ \E h \in Hooks : Webhook(h)
    BY <2>2, <2>5 DEF Webhook, queueVars
  <2>6. CASE QueueTick
    BY <2>2, <2>6 DEF QueueTick, Tick, Ready
  <2> QED BY <2>1, <2>4, <2>5, <2>6, NextQuiet DEF QuietStep
<1> QED BY <1>1, <1>2, TypeInvariant, CaptureInvariant, QuietInvariant, PTL DEF Spec
=============================================================================
