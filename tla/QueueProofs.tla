----------------------------- MODULE QueueProofs -----------------------------
(***************************************************************************)
(* Proofs about the entries of the queue in PaymentGateway: that none is   *)
(* missing, none is there twice, and each agrees with the document it is   *)
(* for; first under every fault, then under the conditions of the runs.    *)
(***************************************************************************)
EXTENDS PaymentGatewayProofs

-----------------------------------------------------------------------------
(* Where entries come from.                                                *)

LEMMA RequestGivesSlot ==
    ASSUME SlotsOK, NEW p \in Payments, NEW j \in Jobs, PaymentRequest(p, j)
    PROVE  /\ job[j].pc = "free"
           /\ job'[j].pc = "enqueueing" /\ job'[j].pay = p
           /\ \A k \in Jobs \ {j} : job'[k] = job[k]
BY DEF SlotsOK, PaymentRequest, CreatePayment, RetryFailedPayment, Slot

LEMMA QueueStepSlot ==
    ASSUME SlotsOK, NEW j \in Jobs, QueueStep(j) \/ QueueUpdateRejects(j)
    PROVE  /\ job[j].pc # "free"
           /\ job'[j].pc # "free" => job'[j].pay = job[j].pay
           /\ \A k \in Jobs \ {j} : job'[k] = job[k]
<1>0. job \in [Jobs -> JobState]
  BY DEF SlotsOK
<1>1. CASE Claim(j)
  <2>1. PICK n : job' = [job EXCEPT ![j].pc = "charging", ![j].attempt = n]
    BY <1>1 DEF Claim
  <2>2. job[j] \in JobState /\ job'[j] = [job[j] EXCEPT !.pc = "charging", !.attempt = n]
    BY <1>0, <2>1
  <2> QED BY <1>0, <1>1, <2>1, <2>2 DEF Claim, JobState
<1>2. CASE Requeue(j) \/ Return(j)
  BY <1>0, <1>2 DEF Requeue, Return, Slot, FreeSlot
<1>3. CASE \/ Enqueue(j) \/ BackoffElapses(j) \/ ClaimMisses(j) \/ ChargeSucceeds(j)
           \/ ChargeFails(j) \/ RecordSuccess(j) \/ GiveUp(j) \/ ScheduleRetry(j)
           \/ UpdateRejects(j)
  <2>1. job[j].pc # "free" /\ \E pc \in JobPC : job' = [job EXCEPT ![j].pc = pc]
    BY <1>3 DEF Enqueue, BackoffElapses, ClaimMisses, ChargeSucceeds, ChargeFails,
       RecordSuccess, GiveUp, ScheduleRetry, UpdateRejects, JobPC
  <2> QED BY <2>1, MovesEffect DEF Moves
<1> QED BY <1>1, <1>2, <1>3 DEF QueueStep, ProcessJob, QueueUpdateRejects

LEMMA TickSlots ==
    ASSUME SlotsOK, QueueTick, NEW k \in Jobs
    PROVE  /\ job'[k].pay = job[k].pay
           /\ k \in Ready => job[k].pc = "due" /\ job'[k].pc = "claiming"
           /\ k \notin Ready => job'[k] = job[k]
<1>1. job[k] \in JobState
  BY DEF SlotsOK
<1>2. job'[k] = IF k \in Ready THEN [job[k] EXCEPT !.pc = "claiming"] ELSE job[k]
  BY DEF QueueTick, Tick
<1> QED BY <1>1, <1>2 DEF Ready, JobState

LEMMA RecoverySlots ==
    ASSUME StartAfterRecovery
    PROVE  /\ \A k \in Jobs : job'[k].pc # "free" =>
                  /\ job'[k].pc = "claiming" /\ job'[k].pay \in processing'
                  /\ payments[job'[k].pay].status = "PENDING"
           /\ \A k, l \in Jobs : job'[k].pc # "free" /\ job'[k].pay = job'[l].pay
                                 /\ job'[l].pc # "free" => k = l
           /\ processing' = {job'[k].pay : k \in {l \in Jobs : job'[l].pc # "free"}}
<1>1. PICK f \in [Jobs -> Payments \cup {NoPayment}] : StartWith(f)
  BY DEF StartAfterRecovery
<1>2. \A k \in Jobs : job'[k] = IF f[k] = NoPayment THEN FreeSlot ELSE Slot("claiming", f[k])
  BY <1>1 DEF StartWith
<1>3. \A k \in Jobs : /\ job'[k].pc # "free" <=> f[k] # NoPayment
                      /\ f[k] # NoPayment => job'[k].pc = "claiming" /\ job'[k].pay = f[k]
  <2>1. FreeSlot.pc = "free"
    BY DEF FreeSlot
  <2>2. \A p \in Payments \cup {NoPayment} :
            Slot("claiming", p).pc = "claiming" /\ Slot("claiming", p).pay = p
    BY DEF Slot
  <2> QED BY <1>2, <2>1, <2>2
<1>4. \A k \in Jobs : f[k] # NoPayment => payments[f[k]].status = "PENDING"
  BY <1>1 DEF StartWith, MayBeStuck
<1>5. processing' = {f[k] : k \in Jobs} \ {NoPayment}
  BY <1>1 DEF StartWith
<1>6. \A k, l \in Jobs : f[k] = f[l] /\ f[k] # NoPayment => k = l
  BY <1>1 DEF StartWith
<1> QED BY <1>3, <1>4, <1>5, <1>6

\* A slot in use was in use for the same payment, or a request or the recovery at
\* startup took it.
LEMMA SlotOrigin ==
    ASSUME TypeInv, [Next]_vars
    PROVE  \/ \E p \in Payments, j \in Jobs : PaymentRequest(p, j)
           \/ StartAfterRecovery
           \/ \A k \in Jobs : job'[k].pc # "free" =>
                  job[k].pc # "free" /\ job'[k].pay = job[k].pay
<1>0. SlotsOK
  BY DEF TypeInv
<1>1. CASE UNCHANGED job
  BY <1>1
<1>2. CASE Crash \/ StartFails \/ Exit \/ \E j \in Jobs : UnhandledRejection(j)
  BY <1>2 DEF Crash, StartFails, Exit, UnhandledRejection, Die, FreeSlot
<1>3. CASE QueueTick
  <2>1. \A k \in Jobs : /\ job'[k].pay = job[k].pay
                        /\ k \in Ready => job[k].pc = "due"
                        /\ k \notin Ready => job'[k] = job[k]
    BY <1>0, <1>3, TickSlots
  <2> QED BY <2>1
<1>4. CASE \E j \in Jobs : QueueStep(j) \/ QueueUpdateRejects(j)
  BY <1>0, <1>4, QueueStepSlot
<1> QED
  BY <1>1, <1>2, <1>3, <1>4
  DEF vars, Next, Recover, StartWithoutRecovery, Shutdown, PaymentRequestRejects,
      CreateUnacknowledged, RetryUnacknowledged, Webhook, queueVars

-----------------------------------------------------------------------------
(* No second entry but by a manual retry.                                  *)

LEMMA StepNotCrowding ==
    ASSUME TypeInv, [Next]_vars, NEW p \in Payments, Crowded(p)'
    PROVE  Crowded(p) \/ \E j \in Jobs : RetryFailedPayment(p, j)
<1>0. SlotsOK
  BY DEF TypeInv
<1>1. PICK k, l \in Jobs : /\ k # l /\ job'[k].pay = p /\ job'[l].pay = p
                           /\ job'[k].pc # "free" /\ job'[l].pc # "free"
  BY DEF Crowded
<1>2. CASE \E q \in Payments, i \in Jobs : PaymentRequest(q, i)
  <2>1. PICK q \in Payments, i \in Jobs : PaymentRequest(q, i)
    BY <1>2
  <2>2. job'[i].pay = q /\ \A j \in Jobs \ {i} : job'[j] = job[j]
    BY <1>0, <2>1, RequestGivesSlot
  <2>3. CASE q # p
    BY <1>1, <2>2, <2>3 DEF Crowded
  <2>4. CASE q = p /\ CreatePayment(q, i)
    <3>1. \A j \in Jobs : job[j].pc # "free" => job[j].pay # p
      BY <1>0, <2>4 DEF SlotsOK, CreatePayment
    <3> QED BY <1>1, <2>2, <3>1
  <2> QED BY <2>1, <2>3, <2>4 DEF PaymentRequest
<1>3. CASE StartAfterRecovery
  BY <1>1, <1>3, RecoverySlots
<1>4. CASE \A j \in Jobs : job'[j].pc # "free" => job[j].pc # "free" /\ job'[j].pay = job[j].pay
  BY <1>1, <1>4 DEF Crowded
<1> QED BY <1>2, <1>3, <1>4, SlotOrigin

\* Under every fault and any webhooks a payment comes to have a second entry,
\* handler or worker by a manual retry only.
THEOREM SecondEntryByRetry == Spec => CrowdedOnlyByRetry
<1>1. TypeInv /\ [Next]_vars =>
          [\A p \in Payments : Crowded(p)' =>
              Crowded(p) \/ \E j \in Jobs : RetryFailedPayment(p, j)]_vars
  BY StepNotCrowding
<1> QED BY <1>1, TypeInvariant, PTL DEF Spec, CrowdedOnlyByRetry

NoRetry == \A p \in Payments, j \in Jobs : ~RetryFailedPayment(p, j)

NoneCrowded == \A p \in Payments : ~Crowded(p)

\* While nobody retries a payment by hand, at most one worker holds it, whatever
\* webhooks, rejected calls, crashes and recoveries come in between: what breaks
\* the guarantee of the class RetryQueue is a manual retry.
THEOREM OneWorkerWithoutRetry ==
    Spec /\ [][NoRetry]_vars => []AtMostOneProcessing
<1>1. Init => NoneCrowded
  <2> SUFFICES ASSUME Init PROVE NoneCrowded
    OBVIOUS
  <2>1. \A k \in Jobs : job[k].pc = "free"
    BY DEF Init, QueueInit, FreeSlot
  <2> QED BY <2>1 DEF NoneCrowded, Crowded
<1>2. TypeInv /\ NoneCrowded /\ [Next]_vars /\ [NoRetry]_vars => NoneCrowded'
  <2> SUFFICES ASSUME TypeInv, NoneCrowded, [Next]_vars, [NoRetry]_vars,
                      NEW p \in Payments, Crowded(p)'
               PROVE  FALSE
    BY DEF NoneCrowded
  <2>1. CASE UNCHANGED vars
    BY <2>1 DEF vars, NoneCrowded, Crowded
  <2>2. CASE NoRetry
    BY <2>2, StepNotCrowding DEF NoneCrowded, NoRetry
  <2> QED BY <2>1, <2>2
<1>3. TypeInv /\ NoneCrowded => AtMostOneProcessing
  BY DEF TypeInv, SlotsOK, NoneCrowded, Crowded, AtMostOneProcessing, Working
<1> QED BY <1>1, <1>2, <1>3, TypeInvariant, PTL DEF Spec

-----------------------------------------------------------------------------
(* No PENDING payment is forgotten but by the end of a process or a write  *)
(* that is not acknowledged.                                               *)

\* The slot j serves p after its step, or did not before.
LEMMA StillServed ==
    ASSUME NEW p \in Payments, NEW j \in Jobs,
           \A k \in Jobs \ {j} : job'[k] = job[k],
           \/ payments'[p].status # "PENDING"
           \/ Serves(j, p)'
           \/ payments[p].status = "PENDING" /\ ~Serves(j, p)
    PROVE  Forgotten(p)' => Forgotten(p)
<1> SUFFICES ASSUME payments'[p].status = "PENDING", \A k \in Jobs : ~Serves(k, p)'
             PROVE  payments[p].status = "PENDING" /\ \A k \in Jobs : ~Serves(k, p)
  BY DEF Forgotten, Awaited
<1>1. payments[p].status = "PENDING" /\ ~Serves(j, p)
  OBVIOUS
<1>2. \A k \in Jobs \ {j} : Serves(k, p) => Serves(k, p)'
  BY DEF Serves, Exhausted
<1> QED BY <1>1, <1>2

\* No slot ceases to serve p, and p is not made PENDING.
LEMMA EntriesServe ==
    ASSUME NEW p \in Payments,
           \A k \in Jobs : Serves(k, p) => Serves(k, p)',
           payments'[p].status = "PENDING" => payments[p].status = "PENDING"
    PROVE  Forgotten(p)' => Forgotten(p)
BY DEF Forgotten, Awaited

LEMMA QueueStepServes ==
    ASSUME TypeInv, NEW p \in Payments, NEW j \in Jobs, QueueStep(j)
    PROVE  Forgotten(p)' => Forgotten(p)
<1> DEFINE q == job[j].pay
<1>0. /\ DocumentsOK /\ SlotsOK
      /\ payments \in Documents /\ job \in [Jobs -> JobState] /\ q \in Payments
  BY QueueStepBusy DEF TypeInv, DocumentsOK, SlotsOK
<1>1. CASE Enqueue(j) \/ BackoffElapses(j) \/ Requeue(j)
  <2>1. UNCHANGED payments /\ (Moves(j, "due") \/ Moves(j, "delayed"))
    BY <1>1, <1>0, MovesEffect, RequeueMoves DEF Enqueue, BackoffElapses, Requeue, JobPC
  <2>2. Serves(j, p)' \/ ~Serves(j, p)
    BY <2>1 DEF Moves, Serves, Waiting
  <2> QED BY <2>1, <2>2, StillServed DEF Moves, Forgotten
<1>2. CASE Claim(j)
  <2>1. OnlyAt(q) /\ payments'[q].status = "PROCESSING" /\ Moves(j, "charging")
    BY <1>2, <1>0, ClaimedEffect, ClaimMoves DEF Claim
  <2>2. payments'[p].status # "PENDING" \/ (payments'[p] = payments[p] /\ ~Serves(j, p))
    BY <2>1 DEF OnlyAt, Serves
  <2> QED BY <2>1, <2>2, StillServed DEF Moves
<1>3. CASE ClaimMisses(j)
  <2>1. UNCHANGED payments /\ payments[q].status # "PENDING" /\ Moves(j, "returning")
    BY <1>3, <1>0, MovesEffect DEF ClaimMisses, Claimable, JobPC
  <2>2. payments'[p].status # "PENDING" \/ (payments'[p] = payments[p] /\ ~Serves(j, p))
    BY <2>1 DEF Serves
  <2> QED BY <2>1, <2>2, StillServed DEF Moves
<1>4. CASE ChargeSucceeds(j) \/ ChargeFails(j) \/ Return(j)
  <2>1. UNCHANGED payments /\ \A k \in Jobs \ {j} : job'[k] = job[k]
    BY <1>4, <1>0 DEF ChargeSucceeds, ChargeFails, Return
  <2>2. ~Serves(j, p)
    BY <1>4 DEF ChargeSucceeds, ChargeFails, Return, Serves, Waiting
  <2> QED BY <2>1, <2>2, StillServed
<1>5. CASE RecordSuccess(j)
  <2>1. OnlyAt(q) /\ payments'[q].status = "SUCCESS" /\ Moves(j, "returning")
    BY <1>5, <1>0, RecordedEffect, MovesEffect DEF RecordSuccess, JobPC
  <2>2. ~Serves(j, p)
    BY <1>5 DEF RecordSuccess, Serves, Waiting
  <2> QED BY <2>1, <2>2, StillServed DEF OnlyAt, Moves
<1>6. CASE GiveUp(j)
  <2>1. /\ OnlyAt(q) /\ Moves(j, "returning")
        /\ payments'[q] = payments[q] \/ payments'[q].status # "PENDING"
    BY <1>6, <1>0, AbandonedEffect, MovesEffect DEF GiveUp, JobPC
  <2>2. ~Serves(j, p)
    BY <1>6 DEF GiveUp, Serves, Waiting
  <2> QED BY <2>1, <2>2, StillServed DEF OnlyAt, Moves
<1>7. CASE ScheduleRetry(j)
  <2>1. OnlyAt(q) /\ Moves(j, "requeueing")
    BY <1>7, <1>0, RescheduledEffect, MovesEffect DEF ScheduleRetry, JobPC
  <2>2. Serves(j, p)' \/ (payments'[p] = payments[p] /\ ~Serves(j, p))
    BY <2>1 DEF OnlyAt, Moves, Serves, Waiting
  <2> QED BY <2>1, <2>2, StillServed DEF Moves
<1> QED
  BY <1>1, <1>2, <1>3, <1>4, <1>5, <1>6, <1>7 DEF QueueStep, ProcessJob

LEMMA UpdateRejectsServes ==
    ASSUME TypeInv, NEW p \in Payments, NEW j \in Jobs, QueueUpdateRejects(j)
    PROVE  Forgotten(p)' => Forgotten(p)
<1> DEFINE q == job[j].pay
<1>0. /\ payments \in Documents /\ job \in [Jobs -> JobState] /\ q \in Payments
  BY BusySlot DEF TypeInv, DocumentsOK, SlotsOK, QueueUpdateRejects, UpdateRejects
<1>1. /\ job'[j].pc = "catching" /\ job'[j].pay = q /\ job'[j].attempt = job[j].attempt
      /\ \A k \in Jobs \ {j} : job'[k] = job[k]
  BY <1>0 DEF QueueUpdateRejects, UpdateRejects, JobState
<1>2. CASE job[j].pc = "succeeded" /\ payments' \in {payments, Recorded(q)}
  <2>1. OnlyAt(q) /\ (payments'[q] = payments[q] \/ payments'[q].status # "PENDING")
    BY <1>0, <1>2, RecordedEffect DEF OnlyAt
  <2>2. ~Serves(j, p)
    BY <1>2 DEF Serves, Waiting
  <2> QED BY <1>1, <2>1, <2>2, StillServed DEF OnlyAt
<1>3. CASE Exhausted(j) /\ job[j].pc = "failing" /\ payments' \in {payments, Abandoned(j)}
  <2>1. OnlyAt(q) /\ (payments'[q] = payments[q] \/ payments'[q].status # "PENDING")
    BY <1>0, <1>3, AbandonedEffect DEF OnlyAt
  <2>2. ~Serves(j, p)
    BY <1>3 DEF Serves, Waiting
  <2> QED BY <1>1, <2>1, <2>2, StillServed DEF OnlyAt
<1>4. CASE ~Exhausted(j) /\ job[j].pc = "failing" /\ payments' \in {payments, Rescheduled(j)}
  <2>1. OnlyAt(q)
    BY <1>0, <1>4, RescheduledEffect DEF OnlyAt
  <2>2. Serves(j, p)' \/ (payments'[p] = payments[p] /\ ~Serves(j, p))
    BY <1>1, <1>4, <2>1 DEF OnlyAt, Serves, Exhausted
  <2> QED BY <1>1, <2>2, StillServed
<1> QED BY <1>2, <1>3, <1>4 DEF QueueUpdateRejects, UpdateRejects

LEMMA RequestServes ==
    ASSUME TypeInv, NEW p \in Payments, NEW q \in Payments, NEW j \in Jobs, PaymentRequest(q, j)
    PROVE  Forgotten(p)' => Forgotten(p)
<1>1. SlotsOK /\ payments \in Documents
  BY DEF TypeInv, DocumentsOK
<1>2. /\ job[j].pc = "free" /\ job'[j].pc = "enqueueing" /\ job'[j].pay = q
      /\ \A k \in Jobs \ {j} : job'[k] = job[k]
  BY <1>1, RequestGivesSlot
<1>3. OnlyAt(q)
  BY <1>1, CreatedEffect, ReopenedEffect DEF PaymentRequest, CreatePayment, RetryFailedPayment
<1>4. Serves(j, p)' \/ (payments'[p] = payments[p] /\ ~Serves(j, p))
  BY <1>2, <1>3 DEF OnlyAt, Serves, Waiting
<1> QED BY <1>2, <1>4, StillServed

LEMMA WebhookServes ==
    ASSUME TypeInv, NEW p \in Payments, NEW h \in Hooks, Webhook(h)
    PROVE  Forgotten(p)' => Forgotten(p)
<1>1. payments \in Documents /\ hook \in [Hooks -> HookState]
  BY DEF TypeInv, DocumentsOK, RestOK
<1>2. UNCHANGED job
  BY DEF Webhook, queueVars
<1>3. \A k \in Jobs : Serves(k, p) => Serves(k, p)'
  BY <1>2 DEF Serves, Exhausted
<1>4. UNCHANGED payments \/ UpdateFromWebhook(h)
  BY DEF Webhook, ReceiveWebhook, WebhookRejects
<1>5. payments'[p].status = "PENDING" => payments[p].status = "PENDING"
  BY <1>1, <1>4, NotifiedEffect DEF OnlyAt, Settled
<1> QED BY <1>3, <1>5, EntriesServe

LEMMA TickServes ==
    ASSUME TypeInv, NEW p \in Payments, QueueTick
    PROVE  Forgotten(p)' => Forgotten(p)
<1>1. SlotsOK /\ UNCHANGED payments
  BY DEF TypeInv, QueueTick, Tick
<1>2. \A k \in Jobs : Serves(k, p) => Serves(k, p)'
  <2> SUFFICES ASSUME NEW k \in Jobs, Serves(k, p) PROVE Serves(k, p)'
    OBVIOUS
  <2>1. CASE k \in Ready
    BY <1>1, <2>1, TickSlots DEF Serves, Waiting
  <2>2. CASE k \notin Ready
    BY <1>1, <2>2, TickSlots DEF Serves, Exhausted
  <2> QED BY <2>1, <2>2
<1> QED BY <1>1, <1>2, EntriesServe

LEMMA StepForgets ==
    ASSUME TypeInv, [Next]_vars, NEW p \in Payments, Forgotten(p)'
    PROVE  \/ Forgotten(p)
           \/ server' \in {"down", "recovering"}
           \/ PaymentRequestRejects(p)
<1>1. CASE UNCHANGED vars \/ StartWithoutRecovery \/ Shutdown
  BY <1>1 DEF vars, StartWithoutRecovery, Shutdown, Forgotten, Awaited, Serves, Exhausted
<1>2. CASE StartAfterRecovery
  <2>1. \A k \in Jobs : job[k].pc = "free"
    BY <1>2 DEF StartAfterRecovery, TypeInv, IdleWhenDown
  <2>2. UNCHANGED payments
    BY <1>2 DEF StartAfterRecovery
  <2> QED BY <2>1, <2>2 DEF Forgotten, Awaited, Serves, Waiting
<1>3. CASE Recover \/ Crash \/ StartFails \/ Exit \/ \E j \in Jobs : UnhandledRejection(j)
  BY <1>3 DEF Recover, Crash, StartFails, Exit, UnhandledRejection, Die
<1>4. CASE \E q \in Payments : PaymentRequestRejects(q)
  <2>1. PICK q \in Payments : PaymentRequestRejects(q)
    BY <1>4
  <2>2. OnlyAt(q) /\ UNCHANGED job
    BY <2>1, CreatedEffect, ReopenedEffect
    DEF TypeInv, DocumentsOK, PaymentRequestRejects, CreateUnacknowledged, RetryUnacknowledged,
        queueVars
  <2>3. CASE q # p
    BY <2>2, <2>3 DEF OnlyAt, Forgotten, Awaited, Serves, Exhausted
  <2> QED BY <2>1, <2>3
<1>5. CASE \E q \in Payments, j \in Jobs : PaymentRequest(q, j)
  BY <1>5, RequestServes
<1>6. CASE \E h \in Hooks : Webhook(h)
  BY <1>6, WebhookServes
<1>7. CASE QueueTick
  BY <1>7, TickServes
<1>8. CASE \E j \in Jobs : QueueStep(j) \/ QueueUpdateRejects(j)
  BY <1>8, QueueStepServes, UpdateRejectsServes
<1> QED BY <1>1, <1>2, <1>3, <1>4, <1>5, <1>6, <1>7, <1>8 DEF Next

\* Under every fault and any webhooks, a PENDING payment is forgotten only when its
\* process ends or the request that wrote it is not acknowledged: a worker whose
\* update rejects, or meets a payment another has settled, still gets to it.
THEOREM ForgottenByFaultsOnly == Spec => ForgottenOnlyByFaults
<1>1. TypeInv /\ [Next]_vars =>
          [\A p \in Payments : Forgotten(p)' =>
              \/ Forgotten(p)
              \/ server' \in {"down", "recovering"}
              \/ PaymentRequestRejects(p)]_vars
  BY StepForgets
<1> QED BY <1>1, TypeInvariant, PTL DEF Spec, ForgottenOnlyByFaults

-----------------------------------------------------------------------------
(* Without webhooks and rejected updates the queue and the collection      *)
(* agree. Every part of the invariant needs the others: an entry alone     *)
(* with its payment (OneEntryEach) keeps its document in the state it      *)
(* expects (EntriesMatch), which is what lets no request add another; and  *)
(* the processing set being exact (CallsInSet) keeps the tick from         *)
(* starting a call beside one whose finally has not run.                   *)

Calling(q) == \E k \in Jobs : job[k].pc \in Active /\ job[k].pay = q

LEMMA CallsMeans ==
    /\ CallsInSet <=> \A q : q \in processing <=> Calling(q)
    /\ CallsInSet' <=> \A q : q \in processing' <=> Calling(q)'
BY DEF CallsInSet, Calling

\* A step of slot j writes, if any, the document of its payment, which no other
\* entry is for; its call of processJob goes on, ends, or has not begun.
LEMMA SlotStepMatches ==
    ASSUME QueueMatchesStore, NEW j \in Jobs, NEW q \in Payments,
           \A k \in Jobs \ {j} : job'[k] = job[k],
           \A p \in Payments \ {q} : payments'[p] = payments[p],
           \A k \in Jobs \ {j} : job[k].pc \in Live => job[k].pay \in Payments \ {q},
           job'[j].pc # "free" => job'[j].pay = q,
           job'[j].pc \in Waiting => payments'[q].status = "PENDING",
           job'[j].pc \in Working => /\ payments'[q].status = "PROCESSING"
                                     /\ job'[j].attempt = payments'[q].retryCount + 1,
           \/ /\ job'[j].pc \in Active <=> job[j].pc \in Active
              /\ job[j].pc \in Active => job[j].pay = q
              /\ UNCHANGED processing
           \/ /\ job[j].pc \in Active /\ job[j].pay = q /\ job'[j].pc \notin Active
              /\ processing' = processing \ {q}
    PROVE  QueueMatchesStore'
<1>0. "free" \notin Waiting \cup Working \cup Active
  BY DEF Waiting, Working, Active
<1>1. EntriesMatch'
  <2> SUFFICES ASSUME NEW k \in Jobs
               PROVE  /\ job'[k].pc \in Waiting => payments'[job'[k].pay].status = "PENDING"
                      /\ job'[k].pc \in Working =>
                             /\ payments'[job'[k].pay].status = "PROCESSING"
                             /\ job'[k].attempt = payments'[job'[k].pay].retryCount + 1
    BY DEF EntriesMatch
  <2>1. CASE k = j
    BY <1>0, <2>1
  <2>2. CASE k # j
    BY <2>2 DEF QueueMatchesStore, EntriesMatch, Live
  <2> QED BY <2>1, <2>2
<1>2. OneEntryEach'
  <2>1. \A k \in Jobs \ {j} : job'[j].pc \in Active /\ job[k].pc \in Active => job[k].pay # q
    BY DEF QueueMatchesStore, OneEntryEach
  <2>2. \A k \in Jobs \ {j} : job'[j].pc \in Live /\ job[k].pc \in Live => job[k].pay # q
    OBVIOUS
  <2>3. job'[j].pc \in Live \cup Active => job'[j].pay = q
    BY <1>0 DEF Live
  <2> QED BY <2>1, <2>2, <2>3 DEF QueueMatchesStore, OneEntryEach
<1>3. CallsInSet'
  <2>1. \A p : p \in processing <=> Calling(p)
    BY CallsMeans DEF QueueMatchesStore
  <2>2. CASE job[j].pc \in Active /\ job'[j].pc \notin Active /\ processing' = processing \ {q}
    <3>1. ~Calling(q)'
      BY <2>2 DEF QueueMatchesStore, OneEntryEach, Calling
    <3>2. \A p : p # q => (Calling(p)' <=> Calling(p))
      BY <2>2 DEF Calling
    <3> QED BY <2>1, <2>2, <3>1, <3>2, CallsMeans
  <2>3. CASE (job'[j].pc \in Active <=> job[j].pc \in Active) /\ UNCHANGED processing
    <3>1. \A p : Calling(p)' <=> Calling(p)
      BY <2>3, <1>0 DEF Calling
    <3> QED BY <2>1, <2>3, <3>1, CallsMeans
  <2> QED BY <2>2, <2>3
<1> QED BY <1>1, <1>2, <1>3 DEF QueueMatchesStore

\* No other entry is for the payment of a live one.
LEMMA AloneWithPayment ==
    ASSUME SlotsOK, QueueMatchesStore, NEW j \in Jobs, job[j].pc \in Live
    PROVE  \A k \in Jobs \ {j} : job[k].pc \in Live => job[k].pay \in Payments \ {job[j].pay}
BY DEF SlotsOK, QueueMatchesStore, OneEntryEach, Live, Waiting, Working

\* A call ends without an entry; another entry may be for its payment by then.
LEMMA ReturnMatches ==
    ASSUME QueueMatchesStore, NEW j \in Jobs, NEW q, job[j].pay = q, UNCHANGED payments,
           \A k \in Jobs \ {j} : job'[k] = job[k],
           job[j].pc \in Active, job'[j].pc = "free", processing' = processing \ {q}
    PROVE  QueueMatchesStore'
<1>0. "free" \notin Waiting \cup Working \cup Active
  BY DEF Waiting, Working, Active
<1>1. EntriesMatch'
  BY <1>0 DEF QueueMatchesStore, EntriesMatch
<1>2. OneEntryEach'
  BY <1>0 DEF QueueMatchesStore, OneEntryEach, Live
<1>3. CallsInSet'
  <2>1. \A p : p \in processing <=> Calling(p)
    BY CallsMeans DEF QueueMatchesStore
  <2>2. ~Calling(q)'
    BY <1>0 DEF QueueMatchesStore, OneEntryEach, Calling
  <2>3. \A p : p # q => (Calling(p)' <=> Calling(p))
    BY <1>0 DEF Calling
  <2> QED BY <2>1, <2>2, <2>3, CallsMeans
<1> QED BY <1>1, <1>2, <1>3 DEF QueueMatchesStore

LEMMA QueueStepMatches ==
    ASSUME TypeInv, QueueMatchesStore, NEW j \in Jobs, QueueStep(j)
    PROVE  QueueMatchesStore'
<1> DEFINE q == job[j].pay
<1>0. /\ DocumentsOK /\ SlotsOK
      /\ payments \in Documents /\ job \in [Jobs -> JobState] /\ q \in Payments
  BY QueueStepBusy DEF TypeInv, DocumentsOK, SlotsOK
<1>a. job[j].pc \in Live =>
          \A k \in Jobs \ {j} : job[k].pc \in Live => job[k].pay \in Payments \ {q}
  BY <1>0, AloneWithPayment
<1>b. /\ job[j].pc \in Waiting => payments[q].status = "PENDING"
      /\ job[j].pc \in Working => /\ payments[q].status = "PROCESSING"
                                  /\ job[j].attempt = payments[q].retryCount + 1
  BY DEF QueueMatchesStore, EntriesMatch
<1>1. CASE Enqueue(j) \/ BackoffElapses(j)
  <2>1. /\ UNCHANGED <<payments, processing>> /\ Moves(j, "due")
        /\ job[j].pc \in Waiting /\ job[j].pc \notin Active
    BY <1>1, <1>0, MovesEffect DEF Enqueue, BackoffElapses, JobPC, Waiting, Active, Working
  <2>2. "due" \in Waiting /\ "due" \notin Working \cup Active
    BY DEF Waiting, Working, Active
  <2> QED BY <1>0, <1>a, <1>b, <2>1, <2>2, SlotStepMatches DEF Moves, Live
<1>2. CASE Claim(j)
  <2>1. /\ OnlyAt(q) /\ Moves(j, "charging")
        /\ payments'[q].status = "PROCESSING" /\ payments'[q].retryCount = payments[q].retryCount
        /\ job[j].pc \in Waiting \cap Active /\ UNCHANGED processing
    BY <1>2, <1>0, ClaimedEffect, ClaimMoves DEF Claim, Waiting, Active
  <2>2. job'[j].attempt = payments[q].retryCount + 1
    BY <1>2, <1>0 DEF Claim, JobState
  <2>3. "charging" \in Working \cap Active /\ "charging" \notin Waiting
    BY DEF Waiting, Working, Active
  <2> QED BY <1>0, <1>a, <2>1, <2>2, <2>3, SlotStepMatches DEF OnlyAt, Moves, Live
<1>3. CASE ClaimMisses(j)
  BY <1>3, <1>b DEF ClaimMisses, Claimable, Waiting
<1>4. CASE ChargeSucceeds(j) \/ ChargeFails(j)
  <2>1. /\ UNCHANGED <<payments, processing>> /\ job[j].pc \in Working \cap Active
        /\ Moves(j, "succeeded") \/ Moves(j, "failing")
    BY <1>4, <1>0, MovesEffect DEF ChargeSucceeds, ChargeFails, JobPC, Working, Active
  <2>2. job'[j].attempt = job[j].attempt
    BY <1>4, <1>0 DEF ChargeSucceeds, ChargeFails, JobState
  <2>3. /\ job'[j].pc \in Working \cap Active /\ job'[j].pc \notin Waiting
        /\ job'[j].pay = q /\ \A k \in Jobs \ {j} : job'[k] = job[k]
    BY <2>1 DEF Moves, Waiting, Working, Active
  <2>4. /\ payments'[q].status = "PROCESSING"
        /\ job'[j].attempt = payments'[q].retryCount + 1
    BY <1>b, <2>1, <2>2
  <2> QED BY <1>0, <1>a, <2>1, <2>3, <2>4, SlotStepMatches DEF Live
<1>5. CASE RecordSuccess(j) \/ GiveUp(j)
  <2>1. /\ OnlyAt(q) /\ Moves(j, "returning") /\ UNCHANGED processing
        /\ job[j].pc \in Working \cap Active
    BY <1>5, <1>0, RecordedEffect, AbandonedEffect, MovesEffect
    DEF RecordSuccess, GiveUp, JobPC, Working, Active
  <2>2. "returning" \in Active /\ "returning" \notin Waiting \cup Working
    BY DEF Waiting, Working, Active
  <2> QED BY <1>0, <1>a, <2>1, <2>2, SlotStepMatches DEF OnlyAt, Moves, Live
<1>6. CASE ScheduleRetry(j)
  <2>1. job[j].pc \in Working \cap Active
    BY <1>6 DEF ScheduleRetry, Working, Active
  <2>2. /\ OnlyAt(q) /\ Moves(j, "requeueing") /\ UNCHANGED processing
        /\ payments'[q].status = "PENDING"
    BY <1>6, <1>0, <1>b, <2>1, RescheduledEffect, MovesEffect DEF ScheduleRetry, JobPC
  <2>3. "requeueing" \in Waiting \cap Active /\ "requeueing" \notin Working
    BY DEF Waiting, Working, Active
  <2> QED BY <1>0, <1>a, <2>1, <2>2, <2>3, SlotStepMatches DEF OnlyAt, Moves, Live
<1>7. CASE Requeue(j)
  <2>1. /\ UNCHANGED payments /\ Moves(j, "delayed") /\ processing' = processing \ {q}
        /\ job[j].pc \in Waiting \cap Active
    BY <1>7, <1>0, RequeueMoves DEF Requeue, Waiting, Active
  <2>2. "delayed" \in Waiting /\ "delayed" \notin Active \cup Working
    BY DEF Waiting, Working, Active
  <2> QED BY <1>0, <1>a, <1>b, <2>1, <2>2, SlotStepMatches DEF Moves, Live
<1>8. CASE Return(j)
  <2>1. /\ UNCHANGED payments /\ processing' = processing \ {q}
        /\ job'[j].pc = "free" /\ \A k \in Jobs \ {j} : job'[k] = job[k]
        /\ job[j].pc \in Active
    BY <1>8, <1>0, FreeSlotTyped DEF Return, Active
  <2>2. QueueMatchesStore'
    BY <2>1, ReturnMatches
  <2> QED BY <2>2
<1> QED
  BY <1>1, <1>2, <1>3, <1>4, <1>5, <1>6, <1>7, <1>8 DEF QueueStep, ProcessJob

LEMMA RequestMatches ==
    ASSUME TypeInv, QueueMatchesStore, NEW p \in Payments, NEW j \in Jobs, PaymentRequest(p, j)
    PROVE  QueueMatchesStore'
<1>0. SlotsOK /\ payments \in Documents
  BY DEF TypeInv, DocumentsOK
<1>1. /\ job[j].pc = "free" /\ job'[j].pc = "enqueueing" /\ job'[j].pay = p
      /\ \A k \in Jobs \ {j} : job'[k] = job[k]
  BY <1>0, RequestGivesSlot
<1>2. /\ OnlyAt(p) /\ payments'[p].status = "PENDING" /\ UNCHANGED processing
      /\ payments[p].status \notin {"PENDING", "PROCESSING"}
  BY <1>0, CreatedEffect, ReopenedEffect
  DEF PaymentRequest, CreatePayment, RetryFailedPayment, Exists, Reopenable
<1>3. \A k \in Jobs \ {j} : job[k].pc \in Live => job[k].pay \in Payments \ {p}
  <2> SUFFICES ASSUME NEW k \in Jobs \ {j}, job[k].pc \in Live
               PROVE  job[k].pay \in Payments \ {p}
    OBVIOUS
  <2>1. job[k].pay \in Payments
    BY <1>0 DEF SlotsOK, Live, Waiting, Working
  <2>2. payments[job[k].pay].status \in {"PENDING", "PROCESSING"}
    BY DEF QueueMatchesStore, EntriesMatch, Live
  <2> QED BY <1>2, <2>1, <2>2
<1>4. /\ {"free", "enqueueing"} \cap Active = {}
      /\ "enqueueing" \in Waiting /\ "enqueueing" \notin Working
  BY DEF Waiting, Working, Active
<1>5. /\ job'[j].pc \in Active <=> job[j].pc \in Active
      /\ job[j].pc \notin Active
  BY <1>1, <1>4
<1> QED BY <1>1, <1>2, <1>3, <1>4, <1>5, SlotStepMatches DEF OnlyAt

LEMMA TickMatches ==
    ASSUME TypeInv, QueueMatchesStore, QueueTick
    PROVE  QueueMatchesStore'
<1>0. SlotsOK /\ UNCHANGED payments /\ processing' = processing \cup {job[k].pay : k \in Ready}
  BY DEF TypeInv, QueueTick, Tick
<1>1. \A k \in Jobs : /\ job'[k].pay = job[k].pay
                      /\ k \in Ready => job[k].pc = "due" /\ job'[k].pc = "claiming"
                      /\ k \notin Ready => job'[k] = job[k]
  BY <1>0, TickSlots
<1>2. /\ {"due", "claiming"} \subseteq Waiting /\ {"due", "claiming"} \cap Working = {}
      /\ "due" \notin Active /\ "claiming" \in Active
  BY DEF Waiting, Working, Active
<1>3. EntriesMatch'
  BY <1>0, <1>1, <1>2 DEF QueueMatchesStore, EntriesMatch
<1>4. OneEntryEach'
  <2>1. \A k \in Jobs : k \in Ready => ~Calling(job[k].pay)
    BY CallsMeans DEF QueueMatchesStore, Ready
  <2>2. \A k \in Jobs : /\ job'[k].pc \in Live => job[k].pc \in Live
                        /\ job'[k].pc \in Active => k \in Ready \/ job[k].pc \in Active
    BY <1>1, <1>2 DEF Live
  <2> SUFFICES ASSUME NEW k \in Jobs, NEW l \in Jobs, k # l, job[k].pay = job[l].pay
               PROVE  /\ ~(job'[k].pc \in Live /\ job'[l].pc \in Live)
                      /\ ~(job'[k].pc \in Active /\ job'[l].pc \in Active)
    BY <1>1 DEF OneEntryEach
  <2>3. /\ ~(job[k].pc \in Live /\ job[l].pc \in Live)
        /\ ~(job[k].pc \in Active /\ job[l].pc \in Active)
    BY DEF QueueMatchesStore, OneEntryEach
  <2>4. ~(k \in Ready /\ l \in Ready)
    BY <1>1, <1>2, <2>3 DEF Live
  <2>5. /\ k \in Ready => job[l].pc \notin Active
        /\ l \in Ready => job[k].pc \notin Active
    BY <2>1 DEF Calling
  <2> QED BY <2>2, <2>3, <2>4, <2>5
<1>5. CallsInSet'
  <2>1. \A p : p \in processing <=> Calling(p)
    BY CallsMeans DEF QueueMatchesStore
  <2>2. \A p : Calling(p)' <=> Calling(p) \/ \E k \in Ready : job[k].pay = p
    BY <1>1, <1>2 DEF Calling, Ready
  <2> QED BY <1>0, <2>1, <2>2, CallsMeans
<1> QED BY <1>3, <1>4, <1>5 DEF QueueMatchesStore

\* No entry and no call: before the start and after the end of a process.
LEMMA IdleMatches ==
    ASSUME \A k \in Jobs : job'[k].pc = "free", processing' = {}
    PROVE  QueueMatchesStore'
<1>0. "free" \notin Waiting \cup Working \cup Active
  BY DEF Waiting, Working, Active
<1>1. CallsInSet'
  BY <1>0, CallsMeans DEF Calling
<1> QED BY <1>0, <1>1 DEF QueueMatchesStore, EntriesMatch, OneEntryEach, Live

LEMMA RecoveryMatches ==
    ASSUME StartAfterRecovery
    PROVE  QueueMatchesStore'
<1>1. /\ \A k \in Jobs : job'[k].pc # "free" =>
             /\ job'[k].pc = "claiming"
             /\ payments[job'[k].pay].status = "PENDING"
      /\ \A k, l \in Jobs : job'[k].pc # "free" /\ job'[k].pay = job'[l].pay
                             /\ job'[l].pc # "free" => k = l
      /\ processing' = {job'[k].pay : k \in {l \in Jobs : job'[l].pc # "free"}}
  BY RecoverySlots
<1>2. UNCHANGED payments
  BY DEF StartAfterRecovery
<1>3. /\ "free" \notin Waiting \cup Working \cup Active
      /\ "claiming" \in Active /\ "claiming" \notin Working
  BY DEF Waiting, Working, Active
<1>4. EntriesMatch'
  BY <1>1, <1>2, <1>3 DEF EntriesMatch
<1>5. OneEntryEach'
  BY <1>1, <1>3 DEF OneEntryEach, Live
<1>6. CallsInSet'
  BY <1>1, <1>3, CallsMeans DEF Calling
<1> QED BY <1>4, <1>5, <1>6 DEF QueueMatchesStore

LEMMA NextMatches ==
    ASSUME Hooks = {}, "dbError" \notin Faults, TypeInv, QueueMatchesStore, [Next]_vars
    PROVE  QueueMatchesStore'
<1>1. CASE UNCHANGED vars \/ StartWithoutRecovery \/ Shutdown
  BY <1>1 DEF vars, StartWithoutRecovery, Shutdown, QueueMatchesStore, EntriesMatch,
     CallsInSet, OneEntryEach
<1>2. CASE Recover
  BY <1>2, IdleMatches DEF Recover, TypeInv, IdleWhenDown
<1>3. CASE Crash \/ Exit
  BY <1>3, IdleMatches DEF Crash, Exit, Die, FreeSlot
<1>4. CASE StartAfterRecovery
  BY <1>4, RecoveryMatches
<1>5. CASE \E p \in Payments, j \in Jobs : PaymentRequest(p, j)
  BY <1>5, RequestMatches
<1>6. CASE QueueTick
  BY <1>6, TickMatches
<1>7. CASE \E j \in Jobs : QueueStep(j)
  BY <1>7, QueueStepMatches
<1> QED
  BY <1>1, <1>2, <1>3, <1>4, <1>5, <1>6, <1>7
  DEF Next, StartFails, PaymentRequestRejects, QueueUpdateRejects, UnhandledRejection

\* Without webhooks and rejected updates every entry has the payment it expects, every
\* call of processJob its place in the processing set, and no payment two entries,
\* through failed charges, manual retries, crashes, shutdowns and recoveries.
THEOREM QueueAndStoreAgree ==
    ASSUME Hooks = {}, "dbError" \notin Faults
    PROVE  Spec => []QueueMatchesStore
<1>1. Init => QueueMatchesStore
  <2> SUFFICES ASSUME Init PROVE QueueMatchesStore
    OBVIOUS
  <2>1. \A k \in Jobs : job[k].pc = "free"
    BY DEF Init, QueueInit, FreeSlot
  <2>2. processing = {}
    BY DEF Init, QueueInit
  <2>3. "free" \notin Waiting \cup Working \cup Active
    BY DEF Waiting, Working, Active
  <2>4. CallsInSet
    BY <2>1, <2>2, <2>3, CallsMeans DEF Calling
  <2> QED BY <2>1, <2>3, <2>4 DEF QueueMatchesStore, EntriesMatch, OneEntryEach, Live
<1>2. TypeInv /\ QueueMatchesStore /\ [Next]_vars => QueueMatchesStore'
  BY NextMatches
<1> QED BY <1>1, <1>2, TypeInvariant, PTL DEF Spec

-----------------------------------------------------------------------------
(* What follows for the workers.                                           *)

HeldProcessing ==
    \A j \in Jobs : job[j].pc \in Working => payments[job[j].pay].status = "PROCESSING"

HeldInv == HeldProcessing /\ AtMostOneProcessing

LEMMA MatchedHeld == QueueMatchesStore => HeldInv
BY DEF QueueMatchesStore, EntriesMatch, OneEntryEach, Live, HeldInv, HeldProcessing,
       AtMostOneProcessing

LEMMA HeldInvariant ==
    ASSUME Hooks = {}, "dbError" \notin Faults
    PROVE  Spec => []HeldInv
BY MatchedHeld, QueueAndStoreAgree, PTL

\* When no webhook arrives and no update rejects, at most one worker is between
\* the claim and the outcome of a payment, through manual retries, crashes,
\* shutdowns and recoveries.
THEOREM OneWorkerPerPayment ==
    ASSUME Hooks = {}, "dbError" \notin Faults
    PROVE  Spec => []AtMostOneProcessing
<1>1. HeldInv => AtMostOneProcessing
  BY DEF HeldInv
<1> QED BY <1>1, HeldInvariant, PTL

\* Under the same conditions the gateway only captures payments that are
\* PROCESSING at that moment.
THEOREM CapturesProcessing ==
    ASSUME Hooks = {}, "dbError" \notin Faults
    PROVE  Spec => CaptureWhileProcessing
<1>1. TypeInv /\ HeldInv /\ [Next]_vars =>
          [\A p \in Payments :
              charges'[p] # charges[p] => payments[p].status = "PROCESSING"]_vars
  <2> SUFFICES ASSUME TypeInv, HeldInv, [Next]_vars, NEW p \in Payments,
                      charges'[p] # charges[p]
               PROVE  payments[p].status = "PROCESSING"
    OBVIOUS
  <2>1. PICK j \in Jobs : ChargeSucceeds(j)
    BY ChargeStep
  <2>2. p = job[j].pay
    BY <2>1 DEF ChargeSucceeds, TypeInv, RestOK
  <2> QED BY <2>1, <2>2 DEF ChargeSucceeds, HeldInv, HeldProcessing, Working
<1> QED BY <1>1, TypeInvariant, HeldInvariant, PTL DEF Spec, CaptureWhileProcessing
=============================================================================
