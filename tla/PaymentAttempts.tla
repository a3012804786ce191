-------------------------- MODULE PaymentAttempts --------------------------
(***************************************************************************)
(* What the retry queue promises of a payment that only it settles: it is  *)
(* tried until an attempt captures it or the last one allowed has failed,  *)
(* each failure is counted once, a capture is recorded before anything     *)
(* else happens to the payment, and a restart costs no attempt. There is   *)
(* no queue, worker, timer or processing set here.                         *)
(***************************************************************************)
EXTENDS Naturals

CONSTANTS Payments, MaxAttempts

VARIABLES
    phase,          \* [Payments -> a status, or CAPTURED: captured, not recorded]
    failures        \* [Payments -> Nat]: attempts that failed since it was submitted

attemptVars == <<phase, failures>>

Init ==
    /\ phase = [p \in Payments |-> "ABSENT"]
    /\ failures = [p \in Payments |-> 0]

Enters(p, s) == phase' = [phase EXCEPT ![p] = s]

\* A payment is created, or a failed one is given a new budget of attempts.
Submit(p) ==
    /\ phase[p] \in {"ABSENT", "FAILED"}
    /\ Enters(p, "PENDING")
    /\ failures' = [failures EXCEPT ![p] = 0]

Begin(p) ==
    /\ phase[p] = "PENDING"
    /\ Enters(p, "PROCESSING")
    /\ UNCHANGED failures

Capture(p) ==
    /\ phase[p] = "PROCESSING"
    /\ Enters(p, "CAPTURED")
    /\ UNCHANGED failures

Record(p) ==
    /\ phase[p] = "CAPTURED"
    /\ Enters(p, "SUCCESS")
    /\ UNCHANGED failures

\* The last attempt allowed has failed.
Fail(p) ==
    /\ phase[p] = "PROCESSING"
    /\ failures[p] + 1 = MaxAttempts
    /\ Enters(p, "FAILED")
    /\ failures' = [failures EXCEPT ![p] = @ + 1]

Retry(p) ==
    /\ phase[p] = "PROCESSING"
    /\ failures[p] + 1 < MaxAttempts
    /\ Enters(p, "PENDING")
    /\ failures' = [failures EXCEPT ![p] = @ + 1]

\* The process ends: nobody knows any longer what was captured and not recorded.
Forget ==
    /\ phase' = [p \in Payments |-> IF phase[p] = "CAPTURED" THEN "PROCESSING" ELSE phase[p]]
    /\ UNCHANGED failures

\* A new process puts back what the old one was at, and counts no failure for it.
Recover ==
    /\ \A p \in Payments : phase[p] # "CAPTURED"
    /\ phase' = [p \in Payments |-> IF phase[p] = "PROCESSING" THEN "PENDING" ELSE phase[p]]
    /\ UNCHANGED failures

Next ==
    \/ \E p \in Payments : \/ Submit(p) \/ Begin(p) \/ Capture(p)
                           \/ Record(p) \/ Fail(p) \/ Retry(p)
    \/ Forget
    \/ Recover

Spec == Init /\ [][Next]_attemptVars
=============================================================================
