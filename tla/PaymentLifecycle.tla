-------------------------- MODULE PaymentLifecycle --------------------------
(***************************************************************************)
(* What the service promises of a payment, whatever the server does: the   *)
(* statuses it passes through and what each change needs. There is no      *)
(* queue, worker, request or server here, only the database's view of the  *)
(* payments and the gateway's knowledge of what it captured.               *)
(***************************************************************************)
CONSTANT Payments

VARIABLES
    status,         \* [Payments -> Status]
    captured        \* payments the gateway captured

lifecycleVars == <<status, captured>>

Open == {"PENDING", "PROCESSING"}

Becomes(p, s) == status' = [status EXCEPT ![p] = s]

Init ==
    /\ status = [p \in Payments |-> "ABSENT"]
    /\ captured = {}

\* A customer submits the payment, or has a failed one tried again.
Submit(p) ==
    /\ status[p] \in {"ABSENT", "FAILED"}
    /\ Becomes(p, "PENDING")
    /\ UNCHANGED captured

\* A worker takes the payment; it may fail to reach an outcome, put the
\* payment back and have it taken again.
Process(p) ==
    /\ status[p] = "PENDING"
    /\ Becomes(p, "PROCESSING")
    /\ UNCHANGED captured

PutBack(p) ==
    /\ status[p] = "PROCESSING"
    /\ Becomes(p, "PENDING")
    /\ UNCHANGED captured

\* A new process puts back everything that was being processed.
PutAllBack ==
    /\ status' = [p \in Payments |-> IF status[p] = "PROCESSING" THEN "PENDING" ELSE status[p]]
    /\ UNCHANGED captured

\* The gateway captures a payment that was submitted.
Capture(p) ==
    /\ status[p] # "ABSENT"
    /\ captured' = captured \cup {p}
    /\ UNCHANGED status

\* A captured payment becomes a success, whatever its status.
Record(p) ==
    /\ p \in captured
    /\ Becomes(p, "SUCCESS")
    /\ UNCHANGED captured

\* An open payment is settled by the gateway's word.
Settle(p) ==
    /\ status[p] \in Open
    /\ \E s \in {"SUCCESS", "FAILED"} : Becomes(p, s)
    /\ UNCHANGED captured

Next ==
    \/ \E p \in Payments : \/ Submit(p) \/ Process(p) \/ PutBack(p)
                           \/ Capture(p) \/ Record(p) \/ Settle(p)
    \/ PutAllBack

Spec == Init /\ [][Next]_lifecycleVars
=============================================================================
