---------------------------- MODULE Idempotency ----------------------------
(***************************************************************************)
(* src/middleware/idempotency.middleware.ts around the creation of a       *)
(* payment (POST /api/payments): the middleware looks the key up, lets the *)
(* request through when it finds nothing, and stores the response while it *)
(* is being sent. The key is not reserved in between, and the response     *)
(* does not wait for the record. A payment is named by the order of its    *)
(* creation; what becomes of it is PaymentGateway's matter.                *)
(***************************************************************************)
EXTENDS Integers, Sequences

CONSTANTS
    Keys,
    Requests,           \* bounds the requests handled at one time
    MaxCreated,         \* bounds the payments created in a behaviour
    NoKey               \* the key of an idle slot of Requests

ASSUME MaxCreatedAssumption == MaxCreated \in Nat

VARIABLES
    record,             \* [Keys -> Response]: the idempotency collection
    created,            \* Seq(Keys): the key each payment was created with
    request,            \* [Requests -> RequestState]
    answered            \* keys some request was answered 201 for, until the
                        \* record of the answer expires

idempotencyVars == <<record, created, request, answered>>

\* A payment created, an error, or nothing stored or answered yet.
None == 0
Error == -1
Response == -1..MaxCreated

\* idle       no request
\* looking    the middleware awaits findOne
\* creating   the controller validates the body and awaits createPayment
\* storing    the response was sent, the create of its record is in flight
RequestPC == {"idle", "looking", "creating", "storing"}

\* What the request met when it arrived, for the properties: nothing, an answer
\* given before it for its key, or a record of one that has not expired since.
Arrival == {"first", "answered", "recorded"}

RequestState == [pc : RequestPC, key : Keys \cup {NoKey}, response : Response,
                 arrival : Arrival]

IdleRequest == [pc |-> "idle", key |-> NoKey, response |-> None, arrival |-> "first"]

Init ==
    /\ record = [k \in Keys |-> None]
    /\ created = <<>>
    /\ request = [r \in Requests |-> IdleRequest]
    /\ answered = {}

ArrivalOf(k) == IF record[k] # None THEN "recorded"
                ELSE IF k \in answered THEN "answered" ELSE "first"

Receive(r, k) ==
    /\ request[r].pc = "idle"
    /\ request' = [request EXCEPT ![r] = [pc |-> "looking", key |-> k, response |-> None,
                                          arrival |-> ArrivalOf(k)]]
    /\ UNCHANGED <<record, created, answered>>

\* findOne found a record: its status and body are the response.
Replay(r) ==
    /\ request[r].pc = "looking"
    /\ record[request[r].key] # None
    /\ request' = [request EXCEPT ![r] = IdleRequest]
    /\ UNCHANGED <<record, created, answered>>

\* The record is not awaited, so any request passes while it is looked for.
MutantPasses(r) == request[r].pc = "looking"
Passes(r) == request[r].pc = "looking" /\ record[request[r].key] = None

PassOn(r) ==
    /\ Passes(r)
    /\ request' = [request EXCEPT ![r].pc = "creating"]
    /\ UNCHANGED <<record, created, answered>>

\* findOne rejects: 500 from the error handler, before res.json was replaced.
LookupRejects(r) ==
    /\ request[r].pc = "looking"
    /\ request' = [request EXCEPT ![r] = IdleRequest]
    /\ UNCHANGED <<record, created, answered>>

-----------------------------------------------------------------------------
(* The controller answers through the res.json the middleware replaced.    *)

MutantCacheable(response) == TRUE                   \* errors are stored too
Cacheable(response) == response # Error

Answer(r, response) ==
    request' = [request EXCEPT ![r] =
        IF Cacheable(response) THEN [@ EXCEPT !.pc = "storing", !.response = response]
                               ELSE IdleRequest]

\* 201 with the payment.
Create(r) ==
    /\ request[r].pc = "creating"
    /\ Len(created) < MaxCreated
    /\ created' = Append(created, request[r].key)
    /\ Answer(r, Len(created'))
    /\ answered' = answered \cup {request[r].key}
    /\ UNCHANGED record

\* 400 for an invalid body.
Refuse(r) ==
    /\ request[r].pc = "creating"
    /\ Answer(r, Error)
    /\ UNCHANGED <<record, created, answered>>

\* 500 when Payment.create rejects: the schema refused the document, or the call
\* failed with the payment written or not.
CreateRejects(r) ==
    /\ request[r].pc = "creating"
    /\ \/ UNCHANGED created
       \/ Len(created) < MaxCreated /\ created' = Append(created, request[r].key)
    /\ Answer(r, Error)
    /\ UNCHANGED <<record, answered>>

-----------------------------------------------------------------------------
\* IdempotencyRecord.create: the key is unique, the second record of a key is
\* rejected and the error logged.
MutantStored(r) == [record EXCEPT ![request[r].key] = request[r].response]    \* an upsert
Stored(r) ==
    [record EXCEPT ![request[r].key] = IF @ = None THEN request[r].response ELSE @]

Store(r) ==
    /\ request[r].pc = "storing"
    /\ record' = Stored(r)
    /\ request' = [request EXCEPT ![r] = IdleRequest]
    /\ UNCHANGED <<created, answered>>

\* The call rejects, the record written or not; the error is logged, the response
\* is out.
StoreRejects(r) ==
    /\ request[r].pc = "storing"
    /\ record' \in {record, Stored(r)}
    /\ request' = [request EXCEPT ![r] = IdleRequest]
    /\ UNCHANGED <<created, answered>>

\* The TTL index deletes the record after expiresAt.
Expire(k) ==
    /\ record[k] # None
    /\ record' = [record EXCEPT ![k] = None]
    /\ answered' = answered \ {k}
    /\ request' = [r \in Requests |-> IF request[r].key = k
                                      THEN [request[r] EXCEPT !.arrival = "first"]
                                      ELSE request[r]]
    /\ UNCHANGED created

\* The process dies: requests and records on their way are lost.
Crash ==
    /\ request' = [r \in Requests |-> IdleRequest]
    /\ UNCHANGED <<record, created, answered>>

Next ==
    \/ \E r \in Requests, k \in Keys : Receive(r, k)
    \/ \E r \in Requests : Replay(r)
    \/ \E r \in Requests : LookupRejects(r)
    \/ \E r \in Requests : PassOn(r)
    \/ \E r \in Requests : Create(r)
    \/ \E r \in Requests : Refuse(r)
    \/ \E r \in Requests : CreateRejects(r)
    \/ \E r \in Requests : Store(r)
    \/ \E r \in Requests : StoreRejects(r)
    \/ \E k \in Keys : Expire(k)
    \/ Crash

Spec == Init /\ [][Next]_idempotencyVars

-----------------------------------------------------------------------------
TypeOK ==
    /\ record \in [Keys -> 0..MaxCreated]
    /\ created \in Seq(Keys)
    /\ Len(created) <= MaxCreated
    /\ request \in [Requests -> RequestState]
    /\ answered \subseteq Keys

\* What is replayed for a key is a payment that was created with that key: an
\* error is never stored, and the records of concurrent requests never mix.
RecordHoldsCreation ==
    \A k \in Keys : record[k] # None =>
        record[k] \in DOMAIN created /\ created[record[k]] = k

\* Until it expires a record keeps its answer: requests of one key that raced
\* each other never replace what an earlier repetition was answered.
RecordIsStable ==
    [][\A k \in Keys : record[k] # None => record'[k] \in {record[k], None}]_idempotencyVars

\* A request that arrived when its key had a record, and the record did not
\* expire since, creates no payment.
RecordedNeverCreates ==
    \A r \in Requests : request[r].arrival = "recorded" => request[r].pc = "looking"

\* README.md: "Any repeated request with the same key returns the original HTTP
\* status and body without touching the payment or queue." A request that
\* arrived after its key had been answered creates no payment.
RepeatedNeverCreates ==
    \A r \in Requests : request[r].arrival # "first" => request[r].pc = "looking"
=============================================================================
