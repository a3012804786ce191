-------------------------- MODULE IdempotencyProofs --------------------------
(***************************************************************************)
(* Proofs about Idempotency, for any keys and any number of requests that  *)
(* race each other.                                                        *)
(***************************************************************************)
EXTENDS Idempotency, TLAPS

\* Named(n, k): n is a payment that was created with key k.
Named(n, k) == n \in DOMAIN created /\ created[n] = k

\* What a request is about to store is the payment it created.
StoringInv ==
    \A r \in Requests : request[r].pc = "storing" => Named(request[r].response, request[r].key)

\* A request has a key; the record it met when it arrived is still there, for its
\* expiry makes the request count as a first one.
ArrivalInv ==
    \A r \in Requests :
        /\ request[r].pc # "idle" => request[r].key \in Keys
        /\ request[r].arrival = "recorded" =>
              request[r].pc = "looking" /\ record[request[r].key] # None

KeyInv == TypeOK /\ RecordHoldsCreation /\ StoringInv /\ ArrivalInv

-----------------------------------------------------------------------------
(* What the operators return.                                              *)

LEMMA IdleTyped == IdleRequest \in RequestState
BY MaxCreatedAssumption DEF IdleRequest, RequestState, RequestPC, Response, Arrival, None

\* The payments that exist keep their names when another is created.
LEMMA Created ==
    ASSUME TypeOK, Len(created) < MaxCreated, NEW k \in Keys, created' = Append(created, k)
    PROVE  /\ created' \in Seq(Keys) /\ Len(created') <= MaxCreated
           /\ Len(created') \in 1..MaxCreated
           /\ Len(created') \in DOMAIN created' /\ created'[Len(created')] = k
           /\ \A n, c : Named(n, c) => Named(n, c)'
<1>1. created \in Seq(Keys) /\ Len(created) \in Nat
  BY DEF TypeOK
<1>2. /\ created' \in Seq(Keys) /\ Len(created') = Len(created) + 1
      /\ \A n \in 1..Len(created) : created'[n] = created[n]
      /\ created'[Len(created) + 1] = k
      /\ DOMAIN created = 1..Len(created) /\ DOMAIN created' = 1..Len(created')
  BY <1>1
<1>3. \A n, c : Named(n, c) => Named(n, c)'
  BY <1>1, <1>2 DEF Named
<1>4. Len(created') \in 1..MaxCreated
  BY <1>1, <1>2, MaxCreatedAssumption
<1>5. Len(created') \in DOMAIN created' /\ created'[Len(created')] = k
  BY <1>1, <1>2
<1> QED BY <1>2, <1>3, <1>4, <1>5, MaxCreatedAssumption

\* A record is written only where there was none, and with the payment stored.
LEMMA StoredKeeps ==
    ASSUME KeyInv, NEW r \in Requests, request[r].pc = "storing", record' \in {record, Stored(r)}
    PROVE  /\ record' \in [Keys -> 0..MaxCreated]
           /\ \A k \in Keys : record[k] # None => record'[k] = record[k]
           /\ \A k \in Keys : record'[k] # None => Named(record'[k], k)
<1>1. TypeOK /\ RecordHoldsCreation /\ StoringInv /\ ArrivalInv
  BY DEF KeyInv
<1>2. request[r].key \in Keys /\ Named(request[r].response, request[r].key)
  BY <1>1 DEF ArrivalInv, StoringInv
<1>3. request[r].response \in 0..MaxCreated
  BY <1>1, <1>2, MaxCreatedAssumption DEF Named, TypeOK
<1>4. record \in [Keys -> 0..MaxCreated]
  BY <1>1 DEF TypeOK
<1>5. \A k \in Keys : record[k] # None => Named(record[k], k)
  BY <1>1 DEF RecordHoldsCreation, Named
<1>6. CASE record' = record
  BY <1>4, <1>5, <1>6
<1>7. CASE record' = Stored(r)
  <2>1. /\ record' \in [Keys -> 0..MaxCreated]
        /\ \A k \in Keys : record'[k] = IF k = request[r].key /\ record[k] = None
                                         THEN request[r].response ELSE record[k]
    BY <1>2, <1>3, <1>4, <1>7 DEF Stored
  <2> QED BY <1>2, <1>5, <2>1
<1> QED BY <1>6, <1>7

-----------------------------------------------------------------------------
(* The steps.                                                              *)

LEMMA InitKeyInv == Init => KeyInv
<1> SUFFICES ASSUME Init PROVE KeyInv
  OBVIOUS
<1>1. created \in Seq(Keys) /\ Len(created) = 0
  BY DEF Init
<1>2. TypeOK
  BY <1>1, IdleTyped, MaxCreatedAssumption DEF Init, TypeOK, None
<1> QED BY <1>2 DEF Init, KeyInv, RecordHoldsCreation, StoringInv, ArrivalInv, IdleRequest

\* A request that ends leaves the others as they are.
LEMMA EndsInv ==
    ASSUME KeyInv, NEW r \in Requests, request' = [request EXCEPT ![r] = IdleRequest],
           UNCHANGED <<created, answered>>,
           \/ record' = record
           \/ request[r].pc = "storing" /\ record' \in {record, Stored(r)}
    PROVE  KeyInv'
<1>1. TypeOK /\ RecordHoldsCreation /\ StoringInv /\ ArrivalInv
  BY DEF KeyInv
<1>2. /\ record' \in [Keys -> 0..MaxCreated]
      /\ \A k \in Keys : record[k] # None => record'[k] = record[k]
      /\ \A k \in Keys : record'[k] # None => Named(record'[k], k)
  BY <1>1, StoredKeeps DEF TypeOK, RecordHoldsCreation, Named
<1>3. TypeOK' /\ RecordHoldsCreation'
  BY <1>1, <1>2, IdleTyped DEF TypeOK, RecordHoldsCreation, Named
<1>4. \A q \in Requests : request'[q] = IF q = r THEN IdleRequest ELSE request[q]
  BY <1>1 DEF TypeOK
<1>5. StoringInv'
  BY <1>1, <1>4 DEF StoringInv, Named, IdleRequest
<1>6. ArrivalInv'
  <2>1. SUFFICES ASSUME NEW q \in Requests
                 PROVE  /\ request'[q].pc # "idle" => request'[q].key \in Keys
                        /\ request'[q].arrival = "recorded" =>
                              request'[q].pc = "looking" /\ record'[request'[q].key] # None
    BY DEF ArrivalInv
  <2>2. CASE q = r
    BY <1>4, <2>2 DEF IdleRequest
  <2>3. CASE q # r
    BY <1>1, <1>2, <1>4, <2>3 DEF ArrivalInv
  <2> QED BY <2>2, <2>3
<1> QED BY <1>3, <1>5, <1>6 DEF KeyInv

\* A request that goes on, to look, to create or to store, without the records
\* being touched.
LEMMA GoesOnInv ==
    ASSUME KeyInv, NEW r \in Requests, NEW q \in RequestState,
           request' = [request EXCEPT ![r] = q],
           UNCHANGED record,
           created' \in Seq(Keys), Len(created') <= MaxCreated, answered' \subseteq Keys,
           \A n, c : Named(n, c) => Named(n, c)',
           q.pc # "idle" => q.key \in Keys,
           q.pc = "storing" => q.response \in DOMAIN created' /\ created'[q.response] = q.key,
           q.arrival = "recorded" => q.pc = "looking" /\ record[q.key] # None
    PROVE  KeyInv'
<1>1. TypeOK /\ RecordHoldsCreation /\ StoringInv /\ ArrivalInv
  BY DEF KeyInv
<1>2. TypeOK'
  BY <1>1 DEF TypeOK
<1>3. RecordHoldsCreation'
  BY <1>1 DEF RecordHoldsCreation, Named
<1>4. \A x \in Requests : request'[x] = IF x = r THEN q ELSE request[x]
  BY <1>1 DEF TypeOK
<1>5. StoringInv'
  BY <1>1, <1>4 DEF StoringInv, Named
<1>6. ArrivalInv'
  BY <1>1, <1>4 DEF ArrivalInv
<1> QED BY <1>2, <1>3, <1>5, <1>6 DEF KeyInv

LEMMA ReceiveInv ==
    ASSUME KeyInv, NEW r \in Requests, NEW k \in Keys, Receive(r, k)
    PROVE  KeyInv'
<1>1. PICK q : q = [pc |-> "looking", key |-> k, response |-> None, arrival |-> ArrivalOf(k)]
  OBVIOUS
<1>2. ArrivalOf(k) \in Arrival /\ (ArrivalOf(k) = "recorded" => record[k] # None)
  BY DEF ArrivalOf, Arrival
<1>3. None \in Response
  BY MaxCreatedAssumption DEF None, Response
<1>4. q \in RequestState
  BY <1>1, <1>2, <1>3 DEF RequestState, RequestPC
<1>5. TypeOK
  BY DEF KeyInv
<1>6. /\ request' = [request EXCEPT ![r] = q] /\ UNCHANGED <<record, created, answered>>
  BY <1>1 DEF Receive
<1>7. \A n, c : Named(n, c) => Named(n, c)'
  BY <1>6 DEF Named
<1> QED BY <1>1, <1>2, <1>4, <1>5, <1>6, <1>7, GoesOnInv DEF TypeOK

LEMMA PassOnInv ==
    ASSUME KeyInv, NEW r \in Requests, PassOn(r)
    PROVE  KeyInv'
<1>1. TypeOK /\ ArrivalInv
  BY DEF KeyInv
<1>2. PICK q : q = [request[r] EXCEPT !.pc = "creating"]
  OBVIOUS
<1>3. /\ q \in RequestState /\ q.pc = "creating" /\ q.key = request[r].key
      /\ q.arrival = request[r].arrival
  BY <1>1, <1>2 DEF TypeOK, RequestState, RequestPC
<1>4. q.key \in Keys /\ q.arrival # "recorded"
  BY <1>1, <1>3 DEF PassOn, Passes, ArrivalInv
<1>5. request' = [request EXCEPT ![r] = q] /\ UNCHANGED <<record, created, answered>>
  BY <1>2 DEF PassOn
<1>6. \A n, c : Named(n, c) => Named(n, c)'
  BY <1>5 DEF Named
<1> QED BY <1>1, <1>3, <1>4, <1>5, <1>6, GoesOnInv DEF TypeOK

LEMMA CreateInv ==
    ASSUME KeyInv, NEW r \in Requests, Create(r)
    PROVE  KeyInv'
<1>1. TypeOK /\ ArrivalInv /\ request[r].key \in Keys /\ request[r].arrival # "recorded"
  BY DEF KeyInv, ArrivalInv, Create
<1>2. created' = Append(created, request[r].key) /\ Len(created) < MaxCreated
  BY DEF Create
<1>3. /\ created' \in Seq(Keys) /\ Len(created') <= MaxCreated
      /\ Len(created') \in 1..MaxCreated
      /\ Len(created') \in DOMAIN created' /\ created'[Len(created')] = request[r].key
      /\ \A n, c : Named(n, c) => Named(n, c)'
  BY <1>1, <1>2, Created
<1>4. PICK n : n = Len(created')
  OBVIOUS
<1>5. PICK q : q = [request[r] EXCEPT !.pc = "storing", !.response = n]
  OBVIOUS
<1>6. n \in Response /\ n # Error
  BY <1>3, <1>4, MaxCreatedAssumption DEF Response, Error
<1>7. request[r] \in RequestState
  BY <1>1 DEF TypeOK
<1>8. /\ q \in RequestState /\ q.pc = "storing" /\ q.key = request[r].key
      /\ q.response = n /\ q.arrival = request[r].arrival
  BY <1>5, <1>6, <1>7 DEF RequestState, RequestPC
<1>9. request' = [request EXCEPT ![r] = q]
  BY <1>4, <1>5, <1>6 DEF Create, Answer, Cacheable
<1>10. UNCHANGED record /\ answered' \subseteq Keys
  BY <1>1 DEF Create, TypeOK
<1> QED BY <1>1, <1>3, <1>4, <1>8, <1>9, <1>10, GoesOnInv

LEMMA RefusedInv ==
    ASSUME KeyInv, NEW r \in Requests, Refuse(r) \/ CreateRejects(r)
    PROVE  KeyInv'
<1>1. TypeOK /\ request[r].key \in Keys
  BY DEF KeyInv, ArrivalInv, Refuse, CreateRejects
<1>2. request' = [request EXCEPT ![r] = IdleRequest] /\ UNCHANGED <<record, answered>>
  BY DEF Refuse, CreateRejects, Answer, Cacheable, Error
<1>3. /\ created' \in Seq(Keys) /\ Len(created') <= MaxCreated
      /\ \A n, c : Named(n, c) => Named(n, c)'
  <2>1. CASE UNCHANGED created
    BY <1>1, <2>1 DEF TypeOK, Named
  <2>2. CASE Len(created) < MaxCreated /\ created' = Append(created, request[r].key)
    BY <1>1, <2>2, Created
  <2> QED BY <2>1, <2>2 DEF Refuse, CreateRejects
<1>4. IdleRequest.pc = "idle" /\ IdleRequest.arrival = "first"
  BY DEF IdleRequest
<1> QED BY <1>1, <1>2, <1>3, <1>4, IdleTyped, GoesOnInv DEF TypeOK

LEMMA ExpireInv ==
    ASSUME KeyInv, NEW k \in Keys, Expire(k)
    PROVE  KeyInv'
<1>1. TypeOK /\ RecordHoldsCreation /\ StoringInv /\ ArrivalInv
  BY DEF KeyInv
<1>2. \A r \in Requests :
          /\ request'[r] \in RequestState
          /\ request'[r].pc = request[r].pc /\ request'[r].key = request[r].key
          /\ request'[r].response = request[r].response
          /\ request'[r].arrival = IF request[r].key = k THEN "first" ELSE request[r].arrival
  BY <1>1 DEF Expire, TypeOK, RequestState, Arrival
<1>3. \A c \in Keys : record'[c] = IF c = k THEN None ELSE record[c]
  BY <1>1 DEF Expire, TypeOK
<1>4. request' \in [Requests -> RequestState]
  BY <1>2 DEF Expire
<1>5. TypeOK'
  BY <1>1, <1>4, MaxCreatedAssumption DEF Expire, TypeOK, None
<1>6. RecordHoldsCreation' /\ StoringInv'
  BY <1>1, <1>2, <1>3 DEF Expire, RecordHoldsCreation, StoringInv, Named
<1>7. ArrivalInv'
  BY <1>1, <1>2, <1>3 DEF ArrivalInv
<1> QED BY <1>5, <1>6, <1>7 DEF KeyInv

LEMMA CrashInv ==
    ASSUME KeyInv, Crash
    PROVE  KeyInv'
<1>1. TypeOK /\ RecordHoldsCreation
  BY DEF KeyInv
<1>2. TypeOK' /\ RecordHoldsCreation'
  BY <1>1, IdleTyped DEF Crash, TypeOK, RecordHoldsCreation
<1> QED BY <1>2 DEF Crash, KeyInv, StoringInv, ArrivalInv, IdleRequest

LEMMA NextKeyInv ==
    ASSUME KeyInv, [Next]_idempotencyVars
    PROVE  KeyInv'
<1>1. ASSUME NEW r \in Requests, NEW k \in Keys, Receive(r, k) PROVE KeyInv'
  BY <1>1, ReceiveInv
<1>2. ASSUME NEW r \in Requests, PassOn(r) PROVE KeyInv'
  BY <1>2, PassOnInv
<1>3. ASSUME NEW r \in Requests, Create(r) PROVE KeyInv'
  BY <1>3, CreateInv
<1>4. ASSUME NEW r \in Requests, Refuse(r) \/ CreateRejects(r) PROVE KeyInv'
  BY <1>4, RefusedInv
<1>5. ASSUME NEW r \in Requests, Replay(r) \/ LookupRejects(r) PROVE KeyInv'
  BY <1>5, EndsInv DEF Replay, LookupRejects
<1>6. ASSUME NEW r \in Requests, Store(r) \/ StoreRejects(r) PROVE KeyInv'
  BY <1>6, EndsInv DEF Store, StoreRejects
<1>7. ASSUME NEW k \in Keys, Expire(k) PROVE KeyInv'
  BY <1>7, ExpireInv
<1>8. CASE Crash
  BY <1>8, CrashInv
<1>9. CASE UNCHANGED idempotencyVars
  BY <1>9 DEF idempotencyVars, KeyInv, TypeOK, RecordHoldsCreation, StoringInv, ArrivalInv, Named
<1> QED BY <1>1, <1>2, <1>3, <1>4, <1>5, <1>6, <1>7, <1>8, <1>9 DEF Next

LEMMA KeyInvariant == Spec => []KeyInv
<1>1. Init => KeyInv
  BY InitKeyInv
<1>2. KeyInv /\ [Next]_idempotencyVars => KeyInv'
  BY NextKeyInv
<1> QED BY <1>1, <1>2, PTL DEF Spec

-----------------------------------------------------------------------------
(* The properties.                                                         *)

\* Records, requests and the keys of the payments keep their types.
THEOREM IdempotencyTypeCorrect == Spec => []TypeOK
<1>1. KeyInv => TypeOK
  BY DEF KeyInv
<1> QED BY <1>1, KeyInvariant, PTL

\* What is replayed for a key is a payment created with that key, whatever raced
\* for it: an error is never stored, and each request stores its own answer.
THEOREM ReplaysItsCreation == Spec => []RecordHoldsCreation
<1>1. KeyInv => RecordHoldsCreation
  BY DEF KeyInv
<1> QED BY <1>1, KeyInvariant, PTL

\* A record that was there when a request arrived, and has not expired since, is
\* found: the request never reaches the controller.
THEOREM RecordStopsRepetition == Spec => []RecordedNeverCreates
<1>1. KeyInv => RecordedNeverCreates
  BY DEF KeyInv, ArrivalInv, RecordedNeverCreates
<1> QED BY <1>1, KeyInvariant, PTL

\* Until it expires a record keeps its answer: only the requests that store write
\* records, and a second record of a key is rejected.
LEMMA StepKeepsRecords ==
    ASSUME KeyInv, Next
    PROVE  \A k \in Keys : record[k] # None => record'[k] \in {record[k], None}
<1>1. ASSUME NEW r \in Requests, Store(r) \/ StoreRejects(r)
      PROVE  \A k \in Keys : record[k] # None => record'[k] = record[k]
  BY <1>1, StoredKeeps DEF Store, StoreRejects
<1>2. ASSUME NEW c \in Keys, Expire(c)
      PROVE  \A k \in Keys : record'[k] = IF k = c THEN None ELSE record[k]
  BY <1>2 DEF Expire, KeyInv, TypeOK
<1>3. \/ UNCHANGED record
      \/ \E r \in Requests : Store(r) \/ StoreRejects(r)
      \/ \E c \in Keys : Expire(c)
  BY DEF Next, Receive, Replay, LookupRejects, PassOn, Create, Refuse, CreateRejects, Crash
<1> QED BY <1>1, <1>2, <1>3

THEOREM RecordsAreStable == Spec => RecordIsStable
<1>1. KeyInv /\ [Next]_idempotencyVars =>
          [\A k \in Keys : record[k] # None => record'[k] \in {record[k], None}]_idempotencyVars
  BY StepKeepsRecords
<1> QED BY <1>1, KeyInvariant, PTL DEF Spec, RecordIsStable
=============================================================================
