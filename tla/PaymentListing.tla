--------------------------- MODULE PaymentListing ---------------------------
(***************************************************************************)
(* src/services/payment.service.ts, listPayments: a client walks through   *)
(* the pages of one customer's payments, newest first, while payments are  *)
(* created. A request reads its page and the total by two queries, either  *)
(* of which may run first. Payments are never deleted and never change     *)
(* their customer or createdAt, so what is filtered here only grows; a     *)
(* walk with a status filter, whose payments come and go, is left out.     *)
(***************************************************************************)
EXTENDS Integers, FiniteSets

CONSTANTS
    Docs,           \* the payments of the customer
    Limit,          \* the limit the client asks for, the same for the whole walk;
                    \* 0 when it gives none, or none that is a number
    DefaultLimit,
    MaxLimit,
    MaxTime         \* bounds the clock

ASSUME DocsAssumption == IsFiniteSet(Docs)
ASSUME LimitAssumption ==
    Limit \in Int /\ MaxLimit \in Nat \ {0} /\ DefaultLimit \in 1..MaxLimit
ASSUME MaxTimeAssumption == MaxTime \in Nat \ {0}

VARIABLES
    now,
    createdAt,      \* [Docs -> 0..MaxTime], 0 while the payment was not created
    stored,         \* the payments that are in the collection
    walk,           \* what the client does
    page,           \* the page it asks for
    answers,        \* the queries of the request that have returned
    found,          \* what the find returned
    total,          \* what countDocuments returned
    known,          \* the payments that were stored when the walk began
    got             \* the payments the client was shown

listingVars == <<now, createdAt, stored, walk, page, answers, found, total, known, got>>
walkVars == <<walk, page, answers, found, total, known, got>>

\* idle     no walk
\* asked    a request is being handled
\* short    the walk ended at a page with fewer than PageSize payments
\* counted  the walk ended because the pages it saw hold the total
WalkState == {"idle", "asked", "short", "counted"}

Init ==
    /\ now = 1
    /\ createdAt = [d \in Docs |-> 0]
    /\ stored = {}
    /\ walk = "idle"
    /\ page = 1
    /\ answers = {}
    /\ found = {}
    /\ total = 0
    /\ known = {}
    /\ got = {}

-----------------------------------------------------------------------------
(* Payments are created.                                                   *)

ClockTicks ==
    /\ now < MaxTime
    /\ now' = now + 1
    /\ UNCHANGED <<createdAt, stored, walkVars>>

\* The server dates the document and sends it.
Stamp(d) ==
    /\ createdAt[d] = 0
    /\ createdAt' = [createdAt EXCEPT ![d] = now]
    /\ UNCHANGED <<now, stored, walkVars>>

\* Documents may arrive in another order than they were dated in.
Insert(d) ==
    /\ createdAt[d] # 0
    /\ d \notin stored
    /\ stored' = stored \cup {d}
    /\ UNCHANGED <<now, createdAt, walkVars>>

-----------------------------------------------------------------------------
(* listPayments.                                                           *)

LimitNum(l) ==
    CASE l = 0 -> DefaultLimit
      [] l < 0 -> 1
      [] l > MaxLimit -> MaxLimit
      [] OTHER -> l

\* The limit in force, which the response tells the client.
PageSize == LimitNum(Limit)

MutantSkip(p) == p * PageSize
Skip(p) == (p - 1) * PageSize

\* The documents come unsorted.
MutantFirst(n) ==
    {P \in SUBSET stored :
        Cardinality(P) = IF n < Cardinality(stored) THEN n ELSE Cardinality(stored)}

\* The first n stored payments by createdAt descending, in one of the orders
\* payments of the same date may come in.
First(n) ==
    {P \in SUBSET stored :
        /\ Cardinality(P) = IF n < Cardinality(stored) THEN n ELSE Cardinality(stored)
        /\ \A x \in P, y \in stored \ P : createdAt[x] >= createdAt[y]}

\* The page is taken as the client gave it.
MutantPageNum(p) == p
PageNum(p) == IF p < 1 THEN 1 ELSE p

Request(p) ==
    /\ walk' = "asked"
    /\ page' = PageNum(p)
    /\ answers' = {}
    /\ found' = {}
    /\ total' = 0

Find ==
    /\ walk = "asked"
    /\ "find" \notin answers
    /\ \E T \in First(Skip(page)), U \in First(Skip(page) + PageSize) :
          /\ T \subseteq U
          /\ found' = U \ T
    /\ answers' = answers \cup {"find"}
    /\ UNCHANGED <<now, createdAt, stored, walk, page, total, known, got>>

Count ==
    /\ walk = "asked"
    /\ "count" \notin answers
    /\ total' = Cardinality(stored)
    /\ answers' = answers \cup {"count"}
    /\ UNCHANGED <<now, createdAt, stored, walk, page, found, known, got>>

-----------------------------------------------------------------------------
(* The client asks for page after page, until a page is not full or, if it *)
(* goes by the total, until the pages it saw hold that many payments.      *)

\* Some clients count from 0; the response says which page it is.
StartWalk ==
    /\ walk # "asked"
    /\ known' = stored
    /\ got' = {}
    /\ \E p \in {0, 1} : Request(p)
    /\ UNCHANGED <<now, createdAt, stored>>

Answered == walk = "asked" /\ answers = {"find", "count"}

NextPage ==
    /\ Answered
    /\ Cardinality(found) = PageSize
    /\ got' = got \cup found
    /\ Request(page + 1)
    /\ UNCHANGED <<now, createdAt, stored, known>>

EndWalk ==
    /\ Answered
    /\ \/ Cardinality(found) < PageSize /\ walk' = "short"
       \/ page * PageSize >= total /\ walk' = "counted"
    /\ got' = got \cup found
    /\ UNCHANGED <<now, createdAt, stored, page, answers, found, total, known>>

Next ==
    \/ ClockTicks
    \/ \E d \in Docs : Stamp(d)
    \/ \E d \in Docs : Insert(d)
    \/ StartWalk
    \/ Find
    \/ Count
    \/ NextPage
    \/ EndWalk

Spec == Init /\ [][Next]_listingVars

-----------------------------------------------------------------------------
TypeOK ==
    /\ now \in 1..MaxTime
    /\ createdAt \in [Docs -> 0..MaxTime]
    /\ stored \subseteq Docs
    /\ walk \in WalkState
    /\ page \in Nat \ {0}
    /\ answers \subseteq {"find", "count"}
    /\ found \subseteq stored
    /\ total \in 0..Cardinality(Docs)
    /\ known \subseteq stored
    /\ got \subseteq stored

\* No other payment of the customer has the same createdAt: the order of those
\* that share one is MongoDB's, and may differ from page to page.
DatedAlone(d) == \A e \in Docs \ {d} : createdAt[e] # createdAt[d]

\* A client that goes on to the first page that is not full was shown every
\* payment that was there when it began: payments created meanwhile push others
\* to later pages, never to an earlier one.
ShortPageEndsWalk ==
    walk = "short" => \A d \in known : DatedAlone(d) => d \in got

\* A client that stops at the total can miss a payment, if payments were stored
\* since the total was counted; as long as the total is right it missed none,
\* whichever of the two queries ran first.
TotalEndsWalk ==
    walk = "counted" /\ total = Cardinality(stored) =>
        \A d \in known : DatedAlone(d) => d \in got
=============================================================================
