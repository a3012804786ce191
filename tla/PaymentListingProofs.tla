------------------------ MODULE PaymentListingProofs ------------------------
(***************************************************************************)
(* Proofs about PaymentListing, for any finite set of payments and any     *)
(* limit asked for: a walk misses no payment that was there when it began. *)
(***************************************************************************)
EXTENDS PaymentListing, FiniteSetTheorems, TLAPS

\* The stored payments that come before d, whatever ties there are.
Newer(d) == {e \in stored : createdAt[e] > createdAt[d]}

\* How many payments from the newest on the walk has been through.
Passed == IF walk = "asked" /\ "find" \in answers THEN page * PageSize ELSE Skip(page)

\* The heart of the argument: a payment the client was not shown stands beyond
\* what the walk has been through, and no insertion moves it forward.
Beyond(d) == d \in got \cup found \/ Cardinality(Newer(d)) >= Passed

WalkInv == walk = "asked" => \A d \in known : DatedAlone(d) => Beyond(d)

\* A page that is not full is the last one.
LastPageInv ==
    walk = "asked" /\ "find" \in answers /\ Cardinality(found) < PageSize =>
        \A d \in known : DatedAlone(d) => d \in got \cup found

StoredInv ==
    /\ \A d \in stored : createdAt[d] # 0
    /\ total <= Cardinality(stored)
    /\ walk = "asked" /\ "find" \notin answers => found = {}

ListingInv ==
    TypeOK /\ StoredInv /\ WalkInv /\ LastPageInv /\ ShortPageEndsWalk /\ TotalEndsWalk

-----------------------------------------------------------------------------
(* Pages and positions.                                                    *)

LEMMA PageSizePositive == PageSize \in Nat \ {0}
BY LimitAssumption DEF PageSize, LimitNum

LEMMA PageBounds ==
    ASSUME NEW p \in Nat \ {0}
    PROVE  /\ Skip(p) \in Nat
           /\ p * PageSize \in Nat
           /\ Skip(p) + PageSize = p * PageSize
           /\ Skip(p + 1) = p * PageSize
<1>1. PageSize \in Nat
  BY PageSizePositive
<1>2. p - 1 \in Nat /\ p \in Nat
  OBVIOUS
<1> DEFINE q == p - 1
<1>3. p = q + 1 /\ q \in Nat
  BY <1>2
<1>4. (q + 1) * PageSize = q * PageSize + PageSize
  BY <1>1, <1>3
<1>5. q * PageSize \in Nat
  BY <1>1, <1>3
<1> QED BY <1>1, <1>3, <1>4, <1>5 DEF Skip

LEMMA StoredFinite ==
    ASSUME stored \subseteq Docs
    PROVE  /\ IsFiniteSet(stored)
           /\ Cardinality(stored) \in 0..Cardinality(Docs)
           /\ \A S : S \subseteq stored =>
                 IsFiniteSet(S) /\ Cardinality(S) \in Nat /\ Cardinality(S) <= Cardinality(stored)
<1>1. IsFiniteSet(stored) /\ Cardinality(stored) <= Cardinality(Docs)
  BY DocsAssumption, FS_Subset
<1>2. Cardinality(stored) \in Nat /\ Cardinality(Docs) \in Nat
  BY <1>1, DocsAssumption, FS_CardinalityType
<1>3. ASSUME NEW S, S \subseteq stored
      PROVE  IsFiniteSet(S) /\ Cardinality(S) \in Nat /\ Cardinality(S) <= Cardinality(stored)
  BY <1>1, <1>3, FS_Subset, FS_CardinalityType
<1> QED BY <1>1, <1>2, <1>3

\* A payment of its own date is behind all of a first part it is not in.
LEMMA NotAmongFirst ==
    ASSUME TypeOK, NEW d \in stored, DatedAlone(d), NEW n \in Nat, NEW U \in First(n), d \notin U
    PROVE  /\ Cardinality(U) = n
           /\ Cardinality(Newer(d)) >= n
<1>0. stored \subseteq Docs /\ createdAt \in [Docs -> 0..MaxTime]
  BY DEF TypeOK
<1>1. /\ U \subseteq stored
      /\ Cardinality(U) = IF n < Cardinality(stored) THEN n ELSE Cardinality(stored)
      /\ \A x \in U, y \in stored \ U : createdAt[x] >= createdAt[y]
  BY DEF First
<1>2. U \subseteq Newer(d)
  <2>1. ASSUME NEW x \in U PROVE x \in Newer(d)
    <3>1. x \in Docs /\ d \in Docs /\ x # d /\ createdAt[x] >= createdAt[d]
      BY <1>0, <1>1
    <3>2. createdAt[x] # createdAt[d]
      BY <3>1 DEF DatedAlone
    <3>3. createdAt[x] \in Int /\ createdAt[d] \in Int
      BY <1>0, <3>1, MaxTimeAssumption
    <3> QED BY <1>1, <3>1, <3>2, <3>3 DEF Newer
  <2> QED BY <2>1
<1>3. Newer(d) \subseteq stored
  BY DEF Newer
<1>4. Cardinality(U) <= Cardinality(Newer(d)) /\ Cardinality(U) \in Nat /\ Cardinality(Newer(d)) \in Nat
  BY <1>0, <1>2, <1>3, <1>1, StoredFinite, FS_Subset
<1>5. Cardinality(stored) \in Nat /\ (Cardinality(U) = Cardinality(stored) => U = stored)
  BY <1>0, <1>1, StoredFinite, FS_Subset
<1>6. Cardinality(U) = n
  BY <1>1, <1>5
<1> QED BY <1>4, <1>6

\* A payment of its own date that is in a first part is not far behind.
LEMMA AmongFirst ==
    ASSUME TypeOK, NEW d \in stored, DatedAlone(d), NEW n \in Nat, NEW T \in First(n), d \in T
    PROVE  Cardinality(Newer(d)) < n
<1>0. stored \subseteq Docs /\ createdAt \in [Docs -> 0..MaxTime]
  BY DEF TypeOK
<1>1. /\ T \subseteq stored
      /\ Cardinality(T) = IF n < Cardinality(stored) THEN n ELSE Cardinality(stored)
      /\ \A x \in T, y \in stored \ T : createdAt[x] >= createdAt[y]
  BY DEF First
<1>2. Newer(d) \subseteq T \ {d}
  <2>1. ASSUME NEW x \in Newer(d) PROVE x \in T /\ x # d
    <3>1. x \in stored /\ createdAt[x] > createdAt[d]
      BY DEF Newer
    <3>2. createdAt[x] \in Int /\ createdAt[d] \in Int
      BY <1>0, <3>1, MaxTimeAssumption
    <3>3. ~(createdAt[d] >= createdAt[x])
      BY <3>1, <3>2
    <3> QED BY <1>1, <3>1, <3>2, <3>3
  <2> QED BY <2>1
<1>3. IsFiniteSet(T) /\ Cardinality(T) \in Nat /\ Cardinality(T) <= n
  BY <1>0, <1>1, StoredFinite
<1>4. IsFiniteSet(T \ {d}) /\ Cardinality(T \ {d}) = Cardinality(T) - 1
  BY <1>3, FS_RemoveElement
<1>5. Cardinality(Newer(d)) <= Cardinality(T \ {d}) /\ Cardinality(Newer(d)) \in Nat
  BY <1>2, <1>4, FS_Subset, FS_CardinalityType
<1> QED BY <1>3, <1>4, <1>5

-----------------------------------------------------------------------------
(* The steps.                                                              *)

LEMMA FindInv ==
    ASSUME ListingInv, Find
    PROVE  ListingInv'
<1>0. TypeOK /\ StoredInv /\ WalkInv /\ walk = "asked" /\ "find" \notin answers /\ found = {}
  BY DEF ListingInv, Find, StoredInv
<1>1. PICK T \in First(Skip(page)), U \in First(Skip(page) + PageSize) :
          T \subseteq U /\ found' = U \ T
  BY DEF Find
<1>2. /\ UNCHANGED <<now, createdAt, stored, walk, page, total, known, got>>
      /\ answers' = answers \cup {"find"}
  BY DEF Find
<1>3. /\ Skip(page) \in Nat /\ Skip(page) + PageSize = page * PageSize
      /\ page * PageSize \in Nat /\ PageSize \in Nat
  BY <1>0, PageBounds, PageSizePositive DEF TypeOK
<1>4. T \subseteq stored /\ U \subseteq stored /\ stored \subseteq Docs /\ known \subseteq stored
  BY <1>0, <1>1 DEF First, TypeOK
<1>5. TypeOK'
  BY <1>0, <1>1, <1>2, <1>4 DEF TypeOK
<1>6. StoredInv'
  BY <1>0, <1>2 DEF StoredInv
<1>7. ASSUME NEW d \in known, DatedAlone(d)
      PROVE  \/ d \in got \/ d \in found'
             \/ /\ Cardinality(Newer(d)) >= page * PageSize
                /\ Cardinality(U) = page * PageSize
  <2>1. d \in stored /\ (d \in got \/ Cardinality(Newer(d)) >= Skip(page))
    BY <1>0, <1>4, <1>7 DEF WalkInv, Beyond, Passed
  <2>2. CASE d \notin U
    BY <1>0, <1>1, <1>3, <1>7, <2>1, <2>2, NotAmongFirst
  <2>3. CASE d \in T
    <3>1. Cardinality(Newer(d)) < Skip(page)
      BY <1>0, <1>1, <1>3, <1>7, <2>1, <2>3, AmongFirst
    <3>2. Cardinality(Newer(d)) \in Nat
      BY <1>4, StoredFinite DEF Newer
    <3> QED BY <1>3, <2>1, <3>1, <3>2
  <2>4. CASE d \in U \ T
    BY <1>1, <2>4
  <2> QED BY <2>2, <2>3, <2>4
<1>8. WalkInv'
  <2>1. Passed' = page * PageSize
    BY <1>0, <1>2 DEF Passed
  <2> QED BY <1>2, <1>7, <2>1 DEF WalkInv, Beyond, DatedAlone, Newer
<1>9. LastPageInv'
  <2>1. SUFFICES ASSUME Cardinality(found') < PageSize, NEW d \in known, DatedAlone(d)
                 PROVE  d \in got \/ d \in found'
    BY <1>2 DEF LastPageInv, DatedAlone
  <2>2. IsFiniteSet(U) /\ Cardinality(U) \in Nat /\ IsFiniteSet(T) /\ Cardinality(T) \in Nat
    BY <1>4, StoredFinite
  <2>3. Cardinality(T) <= Skip(page)
    BY <1>1, <1>3, <1>4, StoredFinite DEF First
  <2>4. Cardinality(U \ T) = Cardinality(U) - Cardinality(T)
    <3>1. U \cap T = T
      BY <1>1
    <3> QED BY <2>2, <3>1, FS_Difference
  <2>5. Cardinality(U) # page * PageSize
    BY <1>1, <1>3, <2>1, <2>2, <2>3, <2>4
  <2> QED BY <1>7, <2>1, <2>5
<1>10. ShortPageEndsWalk' /\ TotalEndsWalk'
  BY <1>0, <1>2 DEF ShortPageEndsWalk, TotalEndsWalk
<1> QED BY <1>5, <1>6, <1>8, <1>9, <1>10 DEF ListingInv

LEMMA CountInv ==
    ASSUME ListingInv, Count
    PROVE  ListingInv'
<1>0. TypeOK /\ StoredInv /\ WalkInv /\ LastPageInv /\ walk = "asked"
  BY DEF ListingInv, Count
<1>1. /\ UNCHANGED <<now, createdAt, stored, walk, page, found, known, got>>
      /\ answers' = answers \cup {"count"} /\ total' = Cardinality(stored)
  BY DEF Count
<1>2. Cardinality(stored) \in 0..Cardinality(Docs)
  BY <1>0, StoredFinite DEF TypeOK
<1>3. TypeOK' /\ StoredInv'
  BY <1>0, <1>1, <1>2 DEF TypeOK, StoredInv
<1>4. "find" \in answers' <=> "find" \in answers
  BY <1>1
<1>5. WalkInv' /\ LastPageInv'
  BY <1>0, <1>1, <1>4 DEF WalkInv, LastPageInv, Beyond, Passed, DatedAlone, Newer
<1>6. ShortPageEndsWalk' /\ TotalEndsWalk'
  BY <1>0, <1>1 DEF ShortPageEndsWalk, TotalEndsWalk
<1> QED BY <1>3, <1>5, <1>6 DEF ListingInv

\* A payment that is dated later or stored later moves none of the others forward
\* and takes no date for itself alone.
LEMMA CreationInv ==
    ASSUME ListingInv, UNCHANGED walkVars, ClockTicks \/ \E e \in Docs : Stamp(e) \/ Insert(e)
    PROVE  ListingInv'
<1>0. /\ TypeOK /\ StoredInv /\ WalkInv /\ LastPageInv /\ ShortPageEndsWalk /\ TotalEndsWalk
      /\ UNCHANGED <<walk, page, answers, found, total, known, got>>
  BY DEF ListingInv, walkVars
<1>1. /\ stored \subseteq stored' /\ stored' \subseteq Docs /\ now' \in 1..MaxTime
      /\ createdAt' \in [Docs -> 0..MaxTime]
      /\ \A d \in stored : createdAt'[d] = createdAt[d]
      /\ \A d \in stored' : createdAt'[d] # 0
  <2>1. CASE ClockTicks
    BY <1>0, <2>1, MaxTimeAssumption DEF ClockTicks, TypeOK, StoredInv
  <2>2. CASE \E e \in Docs : Stamp(e)
    BY <1>0, <2>2, MaxTimeAssumption DEF Stamp, TypeOK, StoredInv
  <2>3. CASE \E e \in Docs : Insert(e)
    BY <1>0, <2>3 DEF Insert, TypeOK, StoredInv
  <2> QED BY <2>1, <2>2, <2>3
<1>2. ASSUME NEW d \in stored, DatedAlone(d)' PROVE DatedAlone(d)
  <2>1. SUFFICES ASSUME NEW x \in Docs \ {d}, createdAt[x] = createdAt[d] PROVE FALSE
    BY DEF DatedAlone
  <2>2. createdAt'[x] # createdAt'[d] /\ createdAt'[d] = createdAt[d] /\ createdAt[d] # 0
    BY <1>0, <1>1, <1>2, <2>1 DEF DatedAlone, StoredInv
  <2>3. createdAt'[x] # createdAt[x] => createdAt[x] = 0
    BY <1>0, <2>1 DEF ClockTicks, Stamp, Insert, TypeOK
  <2> QED BY <2>1, <2>2, <2>3
<1>3. /\ IsFiniteSet(stored')
      /\ Cardinality(stored) \in Nat /\ Cardinality(stored') \in Nat
      /\ Cardinality(stored) <= Cardinality(stored')
      /\ Cardinality(stored) = Cardinality(stored') => stored = stored'
  BY <1>1, DocsAssumption, FS_Subset, FS_CardinalityType
<1>4. TypeOK' /\ StoredInv'
  BY <1>0, <1>1, <1>3 DEF TypeOK, StoredInv
<1>5. WalkInv'
  <2>1. SUFFICES ASSUME walk = "asked", NEW d \in known, DatedAlone(d)' PROVE Beyond(d)'
    BY <1>0 DEF WalkInv
  <2>2. d \in stored /\ Beyond(d)
    BY <1>0, <1>2, <2>1 DEF WalkInv, TypeOK
  <2>3. Newer(d) \subseteq Newer(d)' /\ Newer(d)' \subseteq stored'
    BY <1>1, <2>2 DEF Newer
  <2>4. IsFiniteSet(Newer(d)')
    BY <1>3, <2>3, FS_Subset
  <2>5. /\ Cardinality(Newer(d)) <= Cardinality(Newer(d)')
        /\ Cardinality(Newer(d)) \in Nat /\ Cardinality(Newer(d)') \in Nat
    BY <2>3, <2>4, FS_Subset, FS_CardinalityType
  <2>6. Passed' = Passed /\ Passed \in Nat
    BY <1>0, PageBounds DEF Passed, TypeOK, Skip
  <2> QED BY <1>0, <2>2, <2>5, <2>6 DEF Beyond
<1>6. LastPageInv' /\ ShortPageEndsWalk'
  BY <1>0, <1>2 DEF LastPageInv, ShortPageEndsWalk, TypeOK
<1>7. TotalEndsWalk'
  <2>1. SUFFICES ASSUME walk = "counted", total = Cardinality(stored'), NEW d \in known,
                        DatedAlone(d)'
                 PROVE  d \in got
    BY <1>0 DEF TotalEndsWalk
  <2>2. total = Cardinality(stored)
    BY <1>0, <1>3, <2>1 DEF TypeOK, StoredInv
  <2> QED BY <1>0, <1>2, <2>1, <2>2 DEF TotalEndsWalk, TypeOK
<1> QED BY <1>4, <1>5, <1>6, <1>7 DEF ListingInv

LEMMA RequestInv ==
    ASSUME ListingInv, StartWalk \/ NextPage
    PROVE  ListingInv'
<1>0. TypeOK /\ StoredInv /\ WalkInv
  BY DEF ListingInv
<1>1. /\ UNCHANGED <<now, createdAt, stored>> /\ walk' = "asked" /\ answers' = {} /\ found' = {}
      /\ total' = 0 /\ page' \in Nat \ {0} /\ known' \subseteq stored /\ got' \subseteq stored
  BY <1>0 DEF StartWalk, NextPage, Request, PageNum, TypeOK
<1>2. Cardinality(stored) \in Nat /\ Cardinality(Docs) \in Nat
  BY <1>0, StoredFinite, DocsAssumption, FS_CardinalityType DEF TypeOK
<1>3. TypeOK' /\ StoredInv'
  BY <1>0, <1>1, <1>2 DEF TypeOK, StoredInv, WalkState
<1>4. Passed' = Skip(page')
  BY <1>1 DEF Passed, Skip
<1>5. WalkInv'
  <2>1. SUFFICES ASSUME NEW d \in known', DatedAlone(d)
                 PROVE  d \in got' \/ Cardinality(Newer(d)) >= Skip(page')
    BY <1>1, <1>4 DEF WalkInv, Beyond, DatedAlone, Newer
  <2>2. Cardinality(Newer(d)) \in Nat
    BY <1>0, StoredFinite DEF Newer, TypeOK
  <2>3. CASE StartWalk
    <3>1. page' = 1
      BY <2>3 DEF StartWalk, Request, PageNum
    <3>2. Skip(page') = 0
      BY <3>1, PageSizePositive DEF Skip
    <3> QED BY <2>2, <3>2
  <2>4. CASE NextPage
    <3>1. /\ walk = "asked" /\ "find" \in answers /\ known' = known /\ got' = got \cup found
          /\ page' = page + 1
      BY <1>0, <2>4 DEF NextPage, Answered, Request, PageNum, TypeOK
    <3>2. d \in got \cup found \/ Cardinality(Newer(d)) >= page * PageSize
      BY <1>0, <2>1, <3>1 DEF WalkInv, Beyond, Passed
    <3>3. Skip(page') = page * PageSize
      BY <1>0, <3>1, PageBounds DEF TypeOK
    <3> QED BY <3>1, <3>2, <3>3
  <2> QED BY <2>3, <2>4
<1>6. LastPageInv' /\ ShortPageEndsWalk' /\ TotalEndsWalk'
  BY <1>1 DEF LastPageInv, ShortPageEndsWalk, TotalEndsWalk
<1> QED BY <1>3, <1>5, <1>6 DEF ListingInv

LEMMA EndWalkInv ==
    ASSUME ListingInv, EndWalk
    PROVE  ListingInv'
<1>0. TypeOK /\ StoredInv /\ WalkInv /\ LastPageInv /\ walk = "asked" /\ "find" \in answers
  BY DEF ListingInv, EndWalk, Answered
<1>1. /\ UNCHANGED <<now, createdAt, stored, page, answers, found, total, known>>
      /\ got' = got \cup found
      /\ \/ walk' = "short" /\ Cardinality(found) < PageSize
         \/ walk' = "counted" /\ page * PageSize >= total
  BY DEF EndWalk
<1>2. walk' # "asked"
  BY <1>1
<1>3. TypeOK' /\ StoredInv'
  BY <1>0, <1>1, <1>2 DEF TypeOK, StoredInv, WalkState
<1>4. WalkInv' /\ LastPageInv'
  BY <1>2 DEF WalkInv, LastPageInv
<1>5. ShortPageEndsWalk'
  BY <1>0, <1>1 DEF ShortPageEndsWalk, LastPageInv, DatedAlone
<1>6. TotalEndsWalk'
  <2>1. SUFFICES ASSUME walk' = "counted", total = Cardinality(stored), NEW d \in known,
                        DatedAlone(d), d \notin got \cup found
                 PROVE  FALSE
    BY <1>1 DEF TotalEndsWalk, DatedAlone
  <2>2. Cardinality(Newer(d)) >= page * PageSize /\ page * PageSize >= total
    BY <1>0, <1>1, <2>1 DEF WalkInv, Beyond, Passed
  <2>3. d \in stored /\ createdAt[d] \in Int /\ IsFiniteSet(stored)
    BY <1>0, <2>1, MaxTimeAssumption, StoredFinite DEF TypeOK
  <2>4. Newer(d) \subseteq stored \ {d}
    BY <2>3 DEF Newer
  <2>5. /\ IsFiniteSet(stored \ {d}) /\ Cardinality(stored \ {d}) = Cardinality(stored) - 1
        /\ Cardinality(stored) \in Nat
    BY <2>3, FS_RemoveElement, FS_CardinalityType
  <2>6. Cardinality(Newer(d)) <= Cardinality(stored \ {d}) /\ Cardinality(Newer(d)) \in Nat
    BY <2>4, <2>5, FS_Subset, FS_CardinalityType
  <2>7. page * PageSize \in Nat
    BY <1>0, PageBounds DEF TypeOK
  <2>8. Cardinality(stored) = total
    BY <2>1
  <2> QED BY <2>1, <2>2, <2>5, <2>6, <2>7, <2>8
<1> QED BY <1>3, <1>4, <1>5, <1>6 DEF ListingInv

LEMMA InitListingInv == Init => ListingInv
<1> SUFFICES ASSUME Init PROVE ListingInv
  OBVIOUS
<1>1. Cardinality({}) = 0 /\ Cardinality(Docs) \in Nat
  BY FS_EmptySet, DocsAssumption, FS_CardinalityType
<1> QED BY <1>1, MaxTimeAssumption
        DEF Init, ListingInv, TypeOK, WalkState, StoredInv, WalkInv, LastPageInv,
            ShortPageEndsWalk, TotalEndsWalk

LEMMA NextListingInv ==
    ASSUME ListingInv, [Next]_listingVars
    PROVE  ListingInv'
<1>1. CASE UNCHANGED listingVars
  BY <1>1 DEF listingVars, ListingInv, TypeOK, StoredInv, WalkInv, LastPageInv, Beyond, Passed,
              Newer, DatedAlone, ShortPageEndsWalk, TotalEndsWalk
<1>2. CASE ClockTicks \/ \E d \in Docs : Stamp(d) \/ Insert(d)
  <2>1. UNCHANGED walkVars
    BY <1>2 DEF ClockTicks, Stamp, Insert
  <2> QED BY <1>2, <2>1, CreationInv
<1> QED BY <1>1, <1>2, RequestInv, FindInv, CountInv, EndWalkInv DEF Next

LEMMA ListingInvariant == Spec => []ListingInv
BY InitListingInv, NextListingInv, PTL DEF Spec

\* Every variable of the listing keeps its type; what a client was shown and what
\* it knew is always stored.
THEOREM ListingTypeCorrect == Spec => []TypeOK
<1>1. ListingInv => TypeOK
  BY DEF ListingInv
<1> QED BY <1>1, ListingInvariant, PTL

\* A walk to the first page that is not full showed every payment that was there
\* when it began and shares its date with no other, for any page size and any
\* payments created meanwhile.
THEOREM WalkComplete == Spec => []ShortPageEndsWalk
<1>1. ListingInv => ShortPageEndsWalk
  BY DEF ListingInv
<1> QED BY <1>1, ListingInvariant, PTL

\* So did a walk that stopped at the total, if the total is still right.
THEOREM TotalComplete == Spec => []TotalEndsWalk
<1>1. ListingInv => TotalEndsWalk
  BY DEF ListingInv
<1> QED BY <1>1, ListingInvariant, PTL
=============================================================================
