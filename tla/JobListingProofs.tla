-------------------------- MODULE JobListingProofs --------------------------
(***************************************************************************)
(* Proofs about JobListing.  The offset stands for the rows the client has *)
(* behind it: a row it has not been shown has that many newer rows, so it  *)
(* is ahead; a row it has been shown has, itself included, no more than    *)
(* that, so it does not come again, unless rows join in front of it.       *)
(***************************************************************************)
EXTENDS JobListing, FiniteSetTheorems, TLAPS

newer(j) == {i \in rows : createdAt[i] > createdAt[j]}

upto(j) == {i \in rows : createdAt[i] >= createdAt[j]}

\* What a row not shown yet has in front of it.
Ahead ==
  \A j \in start :
    untied(j) /\ j \notin shown =>
      /\ list.pc \in {"idle", "asked"} => Cardinality(newer(j)) >= list.next
      /\ list.pc = "asked" /\ list.paged /\ j \notin list.page =>
           /\ Cardinality(newer(j)) >= list.next + list.limit
           /\ Cardinality(list.there) > list.next + list.limit

\* What a row shown already, or on the page, has in front of it.
Behind ==
  \A j \in rows :
    untied(j) /\ ~arrival(j) =>
      /\ j \in shown /\ list.pc \in {"idle", "asked"} => Cardinality(upto(j)) <= list.next
      /\ j \in list.page /\ list.pc = "asked" =>
           j \notin shown /\ Cardinality(upto(j)) <= list.next + list.limit

\* The counts never promise more than there is.
Counts ==
  /\ list.pc = "asked" => list.limit >= 1
  /\ list.pc = "asked" /\ list.counted => list.total <= Cardinality(rows)
  /\ list.pc # "done" /\ list.next > 0 => list.next < Cardinality(rows)
  /\ list.next = 0 => shown = {}
  /\ list.page \subseteq rows /\ shown \subseteq rows /\ start \subseteq rows

IInv ==
  /\ TypeOK
  /\ Counts
  /\ Ahead
  /\ Behind
  /\ ListingComplete
  /\ RepeatsNeedArrivals
  /\ AnnouncedPageHasRows

-----------------------------------------------------------------------------
(* Rows and pages.                                                         *)

\* The job table, and each part of it, is finite.
LEMMA RowsFinite ==
  /\ IsFiniteSet(rows) /\ Cardinality(rows) \in Nat
  /\ \A S \in SUBSET rows :
       IsFiniteSet(S) /\ Cardinality(S) \in Nat /\ Cardinality(S) <= Cardinality(rows)
<1>1. IsFiniteSet(rows)
  BY ListingAssumption, FS_Subset DEF rows
<1>2. Cardinality(rows) \in Nat
  BY <1>1, FS_CardinalityType
<1>3. ASSUME NEW S \in SUBSET rows
      PROVE  IsFiniteSet(S) /\ Cardinality(S) \in Nat /\ Cardinality(S) <= Cardinality(rows)
  BY <1>1, FS_Subset, FS_CardinalityType
<1> QED
  BY <1>1, <1>2, <1>3

\* A page is split off the rows: what the offset skips, the page, the rest.
LEMMA PageParts ==
  ASSUME TypeOK, NEW o \in Nat, NEW l \in Nat, NEW P, isPage(P, o, l)
  PROVE  \E skipped \in SUBSET rows :
           /\ P \subseteq rows \ skipped
           /\ Cardinality(skipped) = least(o, Cardinality(rows))
           /\ Cardinality(P) = least(l, Cardinality(rows) - Cardinality(skipped))
           /\ Cardinality(skipped \cup P) = Cardinality(skipped) + Cardinality(P)
           /\ \A a \in skipped, b \in rows \ skipped : createdAt[a] >= createdAt[b]
           /\ \A a \in P, b \in rows \ (skipped \cup P) : createdAt[a] >= createdAt[b]
<1>1. PICK skipped \in SUBSET rows :
        /\ Cardinality(skipped) = least(o, Cardinality(rows))
        /\ notOlder(skipped, rows \ skipped)
        /\ P \subseteq rows \ skipped
        /\ Cardinality(P) = least(l, Cardinality(rows \ skipped))
        /\ notOlder(P, (rows \ skipped) \ P)
  BY DEF isPage
<1>2. /\ IsFiniteSet(skipped) /\ Cardinality(skipped) \in Nat
      /\ IsFiniteSet(rows \ skipped) /\ Cardinality(rows \ skipped) \in Nat
      /\ IsFiniteSet(P) /\ Cardinality(P) \in Nat
  <2>1. P \in SUBSET rows /\ rows \ skipped \in SUBSET rows
    BY <1>1
  <2> QED
    BY <2>1, RowsFinite
<1>3. Cardinality(rows) = Cardinality(skipped) + Cardinality(rows \ skipped)
  <2>1. skipped \cup (rows \ skipped) = rows /\ skipped \cap (rows \ skipped) = {}
    BY <1>1
  <2>2. Cardinality(skipped \cup (rows \ skipped)) =
          Cardinality(skipped) + Cardinality(rows \ skipped)
            - Cardinality(skipped \cap (rows \ skipped))
    BY <1>2, FS_Union
  <2> QED
    BY <1>2, <2>1, <2>2, FS_EmptySet
<1>4. Cardinality(skipped \cup P) = Cardinality(skipped) + Cardinality(P)
  <2>1. skipped \cap P = {}
    BY <1>1
  <2>2. Cardinality(skipped \cup P) =
          Cardinality(skipped) + Cardinality(P) - Cardinality(skipped \cap P)
    BY <1>2, FS_Union
  <2>3. Cardinality(skipped \cap P) = 0
    BY <2>1, FS_EmptySet
  <2> QED
    BY <1>2, <2>2, <2>3
<1>5. Cardinality(rows \ skipped) = Cardinality(rows) - Cardinality(skipped)
  BY <1>2, <1>3, RowsFinite
<1>6. (rows \ skipped) \ P = rows \ (skipped \cup P)
  OBVIOUS
<1> QED
  BY <1>1, <1>4, <1>5, <1>6 DEF notOlder

\* A page is made of rows and within its limit; one that begins before the last
\* row is not empty.
LEMMA PageSize ==
  ASSUME TypeOK, NEW o \in Nat, NEW l \in Nat, NEW P, isPage(P, o, l)
  PROVE  /\ P \subseteq rows /\ Cardinality(P) <= l
         /\ l >= 1 /\ o < Cardinality(rows) => P # {}
<1>1. PICK skipped \in SUBSET rows :
        /\ P \subseteq rows \ skipped
        /\ Cardinality(skipped) = least(o, Cardinality(rows))
        /\ Cardinality(P) = least(l, Cardinality(rows) - Cardinality(skipped))
        /\ Cardinality(skipped \cup P) = Cardinality(skipped) + Cardinality(P)
        /\ \A a \in skipped, b \in rows \ skipped : createdAt[a] >= createdAt[b]
        /\ \A a \in P, b \in rows \ (skipped \cup P) : createdAt[a] >= createdAt[b]
  BY PageParts
<1>2. P \in SUBSET rows
  BY <1>1
<1>3. /\ Cardinality(rows) \in Nat /\ Cardinality(skipped) \in Nat /\ Cardinality(P) \in Nat
      /\ Cardinality(skipped) <= Cardinality(rows)
  BY <1>2, RowsFinite
<1>4. Cardinality(P) <= l
  BY <1>1, <1>3 DEF least
<1>5. ASSUME l >= 1, o < Cardinality(rows) PROVE Cardinality(P) # 0
  BY <1>1, <1>3, <1>5 DEF least
<1> QED
  BY <1>2, <1>4, <1>5, FS_EmptySet

\* A row with the offset's number of newer ones that is not on the page is
\* behind the whole page.
LEMMA NotOnPage ==
  ASSUME TypeOK, NEW o \in Nat, NEW l \in Nat \ {0}, NEW P, isPage(P, o, l),
         NEW j \in rows, untied(j), j \notin P, Cardinality(newer(j)) >= o
  PROVE  Cardinality(newer(j)) >= o + l /\ Cardinality(rows) > o + l
<1>1. PICK skipped \in SUBSET rows :
        /\ P \subseteq rows \ skipped
        /\ Cardinality(skipped) = least(o, Cardinality(rows))
        /\ Cardinality(P) = least(l, Cardinality(rows) - Cardinality(skipped))
        /\ Cardinality(skipped \cup P) = Cardinality(skipped) + Cardinality(P)
        /\ \A a \in skipped, b \in rows \ skipped : createdAt[a] >= createdAt[b]
        /\ \A a \in P, b \in rows \ (skipped \cup P) : createdAt[a] >= createdAt[b]
  BY PageParts
<1>2. \A i \in rows : createdAt[i] \in Nat
  BY DEF TypeOK, rows
<1>3. /\ newer(j) \in SUBSET rows /\ j \notin newer(j)
      /\ skipped \cup P \in SUBSET rows
  BY <1>1, <1>2 DEF newer
<1>4. /\ Cardinality(newer(j)) \in Nat /\ Cardinality(rows) \in Nat
      /\ Cardinality(skipped) \in Nat /\ Cardinality(P) \in Nat
      /\ IsFiniteSet(newer(j)) /\ IsFiniteSet(skipped)
  <2>1. P \in SUBSET rows
    BY <1>1
  <2> QED
    BY <1>3, <2>1, RowsFinite
<1>5. j \notin skipped
  <2>1. SUFFICES ASSUME j \in skipped PROVE FALSE
    OBVIOUS
  <2>2. newer(j) \subseteq skipped \ {j}
    BY <1>1, <1>2, <2>1 DEF newer
  <2>3. /\ IsFiniteSet(skipped \ {j})
        /\ Cardinality(skipped \ {j}) = Cardinality(skipped) - 1
    BY <1>4, <2>1, FS_RemoveElement
  <2>4. Cardinality(newer(j)) <= Cardinality(skipped \ {j})
    BY <2>2, <2>3, FS_Subset
  <2> QED
    BY <1>1, <1>4, <2>3, <2>4 DEF least
<1>6. skipped \cup P \subseteq newer(j)
  BY <1>1, <1>2, <1>5 DEF newer, untied
<1>7. Cardinality(skipped) + Cardinality(P) <= Cardinality(newer(j))
  BY <1>1, <1>4, <1>6, FS_Subset
<1>8. Cardinality(newer(j)) + 1 <= Cardinality(rows)
  <2>1. newer(j) \cup {j} \in SUBSET rows
    BY <1>3
  <2>2. Cardinality(newer(j) \cup {j}) = Cardinality(newer(j)) + 1
    BY <1>3, <1>4, FS_AddElement
  <2> QED
    BY <2>1, <2>2, RowsFinite
<1> QED
  BY <1>1, <1>4, <1>7, <1>8 DEF least

\* Of a row on the page the rows that are not older fit in front of its end.
LEMMA OnPage ==
  ASSUME TypeOK, NEW o \in Nat, NEW l \in Nat, NEW P, isPage(P, o, l),
         NEW j \in P, untied(j)
  PROVE  Cardinality(upto(j)) <= o + l /\ Cardinality(upto(j)) > o
<1>1. PICK skipped \in SUBSET rows :
        /\ P \subseteq rows \ skipped
        /\ Cardinality(skipped) = least(o, Cardinality(rows))
        /\ Cardinality(P) = least(l, Cardinality(rows) - Cardinality(skipped))
        /\ Cardinality(skipped \cup P) = Cardinality(skipped) + Cardinality(P)
        /\ \A a \in skipped, b \in rows \ skipped : createdAt[a] >= createdAt[b]
        /\ \A a \in P, b \in rows \ (skipped \cup P) : createdAt[a] >= createdAt[b]
  BY PageParts
<1>2. \A i \in rows : createdAt[i] \in Nat
  BY DEF TypeOK, rows
<1>3. upto(j) \in SUBSET rows /\ j \in upto(j) /\ j \notin skipped /\ j \in rows
  BY <1>1, <1>2 DEF upto
<1>4. /\ Cardinality(upto(j)) \in Nat /\ Cardinality(rows) \in Nat
      /\ Cardinality(skipped) \in Nat /\ Cardinality(P) \in Nat
      /\ IsFiniteSet(upto(j)) /\ IsFiniteSet(skipped) /\ IsFiniteSet(skipped \cup P)
  <2>1. P \in SUBSET rows /\ skipped \cup P \in SUBSET rows
    BY <1>1
  <2> QED
    BY <1>3, <2>1, RowsFinite
<1>5. upto(j) \subseteq skipped \cup P
  <2>1. SUFFICES ASSUME NEW i \in upto(j), i \notin skipped \cup P PROVE FALSE
    OBVIOUS
  <2>2. createdAt[j] >= createdAt[i] /\ createdAt[i] >= createdAt[j] /\ i \in rows /\ i # j
    BY <1>1, <2>1 DEF upto
  <2> QED
    BY <1>2, <1>3, <2>2 DEF untied
<1>6. Cardinality(upto(j)) <= Cardinality(skipped) + Cardinality(P)
  BY <1>1, <1>4, <1>5, FS_Subset
<1>7. Cardinality(skipped) + 1 <= Cardinality(upto(j))
  <2>1. skipped \cup {j} \subseteq upto(j)
    BY <1>1, <1>3 DEF upto
  <2>2. Cardinality(skipped \cup {j}) = Cardinality(skipped) + 1
    BY <1>3, <1>4, FS_AddElement
  <2> QED
    BY <1>4, <2>1, <2>2, FS_Subset
<1>8. Cardinality(upto(j)) <= Cardinality(rows)
  BY <1>3, RowsFinite
<1> QED
  BY <1>1, <1>4, <1>6, <1>7, <1>8 DEF least

-----------------------------------------------------------------------------
(* The invariant.                                                          *)

\* A client that has not asked for a page yet.
LEMMA InitIInv == Init => IInv
<1>1. ASSUME Init PROVE TypeOK
  <2>1. request("idle", 0, 0) \in Listing
    BY ListingAssumption DEF Listing, request
  <2>2. request("idle", 0, 0).page = {} /\ request("idle", 0, 0).limit = 0
    BY DEF request
  <2>3. createdAt \in [Jobs -> 0..MaxTime]
    BY <1>1, ListingAssumption DEF Init
  <2> QED
    BY <1>1, <2>1, <2>2, <2>3, FS_EmptySet DEF Init, TypeOK
<1>2. ASSUME Init PROVE Counts /\ Ahead /\ Behind
  BY <1>1, <1>2 DEF Init, Counts, Ahead, Behind, request, rows
<1>3. ASSUME Init PROVE ListingComplete /\ RepeatsNeedArrivals /\ AnnouncedPageHasRows
  BY <1>3 DEF Init, ListingComplete, RepeatsNeedArrivals, AnnouncedPageHasRows, request
<1> QED
  BY <1>1, <1>2, <1>3 DEF IInv

\* A row more: the rest keep their timestamps, so what was newer is, and what
\* has no arrival in front of it has what it had.
LEMMA CreateInv ==
  ASSUME IInv, NEW n \in Jobs, CreateJob(n)
  PROVE  IInv'
<1>1. /\ n \notin rows /\ rows' = rows \cup {n}
      /\ \A i \in rows : createdAt'[i] = createdAt[i] /\ createdAt[i] \in Nat
      /\ createdAt' \in [Jobs -> 0..MaxTime] /\ createdAt'[n] \in Nat
      /\ UNCHANGED <<list, start, shown, again>>
  BY ListingAssumption DEF IInv, TypeOK, CreateJob, rows, clientVars
<1>2. TypeOK'
  BY <1>1 DEF IInv, TypeOK
<1>3. Cardinality(rows) \in Nat /\ Cardinality(rows)' = Cardinality(rows) + 1
  BY <1>1, RowsFinite, FS_AddElement
<1>4. Counts'
  BY <1>1, <1>2, <1>3 DEF IInv, Counts, TypeOK, Listing
<1>5. ASSUME NEW j \in rows, untied(j)'
      PROVE  /\ untied(j)
             /\ Cardinality(newer(j)) \in Nat /\ Cardinality(newer(j))' \in Nat
             /\ Cardinality(newer(j)) <= Cardinality(newer(j))'
             /\ ~arrival(j)' => ~arrival(j) /\ Cardinality(upto(j))' = Cardinality(upto(j))
  <2>1. untied(j)
    BY <1>1, <1>5 DEF untied
  <2>2. /\ newer(j) \in SUBSET newer(j)' /\ newer(j) \in SUBSET rows
        /\ newer(j)' \in SUBSET rows'
    BY <1>1 DEF newer
  <2>3. IsFiniteSet(rows')
    BY <1>1, RowsFinite, FS_AddElement
  <2>4. /\ IsFiniteSet(newer(j)') /\ Cardinality(newer(j)') \in Nat
        /\ Cardinality(newer(j)) \in Nat
    BY <2>2, <2>3, RowsFinite, FS_Subset, FS_CardinalityType
  <2>5. Cardinality(newer(j)) <= Cardinality(newer(j)')
    BY <2>2, <2>4, FS_Subset
  <2>6. ASSUME ~arrival(j)' PROVE ~arrival(j) /\ upto(j)' = upto(j)
    <3>1. n \notin start /\ n # j
      BY <1>1 DEF IInv, Counts
    <3>2. ~(createdAt'[n] >= createdAt'[j])
      BY <1>1, <2>6, <3>1 DEF arrival
    <3>3. upto(j)' = upto(j)
      BY <1>1, <3>1, <3>2 DEF upto
    <3>4. ~arrival(j)
      BY <1>1, <2>6 DEF arrival
    <3> QED
      BY <3>3, <3>4
  <2> QED
    BY <2>1, <2>4, <2>5, <2>6
<1>6. Ahead'
  <2>1. list.next \in Nat /\ list.limit \in Nat
    BY DEF IInv, TypeOK, Listing
  <2>2. start \subseteq rows
    BY DEF IInv, Counts
  <2> QED
    BY <1>1, <1>5, <2>1, <2>2 DEF IInv, Ahead
<1>7. Behind'
  <2>1. n \notin shown /\ n \notin list.page
    BY <1>1 DEF IInv, Counts
  <2> QED
    BY <1>1, <1>5, <2>1 DEF IInv, Behind
<1>8. ListingComplete'
  <2>1. start \subseteq rows
    BY DEF IInv, Counts
  <2> QED
    BY <1>1, <1>5, <2>1 DEF IInv, ListingComplete
<1>9. RepeatsNeedArrivals'
  <2>1. again \subseteq rows
    BY DEF IInv, Counts, TypeOK
  <2> QED
    BY <1>1, <1>5, <2>1 DEF IInv, RepeatsNeedArrivals
<1>10. AnnouncedPageHasRows'
  BY <1>1 DEF IInv, AnnouncedPageHasRows
<1> QED
  BY <1>2, <1>4, <1>6, <1>7, <1>8, <1>9, <1>10 DEF IInv

\* The rows as they are seen through createdAt.
LEMMA SameRows ==
  ASSUME UNCHANGED createdAt
  PROVE  /\ rows' = rows
         /\ \A j : untied(j)' = untied(j) /\ newer(j)' = newer(j) /\ upto(j)' = upto(j)
BY DEF rows, untied, newer, upto

\* A request for the next page arrives with its limit clamped.
LEMMA AskInv ==
  ASSUME IInv, NEW asked \in Asked, Ask(asked)
  PROVE  IInv'
<1>1. /\ list.pc = "idle" /\ list.next \in Nat
      /\ list' = request("asked", list.next, pageLimit(asked))
      /\ pageLimit(asked) \in 1..MaxLimit
      /\ UNCHANGED <<createdAt, shown, again>>
      /\ start' = IF list.next = 0 THEN rows ELSE start
  BY ListingAssumption DEF Ask, IInv, TypeOK, Listing, pageLimit, least
<1>2. /\ list'.pc = "asked" /\ list'.next = list.next /\ list'.limit = pageLimit(asked)
      /\ ~list'.paged /\ ~list'.counted /\ list'.page = {} /\ list'.there = {}
      /\ list'.total = 0
  BY <1>1 DEF request
<1>3. start' \subseteq rows /\ rows \subseteq Jobs
  BY <1>1 DEF IInv, Counts, rows
<1>4. list' \in Listing /\ Cardinality(list'.page) <= list'.limit
  <2>1. list' \in Listing
    BY <1>1, ListingAssumption DEF Listing, request
  <2> QED
    BY <1>1, <1>2, <2>1, FS_EmptySet
<1>5. TypeOK'
  BY <1>1, <1>3, <1>4 DEF IInv, TypeOK
<1>6. Counts'
  BY <1>1, <1>2, <1>3, SameRows DEF IInv, Counts
<1>7. Ahead'
  <2> SUFFICES ASSUME NEW j \in start', untied(j), j \notin shown
               PROVE  Cardinality(newer(j)) >= list.next
    BY <1>1, <1>2, SameRows DEF Ahead
  <2>1. CASE list.next = 0
    <3>1. newer(j) \in SUBSET rows
      BY DEF newer
    <3> QED
      BY <2>1, <3>1, RowsFinite
  <2>2. CASE list.next # 0
    BY <1>1, <2>2 DEF IInv, Ahead
  <2> QED
    BY <2>1, <2>2
<1>8. Behind'
  <2> SUFFICES ASSUME NEW j \in rows, untied(j), ~arrival(j)', j \in shown
               PROVE  Cardinality(upto(j)) <= list.next
    BY <1>1, <1>2, SameRows DEF Behind
  <2>1. list.next # 0
    BY DEF IInv, Counts
  <2>2. ~arrival(j)
    BY <1>1, <2>1, SameRows DEF arrival
  <2> QED
    BY <1>1, <2>2 DEF IInv, Behind
<1>9. RepeatsNeedArrivals'
  <2> SUFFICES ASSUME NEW j \in again PROVE arrival(j)' \/ ~untied(j)
    BY <1>1, SameRows DEF RepeatsNeedArrivals
  <2>1. list.next # 0
    BY DEF IInv, Counts, TypeOK
  <2> QED
    BY <1>1, <2>1, SameRows DEF IInv, RepeatsNeedArrivals, arrival
<1>10. ListingComplete' /\ AnnouncedPageHasRows'
  BY <1>2 DEF ListingComplete, AnnouncedPageHasRows
<1> QED
  BY <1>5, <1>6, <1>7, <1>8, <1>9, <1>10 DEF IInv

\* findMany: what the page holds is decided by the rows there are now.
LEMMA ReadPageInv ==
  ASSUME IInv, ReadPage
  PROVE  IInv'
<1>1. PICK P \in SUBSET rows :
        /\ isPage(P, list.next, list.limit)
        /\ list' = [list EXCEPT !.paged = TRUE, !.page = P, !.there = rows]
  BY DEF ReadPage
<1>2. /\ list.pc = "asked" /\ list \in Listing /\ list.next \in Nat
      /\ list.limit \in Nat \ {0} /\ list.limit \in 0..MaxLimit
      /\ rows \subseteq Jobs
      /\ UNCHANGED <<createdAt, start, shown, again>>
  BY DEF ReadPage, IInv, TypeOK, Counts, Listing, rows
<1>3. /\ list'.pc = "asked" /\ list'.next = list.next /\ list'.limit = list.limit
      /\ list'.paged /\ list'.page = P /\ list'.there = rows
      /\ list'.counted = list.counted /\ list'.total = list.total
  BY <1>1, <1>2 DEF Listing
<1>4. list' \in Listing
  BY <1>1, <1>2 DEF Listing
<1>5. TypeOK
  BY DEF IInv
<1>6. P \subseteq rows /\ Cardinality(P) <= list.limit
      /\ (list.next < Cardinality(rows) => P # {})
  BY <1>1, <1>2, <1>5, PageSize
<1>7. TypeOK'
  BY <1>2, <1>3, <1>4, <1>6 DEF IInv, TypeOK
<1>8. Counts'
  BY <1>2, <1>3, <1>6, SameRows DEF IInv, Counts
<1>9. Ahead'
  <2> SUFFICES ASSUME NEW j \in start, untied(j), j \notin shown
               PROVE  /\ Cardinality(newer(j)) >= list.next
                      /\ j \notin P => /\ Cardinality(newer(j)) >= list.next + list.limit
                                       /\ Cardinality(rows) > list.next + list.limit
    BY <1>2, <1>3, SameRows DEF Ahead
  <2>1. Cardinality(newer(j)) >= list.next /\ j \in rows
    BY <1>2 DEF IInv, Ahead, Counts
  <2> QED
    BY <1>1, <1>2, <1>5, <2>1, NotOnPage
<1>10. Behind'
  <2>1. \A j : arrival(j)' = arrival(j)
    BY <1>2, SameRows DEF arrival
  <2> SUFFICES ASSUME NEW j \in rows, untied(j), ~arrival(j)
               PROVE  /\ j \in shown => Cardinality(upto(j)) <= list.next
                      /\ j \in P => j \notin shown
                                    /\ Cardinality(upto(j)) <= list.next + list.limit
    BY <1>2, <1>3, <2>1, SameRows DEF Behind
  <2>2. j \in shown => Cardinality(upto(j)) <= list.next
    BY <1>2 DEF IInv, Behind
  <2>3. upto(j) \in SUBSET rows
    BY DEF upto
  <2>4. Cardinality(upto(j)) \in Nat
    BY <2>3, RowsFinite
  <2> QED
    BY <1>1, <1>2, <1>5, <2>2, <2>4, OnPage
<1>11. RepeatsNeedArrivals'
  BY <1>2, SameRows DEF IInv, RepeatsNeedArrivals, arrival
<1>12. ListingComplete' /\ AnnouncedPageHasRows'
  BY <1>2, <1>3, <1>6 DEF ListingComplete, AnnouncedPageHasRows, IInv, Counts
<1> QED
  BY <1>7, <1>8, <1>9, <1>10, <1>11, <1>12 DEF IInv

\* count: the total is that of another moment.
LEMMA CountInv ==
  ASSUME IInv, CountRows
  PROVE  IInv'
<1>1. /\ list.pc = "asked" /\ list \in Listing
      /\ list' = [list EXCEPT !.counted = TRUE, !.total = Cardinality(rows)]
      /\ UNCHANGED <<createdAt, start, shown, again>>
  BY DEF CountRows, IInv, TypeOK
<1>2. /\ list'.pc = "asked" /\ list'.next = list.next /\ list'.limit = list.limit
      /\ list'.paged = list.paged /\ list'.page = list.page /\ list'.there = list.there
      /\ list'.total = Cardinality(rows)
  BY <1>1 DEF Listing
<1>3. list' \in Listing /\ Cardinality(rows) \in Nat
  BY <1>1, RowsFinite DEF Listing
<1>4. TypeOK'
  BY <1>1, <1>2, <1>3 DEF IInv, TypeOK
<1>5. Counts'
  BY <1>1, <1>2, <1>3, SameRows DEF IInv, Counts
<1>6. Ahead'
  BY <1>1, <1>2, SameRows DEF IInv, Ahead
<1>7. \A j : arrival(j)' = arrival(j)
  BY <1>1, SameRows DEF arrival
<1>8. Behind' /\ RepeatsNeedArrivals'
  BY <1>1, <1>2, <1>7, SameRows DEF IInv, Behind, RepeatsNeedArrivals
<1>9. ListingComplete' /\ AnnouncedPageHasRows'
  BY <1>1, <1>2 DEF IInv, ListingComplete, AnnouncedPageHasRows
<1> QED
  BY <1>4, <1>5, <1>6, <1>8, <1>9 DEF IInv

\* The answer joins the two, and the client has seen one page more.
LEMMA ReplyInv ==
  ASSUME IInv, Reply
  PROVE  IInv'
<1>1. /\ list.pc = "asked" /\ list.paged /\ list.counted /\ list \in Listing
      /\ list.next \in Nat /\ list.limit \in Nat \ {0} /\ list.total \in Nat
      /\ again' = again \cup (shown \cap list.page)
      /\ shown' = shown \cup list.page
      /\ UNCHANGED <<createdAt, start>>
  BY DEF Reply, IInv, TypeOK, Counts, Listing
<1>2. PICK pc \in {"idle", "done"}, next \in Nat :
        /\ list' = [list EXCEPT !.pc = pc, !.next = next]
        /\ next = list.next + list.limit
        /\ pc = "idle" => next < list.total
        /\ pc = "done" => ~(next < list.total)
  <2>1. list.next + list.limit \in Nat
    BY <1>1
  <2>2. CASE hasMore(list.next, list.limit, list.total)
    BY <2>1, <2>2 DEF Reply, hasMore
  <2>3. CASE ~hasMore(list.next, list.limit, list.total)
    BY <2>1, <2>3 DEF Reply, hasMore
  <2> QED
    BY <2>2, <2>3
<1>3. /\ list'.pc = pc /\ list'.next = next /\ list'.limit = list.limit
      /\ list'.page = list.page /\ list'.there = list.there /\ list'.total = list.total
  BY <1>1, <1>2 DEF Listing
<1>4. list' \in Listing
  BY <1>1, <1>2 DEF Listing
<1>5. \A j : arrival(j)' = arrival(j)
  BY <1>1, SameRows DEF arrival
<1>6. /\ list.page \subseteq rows /\ rows \subseteq Jobs /\ list.total <= Cardinality(rows)
      /\ Cardinality(rows) \in Nat /\ Cardinality(list.there) \in Nat
  <2>1. list.there \in SUBSET Jobs
    BY <1>1 DEF Listing
  <2> QED
    BY <1>1, <2>1, RowsFinite, ListingAssumption, FS_Subset, FS_CardinalityType
    DEF IInv, Counts, rows
<1>7. TypeOK'
  BY <1>1, <1>3, <1>4, <1>6 DEF IInv, TypeOK
<1>8. Counts'
  BY <1>1, <1>2, <1>3, <1>6, SameRows DEF IInv, Counts
<1>9. Ahead'
  <2> SUFFICES ASSUME NEW j \in start, untied(j), j \notin shown, j \notin list.page
               PROVE  Cardinality(newer(j)) >= next
    BY <1>1, <1>2, <1>3, SameRows DEF Ahead
  <2> QED
    BY <1>1, <1>2 DEF IInv, Ahead
<1>10. Behind'
  <2> SUFFICES ASSUME NEW j \in rows, untied(j), ~arrival(j), j \in shown \/ j \in list.page
               PROVE  Cardinality(upto(j)) <= next
    BY <1>1, <1>2, <1>3, <1>5, SameRows DEF Behind
  <2>1. upto(j) \in SUBSET rows
    BY DEF upto
  <2>2. Cardinality(upto(j)) \in Nat
    BY <2>1, RowsFinite
  <2> QED
    BY <1>1, <1>2, <2>2 DEF IInv, Behind
<1>11. ListingComplete'
  <2> SUFFICES ASSUME pc = "done", NEW j \in start, untied(j), j \notin shown,
                      j \notin list.page
               PROVE  list.total < Cardinality(list.there)
    BY <1>1, <1>3, SameRows DEF ListingComplete
  <2>1. Cardinality(list.there) > next
    BY <1>1, <1>2 DEF IInv, Ahead
  <2> QED
    BY <1>1, <1>2, <1>6, <2>1
<1>12. RepeatsNeedArrivals'
  <2> SUFFICES ASSUME NEW j \in shown \cap list.page, untied(j) PROVE arrival(j)
    BY <1>1, <1>5, SameRows DEF IInv, RepeatsNeedArrivals
  <2> QED
    BY <1>1, <1>6 DEF IInv, Behind
<1>13. AnnouncedPageHasRows'
  BY <1>2, <1>3 DEF AnnouncedPageHasRows
<1> QED
  BY <1>7, <1>8, <1>9, <1>10, <1>11, <1>12, <1>13 DEF IInv

\* A failed query shows the client nothing; it may ask for the page again.
LEMMA FailInv ==
  ASSUME IInv, QueryFails
  PROVE  IInv'
<1>1. /\ list.pc = "asked" /\ list.next \in Nat
      /\ list' = request("idle", list.next, 0)
      /\ UNCHANGED <<createdAt, start, shown, again>>
  BY DEF QueryFails, IInv, TypeOK, Listing
<1>2. /\ list'.pc = "idle" /\ list'.next = list.next /\ list'.limit = 0 /\ list'.page = {}
  BY <1>1 DEF request
<1>3. list' \in Listing
  BY <1>1, ListingAssumption DEF Listing, request
<1>4. \A j : arrival(j)' = arrival(j)
  BY <1>1, SameRows DEF arrival
<1>5. TypeOK'
  BY <1>1, <1>2, <1>3, FS_EmptySet DEF IInv, TypeOK
<1>6. Counts'
  BY <1>1, <1>2, SameRows DEF IInv, Counts
<1>7. Ahead' /\ Behind'
  BY <1>1, <1>2, <1>4, SameRows DEF IInv, Ahead, Behind
<1>8. RepeatsNeedArrivals'
  BY <1>1, <1>4, SameRows DEF IInv, RepeatsNeedArrivals
<1>9. ListingComplete' /\ AnnouncedPageHasRows'
  BY <1>2 DEF ListingComplete, AnnouncedPageHasRows
<1> QED
  BY <1>5, <1>6, <1>7, <1>8, <1>9 DEF IInv

\* The invariant of a listing, for any rows, limits and failures.
THEOREM Invariance == Spec => []IInv
<1>1. IInv /\ [Next]_vars => IInv'
  <2> SUFFICES ASSUME IInv, [Next]_vars PROVE IInv'
    OBVIOUS
  <2>1. CASE UNCHANGED vars
    BY <2>1
    DEF vars, IInv, TypeOK, Counts, Ahead, Behind, ListingComplete, RepeatsNeedArrivals,
        AnnouncedPageHasRows, arrival, untied, newer, upto, rows
  <2> QED
    BY <2>1, CreateInv, AskInv, ReadPageInv, CountInv, ReplyInv, FailInv DEF Next
<1> QED
  BY <1>1, InitIInv, PTL DEF Spec

\* No page is larger than the code allows, and rows, listings and histories
\* keep their types.
THEOREM TypesKept == Spec => []TypeOK
BY Invariance, PTL DEF IInv

\* Paging by offset passes no job by, for any number of jobs and limits: what is
\* not shown has the offset's number of newer rows, so it lies ahead.
THEOREM NoJobPassedBy == Spec => []ListingComplete
BY Invariance, PTL DEF IInv

\* A job with a timestamp of its own is repeated only when a row that is not
\* older has joined.
THEOREM RepeatsHaveCause == Spec => []RepeatsNeedArrivals
BY Invariance, PTL DEF IInv

\* The page that hasMore announced has rows, since rows do not go away.
THEOREM AnnouncementsHold == Spec => []AnnouncedPageHasRows
BY Invariance, PTL DEF IInv
=============================================================================
