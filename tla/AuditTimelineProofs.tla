------------------------ MODULE AuditTimelineProofs ------------------------
(***************************************************************************)
(* The timeline on the screen has no gap, for every number of kinds, rows   *)
(* and pages and every size of a page.                                     *)
(***************************************************************************)
EXTENDS AuditTimeline, FiniteSetTheorems, SequenceTheorems, TLAPS

\* A row is known by its place.
Distinct(s) == \A p, q \in s : p.place = q.place => p = q

Below(s, r) == {q \in s : q.place < r.place}

-----------------------------------------------------------------------------
(* The first rows of a set.                                                *)

\* Every set of naturals has a least element.
LEMMA LeastNatural ==
  ASSUME NEW T, T \subseteq Nat, T # {}
  PROVE  \E n \in T : \A m \in T : n <= m
<1> DEFINE Less == {p \in Nat \X Nat : p[1] < p[2]}
<1>1. IsWellFoundedOn(Less, Nat)
  BY NatLessThanWellFounded DEF OpToRel
<1>2. PICK n \in T : \A m \in T : ~(<<m, n>> \in Less)
  BY <1>1, WFMin
<1>3. ASSUME NEW m \in T PROVE n <= m
  <2>1. m \in Nat /\ n \in Nat
    OBVIOUS
  <2>2. ~(m < n)
    BY <1>2, <2>1
  <2>3. QED
    BY <2>1, <2>2
<1>4. QED
  BY <1>3

LEMMA RowsTyped ==
  ASSUME NEW s, s \subseteq RowType, NEW r \in s
  PROVE  r.place \in Nat /\ r.place >= 1 /\ r.place <= MaxPlaces
<1>1. r \in RowType
  OBVIOUS
<1>2. r.place \in 1 .. MaxPlaces
  BY <1>1 DEF RowType, Places
<1>3. QED
  BY <1>2, TimelineAssumption

\* A set of rows has a first and a last one.
LEMMA FirstAndLast ==
  ASSUME NEW s, s \subseteq RowType, s # {}
  PROVE  /\ \E r \in s : \A q \in s : r.place <= q.place
         /\ \E r \in s : \A q \in s : q.place <= r.place
<1>1. \E r \in s : \A q \in s : r.place <= q.place
  <2> DEFINE T == {r.place : r \in s}
  <2>1. T \subseteq Nat /\ T # {}
    BY RowsTyped
  <2>2. PICK n \in T : \A m \in T : n <= m
    BY <2>1, LeastNatural
  <2>3. QED
    BY <2>2
<1>2. \E r \in s : \A q \in s : q.place <= r.place
  <2> DEFINE T == {MaxPlaces - r.place : r \in s}
  <2>1. T \subseteq Nat /\ T # {}
    BY RowsTyped, TimelineAssumption
  <2>2. PICK n \in T : \A m \in T : n <= m
    BY <2>1, LeastNatural
  <2>3. PICK r \in s : n = MaxPlaces - r.place
    BY <2>2
  <2>4. ASSUME NEW q \in s PROVE q.place <= r.place
    <3>1. MaxPlaces - r.place <= MaxPlaces - q.place
      BY <2>2, <2>3
    <3>2. r.place \in Nat /\ q.place \in Nat
      BY RowsTyped
    <3>3. QED
      BY <3>1, <3>2, TimelineAssumption
  <2>5. QED
    BY <2>4
<1>3. QED
  BY <1>1, <1>2

\* Rows that are known by their place are finitely many.
LEMMA FiniteRows ==
  ASSUME NEW s, s \subseteq RowType, Distinct(s)
  PROVE  IsFiniteSet(s)
<1> DEFINE f == [r \in s |-> r.place]
<1>1. f \in Injection(s, Places)
  <2>1. f \in [s -> Places]
    BY DEF RowType
  <2>2. \A p, q \in s : f[p] = f[q] => p = q
    BY DEF Distinct
  <2>3. QED
    BY <2>1, <2>2 DEF Injection, IsInjective
<1>2. IsFiniteSet(Places)
  BY FS_Interval, TimelineAssumption DEF Places
<1>3. QED
  BY <1>1, <1>2, FS_Injection

\* What Earliest returns: the rows before all others, as many as are asked for, or
\* all when there are no more.
LEMMA EarliestIs ==
  ASSUME NEW s, s \subseteq RowType, Distinct(s), NEW n \in Nat
  PROVE  /\ Earliest(s, n) \subseteq s
         /\ \A e \in Earliest(s, n), x \in s \ Earliest(s, n) : e.place < x.place
         /\ IsFiniteSet(s) /\ IsFiniteSet(Earliest(s, n))
         /\ Cardinality(s) \in Nat /\ Cardinality(Earliest(s, n)) \in Nat
         /\ Cardinality(Earliest(s, n)) <= n
         /\ Earliest(s, n) = s \/ Cardinality(Earliest(s, n)) = n
<1> DEFINE E == Earliest(s, n)
<1>1. E = {r \in s : Cardinality(Below(s, r)) < n}
  BY DEF Earliest, Below
<1>2. E \subseteq s
  BY <1>1
<1> HIDE DEF E
<1>3. IsFiniteSet(s) /\ Cardinality(s) \in Nat
  BY FiniteRows, FS_CardinalityType
<1>4. ASSUME NEW t, t \subseteq s
      PROVE  IsFiniteSet(t) /\ Cardinality(t) \in Nat
  BY <1>3, <1>4, FS_Subset, FS_CardinalityType
<1>5. \A r \in s : r.place \in Nat
  BY RowsTyped
<1>6. ASSUME NEW e \in E, NEW x \in s \ E PROVE e.place < x.place
  <2>1. SUFFICES ASSUME ~(e.place < x.place) PROVE FALSE
    OBVIOUS
  <2>2. x.place <= e.place
    BY <1>2, <1>5, <2>1
  <2>3. Below(s, x) \subseteq Below(s, e)
    BY <1>2, <1>5, <2>2 DEF Below
  <2>4. Below(s, e) \subseteq s
    BY DEF Below
  <2>5. IsFiniteSet(Below(s, e))
    BY <1>4, <2>4
  <2>6. Cardinality(Below(s, x)) <= Cardinality(Below(s, e))
    BY <2>3, <2>5, FS_Subset
  <2>7. Cardinality(Below(s, e)) \in Nat /\ Cardinality(Below(s, x)) \in Nat
    BY <1>4, <2>4, <2>3
  <2>8. Cardinality(Below(s, e)) < n /\ ~(Cardinality(Below(s, x)) < n)
    BY <1>1
  <2>9. QED
    BY <2>6, <2>7, <2>8
<1>7. Cardinality(E) <= n
  <2>1. CASE E = {}
    BY <2>1, FS_EmptySet
  <2>2. CASE E # {}
    <3>1. PICK e \in E : \A q \in E : q.place <= e.place
      BY <1>2, <2>2, FirstAndLast
    <3>2. Below(s, e) = E \ {e}
      <4>1. ASSUME NEW q \in Below(s, e) PROVE q \in E \ {e}
        <5>1. q \in s /\ q.place < e.place /\ e \in s
          BY <1>2 DEF Below
        <5>2. ~(e.place < q.place) /\ q # e
          BY <1>5, <5>1
        <5>3. QED
          BY <1>6, <5>1, <5>2
      <4>2. ASSUME NEW q \in E \ {e} PROVE q \in Below(s, e)
        <5>1. q \in s /\ e \in s /\ q.place <= e.place /\ q.place # e.place
          BY <1>2, <3>1 DEF Distinct
        <5>2. QED
          BY <1>5, <5>1 DEF Below
      <4>3. QED
        BY <4>1, <4>2
    <3>3. Cardinality(E \ {e}) = Cardinality(E) - 1
      BY <1>2, <1>4, FS_RemoveElement
    <3>4. Cardinality(Below(s, e)) < n
      BY <1>1
    <3>5. QED
      BY <1>2, <1>4, <3>2, <3>3, <3>4
  <2>3. QED
    BY <2>1, <2>2
<1>8. E = s \/ Cardinality(E) = n
  <2>1. SUFFICES ASSUME s \ E # {} PROVE Cardinality(E) >= n
    BY <1>2, <1>4, <1>7
  <2>2. PICK x \in s \ E : \A q \in s \ E : x.place <= q.place
    BY <2>1, FirstAndLast
  <2>3. Below(s, x) = E
    <3>1. ASSUME NEW q \in Below(s, x) PROVE q \in E
      <4>1. q \in s /\ q.place < x.place
        BY DEF Below
      <4>2. ~(x.place <= q.place)
        BY <1>5, <4>1
      <4>3. QED
        BY <2>2, <4>1, <4>2
    <3>2. E \subseteq Below(s, x)
      BY <1>2, <1>6 DEF Below
    <3>3. QED
      BY <3>1, <3>2
  <2>4. ~(Cardinality(E) < n)
    BY <1>1, <2>3
  <2>5. QED
    BY <1>2, <1>4, <2>4
<1>9. QED
  BY <1>2, <1>3, <1>4, <1>6, <1>7, <1>8 DEF E

LEMMA LastPlaceIs ==
  ASSUME NEW s, s \subseteq RowType, s # {}
  PROVE  /\ \E r \in s : LastPlace(s) = r.place
         /\ \A q \in s : q.place <= LastPlace(s)
<1> DEFINE T == {r.place : r \in s}
<1>1. PICK r \in s : \A q \in s : q.place <= r.place
  BY FirstAndLast
<1>2. \A q \in s : q.place \in Nat
  BY RowsTyped
<1>3. r.place \in T /\ \A n \in T : r.place >= n
  BY <1>1, <1>2
<1>4. Max(T) \in T /\ \A n \in T : Max(T) >= n
  BY <1>3 DEF Max
<1>5. LastPlace(s) = Max(T)
  BY DEF LastPlace
<1>6. QED
  BY <1>2, <1>4, <1>5

-----------------------------------------------------------------------------
(* A page.                                                                 *)

\* The rows of the database are known by their places.
Database == rows \subseteq RowType /\ Distinct(rows)

HasMore(db, cursor) == \E r \in db : r.place > cursor

\* A page shows what it has read between the row it starts from and its end, and
\* it ends before the last row when there is another page.
PageOK(db, p) ==
  /\ p \in PageType
  /\ p.seen \subseteq db
  /\ p.items \subseteq p.seen
  /\ \A r \in p.seen :
       r \in p.items <=>
         r.place > p.after /\ (p.next # 0 => r.place <= p.next)
  /\ p.next # 0 => p.next > p.after /\ HasMore(db, p.next)

\* A row beyond the cursor that no list reaches comes after more rows than a page
\* can show.
LEMMA Unlisted ==
  ASSUME Database, NEW a \in Nat, NEW F,
         F = Beyond(UNION {ListOf(k, a) : k \in Kinds}, a),
         NEW q \in rows \ F, q.place > a
  PROVE  \E m \in SUBSET F :
           /\ IsFiniteSet(m) /\ Cardinality(m) \in Nat
           /\ Cardinality(m) >= PageSize + 1
           /\ \A r \in m : r.place < q.place
<1> DEFINE k == q.kind
           K == {r \in rows : r.kind = k /\ r.place >= a}
           E == ListOf(k, a)
           m == {r \in E : r.place > a}
<1>1. q \in RowType /\ k \in Kinds
  BY DEF Database, RowType
<1>2. K \subseteq RowType /\ Distinct(K) /\ PageSize + 2 \in Nat /\ E = Earliest(K, PageSize + 2)
  BY TimelineAssumption DEF Database, Distinct, ListOf
<1>3. /\ E \subseteq K
      /\ \A e \in E, x \in K \ E : e.place < x.place
      /\ IsFiniteSet(E) /\ Cardinality(E) \in Nat
      /\ E = K \/ Cardinality(E) = PageSize + 2
  <2> HIDE DEF K, E
  <2>1. QED
    BY <1>2, EarliestIs
<1>4. \A r \in rows : r.place \in Nat
  BY RowsTyped DEF Database
<1>5. q \in K /\ q \notin E
  <2>1. q \in K
    BY <1>4
  <2>2. E \subseteq UNION {ListOf(j, a) : j \in Kinds}
    BY <1>1
  <2>3. QED
    BY <2>1, <2>2 DEF Beyond
<1> K \subseteq rows
  OBVIOUS
<1>6. \A r \in K : r.place >= a
  OBVIOUS
<1> HIDE DEF K
<1>7. m \subseteq F
  BY <1>1 DEF Beyond
<1> HIDE DEF E
<1>8. m \subseteq E /\ IsFiniteSet(m) /\ Cardinality(m) \in Nat
  BY <1>3, FS_Subset, FS_CardinalityType
<1>9. Cardinality(m) >= PageSize + 1
  <2>1. Cardinality(E) = PageSize + 2
    BY <1>3, <1>5
  <2>2. CASE m = E
    BY <2>1, <2>2, TimelineAssumption
  <2>3. CASE m # E
    <3>1. PICK b \in E : b.place = a
      BY <1>3, <1>4, <1>6, <2>3
    <3>2. ASSUME NEW r \in E \ {b} PROVE r \in m
      <4>1. r \in rows /\ b \in rows /\ r.place # b.place
        BY <1>3 DEF Database, Distinct
      <4>2. r.place > a
        BY <1>3, <1>4, <1>6, <3>1, <4>1
      <4>3. QED
        BY <4>2
    <3>3. E \ {b} \subseteq m
      BY <3>2
    <3>4. Cardinality(E \ {b}) = Cardinality(E) - 1
      BY <1>3, FS_RemoveElement
    <3>5. Cardinality(E \ {b}) <= Cardinality(m)
      BY <1>8, <3>3, FS_Subset
    <3>6. QED
      BY <1>8, <2>1, <3>4, <3>5, TimelineAssumption
  <2>4. QED
    BY <2>2, <2>3
<1>10. \A r \in m : r.place < q.place
  BY <1>3, <1>5
<1> HIDE DEF m
<1>11. QED
  BY <1>7, <1>8, <1>9, <1>10

\* What the page of the API is.
LEMMA PageIs ==
  ASSUME Database, NEW a \in Cursors
  PROVE  /\ PageOK(rows, PageAfter(a)) /\ PageAfter(a).after = a
         /\ HasMore(rows, a) => PageAfter(a).items # {}
<1> DEFINE F == Beyond(UNION {ListOf(k, a) : k \in Kinds}, a)
           found == Earliest(F, PageSize + 1)
           items == Earliest(found, PageSize)
           end == IF Cardinality(found) > PageSize THEN LastPlace(items) ELSE 0
           B == {r \in rows : r.place > a}
<1>1. PageAfter(a) = [after |-> a, items |-> items, seen |-> rows, next |-> end]
  BY DEF PageAfter
<1>2. F \subseteq B
  BY DEF Beyond, ListOf, Earliest
<1>3. a \in Nat /\ PageSize \in Nat /\ PageSize >= 1 /\ PageSize + 1 \in Nat
  BY TimelineAssumption DEF Cursors
<1>4. ASSUME NEW q \in B \ F
      PROVE  \E m \in SUBSET F :
               /\ IsFiniteSet(m) /\ Cardinality(m) \in Nat
               /\ Cardinality(m) >= PageSize + 1
               /\ \A r \in m : r.place < q.place
  BY <1>3, Unlisted
<1>5. \A r \in rows : r.place \in Nat /\ r.place \in Cursors /\ r.place # 0
  <2>1. ASSUME NEW r \in rows PROVE r.place \in Nat /\ r.place \in Cursors /\ r.place # 0
    BY RowsTyped, TimelineAssumption DEF Database, Cursors
  <2>2. QED
    BY <2>1
<1> HIDE DEF F
<1>6. F \subseteq rows /\ F \subseteq RowType /\ Distinct(F)
  BY <1>2 DEF Database, Distinct
<1>7. /\ found \subseteq F
      /\ \A e \in found, x \in F \ found : e.place < x.place
      /\ IsFiniteSet(found) /\ Cardinality(found) \in Nat
      /\ Cardinality(found) <= PageSize + 1
      /\ found = F \/ Cardinality(found) = PageSize + 1
  BY <1>3, <1>6, EarliestIs
<1> HIDE DEF found
<1>8. found \subseteq RowType /\ Distinct(found)
  BY <1>6, <1>7 DEF Distinct
<1>9. /\ items \subseteq found
      /\ \A e \in items, x \in found \ items : e.place < x.place
      /\ IsFiniteSet(items) /\ Cardinality(items) \in Nat
      /\ Cardinality(items) <= PageSize
      /\ items = found \/ Cardinality(items) = PageSize
  BY <1>3, <1>8, EarliestIs
<1> HIDE DEF items
<1>10. items \subseteq rows /\ items \subseteq RowType /\ items \subseteq B
  BY <1>2, <1>6, <1>7, <1>9
<1>11. CASE Cardinality(found) <= PageSize
  <2>1. end = 0
    BY <1>3, <1>7, <1>11
  <2>2. found = F
    BY <1>3, <1>7, <1>11
  <2>3. items = found
    BY <1>3, <1>7, <1>9, <1>11, FS_Subset
  <2>4. F = B
    <3>1. SUFFICES ASSUME NEW q \in B \ F PROVE FALSE
      BY <1>2
    <3>2. PICK m \in SUBSET F : Cardinality(m) \in Nat /\ Cardinality(m) >= PageSize + 1
      BY <1>4
    <3>3. Cardinality(m) <= Cardinality(F)
      BY <1>7, <2>2, FS_Subset
    <3>4. QED
      BY <1>3, <1>7, <1>11, <2>2, <3>2, <3>3
  <2>5. items = B
    BY <2>2, <2>3, <2>4
  <2>6. PageAfter(a) \in PageType
    BY <1>1, <1>10, <2>1, TimelineAssumption DEF PageType, Cursors, Database
  <2> HIDE DEF end
  <2>7. \A r \in rows : r \in items <=> r.place > a
    BY <2>5
  <2>8. PageOK(rows, PageAfter(a))
    BY <1>1, <1>10, <2>1, <2>6, <2>7 DEF PageOK
  <2>9. QED
    BY <1>1, <2>7, <2>8 DEF HasMore
<1>12. CASE Cardinality(found) > PageSize
  <2>1. items # found
    BY <1>3, <1>7, <1>9, <1>12
  <2>2. items # {}
    BY <1>3, <1>9, <2>1, FS_EmptySet
  <2>3. end = LastPlace(items)
    BY <1>12
  <2>4. PICK l \in items : end = l.place
    BY <1>10, <2>2, <2>3, LastPlaceIs
  <2>5. \A r \in items : r.place <= end
    BY <1>10, <2>2, <2>3, LastPlaceIs
  <2> HIDE DEF end
  <2>6. end \in Cursors /\ end > a /\ end \in Nat
    BY <1>5, <1>10, <2>4
  <2>7. HasMore(rows, end)
    <3>1. PICK x \in found \ items : TRUE
      BY <1>9, <2>1
    <3>2. l.place < x.place /\ x \in rows /\ l \in rows
      BY <1>6, <1>7, <1>9, <1>10
    <3>3. x.place > end
      BY <1>5, <2>4, <3>2
    <3>4. QED
      BY <3>2, <3>3 DEF HasMore
  <2>8. ASSUME NEW r \in rows, r.place > a, r.place <= end
        PROVE  r \in items
    <3>1. CASE r.place = l.place
      <4>1. r = l
        BY <1>10, <3>1 DEF Database, Distinct
      <4>2. QED
        BY <4>1
    <3>2. CASE r.place < l.place
      <4>1. l \in found /\ l \in F /\ l \in rows
        BY <1>7, <1>9, <1>10
      <4>2. r \in F
        <5>1. SUFFICES ASSUME r \notin F PROVE FALSE
          OBVIOUS
        <5>2. PICK m \in SUBSET F :
                /\ IsFiniteSet(m) /\ Cardinality(m) \in Nat
                /\ Cardinality(m) >= PageSize + 1
                /\ \A x \in m : x.place < r.place
          BY <1>4, <2>8, <5>1
        <5>3. ASSUME NEW x \in m PROVE x.place < l.place /\ x \in found
          <6>1. x \in F /\ x \in rows /\ x.place < r.place
            BY <1>6, <5>2
          <6>2. x.place < l.place /\ ~(l.place < x.place)
            BY <1>5, <3>2, <4>1, <6>1
          <6>3. QED
            BY <1>7, <4>1, <6>1, <6>2
        <5>4. m \cup {l} \subseteq found /\ l \notin m
          BY <1>5, <4>1, <5>3
        <5>5. Cardinality(m \cup {l}) = Cardinality(m) + 1
          BY <5>2, <5>4, FS_AddElement
        <5>6. Cardinality(m \cup {l}) <= Cardinality(found)
          BY <1>7, <5>4, FS_Subset
        <5>7. QED
          BY <1>3, <1>7, <5>2, <5>5, <5>6
      <4>3. ~(l.place < r.place)
        BY <1>5, <3>2, <4>1
      <4>4. r \in found
        BY <1>7, <4>1, <4>2, <4>3
      <4>5. QED
        BY <1>9, <4>3, <4>4
    <3>3. QED
      BY <1>5, <1>10, <2>4, <2>8, <3>1, <3>2
  <2>9. PageAfter(a) \in PageType
    BY <1>1, <1>10, <2>6, TimelineAssumption DEF PageType, Cursors, Database
  <2>10. \A r \in rows : r \in items <=> (r.place > a /\ r.place <= end)
    BY <1>10, <2>5, <2>8
  <2>11. PageOK(rows, PageAfter(a))
    BY <1>1, <1>5, <1>10, <2>6, <2>7, <2>9, <2>10 DEF PageOK
  <2>12. QED
    BY <1>1, <2>2, <2>11
<1>13. QED
  BY <1>3, <1>7, <1>11, <1>12

-----------------------------------------------------------------------------
(* The pages of the screen.                                                *)

\* Where the pages after the first one end, which ends at the cursor c.
End(c, ps) == IF ps = <<>> THEN c ELSE ps[Len(ps)].next

\* Pages that follow one another from the cursor c on: each begins where the one
\* before ended, or later, and they show what all of them have read.
Chain(db, c, ps) ==
  /\ c \in Cursors /\ ps \in Seq(PageType)
  /\ ps # <<>> => c # 0
  /\ \A i \in DOMAIN ps :
       PageOK(db, ps[i]) /\ ps[i].items # {} /\ c <= ps[i].after
  /\ \A i, j \in DOMAIN ps :
       i < j => ps[i].next # 0 /\ ps[i].next <= ps[j].after
  /\ ps # <<>> =>
       \A r \in ps[1].seen :
         /\ r.place > c
         /\ \A i \in DOMAIN ps : r \in ps[i].seen
         /\ End(c, ps) # 0 => r.place <= End(c, ps)
         => \E i \in DOMAIN ps : r \in ps[i].items

\* The places are drawn once.
Drawn ==
  /\ clock \in Cursors
  /\ open \subseteq RowType /\ rows \subseteq RowType
  /\ Distinct(open \cup rows)
  /\ \A r \in open \cup rows : r.place <= clock

FirstPage(p) == PageOK(rows, p) /\ p.after = 0

\* The first page, in the cache or under way.
First ==
  /\ FirstPage(first)
  /\ refetch.step \in {"none", "asked", "read"}
  /\ refetch.step = "read" => FirstPage(refetch.page)

\* The pages after it, on the screen or in the closure of the request for a further
\* one, which starts where they end.
Further ==
  /\ Chain(rows, pagination.firstCursor, pagination.pages)
  /\ pagination.pending \in BOOLEAN
  /\ more.step \in {"none", "asked", "read"}
  /\ more.step # "none" =>
       /\ Chain(rows, more.firstCursor, more.pages)
       /\ End(more.firstCursor, more.pages) # 0
  /\ more.step = "asked" =>
       /\ more.cursor = End(more.firstCursor, more.pages)
       /\ HasMore(rows, more.cursor)
  /\ more.step = "read" =>
       /\ PageOK(rows, more.page)
       /\ more.page.after = End(more.firstCursor, more.pages)
       /\ more.page.items # {}

\* The inductive invariant.
Inv == Drawn /\ First /\ Further

-----------------------------------------------------------------------------
(* What the pages show.                                                    *)

\* Later rows leave the pages as they are.
LEMMA PagesKept ==
  ASSUME NEW db, NEW later, db \subseteq later
  PROVE  /\ \A c : HasMore(db, c) => HasMore(later, c)
         /\ \A p : PageOK(db, p) => PageOK(later, p)
         /\ \A c, ps : Chain(db, c, ps) => Chain(later, c, ps)
<1>1. \A c : HasMore(db, c) => HasMore(later, c)
  BY DEF HasMore
<1>2. \A p : PageOK(db, p) => PageOK(later, p)
  BY <1>1 DEF PageOK
<1>3. \A c, ps : Chain(db, c, ps) => Chain(later, c, ps)
  BY <1>2 DEF Chain
<1>4. QED
  BY <1>1, <1>2, <1>3

\* The numbers and the rows of a page.
LEMMA PageTyped ==
  ASSUME NEW db, db \subseteq RowType, NEW p, PageOK(db, p)
  PROVE  /\ p \in PageType
         /\ p.next \in Nat /\ p.after \in Nat /\ p.next \in Cursors
         /\ p.items \subseteq p.seen /\ p.seen \subseteq db
         /\ \A r \in p.seen : r.place \in Nat
<1>1. p \in PageType /\ p.items \subseteq p.seen /\ p.seen \subseteq db
  BY DEF PageOK
<1>2. p.next \in Cursors /\ p.after \in Cursors
  BY <1>1 DEF PageType
<1>3. \A r \in db : r.place \in Nat
  BY RowsTyped
<1>4. QED
  BY <1>1, <1>2, <1>3, TimelineAssumption DEF Cursors

LEMMA EmptyChain ==
  ASSUME NEW db, NEW c \in Cursors
  PROVE  Chain(db, c, <<>>) /\ End(c, <<>>) = c
BY DEF Chain, End

LEMMA EndTyped ==
  ASSUME NEW db, db \subseteq RowType, NEW c, NEW ps, Chain(db, c, ps)
  PROVE  End(c, ps) \in Cursors /\ End(c, ps) \in Nat
<1>1. c \in Cursors /\ ps \in Seq(PageType)
  BY DEF Chain
<1>2. CASE ps = <<>>
  BY <1>1, <1>2, TimelineAssumption DEF End, Cursors
<1>3. CASE ps # <<>>
  <2>1. Len(ps) \in DOMAIN ps
    BY <1>1, <1>3, EmptySeq, LenProperties
  <2>2. PageOK(db, ps[Len(ps)])
    BY <2>1 DEF Chain
  <2>3. QED
    BY <1>3, <2>2, PageTyped DEF End
<1>4. QED
  BY <1>2, <1>3

\* A page that starts where the others end goes on with them.
LEMMA AppendChain ==
  ASSUME NEW db, db \subseteq RowType, NEW c, NEW ps, Chain(db, c, ps),
         NEW p, PageOK(db, p), p.after = End(c, ps), p.after # 0, p.items # {}
  PROVE  Chain(db, c, Append(ps, p))
<1> DEFINE qs == Append(ps, p)
           n == Len(ps)
<1>1. c \in Cursors /\ ps \in Seq(PageType) /\ p \in PageType
  BY DEF Chain, PageOK
<1>2. /\ qs \in Seq(PageType) /\ qs # <<>> /\ n \in Nat
      /\ DOMAIN ps = 1 .. n /\ DOMAIN qs = 1 .. n + 1
      /\ \A i \in 1 .. n : qs[i] = ps[i]
      /\ qs[n + 1] = p /\ Len(qs) = n + 1
  BY <1>1, AppendProperties, LenProperties
<1>3. ps # <<>> => n \in DOMAIN ps /\ 1 \in DOMAIN ps
  BY <1>1, <1>2, EmptySeq
<1>4. p.after \in Nat /\ p.next \in Nat /\ c \in Nat /\ \A r \in p.seen : r.place \in Nat
  BY <1>1, PageTyped, TimelineAssumption DEF Cursors
<1>5. \A i \in 1 .. n : /\ PageOK(db, ps[i]) /\ ps[i].items # {} /\ c <= ps[i].after
                       /\ ps[i].next \in Nat /\ ps[i].after \in Nat
                       /\ ps[i].seen \subseteq db /\ ps[i].items \subseteq ps[i].seen
  BY <1>2, PageTyped DEF Chain
<1>6. ps # <<>> => End(c, ps) = ps[n].next /\ ps[n].next > ps[n].after
  <2>1. ps # <<>> => End(c, ps) = ps[n].next
    BY DEF End
  <2>2. ps # <<>> => PageOK(db, ps[n])
    BY <1>2, <1>3, <1>5
  <2>3. QED
    BY <2>1, <2>2 DEF PageOK
<1> HIDE DEF qs, n
<1>7. c # 0 /\ c <= p.after
  <2>1. CASE ps = <<>>
    BY <1>4, <2>1 DEF End
  <2>2. CASE ps # <<>>
    BY <1>2, <1>3, <1>4, <1>5, <1>6, <2>2 DEF Chain
  <2>3. QED
    BY <2>1, <2>2
<1>8. \A i \in DOMAIN qs : PageOK(db, qs[i]) /\ qs[i].items # {} /\ c <= qs[i].after
  BY <1>2, <1>5, <1>7
<1>9. ASSUME NEW i \in DOMAIN qs, NEW j \in DOMAIN qs, i < j
      PROVE  qs[i].next # 0 /\ qs[i].next <= qs[j].after
  <2>1. CASE j \in 1 .. n
    <3>1. i \in DOMAIN ps /\ j \in DOMAIN ps /\ qs[i] = ps[i] /\ qs[j] = ps[j]
      BY <1>2, <1>9, <2>1
    <3>2. QED
      BY <1>9, <3>1 DEF Chain
  <2>2. CASE j = n + 1 /\ i = n
    <3>1. ps # <<>> /\ qs[i] = ps[n] /\ qs[j] = p
      BY <1>1, <1>2, <1>9, <2>2, EmptySeq
    <3>2. QED
      BY <1>4, <1>6, <3>1
  <2>3. CASE j = n + 1 /\ i < n
    <3>1. i \in DOMAIN ps /\ n \in DOMAIN ps /\ qs[i] = ps[i] /\ qs[j] = p
      BY <1>2, <1>9, <2>3
    <3>2. ps # <<>>
      BY <1>1, <1>2, <1>9, <2>3, EmptySeq
    <3>3. ps[i].next # 0 /\ ps[i].next <= ps[n].after
      BY <2>3, <3>1 DEF Chain
    <3>4. QED
      BY <1>2, <1>4, <1>5, <1>6, <3>1, <3>2, <3>3
  <2>4. QED
    BY <1>2, <1>9, <2>1, <2>2, <2>3
<1>10. ASSUME NEW r \in qs[1].seen, r.place > c, \A i \in DOMAIN qs : r \in qs[i].seen,
              p.next # 0 => r.place <= p.next
       PROVE  \E i \in DOMAIN qs : r \in qs[i].items
  <2>1. r \in p.seen /\ r.place \in Nat
    BY <1>2, <1>4, <1>10
  <2>2. CASE r.place > p.after
    <3>1. r \in p.items
      BY <1>10, <2>1, <2>2 DEF PageOK
    <3>2. QED
      BY <1>2, <3>1
  <2>3. CASE r.place <= p.after
    <3>1. ps # <<>>
      BY <1>4, <1>10, <2>1, <2>3 DEF End
    <3>2. 1 \in DOMAIN ps /\ r \in ps[1].seen
      BY <1>2, <1>3, <1>10, <3>1
    <3>3. \A i \in DOMAIN ps : r \in ps[i].seen
      BY <1>2, <1>10
    <3>4. \E i \in DOMAIN ps : r \in ps[i].items
      BY <1>10, <2>3, <3>1, <3>2, <3>3 DEF Chain
    <3>5. QED
      BY <1>2, <3>4
  <2>4. QED
    BY <1>4, <2>1, <2>2, <2>3
<1>11. End(c, qs) = p.next
  BY <1>2 DEF End
<1>12. QED
  BY <1>1, <1>2, <1>7, <1>8, <1>9, <1>10, <1>11 DEF Chain, qs

\* What the screen shows: the first page and those that follow it.
LEMMA Shown ==
  ASSUME Inv
  PROVE  /\ Chain(rows, first.next, ExtraPages)
         /\ NextCursor = End(first.next, ExtraPages)
         /\ NextCursor # 0 => HasMore(rows, NextCursor)
         /\ DOMAIN Pages = 1 .. Len(ExtraPages) + 1 /\ Len(ExtraPages) \in Nat
         /\ DOMAIN ExtraPages = 1 .. Len(ExtraPages)
         /\ Pages[1] = first
         /\ \A i \in DOMAIN ExtraPages : Pages[i + 1] = ExtraPages[i]
<1> DEFINE ps == ExtraPages
           c == first.next
<1>1. PageOK(rows, first) /\ rows \subseteq RowType
  BY DEF Inv, First, FirstPage, Drawn
<1>2. c \in Cursors /\ first \in PageType
  BY <1>1, PageTyped
<1>3. Chain(rows, c, ps)
  BY <1>2, EmptyChain DEF Inv, Further, ExtraPages, Matches
<1>4. ps \in Seq(PageType)
  BY <1>3 DEF Chain
<1>5. Pages = <<first>> \o ps
  BY DEF Pages
<1> HIDE DEF ps
<1>6. <<first>> \in Seq(PageType) /\ Len(<<first>>) = 1 /\ <<first>>[1] = first
  BY <1>2
<1>7. /\ Pages \in Seq(PageType) /\ Len(Pages) = Len(ps) + 1 /\ Len(ps) \in Nat
      /\ DOMAIN Pages = 1 .. Len(ps) + 1 /\ DOMAIN ps = 1 .. Len(ps)
      /\ \A i \in 1 .. Len(ps) + 1 : Pages[i] = IF i <= 1 THEN first ELSE ps[i - 1]
  BY <1>4, <1>5, <1>6, ConcatProperties, LenProperties
<1>8. Pages[1] = first /\ \A i \in DOMAIN ps : Pages[i + 1] = ps[i]
  BY <1>7
<1>9. NextCursor = End(c, ps) /\ (NextCursor # 0 => HasMore(rows, NextCursor))
  <2>1. NextCursor = Pages[Len(Pages)].next
    BY DEF NextCursor
  <2>2. CASE ps = <<>>
    <3>1. NextCursor = first.next
      BY <1>7, <1>8, <2>1, <2>2
    <3>2. QED
      BY <1>1, <2>2, <3>1 DEF End, PageOK
  <2>3. CASE ps # <<>>
    <3>1. Len(ps) \in DOMAIN ps
      BY <1>4, <1>7, <2>3, EmptySeq
    <3>2. NextCursor = ps[Len(ps)].next
      BY <1>7, <1>8, <2>1, <3>1
    <3>3. PageOK(rows, ps[Len(ps)])
      BY <1>3, <3>1 DEF Chain
    <3>4. QED
      BY <2>3, <3>2, <3>3 DEF End, PageOK
  <2>4. QED
    BY <2>2, <2>3
<1>10. QED
  BY <1>3, <1>7, <1>8, <1>9 DEF ps

-----------------------------------------------------------------------------
(* The steps.                                                              *)

LEMMA InitInv == Init => Inv
<1> SUFFICES ASSUME Init PROVE Inv
  OBVIOUS
<1>1. 0 \in Cursors
  BY TimelineAssumption DEF Cursors
<1>2. Drawn
  BY <1>1 DEF Init, Drawn, Distinct
<1>3. Database
  BY DEF Init, Database, Distinct
<1>4. First
  BY <1>1, <1>3, PageIs DEF Init, First, FirstPage, Nothing
<1>5. Further
  BY <1>1, EmptyChain DEF Init, Further, Nothing
<1>6. QED
  BY <1>2, <1>4, <1>5 DEF Inv

LEMMA DatabaseOf == ASSUME Drawn PROVE Database
BY DEF Drawn, Database, Distinct

\* A row that is drawn or committed leaves what the screen holds.
LEMMA ScreenKept ==
  ASSUME First, Further, rows \subseteq rows',
         UNCHANGED <<first, refetch, pagination, more>>
  PROVE  First' /\ Further'
<1>1. First'
  BY PagesKept DEF First, FirstPage
<1>2. Further'
  BY PagesKept DEF Further
<1>3. QED
  BY <1>1, <1>2

LEMMA DrawKeeps ==
  ASSUME Inv, NEW k \in Kinds, Draw(k)
  PROVE  Inv'
<1> DEFINE r == [place |-> clock + 1, kind |-> k]
<1>1. /\ clock \in Nat /\ clock + 1 \in Places /\ clock + 1 \in Cursors
      /\ clock' = clock + 1 /\ open' = open \cup {r} /\ rows' = rows
  BY TimelineAssumption DEF Inv, Drawn, Draw, Places, Cursors
<1>2. r \in RowType /\ r.place = clock + 1
  BY <1>1 DEF RowType
<1> HIDE DEF r
<1>3. open \subseteq RowType /\ rows \subseteq RowType /\ Distinct(open \cup rows)
  BY DEF Inv, Drawn
<1>4. \A q \in open \cup rows : q.place <= clock /\ q.place \in Nat
  BY <1>3, RowsTyped DEF Inv, Drawn
<1>5. \A q \in open' \cup rows' : q = r \/ q \in open \cup rows
  BY <1>1
<1>6. Distinct(open' \cup rows')
  BY <1>1, <1>2, <1>3, <1>4, <1>5 DEF Distinct
<1>7. \A q \in open' \cup rows' : q.place <= clock'
  BY <1>1, <1>2, <1>4, <1>5
<1>8. Drawn'
  BY <1>1, <1>2, <1>3, <1>6, <1>7 DEF Drawn, Cursors
<1>9. QED
  BY <1>8, ScreenKept DEF Inv, Draw

LEMMA CommitKeeps ==
  ASSUME Inv, NEW w \in SUBSET open, Commit(w)
  PROVE  Inv'
<1>1. open' \cup rows' = open \cup rows /\ rows \subseteq rows' /\ clock' = clock
  BY DEF Commit
<1>2. open' \subseteq RowType /\ rows' \subseteq RowType
  BY DEF Inv, Drawn, Commit
<1>3. Drawn'
  BY <1>1, <1>2 DEF Inv, Drawn, Cursors
<1>4. QED
  BY <1>1, <1>3, ScreenKept DEF Inv, Commit

LEMMA FirstKeeps ==
  ASSUME Inv, Refetch \/ ReadFirst \/ FirstArrives
  PROVE  Inv'
<1>1. UNCHANGED <<database, pagination, more>>
  BY DEF Refetch, ReadFirst, FirstArrives, database
<1>2. Drawn' /\ Further'
  BY <1>1 DEF Inv, Drawn, Further, database, Cursors
<1>3. 0 \in Cursors
  BY TimelineAssumption DEF Cursors
<1>4. FirstPage(PageAfter(0))
  BY <1>3, PageIs, DatabaseOf DEF Inv, FirstPage
<1>5. rows' = rows
  BY <1>1 DEF database
<1>6. CASE Refetch
  <2>1. First'
    BY <1>5, <1>6 DEF Inv, First, FirstPage, Refetch
  <2>2. QED
    BY <1>2, <2>1 DEF Inv
<1>7. CASE ReadFirst
  <2>1. /\ refetch' = [step |-> "read", page |-> PageAfter(0)] /\ first' = first
        /\ First
    BY <1>7 DEF ReadFirst, Inv
  <2>2. First'
    BY <1>4, <1>5, <2>1 DEF First, FirstPage
  <2>3. QED
    BY <1>2, <2>2 DEF Inv
<1>8. CASE FirstArrives
  <2>1. First'
    BY <1>5, <1>8 DEF FirstArrives, Inv, First, FirstPage, Nothing
  <2>2. QED
    BY <1>2, <2>1 DEF Inv
<1>9. QED
  BY <1>6, <1>7, <1>8

LEMMA FurtherKeeps ==
  ASSUME Inv, LoadMore \/ ReadMore \/ MoreArrives \/ Reopen
  PROVE  Inv'
<1>1. UNCHANGED <<database, first, refetch>>
  BY DEF LoadMore, ReadMore, MoreArrives, Reopen, database
<1>2. Drawn' /\ First' /\ rows' = rows
  BY <1>1 DEF Inv, Drawn, First, FirstPage, database, Cursors
<1>3. Further
  BY DEF Inv
<1>4. rows \subseteq RowType /\ Database
  BY DatabaseOf DEF Inv, Drawn
<1>5. CASE LoadMore
  <2>1. /\ pagination' = [firstCursor |-> first.next, pages |-> ExtraPages, pending |-> TRUE]
        /\ more' = [step |-> "asked", cursor |-> NextCursor,
                    firstCursor |-> first.next, pages |-> ExtraPages]
        /\ NextCursor # 0
    BY <1>5 DEF LoadMore
  <2>2. /\ Chain(rows, first.next, ExtraPages)
        /\ NextCursor = End(first.next, ExtraPages) /\ HasMore(rows, NextCursor)
    BY <2>1, Shown
  <2>3. Further'
    BY <1>2, <2>1, <2>2 DEF Further
  <2>4. QED
    BY <1>2, <2>3 DEF Inv
<1>6. CASE ReadMore
  <2>1. /\ more.step = "asked" /\ pagination' = pagination
        /\ more' = [step |-> "read", page |-> PageAfter(more.cursor),
                    firstCursor |-> more.firstCursor, pages |-> more.pages]
    BY <1>6 DEF ReadMore
  <2>2. /\ Chain(rows, more.firstCursor, more.pages)
        /\ End(more.firstCursor, more.pages) # 0
        /\ more.cursor = End(more.firstCursor, more.pages)
        /\ HasMore(rows, more.cursor)
    BY <1>3, <2>1 DEF Further
  <2>3. more.cursor \in Cursors
    BY <1>4, <2>2, EndTyped
  <2>4. /\ PageOK(rows, PageAfter(more.cursor)) /\ PageAfter(more.cursor).after = more.cursor
        /\ PageAfter(more.cursor).items # {}
    BY <1>4, <2>2, <2>3, PageIs
  <2>5. Further'
    BY <1>2, <1>3, <2>1, <2>2, <2>4 DEF Further
  <2>6. QED
    BY <1>2, <2>5 DEF Inv
<1>7. CASE MoreArrives
  <2>1. CASE /\ more.step = "read"
             /\ pagination' = [firstCursor |-> more.firstCursor, pending |-> FALSE,
                               pages |-> Append(more.pages, more.page)]
    <3>1. /\ Chain(rows, more.firstCursor, more.pages)
          /\ End(more.firstCursor, more.pages) # 0
          /\ PageOK(rows, more.page)
          /\ more.page.after = End(more.firstCursor, more.pages)
          /\ more.page.items # {}
      BY <1>3, <2>1 DEF Further
    <3>2. Chain(rows, more.firstCursor, Append(more.pages, more.page))
      BY <1>4, <3>1, AppendChain
    <3>3. more'.step = "none"
      BY <1>7 DEF MoreArrives, Nothing
    <3>4. Further'
      BY <1>2, <2>1, <3>2, <3>3 DEF Further
    <3>5. QED
      BY <1>2, <3>4 DEF Inv
  <2>2. CASE /\ more.step # "none"
             /\ pagination' = [firstCursor |-> more.firstCursor, pending |-> FALSE,
                               pages |-> more.pages]
    <3>1. Chain(rows, more.firstCursor, more.pages)
      BY <1>3, <2>2 DEF Further
    <3>2. more'.step = "none"
      BY <1>7 DEF MoreArrives, Nothing
    <3>3. Further'
      BY <1>2, <2>2, <3>1, <3>2 DEF Further
    <3>4. QED
      BY <1>2, <3>3 DEF Inv
  <2>3. QED
    BY <1>7, <2>1, <2>2 DEF MoreArrives
<1>8. CASE Reopen
  <2>1. pagination' = [firstCursor |-> first.next, pages |-> <<>>, pending |-> FALSE]
    BY <1>8 DEF Reopen, FreshPagination
  <2>2. first.next \in Cursors
    BY <1>4, PageTyped DEF Inv, First, FirstPage
  <2>3. Further'
    BY <1>8, <2>1, <2>2, EmptyChain DEF Reopen, Further, Nothing
  <2>4. QED
    BY <1>2, <2>3 DEF Inv
<1>9. QED
  BY <1>5, <1>6, <1>7, <1>8

LEMMA NextInv == Inv /\ [Next]_vars => Inv'
<1> SUFFICES ASSUME Inv, [Next]_vars PROVE Inv'
  OBVIOUS
<1>1. CASE UNCHANGED vars
  BY <1>1, ScreenKept DEF vars, Inv, Drawn, Cursors
<1>2. QED
  BY <1>1, DrawKeeps, CommitKeeps, FirstKeeps, FurtherKeeps DEF Next

\* The rows are drawn once, the pages follow one another and hold what they have
\* read, and a request for more starts where the shown pages end.
THEOREM Invariant == Spec => []Inv
BY InitInv, NextInv, PTL DEF Spec

\* What a request carries: pages that were read, and cursors of pages.
Requested ==
  /\ refetch \in FirstRequests
  /\ pagination \in [firstCursor : Cursors, pages : Seq(PageType), pending : BOOLEAN]
  /\ more \in MoreRequests

LEMMA InitRequested == Init => Requested
BY TimelineAssumption DEF Init, Requested, FirstRequests, MoreRequests, Nothing, Cursors

\* What is read and what is shown has its type.
LEMMA ReadTyped ==
  ASSUME Inv
  PROVE  /\ \A a \in Cursors : PageAfter(a) \in PageType
         /\ 0 \in Cursors /\ first.next \in Cursors /\ NextCursor \in Cursors
         /\ ExtraPages \in Seq(PageType)
<1>1. rows \subseteq RowType /\ PageOK(rows, first) /\ Database
  BY DatabaseOf DEF Inv, Drawn, First, FirstPage
<1>2. ASSUME NEW a \in Cursors PROVE PageAfter(a) \in PageType
  BY <1>1, PageIs DEF PageOK
<1>3. Chain(rows, first.next, ExtraPages) /\ NextCursor = End(first.next, ExtraPages)
  BY Shown
<1>4. ExtraPages \in Seq(PageType) /\ NextCursor \in Cursors
  BY <1>1, <1>3, EndTyped DEF Chain
<1>5. first.next \in Cursors
  BY <1>1, PageTyped
<1>6. 0 \in Cursors
  BY TimelineAssumption DEF Cursors
<1>7. QED
  BY <1>2, <1>4, <1>5, <1>6

LEMMA RequestedKept == Inv /\ Requested /\ [Next]_vars => Requested'
<1> SUFFICES ASSUME Inv, Requested, [Next]_vars PROVE Requested'
  OBVIOUS
<1> USE DEF Requested
<1>1. /\ \A a \in Cursors : PageAfter(a) \in PageType
      /\ 0 \in Cursors /\ first.next \in Cursors /\ NextCursor \in Cursors
      /\ ExtraPages \in Seq(PageType)
  BY ReadTyped
<1>2. CASE UNCHANGED <<refetch, pagination, more>>
  BY <1>2
<1>3. CASE Refetch
  BY <1>3 DEF Refetch, FirstRequests
<1>4. CASE ReadFirst
  <2>1. PageAfter(0) \in PageType
    BY <1>1
  <2>2. refetch' = [step |-> "read", page |-> PageAfter(0)] /\ UNCHANGED <<pagination, more>>
    BY <1>4 DEF ReadFirst
  <2>3. refetch' \in FirstRequests
    BY <2>1, <2>2 DEF FirstRequests
  <2>4. QED
    BY <2>2, <2>3
<1>5. CASE FirstArrives
  BY <1>5 DEF FirstArrives, FirstRequests
<1>6. CASE LoadMore
  <2>1. /\ pagination' = [firstCursor |-> first.next, pages |-> ExtraPages, pending |-> TRUE]
        /\ more' = [step |-> "asked", cursor |-> NextCursor,
                    firstCursor |-> first.next, pages |-> ExtraPages]
        /\ UNCHANGED refetch
    BY <1>6 DEF LoadMore
  <2>2. more' \in MoreRequests
    BY <1>1, <2>1 DEF MoreRequests
  <2>3. QED
    BY <1>1, <2>1, <2>2
<1>7. CASE ReadMore
  <2>1. /\ more.step = "asked"
        /\ more' = [step |-> "read", page |-> PageAfter(more.cursor),
                    firstCursor |-> more.firstCursor, pages |-> more.pages]
        /\ UNCHANGED <<refetch, pagination>>
    BY <1>7 DEF ReadMore
  <2>2. more.cursor \in Cursors /\ more.firstCursor \in Cursors /\ more.pages \in Seq(PageType)
    BY <2>1 DEF MoreRequests, Nothing
  <2>3. PageAfter(more.cursor) \in PageType
    BY <1>1, <2>2
  <2>4. more' \in MoreRequests
    BY <2>1, <2>2, <2>3 DEF MoreRequests
  <2>5. QED
    BY <2>1, <2>4
<1>8. CASE MoreArrives
  <2>1. more' = Nothing /\ UNCHANGED refetch
    BY <1>8 DEF MoreArrives
  <2>2. more.step # "none" => more.firstCursor \in Cursors /\ more.pages \in Seq(PageType)
    BY DEF MoreRequests, Nothing
  <2>3. more.step = "read" => more.page \in PageType
    BY DEF MoreRequests, Nothing
  <2>4. \E ps \in Seq(PageType), c \in Cursors :
          pagination' = [firstCursor |-> c, pages |-> ps, pending |-> FALSE]
    <3>1. CASE more.step = "read"
      <4>1. Append(more.pages, more.page) \in Seq(PageType)
        BY <2>2, <2>3, <3>1, AppendProperties
      <4>2. QED
        BY <1>8, <2>2, <3>1, <4>1 DEF MoreArrives
    <3>2. CASE more.step # "read"
      BY <1>8, <2>2, <3>2 DEF MoreArrives
    <3>3. QED
      BY <3>1, <3>2
  <2>5. QED
    BY <2>1, <2>4 DEF MoreRequests
<1>9. CASE Reopen
  <2>1. /\ pagination' = [firstCursor |-> first.next, pages |-> <<>>, pending |-> FALSE]
        /\ more' = Nothing /\ UNCHANGED refetch
    BY <1>9 DEF Reopen, FreshPagination
  <2>2. <<>> \in Seq(PageType)
    OBVIOUS
  <2>3. QED
    BY <1>1, <2>1, <2>2 DEF MoreRequests
<1>10. QED
  BY <1>2, <1>3, <1>4, <1>5, <1>6, <1>7, <1>8, <1>9
  DEF Next, Draw, Commit, vars

\* Every variable keeps its type, the requests under way and what they have read
\* included.
THEOREM TypeInvariant == Spec => []TypeOK
<1>1. Spec => []Requested
  BY InitInv, InitRequested, NextInv, RequestedKept, PTL DEF Spec
<1>2. Inv /\ Requested => TypeOK
  BY DEF Inv, Drawn, First, FirstPage, PageOK, Requested, TypeOK
<1>3. QED
  BY <1>1, <1>2, Invariant, PTL

\* The timeline on the screen has no gap, for every size of a page, however many
\* rows are drawn and committed in whatever order, and whatever is refetched.
THEOREM TimelineHasNoGap == Spec => []NoGap
<1>1. Inv => NoGap
  <2> SUFFICES ASSUME Inv, NEW r \in rows, \A i \in DOMAIN Pages : r \in Pages[i].seen,
                      NextCursor # 0 => r.place <= NextCursor
               PROVE  r \in Items
    BY DEF NoGap
  <2>1. /\ PageOK(rows, first) /\ first.after = 0 /\ rows \subseteq RowType
        /\ r.place \in Nat /\ r.place >= 1
    BY RowsTyped DEF Inv, First, FirstPage, Drawn
  <2>2. first.next \in Nat
    BY <2>1, PageTyped
  <2>3. 1 \in DOMAIN Pages /\ r \in first.seen
    BY Shown
  <2>4. CASE first.next = 0 \/ r.place <= first.next
    <3>1. r \in first.items
      BY <2>1, <2>2, <2>3, <2>4 DEF PageOK
    <3>2. QED
      BY <2>3, <3>1, Shown DEF Items
  <2>5. CASE first.next # 0 /\ r.place > first.next
    <3>1. ExtraPages # <<>>
      BY <2>1, <2>2, <2>5, Shown DEF End
    <3>2. \A i \in DOMAIN ExtraPages : r \in ExtraPages[i].seen /\ i + 1 \in DOMAIN Pages
      BY Shown
    <3>3. 1 \in DOMAIN ExtraPages
      BY <3>1, Shown, EmptySeq DEF Chain
    <3>4. PICK i \in DOMAIN ExtraPages : r \in ExtraPages[i].items
      BY <2>5, <3>1, <3>2, <3>3, Shown DEF Chain
    <3>5. QED
      BY <3>2, <3>4, Shown DEF Items
  <2>6. QED
    BY <2>1, <2>2, <2>4, <2>5
<1>2. QED
  BY <1>1, Invariant, PTL

\* Asking for more always shows more: the pages after the first hold rows, and no
\* row twice.
THEOREM MoreShowsMore == Spec => []PagesAdvance
<1>1. Inv => PagesAdvance
  <2> SUFFICES ASSUME Inv, NEW i \in DOMAIN Pages \ {1}
               PROVE  /\ Pages[i].items # {}
                      /\ \A j \in 1 .. i - 1 : Pages[i].items \cap Pages[j].items = {}
    BY DEF PagesAdvance
  <2> DEFINE ps == ExtraPages
  <2>1. /\ Chain(rows, first.next, ps) /\ rows \subseteq RowType /\ PageOK(rows, first)
        /\ DOMAIN Pages = 1 .. Len(ps) + 1 /\ Len(ps) \in Nat /\ DOMAIN ps = 1 .. Len(ps)
        /\ Pages[1] = first
        /\ \A k \in DOMAIN ps : Pages[k + 1] = ps[k]
    BY Shown DEF Inv, Drawn, First, FirstPage
  <2> HIDE DEF ps
  <2>2. i - 1 \in DOMAIN ps /\ Pages[i] = ps[i - 1] /\ i \in Nat
    BY <2>1
  <2>3. PageOK(rows, Pages[i]) /\ Pages[i].items # {} /\ first.next <= Pages[i].after /\ first.next # 0
    BY <2>1, <2>2 DEF Chain
  <2>4. Pages[i].after \in Nat /\ first.next \in Nat
    BY <2>1, <2>3, PageTyped
  <2>5. ASSUME NEW j \in 1 .. i - 1, NEW r \in Pages[i].items, r \in Pages[j].items
        PROVE  FALSE
    <3>1. r.place > Pages[i].after /\ r.place \in Nat
      BY <2>1, <2>3, PageTyped DEF PageOK
    <3>2. CASE j = 1
      <4>1. r.place <= first.next
        BY <2>1, <2>3, <2>5, <3>2 DEF PageOK
      <4>2. QED
        BY <2>3, <2>4, <3>1, <4>1
    <3>3. CASE j # 1
      <4>1. j - 1 \in DOMAIN ps /\ Pages[j] = ps[j - 1] /\ j - 1 < i - 1
        BY <2>1, <2>2, <3>3
      <4>2. PageOK(rows, Pages[j]) /\ Pages[j].next # 0 /\ Pages[j].next <= Pages[i].after
        BY <2>1, <2>2, <4>1 DEF Chain
      <4>3. r.place <= Pages[j].next /\ Pages[j].next \in Nat
        BY <2>1, <2>5, <4>2, PageTyped DEF PageOK
      <4>4. QED
        BY <2>4, <3>1, <4>2, <4>3
    <3>4. QED
      BY <3>2, <3>3
  <2>6. QED
    BY <2>3, <2>5
<1>2. QED
  BY <1>1, Invariant, PTL
=============================================================================
