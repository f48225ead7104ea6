--------------------------- MODULE PaginationProofs ---------------------------
(***************************************************************************)
(* For tables, windows and limits of any size: a walk returns its rows in  *)
(* key order, none twice, and loses less than one row a page.              *)
(***************************************************************************)
EXTENDS Pagination, FiniteSetTheorems, TLAPS

(* Rows returned so far lie before the cursor, a key of the table; the      *)
(* first page has neither.                                                  *)
Behind ==
  /\ pc = "paging" /\ cursor = NoCursor => pages = <<>>
  /\ cursor # NoCursor => \E c \in rows :
       cursor = formatCursor(c) /\ \A a \in Returned : Less(a, c)

(* Rows that the walk began with, has not returned and will not return: one *)
(* a page at most.                                                          *)
Passed == begin \ (Returned \cup Matching)

Ahead ==
  pc = "paging" =>
    /\ \A k \in begin : InWindow(k, from, to)
    /\ Cardinality(Passed) <= Len(pages)

WalkInv == TypeOK /\ Behind /\ PagesAscend /\ Ahead /\ OneRowPerBoundary

-----------------------------------------------------------------------------
(* Keys are tuples of numbers, and a cursor is parsed to the key it was     *)
(* formatted from.                                                          *)
LEMMA ParseFormat ==
  ASSUME NEW e \in Endpoints, NEW k \in Keys[e]
  PROVE  /\ formatCursor(k) \in Cursor(e)
         /\ formatCursor(k) # NoCursor
         /\ parseCursor(formatCursor(k)) = k
<1> DEFINE rest == [i \in 1 .. Len(k) - 1 |-> k[i + 1]]
<1>1. k \in Seq(Nat) /\ Len(k) = Arity(e) /\ Arity(e) \in {2, 3}
  BY KeysAssumption DEF Arity
<1>2. rest \in [1 .. Arity(e) - 1 -> Nat]
  BY <1>1
<1>3. Len(rest) = Arity(e) - 1 /\ rest \in Seq(Nat)
  BY <1>1, <1>2
<1>4. formatCursor(k) = [time |-> k[1], rest |-> rest]
  BY DEF formatCursor
<1>5. formatCursor(k) \in Cursor(e)
  BY <1>1, <1>2, <1>4 DEF Cursor
<1>6. formatCursor(k) # NoCursor
  <2>1. rest # <<>>
    BY <1>1, <1>3
  <2> QED BY <2>1, <1>4 DEF NoCursor
<1>7. parseCursor(formatCursor(k)) = k
  <2>1. parseCursor(formatCursor(k)) =
          [i \in 1 .. Arity(e) |-> IF i = 1 THEN k[1] ELSE rest[i - 1]]
    BY <1>1, <1>3, <1>4 DEF parseCursor
  <2>2. \A i \in 1 .. Arity(e) : (IF i = 1 THEN k[1] ELSE rest[i - 1]) = k[i]
    BY <1>1
  <2>3. k = [i \in 1 .. Arity(e) |-> k[i]]
    BY <1>1
  <2> QED BY <2>1, <2>2, <2>3
<1> QED BY <1>5, <1>6, <1>7

(* Row comparison is transitive. *)
LEMMA LessTransitive ==
  ASSUME NEW e \in Endpoints, NEW a \in Keys[e], NEW b \in Keys[e], NEW c \in Keys[e],
         Less(a, b), Less(b, c)
  PROVE  Less(a, c)
<1>1. /\ a \in Seq(Nat) /\ b \in Seq(Nat) /\ c \in Seq(Nat)
      /\ Len(a) = Arity(e) /\ Len(b) = Arity(e) /\ Len(c) = Arity(e) /\ Arity(e) \in {2, 3}
  BY KeysAssumption DEF Arity
<1>2. PICK i \in 1 .. Len(a) : a[i] < b[i] /\ \A j \in 1 .. i - 1 : a[j] = b[j]
  BY DEF Less
<1>3. PICK n \in 1 .. Len(b) : b[n] < c[n] /\ \A j \in 1 .. n - 1 : b[j] = c[j]
  BY DEF Less
<1>4. ASSUME NEW j \in 1 .. Arity(e) PROVE a[j] \in Nat /\ b[j] \in Nat /\ c[j] \in Nat
  <2>1. j \in DOMAIN a /\ j \in DOMAIN b /\ j \in DOMAIN c
    BY <1>1, <1>4
  <2> QED BY <1>1, <2>1
<1>5. \E m \in 1 .. Arity(e) : a[m] < c[m] /\ \A j \in 1 .. m - 1 : a[j] = c[j]
  <2>1. i \in 1 .. Arity(e) /\ n \in 1 .. Arity(e)
    BY <1>1
  <2>2. CASE i <= n
    <3>1. a[i] < c[i]
      <4>1. b[i] <= c[i]
        BY <2>1, <2>2, <1>3, <1>4
      <4> QED BY <4>1, <2>1, <1>2, <1>4
    <3>2. \A j \in 1 .. i - 1 : a[j] = c[j]
      BY <2>1, <2>2, <1>2, <1>3
    <3> QED BY <2>1, <3>1, <3>2
  <2>3. CASE n < i
    <3>1. a[n] < c[n]
      BY <2>1, <2>3, <1>2, <1>3
    <3>2. \A j \in 1 .. n - 1 : a[j] = c[j]
      BY <2>1, <2>3, <1>2, <1>3
    <3> QED BY <2>1, <3>1, <3>2
  <2> QED BY <2>1, <2>2, <2>3
<1> QED BY <1>1, <1>5 DEF Less

(* LIMIT n + 1 brings at most one row more than the page of n. *)
LEMMA OneRowMore ==
  ASSUME NEW s, IsFiniteSet(s), NEW n \in Nat, NEW f, NEW p,
         First(f, s, n + 1), First(p, f, n), NEW k \in f \ p
  PROVE  f \ p = {k}
<1>1. f \in SUBSET s /\ p \in SUBSET f
  BY DEF First
<1>2. IsFiniteSet(f) /\ Cardinality(f) \in Nat /\ Cardinality(s) \in Nat
  BY <1>1, FS_Subset, FS_CardinalityType
<1>3. IsFiniteSet(p) /\ Cardinality(p) \in Nat /\ Cardinality(p) # Cardinality(f)
  BY <1>1, <1>2, FS_Subset, FS_CardinalityType
<1>4. Cardinality(f) <= n + 1 /\ Cardinality(p) = n
  BY <1>2, <1>3 DEF First
<1>5. f \cap p = p
  BY <1>1
<1>6. IsFiniteSet(f \ p) /\ Cardinality(f \ p) = Cardinality(f) - Cardinality(p)
  BY <1>2, <1>5, FS_Difference
<1>7. Cardinality(p) <= Cardinality(f)
  BY <1>1, <1>2, FS_Subset
<1>8. Cardinality(f \ p) = 1
  BY <1>2, <1>3, <1>4, <1>6, <1>7
<1>9. PICK x : f \ p = {x}
  BY <1>6, <1>8, FS_Singleton
<1> QED BY <1>9

LEMMA LimitPositive ==
  ASSUME NEW n \in Limits
  PROVE  validateQueryLimit(n) \in Nat \ {0}
BY LimitAssumption DEF validateQueryLimit

-----------------------------------------------------------------------------
(* What a walk began with is finite, and so is every part of it. *)
LEMMA PartsFinite ==
  ASSUME TypeOK, NEW S, S \subseteq begin
  PROVE  IsFiniteSet(S) /\ Cardinality(S) \in Nat
<1>1. S \subseteq Keys[endpoint] /\ IsFiniteSet(Keys[endpoint])
  BY KeysAssumption DEF TypeOK
<1> QED BY <1>1, FS_Subset, FS_CardinalityType

(* A smaller set counts less. *)
LEMMA PartsCount ==
  ASSUME TypeOK, NEW T, T \subseteq begin, NEW S, S \subseteq T
  PROVE  Cardinality(S) <= Cardinality(T)
BY PartsFinite, FS_Subset

LEMMA InitWalk == Init => WalkInv
BY DEF Init, WalkInv, TypeOK, Behind, PagesAscend, Ahead, OneRowPerBoundary, Returned,
       NoCursor

LEMMA InsertWalk ==
  ASSUME WalkInv, NEW k \in Keys[endpoint], Insert(k)
  PROVE  WalkInv'
<1> USE DEF WalkInv
<1>1. TypeOK' /\ Behind' /\ PagesAscend' /\ OneRowPerBoundary'
  BY DEF TypeOK, Behind, PagesAscend, OneRowPerBoundary, Returned, Insert, walk
<1>2. Ahead'
  <2>1. Passed' \subseteq Passed /\ Passed \subseteq begin
    BY DEF Passed, Matching, AfterCursor, Returned, Insert, walk
  <2>2. Cardinality(Passed') <= Cardinality(Passed)
    BY <2>1, PartsCount
  <2>3. /\ Cardinality(Passed) \in Nat /\ Cardinality(Passed') \in Nat
        /\ Len(pages) \in Nat
    BY <2>1, PartsFinite DEF TypeOK
  <2>4. pc' = pc /\ pages' = pages /\ begin' = begin /\ from' = from /\ to' = to
    BY DEF Insert, walk
  <2> QED BY <2>2, <2>3, <2>4 DEF Ahead, InWindow
<1> QED BY <1>1, <1>2

LEMMA StartWalkWalk ==
  ASSUME WalkInv, NEW f \in Times, NEW t \in Times, StartWalk(f, t)
  PROVE  WalkInv'
<1>1. TypeOK'
  BY TimesAssumption DEF WalkInv, TypeOK, StartWalk
<1>2. Behind' /\ PagesAscend' /\ OneRowPerBoundary'
  BY DEF Behind, PagesAscend, OneRowPerBoundary, StartWalk
<1>3. Ahead'
  <2>1. Passed' = {}
    BY DEF StartWalk, Passed, Matching, AfterCursor
  <2>2. Cardinality(Passed') = 0
    BY <2>1, FS_EmptySet
  <2> QED BY <2>2 DEF Ahead, StartWalk, InWindow
<1> QED BY <1>1, <1>2, <1>3 DEF WalkInv

LEMMA AnswerWalk ==
  ASSUME WalkInv, pc = "paging", NEW limit \in Nat \ {0}, Answer(limit),
         UNCHANGED <<endpoint, rows, from, to, begin>>
  PROVE  WalkInv'
<1> USE DEF WalkInv
<1>1. PICK fetched \in SUBSET Matching :
        /\ First(fetched, Matching, limit + 1)
        /\ \E page \in SUBSET fetched :
             /\ First(page, fetched, limit)
             /\ pages' = Append(pages, page)
             /\ IF page = fetched
                THEN pc' = "done" /\ cursor' = NoCursor
                ELSE \E last \in fetched \ page :
                       cursor' = formatCursor(last) /\ UNCHANGED pc
  BY DEF Answer
<1>2. PICK page \in SUBSET fetched :
             /\ First(page, fetched, limit)
             /\ pages' = Append(pages, page)
             /\ IF page = fetched
                THEN pc' = "done" /\ cursor' = NoCursor
                ELSE \E last \in fetched \ page :
                       cursor' = formatCursor(last) /\ UNCHANGED pc
  BY <1>1
<1>3. /\ Matching \subseteq Keys[endpoint] /\ Matching \subseteq rows
      /\ endpoint \in Endpoints /\ rows \subseteq Keys[endpoint]
  BY DEF TypeOK, Matching
<1>4. IsFiniteSet(Matching)
  BY <1>3, KeysAssumption, FS_Subset
<1>5. pages \in Seq(SUBSET Keys[endpoint]) /\ page \in SUBSET Keys[endpoint]
  BY <1>3 DEF TypeOK
<1>6. /\ DOMAIN pages = 1 .. Len(pages) /\ Len(pages) \in Nat
      /\ DOMAIN pages' = 1 .. Len(pages) + 1
      /\ \A i \in DOMAIN pages : pages'[i] = pages[i] /\ pages[i] \subseteq Keys[endpoint]
      /\ pages'[Len(pages) + 1] = page
      /\ pages' \in Seq(SUBSET Keys[endpoint])
  BY <1>2, <1>5
<1>7. Returned' = Returned \cup page /\ Returned \subseteq Keys[endpoint]
  BY <1>6 DEF Returned
<1>a. /\ Passed \subseteq begin
      /\ Cardinality(Passed) \in Nat /\ Cardinality(Passed) <= Len(pages)
      /\ Len(pages') = Len(pages) + 1 /\ Len(pages') \in Nat
      /\ \A k \in begin : InWindow(k, from, to)
  BY <1>6, PartsFinite DEF Passed, Ahead
<1>8. PagesAscend'
  <2>1. ASSUME NEW i \in DOMAIN pages, NEW a \in pages[i], NEW b \in page
        PROVE  Less(a, b)
    <3>1. PICK c \in rows : cursor = formatCursor(c) /\ Less(a, c)
      <4>1. a \in Returned /\ cursor # NoCursor
        BY <1>6, <2>1 DEF Behind, Returned
      <4> QED BY <4>1 DEF Behind
    <3>2. c \in Keys[endpoint] /\ a \in Keys[endpoint] /\ b \in Keys[endpoint]
      BY <1>3, <1>5, <1>6, <2>1 DEF TypeOK
    <3>3. formatCursor(c) # NoCursor /\ parseCursor(formatCursor(c)) = c
      BY <3>2, <1>3, ParseFormat
    <3>4. Less(c, b)
      BY <3>1, <3>3, <1>2, <1>1, <2>1 DEF Matching, AfterCursor
    <3> QED BY <3>1, <3>2, <3>4, <1>3, LessTransitive
  <2> QED BY <2>1, <1>6 DEF PagesAscend
<1>9. CASE page = fetched
  <2>1. pc' = "done" /\ cursor' = NoCursor
    BY <1>2, <1>9
  <2>2. TypeOK' /\ Behind' /\ Ahead'
    BY <2>1, <1>6 DEF TypeOK, Behind, Ahead
  <2>3. page = Matching
    <3>1. /\ IsFiniteSet(fetched) /\ Cardinality(fetched) \in Nat
          /\ Cardinality(Matching) \in Nat
      BY <1>4, <1>1, FS_Subset, FS_CardinalityType
    <3>2. Cardinality(fetched) = Cardinality(Matching)
      BY <3>1, <1>1, <1>2, <1>9 DEF First
    <3> QED BY <3>2, <1>1, <1>4, <1>9, FS_Subset
  <2>4. OneRowPerBoundary'
    <3>1. begin \ Returned' \subseteq Passed
      BY <2>3, <1>7 DEF Passed
    <3>2. /\ Cardinality(begin \ Returned') <= Cardinality(Passed)
          /\ Cardinality(begin \ Returned') \in Nat
      BY <3>1, <1>a, PartsCount, PartsFinite
    <3> QED BY <3>2, <1>a DEF OneRowPerBoundary
  <2> QED BY <2>2, <2>4, <1>8
<1>10. CASE page # fetched
  <2>1. PICK last \in fetched \ page :
          cursor' = formatCursor(last) /\ pc' = pc
    BY <1>2, <1>10
  <2>2. last \in Matching /\ last \in Keys[endpoint] /\ last \in rows
    BY <2>1, <1>3
  <2>3. /\ formatCursor(last) \in Cursor(endpoint)
        /\ formatCursor(last) # NoCursor
        /\ parseCursor(formatCursor(last)) = last
    BY <2>2, <1>3, ParseFormat
  <2>4. TypeOK'
    BY <2>1, <2>2, <2>3, <1>6 DEF TypeOK
  <2>5. ASSUME NEW a \in Returned' PROVE Less(a, last)
    <3>1. CASE a \in page
      BY <3>1, <1>2, <2>1 DEF First
    <3>2. CASE a \in Returned
      <4>1. pages # <<>>
        BY <3>2 DEF Returned
      <4>2. PICK c \in rows : cursor = formatCursor(c) /\ Less(a, c)
        BY <4>1, <3>2 DEF Behind
      <4>3. c \in Keys[endpoint] /\ a \in Keys[endpoint]
        BY <1>3, <1>7, <3>2, <4>2 DEF TypeOK
      <4>4. formatCursor(c) # NoCursor /\ parseCursor(formatCursor(c)) = c
        BY <4>3, <1>3, ParseFormat
      <4>5. Less(c, last)
        BY <4>2, <4>4, <2>2 DEF Matching, AfterCursor
      <4> QED BY <4>2, <4>3, <4>5, <2>2, <1>3, LessTransitive
    <3> QED BY <3>1, <3>2, <2>5, <1>7
  <2>6. Behind'
    BY <2>1, <2>2, <2>3, <2>5 DEF Behind
  <2>7. Ahead'
    <3>1. ASSUME NEW k \in Passed' PROVE k \in Passed \cup {last}
      <4>1. k \in begin /\ InWindow(k, from, to) /\ k \notin Returned' /\ k \notin Matching'
        BY <1>a DEF Passed
      <4>2. CASE k \in fetched
        <5>1. fetched \ page = {last}
          BY <1>1, <1>2, <1>4, <2>1, OneRowMore
        <5> QED BY <4>1, <4>2, <5>1, <1>7
      <4>3. CASE k \in Matching \ fetched
        <5>1. Less(last, k)
          BY <4>3, <1>1, <2>1 DEF First
        <5>2. k \in Matching'
          BY <4>1, <4>3, <5>1, <2>1, <2>3 DEF Matching, AfterCursor, InWindow
        <5> QED BY <4>1, <5>2
      <4>4. CASE k \notin Matching
        BY <4>1, <4>4, <1>7 DEF Passed
      <4> QED BY <4>2, <4>3, <4>4
    <3>2. IsFiniteSet(Passed) /\ IsFiniteSet(Passed \cup {last})
      BY <1>a, PartsFinite, FS_AddElement
    <3>3. Cardinality(Passed \cup {last}) <= Cardinality(Passed) + 1
      <4>1. Cardinality(Passed \cup {last}) =
              IF last \in Passed THEN Cardinality(Passed) ELSE Cardinality(Passed) + 1
        BY <3>2, FS_AddElement
      <4> QED BY <4>1, <1>a
    <3>4. /\ Cardinality(Passed') <= Cardinality(Passed \cup {last})
          /\ Cardinality(Passed') \in Nat /\ Cardinality(Passed \cup {last}) \in Nat
      BY <3>1, <3>2, FS_Subset, FS_CardinalityType
    <3> QED BY <3>3, <3>4, <1>a DEF Ahead, InWindow
  <2>8. OneRowPerBoundary'
    BY <2>1 DEF OneRowPerBoundary
  <2> QED BY <2>4, <2>6, <2>7, <2>8, <1>8
<1> QED BY <1>9, <1>10

LEMMA WalkStep == WalkInv /\ [Next]_vars => WalkInv'
<1> SUFFICES ASSUME WalkInv, [Next]_vars PROVE WalkInv'
  OBVIOUS
<1>1. ASSUME NEW k \in Keys[endpoint], Insert(k) PROVE WalkInv'
  BY <1>1, InsertWalk
<1>2. ASSUME NEW f \in Times, NEW t \in Times, StartWalk(f, t) PROVE WalkInv'
  BY <1>2, StartWalkWalk
<1>3. ASSUME NEW e \in Endpoints, NEW n \in Limits, handleQuery(e, n) PROVE WalkInv'
  BY <1>3, AnswerWalk, LimitPositive DEF handleQuery
<1>4. CASE UNCHANGED vars
  BY <1>4 DEF vars, walk, WalkInv, TypeOK, Behind, PagesAscend, Ahead, OneRowPerBoundary,
              Passed, Returned, Matching, AfterCursor, InWindow
<1> QED BY <1>1, <1>2, <1>3, <1>4
        DEF Next, QueryTrades, QueryKlines, QuerySnapshots, Endpoints

LEMMA WalkInvariant == Spec => []WalkInv
BY InitWalk, WalkStep, PTL DEF Spec

-----------------------------------------------------------------------------
(* Every variable of the walk keeps its type: a cursor always has as many   *)
(* parts as its endpoint's key.                                             *)
THEOREM TypeCorrect == Spec => []TypeOK
<1>1. WalkInv => TypeOK
  BY DEF WalkInv
<1> QED BY <1>1, WalkInvariant, PTL

(* The pages that QueryTrades, QueryKlines and QuerySnapshots return ascend *)
(* in key order and share no row, for any table, any limits and any rows    *)
(* that are inserted between two requests.                                  *)
THEOREM NoRowTwice == Spec => []PagesAscend
<1>1. WalkInv => PagesAscend
  BY DEF WalkInv
<1> QED BY <1>1, WalkInvariant, PTL

(* The one row that QueryTrades, QueryKlines and QuerySnapshots cut off     *)
(* from a page is all that is lost there: a finished walk has missed fewer  *)
(* rows than it has pages, for any ties in time and concurrent inserts.     *)
THEOREM LossIsBounded == Spec => []OneRowPerBoundary
<1>1. WalkInv => OneRowPerBoundary
  BY DEF WalkInv
<1> QED BY <1>1, WalkInvariant, PTL
===============================================================================
