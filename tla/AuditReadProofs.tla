-------------------------- MODULE AuditReadProofs ---------------------------
(***************************************************************************)
(* Theorems about AuditRead, for every set of tenants, rows, columns and   *)
(* limits: paging is exact while rows are committed, a detail is whole     *)
(* though it is read by two statements, and statistics add up.             *)
(***************************************************************************)
EXTENDS AuditRead, FiniteSetTheorems, FunctionTheorems, SequenceTheorems, TLAPS

-----------------------------------------------------------------------------
(* Sorting: ORDER BY yields every selected row once *)

\* Among sets of subsets of a finite set there is a smallest one: induction on
\* finite sets, stated with a set in the place of a predicate.
LEMMA MinimalSet ==
    ASSUME NEW S, IsFiniteSet(S), NEW B, B \subseteq SUBSET S, B # {}
    PROVE  \E U \in B : \A V \in B : V \subseteq U => V = U
<1>1. FiniteSubsetsOf(S) = SUBSET S
  BY FS_FiniteSubsetsOfFinite
<1>2. IsWellFoundedOn(StrictSubsetOrdering(S), SUBSET S)
  BY <1>1, FS_StrictSubsetOrderingWellFounded
<1>3. PICK U \in B : \A V \in B : ~(<<V, U>> \in StrictSubsetOrdering(S))
  BY <1>2, WFMin
<1>4. \A V \in B : V \subseteq U => V = U
  BY <1>3 DEF StrictSubsetOrdering
<1>. QED  BY <1>4

\* What tells rows apart and orders them.
Ranked(S) == /\ \A r \in S : r.ts \in Nat /\ r.id \in Nat
             /\ \A r, s \in S : r.id = s.id => r = s

\* Of two rows one is below the other.
LEMMA BelowTotal ==
    ASSUME NEW S, Ranked(S), NEW r \in S, NEW s \in S, r # s
    PROVE  Below(r, s) \/ Below(s, r)
BY DEF Ranked, Below

\* Positions are ordered transitively.
LEMMA BelowTransitive ==
    ASSUME NEW a, NEW b, NEW c, Below(a, b), Below(b, c),
           a.ts \in Nat, a.id \in Nat, b.ts \in Nat, b.id \in Nat, c.ts \in Nat, c.id \in Nat
    PROVE  Below(a, c)
BY DEF Below

\* r is the lowest row of U.
Lowest(r, U) == r \in U /\ \A s \in U : s # r => Below(r, s)

\* A finite set of rows that is not empty has a lowest one.
LEMMA HasLowest ==
    ASSUME NEW S, IsFiniteSet(S), Ranked(S), S # {}
    PROVE  \E r \in S : Lowest(r, S)
<1>. DEFINE B == {U \in SUBSET S : U # {} /\ \A r \in U : ~Lowest(r, U)}
<1>. SUFFICES ASSUME S \in B PROVE FALSE
  OBVIOUS
<1>1. PICK U \in B : \A V \in B : V \subseteq U => V = U
  <2>1. B \subseteq SUBSET S /\ B # {}
    OBVIOUS
  <2>. HIDE DEF B
  <2>. QED  BY <2>1, MinimalSet
<1>2. PICK x \in U : TRUE
  BY <1>1
<1>3. U \ {x} \notin B
  BY <1>1, <1>2
<1>4. U \ {x} # {}
  <2>1. ~Lowest(x, U)
    BY <1>1, <1>2
  <2>. QED  BY <2>1, <1>2 DEF Lowest
<1>5. PICK m \in U \ {x} : Lowest(m, U \ {x})
  BY <1>3, <1>4
<1>6. Below(x, m) \/ Below(m, x)
  BY <1>2, <1>5, BelowTotal
<1>7. CASE Below(m, x)
  <2>1. Lowest(m, U)
    BY <1>5, <1>7 DEF Lowest
  <2>. QED  BY <2>1, <1>5, <1>1
<1>8. CASE Below(x, m)
  <2>1. \A s \in U : s # x => Below(x, s)
    <3>. SUFFICES ASSUME NEW s \in U, s # x, s # m PROVE Below(x, s)
      BY <1>8
    <3>1. Below(m, s)
      BY <1>5 DEF Lowest
    <3>2. x \in S /\ m \in S /\ s \in S
      BY <1>2, <1>5
    <3>. QED  BY <3>1, <3>2, <1>8, BelowTransitive DEF Ranked
  <2>2. Lowest(x, U)
    BY <2>1, <1>2 DEF Lowest
  <2>. QED  BY <2>2, <1>2, <1>1
<1>. QED  BY <1>6, <1>7, <1>8

\* rows lists S from the newest row to the oldest.
Sorts(rows, S) ==
    /\ rows \in [1..Cardinality(S) -> S]
    /\ \A i, j \in 1..Cardinality(S) : i < j => Below(rows[j], rows[i])

\* A finite set of rows can be listed in order.
LEMMA CanSort ==
    ASSUME NEW S, IsFiniteSet(S), Ranked(S)
    PROVE  \E rows : Sorts(rows, S)
<1>. DEFINE B == {U \in SUBSET S : \A rows : ~Sorts(rows, U)}
<1>. SUFFICES ASSUME S \in B PROVE FALSE
  OBVIOUS
<1>1. PICK U \in B : \A V \in B : V \subseteq U => V = U
  <2>1. B \subseteq SUBSET S /\ B # {}
    OBVIOUS
  <2>. HIDE DEF B
  <2>. QED  BY <2>1, MinimalSet
<1>2. U \subseteq S /\ IsFiniteSet(U) /\ Ranked(U)
  BY <1>1, FS_Subset DEF Ranked
<1>3. U # {}
  <2>1. SUFFICES ASSUME U = {} PROVE FALSE
    OBVIOUS
  <2>2. Cardinality(U) = 0
    BY <2>1, FS_EmptySet
  <2>3. Sorts([i \in 1..0 |-> i], U)
    BY <2>1, <2>2 DEF Sorts
  <2>. QED  BY <2>3, <1>1
<1>4. PICK m \in U : Lowest(m, U)
  BY <1>2, <1>3, HasLowest
<1>5. U \ {m} \notin B
  BY <1>1, <1>4
<1>6. PICK above : Sorts(above, U \ {m})
  BY <1>5, <1>2
<1>. DEFINE n == Cardinality(U)
            rows == [i \in 1..n |-> IF i = n THEN m ELSE above[i]]
<1>7. n \in Nat \ {0} /\ Cardinality(U \ {m}) = n - 1
  BY <1>2, <1>3, <1>4, FS_RemoveElement, FS_CardinalityType, FS_EmptySet
<1>. HIDE DEF n
<1>8. /\ above \in [1..(n - 1) -> U \ {m}]
      /\ \A i, j \in 1..(n - 1) : i < j => Below(above[j], above[i])
  BY <1>6, <1>7 DEF Sorts
<1>9. rows \in [1..n -> U]
  BY <1>7, <1>8, <1>4
<1>10. ASSUME NEW i \in 1..n, NEW j \in 1..n, i < j PROVE Below(rows[j], rows[i])
  <2>1. i \in 1..(n - 1) /\ rows[i] = above[i] /\ above[i] \in U /\ above[i] # m
    BY <1>7, <1>8, <1>10
  <2>2. CASE j = n
    BY <2>1, <2>2, <1>4, <1>7 DEF Lowest
  <2>3. CASE j # n
    <3>1. j \in 1..(n - 1) /\ rows[j] = above[j]
      BY <2>3, <1>7
    <3>. QED  BY <3>1, <2>1, <1>8, <1>10
  <2>. QED  BY <2>2, <2>3
<1>11. Sorts(rows, U)
  BY <1>9, <1>10 DEF Sorts, n
<1>. QED  BY <1>11, <1>1

\* ORDER BY: the rows of the selection in order, every one of them.
LEMMA DescendingSorts ==
    ASSUME NEW S, IsFiniteSet(S), Ranked(S)
    PROVE  /\ Cardinality(S) \in Nat
           /\ Descending(S) \in [1..Cardinality(S) -> S]
           /\ \A i, j \in 1..Cardinality(S) : i < j => Below(Descending(S)[j], Descending(S)[i])
           /\ \A r \in S : \E i \in 1..Cardinality(S) : Descending(S)[i] = r
<1>. DEFINE n == Cardinality(S)
            D == Descending(S)
<1>1. PICK rows : Sorts(rows, S)
  BY CanSort
<1>2. /\ D \in [1..n -> S]
      /\ \A i, j \in 1..n : i < j => Below(D[j], D[i])
  BY <1>1 DEF Sorts, Descending
<1>3. n \in Nat
  BY FS_CardinalityType
<1>. HIDE DEF D
<1>4. ASSUME NEW i \in 1..n, NEW j \in 1..n, D[i] = D[j] PROVE i = j
  <2>1. ~(i < j) /\ ~(j < i)
    <3>1. D[i].ts \in Nat /\ D[i].id \in Nat
      BY <1>2 DEF Ranked
    <3>2. ~Below(D[i], D[i])
      BY <3>1 DEF Below
    <3>. QED  BY <3>2, <1>2, <1>4
  <2>. QED  BY <2>1, <1>3
<1>5. IsFiniteSet(1..n) /\ Cardinality(1..n) = n
  BY <1>3, FS_Interval
<1>6. D \in Injection(1..n, S)
  BY <1>2, <1>4, Fun_IsInj
<1>7. D \in Surjection(1..n, S)
  BY <1>5, <1>6, FS_Injection
<1>8. \A r \in S : \E i \in 1..n : D[i] = r
  BY <1>7 DEF Surjection
<1>. QED  BY <1>2, <1>3, <1>8 DEF D
-----------------------------------------------------------------------------
(* One page *)

\* Min of two numbers.
LEMMA MinOfTwo ==
    ASSUME NEW a \in Nat, NEW b \in Nat
    PROVE  Min({a, b}) = IF a <= b THEN a ELSE b
<1>1. CASE a <= b
  <2>1. \A y \in {a, b} : a <= y
    BY <1>1
  <2>2. Min({a, b}) \in {a, b} /\ \A y \in {a, b} : Min({a, b}) <= y
    BY <2>1 DEF Min
  <2>. QED  BY <2>2, <1>1
<1>2. CASE ~(a <= b)
  <2>1. \A y \in {a, b} : b <= y
    BY <1>2
  <2>2. Min({a, b}) \in {a, b} /\ \A y \in {a, b} : Min({a, b}) <= y
    BY <2>1 DEF Min
  <2>. QED  BY <2>2, <1>2
<1>. QED  BY <1>1, <1>2

\* A page holds at least one row.
LEMMA PageSizeType ==
    ASSUME NEW n \in Limits
    PROVE  PageSize(n) \in Nat \ {0}
<1>. USE ReadAssumption
<1>1. CASE n = 0
  BY <1>1 DEF PageSize
<1>2. CASE n # 0
  <2>1. n \in Nat /\ MaxLimit \in Nat \ {0}
    OBVIOUS
  <2>. QED  BY <1>2, <2>1, MinOfTwo DEF PageSize
<1>. QED  BY <1>1, <1>2

\* The rows fetched for a page of a selection, the ones returned, and the cursor.
Fetched(S, size) == SubSeq(Descending(S), 1, Min({Len(Descending(S)), size + 1}))
Returned(S, size) == SubSeq(Fetched(S, size), 1, Min({Len(Fetched(S, size)), size}))
Following(S, size) == NextCursor(Fetched(S, size), size)

\* The position of a row, as a cursor.
Position(r) == [ts |-> r.ts, id |-> r.id]

\* The first rows of the order, and the cursor of the last of them when there are
\* more.
LEMMA PageIs ==
    ASSUME NEW S, IsFiniteSet(S), Ranked(S), NEW size \in Nat \ {0}
    PROVE  /\ Returned(S, size) \in Seq(S)
           /\ Len(Returned(S, size)) = IF Cardinality(S) > size THEN size ELSE Cardinality(S)
           /\ \A i \in 1..Len(Returned(S, size)) : Returned(S, size)[i] = Descending(S)[i]
           /\ Following(S, size) = IF Cardinality(S) > size
                                   THEN <<Position(Descending(S)[size])>> ELSE << >>
<1>. DEFINE n == Cardinality(S)
            D == Descending(S)
            k == Min({Len(D), size + 1})
            F == Fetched(S, size)
            l == Min({Len(F), size})
            R == Returned(S, size)
<1>1. n \in Nat /\ D \in [1..n -> S]
  BY DescendingSorts
<1>2. D \in Seq(S) /\ Len(D) = n
  BY <1>1
<1>3. k = IF n <= size + 1 THEN n ELSE size + 1
  BY <1>1, <1>2, MinOfTwo
<1>4. F = SubSeq(D, 1, k)
  BY DEF Fetched
<1>. HIDE DEF D, n, k, F
<1>5. k \in Nat /\ k <= n
  BY <1>1, <1>3
<1>6. \A i \in 1..k : D[i] \in S
  BY <1>1, <1>5
<1>7. F \in Seq(S) /\ Len(F) = k /\ \A i \in 1..k : F[i] = D[i]
  BY <1>4, <1>5, <1>6, SubSeqProperties
<1>8. l = IF k <= size THEN k ELSE size
  BY <1>5, <1>7, MinOfTwo
<1>9. R = SubSeq(F, 1, l)
  BY DEF Returned, F
<1>. HIDE DEF l, R
<1>10. l \in Nat /\ l <= k
  BY <1>5, <1>8
<1>11. \A i \in 1..l : F[i] \in S
  BY <1>7, <1>6, <1>10
<1>12. R \in Seq(S) /\ Len(R) = l /\ \A i \in 1..l : R[i] = F[i]
  BY <1>9, <1>10, <1>11, SubSeqProperties
<1>13. l = IF n > size THEN size ELSE n
  BY <1>1, <1>3, <1>8
<1>14. \A i \in 1..l : R[i] = D[i]
  BY <1>12, <1>7, <1>10
<1>15. Following(S, size) = IF n > size THEN <<Position(D[size])>> ELSE << >>
  <2>1. Following(S, size) = IF k > size THEN <<Position(F[size])>> ELSE << >>
    BY <1>7 DEF Following, NextCursor, Position, F
  <2>2. k > size <=> n > size
    BY <1>1, <1>3
  <2>3. k > size => F[size] = D[size]
    BY <1>5, <1>7
  <2>. QED  BY <2>1, <2>2, <2>3
<1>. QED  BY <1>12, <1>13, <1>14, <1>15 DEF R, n, D

\* A page is in order; every row of the selection is on it, or there is a cursor,
\* that of the last row of the page, and the row is below it.
LEMMA OnePage ==
    ASSUME NEW S, IsFiniteSet(S), Ranked(S), NEW size \in Nat \ {0}
    PROVE  /\ Returned(S, size) \in Seq(S)
           /\ \A i, j \in 1..Len(Returned(S, size)) :
                i < j => Below(Returned(S, size)[j], Returned(S, size)[i])
           /\ Following(S, size) # << >> =>
                /\ Returned(S, size) # << >>
                /\ Following(S, size) = <<Position(Last(Returned(S, size)))>>
           /\ \A r \in S : \/ \E i \in 1..Len(Returned(S, size)) : Returned(S, size)[i] = r
                           \/ /\ Following(S, size) # << >>
                              /\ Below(r, Last(Returned(S, size)))
<1>. DEFINE n == Cardinality(S)
            D == Descending(S)
            R == Returned(S, size)
            C == Following(S, size)
<1>1. /\ n \in Nat
      /\ D \in [1..n -> S]
      /\ \A i, j \in 1..n : i < j => Below(D[j], D[i])
      /\ \A r \in S : \E i \in 1..n : D[i] = r
  BY DescendingSorts
<1>2. /\ R \in Seq(S)
      /\ Len(R) = IF n > size THEN size ELSE n
      /\ \A i \in 1..Len(R) : R[i] = D[i]
      /\ C = IF n > size THEN <<Position(D[size])>> ELSE << >>
  BY PageIs
<1>. HIDE DEF n, D, R, C
<1>3. \A i, j \in 1..Len(R) : i < j => Below(R[j], R[i])
  <2>1. 1..Len(R) \subseteq 1..n
    BY <1>1, <1>2
  <2>. QED  BY <2>1, <1>1, <1>2
<1>4. CASE n > size
  <2>1. Len(R) = size /\ Last(R) = D[size] /\ R # << >>
    BY <1>2, <1>4 DEF Last
  <2>2. C = <<Position(Last(R))>> /\ C # << >>
    BY <2>1, <1>2, <1>4
  <2>3. ASSUME NEW r \in S PROVE (\E i \in 1..Len(R) : R[i] = r) \/ Below(r, Last(R))
    <3>1. PICK i \in 1..n : D[i] = r
      BY <1>1
    <3>2. CASE i <= size
      <4>1. i \in 1..Len(R)
        BY <3>2, <2>1
      <4>. QED  BY <4>1, <3>1, <1>2
    <3>3. CASE i > size
      BY <3>3, <3>1, <2>1, <1>1, <1>4
    <3>. QED  BY <3>2, <3>3, <1>1
  <2>. QED  BY <2>1, <2>2, <2>3, <1>2, <1>3 DEF R, C
<1>5. CASE ~(n > size)
  <2>1. Len(R) = n /\ C = << >>
    BY <1>2, <1>5
  <2>2. \A r \in S : \E i \in 1..Len(R) : R[i] = r
    BY <2>1, <1>1, <1>2
  <2>. QED  BY <2>1, <2>2, <1>2, <1>3 DEF R, C
<1>. QED  BY <1>4, <1>5

\* A row has a position.
LEMMA RowTyped ==
    ASSUME NEW r \in Row
    PROVE  r.ts \in Nat /\ r.id \in Nat
<1>1. r.id \in Ids /\ r.ts \in 0..MaxClock
  BY DEF Row
<1>2. Ids \subseteq Nat
  BY ReadAssumption
<1>3. r.id \in Nat
  BY <1>1, <1>2
<1>4. r.ts \in Nat
  BY <1>1
<1>. QED  BY <1>3, <1>4

\* Rows in order.
InOrder(got) == \A i, j \in 1..Len(got) : i < j => Below(got[j], got[i])

\* A page whose rows are all below the last row before it continues the listing.
LEMMA InOrderConcat ==
    ASSUME NEW got \in Seq(Row), NEW part \in Seq(Row), InOrder(got), InOrder(part),
           got # << >> => \A j \in 1..Len(part) : Below(part[j], Last(got))
    PROVE  InOrder(got \o part)
<1>. DEFINE g == Len(got)
            p == Len(part)
            all == got \o part
<1>1. /\ g \in Nat /\ p \in Nat /\ Len(all) = g + p
      /\ \A i \in 1..(g + p) : all[i] = IF i <= g THEN got[i] ELSE part[i - g]
  BY ConcatProperties
<1>. HIDE DEF all
<1>2. ASSUME NEW i \in 1..(g + p), NEW j \in 1..(g + p), i < j PROVE Below(all[j], all[i])
  <2>1. CASE j <= g
    BY <2>1, <1>1, <1>2 DEF InOrder
  <2>2. CASE i > g
    <3>1. i - g \in 1..p /\ j - g \in 1..p /\ i - g < j - g
      BY <2>2, <1>1, <1>2
    <3>2. all[i] = part[i - g] /\ all[j] = part[j - g]
      BY <2>2, <1>1, <1>2
    <3>. QED  BY <3>1, <3>2 DEF InOrder
  <2>3. CASE i <= g /\ j > g
    <3>1. j - g \in 1..p /\ i \in 1..g /\ g \in 1..g
      BY <2>3, <1>1
    <3>2. all[i] = got[i] /\ all[j] = part[j - g]
      BY <2>3, <1>1
    <3>3. Below(part[j - g], got[g])
      BY <3>1 DEF Last
    <3>4. CASE i = g
      BY <3>2, <3>3, <3>4
    <3>5. CASE i # g
      <4>1. Below(got[g], got[i])
        BY <3>1, <3>5, <1>1 DEF InOrder
      <4>2. got[g] \in Row /\ got[i] \in Row /\ part[j - g] \in Row
        BY <3>1
      <4>. QED  BY <4>1, <4>2, RowTyped, <3>2, <3>3, BelowTransitive
    <3>. QED  BY <3>4, <3>5
  <2>. QED  BY <2>1, <2>2, <2>3, <1>1
<1>. QED  BY <1>1, <1>2 DEF InOrder

-----------------------------------------------------------------------------
(* The invariant *)

\* A selection is a finite set of rows with positions.
LEMMA SelectionRanked ==
    ASSUME TableInv, NEW t, NEW f, NEW c
    PROVE  /\ Selected(t, f, c) \subseteq Row
           /\ IsFiniteSet(Selected(t, f, c))
           /\ Ranked(Selected(t, f, c))
<1>1. Selected(t, f, c) \subseteq table
  BY DEF Selected
<1>2. \A r \in table : r.ts \in Nat /\ r.id \in Nat
  BY RowTyped DEF TableInv
<1>3. \A r, s \in table : r.id = s.id => r = s
  BY DEF TableInv
<1>4. IsFiniteSet(table) /\ table \subseteq Row
  BY DEF TableInv
<1>5. Ranked(Selected(t, f, c))
  BY <1>1, <1>2, <1>3 DEF Ranked
<1>. QED  BY <1>1, <1>4, <1>5, FS_Subset

\* A listing of which the first pages are there and the next one is due: its cursor
\* is what parts the rows it has from those it has not.
Pending(r) ==
    /\ r \in Listing
    /\ r.before \subseteq Selected(r.tenant, r.filter, << >>)
    /\ InOrder(r.got)
    /\ \A i \in 1..Len(r.got) : r.got[i] \in Selected(r.tenant, r.filter, << >>)
    /\ IF r.got = << >> THEN r.cursor = << >> ELSE r.cursor = <<Position(Last(r.got))>>
    /\ \A b \in r.before : \/ \E i \in 1..Len(r.got) : r.got[i] = b
                           \/ r.got = << >>
                           \/ Below(b, Last(r.got))

\* A page keeps the listing exact.
LEMMA PageExact ==
    ASSUME TableInv, NEW r, Pending(r)
    PROVE  Page(r, r.cursor) \in Listing /\ ListInv(Page(r, r.cursor))
<1>. DEFINE size == PageSize(r.limit)
            S == Selected(r.tenant, r.filter, r.cursor)
            A == Selected(r.tenant, r.filter, << >>)
            R == Returned(S, size)
            C == Following(S, size)
            q == Page(r, r.cursor)
<1>1. size \in Nat \ {0}
  BY PageSizeType DEF Pending, Listing
<1>2. /\ S \subseteq Row /\ IsFiniteSet(S) /\ Ranked(S)
      /\ A \subseteq Row /\ IsFiniteSet(A) /\ Ranked(A)
  BY SelectionRanked
<1>3. /\ R \in Seq(S)
      /\ \A i, j \in 1..Len(R) : i < j => Below(R[j], R[i])
      /\ C # << >> => R # << >> /\ C = <<Position(Last(R))>>
      /\ \A b \in S : \/ \E i \in 1..Len(R) : R[i] = b
                      \/ C # << >> /\ Below(b, Last(R))
  BY <1>1, <1>2, OnePage
<1>4. S \subseteq A
  BY DEF Selected
<1>5. \A b \in A : r.cursor = << >> \/ Below(b, r.cursor[1]) => b \in S
  BY DEF Selected
<1>6. \A b \in S : r.cursor = << >> \/ Below(b, r.cursor[1])
  BY DEF Selected
<1>7. q = [r EXCEPT !.got = @ \o R, !.cursor = C,
                    !.pc = IF C = << >> THEN "done" ELSE "more"]
  BY DEF Page, Returned, Following, Fetched
<1>. HIDE DEF S, A, R, C, q, size
<1>8. r \in Listing /\ r.got \in Seq(Row) /\ R \in Seq(Row)
  BY <1>2, <1>3 DEF Pending, Listing
<1>9. /\ q.op = "list" /\ q.tenant = r.tenant /\ q.filter = r.filter /\ q.limit = r.limit
      /\ q.before = r.before /\ q.got = r.got \o R /\ q.cursor = C
      /\ q.pc = IF C = << >> THEN "done" ELSE "more"
  BY <1>7, <1>8 DEF Listing
<1>10. C \in Seq([ts : 0..MaxClock, id : Ids])
  <2>1. CASE C = << >>
    BY <2>1
  <2>2. CASE C # << >>
    <3>1. Last(R) \in Row
      BY <2>2, <1>3, <1>8 DEF Last
    <3>2. Position(Last(R)) \in [ts : 0..MaxClock, id : Ids]
      BY <3>1 DEF Position, Row
    <3>3. C = <<Position(Last(R))>>
      BY <2>2, <1>3
    <3>. QED  BY <3>2, <3>3
  <2>. QED  BY <2>1, <2>2
<1>11. r.got \o R \in Seq(Row) /\ Len(r.got \o R) = Len(r.got) + Len(R)
       /\ \A i \in 1..(Len(r.got) + Len(R)) :
            (r.got \o R)[i] = IF i <= Len(r.got) THEN r.got[i] ELSE R[i - Len(r.got)]
  BY <1>8, ConcatProperties
<1>12. q \in Listing
  BY <1>7, <1>8, <1>10, <1>11 DEF Listing
<1>13. InOrder(q.got)
  <2>1. r.got # << >> => \A j \in 1..Len(R) : Below(R[j], Last(r.got))
    <3>. SUFFICES ASSUME r.got # << >>, NEW j \in 1..Len(R) PROVE Below(R[j], Last(r.got))
      OBVIOUS
    <3>1. r.cursor = <<Position(Last(r.got))>>
      BY DEF Pending
    <3>2. R[j] \in S
      BY <1>3
    <3>3. Below(R[j], Position(Last(r.got)))
      BY <3>1, <3>2, <1>6
    <3>. QED  BY <3>3 DEF Below, Position
  <2>2. InOrder(r.got) /\ InOrder(R)
    BY <1>3 DEF Pending, InOrder
  <2>. QED  BY <2>1, <2>2, <1>8, <1>9, InOrderConcat
<1>14. \A i \in 1..Len(q.got) : q.got[i] \in A
  <2>. SUFFICES ASSUME NEW i \in 1..Len(q.got) PROVE q.got[i] \in A
    OBVIOUS
  <2>1. CASE i <= Len(r.got)
    <3>1. i \in 1..Len(r.got) /\ q.got[i] = r.got[i]
      BY <2>1, <1>8, <1>9, <1>11
    <3>. QED  BY <3>1 DEF Pending, A
  <2>2. CASE i > Len(r.got)
    <3>1. i - Len(r.got) \in 1..Len(R) /\ q.got[i] = R[i - Len(r.got)]
      BY <2>2, <1>8, <1>9, <1>11
    <3>. QED  BY <3>1, <1>3, <1>4
  <2>. QED  BY <2>1, <2>2, <1>8
<1>15. C # << >> => q.got # << >> /\ Last(q.got) = Last(R)
  <2>. SUFFICES ASSUME C # << >> PROVE q.got # << >> /\ Last(q.got) = Last(R)
    OBVIOUS
  <2>1. Len(R) \in Nat \ {0} /\ Len(r.got) \in Nat
    BY <1>3, <1>8
  <2>. QED  BY <2>1, <1>9, <1>11 DEF Last
<1>16. ASSUME NEW b \in r.before
       PROVE  (\E i \in 1..Len(q.got) : q.got[i] = b) \/ (C # << >> /\ Below(b, Last(R)))
  <2>1. CASE \E i \in 1..Len(r.got) : r.got[i] = b
    <3>1. PICK i \in 1..Len(r.got) : r.got[i] = b
      BY <2>1
    <3>2. i \in 1..Len(q.got) /\ q.got[i] = b
      BY <3>1, <1>8, <1>9, <1>11
    <3>. QED  BY <3>2
  <2>2. CASE r.got = << >> \/ Below(b, Last(r.got))
    <3>1. b \in A
      BY <1>16 DEF Pending, A
    <3>2. r.cursor = << >> \/ Below(b, r.cursor[1])
      BY <2>2 DEF Pending, Below, Position
    <3>3. b \in S
      BY <3>1, <3>2, <1>5
    <3>4. CASE \E i \in 1..Len(R) : R[i] = b
      <4>1. PICK i \in 1..Len(R) : R[i] = b
        BY <3>4
      <4>2. Len(r.got) + i \in 1..Len(q.got) /\ q.got[Len(r.got) + i] = b
        BY <4>1, <1>8, <1>9, <1>11
      <4>. QED  BY <4>2
    <3>. QED  BY <3>3, <3>4, <1>3
  <2>. QED  BY <2>1, <2>2, <1>16 DEF Pending
<1>17. ListInv(q)
  <2>1. DOMAIN q.got = 1..Len(q.got)
    BY <1>9, <1>11
  <2>2. q.before \subseteq Selected(q.tenant, q.filter, << >>)
    BY <1>9 DEF Pending
  <2>3. \A i, j \in DOMAIN q.got : i < j => Below(q.got[j], q.got[i])
    BY <2>1, <1>13 DEF InOrder
  <2>4. \A i \in DOMAIN q.got : q.got[i] \in Selected(q.tenant, q.filter, << >>)
    BY <2>1, <1>9, <1>14 DEF A
  <2>5. q.pc = "more" => /\ q.got # << >>
                         /\ q.cursor = <<[ts |-> Last(q.got).ts, id |-> Last(q.got).id]>>
    BY <1>3, <1>9, <1>15 DEF Position
  <2>6. \A b \in q.before : b \in Range(q.got) \/ (q.pc = "more" /\ Below(b, Last(q.got)))
    BY <2>1, <1>9, <1>15, <1>16 DEF Range
  <2>. QED  BY <2>2, <2>3, <2>4, <2>5, <2>6 DEF ListInv
<1>. QED  BY <1>12, <1>17 DEF q

\* The table starts empty.
LEMMA InitRead == Init => ReadInv
<1>. SUFFICES ASSUME Init PROVE ReadInv
  OBVIOUS
<1>1. MaxClock \in Nat
  BY ReadAssumption
<1>2. IsFiniteSet({})
  BY FS_EmptySet
<1>3. TableInv
  BY <1>1, <1>2 DEF Init, TableInv
<1>. QED  BY <1>3 DEF Init, ReadInv

\* What a commit does, without the choices it makes.
Commits(q, id, cols, ds) ==
    /\ id \in Ids /\ \A r \in table : r.id # id
    /\ cols \in [Columns -> Values] /\ ds \in Decisions
    /\ running' = running \ {q}
    /\ table' = table \union {[id |-> id, tenant |-> q.tenant, ts |-> q.ts,
                               cols |-> cols, blob |-> ds]}
    /\ decided' = [decided EXCEPT ![id] = ds]
    /\ now' = now /\ req' = req

\* A commit takes an id that no row has.
LEMMA CommitCommits ==
    ASSUME NEW q, Commit(q)
    PROVE  \E id, cols, ds : Commits(q, id, cols, ds)
BY DEF Commit, Commits

\* A commit adds one row with its decisions.
LEMMA CommitTable ==
    ASSUME TableInv, NEW q \in running, NEW id, NEW cols, NEW ds, Commits(q, id, cols, ds)
    PROVE  TableInv'
<1>. DEFINE row == [id |-> id, tenant |-> q.tenant, ts |-> q.ts, cols |-> cols, blob |-> ds]
<1>1. /\ id \in Ids /\ cols \in [Columns -> Values] /\ ds \in Decisions
      /\ \A r \in table : r.id # id
      /\ table' = table \union {row} /\ running' = running \ {q} /\ now' = now
      /\ decided' = [decided EXCEPT ![id] = ds]
  BY DEF Commits
<1>2. q \in [tenant : Tenants, ts : 0..MaxClock] /\ q.ts <= now
  BY DEF TableInv
<1>3. row \in Row /\ row.id = id /\ row.blob = ds /\ row.ts = q.ts
  BY <1>1, <1>2 DEF Row
<1>. HIDE DEF row
<1>4. IsFiniteSet(table') /\ table' \subseteq Row
  BY <1>1, <1>3, FS_AddElement DEF TableInv
<1>5. /\ now' \in 0..MaxClock
      /\ running' \subseteq [tenant : Tenants, ts : 0..MaxClock]
      /\ \A r \in table' \union running' : r.ts <= now'
  BY <1>1, <1>2, <1>3 DEF TableInv
<1>6. \A r, s \in table' : r.id = s.id => r = s
  BY <1>1, <1>3 DEF TableInv
<1>7. /\ decided' \in [Ids -> Decisions \union {<< >>}] /\ decided'[id] = ds
      /\ \A x \in Ids : x # id => decided'[x] = decided[x]
  BY <1>1 DEF TableInv
<1>8. \A r \in table : r.id \in Ids
  BY DEF TableInv, Row
<1>9. \A r \in table' : decided'[r.id] = r.blob
  BY <1>1, <1>3, <1>7, <1>8 DEF TableInv
<1>10. \A x \in Ids : decided'[x] # << >> => \E r \in table' : r.id = x
  BY <1>1, <1>3, <1>7 DEF TableInv
<1>. QED  BY <1>4, <1>5, <1>6, <1>7, <1>9, <1>10 DEF TableInv

\* Every step keeps the table in order.
LEMMA TableStep ==
    ASSUME TableInv, [Next]_vars
    PROVE  TableInv'
<1>. USE ReadAssumption
<1>1. CASE Tick
  <2>1. /\ now' \in 0..MaxClock /\ now' >= now
        /\ UNCHANGED <<running, table, decided>>
    BY <1>1 DEF Tick, TableInv
  <2>2. \A r \in table \union running : r.ts \in 0..MaxClock /\ r.ts <= now
    BY DEF TableInv, Row
  <2>3. \A r \in table \union running : r.ts <= now'
    BY <2>1, <2>2 DEF TableInv
  <2>. QED  BY <2>1, <2>3 DEF TableInv
<1>2. CASE Start
  <2>1. PICK t \in Tenants : /\ running' = running \union {[tenant |-> t, ts |-> now]}
                             /\ UNCHANGED <<now, table, decided>>
    BY <1>2 DEF Start
  <2>2. [tenant |-> t, ts |-> now] \in [tenant : Tenants, ts : 0..MaxClock]
        /\ [tenant |-> t, ts |-> now].ts <= now
    BY DEF TableInv
  <2>3. /\ running' \subseteq [tenant : Tenants, ts : 0..MaxClock]
        /\ \A r \in table' \union running' : r.ts <= now'
    BY <2>1, <2>2 DEF TableInv
  <2>. QED  BY <2>1, <2>3 DEF TableInv
<1>3. ASSUME NEW q \in running, Commit(q) PROVE TableInv'
  BY <1>3, CommitCommits, CommitTable
<1>4. ASSUME NEW q \in running, Unaudited(q) PROVE TableInv'
  BY <1>4 DEF Unaudited, TableInv
<1>5. CASE UNCHANGED <<now, running, table, decided>>
  BY <1>5 DEF TableInv
<1>. QED
  BY <1>1, <1>2, <1>3, <1>4, <1>5
  DEF Next, vars, auditList, auditListNext, auditGetRow, auditGetDecisions, auditStats,
      auditVerifyCount, auditVerifyLoad, Finish

\* What a listing or a detail has said stays true while rows are added.
LEMMA RowsStay ==
    ASSUME table \subseteq table', UNCHANGED req
    PROVE  /\ ListInv(req) => ListInv(req)'
           /\ DetailInv(req) => DetailInv(req)'
           /\ StatsInv(req) => StatsInv(req)'
<1>1. Selected(req.tenant, req.filter, << >>) \subseteq Selected(req.tenant, req.filter, << >>)'
  BY DEF Selected
<1>. DEFINE A == Selected(req.tenant, req.filter, << >>)
            B == Selected(req.tenant, req.filter, << >>)'
<1>2. ListInv(req) => ListInv(req)'
  <2>1. A \subseteq B
    BY <1>1
  <2>2. SUFFICES ASSUME ListInv(req) PROVE ListInv(req)'
    OBVIOUS
  <2>3. req.before \subseteq A /\ \A i \in DOMAIN req.got : req.got[i] \in A
    BY <2>2 DEF ListInv
  <2>. HIDE DEF A, B
  <2>4. req.before \subseteq B /\ \A i \in DOMAIN req.got : req.got[i] \in B
    BY <2>1, <2>3
  <2>. QED  BY <2>2, <2>4 DEF ListInv, B
<1>3. DetailInv(req) => DetailInv(req)'
  BY DEF DetailInv
<1>4. StatsInv(req) => StatsInv(req)'
  BY DEF StatsInv, Within, Count
<1>. QED  BY <1>2, <1>3, <1>4

\* The request, whatever it is.
Asked(r) ==
    \/ r = Idle \/ r \in Verification
    \/ r \in Listing /\ ListInv(r)
    \/ r \in Detail /\ DetailInv(r)
    \/ r.op = "stats" /\ StatsInv(r)

\* A first page of a listing.
LEMMA FirstPage ==
    ASSUME ReadInv, auditList
    PROVE  Asked(req)'
<1>1. PICK t \in Tenants, f \in Filters, n \in Limits :
        req' = Page([op |-> "list", pc |-> "more", tenant |-> t, filter |-> f,
                     limit |-> n, got |-> << >>, cursor |-> << >>,
                     before |-> Selected(t, f, << >>)], << >>)
  BY DEF auditList
<1>. DEFINE A == Selected(t, f, << >>)
            r == [op |-> "list", pc |-> "more", tenant |-> t, filter |-> f, limit |-> n,
                  got |-> << >>, cursor |-> << >>, before |-> A]
<1>2. A \subseteq Row
  BY SelectionRanked DEF ReadInv
<1>. HIDE DEF A
<1>3. r \in Listing
  BY <1>2 DEF Listing
<1>4. InOrder(r.got) /\ \A i \in 1..Len(r.got) : r.got[i] \in A
  BY DEF InOrder
<1>5. Pending(r)
  BY <1>3, <1>4 DEF Pending, A
<1>6. req' = Page(r, r.cursor)
  BY <1>1 DEF A
<1>. HIDE DEF r
<1>7. req' \in Listing /\ ListInv(req')
  BY <1>5, <1>6, PageExact DEF ReadInv
<1>8. UNCHANGED table
  BY DEF auditList
<1>9. ListInv(req)'
  BY <1>7, <1>8 DEF ListInv, Selected
<1>. QED  BY <1>7, <1>9 DEF Asked

\* A further page.
LEMMA FurtherPage ==
    ASSUME ReadInv, auditListNext
    PROVE  Asked(req)'
<1>1. req.op = "list" /\ req.pc = "more" /\ req' = Page(req, req.cursor) /\ UNCHANGED table
  BY DEF auditListNext
<1>2. req \in Listing /\ ListInv(req)
  BY <1>1 DEF ReadInv, Idle, Verification, Detail
<1>3. DOMAIN req.got = 1..Len(req.got)
  BY <1>2 DEF Listing
<1>4. Pending(req)
  <2>1. \A b \in req.before : (\E i \in 1..Len(req.got) : req.got[i] = b) \/ Below(b, Last(req.got))
    BY <1>2, <1>3 DEF ListInv, Range
  <2>2. req.got # << >> /\ req.cursor = <<Position(Last(req.got))>>
    BY <1>1, <1>2 DEF ListInv, Position
  <2>. QED  BY <1>2, <1>3, <2>1, <2>2 DEF ListInv, Pending, InOrder
<1>5. req' \in Listing /\ ListInv(req')
  BY <1>1, <1>4, PageExact DEF ReadInv
<1>6. ListInv(req)'
  BY <1>1, <1>5 DEF ListInv, Selected
<1>. QED  BY <1>5, <1>6 DEF Asked

\* The two statements of a detail.
LEMMA DetailSteps ==
    ASSUME ReadInv, auditGetRow \/ auditGetDecisions
    PROVE  Asked(req)'
<1>1. CASE auditGetRow
  <2>1. PICK r \in table :
          req' = [op |-> "get", pc |-> "row", row |-> r, decisions |-> << >>] /\ UNCHANGED table
    BY <1>1 DEF auditGetRow
  <2>2. r \in Row
    BY DEF ReadInv, TableInv
  <2>. QED  BY <2>1, <2>2 DEF Asked, Detail, DetailInv
<1>2. CASE auditGetDecisions
  <2>1. /\ req.op = "get" /\ req.pc = "row" /\ UNCHANGED table
        /\ req' = [req EXCEPT !.pc = "done",
                              !.decisions = IF decided[req.row.id] # << >>
                                            THEN decided[req.row.id] ELSE req.row.blob]
    BY <1>2 DEF auditGetDecisions
  <2>2. req \in Detail /\ DetailInv(req)
    BY <2>1 DEF ReadInv, Idle, Verification, Listing
  <2>3. decided[req.row.id] = req.row.blob /\ req.row.blob \in Decisions
    BY <2>2 DEF ReadInv, TableInv, DetailInv, Detail, Row
  <2>4. req' = [req EXCEPT !.pc = "done", !.decisions = req.row.blob]
    BY <2>1, <2>3
  <2>5. req' \in Detail /\ req'.row = req.row /\ req'.decisions = req.row.blob
    BY <2>2, <2>3, <2>4 DEF Detail
  <2>. QED  BY <2>1, <2>2, <2>5 DEF Asked, DetailInv
<1>. QED  BY <1>1, <1>2

\* The two statements of a verification.
LEMMA VerifySteps ==
    ASSUME ReadInv, auditVerifyCount \/ auditVerifyLoad
    PROVE  Asked(req)'
<1>1. \A t : Cardinality(Chain(t)) \in Nat
  <2>. SUFFICES ASSUME NEW t PROVE Cardinality(Chain(t)) \in Nat
    OBVIOUS
  <2>1. Chain(t) \in SUBSET table /\ IsFiniteSet(table)
    BY DEF Chain, ReadInv, TableInv
  <2>2. IsFiniteSet(Chain(t))
    BY <2>1, FS_Subset
  <2>. QED  BY <2>2, FS_CardinalityType
<1>2. CASE auditVerifyCount
  <2>1. PICK t \in Tenants :
          req' = [op |-> "verify", tenant |-> t, count |-> Cardinality(Chain(t)), checked |-> 0,
                  refused |-> Cardinality(Chain(t)) > MaxVerify,
                  pc |-> IF Cardinality(Chain(t)) > MaxVerify THEN "done" ELSE "counted"]
    BY <1>2 DEF auditVerifyCount
  <2>2. Cardinality(Chain(t)) \in Nat
    BY <1>1
  <2>3. (Cardinality(Chain(t)) > MaxVerify) \in BOOLEAN
    OBVIOUS
  <2>4. req' \in Verification
    BY <2>1, <2>2, <2>3 DEF Verification
  <2>. QED  BY <2>4 DEF Asked
<1>3. CASE auditVerifyLoad
  <2>1. /\ req.op = "verify"
        /\ req' = [req EXCEPT !.pc = "done", !.checked = Cardinality(Chain(req.tenant))]
    BY <1>3 DEF auditVerifyLoad
  <2>2. req \in Verification
    BY <2>1 DEF ReadInv, Idle, Listing, Detail
  <2>3. Cardinality(Chain(req.tenant)) \in Nat
    BY <1>1
  <2>4. req' \in Verification
    BY <2>1, <2>2, <2>3 DEF Verification
  <2>. QED  BY <2>4 DEF Asked
<1>. QED  BY <1>2, <1>3

\* One statement, over the table as it is.
LEMMA StatsStep ==
    ASSUME ReadInv, auditStats
    PROVE  Asked(req)'
<1>1. PICK t \in Tenants, from \in 0..MaxClock, to \in (1..MaxClock) \union {now} :
        req' = [op |-> "stats", pc |-> "done", tenant |-> t, from |-> from, to |-> to,
                total |-> Cardinality(Window(t, from, to)),
                by |-> [c \in Columns |-> Count(Window(t, from, to), c)],
                before |-> table]
  BY DEF auditStats
<1>2. UNCHANGED table
  BY DEF auditStats
<1>3. Within(req') = Window(t, from, to)
  BY <1>1 DEF Within, Window
<1>4. from \in 0..MaxClock /\ to \in 0..MaxClock
  BY DEF ReadInv, TableInv
<1>. DEFINE W == Window(t, from, to)
            by == [c \in Columns |-> Count(W, c)]
<1>5. /\ req'.op = "stats" /\ req'.before = table /\ req'.from = from /\ req'.to = to
      /\ req'.total = Cardinality(W) /\ req'.by = by
  BY <1>1
<1>6. by = [c \in Columns |-> Count(Within(req'), c)]
  BY <1>3
<1>7. StatsInv(req')
  BY <1>3, <1>4, <1>5, <1>6 DEF StatsInv
<1>8. StatsInv(req)'
  BY <1>2, <1>7 DEF StatsInv
<1>. QED  BY <1>5, <1>8 DEF Asked

\* Every step keeps the request exact.
LEMMA AskedStep ==
    ASSUME ReadInv, [Next]_vars
    PROVE  Asked(req)'
<1>1. CASE table \subseteq table' /\ UNCHANGED req
  BY <1>1, RowsStay DEF ReadInv, Asked
<1>2. Tick \/ Start \/ UNCHANGED vars => table \subseteq table' /\ UNCHANGED req
  BY DEF Tick, Start, vars
<1>3. \A q \in running : Commit(q) \/ Unaudited(q) => table \subseteq table' /\ UNCHANGED req
  BY CommitCommits DEF Commits, Unaudited
<1>4. CASE auditStats
  BY <1>4, StatsStep
<1>5. CASE Finish
  BY <1>5 DEF Finish, Asked
<1>. QED
  BY <1>1, <1>2, <1>3, <1>4, <1>5, FirstPage, FurtherPage, DetailSteps, VerifySteps DEF Next

\* The invariant holds: the audit table only grows, by whole entries, and every
\* request under way has what it should have of it.
THEOREM ReadInvariant == Spec => []ReadInv
<1>1. ReadInv /\ [Next]_vars => ReadInv'
  <2>. SUFFICES ASSUME ReadInv, [Next]_vars PROVE ReadInv'
    OBVIOUS
  <2>1. TableInv'
    BY TableStep DEF ReadInv
  <2>2. Asked(req)'
    BY AskedStep
  <2>. QED  BY <2>1, <2>2 DEF ReadInv, Asked
<1>. QED  BY InitRead, <1>1, PTL DEF Spec

\* Paging is exact whatever is committed between two pages, for every selection,
\* page size and number of pages.
THEOREM PagesAreExactHolds == Spec => []PagesAreExact
<1>1. ReadInv => PagesAreExact
  <2>. SUFFICES ASSUME ReadInv PROVE PagesAreExact
    OBVIOUS
  <2>1. TypeOK
    <3>1. \A r \in table \union running : r.tenant \in Tenants /\ r.ts \in 0..MaxClock
      BY DEF ReadInv, TableInv, Row
    <3>2. \A r \in table \union running : r.tenant \in Tenants /\ r.ts \in 0..now
      BY <3>1 DEF ReadInv, TableInv
    <3>3. req.op \in {"idle", "list", "get", "stats", "verify"}
      BY DEF ReadInv, Idle, Verification, Listing, Detail
    <3>. QED  BY <3>2, <3>3 DEF TypeOK, ReadInv, TableInv
  <2>2. ASSUME req.op = "list" PROVE ListInv(req)
    BY <2>2 DEF ReadInv, Idle, Verification, Detail
  <2>3. \A c : Selected(req.tenant, req.filter, c) \subseteq {r \in table : r.tenant = req.tenant}
    BY DEF Selected
  <2>. QED  BY <2>1, <2>2, <2>3 DEF PagesAreExact, ListInv
<1>. QED  BY ReadInvariant, <1>1, PTL

\* A detail is whole: row and decisions were committed together, and rows stay.
THEOREM DetailIsWholeHolds == Spec => []DetailIsWhole
<1>1. ReadInv => DetailIsWhole
  <2>. SUFFICES ASSUME ReadInv, req.op = "get", req.pc = "done"
                PROVE  /\ req.decisions = decided[req.row.id] /\ req.row \in table
                       /\ req.decisions = req.row.blob
    BY DEF DetailIsWhole, Done
  <2>1. DetailInv(req)
    BY DEF ReadInv, Idle, Verification, Listing
  <2>. QED  BY <2>1 DEF ReadInv, TableInv, DetailInv
<1>. QED  BY ReadInvariant, <1>1, PTL

-----------------------------------------------------------------------------
(* Statistics *)

\* The members of W whose value under h is in s.
Having(W, h, s) == {r \in W : h[r] \in s}

\* Taking a value away takes its members away.
LEMMA HavingWithout ==
    ASSUME NEW W, IsFiniteSet(W), NEW h, NEW s, NEW x \in s
    PROVE  /\ Cardinality(Having(W, h, s)) \in Nat
           /\ Cardinality(Having(W, h, s))
                = Cardinality(Having(W, h, {x})) + Cardinality(Having(W, h, s \ {x}))
<1>1. /\ IsFiniteSet(Having(W, h, s))
      /\ IsFiniteSet(Having(W, h, {x}))
      /\ IsFiniteSet(Having(W, h, s \ {x}))
  BY FS_Subset DEF Having
<1>2. Having(W, h, s) = Having(W, h, {x}) \union Having(W, h, s \ {x})
  BY DEF Having
<1>3. Having(W, h, {x}) \intersect Having(W, h, s \ {x}) = {}
  BY DEF Having
<1>. DEFINE a == Having(W, h, {x})
            b == Having(W, h, s \ {x})
<1>4. Cardinality(a \intersect b) = 0
  BY <1>3, FS_EmptySet
<1>5. Cardinality(a \union b) = Cardinality(a) + Cardinality(b) - Cardinality(a \intersect b)
  BY <1>1, FS_Union
<1>6. Cardinality(a) \in Nat /\ Cardinality(b) \in Nat /\ Cardinality(Having(W, h, s)) \in Nat
  BY <1>1, FS_CardinalityType
<1>. QED  BY <1>2, <1>4, <1>5, <1>6

\* The sum of the counts of the values in V.
Total(count, V) == MapThenSumSet(LAMBDA v : count[v], V)

\* A sum over a set of values of how many members have each is how many members
\* have one of them.  The fold is a recursive function: that function exists, since
\* the counts are one, and it has no other value, by the least set where it differs.
LEMMA CountsSum ==
    ASSUME NEW W, IsFiniteSet(W), NEW h, NEW V, IsFiniteSet(V), NEW count,
           \A v \in V : count[v] = Cardinality(Having(W, h, {v}))
    PROVE  Total(count, V) = Cardinality(Having(W, h, V))
<1>. DEFINE H(s) == Cardinality(Having(W, h, s))
            First(s) == CHOOSE x \in s : TRUE
            G == [s \in SUBSET V |-> H(s)]
            Step(g) == [s \in SUBSET V |->
                            IF s = {} THEN 0
                            ELSE count[CHOOSE x \in s : TRUE] + g[s \ {CHOOSE x \in s : TRUE}]]
            iter == CHOOSE g : g = Step(g)
<1>1. Total(count, V) = iter[V]
  BY DEF Total, MapThenSumSet, MapThenFoldSet
<1>2. H({}) = 0
  BY FS_EmptySet DEF Having
<1>3. ASSUME NEW s \in SUBSET V, s # {}
      PROVE  First(s) \in s /\ H(s) = count[First(s)] + H(s \ {First(s)})
  <2>1. PICK x \in s : x = First(s)
    BY <1>3
  <2>2. H(s) = H({x}) + H(s \ {x})
    BY HavingWithout
  <2>3. count[x] = H({x})
    OBVIOUS
  <2>. QED  BY <2>1, <2>2, <2>3
<1>4. G = Step(G)
  <2>1. ASSUME NEW s \in SUBSET V PROVE G[s] = Step(G)[s]
    <3>1. CASE s = {}
      BY <3>1, <1>2
    <3>2. CASE s # {}
      <4>1. s \ {First(s)} \in SUBSET V
        OBVIOUS
      <4>2. G[s] = H(s) /\ G[s \ {First(s)}] = H(s \ {First(s)})
        BY <4>1
      <4>3. Step(G)[s] = count[First(s)] + G[s \ {First(s)}]
        BY <3>2
      <4>. QED  BY <4>2, <4>3, <3>2, <1>3
    <3>. QED  BY <3>1, <3>2
  <2>2. DOMAIN G = SUBSET V /\ DOMAIN Step(G) = SUBSET V
    OBVIOUS
  <2>3. G = [s \in SUBSET V |-> G[s]] /\ Step(G) = [s \in SUBSET V |-> Step(G)[s]]
    OBVIOUS
  <2>. QED  BY <2>1, <2>3
<1>5. iter = Step(iter)
  <2>. HIDE DEF G, Step
  <2>. QED  BY <1>4
<1>. HIDE DEF iter
<1>6. \A s \in SUBSET V : iter[s] = H(s)
  <2>. DEFINE B == {s \in SUBSET V : iter[s] # H(s)}
  <2>. SUFFICES ASSUME B # {} PROVE FALSE
    OBVIOUS
  <2>1. PICK s \in B : \A t \in B : t \subseteq s => t = s
    <3>1. B \subseteq SUBSET V
      OBVIOUS
    <3>. HIDE DEF B
    <3>. QED  BY <3>1, MinimalSet
  <2>2. s \in SUBSET V /\ iter[s] # H(s)
    BY <2>1
  <2>3. iter[s] = IF s = {} THEN 0 ELSE count[First(s)] + iter[s \ {First(s)}]
    <3>1. iter[s] = Step(iter)[s]
      BY <1>5
    <3>. QED  BY <3>1, <2>2
  <2>4. s # {}
    BY <2>2, <2>3, <1>2
  <2>5. First(s) \in s /\ H(s) = count[First(s)] + H(s \ {First(s)})
    BY <2>2, <2>4, <1>3
  <2>6. s \ {First(s)} \in SUBSET V /\ s \ {First(s)} \subseteq s /\ s \ {First(s)} # s
    BY <2>2, <2>5
  <2>7. iter[s \ {First(s)}] = H(s \ {First(s)})
    BY <2>1, <2>6
  <2>. QED  BY <2>2, <2>3, <2>4, <2>5, <2>7
<1>. QED  BY <1>1, <1>6

\* The rows of a window that were there before.
LEMMA WindowBefore ==
    ASSUME StatsInv(req), NEW from, NEW to
    PROVE  Window(req.tenant, from, to) \intersect req.before
             = {b \in req.before : b.tenant = req.tenant /\ from <= b.ts /\ b.ts < to}
BY DEF StatsInv, Window

\* Two windows that meet share no row and miss none.
LEMMA WindowsMeet ==
    ASSUME ReadInv, StatsInv(req), NEW mid \in req.from..req.to
    PROVE  req.total = Cardinality(Window(req.tenant, req.from, mid) \intersect req.before)
                       + Cardinality(Window(req.tenant, mid, req.to) \intersect req.before)
<1>. DEFINE W == Within(req)
            L == Window(req.tenant, req.from, mid) \intersect req.before
            R == Window(req.tenant, mid, req.to) \intersect req.before
<1>1. /\ L = {b \in req.before : b.tenant = req.tenant /\ req.from <= b.ts /\ b.ts < mid}
      /\ R = {b \in req.before : b.tenant = req.tenant /\ mid <= b.ts /\ b.ts < req.to}
  BY WindowBefore
<1>2. W = {b \in req.before : b.tenant = req.tenant /\ req.from <= b.ts /\ b.ts < req.to}
  BY DEF Within
<1>3. \A b \in req.before : b.ts \in Nat
  BY RowTyped DEF ReadInv, TableInv, StatsInv
<1>4. req.from \in Int /\ req.to \in Int /\ mid \in Int /\ req.from <= mid /\ mid <= req.to
  BY DEF StatsInv
<1>5. IsFiniteSet(req.before)
  BY FS_Subset DEF ReadInv, TableInv, StatsInv
<1>6. IsFiniteSet(L) /\ IsFiniteSet(R)
  BY <1>1, <1>5, FS_Subset
<1>. HIDE DEF W, L, R
<1>7. W = L \union R
  BY <1>1, <1>2, <1>3, <1>4
<1>8. L \intersect R = {}
  BY <1>1, <1>3, <1>4
<1>9. Cardinality(L \intersect R) = 0
  BY <1>8, FS_EmptySet
<1>10. Cardinality(L \union R) = Cardinality(L) + Cardinality(R) - Cardinality(L \intersect R)
  BY <1>6, FS_Union
<1>11. Cardinality(L) \in Nat /\ Cardinality(R) \in Nat
  BY <1>6, FS_CardinalityType
<1>12. req.total = Cardinality(W)
  BY DEF StatsInv, W
<1>. QED  BY <1>7, <1>9, <1>10, <1>11, <1>12 DEF L, R

\* A breakdown counts every row of the window once.
LEMMA BreakdownSums ==
    ASSUME ReadInv, StatsInv(req), NEW c \in Columns
    PROVE  Total(req.by[c], DOMAIN req.by[c]) = req.total
<1>. DEFINE W == Within(req)
            h == [r \in W |-> r.cols[c]]
            V == {r.cols[c] : r \in W}
            count == req.by[c]
<1>1. IsFiniteSet(W)
  <2>1. W \in SUBSET table /\ IsFiniteSet(table)
    BY DEF ReadInv, TableInv, StatsInv, Within
  <2>. QED  BY <2>1, FS_Subset
<1>2. count = [v \in V |-> Cardinality({r \in W : r.cols[c] = v})] /\ req.total = Cardinality(W)
  BY DEF StatsInv, Count
<1>. HIDE DEF W, count
<1>3. IsFiniteSet(V)
  <2>1. h \in Surjection(W, V)
    BY DEF Surjection
  <2>. QED  BY <2>1, <1>1, FS_Surjection
<1>4. ASSUME NEW v \in V PROVE count[v] = Cardinality(Having(W, h, {v}))
  <2>1. Having(W, h, {v}) = {r \in W : r.cols[c] = v}
    BY DEF Having
  <2>. QED  BY <2>1, <1>2
<1>5. Having(W, h, V) = W
  BY DEF Having
<1>6. DOMAIN count = V
  BY <1>2
<1>. HIDE DEF h, V
<1>7. Total(count, V) = Cardinality(Having(W, h, V))
  BY <1>1, <1>3, <1>4, CountsSum
<1>8. Total(count, DOMAIN count) = req.total
  BY <1>2, <1>5, <1>6, <1>7
<1>. QED  BY <1>8 DEF count

\* The statistics add up, over every window and every breakdown.
THEOREM StatsAddUpHolds == Spec => []StatsAddUp
<1>1. ReadInv => StatsAddUp
  <2>. SUFFICES ASSUME ReadInv, Done("stats") PROVE StatsAddUp
    BY DEF StatsAddUp
  <2>1. StatsInv(req)
    BY DEF Done, ReadInv, Idle, Verification, Listing, Detail
  <2>2. \A c \in Columns : MapThenSumSet(LAMBDA v : req.by[c][v], DOMAIN req.by[c]) = req.total
    <3>1. \A c \in Columns : Total(req.by[c], DOMAIN req.by[c]) = req.total
      BY <2>1, BreakdownSums
    <3>. QED  BY <3>1 DEF Total
  <2>3. \A mid \in req.from..req.to :
            req.total = Cardinality(Window(req.tenant, req.from, mid) \intersect req.before)
                        + Cardinality(Window(req.tenant, mid, req.to) \intersect req.before)
    BY <2>1, WindowsMeet
  <2>. QED  BY <2>2, <2>3 DEF StatsAddUp
<1>. QED  BY ReadInvariant, <1>1, PTL

=============================================================================
