-------------------------- MODULE ListRenameProofs --------------------------
(***************************************************************************)
(* EditOnItsRow, CommitNamesItsItem and NewFoldersStayLast of ListRename,  *)
(* for any folder, page, queue, number of commands and of other events.    *)
(***************************************************************************)
EXTENDS ListRename, TLAPS, FiniteSetTheorems, FunctionTheorems, SequenceTheorems, WellFoundedInduction

-----------------------------------------------------------------------------
(* Sequences, numbers and functions defined step by step.  *)

\* r is s without its i-th entry, or with e before it.
Lacks(r, s, i) ==
  Len(r) = Len(s) - 1 /\ \A k \in 1 .. Len(r) : r[k] = IF k < i THEN s[k] ELSE s[k + 1]

Gains(r, s, i, e) ==
  /\ Len(r) = Len(s) + 1
  /\ \A k \in 1 .. Len(r) : r[k] = IF k < i THEN s[k] ELSE IF k = i THEN e ELSE s[k - 1]

\* What RemoveAt leaves.
LEMMA Removed ==
  ASSUME NEW S, NEW s \in Seq(S), NEW i \in DOMAIN s, NEW r, r = RemoveAt(s, i)
  PROVE  r \in Seq(S) /\ Lacks(r, s, i)
<1> DEFINE a == SubSeq(s, 1, i - 1)
           b == SubSeq(s, i + 1, Len(s))
<1>1. /\ Len(s) \in Nat /\ DOMAIN s = 1 .. Len(s) /\ i \in 1 .. Len(s)
      /\ \A k \in 1 .. Len(s) : s[k] \in S
  OBVIOUS
<1>2. /\ a \in Seq(S) /\ Len(a) = i - 1
      /\ \A k \in 1 .. i - 1 : a[k] = s[k]
  BY <1>1, SubSeqProperties
<1>3. /\ b \in Seq(S) /\ Len(b) = Len(s) - i
      /\ \A k \in 1 .. Len(s) - i : b[k] = s[i + k]
  BY <1>1, SubSeqProperties
<1>4. r = a \o b
  BY DEF RemoveAt
<1> HIDE DEF a, b
<1>5. /\ r \in Seq(S) /\ Len(r) = Len(a) + Len(b)
      /\ \A k \in 1 .. Len(a) + Len(b) : r[k] = IF k <= Len(a) THEN a[k] ELSE b[k - Len(a)]
  <2>1. /\ a \o b \in Seq(S) /\ Len(a \o b) = Len(a) + Len(b)
        /\ \A k \in 1 .. Len(a) + Len(b) :
             (a \o b)[k] = IF k <= Len(a) THEN a[k] ELSE b[k - Len(a)]
    BY <1>2, <1>3, ConcatProperties
  <2> QED  BY <1>4, <2>1, Zenon
<1>6. Len(r) = Len(s) - 1
  BY <1>1, <1>2, <1>3, <1>5
<1>7. ASSUME NEW k \in 1 .. Len(r)
      PROVE  r[k] = IF k < i THEN s[k] ELSE s[k + 1]
  <2>1. /\ k \in Nat /\ k >= 1 /\ k <= Len(a) + Len(b) /\ k <= Len(s) - 1
        /\ Len(a) \in Nat /\ Len(b) \in Nat
    BY <1>1, <1>2, <1>3, <1>5, <1>6
  <2>2. r[k] = IF k <= Len(a) THEN a[k] ELSE b[k - Len(a)]
    BY <1>5, <2>1
  <2>3. CASE k < i
    BY <1>1, <1>2, <2>1, <2>2, <2>3
  <2>4. CASE ~(k < i)
    <3>1. k - Len(a) \in 1 .. Len(s) - i /\ i + (k - Len(a)) = k + 1
      BY <1>1, <1>2, <2>1, <2>4
    <3>2. b[k - Len(a)] = s[k + 1]
      BY <1>3, <3>1
    <3> QED  BY <1>1, <1>2, <2>1, <2>2, <2>4, <3>2
  <2> QED  BY <2>3, <2>4
<1> QED  BY <1>5, <1>6, <1>7 DEF Lacks

\* What InsertAt makes.
LEMMA Inserted ==
  ASSUME NEW S, NEW s \in Seq(S), NEW i \in 1 .. Len(s) + 1, NEW e \in S,
         NEW r, r = InsertAt(s, i, e)
  PROVE  r \in Seq(S) /\ Gains(r, s, i, e)
<1> DEFINE a == SubSeq(s, 1, i - 1)
           b == SubSeq(s, i, Len(s))
           m == a \o <<e>>
<1>1. /\ Len(s) \in Nat /\ DOMAIN s = 1 .. Len(s) /\ i \in 1 .. Len(s) + 1
      /\ \A k \in 1 .. Len(s) : s[k] \in S
  OBVIOUS
<1>2. /\ a \in Seq(S) /\ Len(a) = i - 1
      /\ \A k \in 1 .. i - 1 : a[k] = s[k]
  BY <1>1, SubSeqProperties
<1>3. /\ b \in Seq(S) /\ Len(b) = Len(s) - i + 1
      /\ \A k \in 1 .. Len(s) - i + 1 : b[k] = s[i + k - 1]
  BY <1>1, SubSeqProperties
<1>4. r = m \o b
  BY DEF InsertAt
<1>5. <<e>> \in Seq(S) /\ Len(<<e>>) = 1 /\ <<e>>[1] = e
  OBVIOUS
<1>6. /\ m \in Seq(S) /\ Len(m) = i
      /\ \A k \in 1 .. i : m[k] = IF k <= i - 1 THEN a[k] ELSE e
  <2> DEFINE one == <<e>>
  <2> HIDE DEF a, b, one
  <2>1. one \in Seq(S) /\ Len(one) = 1 /\ one[1] = e
    BY <1>5 DEF one
  <2>2. /\ a \o one \in Seq(S) /\ Len(a \o one) = Len(a) + Len(one)
        /\ \A k \in 1 .. Len(a) + Len(one) :
             (a \o one)[k] = IF k <= Len(a) THEN a[k] ELSE one[k - Len(a)]
    BY <1>2, <2>1, ConcatProperties
  <2>3. m = a \o one
    BY DEF one
  <2> HIDE DEF m
  <2> QED  BY <1>1, <1>2, <2>1, <2>2, <2>3
<1> HIDE DEF a, b, m
<1>7. /\ r \in Seq(S) /\ Len(r) = Len(m) + Len(b)
      /\ \A k \in 1 .. Len(m) + Len(b) : r[k] = IF k <= Len(m) THEN m[k] ELSE b[k - Len(m)]
  <2>1. /\ m \o b \in Seq(S) /\ Len(m \o b) = Len(m) + Len(b)
        /\ \A k \in 1 .. Len(m) + Len(b) :
             (m \o b)[k] = IF k <= Len(m) THEN m[k] ELSE b[k - Len(m)]
    BY <1>3, <1>6, ConcatProperties
  <2> QED  BY <1>4, <2>1, Zenon
<1>8. Len(r) = Len(s) + 1
  BY <1>1, <1>3, <1>6, <1>7
<1>9. ASSUME NEW k \in 1 .. Len(r)
      PROVE  r[k] = IF k < i THEN s[k] ELSE IF k = i THEN e ELSE s[k - 1]
  <2>1. /\ k \in Nat /\ k >= 1 /\ k <= Len(m) + Len(b) /\ k <= Len(s) + 1
        /\ Len(m) \in Nat /\ Len(b) \in Nat
    BY <1>1, <1>3, <1>6, <1>7, <1>8
  <2>2. r[k] = IF k <= Len(m) THEN m[k] ELSE b[k - Len(m)]
    BY <1>7, <2>1
  <2>3. CASE k <= i
    BY <1>1, <1>2, <1>6, <2>1, <2>2, <2>3
  <2>4. CASE ~(k <= i)
    <3>1. k - Len(m) \in 1 .. Len(s) - i + 1 /\ i + (k - Len(m)) - 1 = k - 1
      BY <1>1, <1>6, <2>1, <2>4
    <3>2. b[k - Len(m)] = s[k - 1]
      BY <1>3, <3>1
    <3> QED  BY <1>1, <1>6, <2>1, <2>2, <2>4, <3>2
  <2> QED  BY <2>3, <2>4
<1> QED  BY <1>7, <1>8, <1>9 DEF Gains

\* A set of numbers that is not empty has a least one.
LEMMA Least ==
  ASSUME NEW T \in SUBSET Nat, T # {}
  PROVE  \E x \in T : \A y \in T : x <= y
<1>1. PICK x \in T : \A y \in T : ~ (<<y, x>> \in OpToRel(<, Nat))
  BY WFMin, NatLessThanWellFounded, Zenon
<1>2. \A y \in T : ~(y < x)
  BY <1>1 DEF OpToRel
<1> QED  BY <1>2


\* A finite set of numbers that is not empty has a greatest one.
LEMMA Greatest ==
  ASSUME NEW S \in SUBSET Int, IsFiniteSet(S), S # {}
  PROVE  Max(S) \in S /\ \A y \in S : y <= Max(S)
<1> DEFINE Has(X) == \E x \in X : \A y \in X : y <= x
           T == {n \in Nat : \E X \in SUBSET S : X # {} /\ ~Has(X) /\ Cardinality(X) = n}
<1>1. SUFFICES T = {}
  <2>1. ASSUME T = {} PROVE Has(S)
    BY <2>1, FS_CardinalityType
  <2> QED  BY <2>1 DEF Max
<1>2. SUFFICES ASSUME T # {}
               PROVE  FALSE
  OBVIOUS
<1>3. PICK n \in T : \A m \in T : n <= m
  <2>1. T \in SUBSET Nat
    OBVIOUS
  <2> HIDE DEF T
  <2> QED  BY <1>2, <2>1, Least
<1>4. PICK X \in SUBSET S : X # {} /\ ~Has(X) /\ Cardinality(X) = n
  OBVIOUS
<1>5. PICK x \in X : TRUE
  BY <1>4
<1>6. /\ IsFiniteSet(X) /\ Cardinality(X) \in Nat
      /\ IsFiniteSet(X \ {x}) /\ Cardinality(X \ {x}) = Cardinality(X) - 1
  BY <1>5, FS_Subset, FS_RemoveElement, FS_CardinalityType
<1>7. X \ {x} # {}
  <2>1. ASSUME X = {x} PROVE FALSE
    BY <1>4, <2>1
  <2> QED  BY <1>5, <2>1
<1>8. Has(X \ {x})
  <2>1. n - 1 \notin T
    BY <1>3
  <2>2. Cardinality(X \ {x}) \in Nat /\ Cardinality(X \ {x}) = n - 1
    BY <1>4, <1>6, FS_CardinalityType
  <2> QED  BY <1>7, <2>1, <2>2
<1>9. PICK m \in X \ {x} : \A y \in X \ {x} : y <= m
  BY <1>8
<1>10. CASE x <= m
  BY <1>4, <1>9, <1>10
<1>11. CASE ~(x <= m)
  <2>1. \A y \in X : y <= x
    BY <1>9, <1>11
  <2> QED  BY <1>4, <1>5, <2>1
<1> QED  BY <1>10, <1>11

\* The least of some places.
LEMMA LeastPlace ==
  ASSUME NEW T \in SUBSET Nat, T # {}
  PROVE  Min(T) \in T /\ \A y \in T : Min(T) <= y
BY Least DEF Min

\* The greater of two.
LEMMA OfTwo ==
  ASSUME NEW a \in Int, NEW b \in Int
  PROVE  /\ Max({a, b}) = (IF a >= b THEN a ELSE b)
         /\ Min({a, b}) = (IF a <= b THEN a ELSE b)
<1>1. Max({a, b}) \in {a, b} /\ \A y \in {a, b} : Max({a, b}) >= y
  <2>1. \E x \in {a, b} : \A y \in {a, b} : x >= y
    <3>1. CASE a >= b
      BY <3>1
    <3>2. CASE ~(a >= b)
      BY <3>2
    <3> QED  BY <3>1, <3>2
  <2> QED  BY <2>1 DEF Max
<1>2. Min({a, b}) \in {a, b} /\ \A y \in {a, b} : Min({a, b}) <= y
  <2>1. \E x \in {a, b} : \A y \in {a, b} : x <= y
    <3>1. CASE a >= b
      BY <3>1
    <3>2. CASE ~(a >= b)
      BY <3>2
    <3> QED  BY <3>1, <3>2
  <2> QED  BY <2>1 DEF Min
<1> QED  BY <1>1, <1>2

\* The values of a function with a finite domain.
LEMMA FiniteRange ==
  ASSUME NEW f, IsFiniteSet(DOMAIN f), f = [x \in DOMAIN f |-> f[x]]
  PROVE  IsFiniteSet(Range(f))
<1>1. f \in Surjection(DOMAIN f, Range(f))
  BY DEF Surjection, Range
<1> QED  BY <1>1, FS_Surjection

\* The entries of a sequence.
LEMMA Entries ==
  ASSUME NEW S, NEW s \in Seq(S)
  PROVE  /\ Range(s) \subseteq S /\ IsFiniteSet(Range(s))
         /\ \A i \in 1 .. Len(s) : s[i] \in Range(s)
         /\ \A e \in Range(s) : \E i \in 1 .. Len(s) : s[i] = e
<1>1. /\ Len(s) \in Nat /\ DOMAIN s = 1 .. Len(s) /\ \A i \in 1 .. Len(s) : s[i] \in S
  OBVIOUS
<1>2. s = [i \in DOMAIN s |-> s[i]]
  <2>1. PICK n \in Nat : s \in [1 .. n -> S]
    BY SeqDef
  <2> QED  BY <2>1
<1>3. IsFiniteSet(DOMAIN s)
  BY <1>1, FS_Interval
<1>4. IsFiniteSet(Range(s))
  BY <1>2, <1>3, FiniteRange
<1>5. /\ \A i \in 1 .. Len(s) : s[i] \in Range(s)
      /\ \A e \in Range(s) : \E i \in 1 .. Len(s) : s[i] = e
  BY <1>1 DEF Range
<1>6. Range(s) \subseteq S
  BY <1>1, <1>5
<1>7. QED
  <2>1. Range(s) \subseteq S
    BY <1>6
  <2>2. IsFiniteSet(Range(s))
    BY <1>4
  <2>3. \A i \in 1 .. Len(s) : s[i] \in Range(s)
    BY <1>5
  <2> QED  BY <2>1, <2>2, <2>3, <1>5

\* f starts with base and each later value follows from the one before.
Steps(f, base, n, F) == f = [k \in 0 .. n |-> IF k = 0 THEN base ELSE F[<<k, f[k - 1]>>]]

\* Values of S that follow from one another can be listed.
LEMMA Iterates ==
  ASSUME NEW S, NEW base \in S, NEW F, NEW n \in Nat,
         \A k \in 1 .. n : \A s \in S : F[<<k, s>>] \in S
  PROVE  \E f \in [0 .. n -> S] : Steps(f, base, n, F)
<1> DEFINE T == {m \in 0 .. n : ~ \E f \in [0 .. m -> S] : Steps(f, base, m, F)}
<1>1. SUFFICES ASSUME T # {}
               PROVE  FALSE
  OBVIOUS
<1>2. PICK m \in T : \A y \in T : m <= y
  <2>1. T \in SUBSET Nat
    OBVIOUS
  <2> HIDE DEF T
  <2> QED  BY <1>1, <2>1, Least
<1>3. CASE m = 0
  <2> DEFINE f == [k \in 0 .. 0 |-> base]
  <2>1. f = [k \in 0 .. 0 |-> IF k = 0 THEN base ELSE F[<<k, f[k - 1]>>]]
    OBVIOUS
  <2>2. f \in [0 .. 0 -> S]
    OBVIOUS
  <2> QED  BY <1>2, <1>3, <2>1, <2>2 DEF Steps
<1>4. CASE m # 0
  <2>1. m \in Nat /\ m - 1 \in 0 .. n /\ m - 1 \notin T
    BY <1>2, <1>4
  <2>2. PICK f \in [0 .. m - 1 -> S] : Steps(f, base, m - 1, F)
    BY <2>1
  <2> DEFINE g == [k \in 0 .. m |-> IF k = 0 THEN base ELSE F[<<k, f[k - 1]>>]]
  <2>3. f = [k \in 0 .. m - 1 |-> IF k = 0 THEN base ELSE F[<<k, f[k - 1]>>]]
    BY <2>2 DEF Steps
  <2>4. ASSUME NEW k \in 0 .. m - 1
        PROVE  g[k] = f[k]
    <3>1. k \in 0 .. m
      BY <2>1
    <3>2. g[k] = IF k = 0 THEN base ELSE F[<<k, f[k - 1]>>]
      BY <3>1
    <3>3. f[k] = IF k = 0 THEN base ELSE F[<<k, f[k - 1]>>]
      BY <2>3, Zenon
    <3> QED  BY <3>2, <3>3
  <2>5. \A k \in 0 .. m : k = 0 \/ (k - 1 \in 0 .. m - 1 /\ k \in 1 .. n)
    BY <1>2, <2>1
  <2>6. \A k \in 0 .. m : g[k] = IF k = 0 THEN base ELSE F[<<k, g[k - 1]>>]
    BY <2>4, <2>5
  <2>7. \A k \in 0 .. m : g[k] \in S
    BY <2>5
  <2>8. g \in [0 .. m -> S] /\ Steps(g, base, m, F)
    BY <2>6, <2>7 DEF Steps
  <2> QED  BY <1>2, <2>8
<1> QED  BY <1>3, <1>4

\* What holds of the first of them and is kept holds of all.
LEMMA AllIn ==
  ASSUME NEW S, NEW n \in Nat, NEW f, f[0] \in S,
         \A k \in 1 .. n : f[k - 1] \in S => f[k] \in S
  PROVE  \A k \in 0 .. n : f[k] \in S
<1> DEFINE T == {m \in 0 .. n : f[m] \notin S}
<1>1. SUFFICES ASSUME T # {}
               PROVE  FALSE
  OBVIOUS
<1>2. PICK m \in T : \A y \in T : m <= y
  <2>1. T \in SUBSET Nat
    OBVIOUS
  <2> HIDE DEF T
  <2> QED  BY <1>1, <2>1, Least
<1>3. m # 0 /\ m - 1 \in 0 .. n /\ m - 1 \notin T /\ m \in 1 .. n
  BY <1>2
<1> QED  BY <1>2, <1>3

-----------------------------------------------------------------------------
(* Rows.  *)

Row == [id : Names, mark : Nat]

\* The names of a set of rows.
NamesOf(rows) == {row.id : row \in rows}

LEMMA NamesAre ==
  ASSUME NEW rows \in Seq(Row)
  PROVE  /\ Ids(rows) = NamesOf(Range(rows)) /\ Ids(rows) \subseteq Names
         /\ IsFiniteSet(Names) /\ Names \subseteq Nat /\ 0 \notin Names
<1>1. /\ Len(rows) \in Nat /\ DOMAIN rows = 1 .. Len(rows)
      /\ \A i \in 1 .. Len(rows) : rows[i] \in Row
  OBVIOUS
<1>2. Ids(rows) = NamesOf(Range(rows))
  BY DEF Ids, NamesOf, Range
<1>3. Ids(rows) \subseteq Names
  BY <1>1 DEF Ids, Row
<1>4. IsFiniteSet(Names)
  BY NamesAssumption, FS_Interval DEF Names
<1>5. Names \subseteq Nat /\ 0 \notin Names
  BY NamesAssumption DEF Names
<1> QED  BY <1>2, <1>3, <1>4, <1>5

\* IndexOf finds the row of a name that has one.
LEMMA IndexIs ==
  ASSUME NEW rows \in Seq(Row), NEW id
  PROVE  /\ id \in Ids(rows) => IndexOf(rows, id) \in 1 .. Len(rows) /\ rows[IndexOf(rows, id)].id = id
         /\ id \notin Ids(rows) => IndexOf(rows, id) = 0
         /\ IndexOf(rows, id) \in Nat /\ IndexOf(rows, id) <= Len(rows)
<1>1. Len(rows) \in Nat /\ DOMAIN rows = 1 .. Len(rows)
  OBVIOUS
<1>2. CASE id \in Ids(rows)
  <2>1. \E i \in DOMAIN rows : rows[i].id = id
    BY <1>2 DEF Ids
  <2>2. IndexOf(rows, id) \in DOMAIN rows /\ rows[IndexOf(rows, id)].id = id
    BY <1>2, <2>1 DEF IndexOf
  <2> QED  BY <1>1, <1>2, <2>2
<1>3. CASE id \notin Ids(rows)
  BY <1>1, <1>3 DEF IndexOf
<1> QED  BY <1>2, <1>3

\* Of two rows one comes before the other.
LEMMA BeforeOrders ==
  /\ \A a, b \in Row : a # b => Before(a, b) \/ Before(b, a)
  /\ \A a, b \in Row : ~(Before(a, b) /\ Before(b, a))
  /\ \A a, b, c \in Row : Before(a, b) /\ Before(b, c) => Before(a, c)
<1>1. \A a \in Row : a.id \in Nat /\ a.mark \in Nat /\ a = [id |-> a.id, mark |-> a.mark]
  BY NamesAssumption DEF Row, Names
<1>2. ASSUME NEW a \in Row, NEW b \in Row, a # b
      PROVE  Before(a, b) \/ Before(b, a)
  <2>1. a.id # b.id \/ a.mark # b.mark
    BY <1>1, <1>2
  <2> QED  BY <1>1, <2>1 DEF Before
<1>3. \A a, b \in Row : ~(Before(a, b) /\ Before(b, a))
  BY <1>1 DEF Before
<1>4. \A a, b, c \in Row : Before(a, b) /\ Before(b, c) => Before(a, c)
  BY <1>1 DEF Before
<1> QED  BY <1>2, <1>3, <1>4

\* Every row stands in the order that Before says.
InOrder(rows) == \A i, j \in DOMAIN rows : i < j => Before(rows[i], rows[j])

\* The rows before a row.
Earlier(rows, row) == {other \in rows : Before(other, row)}

LEMMA RanksDiffer ==
  ASSUME NEW S \in SUBSET Row, IsFiniteSet(S), NEW a \in S, NEW b \in S, Before(a, b)
  PROVE  /\ Cardinality(Earlier(S, a)) \in Nat /\ Cardinality(Earlier(S, b)) \in Nat
         /\ Cardinality(Earlier(S, a)) < Cardinality(Earlier(S, b))
<1>1. a \in Earlier(S, b) /\ a \notin Earlier(S, a)
  BY BeforeOrders DEF Earlier
<1>2. Earlier(S, a) \in SUBSET Earlier(S, b)
  BY BeforeOrders DEF Earlier
<1>3. IsFiniteSet(Earlier(S, b)) /\ IsFiniteSet(Earlier(S, a))
  <2>1. Earlier(S, b) \in SUBSET S /\ Earlier(S, a) \in SUBSET S
    BY DEF Earlier
  <2> QED  BY <2>1, FS_Subset
<1> QED  BY <1>1, <1>2, <1>3, FS_Subset, FS_CardinalityType

\* Sorted lists a finite set of rows, each of them once, in order.
LEMMA SortedLists ==
  ASSUME NEW S \in SUBSET Row, IsFiniteSet(S)
  PROVE  Sorted(S) \in Seq(Row) /\ Range(Sorted(S)) = S /\ InOrder(Sorted(S))
<1> DEFINE n == Cardinality(S)
           Rank(a) == Cardinality(Earlier(S, a))
           rank == [a \in S |-> Rank(a)]
<1>1. n \in Nat
  BY FS_CardinalityType
<1>2. ASSUME NEW a \in S
      PROVE  Rank(a) \in 0 .. n - 1
  <2>1. Earlier(S, a) \in SUBSET S /\ a \notin Earlier(S, a)
    BY BeforeOrders DEF Earlier
  <2>2. Rank(a) \in Nat /\ Rank(a) <= n /\ Rank(a) # n
    BY <2>1, FS_Subset, FS_CardinalityType
  <2> QED  BY <1>1, <2>2
<1>3. ASSUME NEW a \in S, NEW b \in S, Before(a, b)
      PROVE  Rank(a) < Rank(b)
  BY <1>3, RanksDiffer
<1>4. rank \in Injection(S, 0 .. n - 1)
  <2>1. rank \in [S -> 0 .. n - 1]
    BY <1>2
  <2>2. ASSUME NEW a \in S, NEW b \in S, rank[a] = rank[b]
        PROVE  a = b
    <3>1. Rank(a) \in Int /\ Rank(a) = Rank(b)
      BY <1>2, <2>2
    <3> HIDE DEF Rank
    <3>2. ~Before(a, b) /\ ~Before(b, a)
      BY <1>3, <3>1
    <3> QED  BY <3>2, BeforeOrders
  <2> HIDE DEF rank
  <2> QED  BY <2>1, <2>2 DEF Injection, IsInjective
<1>5. rank \in Surjection(S, 0 .. n - 1)
  <2>1. IsFiniteSet(0 .. n - 1) /\ Cardinality(0 .. n - 1) = n
    BY <1>1, FS_Interval
  <2> HIDE DEF rank
  <2> QED  BY <1>4, <2>1, FS_Injection
<1>6. \A i \in 1 .. n : \E a \in S : Rank(a) = i - 1
  <2>1. \A k \in 0 .. n - 1 : \E a \in S : rank[a] = k
    <3> HIDE DEF rank
    <3> QED  BY <1>5 DEF Surjection
  <2>2. \A i \in 1 .. n : i - 1 \in 0 .. n - 1
    BY <1>1
  <2> QED  BY <2>1, <2>2
<1> DEFINE s == Sorted(S)
<1>7. s = [i \in 1 .. n |-> CHOOSE row \in S : Rank(row) = i - 1]
  BY DEF Sorted, Earlier
<1> HIDE DEF s, Rank
<1>8. \A i \in 1 .. n : s[i] \in S /\ Rank(s[i]) = i - 1
  BY <1>6, <1>7
<1>9. s \in Seq(S) /\ Len(s) = n /\ DOMAIN s = 1 .. n
  BY <1>1, <1>7, <1>8
<1>10. Range(s) = S
  <2>1. ASSUME NEW a \in S
        PROVE  \E i \in 1 .. n : s[i] = a
    <3>1. Rank(a) + 1 \in 1 .. n
      BY <1>1, <1>2
    <3>2. Rank(s[Rank(a) + 1]) = Rank(a) /\ s[Rank(a) + 1] \in S
      BY <1>2, <1>8, <3>1
    <3>3. ~Before(s[Rank(a) + 1], a) /\ ~Before(a, s[Rank(a) + 1])
      BY <1>2, <1>3, <3>2
    <3> QED  BY <3>1, <3>2, <3>3, BeforeOrders
  <2> QED  BY <1>8, <1>9, <2>1 DEF Range
<1>11. ASSUME NEW i \in 1 .. n, NEW j \in 1 .. n, i < j
       PROVE  Before(s[i], s[j])
  <2>1. s[i] \in S /\ s[j] \in S /\ Rank(s[i]) = i - 1 /\ Rank(s[j]) = j - 1
    BY <1>8
  <2>2. s[i] # s[j] /\ ~(Rank(s[j]) < Rank(s[i]))
    BY <1>1, <1>11, <2>1
  <2>3. ~Before(s[j], s[i])
    BY <1>3, <2>1, <2>2
  <2> QED  BY <2>1, <2>2, <2>3, BeforeOrders
<1>12. InOrder(s)
  BY <1>9, <1>11 DEF InOrder
<1>13. s \in Seq(Row)
  BY <1>9
<1> QED  BY <1>10, <1>12, <1>13 DEF s

\* No name, and no place among the new folders, twice.
NoTwo(S, o) ==
  \A a, b \in S : a.id = b.id \/ (a.mark = b.mark /\ a.mark \notin {0, o}) => a = b

\* Rows that are all different, and no two of them for one item.
Single(rows, o) ==
  /\ NoTwo(Range(rows), o)
  /\ \A i, j \in DOMAIN rows : rows[i] = rows[j] => i = j

LEMMA SortedSingle ==
  ASSUME NEW o, NEW S \in SUBSET Row, IsFiniteSet(S), NoTwo(S, o)
  PROVE  Single(Sorted(S), o)
<1> DEFINE s == Sorted(S)
<1>1. s \in Seq(Row) /\ Range(s) = S /\ InOrder(s)
  BY SortedLists
<1> HIDE DEF s
<1>2. ASSUME NEW i \in DOMAIN s, NEW j \in DOMAIN s, s[i] = s[j]
      PROVE  i = j
  <2>1. i \in Nat /\ j \in Nat /\ s[i] \in Row
    BY <1>1
  <2>2. ~Before(s[i], s[j]) /\ ~Before(s[j], s[i])
    BY <1>2, <2>1, BeforeOrders
  <2> QED  BY <1>1, <2>1, <2>2 DEF InOrder
<1> QED  BY <1>1, <1>2 DEF Single, s

-----------------------------------------------------------------------------
(* What a batch does to the rows.  *)

Pairs == Seq(Names \X Names)

DeltaBatch == [kind : {"delta"}, names : SUBSET Names, removed : SUBSET Names, renamed : Pairs]

\* The marks of some rows are those of others, or the outdated one.
MarksOf(S, R, o) == \A a \in S : a.mark \in {0, o} \/ \E r \in R : r.mark = a.mark

\* Where a row that a delta leaves or brings has its mark from.
Origin(rows, b, a, r) ==
  /\ r \in rows /\ r.mark = a.mark
  /\ \/ r \in Remaining(rows, b) /\ r.id = a.id
     \/ \E k \in Handing(rows, b.renamed, a.id) : r.id = b.renamed[k][1]

\* The row of a name that came.
RowOf(rows, left, b, name) ==
  [id |-> name, mark |-> Max({Handed(rows, b.renamed, name)} \cup
                             {row.mark : row \in {r \in left : r.id = name}})]

LEMMA ArrivedHas ==
  ASSUME NEW rows \in SUBSET Row, IsFiniteSet(rows), NEW b \in DeltaBatch, NEW name \in b.names
  PROVE  /\ RowOf(rows, Remaining(rows, b), b, name) \in Row
         /\ LET a == RowOf(rows, Remaining(rows, b), b, name)
            IN a.mark # 0 => \E r \in rows : Origin(rows, b, a, r)
<1> DEFINE left == Remaining(rows, b)
           from == Handing(rows, b.renamed, name)
           same == {r \in left : r.id = name}
           own == {row.mark : row \in same}
           hand == Handed(rows, b.renamed, name)
           a == RowOf(rows, left, b, name)
<1>1. b.names \subseteq Names /\ b.renamed \in Seq(Names \X Names)
  BY DEF DeltaBatch, Pairs
<1>2. Len(b.renamed) \in Nat /\ DOMAIN b.renamed = 1 .. Len(b.renamed)
  BY <1>1
<1>3. hand \in Nat /\ (hand # 0 => \E k \in from : \E r \in rows : r.id = b.renamed[k][1] /\ r.mark = hand)
  <2>1. CASE from = {}
    BY <2>1 DEF Handed
  <2>2. CASE from # {}
    <3>1. from \subseteq 1 .. Len(b.renamed)
      BY <1>2 DEF Handing
    <3>2. IsFiniteSet(from) /\ from \subseteq Int
      <4>1. IsFiniteSet(1 .. Len(b.renamed))
        BY <1>2, FS_Interval
      <4> HIDE DEF from
      <4>2. from \subseteq Int
        BY <1>2, <3>1
      <4>3. from \in SUBSET (1 .. Len(b.renamed))
        BY <3>1
      <4>4. IsFiniteSet(from)
        BY ONLY <4>1, <4>3, FS_Subset
      <4> QED  BY <4>2, <4>4
    <3>3. Max(from) \in from
      BY <2>2, <3>2, Greatest
    <3>4. \E row \in rows : row.id = b.renamed[Max(from)][1]
      BY <3>3 DEF Handing
    <3> DEFINE k == Max(from)
               r == CHOOSE row \in rows : row.id = b.renamed[k][1]
    <3>5. r \in rows /\ r.id = b.renamed[k][1]
      BY <3>4
    <3>6. hand = r.mark
      BY <2>2 DEF Handed
    <3>7. r.mark \in Nat
      BY <3>5 DEF Row
    <3> HIDE DEF r, k, hand, from
    <3>8. k \in from
      BY <3>3 DEF k
    <3> QED  BY <3>5, <3>6, <3>7, <3>8
  <2> QED  BY <2>1, <2>2
<1>4. IsFiniteSet(own) /\ own \subseteq Nat
  <2> DEFINE f == [r \in same |-> r.mark]
  <2>1. same \in SUBSET rows
    BY DEF Remaining
  <2>2. IsFiniteSet(same)
    BY <2>1, FS_Subset
  <2>3. DOMAIN f = same /\ Range(f) = own /\ f = [x \in DOMAIN f |-> f[x]]
    BY DEF Range
  <2> HIDE DEF f
  <2>4. IsFiniteSet(own)
    BY <2>2, <2>3, FiniteRange
  <2>5. own \subseteq Nat
    BY <2>1 DEF Row
  <2> QED  BY <2>4, <2>5
<1> DEFINE all == {hand} \cup own
<1>5. Max(all) \in all /\ all \subseteq Nat
  <2> HIDE DEF hand, own
  <2>1. IsFiniteSet({hand} \cup own)
    BY <1>4, FS_Singleton, FS_Union
  <2>2. all \subseteq Int /\ all # {} /\ all \subseteq Nat
    BY <1>3, <1>4
  <2> QED  BY <2>1, <2>2, Greatest
<1>6. a = [id |-> name, mark |-> Max(all)]
  BY DEF RowOf
<1>7. a \in Row /\ a.id = name /\ a.mark \in all
  <2> HIDE DEF a, all
  <2> QED  BY <1>1, <1>5, <1>6 DEF Row
<1>8. ASSUME a.mark # 0
      PROVE  \E r \in rows : Origin(rows, b, a, r)
  <2>1. CASE a.mark \in own
    <3>1. PICK r \in same : r.mark = a.mark
      BY <2>1
    <3>2. r \in rows
      BY <3>1 DEF Remaining
    <3> QED  BY <1>7, <3>1, <3>2 DEF Origin
  <2>2. CASE a.mark = hand
    <3>1. PICK k \in from : \E r \in rows : r.id = b.renamed[k][1] /\ r.mark = hand
      BY <1>3, <1>8, <2>2
    <3>2. PICK r \in rows : r.id = b.renamed[k][1] /\ r.mark = hand
      BY <3>1
    <3>3. k \in Handing(rows, b.renamed, a.id)
      BY <1>7, <3>1
    <3>4. r.mark = a.mark
      BY <2>2, <3>2
    <3> HIDE DEF hand, from, a
    <3> QED  BY <3>2, <3>3, <3>4 DEF Origin
  <2> QED  BY <1>7, <2>1, <2>2
<1> QED  BY <1>7, <1>8

\* The rows after a delta, before they are sorted.
AfterDelta(rows, b) ==
  {row \in Remaining(rows, b) : row.id \notin b.names} \cup Arrived(rows, Remaining(rows, b), b)

LEMMA AfterDeltaHas ==
  ASSUME NEW o, NEW rows \in SUBSET Row, IsFiniteSet(rows), NEW b \in DeltaBatch
  PROVE  /\ AfterDelta(rows, b) \subseteq Row /\ IsFiniteSet(AfterDelta(rows, b))
         /\ MarksOf(AfterDelta(rows, b), rows, o)
         /\ NoTwo(rows, o) => NoTwo(AfterDelta(rows, b), o)
<1> DEFINE left == Remaining(rows, b)
           R(name) == RowOf(rows, left, b, name)
           kept == {row \in left : row.id \notin b.names}
           came == Arrived(rows, left, b)
<1>1. came = {R(name) : name \in b.names}
  BY DEF Arrived, RowOf
<1>2. ASSUME NEW name \in b.names
      PROVE  /\ R(name) \in Row /\ R(name).id = name
             /\ R(name).mark # 0 => \E r \in rows : Origin(rows, b, R(name), r)
  BY ArrivedHas DEF RowOf
<1> HIDE DEF R
<1>3. left \subseteq rows /\ kept \subseteq rows
  BY DEF Remaining
<1>4. AfterDelta(rows, b) = kept \cup came
  BY DEF AfterDelta
<1>5. kept \cup came \subseteq Row
  BY <1>1, <1>2, <1>3
<1>6. IsFiniteSet(kept \cup came)
  <2> DEFINE f == [name \in b.names |-> R(name)]
  <2>1. IsFiniteSet(b.names)
    <3>1. b.names \in SUBSET Names
      BY DEF DeltaBatch
    <3>2. IsFiniteSet(Names)
      BY NamesAssumption, FS_Interval DEF Names
    <3> QED  BY <3>1, <3>2, FS_Subset
  <2>2. DOMAIN f = b.names /\ Range(f) = came /\ f = [x \in DOMAIN f |-> f[x]]
    BY <1>1 DEF Range
  <2> HIDE DEF f, came
  <2>3. IsFiniteSet(came)
    BY <2>1, <2>2, FiniteRange
  <2>4. IsFiniteSet(kept)
    BY <1>3, FS_Subset
  <2> QED  BY <2>3, <2>4, FS_Union
<1>7. ASSUME NEW a \in kept \cup came, a.mark # 0
      PROVE  \E r \in rows : Origin(rows, b, a, r)
  <2>1. CASE a \in kept
    BY <1>3, <2>1 DEF Origin
  <2>2. CASE a \in came
    BY <1>1, <1>2, <1>7, <2>2
  <2> QED  BY <2>1, <2>2
<1>8. MarksOf(kept \cup came, rows, o)
  BY <1>7 DEF MarksOf, Origin
<1>9. ASSUME NoTwo(rows, o)
      PROVE  NoTwo(kept \cup came, o)
  <2>1. ASSUME NEW a \in kept \cup came, NEW c \in kept \cup came, a.id = c.id
        PROVE  a = c
    <3>1. CASE a.id \in b.names
      BY <1>1, <1>2, <2>1, <3>1
    <3>2. CASE a.id \notin b.names
      <4>1. a \in kept /\ c \in kept
        BY <1>1, <1>2, <2>1, <3>2
      <4>2. a \in rows /\ c \in rows
        BY <1>3, <4>1
      <4> QED  BY <1>9, <2>1, <4>2 DEF NoTwo
    <3> QED  BY <3>1, <3>2
  <2>2. ASSUME NEW a \in kept \cup came, NEW c \in kept \cup came, a.mark = c.mark, a.mark \notin {0, o}
        PROVE  a.id = c.id
    <3>1. PICK r \in rows : Origin(rows, b, a, r)
      BY <1>7, <2>2
    <3>2. PICK q \in rows : Origin(rows, b, c, q)
      BY <1>7, <2>2
    <3>3. r = q
      <4>1. r.mark = q.mark /\ r.mark \notin {0, o}
        BY <2>2, <3>1, <3>2 DEF Origin
      <4> QED  BY <1>9, <4>1 DEF NoTwo
    <3>4. ASSUME NEW k \in DOMAIN b.renamed, NEW x \in left
          PROVE  x.id # b.renamed[k][1]
      BY <3>4 DEF Remaining
    <3>5. CASE r \in left /\ r.id = a.id
      <4>1. \A k \in Handing(rows, b.renamed, c.id) : k \in DOMAIN b.renamed
        BY DEF Handing
      <4>2. q.id = c.id
        BY <3>2, <3>3, <3>4, <3>5, <4>1 DEF Origin
      <4> QED  BY <3>3, <3>5, <4>2
    <3>6. CASE \E k \in Handing(rows, b.renamed, a.id) : r.id = b.renamed[k][1]
      <4>1. PICK k \in Handing(rows, b.renamed, a.id) : r.id = b.renamed[k][1]
        BY <3>6
      <4>2. k \in DOMAIN b.renamed
        BY <4>1 DEF Handing
      <4>3. PICK j \in Handing(rows, b.renamed, c.id) : q.id = b.renamed[j][1]
        BY <3>2, <3>3, <3>4, <4>1, <4>2 DEF Origin
      <4>4. j \in DOMAIN b.renamed
        BY <4>3 DEF Handing
      <4>5. j \in Nat /\ k \in Nat /\ j >= 1 /\ k >= 1
        <5>1. b.renamed \in Seq(Names \X Names)
          BY DEF DeltaBatch, Pairs
        <5> QED  BY <4>2, <4>4, <5>1
      <4>6. b.renamed[j][1] = b.renamed[k][1]
        BY <3>3, <4>1, <4>3
      <4>7. ~(j \in 1 .. k - 1) /\ ~(k \in 1 .. j - 1)
        BY <4>1, <4>3, <4>6 DEF Handing
      <4>8. j = k
        BY <4>5, <4>7
      <4>9. FinalName(b.renamed[k][2], b.renamed, k) = a.id
        BY <4>1 DEF Handing
      <4>10. FinalName(b.renamed[j][2], b.renamed, j) = c.id
        BY <4>3 DEF Handing
      <4> QED  BY <4>8, <4>9, <4>10
    <3> QED  BY <3>1, <3>5, <3>6 DEF Origin
  <2> QED  BY <2>1, <2>2 DEF NoTwo
<1> HIDE DEF kept, came
<1> QED  BY <1>4, <1>5, <1>6, <1>8, <1>9

\* What is shown after a batch, or after a merge, in the place of some rows.
Follows(shown, rows, o) ==
  /\ shown \in Seq(Row) /\ InOrder(shown)
  /\ MarksOf(Range(shown), Range(rows), o)
  /\ NoTwo(Range(rows), o) => Single(shown, o)

LEMMA DeltaFollows ==
  ASSUME NEW o, NEW rows \in Seq(Row), NEW b \in DeltaBatch
  PROVE  Follows(Delta(rows, b), rows, o)
<1> DEFINE R == Range(rows)
           S == AfterDelta(R, b)
<1>1. R \subseteq Row /\ IsFiniteSet(R)
  BY Entries
<1>2. Delta(rows, b) = Sorted(S)
  BY DEF Delta, AfterDelta
<1> HIDE DEF R, S
<1>3. S \in SUBSET Row /\ IsFiniteSet(S) /\ MarksOf(S, R, o) /\ (NoTwo(R, o) => NoTwo(S, o))
  BY <1>1, AfterDeltaHas DEF S
<1>4. Sorted(S) \in Seq(Row) /\ Range(Sorted(S)) = S /\ InOrder(Sorted(S))
  BY <1>3, SortedLists
<1>5. NoTwo(R, o) => Single(Sorted(S), o)
  BY <1>3, SortedSingle
<1> QED  BY <1>2, <1>3, <1>4, <1>5 DEF Follows, R

\* Rows without a mark.
LEMMA UnmarkedIs ==
  ASSUME NEW o, NEW ids \in SUBSET Names
  PROVE  /\ Unmarked(ids) \in SUBSET Row /\ IsFiniteSet(Unmarked(ids)) /\ NoTwo(Unmarked(ids), o)
         /\ (\A a \in Unmarked(ids) : a.mark = 0) /\ NamesOf(Unmarked(ids)) = ids
<1> DEFINE f == [n \in ids |-> [id |-> n, mark |-> 0]]
           U == Unmarked(ids)
<1>1. IsFiniteSet(ids)
  <2>1. IsFiniteSet(Names)
    BY NamesAssumption, FS_Interval DEF Names
  <2> QED  BY <2>1, FS_Subset
<1>2. /\ \A a \in U : a \in Row /\ a.mark = 0 /\ a.id \in ids /\ a = [id |-> a.id, mark |-> 0]
      /\ \A n \in ids : [id |-> n, mark |-> 0] \in U
  BY DEF Unmarked, Row
<1>3. DOMAIN f = ids /\ f = [x \in DOMAIN f |-> f[x]]
  OBVIOUS
<1>4. Range(f) = U
  <2>1. Range(f) = {[id |-> n, mark |-> 0] : n \in ids}
    BY DEF Range
  <2> HIDE DEF U
  <2> QED  BY <1>2, <2>1
<1> HIDE DEF f, U
<1>5. IsFiniteSet(U)
  BY <1>1, <1>3, <1>4, FiniteRange
<1>6. NamesOf(U) = ids
  <2>1. \A n \in ids : \E a \in U : a.id = n
    <3> TAKE n \in ids
    <3>1. [id |-> n, mark |-> 0] \in U /\ [id |-> n, mark |-> 0].id = n
      BY <1>2
    <3> QED  BY <3>1
  <2> QED  BY <1>2, <2>1 DEF NamesOf
<1>7. NoTwo(U, o)
  <2>1. \A a, b \in U : a.id = b.id => a = b
    BY <1>2
  <2> QED  BY <1>2, <2>1 DEF NoTwo
<1> QED  BY <1>2, <1>5, <1>6, <1>7 DEF U

LEMMA ReconciledFollows ==
  ASSUME NEW o, NEW rows \in Seq(Row), NEW names \in SUBSET Names
  PROVE  Follows(Reconciled(rows, names), rows, o)
<1> DEFINE R == Range(rows)
           kept == {row \in R : row.id \in names}
           fresh == Unmarked(names \ Ids(rows))
           S == kept \cup fresh
<1>1. R \subseteq Row /\ IsFiniteSet(R) /\ IsFiniteSet(Names) /\ Ids(rows) = NamesOf(R)
  BY Entries, NamesAre
<1>2. Reconciled(rows, names) = Sorted(S)
  BY DEF Reconciled
<1>3. \A a \in fresh : a \in Row /\ a.mark = 0 /\ a.id \in names \ Ids(rows) /\ a = [id |-> a.id, mark |-> 0]
  BY DEF Unmarked, Row
<1>4. kept \subseteq R
  OBVIOUS
<1>5. IsFiniteSet(fresh)
  BY UnmarkedIs
<1>6. IsFiniteSet(S)
  <2>1. IsFiniteSet(kept)
    BY <1>1, <1>4, FS_Subset
  <2> HIDE DEF kept, fresh
  <2> QED  BY <1>5, <2>1, FS_Union
<1>7. S \in SUBSET Row
  BY <1>1, <1>3, <1>4
<1>8. MarksOf(S, R, o)
  BY <1>3, <1>4 DEF MarksOf
<1>9. ASSUME NoTwo(R, o)
      PROVE  NoTwo(S, o)
  <2>1. ASSUME NEW a \in S, NEW c \in S, a.id = c.id \/ (a.mark = c.mark /\ a.mark \notin {0, o})
        PROVE  a = c
    <3>1. CASE a \in kept /\ c \in kept
      BY <1>4, <1>9, <2>1, <3>1 DEF NoTwo
    <3>2. CASE a \in fresh /\ c \in fresh
      BY <1>3, <2>1, <3>2
    <3>3. \A x \in kept, y \in fresh : x.id # y.id /\ y.mark = 0
      BY <1>1, <1>3 DEF NamesOf
    <3> QED  BY <2>1, <3>1, <3>2, <3>3
  <2> QED  BY <2>1 DEF NoTwo
<1> HIDE DEF R, S
<1>10. Sorted(S) \in Seq(Row) /\ Range(Sorted(S)) = S /\ InOrder(Sorted(S))
  BY <1>6, <1>7, SortedLists
<1>11. NoTwo(R, o) => Single(Sorted(S), o)
  BY <1>6, <1>7, <1>9, SortedSingle
<1> QED  BY <1>2, <1>8, <1>10, <1>11 DEF Follows, R

-----------------------------------------------------------------------------
(* Names that follow renames.  *)

LEMMA FinalNameIn ==
  ASSUME NEW S, Names \subseteq S, NEW name \in S, NEW renamed \in Pairs, NEW k \in Nat
  PROVE  FinalName(name, renamed, k) \in S
<1> DEFINE n == Len(renamed)
           Next1(j, s) == IF j > k /\ renamed[j][1] = s THEN renamed[j][2] ELSE s
           F == [x \in (1 .. n) \X S |-> Next1(x[1], x[2])]
           Name[j \in 0 .. n] == IF j = 0 THEN name
                                 ELSE IF j > k /\ renamed[j][1] = Name[j - 1] THEN renamed[j][2]
                                 ELSE Name[j - 1]
<1>1. n \in Nat /\ \A j \in 1 .. n : renamed[j] \in Names \X Names
  BY DEF Pairs
<1>2. \A j \in 1 .. n : \A s \in S : Next1(j, s) \in S
  BY <1>1
<1>3. FinalName(name, renamed, k) = Name[n]
  BY DEF FinalName
<1>4. \A j \in 1 .. n : \A s \in S : F[<<j, s>>] = Next1(j, s)
  OBVIOUS
<1>5. \A j \in 1 .. n : \A s \in S : F[<<j, s>>] \in S
  BY <1>2, <1>4
<1> HIDE DEF F
<1>6. PICK f \in [0 .. n -> S] : Steps(f, name, n, F)
  <2> HIDE DEF n
  <2> QED  BY <1>1, <1>5, Iterates
<1>7. f = [j \in 0 .. n |-> IF j = 0 THEN name ELSE Next1(j, f[j - 1])]
  <2>1. f = [j \in 0 .. n |-> IF j = 0 THEN name ELSE F[<<j, f[j - 1]>>]]
    BY <1>6 DEF Steps
  <2>2. ASSUME NEW j \in 0 .. n
        PROVE  f[j] = IF j = 0 THEN name ELSE Next1(j, f[j - 1])
    <3>1. f[j] = IF j = 0 THEN name ELSE F[<<j, f[j - 1]>>]
      BY <2>1, Zenon
    <3>2. CASE j # 0
      <4>1. j \in 1 .. n /\ j - 1 \in 0 .. n
        BY <1>1, <3>2
      <4>2. f[j - 1] \in S
        BY <4>1
      <4>3. F[<<j, f[j - 1]>>] = Next1(j, f[j - 1])
        BY <1>4, <4>1, <4>2
      <4> QED  BY <3>1, <3>2, <4>3
    <3> QED  BY <3>1, <3>2
  <2> HIDE DEF Next1
  <2> QED  BY <2>2
<1>8. Name = [j \in 0 .. n |-> IF j = 0 THEN name ELSE Next1(j, Name[j - 1])]
  BY <1>7, Zenon
<1> HIDE DEF Name
<1>9. Name[0] = name /\ \A j \in 1 .. n : Name[j] = Next1(j, Name[j - 1])
  <2> HIDE DEF Next1, n
  <2>1. 0 \in 0 .. n /\ \A j \in 1 .. n : j \in 0 .. n /\ j # 0
    BY <1>1
  <2>2. \A j \in 0 .. n : Name[j] = IF j = 0 THEN name ELSE Next1(j, Name[j - 1])
    BY <1>8, Zenon
  <2> QED  BY <2>1, <2>2
<1>10. \A j \in 1 .. n : Name[j - 1] \in S => Name[j] \in S
  <2> HIDE DEF Next1
  <2> QED  BY <1>2, <1>9
<1>11. \A j \in 0 .. n : Name[j] \in S
  <2> HIDE DEF n, Next1
  <2> QED  BY <1>1, <1>9, <1>10, AllIn
<1> QED  BY <1>1, <1>3, <1>11

\* The renames among some records.
LEMMA RenamesIn ==
  ASSUME NEW records \in Seq((0 .. LastName) \X (0 .. LastName))
  PROVE  Renames(records) \in Pairs
<1> DEFINE n == Len(records)
           Is(j) == records[j][1] # records[j][2] /\ records[j][1] # 0 /\ records[j][2] # 0
           Next1(j, s) == IF Is(j) THEN Append(s, records[j]) ELSE s
           F == [x \in (1 .. n) \X Pairs |-> Next1(x[1], x[2])]
           First[j \in 0 .. n] ==
             IF j = 0 THEN <<>>
             ELSE IF records[j][1] # records[j][2] /\ records[j][1] # 0 /\ records[j][2] # 0
             THEN Append(First[j - 1], records[j])
             ELSE First[j - 1]
<1>1. n \in Nat /\ \A j \in 1 .. n : records[j] \in (0 .. LastName) \X (0 .. LastName)
  OBVIOUS
<1>2. ASSUME NEW j \in 1 .. n, NEW s \in Pairs
      PROVE  Next1(j, s) \in Pairs
  <2>1. Is(j) => records[j] \in Names \X Names
    BY <1>1, NamesAssumption DEF Names
  <2> QED  BY <2>1 DEF Pairs
<1>3. Renames(records) = First[n]
  BY DEF Renames
<1>4. \A j \in 1 .. n : \A s \in Pairs : F[<<j, s>>] = Next1(j, s)
  OBVIOUS
<1>5. \A j \in 1 .. n : \A s \in Pairs : F[<<j, s>>] \in Pairs
  BY <1>2, <1>4
<1> HIDE DEF F
<1>6. PICK f \in [0 .. n -> Pairs] : Steps(f, <<>>, n, F)
  <2>1. <<>> \in Pairs
    BY DEF Pairs
  <2> HIDE DEF n
  <2> QED  BY <1>1, <1>5, <2>1, Iterates
<1>7. f = [j \in 0 .. n |-> IF j = 0 THEN <<>> ELSE Next1(j, f[j - 1])]
  <2>1. f = [j \in 0 .. n |-> IF j = 0 THEN <<>> ELSE F[<<j, f[j - 1]>>]]
    BY <1>6 DEF Steps
  <2>2. ASSUME NEW j \in 0 .. n
        PROVE  f[j] = IF j = 0 THEN <<>> ELSE Next1(j, f[j - 1])
    <3>1. f[j] = IF j = 0 THEN <<>> ELSE F[<<j, f[j - 1]>>]
      BY <2>1, Zenon
    <3>2. CASE j # 0
      <4>1. j \in 1 .. n /\ j - 1 \in 0 .. n
        BY <1>1, <3>2
      <4>2. f[j - 1] \in Pairs
        BY <4>1
      <4>3. F[<<j, f[j - 1]>>] = Next1(j, f[j - 1])
        BY <1>4, <4>1, <4>2
      <4> QED  BY <3>1, <3>2, <4>3
    <3> QED  BY <3>1, <3>2
  <2> HIDE DEF Next1
  <2> QED  BY <2>2
<1>8. First = [j \in 0 .. n |-> IF j = 0 THEN <<>> ELSE Next1(j, First[j - 1])]
  BY <1>7, Zenon
<1> HIDE DEF First
<1>9. First[0] = <<>> /\ \A j \in 1 .. n : First[j] = Next1(j, First[j - 1])
  <2> HIDE DEF Next1, n
  <2>1. 0 \in 0 .. n /\ \A j \in 1 .. n : j \in 0 .. n /\ j # 0
    BY <1>1
  <2>2. \A j \in 0 .. n : First[j] = IF j = 0 THEN <<>> ELSE Next1(j, First[j - 1])
    BY <1>8, Zenon
  <2> QED  BY <2>1, <2>2
<1>10. \A j \in 1 .. n : First[j - 1] \in Pairs => First[j] \in Pairs
  <2> HIDE DEF Next1
  <2> QED  BY <1>2, <1>9
<1>11. \A j \in 0 .. n : First[j] \in Pairs
  <2>1. First[0] \in Pairs
    BY <1>9 DEF Pairs
  <2> HIDE DEF n, Next1
  <2> QED  BY <1>1, <1>10, <2>1, AllIn
<1> QED  BY <1>1, <1>3, <1>11

-----------------------------------------------------------------------------
(* Rows of new folders are gathered.  *)

Item == [leaf : Names, order : Nat \ {0}]

\* Rows in their order, but for those that share the outdated number.
Precedes(a, b, o) == Before(a, b) \/ (a.mark = b.mark /\ a.mark = o /\ o # 0)

Placed(rows, o) == \A i, j \in DOMAIN rows : i < j => Precedes(rows[i], rows[j], o)

LEMMA OrderIsPlace ==
  ASSUME NEW rows, NEW o, InOrder(rows)
  PROVE  Placed(rows, o)
BY DEF InOrder, Placed, Precedes

\* A row is taken out.
LEMMA TakenOut ==
  ASSUME NEW o, NEW s \in Seq(Row), NEW i \in DOMAIN s, NEW r, r = RemoveAt(s, i)
  PROVE  /\ r \in Seq(Row)
         /\ Range(s) = Range(r) \cup {s[i]}
         /\ Placed(s, o) => Placed(r, o)
         /\ Single(s, o) => Single(r, o) /\ s[i] \notin Range(r)
<1>1. r \in Seq(Row) /\ Lacks(r, s, i)
  BY Removed
<1>2. /\ Len(s) \in Nat /\ Len(r) = Len(s) - 1 /\ DOMAIN s = 1 .. Len(s) /\ DOMAIN r = 1 .. Len(r)
      /\ \A k \in 1 .. Len(r) : r[k] = IF k < i THEN s[k] ELSE s[k + 1]
  BY <1>1 DEF Lacks
<1> DEFINE from(k) == IF k < i THEN k ELSE k + 1
<1>3. /\ \A k \in 1 .. Len(r) : from(k) \in 1 .. Len(s) /\ from(k) # i /\ r[k] = s[from(k)]
      /\ \A k, l \in 1 .. Len(r) : k < l => from(k) < from(l)
  BY <1>2
<1>4. \A m \in 1 .. Len(s) : m # i => \E k \in 1 .. Len(r) : r[k] = s[m]
  <2>1. ASSUME NEW m \in 1 .. Len(s), m # i
        PROVE  \E k \in 1 .. Len(r) : r[k] = s[m]
    <3>1. CASE m < i
      BY <1>2, <3>1
    <3>2. CASE m > i
      <4>1. m - 1 \in 1 .. Len(r) /\ r[m - 1] = s[m]
        BY <1>2, <3>2
      <4> QED  BY <4>1
    <3> QED  BY <1>2, <2>1, <3>1, <3>2
  <2> QED  BY <2>1
<1> HIDE DEF from
<1>5. Range(s) = Range(r) \cup {s[i]}
  <2>1. \A m \in 1 .. Len(s) : s[m] \in Range(r) \cup {s[i]}
    <3>1. \A k \in 1 .. Len(r) : r[k] \in Range(r)
      BY <1>2 DEF Range
    <3> QED  BY <1>4, <3>1
  <2>2. \A a \in Range(r) : a \in Range(s)
    BY <1>2, <1>3 DEF Range
  <2>3. s[i] \in Range(s)
    BY DEF Range
  <2>4. \A a \in Range(s) : \E m \in 1 .. Len(s) : a = s[m]
    BY <1>2 DEF Range
  <2> QED  BY <2>1, <2>2, <2>3, <2>4
<1>6. ASSUME Placed(s, o)
      PROVE  Placed(r, o)
  BY <1>2, <1>3, <1>6 DEF Placed
<1>7. ASSUME Single(s, o)
      PROVE  Single(r, o) /\ s[i] \notin Range(r)
  <2>1. \A k, l \in DOMAIN s : s[k] = s[l] => k = l
    BY <1>7 DEF Single
  <2>2. s[i] \notin Range(r)
    <3>1. \A k \in 1 .. Len(r) : r[k] # s[i]
      BY <1>2, <1>3, <2>1
    <3> QED  BY <1>2, <3>1 DEF Range
  <2>3. NoTwo(Range(r), o)
    BY <1>5, <1>7 DEF Single, NoTwo
  <2>4. ASSUME NEW k \in DOMAIN r, NEW l \in DOMAIN r, r[k] = r[l]
        PROVE  k = l
    <3>1. from(k) = from(l)
      BY <1>2, <1>3, <2>1, <2>4
    <3>2. ~(k < l) /\ ~(l < k)
      BY <1>2, <1>3, <3>1
    <3> QED  BY <1>2, <3>2
  <2> QED  BY <2>2, <2>3, <2>4 DEF Single
<1> QED  BY <1>1, <1>5, <1>6, <1>7

\* A row is put in.
LEMMA PutIn ==
  ASSUME NEW o, NEW r \in Seq(Row), NEW at \in 1 .. Len(r) + 1, NEW e \in Row, NEW t, t = InsertAt(r, at, e)
  PROVE  /\ t \in Seq(Row)
         /\ Range(t) = Range(r) \cup {e}
         /\ Placed(r, o) /\ (\A k \in 1 .. Len(r) : IF k < at THEN Precedes(r[k], e, o) ELSE Precedes(e, r[k], o))
              => Placed(t, o)
         /\ Single(r, o) /\ (\A a \in Range(r) : a.id # e.id /\ (a.mark # e.mark \/ a.mark \in {0, o}))
              => Single(t, o)
<1>1. t \in Seq(Row) /\ Gains(t, r, at, e)
  BY Inserted
<1>2. /\ Len(r) \in Nat /\ Len(t) = Len(r) + 1 /\ DOMAIN r = 1 .. Len(r) /\ DOMAIN t = 1 .. Len(t)
      /\ \A k \in 1 .. Len(t) : t[k] = IF k < at THEN r[k] ELSE IF k = at THEN e ELSE r[k - 1]
  BY <1>1 DEF Gains
<1> DEFINE from(k) == IF k < at THEN k ELSE k - 1
<1>3. /\ \A k \in 1 .. Len(t) : k # at => from(k) \in 1 .. Len(r) /\ t[k] = r[from(k)]
      /\ \A k, l \in 1 .. Len(t) : k # at /\ l # at /\ k < l => from(k) < from(l)
      /\ \A k \in 1 .. Len(t) : k # at => (from(k) < at <=> k < at)
      /\ at \in 1 .. Len(t) /\ t[at] = e
  BY <1>2
<1>4. \A m \in 1 .. Len(r) : \E k \in 1 .. Len(t) : t[k] = r[m]
  <2>1. ASSUME NEW m \in 1 .. Len(r)
        PROVE  \E k \in 1 .. Len(t) : t[k] = r[m]
    <3>1. CASE m < at
      BY <1>2, <3>1
    <3>2. CASE m >= at
      <4>1. m + 1 \in 1 .. Len(t) /\ t[m + 1] = r[m]
        BY <1>2, <3>2
      <4> QED  BY <4>1
    <3> QED  BY <1>2, <3>1, <3>2
  <2> QED  BY <2>1
<1> HIDE DEF from
<1>5. Range(t) = Range(r) \cup {e}
  <2>1. \A a \in Range(t) : a \in Range(r) \cup {e}
    <3>1. \A k \in 1 .. Len(t) : t[k] = e \/ \E m \in 1 .. Len(r) : t[k] = r[m]
      BY <1>3
    <3> QED  BY <1>2, <3>1 DEF Range
  <2>2. \A a \in Range(r) : a \in Range(t)
    <3>1. \A k \in 1 .. Len(t) : t[k] \in Range(t)
      BY <1>2 DEF Range
    <3>2. \A a \in Range(r) : \E m \in 1 .. Len(r) : a = r[m]
      BY <1>2 DEF Range
    <3> QED  BY <1>4, <3>1, <3>2
  <2>3. e \in Range(t)
    BY <1>2, <1>3 DEF Range
  <2> QED  BY <2>1, <2>2, <2>3
<1>6. ASSUME Placed(r, o), \A k \in 1 .. Len(r) : IF k < at THEN Precedes(r[k], e, o) ELSE Precedes(e, r[k], o)
      PROVE  Placed(t, o)
  <2>1. ASSUME NEW k \in 1 .. Len(t), NEW l \in 1 .. Len(t), k < l
        PROVE  Precedes(t[k], t[l], o)
    <3>1. CASE k = at
      BY <1>2, <1>3, <1>6, <2>1, <3>1
    <3>2. CASE l = at
      BY <1>2, <1>3, <1>6, <2>1, <3>2
    <3>3. CASE k # at /\ l # at
      BY <1>2, <1>3, <1>6, <2>1, <3>3 DEF Placed
    <3> QED  BY <3>1, <3>2, <3>3
  <2> QED  BY <1>2, <2>1 DEF Placed
<1>7. ASSUME Single(r, o), \A a \in Range(r) : a.id # e.id /\ (a.mark # e.mark \/ a.mark \in {0, o})
      PROVE  Single(t, o)
  <2>1. NoTwo(Range(t), o)
    BY <1>5, <1>7 DEF Single, NoTwo
  <2>2. ASSUME NEW k \in DOMAIN t, NEW l \in DOMAIN t, t[k] = t[l]
        PROVE  k = l
    <3>1. \A m \in 1 .. Len(r) : r[m] \in Range(r) /\ r[m] # e
      BY <1>2, <1>7 DEF Range
    <3>2. k = at <=> l = at
      BY <1>2, <1>3, <2>2, <3>1
    <3>3. CASE k # at
      <4>1. from(k) = from(l)
        BY <1>2, <1>3, <1>7, <2>2, <3>2, <3>3 DEF Single
      <4>2. ~(k < l) /\ ~(l < k)
        BY <1>2, <1>3, <3>2, <3>3, <4>1
      <4> QED  BY <1>2, <4>2
    <3> QED  BY <3>2, <3>3
  <2> QED  BY <2>1, <2>2 DEF Single
<1> QED  BY <1>1, <1>5, <1>6, <1>7

\* The row of a new folder gets its place.
LEMMA MarkedKeeps ==
  ASSUME NEW o, NEW rows \in Seq(Row), NEW item \in Item, item.leaf \in Ids(rows)
  PROVE  LET t == Marked(rows, item) IN
         /\ t \in Seq(Row) /\ Ids(t) = Ids(rows)
         /\ \E k \in DOMAIN t : t[k].mark = item.order
         /\ \A a \in Range(t) : a.mark = item.order \/ a \in Range(rows)
         /\ (\A a \in Range(rows) : a.mark # item.order \/ a.mark = o) =>
              /\ Single(rows, o) => Single(t, o)
              /\ Single(rows, o) /\ Placed(rows, o) => Placed(t, o)
<1> DEFINE i == IndexOf(rows, item.leaf)
           rest == RemoveAt(rows, i)
           later == {j \in DOMAIN rest : rest[j].mark > item.order}
           at == IF later = {} THEN Len(rest) + 1 ELSE Min(later)
           e == [rows[i] EXCEPT !.mark = item.order]
           t == Marked(rows, item)
<1>1. i \in DOMAIN rows /\ rows[i].id = item.leaf /\ rows[i] \in Row
  <2>1. DOMAIN rows = 1 .. Len(rows)
    OBVIOUS
  <2>2. i \in DOMAIN rows /\ rows[i].id = item.leaf
    BY <2>1, IndexIs
  <2> QED  BY <2>2
<1>2. t = InsertAt(rest, at, e)
  BY DEF Marked
<1>3. item.order \in Nat \ {0} /\ item.leaf \in Names
  BY DEF Item
<1>4. e \in Row /\ e.id = item.leaf /\ e.mark = item.order
  BY <1>1, <1>3 DEF Row
<1> HIDE DEF e, i, t
<1>5. /\ rest \in Seq(Row) /\ Range(rows) = Range(rest) \cup {rows[i]}
      /\ Placed(rows, o) => Placed(rest, o)
      /\ Single(rows, o) => Single(rest, o) /\ rows[i] \notin Range(rest)
  BY <1>1, TakenOut
<1> HIDE DEF rest
<1>6. /\ DOMAIN rest = 1 .. Len(rest) /\ Len(rest) \in Nat
      /\ \A k \in 1 .. Len(rest) : rest[k] \in Row /\ rest[k].mark \in Nat /\ rest[k] \in Range(rest)
  <2>1. /\ DOMAIN rest = 1 .. Len(rest) /\ Len(rest) \in Nat
        /\ \A k \in 1 .. Len(rest) : rest[k] \in Row
    BY <1>5
  <2>2. \A a \in Row : a.mark \in Nat
    BY DEF Row
  <2>3. \A k \in 1 .. Len(rest) : rest[k] \in Range(rest)
    BY <2>1 DEF Range
  <2> QED  BY <2>1, <2>2, <2>3
<1>7. /\ at \in 1 .. Len(rest) + 1
      /\ \A k \in 1 .. Len(rest) : k < at => rest[k].mark <= item.order
      /\ at \in 1 .. Len(rest) => rest[at].mark > item.order
  <2>1. CASE later = {}
    BY <1>3, <1>6, <2>1
  <2>2. CASE later # {}
    <3>1. later \in SUBSET Nat
      BY <1>6
    <3>2. at \in later /\ \A j \in later : at <= j
      BY <2>2, <3>1, LeastPlace
    <3> HIDE DEF at
    <3> QED  BY <1>3, <1>6, <3>2
  <2> QED  BY <2>1, <2>2
<1> HIDE DEF at, later
<1>8. /\ t \in Seq(Row) /\ Range(t) = Range(rest) \cup {e}
      /\ Placed(rest, o) /\ (\A k \in 1 .. Len(rest) : IF k < at THEN Precedes(rest[k], e, o) ELSE Precedes(e, rest[k], o))
              => Placed(t, o)
      /\ Single(rest, o) /\ (\A a \in Range(rest) : a.id # e.id /\ (a.mark # e.mark \/ a.mark \in {0, o}))
              => Single(t, o)
  <2>1. rest \in Seq(Row) /\ at \in 1 .. Len(rest) + 1 /\ e \in Row /\ t = InsertAt(rest, at, e)
    BY <1>2, <1>4, <1>5, <1>7
  <2> QED  BY ONLY <2>1, PutIn, Zenon
<1>9. Ids(t) = Ids(rows)
  <2>1. Ids(t) = NamesOf(Range(t)) /\ Ids(rows) = NamesOf(Range(rows))
    BY <1>8, NamesAre
  <2>2. NamesOf(Range(rest) \cup {e}) = NamesOf(Range(rest) \cup {rows[i]})
    BY <1>1, <1>4 DEF NamesOf
  <2> QED  BY <1>5, <1>8, <2>1, <2>2
<1>10. \E k \in DOMAIN t : t[k].mark = item.order
  BY <1>4, <1>8 DEF Range
<1>11. \A a \in Range(t) : a.mark = item.order \/ a \in Range(rows)
  BY <1>4, <1>5, <1>8
<1>12. ASSUME \A a \in Range(rows) : a.mark # item.order \/ a.mark = o, Single(rows, o)
       PROVE  Single(t, o)
  <2>1. Single(rest, o) /\ rows[i] \notin Range(rest)
    BY <1>5, <1>12
  <2>2. NoTwo(Range(rows), o)
    BY <1>12 DEF Single
  <2>3. ASSUME NEW a \in Range(rest)
        PROVE  a.id # e.id /\ (a.mark # e.mark \/ a.mark = o)
    <3>1. a \in Range(rows) /\ rows[i] \in Range(rows) /\ a # rows[i]
      BY <1>5, <2>1
    <3>2. a.id # rows[i].id
      BY <2>2, <3>1 DEF NoTwo
    <3> QED  BY <1>1, <1>4, <1>12, <3>1, <3>2
  <2> QED  BY <1>8, <2>1, <2>3
<1>13. ASSUME \A a \in Range(rows) : a.mark # item.order \/ a.mark = o, Single(rows, o), Placed(rows, o)
       PROVE  Placed(t, o)
  <2>1. Placed(rest, o)
    BY <1>5, <1>13
  <2>2. ASSUME NEW k \in 1 .. Len(rest)
        PROVE  IF k < at THEN Precedes(rest[k], e, o) ELSE Precedes(e, rest[k], o)
    <3>1. (rest[k].mark # item.order \/ rest[k].mark = o) /\ rest[k].mark \in Nat
      BY <1>5, <1>6, <1>13
    <3>2. CASE k < at
      BY <1>3, <1>4, <1>7, <3>1, <3>2 DEF Before, Precedes
    <3>3. CASE ~(k < at)
      <4>1. at \in 1 .. Len(rest) /\ rest[at].mark > item.order /\ at <= k
        BY <1>6, <1>7, <3>3
      <4>2. at = k \/ Precedes(rest[at], rest[k], o)
        BY <1>6, <2>1, <4>1 DEF Placed
      <4>3. rest[k].mark > item.order
        BY <1>3, <1>6, <4>1, <4>2 DEF Before, Precedes
      <4> QED  BY <1>3, <1>4, <3>1, <3>3, <4>3 DEF Before, Precedes
    <3> QED  BY <3>2, <3>3
  <2> QED  BY <1>8, <2>1, <2>2
<1> QED  BY <1>8, <1>9, <1>10, <1>11, <1>12, <1>13 DEF t

\* One step of AllMarked.
OneMarked(s, came, k) ==
  LET created == {item \in came : item.order = k}
  IN IF created = {} THEN s ELSE Marked(s, CHOOSE item \in created : TRUE)

\* Rows that have been gathered in part.
InPart(rows, came, k, t, o) ==
  /\ t \in Seq(Row) /\ Ids(t) = Ids(rows)
  /\ \A a \in Range(t) : a \in Range(rows) \/ \E item \in came : a.mark = item.order /\ item.order <= k
  /\ Single(rows, o) /\ (\A a \in Range(rows) : \A item \in came : a.mark # item.order \/ a.mark = o) =>
       Single(t, o) /\ (Placed(rows, o) => Placed(t, o))

\* A folder that came is to get the number k; a row has it.
Awaited(came, k) == \E item \in came : item.order = k

Bears(t, k) == \E i \in DOMAIN t : t[i].mark = k

\* One step leaves the rows gathered up to k + 1, and a folder that came has its number.
LEMMA OneMarkedKeeps ==
  ASSUME NEW o, NEW rows \in Seq(Row), NEW came \in SUBSET Item, \A item \in came : item.leaf \in Ids(rows),
         NEW k \in Nat, NEW s, InPart(rows, came, k, s, o)
  PROVE  /\ InPart(rows, came, k + 1, OneMarked(s, came, k + 1), o)
         /\ Awaited(came, k + 1) => Bears(OneMarked(s, came, k + 1), k + 1)
<1> DEFINE created == {item \in came : item.order = k + 1}
           new == CHOOSE item \in created : TRUE
           t == OneMarked(s, came, k + 1)
<1>1. \A item \in came : item.order \in Nat
  BY DEF Item
<1>2. CASE created = {}
  <2>1. t = s
    BY <1>2 DEF OneMarked
  <2>2. InPart(rows, came, k + 1, s, o)
    BY <1>1 DEF InPart
  <2>3. ~ Awaited(came, k + 1)
    BY <1>2 DEF Awaited
  <2> QED  BY <2>1, <2>2, <2>3
<1>3. CASE created # {}
  <2>1. new \in came /\ new.order = k + 1
    BY <1>3
  <2>2. t = Marked(s, new)
    BY <1>3 DEF OneMarked
  <2> HIDE DEF new, created, t
  <2>3. new \in Item /\ new.leaf \in Ids(s) /\ s \in Seq(Row)
    BY <2>1 DEF InPart
  <2>4. /\ t \in Seq(Row) /\ Ids(t) = Ids(s)
        /\ \E i \in DOMAIN t : t[i].mark = new.order
        /\ \A a \in Range(t) : a.mark = new.order \/ a \in Range(s)
        /\ (\A a \in Range(s) : a.mark # new.order \/ a.mark = o) =>
             /\ Single(s, o) => Single(t, o)
             /\ Single(s, o) /\ Placed(s, o) => Placed(t, o)
    BY <2>2, <2>3, MarkedKeeps
  <2>5. \A a \in Range(t) : a \in Range(rows) \/ \E item \in came : a.mark = item.order /\ item.order <= k + 1
    <3>1. \A a \in Range(s) : a \in Range(rows) \/ \E item \in came : a.mark = item.order /\ item.order <= k + 1
      BY <1>1 DEF InPart
    <3>2. new.order <= k + 1
      BY <2>1
    <3> QED  BY <2>1, <2>4, <3>1, <3>2
  <2>6. ASSUME Single(rows, o), \A a \in Range(rows) : \A item \in came : a.mark # item.order \/ a.mark = o
        PROVE  Single(t, o) /\ (Placed(rows, o) => Placed(t, o))
    <3>1. Single(s, o) /\ (Placed(rows, o) => Placed(s, o))
      BY <2>6 DEF InPart
    <3>2. ASSUME NEW a \in Range(s)
          PROVE  a.mark # new.order \/ a.mark = o
      <4>1. a \in Range(rows) \/ \E item \in came : a.mark = item.order /\ item.order <= k
        BY DEF InPart
      <4>2. \A item \in came : item.order <= k => item.order # new.order
        BY <1>1, <2>1
      <4> QED  BY <2>1, <2>6, <4>1, <4>2
    <3> QED  BY <2>4, <3>1, <3>2
  <2>7. Ids(t) = Ids(rows)
    BY <2>4 DEF InPart
  <2>8. InPart(rows, came, k + 1, t, o)
    BY <2>4, <2>5, <2>6, <2>7 DEF InPart
  <2>9. Bears(t, k + 1)
    BY <2>1, <2>4 DEF Bears
  <2> QED  BY <2>8, <2>9 DEF t
<1> QED  BY <1>2, <1>3

\* All that came.
LEMMA AllMarkedKeeps ==
  ASSUME NEW o, NEW rows \in Seq(Row), NEW came \in SUBSET Item, \A item \in came : item.leaf \in Ids(rows),
         NEW last \in Nat
  PROVE  LET t == AllMarked(rows, came, last) IN
         /\ InPart(rows, came, last, t, o)
         /\ (\E item \in came : item.order = last) => \E i \in DOMAIN t : t[i].mark = last
<1> DEFINE S == {s \in Seq(Row) : Ids(s) = Ids(rows)}
           F == [x \in (1 .. last) \X S |-> OneMarked(x[2], came, x[1])]
           After[k \in 0 .. last] ==
             IF k = 0 THEN rows
             ELSE LET created == {item \in came : item.order = k}
                  IN IF created = {} THEN After[k - 1]
                     ELSE Marked(After[k - 1], CHOOSE item \in created : TRUE)
<1>1. AllMarked(rows, came, last) = After[last]
  BY DEF AllMarked
<1>2. ASSUME NEW k \in 1 .. last, NEW s \in S
      PROVE  OneMarked(s, came, k) \in S
  <2> DEFINE created == {item \in came : item.order = k}
             new == CHOOSE item \in created : TRUE
  <2>1. CASE created = {}
    BY <2>1 DEF OneMarked
  <2>2. CASE created # {}
    <3>1. new \in Item /\ new.leaf \in Ids(s) /\ s \in Seq(Row)
      BY <2>2
    <3>2. OneMarked(s, came, k) = Marked(s, new)
      BY <2>2 DEF OneMarked
    <3> HIDE DEF new
    <3>3. Marked(s, new) \in Seq(Row) /\ Ids(Marked(s, new)) = Ids(s)
      BY <3>1, MarkedKeeps
    <3> QED  BY <3>2, <3>3
  <2> QED  BY <2>1, <2>2
<1>3. rows \in S
  OBVIOUS
<1>4. \A k \in 1 .. last : \A s \in S : F[<<k, s>>] = OneMarked(s, came, k)
  OBVIOUS
<1> HIDE DEF S, F
<1>5. \A k \in 1 .. last : \A s \in S : F[<<k, s>>] \in S
  BY <1>2, <1>4
<1>6. PICK f \in [0 .. last -> S] : Steps(f, rows, last, F)
  BY <1>3, <1>5, Iterates
<1>7. f = [k \in 0 .. last |-> IF k = 0 THEN rows ELSE OneMarked(f[k - 1], came, k)]
  <2>1. f = [k \in 0 .. last |-> IF k = 0 THEN rows ELSE F[<<k, f[k - 1]>>]]
    BY <1>6 DEF Steps
  <2>2. ASSUME NEW k \in 0 .. last
        PROVE  f[k] = IF k = 0 THEN rows ELSE OneMarked(f[k - 1], came, k)
    <3>1. f[k] = IF k = 0 THEN rows ELSE F[<<k, f[k - 1]>>]
      BY <2>1, Zenon
    <3>2. CASE k # 0
      <4>1. k \in 1 .. last /\ k - 1 \in 0 .. last
        BY <3>2
      <4>2. F[<<k, f[k - 1]>>] = OneMarked(f[k - 1], came, k)
        BY <1>4, <4>1
      <4> QED  BY <3>1, <3>2, <4>2
    <3> QED  BY <3>1, <3>2
  <2> QED  BY <2>2
<1>8. After = [k \in 0 .. last |-> IF k = 0 THEN rows ELSE OneMarked(After[k - 1], came, k)]
  BY <1>7, Zenon DEF OneMarked
<1> HIDE DEF After
<1>9. After[0] = rows /\ \A k \in 1 .. last : After[k] = OneMarked(After[k - 1], came, k)
  <2>1. 0 \in 0 .. last /\ \A k \in 1 .. last : k \in 0 .. last /\ k # 0
    OBVIOUS
  <2>2. \A k \in 0 .. last : After[k] = IF k = 0 THEN rows ELSE OneMarked(After[k - 1], came, k)
    BY <1>8, Zenon
  <2> QED  BY <2>1, <2>2
<1> DEFINE P == {k \in Nat : k \in 0 .. last => InPart(rows, came, k, After[k], o)}
           g == [k \in 0 .. last |-> k]
<1>10. 0 \in P
  BY <1>9 DEF InPart
<1>11. ASSUME NEW k \in 1 .. last, k - 1 \in P
       PROVE  k \in P
  <2>1. InPart(rows, came, k - 1, After[k - 1], o) /\ k - 1 \in Nat
    BY <1>11
  <2>2. InPart(rows, came, (k - 1) + 1, OneMarked(After[k - 1], came, (k - 1) + 1), o)
    BY <2>1, OneMarkedKeeps
  <2>3. (k - 1) + 1 = k
    OBVIOUS
  <2> QED  BY <1>9, <2>2, <2>3
<1>12. \A k \in 0 .. last : k \in P
  <2>1. /\ g[0] = 0 /\ \A k \in 0 .. last : g[k] = k
        /\ \A k \in 1 .. last : g[k] = k /\ g[k - 1] = k - 1
    OBVIOUS
  <2> HIDE DEF P, g
  <2>2. g[0] \in P /\ \A k \in 1 .. last : g[k - 1] \in P => g[k] \in P
    BY <1>10, <1>11, <2>1
  <2>3. \A k \in 0 .. last : g[k] \in P
    BY <2>2, AllIn
  <2> QED  BY <2>1, <2>3
<1>13. InPart(rows, came, last, After[last], o)
  BY <1>12
<1>14. ASSUME NEW item \in came, item.order = last
       PROVE  \E i \in DOMAIN After[last] : After[last][i].mark = last
  <2>1. last \in 1 .. last /\ last - 1 \in Nat /\ last - 1 \in 0 .. last /\ (last - 1) + 1 = last
    BY <1>14 DEF Item
  <2>2. InPart(rows, came, last - 1, After[last - 1], o)
    BY <1>12, <2>1
  <2>3. After[last] = OneMarked(After[last - 1], came, (last - 1) + 1)
    BY <1>9, <2>1
  <2> DEFINE k == last - 1
             s == After[k]
  <2> HIDE DEF P
  <2>4. k \in Nat /\ InPart(rows, came, k, s, o) /\ Awaited(came, k + 1)
    BY <1>14, <2>1, <2>2 DEF Awaited
  <2>5. k + 1 = last /\ After[last] = OneMarked(s, came, k + 1)
    BY <2>1, <2>3
  <2> HIDE DEF k, s
  <2>6. Bears(OneMarked(s, came, k + 1), k + 1)
    BY <2>4, OneMarkedKeeps
  <2>7. Bears(After[last], last)
    BY <2>5, <2>6
  <2> QED  BY <2>7 DEF Bears
<1> HIDE DEF P, g
<1> QED  BY <1>1, <1>13, <1>14

-----------------------------------------------------------------------------
(* What is typed in the pane, and how an edit and the rows belong together.  *)

Modes == {"complete", "updating", "recovering", "loading"}

Text == [for : 0 .. LastName, text : 0 .. LastName]

Edit == [id : 0 .. LastName, offset : Int, text : 0 .. LastName]

PaneRecord ==
  [rows : Seq(Row), mode : Modes, top : Int, selected : SUBSET Names, edit : Edit, typed : Text,
   posted : BOOLEAN, busy : BOOLEAN, focus : {"list", "edit", "elsewhere"},
   pending : SUBSET Item, sequence : Nat, outdated : Nat, generation : Nat]

ViewRecord == [selected : SUBSET Names, anchor : 0 .. LastName, top : Int]

\* What was typed is for the open edit, the focus can only be in an open edit,
\* and while a command of the pane runs there is none.
OneEdit(p) ==
  /\ p.typed # NoText => p.edit # NoEdit /\ p.typed.for = p.edit.id
  /\ p.focus = "edit" => p.edit # NoEdit
  /\ p.busy => p.edit = NoEdit

\* An open edit lies on the row of its item, which is in view.
OnRow(p) ==
  p.edit # NoEdit =>
    /\ p.edit.id \in Ids(p.rows)
    /\ p.edit.offset = IndexOf(p.rows, p.edit.id) - p.top
    /\ p.edit.offset \in 0 .. Page - 1

\* Rows are selected that are there.
Chosen(p) == p.selected \subseteq Ids(p.rows)

Sound(p) == p \in PaneRecord /\ OneEdit(p)

\* Nothing of the rows and of the new folders has changed.
SameRows(q, p) ==
  /\ q.rows = p.rows /\ q.mode = p.mode /\ q.pending = p.pending
  /\ q.sequence = p.sequence /\ q.outdated = p.outdated /\ q.generation = p.generation

LEMMA Blank ==
  /\ NoEdit \in Edit /\ NoText \in Text /\ NoEdit.id = 0 /\ NoView \in ViewRecord
  /\ Page \in Nat /\ Page > 0
BY NamesAssumption, LimitsAssumption DEF NoEdit, NoText, NoView, Edit, Text, ViewRecord

LEMMA ForgottenIs ==
  ASSUME NEW p, Sound(p)
  PROVE  LET q == Forgotten(p) IN
         /\ Sound(q) /\ SameRows(q, p) /\ q.typed = NoText
         /\ q.edit = p.edit /\ q.top = p.top /\ q.selected = p.selected
         /\ q.busy = p.busy /\ q.posted = p.posted /\ q.focus = p.focus
BY Blank DEF Forgotten, Sound, OneEdit, PaneRecord, SameRows

LEMMA CancelledIs ==
  ASSUME NEW p, Sound(p)
  PROVE  LET q == Cancelled(p) IN
         /\ Sound(q) /\ SameRows(q, p) /\ OnRow(q) /\ q.edit = NoEdit /\ q.typed = NoText
         /\ q.top = p.top /\ q.selected = p.selected /\ q.busy = p.busy /\ q.posted = p.posted
         /\ q.focus # "edit"
<1> DEFINE q == Cancelled(p)
<1>1. p \in PaneRecord /\ OneEdit(p)
  BY DEF Sound
<1>2. q = [p EXCEPT !.edit = NoEdit, !.focus = IF @ = "edit" THEN "list" ELSE @, !.typed = NoText]
  BY <1>1 DEF Cancelled, Forgotten, PaneRecord
<1>3. q \in PaneRecord
  BY <1>1, <1>2, Blank DEF PaneRecord
<1>4. /\ SameRows(q, p) /\ q.edit = NoEdit /\ q.typed = NoText /\ q.top = p.top
      /\ q.selected = p.selected /\ q.busy = p.busy /\ q.posted = p.posted /\ q.focus # "edit"
  BY <1>1, <1>2 DEF PaneRecord, SameRows
<1>5. OneEdit(q) /\ OnRow(q)
  BY <1>4 DEF OneEdit, OnRow
<1> QED  BY <1>3, <1>4, <1>5 DEF Sound

LEMMA ViewIs ==
  ASSUME NEW p \in PaneRecord
  PROVE  View(p) \in ViewRecord
<1>1. p.rows \in Seq(Row) /\ p.selected \in SUBSET Names /\ p.top \in Int
  BY DEF PaneRecord
<1>2. \A i \in DOMAIN p.rows : p.rows[i].id \in 0 .. LastName
  <2>1. \A i \in DOMAIN p.rows : p.rows[i] \in Row
    BY <1>1
  <2>2. \A a \in Row : a.id \in 0 .. LastName
    BY NamesAssumption DEF Row, Names
  <2> QED  BY <2>1, <2>2
<1> DEFINE anchor == IF p.top \in DOMAIN p.rows THEN p.rows[p.top].id ELSE 0
<1>3. anchor \in 0 .. LastName
  BY <1>2, NamesAssumption
<1>4. View(p) = [selected |-> p.selected, top |-> p.top, anchor |-> anchor]
  BY DEF View
<1> HIDE DEF anchor
<1> QED  BY <1>1, <1>3, <1>4 DEF ViewRecord

LEMMA RenamedIs ==
  ASSUME NEW view \in ViewRecord, NEW renamed \in Pairs
  PROVE  Renamed(view, renamed) \in ViewRecord
<1>1. \A id \in Names : FinalName(id, renamed, 0) \in Names
  BY FinalNameIn
<1>2. \A id \in 0 .. LastName : FinalName(id, renamed, 0) \in 0 .. LastName
  <2>1. Names \subseteq 0 .. LastName
    BY NamesAssumption DEF Names
  <2> QED  BY <2>1, FinalNameIn
<1> QED  BY <1>1, <1>2 DEF Renamed, ViewRecord

LEMMA LastTopIs ==
  ASSUME NEW p \in PaneRecord
  PROVE  LastTop(p) \in Nat /\ LastTop(p) >= 1
<1>1. Len(p.rows) \in Nat
  BY DEF PaneRecord
<1>2. Len(p.rows) - Page + 1 \in Int
  BY <1>1, Blank
<1> QED  BY <1>2, OfTwo DEF LastTop

LEMMA VisibleIs ==
  ASSUME NEW p, Sound(p), NEW i \in Int
  PROVE  LET q == Visible(p, i) IN
         /\ Sound(q) /\ SameRows(q, p) /\ q.top \in Int /\ i - q.top \in 0 .. Page - 1
         /\ q.edit = p.edit /\ q.typed = p.typed /\ q.selected = p.selected
         /\ q.busy = p.busy /\ q.posted = p.posted /\ q.focus = p.focus
<1> DEFINE q == Visible(p, i)
           top == CASE i < p.top -> i [] i >= p.top + Page -> i - Page + 1 [] OTHER -> p.top
<1>1. p \in PaneRecord /\ OneEdit(p) /\ p.top \in Int
  BY DEF Sound, PaneRecord
<1>2. q = [p EXCEPT !.top = top]
  BY DEF Visible
<1>3. top \in Int /\ i - top \in 0 .. Page - 1
  <2>1. CASE i < p.top
    BY <1>1, <2>1, Blank
  <2>2. CASE i >= p.top + Page
    BY <1>1, <2>2, Blank
  <2>3. CASE ~(i < p.top) /\ ~(i >= p.top + Page)
    BY <1>1, <2>3, Blank
  <2> QED  BY <2>1, <2>2, <2>3
<1> HIDE DEF q, top
<1>4. q \in PaneRecord /\ q.top = top
  BY <1>1, <1>2, <1>3 DEF PaneRecord
<1>5. /\ SameRows(q, p) /\ q.edit = p.edit /\ q.typed = p.typed /\ q.selected = p.selected
      /\ q.busy = p.busy /\ q.posted = p.posted /\ q.focus = p.focus
  BY <1>1, <1>2 DEF PaneRecord, SameRows
<1>6. OneEdit(q)
  BY <1>1, <1>5 DEF OneEdit
<1> QED  BY <1>3, <1>4, <1>5, <1>6 DEF Sound, q

LEMMA RestoredIs ==
  ASSUME NEW p, Sound(p), NEW view \in ViewRecord
  PROVE  LET q == Restored(p, view) IN
         /\ Sound(q) /\ SameRows(q, p) /\ Chosen(q) /\ q.busy = p.busy /\ q.posted = p.posted
         /\ q.edit = p.edit \/ q.edit = NoEdit
<1> DEFINE at == IndexOf(p.rows, view.anchor)
           row == IF view.anchor = 0 THEN 0 ELSE IF at # 0 THEN at ELSE Min({view.top, Len(p.rows)})
           shown == [p EXCEPT !.selected = view.selected \cap Ids(p.rows), !.top = Min({@, LastTop(p)})]
           put == [shown EXCEPT !.top = IF row = 0 THEN @ ELSE Min({row, LastTop(p)})]
           q == Restored(p, view)
<1>1. /\ p \in PaneRecord /\ OneEdit(p) /\ p.rows \in Seq(Row) /\ p.top \in Int /\ Len(p.rows) \in Nat
      /\ view.top \in Int
  BY DEF Sound, PaneRecord, ViewRecord
<1>2. q = put \/ q = Cancelled(put)
  BY DEF Restored
<1>3. row \in Int
  <2>1. at \in Nat
    BY <1>1, IndexIs
  <2> DEFINE least == Min({view.top, Len(p.rows)})
  <2>2. least \in Int
    <3> DEFINE a == view.top
               b == Len(p.rows)
    <3>1. a \in Int /\ b \in Int
      BY <1>1
    <3>2. least = Min({a, b})
      OBVIOUS
    <3> HIDE DEF a, b, least
    <3>3. Min({a, b}) = IF a <= b THEN a ELSE b
      BY <3>1, OfTwo
    <3> QED  BY <3>1, <3>2, <3>3
  <2> HIDE DEF at, least
  <2>3. row = IF view.anchor = 0 THEN 0 ELSE IF at # 0 THEN at ELSE least
    BY DEF at, least
  <2> HIDE DEF row
  <2> QED  BY <2>1, <2>2, <2>3
<1>4. LastTop(p) \in Int /\ Ids(p.rows) \subseteq Names
  BY <1>1, LastTopIs, NamesAre
<1> DEFINE top == IF row = 0 THEN Min({p.top, LastTop(p)}) ELSE Min({row, LastTop(p)})
           selected == view.selected \cap Ids(p.rows)
<1>5. put = [p EXCEPT !.selected = selected, !.top = top]
  BY <1>1 DEF PaneRecord
<1>6. top \in Int /\ selected \in SUBSET Names
  <2> HIDE DEF row
  <2> QED  BY <1>1, <1>3, <1>4, OfTwo
<1> HIDE DEF row, shown, put, q, top
<1>7. Sound(put) /\ SameRows(put, p) /\ put.selected = selected /\ put.busy = p.busy /\ put.posted = p.posted
      /\ put.edit = p.edit
  <2>1. put \in PaneRecord
    BY <1>1, <1>5, <1>6 DEF PaneRecord
  <2>2. /\ SameRows(put, p) /\ put.selected = selected /\ put.busy = p.busy /\ put.posted = p.posted
        /\ put.edit = p.edit /\ put.typed = p.typed /\ put.focus = p.focus
    BY <1>1, <1>5 DEF PaneRecord, SameRows
  <2>3. OneEdit(put)
    BY <1>1, <2>2 DEF OneEdit
  <2> QED  BY <2>1, <2>2, <2>3 DEF Sound
<1>8. Chosen(put)
  BY <1>7 DEF Chosen, SameRows
<1>9. CASE q = put
  BY <1>7, <1>8, <1>9 DEF q
<1>10. CASE q = Cancelled(put)
  <2>1. /\ Sound(q) /\ SameRows(q, put) /\ q.edit = NoEdit /\ q.selected = put.selected
        /\ q.busy = put.busy /\ q.posted = put.posted
    BY <1>7, <1>10, CancelledIs
  <2>2. Chosen(q) /\ SameRows(q, p)
    BY <1>7, <1>8, <2>1 DEF Chosen, SameRows
  <2> QED  BY <1>7, <2>1, <2>2 DEF q
<1> QED  BY <1>2, <1>9, <1>10

LEMMA KeptIs ==
  ASSUME NEW p, Sound(p)
  PROVE  LET q == Kept(p) IN
         /\ Sound(q) /\ SameRows(q, p) /\ OnRow(q) /\ q.selected = p.selected
         /\ q.busy = p.busy /\ q.posted = p.posted
<1> DEFINE i == IndexOf(p.rows, p.edit.id)
           q == Kept(p)
<1>1. p \in PaneRecord /\ OneEdit(p) /\ p.rows \in Seq(Row) /\ p.top \in Int /\ p.edit \in Edit
  BY DEF Sound, PaneRecord
<1>2. i \in Nat /\ (i # 0 => p.edit.id \in Ids(p.rows))
  BY <1>1, IndexIs
<1> HIDE DEF i
<1>3. CASE p.edit = NoEdit
  <2>1. q = p
    BY <1>3 DEF Kept
  <2> HIDE DEF q
  <2>2. SameRows(q, p) /\ OnRow(q)
    BY <1>3, <2>1 DEF SameRows, OnRow
  <2> QED  BY <2>1, <2>2 DEF q
<1>4. CASE p.edit # NoEdit /\ (i = 0 \/ i < p.top \/ i >= p.top + Page)
  <2>1. q = Cancelled(p)
    BY <1>4 DEF Kept, i
  <2> HIDE DEF q
  <2> QED  BY <2>1, CancelledIs DEF q
<1>5. CASE p.edit # NoEdit /\ ~(i = 0 \/ i < p.top \/ i >= p.top + Page)
  <2>1. q = [p EXCEPT !.edit.offset = i - p.top]
    BY <1>5 DEF Kept, i
  <2> HIDE DEF q
  <2>2. q.edit = [p.edit EXCEPT !.offset = i - p.top] /\ i - p.top \in 0 .. Page - 1
    BY <1>1, <1>2, <1>5, <2>1, Blank DEF PaneRecord
  <2>3. q.edit \in Edit /\ q.edit.id = p.edit.id /\ q.edit.offset = i - p.top
    BY <1>1, <1>2, <2>2 DEF Edit
  <2>4. q \in PaneRecord
    BY <1>1, <2>1, <2>2, <2>3 DEF PaneRecord
  <2>5. /\ SameRows(q, p) /\ q.selected = p.selected /\ q.top = p.top
        /\ q.busy = p.busy /\ q.posted = p.posted /\ q.typed = p.typed /\ q.focus = p.focus
    BY <1>1, <2>1 DEF PaneRecord, SameRows
  <2>6. q.edit # NoEdit
    <3>1. p.edit.id \in Names
      BY <1>1, <1>2, <1>5, NamesAre
    <3> QED  BY <2>3, <3>1, Blank, NamesAssumption DEF Names
  <2>7. OneEdit(q)
    BY <1>1, <1>5, <2>3, <2>5, <2>6 DEF OneEdit
  <2>8. OnRow(q)
    BY <1>2, <1>5, <2>2, <2>3, <2>5 DEF OnRow, SameRows, i
  <2> QED  BY <2>4, <2>5, <2>7, <2>8 DEF Sound, q
<1> QED  BY <1>3, <1>4, <1>5

LEMMA BegunIs ==
  ASSUME NEW p, Sound(p), OnRow(p), Chosen(p)
  PROVE  LET q == Begun(p) IN
         /\ Sound(q) /\ SameRows(q, p) /\ OnRow(q) /\ Chosen(q)
         /\ q.busy = p.busy /\ q.posted = p.posted
<1> DEFINE q == Begun(p)
           id == CHOOSE s \in p.selected : TRUE
           i == IndexOf(p.rows, id)
           shown == Visible(p, i)
           edit == [id |-> id, offset |-> i - shown.top, text |-> id]
<1>1. p \in PaneRecord /\ OneEdit(p) /\ p.rows \in Seq(Row) /\ p.top \in Int
  BY DEF Sound, PaneRecord
<1>2. CASE p.busy \/ p.edit # NoEdit \/ p.mode # "complete" \/ Cardinality(p.selected) # 1
  <2>1. q = p
    BY <1>2 DEF Begun
  <2> HIDE DEF q
  <2>2. SameRows(q, p)
    BY <2>1 DEF SameRows
  <2> QED  BY <2>1, <2>2 DEF q
<1>3. CASE ~(p.busy \/ p.edit # NoEdit \/ p.mode # "complete" \/ Cardinality(p.selected) # 1)
  <2>1. q = Forgotten([shown EXCEPT !.edit = edit, !.focus = "edit"])
    BY <1>3 DEF Begun
  <2>2. id \in p.selected
    <3>1. p.selected # {}
      BY <1>3, FS_EmptySet
    <3> QED  BY <3>1
  <2>3. id \in Ids(p.rows) /\ id \in Names /\ id # 0 /\ id \in 0 .. LastName
    BY <1>1, <2>2, NamesAre, NamesAssumption DEF Chosen, Names
  <2>4. i \in Int
    BY <1>1, IndexIs
  <2> HIDE DEF q, id, i, shown
  <2>5. /\ Sound(shown) /\ SameRows(shown, p) /\ shown.top \in Int /\ i - shown.top \in 0 .. Page - 1
        /\ shown.typed = p.typed /\ shown.selected = p.selected /\ shown.edit = p.edit
        /\ shown.busy = p.busy /\ shown.posted = p.posted /\ shown.focus = p.focus
    BY <2>4, VisibleIs DEF shown
  <2>6. edit \in Edit /\ edit.id = id /\ edit.offset = i - shown.top /\ edit # NoEdit
    BY <2>3, <2>4, <2>5, Blank DEF Edit
  <2> HIDE DEF edit
  <2> DEFINE r == [shown EXCEPT !.edit = edit, !.focus = "edit"]
  <2>7. shown \in PaneRecord
    BY <2>5 DEF Sound
  <2>8. r \in PaneRecord
    BY <2>6, <2>7 DEF PaneRecord
  <2>9. /\ SameRows(r, p) /\ r.edit = edit /\ r.top = shown.top /\ r.selected = p.selected
        /\ r.busy = p.busy /\ r.posted = p.posted /\ r.typed = p.typed /\ r.focus = "edit"
    BY <2>5, <2>7 DEF PaneRecord, SameRows
  <2> HIDE DEF r
  <2>10. OneEdit(r)
    BY <1>1, <1>3, <2>6, <2>9 DEF OneEdit
  <2>11. /\ Sound(q) /\ SameRows(q, r) /\ q.edit = edit /\ q.top = shown.top /\ q.selected = p.selected
         /\ q.busy = p.busy /\ q.posted = p.posted
    BY <2>1, <2>8, <2>9, <2>10, ForgottenIs DEF Sound, r
  <2>12. SameRows(q, p)
    BY <2>9, <2>11 DEF SameRows
  <2>13. OnRow(q)
    BY <2>3, <2>5, <2>6, <2>11, <2>12 DEF OnRow, SameRows, i
  <2>14. Chosen(q)
    BY <2>11, <2>12 DEF Chosen, SameRows
  <2> QED  BY <2>11, <2>12, <2>13, <2>14 DEF q
<1> QED  BY <1>2, <1>3

-----------------------------------------------------------------------------
(* The rows of the pane.  *)

\* Each item has one row; a folder that is awaited was created at another time
\* than any that has come, and than any other that is awaited; and unless they
\* are being replaced the rows are in order.  Nothing of this is said of the
\* number that was outdated by a click.
RowsOK(p) ==
  /\ Single(p.rows, p.outdated)
  /\ \A a \in Range(p.rows) : a.mark <= p.sequence \/ a.mark = p.outdated
  /\ \A item \in p.pending :
       /\ item.order <= p.sequence
       /\ \A other \in p.pending : other.order = item.order => other = item
       /\ \A a \in Range(p.rows) : a.mark # item.order \/ a.mark = p.outdated
  /\ ~Frozen(p) => Placed(p.rows, p.outdated)

LEMMA SameRowsKeep ==
  ASSUME NEW p, NEW q, SameRows(q, p), RowsOK(p)
  PROVE  RowsOK(q)
BY DEF SameRows, RowsOK, Frozen

LEMMA SameRowsAgain ==
  ASSUME NEW p, NEW q, NEW r, SameRows(q, p), SameRows(r, q)
  PROVE  SameRows(r, p)
BY DEF SameRows

LEMMA FollowsKeep ==
  ASSUME NEW p, p \in PaneRecord, RowsOK(p), NEW q, Follows(q.rows, p.rows, p.outdated),
         q.pending = p.pending, q.sequence = p.sequence, q.outdated = p.outdated
  PROVE  RowsOK(q)
<1>1. /\ MarksOf(Range(q.rows), Range(p.rows), p.outdated) /\ InOrder(q.rows)
      /\ NoTwo(Range(p.rows), p.outdated) => Single(q.rows, p.outdated)
  BY DEF Follows
<1>2. Single(q.rows, p.outdated)
  BY <1>1 DEF RowsOK, Single
<1>3. \A item \in p.pending : item.order # 0
  BY DEF PaneRecord, Item
<1>4. p.sequence \in Nat
  BY DEF PaneRecord
<1>5. ASSUME NEW a \in Range(q.rows)
      PROVE  /\ a.mark <= q.sequence \/ a.mark = q.outdated
             /\ \A item \in p.pending : a.mark # item.order \/ a.mark = q.outdated
  <2>1. CASE a.mark = 0
    BY <1>3, <1>4, <2>1
  <2>2. CASE \E r \in Range(p.rows) : r.mark = a.mark
    BY <2>2 DEF RowsOK
  <2> QED  BY <1>1, <2>1, <2>2 DEF MarksOf
<1>6. Placed(q.rows, q.outdated)
  BY <1>1, OrderIsPlace
<1> QED  BY <1>2, <1>5, <1>6 DEF RowsOK

\* What gathering the new folders leaves.
LEMMA GatheredIs ==
  ASSUME NEW p, Sound(p), OnRow(p), Chosen(p)
  PROVE  LET q == Gathered(p) IN
         /\ Sound(q) /\ OnRow(q) /\ Chosen(q)
         /\ q.generation = p.generation /\ q.busy = p.busy /\ q.posted = p.posted
         /\ RowsOK(p) => RowsOK(q)
<1> DEFINE came == {item \in p.pending : item.leaf \in Ids(p.rows)}
           rows == AllMarked(p.rows, came, p.sequence)
           next == [p EXCEPT !.rows = rows, !.pending = @ \ came]
           put == Kept(Restored(next, View(p)))
           latest == {i \in DOMAIN rows : rows[i].mark = p.sequence}
           off == Cancelled(put)
           one == [off EXCEPT !.selected = {rows[Min(latest)].id}]
           q == Gathered(p)
<1>1. /\ p \in PaneRecord /\ OneEdit(p) /\ p.rows \in Seq(Row) /\ p.sequence \in Nat
      /\ p.pending \in SUBSET Item
  BY DEF Sound, PaneRecord
<1>2. CASE Frozen(p) \/ came = {}
  <2>1. q = p
    BY <1>2 DEF Gathered
  <2> HIDE DEF q
  <2> QED  BY <2>1 DEF q
<1>3. CASE ~(Frozen(p) \/ came = {})
  <2>1. q = IF \A item \in came : item.order # p.sequence THEN put
            ELSE Begun(Visible(one, Min(latest)))
    BY <1>3 DEF Gathered
  <2>2. came \in SUBSET Item /\ \A item \in came : item.leaf \in Ids(p.rows)
    BY <1>1
  <2> HIDE DEF came
  <2>3. /\ InPart(p.rows, came, p.sequence, rows, p.outdated)
        /\ (\E item \in came : item.order = p.sequence) => latest # {}
    <3>1. /\ InPart(p.rows, came, p.sequence, rows, p.outdated)
          /\ (\E item \in came : item.order = p.sequence) =>
                \E i \in DOMAIN rows : rows[i].mark = p.sequence
      BY <1>1, <2>2, AllMarkedKeeps
    <3> QED  BY <3>1
  <2> HIDE DEF rows
  <2>4. /\ rows \in Seq(Row) /\ Ids(rows) = Ids(p.rows)
        /\ \A a \in Range(rows) :
             a \in Range(p.rows) \/ \E item \in came : a.mark = item.order /\ item.order <= p.sequence
        /\ Single(p.rows, p.outdated) /\ (\A a \in Range(p.rows) : \A item \in came :
                                          a.mark # item.order \/ a.mark = p.outdated) =>
             Single(rows, p.outdated) /\ (Placed(p.rows, p.outdated) => Placed(rows, p.outdated))
    BY <2>3 DEF InPart
  <2>5. /\ next \in PaneRecord /\ next.rows = rows /\ next.pending = p.pending \ came
        /\ next.sequence = p.sequence /\ next.mode = p.mode /\ next.generation = p.generation
        /\ next.busy = p.busy /\ next.posted = p.posted /\ next.typed = p.typed /\ next.edit = p.edit
        /\ next.focus = p.focus /\ next.outdated = p.outdated
    BY <1>1, <2>4 DEF PaneRecord
  <2> HIDE DEF next
  <2>6. Sound(next)
    BY <1>1, <2>5 DEF Sound, OneEdit
  <2>7. View(p) \in ViewRecord
    BY <1>1, ViewIs
  <2> DEFINE back == Restored(next, View(p))
  <2>8. /\ Sound(back) /\ SameRows(back, next) /\ Chosen(back) /\ back.busy = p.busy /\ back.posted = p.posted
    BY <2>5, <2>6, <2>7, RestoredIs
  <2> HIDE DEF back
  <2>9. /\ Sound(put) /\ SameRows(put, next) /\ OnRow(put) /\ Chosen(put)
        /\ put.busy = p.busy /\ put.posted = p.posted
    <3>1. /\ Sound(put) /\ SameRows(put, back) /\ OnRow(put) /\ put.selected = back.selected
          /\ put.busy = p.busy /\ put.posted = p.posted
      BY <2>8, KeptIs DEF back
    <3>2. Chosen(put)
      BY <2>8, <3>1 DEF Chosen, SameRows
    <3> QED  BY <2>8, <3>1, <3>2, SameRowsAgain
  <2> HIDE DEF put
  <2>11. RowsOK(p) => RowsOK(next)
    <3> SUFFICES ASSUME RowsOK(p) PROVE RowsOK(next)
      OBVIOUS
    <3>1. \A a \in Range(p.rows) : \A item \in came : a.mark # item.order \/ a.mark = p.outdated
      BY <2>2 DEF RowsOK, came
    <3>2. Single(rows, p.outdated) /\ Placed(rows, p.outdated)
      BY <1>3, <2>4, <3>1 DEF RowsOK
    <3>3. \A a \in Range(rows) : a.mark <= p.sequence \/ a.mark = p.outdated
      BY <2>4 DEF RowsOK
    <3>4. ASSUME NEW item \in p.pending \ came
          PROVE  /\ item.order <= p.sequence
                 /\ \A other \in p.pending \ came : other.order = item.order => other = item
                 /\ \A a \in Range(rows) : a.mark # item.order \/ a.mark = p.outdated
      <4>1. \A other \in p.pending : other.order = item.order => other = item
        BY DEF RowsOK
      <4>2. \A other \in came : other \in p.pending /\ other # item
        BY DEF came
      <4> QED  BY <2>4, <4>1, <4>2 DEF RowsOK
    <3> QED  BY <2>5, <3>2, <3>3, <3>4 DEF RowsOK
  <2>12. CASE ~(\A item \in came : item.order # p.sequence)
    <3>1. q = Begun(Visible(one, Min(latest)))
      BY <2>1, <2>12
    <3>2. latest \in SUBSET Nat /\ latest # {}
      BY <2>3, <2>4, <2>12
    <3>3. Min(latest) \in latest
      BY <3>2, LeastPlace
    <3> DEFINE m == Min(latest)
    <3>4. m \in DOMAIN rows /\ m \in Int /\ rows[m] \in Row /\ rows[m].id \in Ids(rows) /\ rows[m].id \in Names
      <4>1. m \in DOMAIN rows /\ m \in Int /\ rows[m] \in Row
        BY <2>4, <3>3
      <4> HIDE DEF m
      <4> QED  BY <4>1 DEF Ids, Row
    <3> HIDE DEF q, m, latest
    <3>5. /\ Sound(off) /\ SameRows(off, put) /\ OnRow(off) /\ off.edit = NoEdit /\ off.typed = NoText
          /\ off.busy = p.busy /\ off.posted = p.posted /\ off.focus # "edit"
      BY <2>9, CancelledIs
    <3> HIDE DEF off
    <3>6. /\ one \in PaneRecord /\ SameRows(one, off) /\ one.selected = {rows[m].id} /\ one.edit = NoEdit
          /\ one.typed = NoText /\ one.busy = p.busy /\ one.posted = p.posted /\ one.focus # "edit"
      BY <3>4, <3>5 DEF Sound, PaneRecord, SameRows, m
    <3> HIDE DEF one
    <3>7. Sound(one)
      BY <3>6 DEF Sound, OneEdit
    <3>8. SameRows(one, next)
      BY <2>9, <3>5, <3>6, SameRowsAgain
    <3> DEFINE seen == Visible(one, m)
    <3>9. /\ Sound(seen) /\ SameRows(seen, one) /\ seen.edit = NoEdit /\ seen.selected = {rows[m].id}
          /\ seen.busy = p.busy /\ seen.posted = p.posted
      BY <3>4, <3>6, <3>7, VisibleIs
    <3> HIDE DEF seen
    <3>10. OnRow(seen) /\ Chosen(seen) /\ SameRows(seen, next)
      <4>1. SameRows(seen, next)
        BY <3>8, <3>9, SameRowsAgain
      <4>2. seen.rows = rows
        BY <2>5, <4>1 DEF SameRows
      <4> QED  BY <3>4, <3>9, <4>1, <4>2 DEF OnRow, Chosen
    <3>11. q = Begun(seen)
      BY <3>1 DEF seen, m
    <3>12. /\ Sound(q) /\ SameRows(q, seen) /\ OnRow(q) /\ Chosen(q)
           /\ q.busy = seen.busy /\ q.posted = seen.posted
      BY <3>9, <3>10, <3>11, BegunIs
    <3>13. SameRows(q, next)
      BY <3>10, <3>12, SameRowsAgain
    <3>14. RowsOK(p) => RowsOK(q)
      BY <2>11, <3>13, SameRowsKeep
    <3>15. q.generation = p.generation
      BY <2>5, <3>13 DEF SameRows
    <3> QED  BY <3>9, <3>12, <3>14, <3>15 DEF q
  <2>13. RowsOK(p) => RowsOK(put)
    BY <2>9, <2>11, SameRowsKeep
  <2>14. put.generation = p.generation
    BY <2>5, <2>9 DEF SameRows
  <2>15. CASE \A item \in came : item.order # p.sequence
    <3>1. q = put
      BY <2>1, <2>15
    <3> HIDE DEF q
    <3> QED  BY <2>9, <2>13, <2>14, <3>1 DEF q
  <2> QED  BY <2>12, <2>15
<1> QED  BY <1>2, <1>3

\* The rows after a rename's result was merged.
AfterMerge(rows, c) ==
  LET left == {row \in rows : row.id # c.typed.for}
      marks == {row.mark : row \in {r \in left : r.id = c.result}}
  IN {row \in left : row.id # c.result} \cup {[id |-> c.result, mark |-> Max({c.mark} \cup marks)]}

\* The row that was renamed is there with the mark that goes with the new name,
\* or that mark is none or the outdated one.
HasOld(rows, c, o) ==
  c.mark \in {0, o} \/ \E r \in rows : r.id = c.typed.for /\ r.mark = c.mark

LEMMA AfterMergeHas ==
  ASSUME NEW o, NEW rows \in SUBSET Row, IsFiniteSet(rows), NEW c, c.mark \in Nat, c.result \in Names
  PROVE  /\ AfterMerge(rows, c) \in SUBSET Row /\ IsFiniteSet(AfterMerge(rows, c))
         /\ HasOld(rows, c, o) =>
              /\ MarksOf(AfterMerge(rows, c), rows, o)
              /\ NoTwo(rows, o) => NoTwo(AfterMerge(rows, c), o)
<1> DEFINE left == {row \in rows : row.id # c.typed.for}
           same == {r \in left : r.id = c.result}
           marks == {row.mark : row \in same}
           all == {c.mark} \cup marks
           own == [id |-> c.result, mark |-> Max(all)]
           others == {row \in left : row.id # c.result}
<1>1. AfterMerge(rows, c) = others \cup {own}
  BY DEF AfterMerge
<1>2. IsFiniteSet(marks) /\ marks \subseteq Nat
  <2> DEFINE f == [r \in same |-> r.mark]
  <2>1. same \in SUBSET rows
    OBVIOUS
  <2>2. IsFiniteSet(same)
    BY <2>1, FS_Subset
  <2>3. DOMAIN f = same /\ Range(f) = marks /\ f = [x \in DOMAIN f |-> f[x]]
    BY DEF Range
  <2> HIDE DEF f
  <2>4. IsFiniteSet(marks)
    BY <2>2, <2>3, FiniteRange
  <2>5. marks \subseteq Nat
    BY <2>1 DEF Row
  <2> QED  BY <2>4, <2>5
<1>3. Max(all) \in all /\ all \subseteq Nat
  <2> HIDE DEF marks
  <2> DEFINE mark == c.mark
  <2>2. mark \in Nat /\ all = {mark} \cup marks
    OBVIOUS
  <2> HIDE DEF mark, all
  <2>3. all \subseteq Int /\ all # {} /\ all \subseteq Nat /\ IsFiniteSet(all)
    <3>1. IsFiniteSet({mark} \cup marks)
      BY <1>2, FS_Singleton, FS_Union
    <3> QED  BY <1>2, <2>2, <3>1
  <2> QED  BY <2>3, Greatest
<1> DEFINE most == Max(all)
<1>4. own \in Row /\ own.id = c.result /\ own.mark = most /\ most \in all
  <2> HIDE DEF all
  <2> QED  BY <1>3 DEF Row
<1>5. others \in SUBSET rows /\ IsFiniteSet(others)
  <2>1. others \in SUBSET rows
    OBVIOUS
  <2> HIDE DEF others
  <2> QED  BY <2>1, FS_Subset
<1> HIDE DEF own
<1>6. others \cup {own} \in SUBSET Row /\ IsFiniteSet(others \cup {own})
  <2>1. others \cup {own} \in SUBSET Row
    BY <1>4, <1>5
  <2> HIDE DEF others
  <2> QED  BY <1>5, <2>1, FS_Singleton, FS_Union
<1>7. ASSUME HasOld(rows, c, o)
      PROVE  /\ MarksOf(others \cup {own}, rows, o)
             /\ NoTwo(rows, o) => NoTwo(others \cup {own}, o)
  <2>1. own.mark \in {0, o} \/ \E r \in rows : r.mark = own.mark /\ r \notin others
    <3>1. CASE most = c.mark
      <4>1. \A old \in rows : old.id = c.typed.for => old \notin others
        OBVIOUS
      <4> QED  BY <1>4, <1>7, <3>1, <4>1 DEF HasOld
    <3>2. CASE most \in marks
      <4> HIDE DEF most
      <4>1. PICK r \in same : r.mark = most
        BY <3>2
      <4> QED  BY <1>4, <4>1
    <3> QED  BY <1>4, <3>1, <3>2
  <2>2. MarksOf(others \cup {own}, rows, o)
    BY <1>5, <2>1 DEF MarksOf
  <2>3. ASSUME NoTwo(rows, o)
        PROVE  NoTwo(others \cup {own}, o)
    <3>1. ASSUME NEW a \in others
          PROVE  a.id # own.id /\ (a.mark # own.mark \/ a.mark \in {0, o})
      <4>1. a \in rows /\ a.id # c.result
        OBVIOUS
      <4>2. CASE \E r \in rows : r.mark = own.mark /\ r \notin others
        <5>1. PICK r \in rows : r.mark = own.mark /\ r \notin others
          BY <4>2
        <5>2. a # r
          BY <5>1
        <5> QED  BY <1>4, <2>3, <4>1, <5>1, <5>2 DEF NoTwo
      <4> QED  BY <1>4, <2>1, <4>1, <4>2
    <3>2. \A a, b \in others : a.id = b.id \/ (a.mark = b.mark /\ a.mark \notin {0, o}) => a = b
      BY <1>5, <2>3 DEF NoTwo
    <3> HIDE DEF others
    <3> QED  BY <3>1, <3>2 DEF NoTwo
  <2> QED  BY <2>2, <2>3
<1> HIDE DEF others
<1> QED  BY <1>1, <1>6, <1>7

-----------------------------------------------------------------------------
(* What a command's result and the batches do to the pane.  *)

Kinds == {"none", "rename", "create", "delete", "paste"}

CallRecord ==
  [kind : Kinds, generation : Nat, targets : SUBSET Names, typed : Text, mark : Nat, view : ViewRecord,
   step : Int, result : 0 .. LastName]

Busy(p, c) == c.kind \in {"rename", "create"} => p.busy

OwnTarget(c) == c.kind = "rename" => c.targets = {c.typed.for}

\* As long as the list has not been started again, the row that is being
\* renamed is there and has the mark it had, unless a click outdated it.
OldRow(p, c) ==
  c.kind = "rename" /\ c.generation = p.generation =>
    HasOld(Range(p.rows), c, p.outdated)

\* What stays as it is in whatever a pane becomes.
Becomes(q, p) ==
  Sound(q) /\ OnRow(q) /\ Chosen(q) /\ q.generation = p.generation

\* A command of the pane is over.
LEMMA NotBusy ==
  ASSUME NEW p, Sound(p), Chosen(p), p.busy
  PROVE  LET q == [p EXCEPT !.busy = FALSE] IN
         /\ Sound(q) /\ OnRow(q) /\ Chosen(q) /\ SameRows(q, p) /\ q.edit = NoEdit
<1> DEFINE q == [p EXCEPT !.busy = FALSE]
<1>1. p \in PaneRecord /\ OneEdit(p) /\ p.edit = NoEdit
  BY DEF Sound, OneEdit
<1>2. /\ q \in PaneRecord /\ SameRows(q, p) /\ q.edit = NoEdit /\ q.typed = p.typed
      /\ q.focus = p.focus /\ q.selected = p.selected /\ q.busy = FALSE
  BY <1>1 DEF PaneRecord, SameRows
<1> HIDE DEF q
<1>3. OneEdit(q)
  BY <1>1, <1>2 DEF OneEdit
<1>4. OnRow(q)
  BY <1>2 DEF OnRow
<1>5. Chosen(q)
  BY <1>2 DEF Chosen, SameRows
<1> QED  BY <1>2, <1>3, <1>4, <1>5 DEF Sound, q

LEMMA MergedIs ==
  ASSUME NEW p, Sound(p), p.edit = NoEdit, NEW c \in CallRecord, c.result # 0, c.typed.for \in Names
  PROVE  LET q == Merged(p, c) IN
         /\ Becomes(q, p)
         /\ RowsOK(p) /\ HasOld(Range(p.rows), c, p.outdated) => RowsOK(q)
<1> DEFINE R == Range(p.rows)
           S == AfterMerge(R, c)
           next == [p EXCEPT !.rows = Sorted(S)]
           view == Renamed(c.view, <<<<c.typed.for, c.result>>>>)
           q == Merged(p, c)
<1>1. /\ p \in PaneRecord /\ OneEdit(p) /\ p.rows \in Seq(Row)
      /\ c.mark \in Nat /\ c.result \in Names /\ c.view \in ViewRecord
  BY NamesAssumption DEF Sound, PaneRecord, CallRecord, Names
<1>2. q = Restored(next, view)
  BY DEF Merged, AfterMerge
<1>3. view \in ViewRecord
  <2>1. <<<<c.typed.for, c.result>>>> \in Pairs
    BY <1>1 DEF Pairs
  <2> QED  BY <1>1, <2>1, RenamedIs
<1>4. R \in SUBSET Row /\ IsFiniteSet(R)
  BY <1>1, Entries
<1> HIDE DEF R, view, q
<1>5. /\ S \in SUBSET Row /\ IsFiniteSet(S)
      /\ HasOld(R, c, p.outdated) =>
              MarksOf(S, R, p.outdated) /\ (NoTwo(R, p.outdated) => NoTwo(S, p.outdated))
  BY <1>1, <1>4, AfterMergeHas
<1> HIDE DEF S
<1>6. Sorted(S) \in Seq(Row) /\ Range(Sorted(S)) = S /\ InOrder(Sorted(S))
      /\ (NoTwo(S, p.outdated) => Single(Sorted(S), p.outdated))
  BY <1>5, SortedLists, SortedSingle
<1>7. /\ next \in PaneRecord /\ next.rows = Sorted(S) /\ next.edit = NoEdit /\ next.typed = p.typed
      /\ next.focus = p.focus /\ next.generation = p.generation /\ next.pending = p.pending
      /\ next.sequence = p.sequence /\ next.outdated = p.outdated
  BY <1>1, <1>6 DEF PaneRecord
<1> HIDE DEF next
<1>8. Sound(next)
  BY <1>1, <1>7 DEF Sound, OneEdit
<1>9. Sound(q) /\ SameRows(q, next) /\ Chosen(q) /\ q.edit = NoEdit
  BY <1>2, <1>3, <1>7, <1>8, RestoredIs
<1>10. Becomes(q, p)
  BY <1>7, <1>9 DEF Becomes, OnRow, SameRows
<1>11. ASSUME RowsOK(p), HasOld(R, c, p.outdated)
       PROVE  RowsOK(q)
  <2>1. Follows(next.rows, p.rows, p.outdated)
    BY <1>5, <1>6, <1>7, <1>11 DEF Follows, R
  <2>2. RowsOK(next)
    BY <1>1, <1>7, <1>11, <2>1, FollowsKeep
  <2> QED  BY <1>9, <2>2, SameRowsKeep
<1> QED  BY <1>10, <1>11 DEF R, q

LEMMA EndedIs ==
  ASSUME NEW p, Sound(p), OnRow(p), Chosen(p), NEW c \in CallRecord, Busy(p, c), OwnTarget(c)
  PROVE  LET q == Ended(p, c) IN
         /\ Becomes(q, p)
         /\ RowsOK(p) /\ OldRow(p, c) => RowsOK(q)
<1> DEFINE q == Ended(p, c)
           r == [p EXCEPT !.busy = FALSE]
<1>1. p \in PaneRecord /\ OneEdit(p)
  BY DEF Sound
<1>2. CASE c.kind = "rename"
  <2>1. q = RenameEnded(p, c)
    BY <1>2 DEF Ended
  <2>2. /\ Sound(r) /\ OnRow(r) /\ Chosen(r) /\ SameRows(r, p) /\ r.edit = NoEdit
    BY <1>2, NotBusy DEF Busy
  <2>3. c.typed.for \in Names
    BY <1>2 DEF OwnTarget, CallRecord
  <2> HIDE DEF q
  <2>4. CASE p.generation # c.generation \/ c.result = 0 \/ Frozen(p)
    <3>1. q = r
      BY <2>1, <2>4 DEF RenameEnded, Frozen
    <3> HIDE DEF r
    <3>2. RowsOK(p) => RowsOK(r)
      BY <2>2, SameRowsKeep
    <3> QED  BY <2>2, <3>1, <3>2 DEF Becomes, SameRows, q
  <2>5. CASE ~(p.generation # c.generation \/ c.result = 0 \/ Frozen(p))
    <3>1. q = Merged(r, c)
      BY <2>1, <2>5 DEF RenameEnded
    <3> HIDE DEF r
    <3>2. /\ Becomes(q, r)
          /\ RowsOK(r) /\ HasOld(Range(r.rows), c, r.outdated) => RowsOK(q)
      BY <2>2, <2>3, <2>5, <3>1, MergedIs
    <3>3. RowsOK(p) => RowsOK(r)
      BY <2>2, SameRowsKeep
    <3>4. OldRow(p, c) => HasOld(Range(r.rows), c, r.outdated)
      BY <1>2, <2>2, <2>5 DEF OldRow, SameRows
    <3>5. Becomes(q, p)
      BY <2>2, <3>2 DEF Becomes, SameRows
    <3> QED  BY <3>2, <3>3, <3>4, <3>5 DEF q
  <2> QED  BY <2>4, <2>5
<1>3. CASE c.kind = "create"
  <2>1. q = CreateEnded(p, c)
    BY <1>3 DEF Ended
  <2>2. /\ Sound(r) /\ OnRow(r) /\ Chosen(r) /\ SameRows(r, p) /\ r.edit = NoEdit
    BY <1>3, NotBusy DEF Busy
  <2> HIDE DEF q
  <2>3. CASE p.generation # c.generation \/ c.result = 0
    <3>1. q = r
      BY <2>1, <2>3 DEF CreateEnded
    <3> HIDE DEF r
    <3>2. RowsOK(p) => RowsOK(r)
      BY <2>2, SameRowsKeep
    <3> QED  BY <2>2, <3>1, <3>2 DEF Becomes, SameRows, q
  <2>4. CASE ~(p.generation # c.generation \/ c.result = 0)
    <3> DEFINE new == [leaf |-> c.result, order |-> p.sequence + 1]
               next == [r EXCEPT !.pending = @ \cup {new}, !.sequence = @ + 1]
    <3>1. q = Gathered(next)
      <4>1. r.sequence = p.sequence
        BY <2>2 DEF SameRows
      <4> QED  BY <2>1, <2>4, <4>1 DEF CreateEnded
    <3>2. /\ new \in Item /\ new.order = p.sequence + 1 /\ p.sequence \in Nat
          /\ p.pending \in SUBSET Item
      BY <1>1, <2>4, NamesAssumption DEF PaneRecord, CallRecord, Item, Names
    <3> HIDE DEF r, new
    <3>3. /\ next \in PaneRecord /\ next.rows = p.rows /\ next.mode = p.mode
          /\ next.pending = p.pending \cup {new} /\ next.sequence = p.sequence + 1
          /\ next.outdated = p.outdated
          /\ next.generation = p.generation /\ next.edit = r.edit /\ next.typed = r.typed
          /\ next.focus = r.focus /\ next.busy = r.busy /\ next.selected = r.selected /\ next.top = r.top
      <4>1. /\ r \in PaneRecord /\ r.rows = p.rows /\ r.mode = p.mode /\ r.pending = p.pending
            /\ r.sequence = p.sequence /\ r.outdated = p.outdated /\ r.generation = p.generation
        BY <2>2 DEF Sound, SameRows
      <4> DEFINE pending == r.pending \cup {new}
                 sequence == r.sequence + 1
      <4>2. next = [r EXCEPT !.pending = pending, !.sequence = sequence]
        BY <4>1 DEF PaneRecord
      <4>3. pending \in SUBSET Item /\ sequence \in Nat
        BY <3>2, <4>1
      <4>4. pending = p.pending \cup {new} /\ sequence = p.sequence + 1
        BY <4>1
      <4> HIDE DEF pending, sequence, next
      <4>5. next \in PaneRecord
        BY <4>1, <4>2, <4>3 DEF PaneRecord
      <4>6. /\ next.rows = r.rows /\ next.mode = r.mode /\ next.pending = pending /\ next.sequence = sequence
            /\ next.outdated = r.outdated
            /\ next.generation = r.generation /\ next.edit = r.edit /\ next.typed = r.typed
            /\ next.focus = r.focus /\ next.busy = r.busy /\ next.selected = r.selected /\ next.top = r.top
        BY <4>1, <4>2 DEF PaneRecord
      <4> QED  BY <4>1, <4>4, <4>5, <4>6 DEF next
    <3> HIDE DEF next
    <3>4. Sound(next) /\ OnRow(next) /\ Chosen(next)
      BY <2>2, <3>3 DEF Sound, OneEdit, OnRow, Chosen, SameRows
    <3>5. ASSUME RowsOK(p)
          PROVE  RowsOK(next)
      <4>1. /\ \A a \in Range(p.rows) : a.mark \in Nat /\ (a.mark <= p.sequence \/ a.mark = p.outdated)
        <5>1. Range(p.rows) \subseteq Row
          BY <1>1, Entries DEF PaneRecord
        <5> QED  BY <3>5, <5>1 DEF RowsOK, Row
      <4>2. \A item \in p.pending : item.order \in Nat /\ item.order <= p.sequence
        BY <3>2, <3>5 DEF RowsOK, Item
      <4>3. \A a \in Range(next.rows) : a.mark <= next.sequence \/ a.mark = next.outdated
        BY <3>2, <3>3, <4>1
      <4>4. ASSUME NEW item \in next.pending
            PROVE  /\ item.order <= next.sequence
                   /\ \A other \in next.pending : other.order = item.order => other = item
                   /\ \A a \in Range(next.rows) : a.mark # item.order \/ a.mark = next.outdated
        <5>1. CASE item = new
          <6>1. \A other \in p.pending : other.order # new.order
            BY <3>2, <4>2
          <6>2. \A a \in Range(p.rows) : a.mark # new.order \/ a.mark = p.outdated
            BY <3>2, <4>1
          <6> QED  BY <3>2, <3>3, <5>1, <6>1, <6>2
        <5>2. CASE item \in p.pending
          <6>1. item.order # new.order /\ item.order <= p.sequence + 1
            BY <3>2, <4>2, <5>2
          <6>2. /\ \A other \in p.pending : other.order = item.order => other = item
                /\ \A a \in Range(p.rows) : a.mark # item.order \/ a.mark = p.outdated
            BY <3>5, <5>2 DEF RowsOK
          <6> QED  BY <3>3, <6>1, <6>2
        <5> QED  BY <3>3, <5>1, <5>2
      <4> QED  BY <3>3, <3>5, <4>3, <4>4 DEF RowsOK, Frozen
    <3>6. /\ Sound(q) /\ OnRow(q) /\ Chosen(q) /\ q.generation = next.generation
          /\ RowsOK(next) => RowsOK(q)
      BY <3>1, <3>4, GatheredIs
    <3> QED  BY <3>3, <3>5, <3>6 DEF Becomes, q
  <2> QED  BY <2>3, <2>4
<1>4. CASE c.kind # "rename" /\ c.kind # "create"
  <2>1. q = p
    BY <1>4 DEF Ended
  <2> HIDE DEF q
  <2> QED  BY <2>1 DEF Becomes, q
<1> QED  BY <1>2, <1>3, <1>4

-----------------------------------------------------------------------------

Batch ==
  [kind : {"begin"}] \cup [kind : {"rows"}, names : SUBSET Names] \cup DeltaBatch

\* What the batches have made of p so far: unless one of them changed the
\* rows, all is as it was.
Made(p, s) ==
  /\ s \in [pane : PaneRecord, changed : BOOLEAN, view : ViewRecord]
  /\ Sound(s.pane) /\ s.pane.generation = p.generation
  /\ ~s.changed => Chosen(s.pane)
  /\ RowsOK(p) => RowsOK(s.pane)

LEMMA ConsumedIs ==
  ASSUME NEW p \in PaneRecord, NEW s, Made(p, s), NEW b \in Batch
  PROVE  Made(p, Consumed(s, b))
<1> DEFINE view == IF s.changed THEN s.view ELSE View(s.pane)
           t == Consumed(s, b)
           old == s.pane
<1>1. /\ s \in [pane : PaneRecord, changed : BOOLEAN, view : ViewRecord]
      /\ Sound(old) /\ old.generation = p.generation /\ (~s.changed => Chosen(old))
      /\ RowsOK(p) => RowsOK(old)
  BY DEF Made
<1>2. old \in PaneRecord /\ old.rows \in Seq(Row) /\ OneEdit(old)
  BY <1>1 DEF Sound, PaneRecord
<1>3. view \in ViewRecord
  <2>1. View(s.pane) \in ViewRecord
    BY <1>2, ViewIs
  <2> QED  BY <1>1, <2>1
<1> HIDE DEF view, t, old
<1>4. CASE b \in [kind : {"begin"}]
  <2> DEFINE next == [old EXCEPT !.mode = "recovering"]
  <2>1. b.kind = "begin"
    BY <1>4
  <2>2. t = [s EXCEPT !.pane = next]
    BY <1>1, <2>1 DEF Consumed, t, old
  <2>3. /\ next \in PaneRecord /\ next.rows = old.rows /\ next.mode = "recovering" /\ next.pending = old.pending
        /\ next.sequence = old.sequence /\ next.generation = old.generation /\ next.edit = old.edit
        /\ next.typed = old.typed /\ next.focus = old.focus /\ next.busy = old.busy
        /\ next.selected = old.selected /\ next.outdated = old.outdated
    BY <1>2 DEF PaneRecord, Modes
  <2> HIDE DEF next
  <2>4. Sound(next)
    BY <1>2, <2>3 DEF Sound, OneEdit
  <2>5. RowsOK(p) => RowsOK(next)
    BY <1>1, <2>3 DEF RowsOK, Frozen
  <2>6. ~s.changed => Chosen(next)
    BY <1>1, <2>3 DEF Chosen
  <2>7. t.pane = next /\ t.changed = s.changed /\ t \in [pane : PaneRecord, changed : BOOLEAN, view : ViewRecord]
    BY <1>1, <2>2, <2>3
  <2>8. next.generation = p.generation
    BY <1>1, <2>3
  <2> QED  BY <2>4, <2>5, <2>6, <2>7, <2>8 DEF Made, t
<1>5. ASSUME NEW rows, NEW mode \in Modes, Follows(rows, old.rows, old.outdated), NEW seen \in ViewRecord,
             t.pane = [old EXCEPT !.rows = rows, !.mode = mode], t.changed = TRUE, t.view = seen,
             t = [pane |-> t.pane, changed |-> t.changed, view |-> t.view]
      PROVE  Made(p, t)
  <2> DEFINE next == [old EXCEPT !.rows = rows, !.mode = mode]
  <2>1. rows \in Seq(Row)
    BY <1>5 DEF Follows
  <2>2. /\ next \in PaneRecord /\ next.rows = rows /\ next.pending = old.pending
        /\ next.sequence = old.sequence /\ next.generation = old.generation /\ next.edit = old.edit
        /\ next.typed = old.typed /\ next.focus = old.focus /\ next.busy = old.busy
        /\ next.outdated = old.outdated
    BY <1>2, <2>1 DEF PaneRecord
  <2>3. t.pane = next
    BY <1>5
  <2> HIDE DEF next
  <2>4. Sound(next)
    BY <1>2, <2>2 DEF Sound, OneEdit
  <2>5. RowsOK(p) => RowsOK(next)
    <3>1. RowsOK(old) => RowsOK(next)
      BY <1>2, <1>5, <2>2, FollowsKeep
    <3> QED  BY <1>1, <3>1
  <2>6. t \in [pane : PaneRecord, changed : BOOLEAN, view : ViewRecord]
    BY <1>5, <2>2, <2>3
  <2>7. next.generation = p.generation
    BY <1>1, <2>2
  <2> QED  BY <1>5, <2>3, <2>4, <2>5, <2>6, <2>7 DEF Made
<1>6. CASE b \in DeltaBatch
  <2>1. b.kind = "delta" /\ b.renamed \in Pairs
    BY <1>6 DEF DeltaBatch
  <2>2. t = [pane |-> [old EXCEPT !.rows = Delta(@, b)], changed |-> TRUE, view |-> Renamed(view, b.renamed)]
    BY <2>1 DEF Consumed, t, old, view
  <2>3. Follows(Delta(old.rows, b), old.rows, old.outdated)
    BY <1>2, <1>6, DeltaFollows
  <2>4. Renamed(view, b.renamed) \in ViewRecord
    BY <1>3, <2>1, RenamedIs
  <2>5. [old EXCEPT !.rows = Delta(@, b)] = [old EXCEPT !.rows = Delta(old.rows, b), !.mode = old.mode]
        /\ old.mode \in Modes
    BY <1>2 DEF PaneRecord
  <2>6. /\ t.pane = [old EXCEPT !.rows = Delta(old.rows, b), !.mode = old.mode] /\ t.changed = TRUE
        /\ t.view = Renamed(view, b.renamed) /\ t = [pane |-> t.pane, changed |-> t.changed, view |-> t.view]
    BY <2>2, <2>5
  <2> QED  BY <1>5, <2>3, <2>4, <2>5, <2>6 DEF t
<1>7. CASE b \in [kind : {"rows"}, names : SUBSET Names]
  <2>1. b.kind = "rows" /\ b.names \in SUBSET Names
    BY <1>7
  <2>2. t = [pane |-> [old EXCEPT !.rows = Reconciled(@, b.names), !.mode = "complete"], changed |-> TRUE,
             view |-> view]
    BY <2>1 DEF Consumed, t, old, view
  <2>3. Follows(Reconciled(old.rows, b.names), old.rows, old.outdated)
    BY <1>2, <2>1, ReconciledFollows
  <2>4. /\ t.pane = [old EXCEPT !.rows = Reconciled(old.rows, b.names), !.mode = "complete"] /\ t.changed = TRUE
        /\ t.view = view /\ t = [pane |-> t.pane, changed |-> t.changed, view |-> t.view]
    BY <2>2
  <2>5. "complete" \in Modes
    BY DEF Modes
  <2> QED  BY <1>3, <1>5, <2>3, <2>4, <2>5 DEF t
<1> QED  BY <1>4, <1>6, <1>7 DEF Batch

LEMMA AllConsumedIs ==
  ASSUME NEW p, Sound(p), Chosen(p), NEW batches \in Seq(Batch)
  PROVE  Made(p, AllConsumed(p, batches))
<1> DEFINE n == Len(batches)
           base == [pane |-> p, changed |-> FALSE, view |-> NoView]
           S == {s \in [pane : PaneRecord, changed : BOOLEAN, view : ViewRecord] : Made(p, s)}
           F == [x \in (1 .. n) \X S |-> Consumed(x[2], batches[x[1]])]
           After[k \in 0 .. n] == IF k = 0 THEN base ELSE Consumed(After[k - 1], batches[k])
<1>1. n \in Nat /\ \A k \in 1 .. n : batches[k] \in Batch
  OBVIOUS
<1>2. p \in PaneRecord
  BY DEF Sound
<1>3. AllConsumed(p, batches) = After[n]
  BY DEF AllConsumed
<1>4. base \in S
  BY <1>2, Blank DEF Made
<1>5. ASSUME NEW k \in 1 .. n, NEW s \in S
      PROVE  Consumed(s, batches[k]) \in S
  <2>1. Made(p, Consumed(s, batches[k]))
    BY <1>1, <1>2, ConsumedIs
  <2> QED  BY <2>1 DEF Made
<1>6. \A s \in S : Made(p, s)
  OBVIOUS
<1>7. \A k \in 1 .. n : \A s \in S : F[<<k, s>>] = Consumed(s, batches[k])
  OBVIOUS
<1> HIDE DEF S, F, base, n
<1>8. \A k \in 1 .. n : \A s \in S : F[<<k, s>>] \in S
  BY <1>5, <1>7
<1>9. PICK f \in [0 .. n -> S] : Steps(f, base, n, F)
  BY <1>1, <1>4, <1>8, Iterates
<1>10. f = [k \in 0 .. n |-> IF k = 0 THEN base ELSE Consumed(f[k - 1], batches[k])]
  <2>1. f = [k \in 0 .. n |-> IF k = 0 THEN base ELSE F[<<k, f[k - 1]>>]]
    BY <1>9 DEF Steps
  <2>2. ASSUME NEW k \in 0 .. n
        PROVE  f[k] = IF k = 0 THEN base ELSE Consumed(f[k - 1], batches[k])
    <3>1. f[k] = IF k = 0 THEN base ELSE F[<<k, f[k - 1]>>]
      BY <2>1, Zenon
    <3>2. CASE k # 0
      <4>1. k \in 1 .. n /\ k - 1 \in 0 .. n
        BY <1>1, <3>2
      <4>2. F[<<k, f[k - 1]>>] = Consumed(f[k - 1], batches[k])
        BY <1>7, <4>1
      <4> QED  BY <3>1, <3>2, <4>2
    <3> QED  BY <3>1, <3>2
  <2> QED  BY <2>2
<1>11. After = [k \in 0 .. n |-> IF k = 0 THEN base ELSE Consumed(After[k - 1], batches[k])]
  BY <1>10, Zenon
<1> HIDE DEF After
<1>12. After[0] = base /\ \A k \in 1 .. n : After[k] = Consumed(After[k - 1], batches[k])
  <2>1. 0 \in 0 .. n /\ \A k \in 1 .. n : k \in 0 .. n /\ k # 0
    BY <1>1
  <2>2. \A k \in 0 .. n : After[k] = IF k = 0 THEN base ELSE Consumed(After[k - 1], batches[k])
    BY <1>11, Zenon
  <2> QED  BY <2>1, <2>2
<1>13. \A k \in 0 .. n : After[k] \in S
  <2>1. After[0] \in S /\ \A k \in 1 .. n : After[k - 1] \in S => After[k] \in S
    BY <1>4, <1>5, <1>12
  <2> QED  BY <1>1, <2>1, AllIn
<1> QED  BY <1>1, <1>3, <1>6, <1>13

LEMMA DispatchedIs ==
  ASSUME NEW p, Sound(p), OnRow(p), Chosen(p), NEW batches \in Seq(Batch)
  PROVE  LET q == Dispatched(p, batches) IN
         Becomes(q, p) /\ (RowsOK(p) => RowsOK(q))
<1> DEFINE s == AllConsumed(p, batches)
           back == Restored(s.pane, s.view)
           kept == Kept(back)
           q == Dispatched(p, batches)
<1>1. q = IF s.changed THEN Gathered(kept) ELSE Kept(s.pane)
  BY DEF Dispatched
<1>2. /\ s \in [pane : PaneRecord, changed : BOOLEAN, view : ViewRecord]
      /\ Sound(s.pane) /\ s.pane.generation = p.generation
      /\ ~s.changed => Chosen(s.pane)
      /\ RowsOK(p) => RowsOK(s.pane)
  BY AllConsumedIs DEF Made
<1> HIDE DEF s, q
<1>3. CASE s.changed
  <2>1. /\ Sound(back) /\ SameRows(back, s.pane) /\ Chosen(back)
    BY <1>2, RestoredIs
  <2> HIDE DEF back
  <2>2. Sound(kept) /\ SameRows(kept, back) /\ OnRow(kept) /\ kept.selected = back.selected
    BY <2>1, KeptIs
  <2> HIDE DEF kept
  <2>3. Chosen(kept) /\ SameRows(kept, s.pane)
    BY <2>1, <2>2, SameRowsAgain DEF Chosen, SameRows
  <2>4. /\ Sound(q) /\ OnRow(q) /\ Chosen(q) /\ q.generation = kept.generation
        /\ RowsOK(kept) => RowsOK(q)
    BY <1>1, <1>3, <2>2, <2>3, GatheredIs
  <2>5. RowsOK(s.pane) => RowsOK(kept)
    BY <2>3, SameRowsKeep
  <2>6. kept.generation = p.generation
    BY <1>2, <2>3 DEF SameRows
  <2> QED  BY <1>2, <2>4, <2>5, <2>6 DEF Becomes, q
<1>4. CASE ~s.changed
  <2>1. q = Kept(s.pane)
    BY <1>1, <1>4
  <2>2. Sound(q) /\ SameRows(q, s.pane) /\ OnRow(q) /\ q.selected = s.pane.selected
    BY <1>2, <2>1, KeptIs
  <2>3. Chosen(q)
    BY <1>2, <1>4, <2>2 DEF Chosen, SameRows
  <2>4. RowsOK(s.pane) => RowsOK(q)
    BY <2>2, SameRowsKeep
  <2>5. q.generation = p.generation
    BY <1>2, <2>2 DEF SameRows
  <2> QED  BY <1>2, <2>2, <2>3, <2>4, <2>5 DEF Becomes, q
<1> QED  BY <1>3, <1>4

-----------------------------------------------------------------------------
(* The inductive invariant.  *)

WatchRecord ==
  [records : Seq((0 .. LastName) \X (0 .. LastName)), reading : BOOLEAN, queue : Seq(Batch)]

\* A pane and the command that runs fit each other.
Fits(p, c) ==
  /\ Sound(p) /\ OnRow(p) /\ Chosen(p)
  /\ c \in CallRecord /\ Busy(p, c) /\ OwnTarget(c) /\ c.generation <= p.generation
  /\ c.kind = "none" => c = NoCall
  /\ RowsOK(p) /\ OldRow(p, c)

IInv == disk \subseteq Names /\ watch \in WatchRecord /\ Fits(pane, call)

LEMMA StillFits ==
  ASSUME NEW p, NEW c, Fits(p, c), NEW q, Sound(q), OnRow(q), Chosen(q), SameRows(q, p), q.busy = p.busy
  PROVE  Fits(q, c)
<1>1. RowsOK(p) => RowsOK(q)
  BY SameRowsKeep
<1>2. OldRow(p, c) => OldRow(q, c)
  BY DEF OldRow, SameRows
<1>3. Busy(q, c) /\ c.generation <= q.generation
  BY DEF Fits, Busy, SameRows
<1> QED  BY <1>1, <1>2, <1>3 DEF Fits

LEMMA OverFits ==
  ASSUME NEW p, NEW c, Fits(p, c), NEW q, Becomes(q, p), RowsOK(p) /\ OldRow(p, c) => RowsOK(q)
  PROVE  Fits(q, NoCall)
<1>1. NoCall \in CallRecord /\ NoCall.kind = "none" /\ NoCall.generation = 0
  BY Blank, NamesAssumption DEF NoCall, CallRecord, Kinds
<1>2. Busy(q, NoCall) /\ OwnTarget(NoCall) /\ OldRow(q, NoCall)
  BY <1>1 DEF Busy, OwnTarget, OldRow
<1>3. q.generation \in Nat
  BY DEF Becomes, Sound, PaneRecord
<1> QED  BY <1>1, <1>2, <1>3 DEF Fits, Becomes

LEMMA AskingIs ==
  ASSUME NEW p \in PaneRecord, NEW kind \in Kinds
  PROVE  /\ NoCall \in CallRecord
         /\ Asking(p, kind) \in CallRecord /\ Asking(p, kind).kind = kind
         /\ Asking(p, kind).generation = p.generation /\ Asking(p, kind).targets = {}
<1>1. NoCall \in CallRecord /\ NoCall.targets = {}
  BY Blank, NamesAssumption DEF NoCall, CallRecord, Kinds
<1>2. p.generation \in Nat /\ SetupCalls \in Int
  BY LimitsAssumption DEF PaneRecord
<1> QED  BY <1>1, <1>2 DEF Asking, CallRecord

LEMMA InitInv == Init => IInv
<1> SUFFICES ASSUME Init
             PROVE  IInv
  OBVIOUS
<1>1. disk \in SUBSET Names /\ disk \subseteq Names
  BY DEF Init
<1>2. <<>> \in Seq((0 .. LastName) \X (0 .. LastName)) /\ <<>> \in Seq(Batch)
  OBVIOUS
<1>3. watch \in WatchRecord
  BY <1>2 DEF Init, WatchRecord
<1> DEFINE rows == Sorted(Unmarked(disk))
<1>4. Unmarked(disk) \in SUBSET Row /\ IsFiniteSet(Unmarked(disk)) /\ NoTwo(Unmarked(disk), 0)
      /\ (\A a \in Unmarked(disk) : a.mark = 0) /\ NamesOf(Unmarked(disk)) = disk
  BY <1>1, UnmarkedIs
<1>5. rows \in Seq(Row) /\ Range(rows) = Unmarked(disk) /\ InOrder(rows) /\ Single(rows, 0)
  BY <1>4, SortedLists, SortedSingle
<1> HIDE DEF rows
<1>6. Ids(rows) = disk
  BY <1>4, <1>5, NamesAre
<1>7. pane = [rows |-> rows, mode |-> "complete", top |-> 1, selected |-> {1} \cap disk,
             edit |-> NoEdit, typed |-> NoText, posted |-> FALSE, busy |-> FALSE, focus |-> "list",
             pending |-> {}, sequence |-> 0, outdated |-> 0, generation |-> 0]
  BY DEF Init, rows
<1>8. pane \in PaneRecord
  BY <1>1, <1>5, <1>7, Blank DEF PaneRecord, Modes
<1>9. Becomes(pane, pane)
  BY <1>6, <1>7, <1>8 DEF Becomes, Sound, OneEdit, OnRow, Chosen
<1>10. RowsOK(pane)
  BY <1>4, <1>5, <1>7, OrderIsPlace DEF RowsOK
<1>11. NoCall \in CallRecord /\ NoCall.kind = "none" /\ NoCall.generation = 0
  BY Blank, NamesAssumption DEF NoCall, CallRecord, Kinds
<1>12. call = NoCall /\ pane.generation = 0
  BY <1>7 DEF Init
<1>13. Fits(pane, call)
  BY <1>9, <1>10, <1>11, <1>12 DEF Fits, Becomes, Busy, OwnTarget, OldRow
<1> QED  BY <1>1, <1>3, <1>13 DEF IInv

-----------------------------------------------------------------------------
(* Commits and the focus.  *)

LEMMA CommitIs ==
  ASSUME NEW p, Fits(p, call), p.edit # NoEdit, NEW typed \in Text, typed.for = p.edit.id, Commit(p, typed)
  PROVE  Fits(pane', call')
<1> DEFINE q == Cancelled(p)
           i == IndexOf(q.rows, p.edit.id)
           asks == [Asking(q, "rename") EXCEPT !.targets = {p.edit.id}, !.typed = typed,
                                               !.mark = q.rows[i].mark, !.view = View(q)]
           ends == call # NoCall \/ i = 0 \/ typed.text = p.edit.id \/ ~Current(q, asks)
           busy == [q EXCEPT !.busy = TRUE]
<1>1. IF ends THEN pane' = q /\ UNCHANGED call ELSE pane' = busy /\ call' = asks
  BY DEF Commit
<1>2. Sound(p) /\ OnRow(p) /\ Chosen(p) /\ p \in PaneRecord /\ p.rows \in Seq(Row)
  BY DEF Fits, Sound, PaneRecord
<1> HIDE DEF q, asks, i, busy
<1>3. /\ Sound(q) /\ SameRows(q, p) /\ OnRow(q) /\ q.edit = NoEdit /\ q.typed = NoText
      /\ q.selected = p.selected /\ q.busy = p.busy /\ q.focus # "edit"
  BY <1>2, CancelledIs DEF q
<1>4. Chosen(q)
  BY <1>2, <1>3 DEF Chosen, SameRows
<1>5. CASE ends
  <2>1. Fits(q, call)
    BY <1>3, <1>4, StillFits
  <2> QED  BY <1>1, <1>5, <2>1
<1>6. CASE ~ends
  <2>1. pane' = busy /\ call' = asks /\ i # 0
    BY <1>1, <1>6
  <2>2. q \in PaneRecord /\ q.rows \in Seq(Row) /\ q.rows = p.rows /\ q.generation \in Nat
    BY <1>3 DEF Sound, PaneRecord, SameRows
  <2>3. i \in 1 .. Len(q.rows) /\ q.rows[i].id = p.edit.id /\ q.rows[i] \in Row
        /\ q.rows[i] \in Range(q.rows) /\ p.edit.id \in Names
    <3>1. i \in 1 .. Len(q.rows) /\ q.rows[i].id = p.edit.id
      BY <2>1, <2>2, IndexIs DEF i
    <3>2. q.rows[i] \in Row /\ q.rows[i] \in Range(q.rows)
      BY <2>2, <3>1, Entries
    <3> QED  BY <3>1, <3>2 DEF Row
  <2> DEFINE row == q.rows[i]
  <2>4. View(q) \in ViewRecord
    BY <2>2, ViewIs
  <2>5. /\ asks.kind = "rename" /\ asks.generation = q.generation /\ asks.targets = {p.edit.id}
        /\ asks.typed = typed /\ asks.mark = row.mark /\ asks \in CallRecord
    <3> DEFINE none == Asking(q, "rename")
    <3>1. none \in CallRecord /\ none.kind = "rename" /\ none.generation = q.generation
      <4>1. "rename" \in Kinds
        BY DEF Kinds
      <4> QED  BY <2>2, <4>1, AskingIs
    <3>2. asks = [none EXCEPT !.targets = {p.edit.id}, !.typed = typed, !.mark = row.mark, !.view = View(q)]
      BY DEF asks
    <3>3. row.mark \in Nat
      BY <2>3 DEF Row
    <3> HIDE DEF row, none
    <3> QED  BY <2>2, <2>3, <2>4, <3>1, <3>2, <3>3 DEF CallRecord, Kinds
  <2>6. /\ busy \in PaneRecord /\ SameRows(busy, q) /\ busy.edit = NoEdit /\ busy.typed = NoText
        /\ busy.selected = q.selected /\ busy.busy = TRUE /\ busy.focus # "edit"
    BY <1>3, <2>2 DEF PaneRecord, SameRows, busy
  <2>7. Sound(busy) /\ OnRow(busy) /\ Chosen(busy)
    BY <1>4, <2>6 DEF Sound, OneEdit, OnRow, Chosen, SameRows
  <2>8. Busy(busy, asks) /\ OwnTarget(asks)
    BY <2>5, <2>6 DEF Busy, OwnTarget
  <2>9. asks.generation <= busy.generation
    BY <2>2, <2>5, <2>6 DEF SameRows
  <2>10. SameRows(busy, p)
    BY <1>3, <2>6, SameRowsAgain
  <2>11. RowsOK(busy)
    BY <2>10, SameRowsKeep DEF Fits
  <2>12. OldRow(busy, asks)
    <3>1. busy.rows = q.rows
      BY <2>6 DEF SameRows
    <3>2. row \in Range(q.rows) /\ row.id = asks.typed.for /\ row.mark = asks.mark
      BY <2>3, <2>5
    <3> QED  BY <3>1, <3>2 DEF OldRow, HasOld
  <2> QED  BY <2>1, <2>5, <2>7, <2>8, <2>9, <2>11, <2>12 DEF Fits
<1> QED  BY <1>5, <1>6

LEMMA LeftIs ==
  ASSUME NEW p, NEW c, Fits(p, c), NEW to \in {"list", "elsewhere"}, NEW q \in Left(p, to)
  PROVE  Fits(q, c) /\ q.rows = p.rows
<1>1. Sound(p) /\ OnRow(p) /\ Chosen(p) /\ p \in PaneRecord /\ OneEdit(p) /\ p.edit \in Edit
  BY DEF Fits, Sound, PaneRecord
<1>2. CASE p.focus # "edit"
  <2>1. q = [p EXCEPT !.focus = to]
    BY <1>2 DEF Left
  <2>2. /\ q \in PaneRecord /\ SameRows(q, p) /\ q.edit = p.edit /\ q.typed = p.typed
        /\ q.selected = p.selected /\ q.busy = p.busy /\ q.focus = to /\ q.top = p.top
    BY <1>1, <2>1 DEF PaneRecord, SameRows
  <2>3. Sound(q) /\ OnRow(q) /\ Chosen(q)
    BY <1>1, <2>2 DEF Sound, OneEdit, OnRow, Chosen, SameRows
  <2> QED  BY <2>2, <2>3, StillFits DEF SameRows
<1>3. CASE p.focus = "edit"
  <2> DEFINE text == [for |-> p.edit.id, text |-> p.edit.text]
  <2>1. \/ q = [p EXCEPT !.focus = to, !.typed = text, !.posted = TRUE]
        \/ q = [Cancelled(p) EXCEPT !.focus = to]
    BY <1>3 DEF Left
  <2>2. p.edit # NoEdit /\ ~p.busy
    BY <1>1, <1>3 DEF OneEdit, PaneRecord
  <2>3. CASE q = [p EXCEPT !.focus = to, !.typed = text, !.posted = TRUE]
    <3>1. text \in Text /\ text.for = p.edit.id
      BY <1>1 DEF Text, Edit
    <3> HIDE DEF text
    <3>2. /\ q \in PaneRecord /\ SameRows(q, p) /\ q.edit = p.edit /\ q.typed = text
          /\ q.selected = p.selected /\ q.busy = p.busy /\ q.focus = to /\ q.top = p.top
      BY <1>1, <2>3, <3>1 DEF PaneRecord, SameRows
    <3>3. Sound(q) /\ OnRow(q) /\ Chosen(q)
      BY <1>1, <2>2, <3>1, <3>2 DEF Sound, OneEdit, OnRow, Chosen, SameRows
    <3> QED  BY <3>2, <3>3, StillFits DEF SameRows
  <2>4. CASE q = [Cancelled(p) EXCEPT !.focus = to]
    <3> DEFINE r == Cancelled(p)
    <3>1. /\ Sound(r) /\ SameRows(r, p) /\ r.edit = NoEdit /\ r.typed = NoText
          /\ r.selected = p.selected /\ r.busy = p.busy
      BY <1>1, CancelledIs
    <3> HIDE DEF r
    <3>2. q = [r EXCEPT !.focus = to]
      BY <2>4 DEF r
    <3>3. /\ q \in PaneRecord /\ SameRows(q, r) /\ q.edit = NoEdit /\ q.typed = NoText
          /\ q.selected = p.selected /\ q.busy = p.busy /\ q.focus = to
      BY <3>1, <3>2 DEF Sound, PaneRecord, SameRows
    <3>4. SameRows(q, p)
      BY <3>1, <3>3, SameRowsAgain
    <3>5. Sound(q) /\ OnRow(q) /\ Chosen(q)
      BY <1>1, <3>3, <3>4 DEF Sound, OneEdit, OnRow, Chosen, SameRows
    <3> QED  BY <3>3, <3>4, <3>5, StillFits DEF SameRows
  <2> QED  BY <2>1, <2>3, <2>4
<1> QED  BY <1>2, <1>3

-----------------------------------------------------------------------------
(* The steps that leave the pane to what it becomes.  *)

LEMMA Unmoved ==
  ASSUME IInv, UNCHANGED vars
  PROVE  IInv'
BY DEF IInv, vars, Fits, Sound, OneEdit, OnRow, Chosen, Busy, OwnTarget, RowsOK, OldRow, HasOld, Frozen, Placed, Precedes, Single, Before, NoTwo, Ids, IndexOf, Kinds

LEMMA DispatchKeeps ==
  ASSUME IInv, Dispatch
  PROVE  IInv'
<1>1. /\ call = NoCall /\ call' = NoCall /\ pane' = Dispatched(pane, watch.queue) /\ disk' = disk
      /\ watch' = [watch EXCEPT !.queue = <<>>]
  BY DEF Dispatch
<1>2. watch.queue \in Seq(Batch) /\ disk' \subseteq Names /\ watch' \in WatchRecord
  <2>1. watch \in WatchRecord /\ disk \subseteq Names
    BY DEF IInv
  <2>2. <<>> \in Seq(Batch)
    OBVIOUS
  <2>3. watch' \in WatchRecord
    BY <1>1, <2>1, <2>2 DEF WatchRecord
  <2> QED  BY <1>1, <2>1, <2>3 DEF WatchRecord
<1>3. Fits(pane, call) /\ Sound(pane) /\ OnRow(pane) /\ Chosen(pane)
  BY DEF IInv, Fits
<1> DEFINE q == Dispatched(pane, watch.queue)
<1>4. Becomes(q, pane) /\ (RowsOK(pane) => RowsOK(q))
  BY <1>2, <1>3, DispatchedIs
<1> HIDE DEF q
<1>5. Fits(q, NoCall)
  BY <1>3, <1>4, OverFits
<1>6. pane' = q
  BY <1>1 DEF q
<1> QED  BY <1>1, <1>2, <1>5, <1>6 DEF IInv

LEMMA WatchKeeps ==
  ASSUME IInv, watch' \in WatchRecord, disk' \subseteq Names, UNCHANGED <<pane, call>>
  PROVE  IInv'
<1>1. Fits(pane', call')
  BY DEF IInv
<1> QED  BY <1>1 DEF IInv

LEMMA ChangeKeeps ==
  ASSUME IInv, NEW old \in 0 .. LastName, NEW new \in 0 .. LastName, Change(old, new)
  PROVE  IInv'
<1>1. /\ disk' = (disk \ {old}) \cup ({new} \ {0}) /\ UNCHANGED <<pane, call>>
      /\ watch' = [watch EXCEPT !.records = Append(@, <<old, new>>)]
  BY DEF Change
<1>2. disk' \subseteq Names
  BY <1>1, NamesAssumption DEF IInv, Names
<1>3. watch' \in WatchRecord
  <2>1. watch.records \in Seq((0 .. LastName) \X (0 .. LastName)) /\ watch \in WatchRecord
    BY DEF IInv, WatchRecord
  <2> DEFINE records == Append(watch.records, <<old, new>>)
  <2>2. records \in Seq((0 .. LastName) \X (0 .. LastName))
    BY <2>1
  <2> HIDE DEF records
  <2>3. watch' = [watch EXCEPT !.records = records]
    BY <1>1 DEF records
  <2> QED  BY <2>1, <2>2, <2>3 DEF WatchRecord
<1> QED  BY <1>1, <1>2, <1>3, WatchKeeps

LEMMA QueueGrows ==
  ASSUME NEW w \in WatchRecord, NEW b \in Batch
  PROVE  Append(w.queue, b) \in Seq(Batch)
BY DEF WatchRecord

LEMMA NotifyKeeps ==
  ASSUME IInv, Notify
  PROVE  IInv'
<1> DEFINE touched == ({watch.records[i][1] : i \in DOMAIN watch.records} \cup
                       {watch.records[i][2] : i \in DOMAIN watch.records}) \ {0}
           b == [kind |-> "delta", names |-> touched \cap disk, removed |-> touched \ disk,
                 renamed |-> Renames(watch.records)]
<1>1. /\ watch' = [watch EXCEPT !.records = <<>>, !.queue = Append(@, b)]
      /\ UNCHANGED <<disk, pane, call>>
  BY DEF Notify
<1>2. watch \in WatchRecord /\ watch.records \in Seq((0 .. LastName) \X (0 .. LastName)) /\ disk \subseteq Names
  BY DEF IInv, WatchRecord
<1>3. touched \subseteq Names
  <2>1. \A i \in DOMAIN watch.records : watch.records[i] \in (0 .. LastName) \X (0 .. LastName)
    BY <1>2
  <2> QED  BY <2>1, NamesAssumption DEF Names
<1>4. Renames(watch.records) \in Pairs
  BY <1>2, RenamesIn
<1> HIDE DEF touched
<1>5. b \in Batch
  BY <1>3, <1>4 DEF Batch, DeltaBatch
<1> HIDE DEF b
<1>6. Append(watch.queue, b) \in Seq(Batch)
  BY <1>2, <1>5, QueueGrows
<1>7. watch' \in WatchRecord
  <2> DEFINE queue == Append(watch.queue, b)
  <2>1. watch' = [watch EXCEPT !.records = <<>>, !.queue = queue]
    BY <1>1
  <2>2. <<>> \in Seq((0 .. LastName) \X (0 .. LastName))
    OBVIOUS
  <2> HIDE DEF queue
  <2>3. queue \in Seq(Batch)
    BY <1>6 DEF queue
  <2> QED  BY <1>2, <2>1, <2>2, <2>3 DEF WatchRecord
<1> QED  BY <1>1, <1>2, <1>7, WatchKeeps

LEMMA OverflowKeeps ==
  ASSUME IInv, Overflow
  PROVE  IInv'
<1> DEFINE b == [kind |-> "begin"]
           queue == Append(watch.queue, b)
<1>1. /\ watch' = [watch EXCEPT !.records = <<>>, !.reading = TRUE, !.queue = queue]
      /\ UNCHANGED <<disk, pane, call>>
  BY DEF Overflow
<1>2. watch \in WatchRecord /\ disk \subseteq Names
  BY DEF IInv
<1>3. b \in Batch
  BY DEF Batch
<1>4. queue \in Seq(Batch)
  BY <1>2, <1>3, QueueGrows
<1>5. <<>> \in Seq((0 .. LastName) \X (0 .. LastName))
  OBVIOUS
<1> HIDE DEF queue
<1>6. watch' \in WatchRecord
  BY <1>1, <1>2, <1>4, <1>5 DEF WatchRecord
<1> QED  BY <1>1, <1>2, <1>6, WatchKeeps

LEMMA ReadKeeps ==
  ASSUME IInv, Read
  PROVE  IInv'
<1> DEFINE b == [kind |-> "rows", names |-> disk]
           queue == Append(watch.queue, b)
<1>1. /\ watch' = [watch EXCEPT !.reading = FALSE, !.queue = queue]
      /\ UNCHANGED <<disk, pane, call>>
  BY DEF Read
<1>2. watch \in WatchRecord /\ disk \subseteq Names
  BY DEF IInv
<1>3. b \in Batch
  BY <1>2 DEF Batch
<1>4. queue \in Seq(Batch)
  BY <1>2, <1>3, QueueGrows
<1> HIDE DEF queue
<1>5. watch' \in WatchRecord
  BY <1>1, <1>2, <1>4 DEF WatchRecord
<1> QED  BY <1>1, <1>2, <1>5, WatchKeeps

-----------------------------------------------------------------------------
(* The steps of a Shell operation.  *)

LEMMA EndedFits ==
  ASSUME IInv
  PROVE  Fits(Ended(pane, call), NoCall)
<1>1. Fits(pane, call) /\ Sound(pane) /\ OnRow(pane) /\ Chosen(pane)
      /\ call \in CallRecord /\ Busy(pane, call) /\ OwnTarget(call)
  BY DEF IInv, Fits
<1> DEFINE q == Ended(pane, call)
<1>2. Becomes(q, pane) /\ (RowsOK(pane) /\ OldRow(pane, call) => RowsOK(q))
  BY <1>1, EndedIs
<1> HIDE DEF q
<1>3. Fits(q, NoCall)
  BY <1>1, <1>2, OverFits
<1> QED  BY <1>3 DEF q

\* The operation goes on.
LEMMA CallGoesOn ==
  ASSUME NEW p, NEW c, Fits(p, c), c # NoCall, NEW d \in CallRecord, d.kind = c.kind, d.generation = c.generation,
         d.targets = c.targets, d.typed = c.typed, d.mark = c.mark
  PROVE  Fits(p, d)
BY DEF Fits, Busy, OwnTarget, OldRow, HasOld

LEMMA SetupReturnsKeeps ==
  ASSUME IInv, SetupReturns
  PROVE  IInv'
<1>1. disk' \subseteq Names /\ watch' \in WatchRecord /\ call # NoCall
  BY DEF SetupReturns, IInv
<1>2. CASE call' = [call EXCEPT !.step = @ - 1] /\ UNCHANGED pane
  <2>1. Fits(pane, call) /\ call \in CallRecord
    BY DEF IInv, Fits
  <2> DEFINE d == [call EXCEPT !.step = @ - 1]
  <2>2. /\ d \in CallRecord /\ d.kind = call.kind /\ d.generation = call.generation
        /\ d.targets = call.targets /\ d.typed = call.typed /\ d.mark = call.mark
    BY <2>1 DEF CallRecord
  <2> HIDE DEF d
  <2>3. Fits(pane, d)
    BY <1>1, <2>1, <2>2, CallGoesOn
  <2>4. call' = d /\ pane' = pane
    BY <1>2 DEF d
  <2> QED  BY <1>1, <2>3, <2>4 DEF IInv
<1>3. CASE call' = NoCall /\ pane' = Ended(pane, call)
  BY <1>1, <1>3, EndedFits DEF IInv
<1> QED  BY <1>2, <1>3 DEF SetupReturns

LEMMA ReturnsKeeps ==
  ASSUME IInv, Returns
  PROVE  IInv'
<1>1. disk' \subseteq Names /\ watch' \in WatchRecord
  BY DEF Returns, IInv
<1>2. call' = NoCall /\ pane' = Ended(pane, call)
  BY DEF Returns
<1> QED  BY <1>1, <1>2, EndedFits DEF IInv

\* The items of a command, one after the other.
LEMMA Listed ==
  ASSUME NEW S \in SUBSET Names
  PROVE  SetToSeq(S) \in Seq(Names)
<1>1. IsFiniteSet(S)
  <2>1. IsFiniteSet(Names)
    BY NamesAssumption, FS_Interval DEF Names
  <2> QED  BY <2>1, FS_Subset
<1> DEFINE n == Cardinality(S)
<1>2. n \in Nat /\ ExistsBijection(1 .. n, S)
  BY <1>1, FS_CardinalityType
<1>3. \E f \in [1 .. n -> S] : IsInjective(f)
  BY <1>2 DEF ExistsBijection, Bijection, Injection
<1>4. SetToSeq(S) \in [1 .. n -> S]
  BY <1>3 DEF SetToSeq
<1> HIDE DEF n
<1> QED  BY <1>2, <1>4

LEMMA PerformKeeps ==
  ASSUME IInv, Perform
  PROVE  IInv'
<1>1. /\ Fits(pane, call) /\ call \in CallRecord /\ watch \in WatchRecord /\ disk \subseteq Names
      /\ call # NoCall /\ call.kind # "none"
  BY DEF IInv, Fits, Perform
<1>2. CASE \E effect \in Effects(call) :
             LET gone == effect[1] new == effect[2]
                 deleted == SetToSeq(gone)
                 renames == call.kind = "rename"
             IN /\ gone \subseteq disk /\ new \notin disk
                /\ disk' = (disk \ gone) \cup ({new} \ {0})
                /\ watch' = [watch EXCEPT !.records = @ \o
                     IF renames THEN <<<<call.typed.for, new>>>>
                     ELSE IF new # 0 THEN <<<<0, new>>>> ELSE [i \in DOMAIN deleted |-> <<deleted[i], 0>>]]
                /\ \E result \in Reported(call, new) : call' = [call EXCEPT !.step = -1, !.result = result]
  <2> PICK effect \in Effects(call) :
             LET gone == effect[1] new == effect[2]
                 deleted == SetToSeq(gone)
                 renames == call.kind = "rename"
             IN /\ gone \subseteq disk /\ new \notin disk
                /\ disk' = (disk \ gone) \cup ({new} \ {0})
                /\ watch' = [watch EXCEPT !.records = @ \o
                     IF renames THEN <<<<call.typed.for, new>>>>
                     ELSE IF new # 0 THEN <<<<0, new>>>> ELSE [i \in DOMAIN deleted |-> <<deleted[i], 0>>]]
                /\ \E result \in Reported(call, new) : call' = [call EXCEPT !.step = -1, !.result = result]
    BY <1>2
  <2> DEFINE gone == effect[1]
             new == effect[2]
             deleted == SetToSeq(gone)
             cut == [i \in DOMAIN deleted |-> <<deleted[i], 0>>]
             more == IF call.kind = "rename" THEN <<<<call.typed.for, new>>>>
                     ELSE IF new # 0 THEN <<<<0, new>>>> ELSE cut
             Record == (0 .. LastName) \X (0 .. LastName)
  <2>1. /\ gone \in SUBSET Names /\ disk' = (disk \ gone) \cup ({new} \ {0})
        /\ watch' = [watch EXCEPT !.records = @ \o more]
        /\ \E result \in Reported(call, new) : call' = [call EXCEPT !.step = -1, !.result = result]
    BY <1>1
  <2>2. new \in 0 .. LastName
    <3>1. CASE call.kind = "rename"
      BY <1>1, <3>1 DEF Effects, CallRecord, Text
    <3>2. CASE call.kind = "create"
      <4>1. ~(Given \subseteq disk) /\ new = Min(Given \ disk)
        BY <3>2 DEF Effects
      <4>2. Given \ disk \in SUBSET Nat /\ Given \ disk # {}
        BY <4>1, NamesAssumption
      <4>3. Min(Given \ disk) \in Given
        BY <4>2, LeastPlace
      <4> HIDE DEF new
      <4> QED  BY <4>1, <4>3, NamesAssumption
    <3>3. CASE call.kind = "delete"
      BY <3>3, NamesAssumption DEF Effects
    <3>4. CASE call.kind = "paste"
      BY <3>4, NamesAssumption DEF Effects, Names
    <3> HIDE DEF new
    <3> QED  BY <1>1, <3>1, <3>2, <3>3, <3>4 DEF CallRecord, Kinds
  <2>3. more \in Seq(Record)
    <3>1. cut \in Seq(Record)
      <4>1. deleted \in Seq(Names)
        BY <2>1, Listed
      <4> HIDE DEF deleted
      <4>2. \A i \in DOMAIN deleted : <<deleted[i], 0>> \in Record
        BY <4>1, NamesAssumption DEF Names
      <4>3. Len(deleted) \in Nat /\ DOMAIN deleted = 1 .. Len(deleted)
        BY <4>1
      <4> HIDE DEF Record
      <4>4. cut \in [1 .. Len(deleted) -> Record]
        BY <4>2, <4>3
      <4> DEFINE n == Len(deleted)
      <4> HIDE DEF cut, n
      <4>5. n \in Nat /\ cut \in [1 .. n -> Record]
        BY <4>3, <4>4 DEF n
      <4> QED  BY ONLY <4>5, SeqDef
    <3>2. <<call.typed.for, new>> \in Record /\ <<0, new>> \in Record
      BY <1>1, <2>2, NamesAssumption DEF CallRecord, Text
    <3> HIDE DEF cut, Record
    <3> QED  BY <3>1, <3>2
  <2> HIDE DEF gone, new, more, Record
  <2>4. disk' \subseteq Names
    BY <1>1, <2>1, <2>2, NamesAssumption DEF Names
  <2>5. watch' \in WatchRecord
    <3> DEFINE records == watch.records \o more
    <3>1. watch.records \in Seq(Record)
      BY <1>1 DEF WatchRecord, Record
    <3>2. records \in Seq(Record)
      BY <2>3, <3>1, ConcatProperties
    <3>3. watch' = [watch EXCEPT !.records = records]
      BY <2>1
    <3> HIDE DEF records
    <3> QED  BY <1>1, <3>2, <3>3 DEF WatchRecord, Record
  <2>9. PICK result \in 0 .. LastName : call' = [call EXCEPT !.step = -1, !.result = result]
    <3>1. Reported(call, new) \subseteq 0 .. LastName
      BY <2>2, NamesAssumption DEF Reported
    <3> QED  BY <2>1, <3>1
  <2> DEFINE d == [call EXCEPT !.step = -1, !.result = result]
  <2>6. /\ d \in CallRecord /\ d.kind = call.kind /\ d.generation = call.generation
        /\ d.targets = call.targets /\ d.typed = call.typed /\ d.mark = call.mark
    <3>1. call \in CallRecord /\ -1 \in Int
      BY <1>1
    <3>2. result \in 0 .. LastName
      BY <2>9
    <3> QED  BY ONLY <3>1, <3>2 DEF CallRecord
  <2>7. call' = d /\ pane' = pane
    BY <2>9 DEF Perform
  <2> HIDE DEF d
  <2>8. Fits(pane, d)
    BY <1>1, <2>6, CallGoesOn
  <2> QED  BY <2>4, <2>5, <2>7, <2>8 DEF IInv
<1>3. CASE call' = [call EXCEPT !.step = -1] /\ UNCHANGED <<disk, watch>>
  <2> DEFINE d == [call EXCEPT !.step = -1]
  <2>1. /\ d \in CallRecord /\ d.kind = call.kind /\ d.generation = call.generation
        /\ d.targets = call.targets /\ d.typed = call.typed /\ d.mark = call.mark
    BY <1>1 DEF CallRecord
  <2>2. call' = d /\ pane' = pane
    BY <1>3 DEF Perform
  <2> HIDE DEF d
  <2>3. Fits(pane, d)
    BY <1>1, <2>1, CallGoesOn
  <2> QED  BY <1>1, <1>3, <2>2, <2>3 DEF IInv
<1> QED  BY <1>2, <1>3 DEF Perform

-----------------------------------------------------------------------------
(* What the user does.  *)

\* Only the pane and the call change.
LEMMA PaneKeeps ==
  ASSUME IInv, Fits(pane', call'), UNCHANGED <<disk, watch>>
  PROVE  IInv'
BY DEF IInv

LEMMA PaneIs ==
  ASSUME IInv
  PROVE  /\ Fits(pane, call) /\ Sound(pane) /\ OnRow(pane) /\ Chosen(pane) /\ OneEdit(pane)
         /\ pane \in PaneRecord /\ pane.rows \in Seq(Row) /\ pane.edit \in Edit /\ pane.typed \in Text
         /\ pane.selected \in SUBSET Names /\ pane.generation \in Nat
BY DEF IInv, Fits, Sound, PaneRecord

\* An edit is ended.
LEMMA CancelledFits ==
  ASSUME NEW p, NEW c, Fits(p, c)
  PROVE  Fits(Cancelled(p), c)
<1> DEFINE q == Cancelled(p)
<1>1. Sound(p) /\ Chosen(p)
  BY DEF Fits
<1>2. Sound(q) /\ SameRows(q, p) /\ OnRow(q) /\ q.selected = p.selected /\ q.busy = p.busy
  BY <1>1, CancelledIs
<1> HIDE DEF q
<1>3. Chosen(q)
  BY <1>1, <1>2 DEF Chosen, SameRows
<1>4. Fits(q, c)
  BY <1>2, <1>3, StillFits
<1> QED  BY <1>4 DEF q

LEMMA EnterKeeps ==
  ASSUME IInv, Enter
  PROVE  IInv'
<1>1. Commit(pane, Typed) /\ UNCHANGED <<disk, watch>> /\ pane.focus = "edit"
  BY DEF Enter
<1>2. Fits(pane, call) /\ pane.edit # NoEdit /\ pane.edit \in Edit
  BY <1>1, PaneIs DEF OneEdit
<1>3. Typed \in Text /\ Typed.for = pane.edit.id
  BY <1>2 DEF Typed, Text, Edit
<1>4. Fits(pane', call')
  BY <1>1, <1>2, <1>3, CommitIs
<1> QED  BY <1>1, <1>4, PaneKeeps

LEMMA CommitPostedKeeps ==
  ASSUME IInv, CommitPosted
  PROVE  IInv'
<1> DEFINE r == [pane EXCEPT !.posted = FALSE]
           p == Forgotten(r)
           ends == pane.typed = NoText \/ pane.edit = NoEdit \/ pane.busy
<1>1. /\ UNCHANGED <<disk, watch>>
      /\ IF ends THEN pane' = p /\ UNCHANGED call ELSE Commit(p, pane.typed)
  BY DEF CommitPosted
<1>2. /\ r \in PaneRecord /\ SameRows(r, pane) /\ r.edit = pane.edit /\ r.typed = pane.typed
      /\ r.selected = pane.selected /\ r.busy = pane.busy /\ r.focus = pane.focus /\ r.top = pane.top
  BY PaneIs DEF PaneRecord, SameRows
<1> HIDE DEF r
<1>3. Sound(r)
  BY <1>2, PaneIs DEF Sound, OneEdit
<1>4. /\ Sound(p) /\ SameRows(p, r) /\ p.edit = r.edit /\ p.top = r.top /\ p.selected = r.selected
      /\ p.busy = r.busy
  BY <1>3, ForgottenIs
<1> HIDE DEF p
<1>5. SameRows(p, pane)
  BY <1>2, <1>4, SameRowsAgain
<1>6. OnRow(p) /\ Chosen(p) /\ p.busy = pane.busy
  BY <1>2, <1>4, <1>5, PaneIs DEF OnRow, Chosen, SameRows
<1>7. Fits(p, call)
  BY <1>4, <1>5, <1>6, PaneIs, StillFits
<1>8. CASE ends
  <2>1. pane' = p /\ call' = call
    BY <1>1, <1>8
  <2> QED  BY <1>1, <1>7, <2>1, PaneKeeps
<1>9. CASE ~ends
  <2>1. Commit(p, pane.typed)
    BY <1>1, <1>9
  <2>2. p.edit # NoEdit /\ pane.typed \in Text /\ pane.typed.for = p.edit.id
    BY <1>2, <1>4, <1>9, PaneIs DEF OneEdit
  <2>3. Fits(pane', call')
    BY <1>7, <2>1, <2>2, CommitIs
  <2> QED  BY <1>1, <2>3, PaneKeeps
<1> QED  BY <1>8, <1>9

LEMMA BeginRenameKeeps ==
  ASSUME IInv, BeginRename
  PROVE  IInv'
<1> DEFINE q == Begun(pane)
<1>1. pane' = q /\ UNCHANGED <<disk, watch, call>>
  BY DEF BeginRename
<1>2. Sound(q) /\ SameRows(q, pane) /\ OnRow(q) /\ Chosen(q) /\ q.busy = pane.busy
  BY PaneIs, BegunIs
<1> HIDE DEF q
<1>3. Fits(q, call)
  BY <1>2, PaneIs, StillFits
<1> QED  BY <1>1, <1>3, PaneKeeps

LEMMA TypeKeeps ==
  ASSUME IInv, NEW name \in Names, Type(name)
  PROVE  IInv'
<1> DEFINE q == [pane EXCEPT !.edit.text = name]
           edit == [pane.edit EXCEPT !.text = name]
<1>1. pane' = q /\ UNCHANGED <<disk, watch, call>> /\ pane.focus = "edit"
  BY DEF Type
<1>2. /\ edit \in Edit /\ edit.id = pane.edit.id /\ edit.offset = pane.edit.offset /\ edit # NoEdit
      /\ pane.edit # NoEdit
  <2>1. pane.edit # NoEdit
    BY <1>1, PaneIs DEF OneEdit
  <2>2. pane.edit.id \in Names
    BY <2>1, PaneIs, NamesAre DEF OnRow
  <2>3. edit \in Edit /\ edit.id = pane.edit.id /\ edit.offset = pane.edit.offset
    BY PaneIs, NamesAssumption DEF Edit, Names
  <2>4. pane.edit.id # 0
    BY <2>2, NamesAssumption DEF Names
  <2> HIDE DEF edit
  <2> QED  BY <2>1, <2>3, <2>4, Blank
<1>3. q = [pane EXCEPT !.edit = edit]
  BY PaneIs DEF PaneRecord
<1> HIDE DEF edit, q
<1>4. /\ q \in PaneRecord /\ SameRows(q, pane) /\ q.edit = edit /\ q.typed = pane.typed /\ q.top = pane.top
      /\ q.selected = pane.selected /\ q.busy = pane.busy /\ q.focus = pane.focus
  BY <1>2, <1>3, PaneIs DEF PaneRecord, SameRows
<1>5. Sound(q) /\ OnRow(q) /\ Chosen(q)
  BY <1>2, <1>4, PaneIs DEF Sound, OneEdit, OnRow, Chosen, SameRows
<1>6. Fits(q, call)
  BY <1>4, <1>5, PaneIs, StillFits
<1> QED  BY <1>1, <1>6, PaneKeeps

LEMMA EscapeKeeps ==
  ASSUME IInv, Escape
  PROVE  IInv'
BY CancelledFits, PaneIs, PaneKeeps DEF Escape

LEMMA LeaveKeeps ==
  ASSUME IInv, Leave
  PROVE  IInv'
<1>1. pane' \in Left(pane, "elsewhere") /\ UNCHANGED <<disk, watch, call>>
  BY DEF Leave
<1>2. Fits(pane', call)
  BY <1>1, PaneIs, LeftIs
<1> QED  BY <1>1, <1>2, PaneKeeps

LEMMA ClickKeeps ==
  ASSUME IInv, NEW row \in DOMAIN pane.rows, Click(row)
  PROVE  IInv'
<1>1. UNCHANGED <<disk, watch, call>>
  BY DEF Click
<1>2. PICK p \in Left(pane, "list") : pane' = [p EXCEPT !.selected = {p.rows[row].id}]
  BY DEF Click
<1>3. Fits(p, call) /\ p.rows = pane.rows
  BY <1>2, PaneIs, LeftIs
<1>4. p \in PaneRecord /\ OneEdit(p) /\ OnRow(p)
  BY <1>3 DEF Fits, Sound
<1> DEFINE selected == {p.rows[row].id}
           q == [p EXCEPT !.selected = selected]
<1>5. selected \subseteq Ids(p.rows) /\ Ids(p.rows) \subseteq Names
  <2>1. selected \subseteq Ids(p.rows)
    BY <1>3 DEF Ids
  <2>2. p.rows \in Seq(Row)
    BY <1>4 DEF PaneRecord
  <2> QED  BY <2>1, <2>2, NamesAre
<1> HIDE DEF selected
<1>6. /\ q \in PaneRecord /\ SameRows(q, p) /\ q.edit = p.edit /\ q.typed = p.typed /\ q.top = p.top
      /\ q.selected = selected /\ q.busy = p.busy /\ q.focus = p.focus
  BY <1>4, <1>5 DEF PaneRecord, SameRows
<1> HIDE DEF q
<1>7. Sound(q) /\ OnRow(q) /\ Chosen(q)
  BY <1>4, <1>5, <1>6 DEF Sound, OneEdit, OnRow, Chosen, SameRows
<1>8. Fits(q, call)
  BY <1>3, <1>6, <1>7, StillFits
<1>9. pane' = q
  BY <1>2 DEF q, selected
<1> QED  BY <1>1, <1>8, <1>9, PaneKeeps

LEMMA RefocusKeeps ==
  ASSUME IInv, Refocus
  PROVE  IInv'
<1> DEFINE r == Forgotten(pane)
           q == [r EXCEPT !.focus = "edit"]
<1>1. pane' = q /\ UNCHANGED <<disk, watch, call>> /\ pane.edit # NoEdit
  BY DEF Refocus
<1>2. /\ Sound(r) /\ SameRows(r, pane) /\ r.typed = NoText /\ r.edit = pane.edit /\ r.top = pane.top
      /\ r.selected = pane.selected /\ r.busy = pane.busy
  BY PaneIs, ForgottenIs
<1> HIDE DEF r
<1>3. /\ q \in PaneRecord /\ SameRows(q, r) /\ q.typed = NoText /\ q.edit = pane.edit /\ q.top = pane.top
      /\ q.selected = pane.selected /\ q.busy = pane.busy /\ q.focus = "edit"
  BY <1>2 DEF Sound, PaneRecord, SameRows
<1> HIDE DEF q
<1>4. SameRows(q, pane)
  BY <1>2, <1>3, SameRowsAgain
<1>5. Sound(q) /\ OnRow(q) /\ Chosen(q)
  BY <1>1, <1>3, <1>4, PaneIs DEF Sound, OneEdit, OnRow, Chosen, SameRows
<1>6. Fits(q, call)
  BY <1>3, <1>4, <1>5, PaneIs, StillFits
<1> QED  BY <1>1, <1>6, PaneKeeps

LEMMA ScrollKeeps ==
  ASSUME IInv, NEW top \in Int, Scroll(top)
  PROVE  IInv'
<1> DEFINE r == Cancelled(pane)
           q == [r EXCEPT !.top = top]
<1>1. pane' = q /\ UNCHANGED <<disk, watch, call>>
  BY DEF Scroll
<1>2. /\ Sound(r) /\ SameRows(r, pane) /\ r.typed = NoText /\ r.edit = NoEdit
      /\ r.selected = pane.selected /\ r.busy = pane.busy /\ r.focus # "edit"
  BY PaneIs, CancelledIs
<1> HIDE DEF r
<1>3. /\ q \in PaneRecord /\ SameRows(q, r) /\ q.typed = NoText /\ q.edit = NoEdit
      /\ q.selected = pane.selected /\ q.busy = pane.busy /\ q.focus # "edit"
  BY <1>2 DEF Sound, PaneRecord, SameRows
<1> HIDE DEF q
<1>4. SameRows(q, pane)
  BY <1>2, <1>3, SameRowsAgain
<1>5. Sound(q) /\ OnRow(q) /\ Chosen(q)
  BY <1>3, <1>4, PaneIs DEF Sound, OneEdit, OnRow, Chosen, SameRows
<1>6. Fits(q, call)
  BY <1>3, <1>4, <1>5, PaneIs, StillFits
<1> QED  BY <1>1, <1>6, PaneKeeps

LEMMA ClearedIs ==
  ASSUME NEW o, NEW q, NEW rows \in Seq(Row)
  PROVE  LET r == Cleared(rows) IN
         /\ r \in Seq(Row) /\ Ids(r) = Ids(rows)
         /\ \A a \in Range(r) : a.mark = 0
         /\ Single(rows, o) => Single(r, q)
<1> DEFINE r == Cleared(rows)
           n == Len(rows)
<1>1. n \in Nat /\ DOMAIN rows = 1 .. n /\ \A i \in DOMAIN rows : rows[i] \in Row
  OBVIOUS
<1>2. r = [i \in DOMAIN rows |-> [rows[i] EXCEPT !.mark = 0]]
  BY DEF Cleared
<1>3. \A i \in DOMAIN rows : /\ [rows[i] EXCEPT !.mark = 0] \in Row
                             /\ [rows[i] EXCEPT !.mark = 0].id = rows[i].id
                             /\ [rows[i] EXCEPT !.mark = 0].mark = 0
  BY <1>1 DEF Row
<1> HIDE DEF r, n
<1>4. r \in [1 .. n -> Row]
  BY <1>1, <1>2, <1>3
<1>5. DOMAIN r = DOMAIN rows /\ \A i \in DOMAIN r : r[i].id = rows[i].id /\ r[i].mark = 0
  BY <1>2, <1>3
<1>6. r \in Seq(Row)
  BY ONLY <1>1, <1>4, SeqDef
<1>7. Ids(r) = Ids(rows)
  BY <1>5 DEF Ids
<1>8. \A a \in Range(r) : \E i \in DOMAIN r : a = r[i]
  BY DEF Range
<1>9. \A a \in Range(r) : a.mark = 0
  BY <1>5, <1>8
<1>10. ASSUME Single(rows, o)
       PROVE  Single(r, q)
  <2>1. \A i, j \in DOMAIN rows : rows[i].id = rows[j].id => rows[i] = rows[j]
    <3>1. \A i \in DOMAIN rows : rows[i] \in Range(rows)
      BY DEF Range
    <3> QED  BY <1>10, <3>1 DEF Single, NoTwo
  <2>2. \A i, j \in DOMAIN r : r[i].id = r[j].id => i = j
    BY <1>5, <1>10, <2>1 DEF Single
  <2>3. NoTwo(Range(r), q)
    BY <1>8, <1>9, <2>2 DEF NoTwo
  <2> QED  BY <2>2, <2>3 DEF Single
<1> QED  BY <1>6, <1>7, <1>9, <1>10 DEF r

LEMMA SortKeeps ==
  ASSUME IInv, Sort
  PROVE  IInv'
<1> DEFINE r == Cancelled(pane)
           sorted == Sorted(Unmarked(Ids(r.rows)))
           rows == IF Frozen(pane) THEN Cleared(r.rows) ELSE sorted
           again == call.kind = "rename" /\ call.generation = pane.generation
           outdated == IF again THEN call.mark ELSE 0
           p == [r EXCEPT !.pending = {}, !.sequence = 0, !.outdated = IF again THEN call.mark ELSE 0,
                   !.rows = IF Frozen(pane) THEN Cleared(@) ELSE Sorted(Unmarked(Ids(@)))]
           q == Restored(p, View(pane))
<1>1. pane' = q /\ UNCHANGED <<disk, watch, call>>
  BY DEF Sort
<1>2. /\ Sound(r) /\ SameRows(r, pane) /\ r.typed = NoText /\ r.edit = NoEdit
      /\ r.selected = pane.selected /\ r.busy = pane.busy /\ r.focus # "edit"
  BY PaneIs, CancelledIs
<1> HIDE DEF r
<1>3. /\ r \in PaneRecord /\ r.rows \in Seq(Row) /\ r.generation = pane.generation /\ r.rows = pane.rows
      /\ r.mode = pane.mode /\ outdated \in Nat
  BY <1>2, PaneIs DEF Sound, PaneRecord, SameRows, Fits, CallRecord
<1> HIDE DEF outdated
<1>4. p = [r EXCEPT !.pending = {}, !.sequence = 0, !.outdated = outdated, !.rows = rows]
  BY <1>3 DEF PaneRecord, outdated
<1> DEFINE U == Unmarked(Ids(r.rows))
<1>5. U \in SUBSET Row /\ IsFiniteSet(U) /\ NoTwo(U, outdated) /\ (\A a \in U : a.mark = 0)
  BY <1>3, NamesAre, UnmarkedIs
<1> HIDE DEF U
<1>6. sorted \in Seq(Row) /\ Range(sorted) = U /\ InOrder(sorted) /\ Single(sorted, outdated)
  BY <1>5, SortedLists, SortedSingle DEF U
<1> HIDE DEF sorted
<1>7. /\ rows \in Seq(Row) /\ \A a \in Range(rows) : a.mark = 0
      /\ Single(rows, outdated)
      /\ ~Frozen(pane) => InOrder(rows)
  <2>1. CASE Frozen(pane)
    <3>1. rows = Cleared(r.rows)
      BY <2>1
    <3> HIDE DEF rows
    <3>2. rows \in Seq(Row) /\ (\A a \in Range(rows) : a.mark = 0) /\ (Single(r.rows, pane.outdated) => Single(rows, outdated))
      BY <1>3, <3>1, ClearedIs
    <3>3. Single(r.rows, pane.outdated)
      BY <1>3, PaneIs DEF Fits, RowsOK
    <3> QED  BY <2>1, <3>2, <3>3
  <2>2. CASE ~Frozen(pane)
    <3>1. rows = sorted
      BY <2>2
    <3> HIDE DEF rows
    <3> QED  BY <1>5, <1>6, <3>1
  <2> HIDE DEF rows
  <2> QED  BY <2>1, <2>2
<1> HIDE DEF rows, p, q
<1>8. /\ p \in PaneRecord /\ p.rows = rows /\ p.pending = {} /\ p.sequence = 0 /\ p.generation = pane.generation
      /\ p.edit = NoEdit /\ p.typed = NoText /\ p.busy = pane.busy /\ p.focus # "edit" /\ p.mode = pane.mode
      /\ p.outdated = outdated
  BY <1>2, <1>3, <1>4, <1>7 DEF PaneRecord
<1>9. Sound(p) /\ RowsOK(p)
  <2>1. ~Frozen(p) => Placed(rows, outdated)
    BY <1>7, <1>8, OrderIsPlace DEF Frozen
  <2> QED  BY <1>7, <1>8, <2>1 DEF Sound, OneEdit, RowsOK
<1>10. View(pane) \in ViewRecord
  BY PaneIs, ViewIs
<1>11. /\ Sound(q) /\ SameRows(q, p) /\ Chosen(q) /\ q.busy = p.busy /\ (q.edit = p.edit \/ q.edit = NoEdit)
  BY <1>10, <1>9, RestoredIs DEF q
<1>12. /\ OnRow(q) /\ RowsOK(q) /\ q.generation = pane.generation
       /\ q.busy = pane.busy /\ q.outdated = outdated
  BY <1>8, <1>11, <1>9, SameRowsKeep DEF OnRow, SameRows
<1>13. OldRow(q, call)
  BY <1>12 DEF OldRow, HasOld, outdated
<1>14. Busy(q, call)
  BY <1>12, PaneIs DEF Busy, Fits
<1>15. Fits(q, call)
  BY <1>11, <1>12, <1>13, <1>14, PaneIs DEF Fits
<1> QED  BY <1>1, <1>15, PaneKeeps

LEMMA RefreshKeeps ==
  ASSUME IInv, NEW kept \in BOOLEAN, Refresh(kept)
  PROVE  IInv'
<1> DEFINE r == Cancelled(pane)
           p == [r EXCEPT !.pending = {}, !.sequence = 0, !.outdated = 0, !.generation = @ + 1]
           rows == Cleared(p.rows)
           again == [p EXCEPT !.mode = "updating", !.rows = Cleared(@)]
           empty == [p EXCEPT !.mode = "loading", !.rows = <<>>, !.selected = {}, !.top = 1]
<1>1. /\ pane' = IF kept THEN again ELSE empty
      /\ watch' = [records |-> <<>>, reading |-> TRUE, queue |-> <<>>] /\ UNCHANGED <<disk, call>>
  BY DEF Refresh
<1>2. watch' \in WatchRecord
  <2>1. <<>> \in Seq((0 .. LastName) \X (0 .. LastName)) /\ <<>> \in Seq(Batch)
    OBVIOUS
  <2> QED  BY <1>1, <2>1 DEF WatchRecord
<1>3. /\ Sound(r) /\ SameRows(r, pane) /\ r.typed = NoText /\ r.edit = NoEdit
      /\ r.selected = pane.selected /\ r.busy = pane.busy /\ r.focus # "edit"
  BY PaneIs, CancelledIs
<1> HIDE DEF r
<1>4. /\ r \in PaneRecord /\ r.generation = pane.generation /\ r.generation \in Nat /\ r.rows = pane.rows
  BY <1>3 DEF Sound, PaneRecord, SameRows
<1>5. /\ p \in PaneRecord /\ p.rows = pane.rows /\ p.pending = {} /\ p.sequence = 0 /\ p.outdated = 0
      /\ p.generation = pane.generation + 1 /\ p.edit = NoEdit /\ p.typed = NoText
      /\ p.selected = pane.selected /\ p.busy = pane.busy /\ p.focus # "edit"
  <2> DEFINE g == r.generation + 1
  <2>1. g \in Nat /\ g = pane.generation + 1
    BY <1>4
  <2>2. p = [r EXCEPT !.pending = {}, !.sequence = 0, !.outdated = 0, !.generation = g]
    BY <1>4 DEF PaneRecord
  <2> HIDE DEF g, p
  <2>3. p \in PaneRecord
    BY <1>4, <2>1, <2>2 DEF PaneRecord
  <2>4. /\ p.rows = r.rows /\ p.pending = {} /\ p.sequence = 0 /\ p.outdated = 0 /\ p.generation = g /\ p.edit = r.edit
        /\ p.typed = r.typed /\ p.selected = r.selected /\ p.busy = r.busy /\ p.focus = r.focus
    BY <1>4, <2>2 DEF PaneRecord
  <2> QED  BY <1>3, <1>4, <2>1, <2>3, <2>4 DEF p
<1> HIDE DEF p
<1>6. again = [p EXCEPT !.mode = "updating", !.rows = rows]
  BY <1>5 DEF PaneRecord
<1>7. p.rows \in Seq(Row)
  BY <1>5, PaneIs
<1>8. /\ rows \in Seq(Row) /\ Ids(rows) = Ids(pane.rows) /\ \A a \in Range(rows) : a.mark = 0
      /\ Single(pane.rows, pane.outdated) => Single(rows, 0)
  BY <1>5, <1>7, ClearedIs
<1> HIDE DEF rows, again, empty
<1>9. CASE kept
  <2>1. pane' = again
    BY <1>1, <1>9
  <2>2. /\ again \in PaneRecord /\ again.rows = rows /\ again.mode = "updating" /\ again.pending = {}
        /\ again.sequence = 0 /\ again.generation = pane.generation + 1 /\ again.edit = NoEdit
        /\ again.typed = NoText /\ again.selected = pane.selected /\ again.busy = pane.busy
        /\ again.focus # "edit" /\ again.outdated = 0
    BY <1>5, <1>6, <1>8 DEF PaneRecord, Modes
  <2>3. Sound(again) /\ OnRow(again) /\ Chosen(again)
    BY <1>8, <2>2, PaneIs DEF Sound, OneEdit, OnRow, Chosen
  <2>4. RowsOK(again)
    <3>1. Single(pane.rows, pane.outdated)
      BY PaneIs DEF Fits, RowsOK
    <3> QED  BY <1>8, <2>2, <3>1 DEF RowsOK, Frozen
  <2>5. Fits(again, call)
    <3>1. call.generation \in Nat /\ call.generation <= pane.generation
      BY PaneIs DEF Fits, CallRecord
    <3>2. call.generation # again.generation /\ call.generation <= again.generation
      BY <2>2, <3>1, PaneIs
    <3>3. Busy(again, call) /\ OldRow(again, call)
      BY <2>2, <3>2, PaneIs DEF Fits, Busy, OldRow
    <3> QED  BY <2>3, <2>4, <3>2, <3>3, PaneIs DEF Fits
  <2> QED  BY <1>1, <1>2, <2>1, <2>5 DEF IInv
<1>10. CASE ~kept
  <2>1. pane' = empty
    BY <1>1, <1>10
  <2>2. <<>> \in Seq(Row) /\ Ids(<<>>) = {} /\ Range(<<>>) = {} /\ DOMAIN <<>> = {}
    BY DEF Ids, Range
  <2>3. /\ empty \in PaneRecord /\ empty.rows = <<>> /\ empty.pending = {} /\ empty.sequence = 0
        /\ empty.generation = pane.generation + 1 /\ empty.edit = NoEdit /\ empty.typed = NoText
        /\ empty.selected = {} /\ empty.busy = pane.busy /\ empty.focus # "edit" /\ empty.outdated = 0
    <3> DEFINE none == <<>>
    <3>1. none \in Seq(Row)
      OBVIOUS
    <3>2. empty = [p EXCEPT !.mode = "loading", !.rows = none, !.selected = {}, !.top = 1]
      BY DEF empty
    <3> HIDE DEF none
    <3>3. empty \in PaneRecord
      <4>1. p \in PaneRecord /\ {} \in SUBSET Names /\ 1 \in Int /\ "loading" \in Modes
        BY <1>5 DEF Modes
      <4> QED  BY ONLY <3>1, <3>2, <4>1 DEF PaneRecord
    <3>4. /\ empty.rows = none /\ empty.pending = p.pending /\ empty.sequence = p.sequence
          /\ empty.generation = p.generation /\ empty.edit = p.edit /\ empty.typed = p.typed
          /\ empty.selected = {} /\ empty.busy = p.busy /\ empty.focus = p.focus /\ empty.outdated = p.outdated
      BY <1>5, <3>2 DEF PaneRecord
    <3> QED  BY <1>5, <3>3, <3>4 DEF none
  <2>4. Sound(empty) /\ OnRow(empty) /\ Chosen(empty)
    BY <2>3 DEF Sound, OneEdit, OnRow, Chosen
  <2>5. RowsOK(empty)
    <3>1. Single(<<>>, 0) /\ Placed(<<>>, 0)
      BY <2>2 DEF Single, Placed, NoTwo
    <3> QED  BY <2>2, <2>3, <3>1 DEF RowsOK
  <2>6. Fits(empty, call)
    <3>1. call.generation \in Nat /\ call.generation <= pane.generation
      BY PaneIs DEF Fits, CallRecord
    <3>2. call.generation # empty.generation /\ call.generation <= empty.generation
      BY <2>3, <3>1, PaneIs
    <3>3. Busy(empty, call) /\ OldRow(empty, call)
      BY <2>3, <3>2, PaneIs DEF Fits, Busy, OldRow
    <3> QED  BY <2>4, <2>5, <3>2, <3>3, PaneIs DEF Fits
  <2> QED  BY <1>1, <1>2, <2>1, <2>6 DEF IInv
<1> QED  BY <1>9, <1>10

LEMMA CreateFolderKeeps ==
  ASSUME IInv, CreateFolder
  PROVE  IInv'
<1> DEFINE r == Cancelled(pane)
           q == [r EXCEPT !.busy = TRUE]
           asks == Asking(pane, "create")
<1>1. pane' = q /\ call' = asks /\ UNCHANGED <<disk, watch>>
  BY DEF CreateFolder
<1>2. /\ Sound(r) /\ SameRows(r, pane) /\ r.typed = NoText /\ r.edit = NoEdit
      /\ r.selected = pane.selected /\ r.focus # "edit"
  BY PaneIs, CancelledIs
<1> HIDE DEF r
<1>3. /\ q \in PaneRecord /\ SameRows(q, r) /\ q.typed = NoText /\ q.edit = NoEdit
      /\ q.selected = pane.selected /\ q.focus # "edit" /\ q.busy = TRUE
  BY <1>2 DEF Sound, PaneRecord, SameRows
<1>4. SameRows(q, pane)
  BY <1>2, <1>3, SameRowsAgain
<1>5. asks \in CallRecord /\ asks.kind = "create" /\ asks.generation = pane.generation
  <2>1. "create" \in Kinds
    BY DEF Kinds
  <2> QED  BY <2>1, PaneIs, AskingIs
<1> HIDE DEF q, asks
<1>6. Sound(q) /\ OnRow(q) /\ Chosen(q)
  BY <1>3, <1>4, PaneIs DEF Sound, OneEdit, OnRow, Chosen, SameRows
<1>7. RowsOK(pane) => RowsOK(q)
  BY <1>4, SameRowsKeep
<1>8. Fits(q, asks)
  <2>1. Busy(q, asks) /\ OwnTarget(asks) /\ OldRow(q, asks)
    BY <1>3, <1>5 DEF Busy, OwnTarget, OldRow
  <2>2. asks.generation <= q.generation
    BY <1>4, <1>5, PaneIs DEF SameRows
  <2> QED  BY <1>5, <1>6, <1>7, <2>1, <2>2, PaneIs DEF Fits
<1> QED  BY <1>1, <1>8, PaneKeeps

LEMMA FileCommandKeeps ==
  ASSUME IInv, NEW kind \in {"delete", "paste"}, FileCommand(kind)
  PROVE  IInv'
<1> DEFINE none == Asking(pane, kind)
           targets == IF kind = "delete" THEN pane.selected ELSE {}
           asks == [none EXCEPT !.targets = targets]
<1>1. pane' = pane /\ call' = asks /\ UNCHANGED <<disk, watch>>
  BY DEF FileCommand
<1>2. none \in CallRecord /\ none.kind = kind /\ none.generation = pane.generation
  <2>1. kind \in Kinds
    BY DEF Kinds
  <2> QED  BY <2>1, PaneIs, AskingIs
<1>3. targets \in SUBSET Names
  BY PaneIs
<1> HIDE DEF none, targets
<1>4. asks \in CallRecord /\ asks.kind = kind /\ asks.generation = pane.generation
  BY <1>2, <1>3 DEF CallRecord
<1> HIDE DEF asks
<1>5. Fits(pane, asks)
  <2>1. Busy(pane, asks) /\ OwnTarget(asks) /\ OldRow(pane, asks) /\ asks.kind # "none"
    BY <1>4 DEF Busy, OwnTarget, OldRow
  <2>2. asks.generation <= pane.generation
    BY <1>4, PaneIs
  <2> QED  BY <1>4, <2>1, <2>2, PaneIs DEF Fits
<1> QED  BY <1>1, <1>5, PaneKeeps

-----------------------------------------------------------------------------
(* What holds.  *)

\* Every step keeps the invariant.
LEMMA StepKeeps == IInv /\ [Next]_vars => IInv'
<1> SUFFICES ASSUME IInv, [Next]_vars
             PROVE  IInv'
  OBVIOUS
<1>1. CASE UNCHANGED vars
  BY <1>1, Unmoved
<1>2. CASE Dispatch
  BY <1>2, DispatchKeeps
<1>3. CASE Notify
  BY <1>3, NotifyKeeps
<1>4. CASE Overflow
  BY <1>4, OverflowKeeps
<1>5. CASE Read
  BY <1>5, ReadKeeps
<1>6. CASE Operation
  BY <1>6, SetupReturnsKeeps, PerformKeeps, ReturnsKeeps DEF Operation
<1>7. CASE User
  <2>1. CASE Enter \/ CommitPosted \/ BeginRename \/ Escape
    BY <2>1, EnterKeeps, CommitPostedKeeps, BeginRenameKeeps, EscapeKeeps
  <2>2. CASE Leave \/ Refocus \/ Sort \/ CreateFolder
    BY <2>2, LeaveKeeps, RefocusKeeps, SortKeeps, CreateFolderKeeps
  <2>3. CASE \E name \in Names \ {pane.edit.id} : Type(name)
    BY <2>3, TypeKeeps
  <2>4. CASE \E row \in DOMAIN pane.rows : Click(row)
    BY <2>4, ClickKeeps
  <2>5. CASE \E top \in 1 .. LastTop(pane) : Scroll(top)
    BY <2>5, ScrollKeeps
  <2>6. CASE \E kept \in BOOLEAN : Refresh(kept)
    BY <2>6, RefreshKeeps
  <2>7. CASE \E kind \in {"delete", "paste"} : FileCommand(kind)
    BY <2>7, FileCommandKeeps
  <2> QED  BY <1>7, <2>1, <2>2, <2>3, <2>4, <2>5, <2>6, <2>7 DEF User
<1>8. CASE \E old, new \in 0 .. LastName : Change(old, new)
  BY <1>8, ChangeKeeps
<1> QED  BY <1>1, <1>2, <1>3, <1>4, <1>5, <1>6, <1>7, <1>8 DEF Next

LEMMA InvHolds == Spec => []IInv
BY InitInv, StepKeeps, PTL DEF Spec

\* The edit is on the row that the user sees it on.
THEOREM EditStays == Spec => []EditOnItsRow
<1>1. IInv => EditOnItsRow
  <2> SUFFICES ASSUME IInv, pane.edit # NoEdit
               PROVE  LET i == IndexOf(pane.rows, pane.edit.id)
                      IN ~pane.busy /\ i # 0 /\ pane.edit.offset = i - pane.top
                         /\ pane.edit.offset \in 0 .. Page - 1
    BY DEF EditOnItsRow
  <2>1. OneEdit(pane) /\ OnRow(pane) /\ pane.rows \in Seq(Row) /\ pane.busy \in BOOLEAN
    BY PaneIs DEF PaneRecord
  <2>2. pane.edit.id \in Ids(pane.rows)
    BY <2>1 DEF OnRow
  <2>3. IndexOf(pane.rows, pane.edit.id) # 0
    BY <2>1, <2>2, IndexIs
  <2> QED  BY <2>1, <2>3 DEF OneEdit, OnRow
<1> QED  BY <1>1, InvHolds, PTL

\* A rename is asked for the item that the name was typed for.
THEOREM CommitsItsItem == Spec => []CommitNamesItsItem
<1>1. IInv => CommitNamesItsItem
  BY DEF IInv, Fits, OwnTarget, CommitNamesItsItem
<1> QED  BY <1>1, InvHolds, PTL

\* The rows stay in order, whatever is clicked while a Shell operation pumps
\* messages: at most one number is on two rows, and a rename brought it back.
THEOREM RowsStayInOrder == Spec => []NewFoldersStayLast
<1>1. IInv => NewFoldersStayLast
  <2> SUFFICES ASSUME IInv
               PROVE  NewFoldersStayLast
    OBVIOUS
  <2>1. RowsOK(pane) /\ pane.rows \in Seq(Row) /\ pane.sequence \in Nat /\ pane.outdated \in Nat
    BY PaneIs DEF Fits, PaneRecord
  <2>2. \A i \in DOMAIN pane.rows : pane.rows[i] \in Row /\ pane.rows[i] \in Range(pane.rows)
    BY <2>1 DEF Range
  <2>3. \A i \in DOMAIN pane.rows : i \in Nat
    BY <2>1
  <2>4. \A i, j \in DOMAIN pane.rows :
          i # j => /\ pane.rows[i].id # pane.rows[j].id
                   /\ pane.rows[i].mark # pane.rows[j].mark \/ pane.rows[i].mark \in {0, pane.outdated}
    BY <2>1, <2>2 DEF RowsOK, Single, NoTwo
  <2>5. \A i \in DOMAIN pane.rows : pane.rows[i].mark \in 0 .. pane.sequence \cup {pane.outdated}
    BY <2>1, <2>2 DEF RowsOK, Row
  <2>6. ASSUME ~Frozen(pane), NEW i \in DOMAIN pane.rows, NEW j \in DOMAIN pane.rows, i < j
        PROVE  LET a == pane.rows[i] b == pane.rows[j]
               IN \/ a.mark < b.mark
                  \/ a.mark = 0 /\ b.mark = 0 /\ a.id < b.id
                  \/ a.mark # 0 /\ a.mark = b.mark /\ a.mark = pane.outdated
    <3>1. Precedes(pane.rows[i], pane.rows[j], pane.outdated)
      BY <2>1, <2>6 DEF RowsOK, Placed
    <3>2. i # j
      BY <2>3, <2>6
    <3> QED  BY <2>4, <3>1, <3>2 DEF Precedes, Before
  <2> QED  BY <2>4, <2>5, <2>6 DEF NewFoldersStayLast
<1> QED  BY <1>1, InvHolds, PTL
=============================================================================
