------------------------- MODULE RowEnrichmentProofs -------------------------
(***************************************************************************)
(* SlotsMatchKeys, NothingOlderThanItsRow, DoneMeansSorted and OwedIsComing *)
(* of RowEnrichment, for any number of rows, any window, keys, interest,   *)
(* capacity, number of merge steps and number of disturbances.             *)
(***************************************************************************)
EXTENDS RowEnrichment, TLAPS, FiniteSetTheorems, FunctionTheorems, SequenceTheorems, WellFoundedInduction

-----------------------------------------------------------------------------
(* Sequences, numbers and functions defined step by step.  *)

\* r is s without its i-th entry.
Lacks(r, s, i) ==
  Len(r) = Len(s) - 1 /\ \A k \in 1 .. Len(r) : r[k] = IF k < i THEN s[k] ELSE s[k + 1]

\* What RemoveAt leaves.
LEMMA Removed ==
  ASSUME NEW S, NEW s \in Seq(S), NEW i \in DOMAIN s, NEW r, r = RemoveAt(s, i)
  PROVE  r \in Seq(S) /\ Lacks(r, s, i)
<1> DEFINE a == SubSeq(s, 1, i - 1)
           b == SubSeq(s, i + 1, Len(s))
<1>1. /\ Len(s) \in Nat /\ DOMAIN s = 1 .. Len(s) /\ i \in 1 .. Len(s)
      /\ \A k \in 1 .. Len(s) : s[k] \in S
  OBVIOUS
<1>2. /\ a \in Seq(S) /\ Len(a) = i - 1
      /\ \A k \in 1 .. i - 1 : a[k] = s[k]
  BY <1>1, SubSeqProperties
<1>3. /\ b \in Seq(S) /\ Len(b) = Len(s) - i
      /\ \A k \in 1 .. Len(s) - i : b[k] = s[i + k]
  BY <1>1, SubSeqProperties
<1>4. r = a \o b
  BY DEF RemoveAt
<1> HIDE DEF a, b
<1>5. /\ r \in Seq(S) /\ Len(r) = Len(a) + Len(b)
      /\ \A k \in 1 .. Len(a) + Len(b) : r[k] = IF k <= Len(a) THEN a[k] ELSE b[k - Len(a)]
  <2>1. /\ a \o b \in Seq(S) /\ Len(a \o b) = Len(a) + Len(b)
        /\ \A k \in 1 .. Len(a) + Len(b) :
             (a \o b)[k] = IF k <= Len(a) THEN a[k] ELSE b[k - Len(a)]
    BY <1>2, <1>3, ConcatProperties
  <2> QED  BY <1>4, <2>1, Zenon
<1>6. Len(r) = Len(s) - 1
  BY <1>1, <1>2, <1>3, <1>5
<1>7. ASSUME NEW k \in 1 .. Len(r)
      PROVE  r[k] = IF k < i THEN s[k] ELSE s[k + 1]
  <2>1. /\ k \in Nat /\ k >= 1 /\ k <= Len(a) + Len(b) /\ k <= Len(s) - 1
        /\ Len(a) \in Nat /\ Len(b) \in Nat
    BY <1>1, <1>2, <1>3, <1>5, <1>6
  <2>2. r[k] = IF k <= Len(a) THEN a[k] ELSE b[k - Len(a)]
    BY <1>5, <2>1
  <2>3. CASE k < i
    BY <1>1, <1>2, <2>1, <2>2, <2>3
  <2>4. CASE ~(k < i)
    <3>1. k - Len(a) \in 1 .. Len(s) - i /\ i + (k - Len(a)) = k + 1
      BY <1>1, <1>2, <2>1, <2>4
    <3>2. b[k - Len(a)] = s[k + 1]
      BY <1>3, <3>1
    <3> QED  BY <1>1, <1>2, <2>1, <2>2, <2>4, <3>2
  <2> QED  BY <2>3, <2>4
<1> QED  BY <1>5, <1>6, <1>7 DEF Lacks

\* A set of numbers that is not empty has a least one.
LEMMA Least ==
  ASSUME NEW T \in SUBSET Nat, T # {}
  PROVE  \E x \in T : \A y \in T : x <= y
<1>1. PICK x \in T : \A y \in T : ~ (<<y, x>> \in OpToRel(<, Nat))
  BY WFMin, NatLessThanWellFounded, Zenon
<1>2. \A y \in T : ~(y < x)
  BY <1>1 DEF OpToRel
<1> QED  BY <1>2

\* The least of some places.
LEMMA LeastPlace ==
  ASSUME NEW T \in SUBSET Nat, T # {}
  PROVE  Min(T) \in T /\ \A y \in T : Min(T) <= y
BY Least DEF Min


\* What a step keeps from each place to the next holds at all of them.
LEMMA AllAlong ==
  ASSUME NEW n \in Nat, NEW T, NEW f, f[0] \in T[0],
         \A k \in 1 .. n : f[k - 1] \in T[k - 1] => f[k] \in T[k]
  PROVE  \A k \in 0 .. n : f[k] \in T[k]
<1> DEFINE U == {m \in 0 .. n : f[m] \notin T[m]}
<1>1. SUFFICES ASSUME U # {}
               PROVE  FALSE
  OBVIOUS
<1>2. PICK m \in U : \A y \in U : m <= y
  <2>1. U \in SUBSET Nat
    OBVIOUS
  <2> HIDE DEF U
  <2> QED  BY <1>1, <2>1, Least
<1>3. m # 0 /\ m - 1 \in 0 .. n /\ m - 1 \notin U /\ m \in 1 .. n
  BY <1>2
<1> QED  BY <1>2, <1>3

\* f lists base and what follows from it.
Steps(f, base, n, F) == f = [k \in 0 .. n |-> IF k = 0 THEN base ELSE F[<<k, f[k - 1]>>]]

\* Values that follow from one another can be listed.
LEMMA Walks ==
  ASSUME NEW n \in Nat, NEW T, NEW F, NEW base \in T[0],
         \A k \in 1 .. n : \A s \in T[k - 1] : F[<<k, s>>] \in T[k]
  PROVE  \E f : Steps(f, base, n, F)
<1> DEFINE Is(f, m) == Steps(f, base, m, F)
           U == {m \in 0 .. n : ~ \E f : Is(f, m)}
<1>1. SUFFICES ASSUME U # {}
               PROVE  FALSE
  OBVIOUS
<1>2. PICK m \in U : \A y \in U : m <= y
  <2>1. U \in SUBSET Nat
    OBVIOUS
  <2> HIDE DEF U
  <2> QED  BY <1>1, <2>1, Least
<1>3. CASE m = 0
  <2> DEFINE f == [k \in 0 .. 0 |-> base]
  <2>1. f = [k \in 0 .. 0 |-> IF k = 0 THEN base ELSE F[<<k, f[k - 1]>>]]
    OBVIOUS
  <2> QED  BY <1>2, <1>3, <2>1 DEF Steps
<1>4. CASE m # 0
  <2>1. m \in Nat /\ m - 1 \in 0 .. n /\ m - 1 \notin U
    BY <1>2, <1>4
  <2>2. PICK f : Is(f, m - 1)
    BY <2>1
  <2> DEFINE g == [k \in 0 .. m |-> IF k = 0 THEN base ELSE F[<<k, f[k - 1]>>]]
  <2>3. f = [k \in 0 .. m - 1 |-> IF k = 0 THEN base ELSE F[<<k, f[k - 1]>>]]
    BY <2>2 DEF Steps
  <2>4. ASSUME NEW k \in 0 .. m - 1
        PROVE  g[k] = f[k]
    <3>1. k \in 0 .. m
      BY <2>1
    <3>2. g[k] = IF k = 0 THEN base ELSE F[<<k, f[k - 1]>>]
      BY <3>1
    <3>3. f[k] = IF k = 0 THEN base ELSE F[<<k, f[k - 1]>>]
      BY <2>3, Zenon
    <3> QED  BY <3>2, <3>3
  <2>5. \A k \in 0 .. m : k = 0 \/ k - 1 \in 0 .. m - 1
    BY <2>1
  <2>6. \A k \in 0 .. m : g[k] = IF k = 0 THEN base ELSE F[<<k, g[k - 1]>>]
    BY <2>4, <2>5
  <2>7. Is(g, m)
    BY <2>6 DEF Steps
  <2> QED  BY <1>2, <2>7
<1> QED  BY <1>3, <1>4

-----------------------------------------------------------------------------
(* Sorting.  *)

\* A set of pairs that orders 1 .. n.
Orders(before, n) ==
  /\ \A i \in 1 .. n : <<i, i>> \notin before
  /\ \A i, j \in 1 .. n : i # j => <<i, j>> \in before \/ <<j, i>> \in before
  /\ \A i, j, k \in 1 .. n : <<i, j>> \in before /\ <<j, k>> \in before => <<i, k>> \in before

\* Ranked lists 1 .. n in the order, each place once.
LEMMA RankedIs ==
  ASSUME NEW n \in Nat, NEW before, Orders(before, n)
  PROVE  LET r == Ranked(n, before) IN
         /\ r \in Seq(Nat) /\ Len(r) = n /\ \A k \in 1 .. n : r[k] \in 1 .. n
         /\ \A i, j \in 1 .. n : i < j => <<r[i], r[j]>> \in before
         /\ \A i, j \in 1 .. n : r[i] = r[j] => i = j
         /\ \A i \in 1 .. n : \E k \in 1 .. n : r[k] = i
<1> DEFINE Earlier(i) == {j \in 1 .. n : <<j, i>> \in before}
           Rank(i) == Cardinality(Earlier(i))
           rank == [i \in 1 .. n |-> Rank(i)]
           r == Ranked(n, before)
<1>1. IsFiniteSet(1 .. n) /\ Cardinality(1 .. n) = n
  BY FS_Interval
<1>2. ASSUME NEW i \in 1 .. n
      PROVE  IsFiniteSet(Earlier(i)) /\ Rank(i) \in Nat /\ Rank(i) <= n - 1
  <2>1. Earlier(i) \in SUBSET (1 .. n) /\ i \notin Earlier(i)
    BY DEF Orders
  <2> HIDE DEF Earlier
  <2>2. /\ IsFiniteSet(Earlier(i)) /\ Cardinality(Earlier(i)) <= Cardinality(1 .. n)
        /\ Cardinality(1 .. n) = Cardinality(Earlier(i)) => 1 .. n = Earlier(i)
    BY <1>1, <2>1, FS_Subset
  <2>3. Cardinality(Earlier(i)) \in Nat
    BY <2>2, FS_CardinalityType
  <2>4. Cardinality(Earlier(i)) # n
    BY <1>1, <2>1, <2>2
  <2> QED  BY <1>1, <2>2, <2>3, <2>4
<1>3. ASSUME NEW i \in 1 .. n, NEW j \in 1 .. n, <<i, j>> \in before
      PROVE  Rank(i) < Rank(j)
  <2>1. i \in Earlier(j) /\ i \notin Earlier(i)
    BY <1>3 DEF Orders
  <2>2. Earlier(i) \in SUBSET Earlier(j)
    BY <1>3 DEF Orders
  <2>3. IsFiniteSet(Earlier(j)) /\ Rank(i) \in Nat /\ Rank(j) \in Nat
    BY <1>2
  <2> HIDE DEF Earlier
  <2>4. /\ Cardinality(Earlier(i)) <= Cardinality(Earlier(j))
        /\ Cardinality(Earlier(j)) = Cardinality(Earlier(i)) => Earlier(j) = Earlier(i)
    BY <2>2, <2>3, FS_Subset
  <2>5. Earlier(j) # Earlier(i)
    BY <2>1
  <2> QED  BY <2>3, <2>4, <2>5
<1> HIDE DEF Earlier, Rank
<1>4. rank \in Injection(1 .. n, 0 .. n - 1)
  <2>1. rank \in [1 .. n -> 0 .. n - 1]
    BY <1>2
  <2>2. ASSUME NEW i \in 1 .. n, NEW j \in 1 .. n, rank[i] = rank[j]
        PROVE  i = j
    <3>1. Rank(i) \in Int /\ Rank(i) = Rank(j)
      BY <1>2, <2>2
    <3>2. <<i, j>> \notin before /\ <<j, i>> \notin before
      BY <1>3, <3>1
    <3> QED  BY <3>2 DEF Orders
  <2> HIDE DEF rank
  <2> QED  BY <2>1, <2>2 DEF Injection, IsInjective
<1>5. rank \in Surjection(1 .. n, 0 .. n - 1)
  <2>1. IsFiniteSet(0 .. n - 1) /\ Cardinality(0 .. n - 1) = n
    BY FS_Interval
  <2> HIDE DEF rank
  <2> QED  BY <1>1, <1>4, <2>1, FS_Injection
<1>6. \A k \in 1 .. n : \E i \in 1 .. n : Rank(i) = k - 1
  <2>1. \A k \in 0 .. n - 1 : \E i \in 1 .. n : rank[i] = k
    <3> HIDE DEF rank
    <3> QED  BY <1>5 DEF Surjection
  <2>2. \A k \in 1 .. n : k - 1 \in 0 .. n - 1
    OBVIOUS
  <2> QED  BY <2>1, <2>2
<1>7. r = [k \in 1 .. n |-> CHOOSE i \in 1 .. n : Rank(i) = k - 1]
  BY DEF Ranked, Rank, Earlier
<1> HIDE DEF r
<1>8. \A k \in 1 .. n : r[k] \in 1 .. n /\ Rank(r[k]) = k - 1
  BY <1>6, <1>7
<1>9. r \in Seq(Nat) /\ Len(r) = n
  <2>1. \A k \in 1 .. n : r[k] \in Nat
    BY <1>8
  <2>2. DOMAIN r = 1 .. n /\ r = [k \in 1 .. n |-> r[k]]
    BY <1>7
  <2>3. r \in [1 .. n -> Nat]
    BY <2>1, <2>2
  <2> QED  BY <2>2, <2>3
<1>10. ASSUME NEW i \in 1 .. n
       PROVE  \E k \in 1 .. n : r[k] = i
  <2>1. Rank(i) + 1 \in 1 .. n /\ Rank(i) \in Nat
    BY <1>2
  <2>2. Rank(r[Rank(i) + 1]) = Rank(i) /\ r[Rank(i) + 1] \in 1 .. n
    BY <1>8, <2>1
  <2>3. <<r[Rank(i) + 1], i>> \notin before /\ <<i, r[Rank(i) + 1]>> \notin before
    BY <1>3, <2>1, <2>2
  <2> QED  BY <2>1, <2>2, <2>3 DEF Orders
<1>11. ASSUME NEW i \in 1 .. n, NEW j \in 1 .. n, i < j
       PROVE  <<r[i], r[j]>> \in before
  <2>1. r[i] \in 1 .. n /\ r[j] \in 1 .. n /\ Rank(r[i]) = i - 1 /\ Rank(r[j]) = j - 1
    BY <1>8
  <2>2. r[i] # r[j] /\ ~(Rank(r[j]) < Rank(r[i]))
    BY <1>11, <2>1
  <2>3. <<r[j], r[i]>> \notin before
    BY <1>3, <2>1, <2>2
  <2> QED  BY <2>1, <2>2, <2>3 DEF Orders
<1>12. ASSUME NEW i \in 1 .. n, NEW j \in 1 .. n, r[i] = r[j]
       PROVE  i = j
  <2>1. Rank(r[i]) = i - 1 /\ Rank(r[j]) = j - 1
    BY <1>8
  <2> QED  BY <1>12, <2>1
<1> QED  BY <1>8, <1>9, <1>10, <1>11, <1>12 DEF r

-----------------------------------------------------------------------------
(* What the state is made of.  *)

\* The key of a type's icon, or of a row's icon and properties.
Key == [id : {0, -1}, stamp : {-1}, size : Nat] \cup [id : Ids, stamp : Nat, size : Nat]

\* One for an image, or for the property of a row.
Request == [property : {""}, key : Key, row : {0}]
             \cup [property : Keys \cup {"type"}, key : Key, row : Nat \ {0}]

Answer == [request : Request, look : Nat]

Row == [id : Ids, stamp : Nat, look : Nat, properties : [type : Value, sort : Value]]

Saved == [order : Seq(Nat), steps : Nat]

Entry == [key : Key, slot : Nat]

Image == [key : Key, look : Nat]

PaneRecord ==
  [rows : Seq(Row), phase : {"loading", "complete"}, watch : {"inactive", "recovering", "watching"},
   first : Ids, key : Keys, pending : BOOLEAN, cursor : Nat, failed : BOOLEAN, order : Saved,
   interest : Seq(Key), owed : SUBSET Request, tried : SUBSET Key, posted : BOOLEAN,
   size : Nat, wanted : Nat, cache : Seq(Entry), images : Seq(Image),
   queue : Seq(Request), results : Seq(Answer), fresh : BOOLEAN]

DiskOK(d) == d \in [Ids -> [stamp : Nat, look : Nat]]

\* Each entry has a slot of its own, with the image of its key in it.
CacheOK(cache, images) ==
  /\ Len(images) = Len(cache) /\ Len(cache) <= Capacity
  /\ \A i \in DOMAIN cache : /\ cache[i].slot \in DOMAIN images
                             /\ images[cache[i].slot].key = cache[i].key
  /\ \A i, j \in DOMAIN cache : cache[i].slot = cache[j].slot => i = j

BoundsOK(p) ==
  /\ Len(p.queue) <= Interest /\ Len(p.results) <= IconResults /\ Len(p.interest) <= WindowRows
  /\ IsFiniteSet(p.owed) /\ Cardinality(p.owed) <= Interest
  /\ p.cursor <= Len(p.rows)

\* A row is not newer than its item, unless that is gone, and a property not
\* older than its row; the sort's slot holds the property of the sort.
RowOK(d, key, row) ==
  /\ row.stamp <= d[row.id].stamp
  /\ d[row.id].look = 0 \/ row.look <= d[row.id].look
  /\ row.properties.type.state = "value" => row.properties.type.look >= row.look
  /\ row.properties.sort.state = "value" => row.properties.sort.look >= row.look
  /\ row.properties.type.state = "value" => row.properties.type.of = "type"
  /\ row.properties.sort.state = "value" => row.properties.sort.of = key

\* Each item has one row; the first reading meets them in their order.
RowsOK(d, p) ==
  /\ \A i \in DOMAIN p.rows : RowOK(d, p.key, p.rows[i])
  /\ \A i, j \in DOMAIN p.rows : p.rows[i].id = p.rows[j].id => i = j
  /\ p.phase = "loading" => \A i \in DOMAIN p.rows : p.rows[i].id <= Len(p.rows)

\* No row of the key's item is older than the key.
KeyOK(p, key) ==
  /\ \A i \in DOMAIN p.rows : p.rows[i].id = key.id => key.stamp <= p.rows[i].stamp
  /\ p.phase = "loading" => key.id <= Len(p.rows)

\* What was read for a key is not older than a row with this key.
ReadOK(p, key, look) ==
  \A i \in DOMAIN p.rows :
    p.rows[i].id = key.id /\ p.rows[i].stamp = key.stamp => look >= p.rows[i].look

AnswerOK(p, a) == KeyOK(p, a.request.key) /\ (a.look = 0 \/ ReadOK(p, a.request.key, a.look))

ImagesOK(p, cache, images) ==
  \A i \in DOMAIN cache :
    KeyOK(p, cache[i].key) /\ ReadOK(p, cache[i].key, images[cache[i].slot].look)

AnswersOK(p, w) ==
  /\ \A i \in DOMAIN p.queue : KeyOK(p, p.queue[i].key)
  /\ \A i \in DOMAIN p.results : AnswerOK(p, p.results[i])
  /\ p.fresh => w # <<>> /\ AnswerOK(p, w[1])

Coming(p, w) ==
  \A request \in p.owed :
    \/ \E i \in DOMAIN p.queue : p.queue[i] = request
    \/ \E i \in DOMAIN p.results : p.results[i].request = request
    \/ p.fresh /\ w[1].request = request

Resolved(p, i) == p.rows[i].properties[Slot(p.key)].state # "unresolved"

\* The rows the cursor has passed are resolved or asked for.
CursorOK(p) ==
  p.pending /\ ~p.failed /\ p.watch # "recovering" =>
    \A i \in 1 .. p.cursor : Resolved(p, i) \/ PropertyRequest(p, i, p.key) \in p.owed

\* The merge under way is about the rows as they are.
OrderOK(p) ==
  p.order # NoOrder /\ p.watch # "recovering" =>
    /\ p.pending /\ p.owed = {} /\ (p.failed \/ p.cursor >= Len(p.rows))
    /\ p.order.order = Order(p)

\* The rows are in their order unless a sort is pending; a rescan begins after
\* the first reading.
SortOK(p) ==
  /\ p.watch = "recovering" => p.phase = "complete"
  /\ p.pending => p.key # "name"
  /\ p.phase = "loading" /\ p.key # "name" => p.pending
  /\ p.key = "name" /\ p.watch # "recovering" =>
       \A i, j \in DOMAIN p.rows : i < j => p.rows[i].id < p.rows[j].id
  /\ ~p.pending /\ ~p.failed /\ p.key # "name" =>
       /\ \A i \in DOMAIN p.rows : Resolved(p, i)
       /\ p.watch # "recovering" =>
            \A i, j \in DOMAIN p.rows : i < j => RowLess(p.key, p.rows[i], p.rows[j])

\* What a change of the rows must leave as it is.
Base(d, p) ==
  p \in PaneRecord /\ CacheOK(p.cache, p.images) /\ RowsOK(d, p) /\ ImagesOK(p, p.cache, p.images)

\* What holds of the lookups.
Lookups(p, w) ==
  BoundsOK(p) /\ AnswersOK(p, w) /\ Coming(p, w) /\ CursorOK(p) /\ OrderOK(p)

PaneOK(d, p, w) == Base(d, p) /\ Lookups(p, w) /\ SortOK(p)

IInv ==
  /\ DiskOK(disk) /\ worker \in Seq(Answer) /\ Len(worker) <= 1
  /\ PaneOK(disk, pane, worker)

-----------------------------------------------------------------------------
(* The types of its parts.  *)

LEMMA KeyTypes ==
  ASSUME NEW key \in Key
  PROVE  key.id \in Int /\ key.stamp \in Int /\ key.size \in Nat /\ (key.stamp # -1 => key.id \in Ids /\ key.stamp \in Nat)
         /\ key.id <= LastRow /\ (key.stamp = -1 => key.id <= 0)
BY RowsAssumption DEF Key, Ids

LEMMA RowTypes ==
  ASSUME NEW p \in PaneRecord
  PROVE  /\ p.rows \in Seq(Row) /\ Len(p.rows) \in Nat /\ DOMAIN p.rows = 1 .. Len(p.rows)
         /\ \A i \in DOMAIN p.rows :
              /\ p.rows[i] \in Row /\ p.rows[i].id \in Ids /\ p.rows[i].id \in Nat
              /\ p.rows[i].stamp \in Nat /\ p.rows[i].look \in Nat
<1>1. p.rows \in Seq(Row)
  BY DEF PaneRecord
<1>2. \A row \in Row : row.id \in Ids /\ row.id \in Nat /\ row.stamp \in Nat /\ row.look \in Nat
  BY DEF Row, Ids
<1> QED  BY <1>1, <1>2

LEMMA CacheTypes ==
  ASSUME NEW p \in PaneRecord
  PROVE  /\ p.cache \in Seq(Entry) /\ Len(p.cache) \in Nat /\ DOMAIN p.cache = 1 .. Len(p.cache)
         /\ p.images \in Seq(Image) /\ Len(p.images) \in Nat /\ DOMAIN p.images = 1 .. Len(p.images)
         /\ \A i \in DOMAIN p.cache : p.cache[i] \in Entry /\ p.cache[i].key \in Key /\ p.cache[i].slot \in Nat
         /\ \A i \in DOMAIN p.images : p.images[i] \in Image /\ p.images[i].key \in Key /\ p.images[i].look \in Nat
<1>1. p.cache \in Seq(Entry) /\ p.images \in Seq(Image)
  BY DEF PaneRecord
<1>2. /\ \A e \in Entry : e.key \in Key /\ e.slot \in Nat
      /\ \A e \in Image : e.key \in Key /\ e.look \in Nat
  BY DEF Entry, Image
<1> QED  BY <1>1, <1>2

LEMMA LookupTypes ==
  ASSUME NEW p \in PaneRecord
  PROVE  /\ p.queue \in Seq(Request) /\ Len(p.queue) \in Nat /\ DOMAIN p.queue = 1 .. Len(p.queue)
         /\ p.results \in Seq(Answer) /\ Len(p.results) \in Nat /\ DOMAIN p.results = 1 .. Len(p.results)
         /\ p.interest \in Seq(Key) /\ Len(p.interest) \in Nat /\ p.cursor \in Nat /\ p.owed \in SUBSET Request
         /\ \A i \in DOMAIN p.queue : p.queue[i] \in Request /\ p.queue[i].key \in Key
         /\ \A i \in DOMAIN p.results : /\ p.results[i] \in Answer /\ p.results[i].request \in Request
                                        /\ p.results[i].request.key \in Key /\ p.results[i].look \in Nat
<1>1. /\ p.queue \in Seq(Request) /\ p.results \in Seq(Answer) /\ p.interest \in Seq(Key)
      /\ p.cursor \in Nat /\ p.owed \in SUBSET Request
  BY DEF PaneRecord
<1>2. /\ \A e \in Answer : e.request \in Request /\ e.look \in Nat
      /\ \A e \in Request : e.key \in Key
  BY DEF Answer, Request
<1> QED  BY <1>1, <1>2

-----------------------------------------------------------------------------
(* Rows that follow others.  *)

\* Each row of q is an item as a row of p is, an item that is met for the first
\* time, or a changed one.
Follows(p, q) ==
  /\ q.phase = "loading" => p.phase = "loading" /\ Len(p.rows) <= Len(q.rows)
  /\ \A j \in DOMAIN q.rows :
       \/ \E i \in DOMAIN p.rows : /\ q.rows[j].id = p.rows[i].id /\ q.rows[j].look = p.rows[i].look
                                   /\ q.rows[j].stamp = p.rows[i].stamp
       \/ \E i \in DOMAIN p.rows : q.rows[j].id = p.rows[i].id /\ q.rows[j].stamp > p.rows[i].stamp
       \/ p.phase = "loading" /\ q.rows[j].id > Len(p.rows)

\* What was read stays as good as it was.
LEMMA KeysFollow ==
  ASSUME NEW p \in PaneRecord, NEW q \in PaneRecord, Follows(p, q), NEW key \in Key, KeyOK(p, key)
  PROVE  /\ KeyOK(q, key)
         /\ \A look \in Nat : ReadOK(p, key, look) => ReadOK(q, key, look)
<1>1. /\ \A i \in DOMAIN p.rows : p.rows[i].id \in Int /\ p.rows[i].stamp \in Int /\ p.rows[i].look \in Int
      /\ \A i \in DOMAIN q.rows : q.rows[i].id \in Int /\ q.rows[i].stamp \in Int /\ q.rows[i].look \in Int
      /\ Len(p.rows) \in Int /\ Len(q.rows) \in Int /\ key.id \in Int /\ key.stamp \in Int
  BY RowTypes, KeyTypes
<1>2. ASSUME NEW j \in DOMAIN q.rows, q.rows[j].id = key.id
      PROVE  key.stamp <= q.rows[j].stamp
  <2>1. CASE \E i \in DOMAIN p.rows : q.rows[j].id = p.rows[i].id /\ q.rows[j].stamp >= p.rows[i].stamp
    BY <1>1, <1>2, <2>1 DEF KeyOK
  <2>2. CASE p.phase = "loading" /\ q.rows[j].id > Len(p.rows)
    BY <1>1, <1>2, <2>2 DEF KeyOK
  <2> QED  BY <1>1, <2>1, <2>2 DEF Follows
<1>3. q.phase = "loading" => key.id <= Len(q.rows)
  BY <1>1 DEF KeyOK, Follows
<1>4. ASSUME NEW look \in Nat, ReadOK(p, key, look), NEW j \in DOMAIN q.rows,
             q.rows[j].id = key.id, q.rows[j].stamp = key.stamp
      PROVE  look >= q.rows[j].look
  BY <1>1, <1>4 DEF KeyOK, ReadOK, Follows
<1> QED  BY <1>2, <1>3, <1>4 DEF KeyOK, ReadOK

LEMMA ImagesFollow ==
  ASSUME NEW p \in PaneRecord, NEW q \in PaneRecord, Follows(p, q),
         ImagesOK(p, p.cache, p.images), CacheOK(p.cache, p.images)
  PROVE  ImagesOK(q, p.cache, p.images)
<1> SUFFICES ASSUME NEW i \in DOMAIN p.cache
             PROVE  KeyOK(q, p.cache[i].key) /\ ReadOK(q, p.cache[i].key, p.images[p.cache[i].slot].look)
  BY DEF ImagesOK
<1>1. p.cache[i].key \in Key /\ p.images[p.cache[i].slot].look \in Nat
  BY CacheTypes DEF CacheOK
<1>2. KeyOK(p, p.cache[i].key) /\ ReadOK(p, p.cache[i].key, p.images[p.cache[i].slot].look)
  BY DEF ImagesOK
<1> QED  BY <1>1, <1>2, KeysFollow

LEMMA AnswersFollow ==
  ASSUME NEW p \in PaneRecord, NEW q \in PaneRecord, Follows(p, q), NEW a \in Answer, AnswerOK(p, a)
  PROVE  AnswerOK(q, a)
<1>1. a.request.key \in Key /\ a.look \in Nat
  BY DEF Answer, Request
<1> QED  BY <1>1, KeysFollow DEF AnswerOK

\* The items of the rows as they are.
LEMMA FollowsSame ==
  ASSUME NEW p \in PaneRecord, NEW q, q.rows = p.rows, q.phase = p.phase
  PROVE  Follows(p, q)
BY DEF Follows, PaneRecord

-----------------------------------------------------------------------------
(* The image cache.  *)

\* q is p but for its cache and the images.
ButCache(p, q) ==
  /\ p \in PaneRecord /\ q \in PaneRecord
  /\ q.rows = p.rows /\ q.phase = p.phase /\ q.watch = p.watch /\ q.first = p.first /\ q.key = p.key
  /\ q.pending = p.pending /\ q.cursor = p.cursor /\ q.failed = p.failed /\ q.order = p.order
  /\ q.interest = p.interest /\ q.owed = p.owed /\ q.tried = p.tried /\ q.posted = p.posted
  /\ q.size = p.size /\ q.wanted = p.wanted
  /\ q.queue = p.queue /\ q.results = p.results /\ q.fresh = p.fresh

\* Slots that differ still do when those behind a removed one move.
LEMMA Moving ==
  ASSUME NEW x \in Nat, NEW y \in Nat, NEW slot \in Nat, x # slot, y # slot,
         (IF x > slot THEN x - 1 ELSE x) = (IF y > slot THEN y - 1 ELSE y)
  PROVE  x = y
OBVIOUS

\* What the eviction of an entry makes of the others.
LEMMA EvictedIs ==
  ASSUME NEW p \in PaneRecord, CacheOK(p.cache, p.images), NEW i \in DOMAIN p.cache, NEW q, q = Evicted(p, i)
  PROVE  /\ ButCache(p, q) /\ CacheOK(q.cache, q.images) /\ Len(q.cache) = Len(p.cache) - 1
         /\ \A j \in DOMAIN q.cache : \E k \in DOMAIN p.cache :
              /\ k # i /\ q.cache[j].key = p.cache[k].key
              /\ q.images[q.cache[j].slot] = p.images[p.cache[k].slot]
<1> DEFINE slot == p.cache[i].slot
           Moved(e) == IF e.slot > slot THEN [e EXCEPT !.slot = @ - 1] ELSE e
           left == RemoveAt(p.cache, i)
           images == RemoveAt(p.images, slot)
           cache == [j \in DOMAIN left |-> Moved(left[j])]
           Old(j) == IF j < i THEN j ELSE j + 1
<1>1. /\ slot \in DOMAIN p.images /\ slot \in Nat /\ i \in Nat /\ i \in 1 .. Len(p.cache)
      /\ Len(p.images) = Len(p.cache) /\ Len(p.cache) \in Nat
  BY CacheTypes DEF CacheOK
<1>2. left \in Seq(Entry) /\ Lacks(left, p.cache, i)
  BY CacheTypes, Removed
<1>3. images \in Seq(Image) /\ Lacks(images, p.images, slot)
  BY <1>1, CacheTypes, Removed
<1>4. q = [p EXCEPT !.images = images, !.cache = cache]
  BY DEF Evicted
<1> HIDE DEF left, images
<1>5. \A e \in Entry : e.slot > slot => Moved(e) \in Entry /\ Moved(e).key = e.key /\ Moved(e).slot = e.slot - 1
  BY <1>1 DEF Entry
<1>6. \A e \in Entry : ~(e.slot > slot) => Moved(e) = e
  BY <1>1 DEF Entry
<1> HIDE DEF Moved
<1>7. cache \in Seq(Entry) /\ Len(cache) = Len(left) /\ DOMAIN cache = 1 .. Len(left)
  <2>1. \A j \in DOMAIN left : Moved(left[j]) \in Entry
    BY <1>2, <1>5, <1>6
  <2>2. DOMAIN left = 1 .. Len(left) /\ Len(left) \in Nat
    BY <1>2
  <2>3. cache \in [1 .. Len(left) -> Entry]
    BY <2>1, <2>2
  <2> QED  BY <2>2, <2>3
<1>8. ButCache(p, q) /\ q.cache = cache /\ q.images = images
  BY <1>3, <1>4, <1>7 DEF PaneRecord, ButCache
<1>9. ASSUME NEW j \in DOMAIN cache
      PROVE  /\ Old(j) \in DOMAIN p.cache /\ Old(j) # i /\ cache[j] = Moved(p.cache[Old(j)])
             /\ cache[j].key = p.cache[Old(j)].key
             /\ cache[j].slot \in DOMAIN images /\ images[cache[j].slot] = p.images[p.cache[Old(j)].slot]
             /\ p.cache[Old(j)].slot # slot
             /\ cache[j].slot = IF p.cache[Old(j)].slot > slot THEN p.cache[Old(j)].slot - 1
                                ELSE p.cache[Old(j)].slot
  <2>1. j \in Nat /\ j >= 1 /\ j <= Len(p.cache) - 1 /\ j \in DOMAIN left
    BY <1>2, <1>7, CacheTypes DEF Lacks
  <2>2. Old(j) \in DOMAIN p.cache /\ Old(j) # i
    BY <1>1, <2>1, CacheTypes
  <2>3. left[j] = p.cache[Old(j)]
    BY <1>2, <2>1 DEF Lacks
  <2> DEFINE e == p.cache[Old(j)]
  <2>4. e \in Entry /\ e.slot \in Nat /\ e.slot \in DOMAIN p.images
    BY <2>2, CacheTypes DEF CacheOK
  <2>5. e.slot # slot
    BY <2>2 DEF CacheOK
  <2>6. cache[j] = Moved(e)
    BY <2>1, <2>3
  <2> HIDE DEF e, Old
  <2>7. Moved(e).key = e.key /\ Moved(e).slot = IF e.slot > slot THEN e.slot - 1 ELSE e.slot
    BY <1>5, <1>6, <2>4
  <2>8. Moved(e).slot \in 1 .. Len(p.images) - 1
    BY <1>1, <2>4, <2>5, <2>7, CacheTypes
  <2>9. Moved(e).slot \in DOMAIN images
    BY <1>3, <2>8 DEF Lacks
  <2>10. images[Moved(e).slot] = p.images[e.slot]
    <3>1. Moved(e).slot \in 1 .. Len(images)
      BY <1>3, <2>9
    <3>2. images[Moved(e).slot] = IF Moved(e).slot < slot THEN p.images[Moved(e).slot] ELSE p.images[Moved(e).slot + 1]
      BY <1>3, <3>1 DEF Lacks
    <3>3. CASE e.slot > slot
      <4>1. Moved(e).slot = e.slot - 1 /\ ~(Moved(e).slot < slot) /\ Moved(e).slot + 1 = e.slot
        BY <1>1, <2>4, <2>7, <3>3
      <4> QED  BY <3>2, <4>1
    <3>4. CASE ~(e.slot > slot)
      <4>1. Moved(e).slot = e.slot /\ Moved(e).slot < slot
        BY <1>1, <2>4, <2>5, <2>7, <3>4
      <4> QED  BY <3>2, <4>1
    <3> QED  BY <3>3, <3>4
  <2> QED  BY <2>2, <2>5, <2>6, <2>7, <2>9, <2>10 DEF e
<1>10. ASSUME NEW j \in DOMAIN cache, NEW k \in DOMAIN cache, cache[j].slot = cache[k].slot
       PROVE  j = k
  <2>1. p.cache[Old(j)].slot = p.cache[Old(k)].slot
    <3>1. p.cache[Old(j)].slot \in Nat /\ p.cache[Old(k)].slot \in Nat
      BY <1>9, CacheTypes
    <3>2. cache[j].slot = IF p.cache[Old(j)].slot > slot THEN p.cache[Old(j)].slot - 1 ELSE p.cache[Old(j)].slot
      BY <1>9
    <3>3. cache[k].slot = IF p.cache[Old(k)].slot > slot THEN p.cache[Old(k)].slot - 1 ELSE p.cache[Old(k)].slot
      BY <1>9
    <3>4. p.cache[Old(j)].slot # slot /\ p.cache[Old(k)].slot # slot
      BY <1>9
    <3>5. (IF p.cache[Old(j)].slot > slot THEN p.cache[Old(j)].slot - 1 ELSE p.cache[Old(j)].slot)
            = (IF p.cache[Old(k)].slot > slot THEN p.cache[Old(k)].slot - 1 ELSE p.cache[Old(k)].slot)
      BY <1>10, <3>2, <3>3, Zenon
    <3> HIDE DEF Old, cache
    <3> QED  BY <1>1, <3>1, <3>4, <3>5, Moving
  <2>2. Old(j) = Old(k)
    BY <1>9, <2>1 DEF CacheOK
  <2> QED  BY <1>1, <1>7, <2>2
<1>11. Len(cache) = Len(p.cache) - 1 /\ Len(images) = Len(cache)
  BY <1>1, <1>2, <1>3, <1>7 DEF Lacks
<1>12. CacheOK(cache, images)
  <2>1. Len(cache) <= Capacity
    BY <1>1, <1>11, LimitsAssumption DEF CacheOK
  <2>2. ASSUME NEW j \in DOMAIN cache
        PROVE  cache[j].slot \in DOMAIN images /\ images[cache[j].slot].key = cache[j].key
    <3>1. /\ Old(j) \in DOMAIN p.cache /\ cache[j].key = p.cache[Old(j)].key
          /\ cache[j].slot \in DOMAIN images /\ images[cache[j].slot] = p.images[p.cache[Old(j)].slot]
      BY <1>9
    <3> HIDE DEF Old, cache
    <3> QED  BY <3>1 DEF CacheOK
  <2> HIDE DEF cache, Old
  <2> QED  BY <1>10, <1>11, <2>1, <2>2 DEF CacheOK
<1> HIDE DEF cache, Old
<1> QED  BY <1>8, <1>9, <1>11, <1>12

\* A new image is behind those that stay.
LEMMA StoredIs ==
  ASSUME NEW p \in PaneRecord, CacheOK(p.cache, p.images), NEW key \in Key, NEW look \in Nat,
         NEW q, q = Stored(p, key, look)
  PROVE  /\ ButCache(p, q) /\ CacheOK(q.cache, q.images)
         /\ \A j \in DOMAIN q.cache :
              \/ q.cache[j].key = key /\ q.images[q.cache[j].slot].look = look
              \/ \E k \in DOMAIN p.cache : /\ q.cache[j].key = p.cache[k].key
                                           /\ q.images[q.cache[j].slot] = p.images[p.cache[k].slot]
<1> DEFINE room == IF Len(p.cache) = Capacity THEN Evicted(p, 1) ELSE p
<1>1. /\ ButCache(p, room) /\ CacheOK(room.cache, room.images) /\ Len(room.cache) < Capacity
      /\ \A j \in DOMAIN room.cache : \E k \in DOMAIN p.cache :
           /\ room.cache[j].key = p.cache[k].key
           /\ room.images[room.cache[j].slot] = p.images[p.cache[k].slot]
  <2>1. CASE Len(p.cache) = Capacity
    <3>1. 1 \in DOMAIN p.cache
      BY <2>1, CacheTypes, LimitsAssumption
    <3>2. room = Evicted(p, 1)
      BY <2>1
    <3> HIDE DEF room
    <3>3. /\ ButCache(p, room) /\ CacheOK(room.cache, room.images) /\ Len(room.cache) = Len(p.cache) - 1
          /\ \A j \in DOMAIN room.cache : \E k \in DOMAIN p.cache :
              /\ k # 1 /\ room.cache[j].key = p.cache[k].key
              /\ room.images[room.cache[j].slot] = p.images[p.cache[k].slot]
      BY <3>1, <3>2, EvictedIs
    <3> QED  BY <2>1, <3>3, LimitsAssumption
  <2>2. CASE Len(p.cache) # Capacity
    BY <2>2, CacheTypes, LimitsAssumption DEF ButCache, CacheOK
  <2> QED  BY <2>1, <2>2
<1> HIDE DEF room
<1> DEFINE images == Append(room.images, [key |-> key, look |-> look])
           cache == Append(room.cache, [key |-> key, slot |-> Len(room.images) + 1])
           n == Len(room.cache)
<1>2. q = [room EXCEPT !.images = images, !.cache = cache]
  BY DEF Stored, room
<1>3. room \in PaneRecord
  BY <1>1 DEF ButCache
<1>4. /\ n \in Nat /\ Len(room.images) = n
      /\ DOMAIN room.cache = 1 .. n /\ DOMAIN room.images = 1 .. n
      /\ room.cache \in Seq(Entry) /\ room.images \in Seq(Image)
  BY <1>1, <1>3, CacheTypes DEF CacheOK
<1>5. [key |-> key, look |-> look] \in Image /\ [key |-> key, slot |-> Len(room.images) + 1] \in Entry
  BY <1>4 DEF Image, Entry
<1>6. /\ images \in Seq(Image) /\ Len(images) = n + 1 /\ DOMAIN images = 1 .. n + 1
      /\ \A i \in 1 .. n : images[i] = room.images[i]
      /\ images[n + 1] = [key |-> key, look |-> look]
  BY <1>4, <1>5, AppendProperties
<1>7. /\ cache \in Seq(Entry) /\ Len(cache) = n + 1 /\ DOMAIN cache = 1 .. n + 1
      /\ \A i \in 1 .. n : cache[i] = room.cache[i]
      /\ cache[n + 1] = [key |-> key, slot |-> n + 1]
  BY <1>4, <1>5, AppendProperties
<1> HIDE DEF images, cache, n
<1>8. ButCache(p, q) /\ q.cache = cache /\ q.images = images
  <2>1. ButCache(room, q) /\ q.cache = cache /\ q.images = images
    BY <1>2, <1>3, <1>6, <1>7 DEF PaneRecord, ButCache
  <2> QED  BY <1>1, <2>1 DEF ButCache
<1>9. ASSUME NEW j \in 1 .. n
      PROVE  /\ cache[j] = room.cache[j] /\ cache[j].slot \in 1 .. n
             /\ images[cache[j].slot] = room.images[room.cache[j].slot]
  BY <1>1, <1>4, <1>6, <1>7 DEF CacheOK
<1>10. CacheOK(cache, images)
  <2>1. Len(images) = Len(cache) /\ Len(cache) <= Capacity
    BY <1>1, <1>4, <1>6, <1>7, LimitsAssumption DEF n
  <2>2. ASSUME NEW j \in DOMAIN cache
        PROVE  cache[j].slot \in DOMAIN images /\ images[cache[j].slot].key = cache[j].key
    <3>1. CASE j \in 1 .. n
      <4>1. j \in DOMAIN room.cache
        BY <1>4, <3>1
      <4>2. images[cache[j].slot] = room.images[room.cache[j].slot] /\ cache[j].key = room.cache[j].key
        BY <1>9, <3>1
      <4>3. room.images[room.cache[j].slot].key = room.cache[j].key
        BY <1>1, <4>1 DEF CacheOK
      <4> QED  BY <1>4, <1>6, <1>9, <3>1, <4>2, <4>3
    <3>2. CASE j = n + 1
      BY <1>4, <1>6, <1>7, <3>2
    <3> QED  BY <1>4, <1>7, <3>1, <3>2
  <2>3. ASSUME NEW j \in DOMAIN cache, NEW k \in DOMAIN cache, cache[j].slot = cache[k].slot
        PROVE  j = k
    <3>1. CASE j \in 1 .. n /\ k \in 1 .. n
      <4>1. room.cache[j].slot = room.cache[k].slot /\ j \in DOMAIN room.cache /\ k \in DOMAIN room.cache
        BY <1>4, <1>9, <2>3, <3>1
      <4> QED  BY <1>1, <4>1 DEF CacheOK
    <3>2. CASE ~(j \in 1 .. n /\ k \in 1 .. n)
      BY <1>4, <1>7, <1>9, <2>3, <3>2
    <3> QED  BY <3>1, <3>2
  <2> QED  BY <2>1, <2>2, <2>3 DEF CacheOK
<1>11. ASSUME NEW j \in DOMAIN cache
       PROVE  \/ cache[j].key = key /\ images[cache[j].slot].look = look
              \/ \E k \in DOMAIN p.cache : /\ cache[j].key = p.cache[k].key
                                           /\ images[cache[j].slot] = p.images[p.cache[k].slot]
  <2>1. CASE j \in 1 .. n
    BY <1>1, <1>4, <1>9, <2>1
  <2>2. CASE j = n + 1
    BY <1>6, <1>7, <2>2
  <2> QED  BY <1>4, <1>7, <2>1, <2>2
<1> QED  BY <1>8, <1>10, <1>11

-----------------------------------------------------------------------------
(* What goes: the images of an item, and rows.  *)

\* What steps that keep their families produce.
LEMMA Recursed ==
  ASSUME NEW n \in Nat, NEW T, NEW F, NEW base \in T[0],
         \A k \in 1 .. n : \A s \in T[k - 1] : F[<<k, s>>] \in T[k]
  PROVE  \E f : /\ \A k \in 0 .. n : f[k] \in T[k]
                /\ Steps(f, base, n, F)
<1>1. PICK f : Steps(f, base, n, F)
  BY Walks
<1>2. \A k \in 0 .. n : f[k] = IF k = 0 THEN base ELSE F[<<k, f[k - 1]>>]
  BY <1>1, Zenon DEF Steps
<1>3. f[0] \in T[0]
  <2>1. 0 \in 0 .. n
    OBVIOUS
  <2> QED  BY <1>2, <2>1
<1>4. \A k \in 1 .. n : f[k - 1] \in T[k - 1] => f[k] \in T[k]
  <2> TAKE k \in 1 .. n
  <2>1. k \in 0 .. n /\ k # 0
    OBVIOUS
  <2>2. f[k] = F[<<k, f[k - 1]>>]
    BY <1>2, <2>1
  <2> QED  BY <2>2
<1>5. \A k \in 0 .. n : f[k] \in T[k]
  BY <1>3, <1>4, AllAlong
<1> QED  BY <1>1, <1>5

\* After a number of steps there are so many entries less, or none of the item.
LEMMA OneForgottenIs ==
  ASSUME NEW p \in PaneRecord, CacheOK(p.cache, p.images), NEW id, NEW q, q = OneForgotten(p, id)
  PROVE  /\ ButCache(p, q) /\ CacheOK(q.cache, q.images)
         /\ \/ Len(q.cache) = Len(p.cache) - 1
            \/ q = p /\ \A j \in DOMAIN q.cache : q.cache[j].key.id # id
         /\ \A j \in DOMAIN q.cache : \E k \in DOMAIN p.cache :
              /\ q.cache[j].key = p.cache[k].key
              /\ q.images[q.cache[j].slot] = p.images[p.cache[k].slot]
<1> DEFINE of == {i \in DOMAIN p.cache : p.cache[i].key.id = id}
<1>1. CASE of = {}
  <2>1. q = p
    BY <1>1 DEF OneForgotten
  <2> QED  BY <1>1, <2>1 DEF ButCache
<1>2. CASE of # {}
  <2>1. q = Evicted(p, Min(of))
    BY <1>2 DEF OneForgotten
  <2>2. of \in SUBSET Nat /\ of \in SUBSET DOMAIN p.cache
    BY CacheTypes
  <2> HIDE DEF of
  <2>3. Min(of) \in DOMAIN p.cache
    BY <1>2, <2>2, LeastPlace
  <2> QED  BY <2>1, <2>3, EvictedIs
<1> QED  BY <1>1, <1>2

\* No image of the item is left, and the others are as they were.
LEMMA ForgottenIs ==
  ASSUME NEW p \in PaneRecord, CacheOK(p.cache, p.images), NEW id
  PROVE  LET q == Forgotten(p, id) IN
         /\ ButCache(p, q) /\ CacheOK(q.cache, q.images)
         /\ \A j \in DOMAIN q.cache :
              /\ q.cache[j].key.id # id
              /\ \E k \in DOMAIN p.cache : /\ q.cache[j].key = p.cache[k].key
                                           /\ q.images[q.cache[j].slot] = p.images[p.cache[k].slot]
<1> DEFINE n == Len(p.cache)
           Fewer(k, s) ==
             /\ ButCache(p, s) /\ CacheOK(s.cache, s.images)
             /\ Len(s.cache) <= n - k \/ \A j \in DOMAIN s.cache : s.cache[j].key.id # id
             /\ \A j \in DOMAIN s.cache : \E i \in DOMAIN p.cache :
                  /\ s.cache[j].key = p.cache[i].key
                  /\ s.images[s.cache[j].slot] = p.images[p.cache[i].slot]
           T == [k \in 0 .. n |-> {s \in PaneRecord : Fewer(k, s)}]
           F == [x \in (1 .. n) \X PaneRecord |-> OneForgotten(x[2], id)]
           After[k \in 0 .. n] == IF k = 0 THEN p ELSE OneForgotten(After[k - 1], id)
<1>1. Forgotten(p, id) = After[n]
  BY DEF Forgotten
<1>2. n \in Nat
  BY CacheTypes
<1>3. ASSUME NEW k \in 1 .. n, NEW s \in PaneRecord, Fewer(k - 1, s)
      PROVE  OneForgotten(s, id) \in PaneRecord /\ Fewer(k, OneForgotten(s, id))
  <2> DEFINE q == OneForgotten(s, id)
  <2>1. /\ ButCache(s, q) /\ CacheOK(q.cache, q.images)
        /\ \/ Len(q.cache) = Len(s.cache) - 1
           \/ q = s /\ \A j \in DOMAIN q.cache : q.cache[j].key.id # id
        /\ \A j \in DOMAIN q.cache : \E i \in DOMAIN s.cache :
             /\ q.cache[j].key = s.cache[i].key
             /\ q.images[q.cache[j].slot] = s.images[s.cache[i].slot]
    BY <1>3, OneForgottenIs
  <2> HIDE DEF q
  <2>2. ButCache(p, q) /\ q \in PaneRecord
    BY <1>3, <2>1 DEF ButCache
  <2>3. Len(q.cache) <= n - k \/ \A j \in DOMAIN q.cache : q.cache[j].key.id # id
    <3>1. Len(s.cache) \in Nat /\ Len(q.cache) \in Nat
      BY <2>2, CacheTypes
    <3>2. CASE Len(s.cache) <= n - (k - 1)
      BY <1>2, <2>1, <3>1, <3>2
    <3>3. CASE \A j \in DOMAIN s.cache : s.cache[j].key.id # id
      BY <2>1, <3>3
    <3> QED  BY <1>3, <3>2, <3>3
  <2>4. \A j \in DOMAIN q.cache : \E i \in DOMAIN p.cache :
          /\ q.cache[j].key = p.cache[i].key
          /\ q.images[q.cache[j].slot] = p.images[p.cache[i].slot]
    <3> TAKE j \in DOMAIN q.cache
    <3>1. PICK i \in DOMAIN s.cache : /\ q.cache[j].key = s.cache[i].key
                                      /\ q.images[q.cache[j].slot] = s.images[s.cache[i].slot]
      BY <2>1
    <3>2. PICK h \in DOMAIN p.cache : /\ s.cache[i].key = p.cache[h].key
                                      /\ s.images[s.cache[i].slot] = p.images[p.cache[h].slot]
      BY <1>3
    <3> QED  BY <3>1, <3>2
  <2> QED  BY <2>1, <2>2, <2>3, <2>4 DEF q
<1>4. Fewer(0, p)
  BY <1>2 DEF ButCache
<1> HIDE DEF Fewer, n
<1>5. p \in T[0]
  BY <1>2, <1>4
<1>6. \A k \in 1 .. n : \A s \in T[k - 1] : OneForgotten(s, id) \in T[k] /\ F[<<k, s>>] = OneForgotten(s, id)
  <2> TAKE k \in 1 .. n
  <2>1. k - 1 \in 0 .. n /\ k \in 0 .. n
    BY <1>2
  <2>2. T[k - 1] = {s \in PaneRecord : Fewer(k - 1, s)} /\ T[k] = {s \in PaneRecord : Fewer(k, s)}
    BY <2>1
  <2> QED  BY <1>3, <2>2
<1> HIDE DEF T, F
<1>7. PICK f : /\ \A k \in 0 .. n : f[k] \in T[k]
               /\ Steps(f, p, n, F)
  <2>1. \A k \in 1 .. n : \A s \in T[k - 1] : F[<<k, s>>] \in T[k]
    BY <1>6
  <2> QED  BY <1>2, <1>5, <2>1, Recursed
<1>8. f = [k \in 0 .. n |-> IF k = 0 THEN p ELSE OneForgotten(f[k - 1], id)]
  <2>1. \A k \in 0 .. n : k # 0 => k \in 1 .. n /\ k - 1 \in 0 .. n
    BY <1>2
  <2>2. \A k \in 0 .. n : k # 0 => F[<<k, f[k - 1]>>] = OneForgotten(f[k - 1], id)
    BY <1>6, <1>7, <2>1
  <2> QED  BY <1>7, <2>2, Zenon DEF Steps
<1>9. After = [k \in 0 .. n |-> IF k = 0 THEN p ELSE OneForgotten(After[k - 1], id)]
  BY <1>8, Zenon
<1> HIDE DEF After
<1>10. After[0] = p /\ \A k \in 1 .. n : After[k] = OneForgotten(After[k - 1], id)
  <2>1. 0 \in 0 .. n /\ \A k \in 1 .. n : k \in 0 .. n /\ k # 0
    BY <1>2
  <2>2. \A k \in 0 .. n : After[k] = IF k = 0 THEN p ELSE OneForgotten(After[k - 1], id)
    BY <1>9, Zenon
  <2> QED  BY <2>1, <2>2
<1>11. \A k \in 0 .. n : After[k] \in T[k]
  <2>1. After[0] \in T[0] /\ \A k \in 1 .. n : After[k - 1] \in T[k - 1] => After[k] \in T[k]
    BY <1>5, <1>6, <1>10
  <2> QED  BY <1>2, <2>1, AllAlong
<1>12. After[n] \in PaneRecord /\ Fewer(n, After[n])
  <2>1. n \in 0 .. n /\ T[n] = {s \in PaneRecord : Fewer(n, s)}
    BY <1>2 DEF T
  <2> QED  BY <1>11, <2>1
<1>13. \A j \in DOMAIN After[n].cache : After[n].cache[j].key.id # id
  <2>1. Len(After[n].cache) \in Nat /\ DOMAIN After[n].cache = 1 .. Len(After[n].cache)
    BY <1>12, CacheTypes
  <2> QED  BY <1>2, <1>12, <2>1 DEF Fewer
<1> QED  BY <1>1, <1>12, <1>13 DEF Fewer

\* The rows that stay are rows as they were, one of each item.
LEMMA WithoutIs ==
  ASSUME NEW rows \in Seq(Row), NEW ids,
         \A i, j \in DOMAIN rows : rows[i].id = rows[j].id => i = j
  PROVE  LET q == Without(rows, ids) IN
         /\ q \in Seq(Row)
         /\ \A i, j \in DOMAIN q : q[i].id = q[j].id => i = j
         /\ \A j \in DOMAIN q : q[j].id \notin ids /\ \E i \in DOMAIN rows : q[j] = rows[i]
<1> DEFINE n == Len(rows)
           Stay(k, s) ==
             /\ \A i, j \in DOMAIN s : s[i].id = s[j].id => i = j
             /\ \A j \in DOMAIN s : s[j].id \notin ids /\ \E i \in 1 .. k : s[j] = rows[i]
           T == [k \in 0 .. n |-> {s \in Seq(Row) : Stay(k, s)}]
           F == [x \in (1 .. n) \X Seq(Row) |-> Staying(x[2], ids, rows[x[1]])]
           Left[k \in 0 .. n] == IF k = 0 THEN <<>> ELSE Staying(Left[k - 1], ids, rows[k])
<1>1. Without(rows, ids) = Left[n]
  BY DEF Without
<1>2. n \in Nat /\ DOMAIN rows = 1 .. n
  OBVIOUS
<1>3. ASSUME NEW k \in 1 .. n, NEW s \in Seq(Row), Stay(k - 1, s)
      PROVE  Staying(s, ids, rows[k]) \in Seq(Row) /\ Stay(k, Staying(s, ids, rows[k]))
  <2>1. CASE rows[k].id \in ids
    <3>1. Staying(s, ids, rows[k]) = s
      BY <2>1 DEF Staying
    <3>2. \A i \in 1 .. k - 1 : i \in 1 .. k
      BY <1>2
    <3> QED  BY <1>3, <3>1, <3>2
  <2>2. CASE rows[k].id \notin ids
    <3> DEFINE q == Append(s, rows[k])
               m == Len(s)
    <3>1. Staying(s, ids, rows[k]) = q
      BY <2>2 DEF Staying
    <3>2. m \in Nat /\ DOMAIN s = 1 .. m /\ rows[k] \in Row
      BY <1>2
    <3>3. /\ q \in Seq(Row) /\ Len(q) = m + 1 /\ DOMAIN q = 1 .. m + 1
          /\ \A i \in 1 .. m : q[i] = s[i]
          /\ q[m + 1] = rows[k]
      BY <3>2, AppendProperties
    <3> HIDE DEF q, m
    <3>4. ASSUME NEW j \in 1 .. m
          PROVE  q[j].id \notin ids /\ q[j].id # rows[k].id /\ \E i \in 1 .. k : q[j] = rows[i]
      <4>1. q[j] = s[j] /\ j \in DOMAIN s
        BY <3>2, <3>3
      <4>2. PICK i \in 1 .. k - 1 : s[j] = rows[i]
        BY <1>3, <4>1
      <4>3. i \in 1 .. n /\ k \in 1 .. n /\ i # k /\ i \in 1 .. k
        BY <1>2
      <4>4. rows[i].id # rows[k].id
        BY <1>2, <4>3
      <4> QED  BY <1>3, <4>1, <4>2, <4>3, <4>4
    <3>5. ASSUME NEW i \in DOMAIN q, NEW j \in DOMAIN q, q[i].id = q[j].id
          PROVE  i = j
      <4>1. CASE i \in 1 .. m /\ j \in 1 .. m
        BY <1>3, <3>2, <3>3, <3>5, <4>1
      <4>2. CASE i = m + 1 \/ j = m + 1
        BY <3>2, <3>3, <3>4, <3>5, <4>2
      <4> QED  BY <3>2, <3>3, <4>1, <4>2
    <3>6. ASSUME NEW j \in DOMAIN q
          PROVE  q[j].id \notin ids /\ \E i \in 1 .. k : q[j] = rows[i]
      <4>1. CASE j \in 1 .. m
        BY <3>4, <4>1
      <4>2. CASE j = m + 1
        <5>1. k \in 1 .. k
          BY <1>2
        <5> QED  BY <2>2, <3>3, <4>2, <5>1
      <4> QED  BY <3>2, <3>3, <4>1, <4>2
    <3> QED  BY <3>1, <3>3, <3>5, <3>6
  <2> QED  BY <2>1, <2>2
<1>4. Stay(0, <<>>) /\ <<>> \in Seq(Row)
  OBVIOUS
<1> HIDE DEF Stay, n
<1>5. <<>> \in T[0]
  BY <1>2, <1>4
<1>6. \A k \in 1 .. n : \A s \in T[k - 1] : /\ Staying(s, ids, rows[k]) \in T[k]
                                            /\ F[<<k, s>>] = Staying(s, ids, rows[k])
  <2> TAKE k \in 1 .. n
  <2>1. k - 1 \in 0 .. n /\ k \in 0 .. n
    BY <1>2
  <2>2. T[k - 1] = {s \in Seq(Row) : Stay(k - 1, s)} /\ T[k] = {s \in Seq(Row) : Stay(k, s)}
    BY <2>1
  <2> QED  BY <1>3, <2>2
<1> HIDE DEF T, F
<1>7. PICK f : (\A k \in 0 .. n : f[k] \in T[k]) /\ Steps(f, <<>>, n, F)
  <2>1. \A k \in 1 .. n : \A s \in T[k - 1] : F[<<k, s>>] \in T[k]
    BY <1>6
  <2> QED  BY <1>2, <1>5, <2>1, Recursed
<1>8. f = [k \in 0 .. n |-> IF k = 0 THEN <<>> ELSE Staying(f[k - 1], ids, rows[k])]
  <2>1. \A k \in 0 .. n : k # 0 => k \in 1 .. n /\ k - 1 \in 0 .. n
    BY <1>2
  <2>2. \A k \in 0 .. n : k # 0 => F[<<k, f[k - 1]>>] = Staying(f[k - 1], ids, rows[k])
    BY <1>6, <1>7, <2>1
  <2> QED  BY <1>7, <2>2, Zenon DEF Steps
<1>9. Left = [k \in 0 .. n |-> IF k = 0 THEN <<>> ELSE Staying(Left[k - 1], ids, rows[k])]
  BY <1>8, Zenon
<1> HIDE DEF Left
<1>10. Left[0] = <<>> /\ \A k \in 1 .. n : Left[k] = Staying(Left[k - 1], ids, rows[k])
  <2>1. 0 \in 0 .. n /\ \A k \in 1 .. n : k \in 0 .. n /\ k # 0
    BY <1>2
  <2>2. \A k \in 0 .. n : Left[k] = IF k = 0 THEN <<>> ELSE Staying(Left[k - 1], ids, rows[k])
    BY <1>9, Zenon
  <2> QED  BY <2>1, <2>2
<1>11. \A k \in 0 .. n : Left[k] \in T[k]
  <2>1. Left[0] \in T[0] /\ \A k \in 1 .. n : Left[k - 1] \in T[k - 1] => Left[k] \in T[k]
    BY <1>5, <1>6, <1>10
  <2> QED  BY <1>2, <2>1, AllAlong
<1>12. Left[n] \in Seq(Row) /\ Stay(n, Left[n])
  <2>1. n \in 0 .. n /\ T[n] = {s \in Seq(Row) : Stay(n, s)}
    BY <1>2 DEF T
  <2> QED  BY <1>11, <2>1
<1> QED  BY <1>1, <1>2, <1>12 DEF Stay

-----------------------------------------------------------------------------
(* Rows in another order.  *)

\* q has the rows of p in another order.
LEMMA ReorderedIs ==
  ASSUME NEW rows \in Seq(Row), NEW order \in Seq(Nat), Len(order) = Len(rows),
         \A k \in 1 .. Len(rows) : order[k] \in 1 .. Len(rows)
  PROVE  /\ Reordered(rows, order) \in Seq(Row) /\ Len(Reordered(rows, order)) = Len(rows)
         /\ \A k \in 1 .. Len(rows) : Reordered(rows, order)[k] = rows[order[k]]
<1> DEFINE n == Len(rows)
           q == Reordered(rows, order)
<1>1. n \in Nat /\ DOMAIN rows = 1 .. n /\ DOMAIN order = 1 .. n
  OBVIOUS
<1>2. q = [i \in 1 .. n |-> IF i \in 1 .. n THEN rows[order[i]] ELSE rows[i]]
  BY <1>1, Zenon DEF Reordered
<1> HIDE DEF q
<1>3. \A k \in 1 .. n : q[k] = rows[order[k]] /\ rows[order[k]] \in Row
  BY <1>1, <1>2
<1>4. q \in [1 .. n -> Row]
  BY <1>2, <1>3
<1>5. q \in Seq(Row) /\ Len(q) = n
  <2>1. DOMAIN q = 1 .. n
    BY <1>2
  <2> HIDE DEF n
  <2> QED  BY <1>1, <1>4, <2>1
<1> QED  BY <1>3, <1>5 DEF q

\* The names order the rows.
LEMMA NamesOrder ==
  ASSUME NEW rows \in Seq(Row), \A i, j \in DOMAIN rows : rows[i].id = rows[j].id => i = j
  PROVE  Orders(ByName(rows), Len(rows))
<1>1. DOMAIN rows = 1 .. Len(rows) /\ \A i \in 1 .. Len(rows) : rows[i].id \in Nat
  <2>1. \A row \in Row : row.id \in Nat
    BY DEF Row, Ids
  <2> QED  BY <2>1
<1>2. \A i, j \in 1 .. Len(rows) : <<i, j>> \in ByName(rows) <=> rows[i].id < rows[j].id
  BY <1>1 DEF ByName, Places
<1>3. \A i, j \in 1 .. Len(rows) : rows[i].id = rows[j].id => i = j
  BY <1>1
<1>4. \A i, j \in 1 .. Len(rows) : i # j => rows[i].id < rows[j].id \/ rows[j].id < rows[i].id
  BY <1>1, <1>3
<1>5. /\ \A i \in 1 .. Len(rows) : ~(rows[i].id < rows[i].id)
      /\ \A i, j, k \in 1 .. Len(rows) :
           rows[i].id < rows[j].id /\ rows[j].id < rows[k].id => rows[i].id < rows[k].id
  BY <1>1
<1> QED  BY <1>2, <1>4, <1>5 DEF Orders

\* And so do the values of a property.
LEMMA ValuesOrder ==
  ASSUME NEW p \in PaneRecord, \A i, j \in DOMAIN p.rows : p.rows[i].id = p.rows[j].id => i = j
  PROVE  Orders(ByProperty(p), Len(p.rows))
<1> DEFINE n == Len(p.rows)
           Val(i) == p.rows[i].properties[Slot(p.key)]
           Less(i, j) == RowLess(p.key, p.rows[i], p.rows[j])
<1>1. /\ DOMAIN p.rows = 1 .. n
      /\ \A i \in 1 .. n : p.rows[i].id \in Nat
  BY RowTypes
<1>2. \A i \in 1 .. n : Val(i).look \in Nat
  <2>1. Slot(p.key) \in {"type", "sort"}
    BY DEF Slot
  <2>2. \A row \in Row : row.properties[Slot(p.key)] \in Value
    BY <2>1 DEF Row
  <2>3. \A v \in Value : v.look \in Nat
    BY DEF Value
  <2> QED  BY <2>2, <2>3, RowTypes
<1>3. \A i, j \in 1 .. n : <<i, j>> \in ByProperty(p) <=> Less(i, j)
  BY <1>1 DEF ByProperty, Places
<1>4. \A i, j \in 1 .. n :
        Less(i, j) <=>
          \/ Val(i).state = "value" /\ Val(j).state # "value"
          \/ (Val(i).state = "value") = (Val(j).state = "value") /\
               \/ Val(i).state = "value" /\ Val(i).look # Val(j).look /\ Val(i).look > Val(j).look
               \/ ~(Val(i).state = "value" /\ Val(i).look # Val(j).look) /\ p.rows[i].id < p.rows[j].id
  BY DEF RowLess
<1> DEFINE has == [i \in 1 .. n |-> Val(i).state = "value"]
           look == [i \in 1 .. n |-> Val(i).look]
           id == [i \in 1 .. n |-> p.rows[i].id]
<1>5. /\ has \in [1 .. n -> BOOLEAN] /\ look \in [1 .. n -> Nat] /\ id \in [1 .. n -> Nat]
      /\ \A i, j \in 1 .. n : id[i] = id[j] => i = j
  BY <1>1, <1>2
<1>6. \A i, j \in 1 .. n :
        Less(i, j) <=> \/ has[i] /\ ~has[j]
                       \/ has[i] /\ has[j] /\ look[i] > look[j]
                       \/ has[i] /\ has[j] /\ look[i] = look[j] /\ id[i] < id[j]
                       \/ ~has[i] /\ ~has[j] /\ id[i] < id[j]
  <2> TAKE i, j \in 1 .. n
  <2>1. /\ has[i] <=> Val(i).state = "value"
        /\ has[j] <=> Val(j).state = "value"
        /\ look[i] = Val(i).look /\ look[j] = Val(j).look
        /\ id[i] = p.rows[i].id /\ id[j] = p.rows[j].id
    OBVIOUS
  <2>2. look[i] \in Nat /\ look[j] \in Nat
    BY <1>5
  <2>3. Less(i, j) <=>
          \/ Val(i).state = "value" /\ Val(j).state # "value"
          \/ (Val(i).state = "value") = (Val(j).state = "value") /\
               \/ Val(i).state = "value" /\ Val(i).look # Val(j).look /\ Val(i).look > Val(j).look
               \/ ~(Val(i).state = "value" /\ Val(i).look # Val(j).look) /\ p.rows[i].id < p.rows[j].id
    BY <1>4
  <2> HIDE DEF has, look, id, Val, Less
  <2>4. CASE Val(i).state = "value"
    BY <2>1, <2>2, <2>3, <2>4
  <2>5. CASE Val(i).state # "value"
    BY <2>1, <2>2, <2>3, <2>5
  <2> QED  BY <2>4, <2>5
<1> HIDE DEF Less, has, look, id, n
<1>7. \A i \in 1 .. n : ~Less(i, i)
  BY <1>5, <1>6
<1>8. \A i, j \in 1 .. n : i # j => Less(i, j) \/ Less(j, i)
  <2> TAKE i, j \in 1 .. n
  <2>1. /\ has[i] \in BOOLEAN /\ has[j] \in BOOLEAN /\ look[i] \in Nat /\ look[j] \in Nat
        /\ id[i] \in Nat /\ id[j] \in Nat /\ (id[i] = id[j] => i = j)
    BY <1>5
  <2> QED  BY <1>6, <2>1
<1>9. \A i, j, k \in 1 .. n : Less(i, j) /\ Less(j, k) => Less(i, k)
  <2> TAKE i, j, k \in 1 .. n
  <2>1. /\ has[i] \in BOOLEAN /\ has[j] \in BOOLEAN /\ has[k] \in BOOLEAN
        /\ look[i] \in Nat /\ look[j] \in Nat /\ look[k] \in Nat
        /\ id[i] \in Nat /\ id[j] \in Nat /\ id[k] \in Nat
    BY <1>5
  <2> QED  BY <1>6, <2>1
<1> QED  BY <1>3, <1>7, <1>8, <1>9 DEF Orders, n

-----------------------------------------------------------------------------
(* What a pane keeps when it stops its lookups, sorts its rows or goes on   *)
(* with a merge.                                                           *)

\* Nothing but what is asked for and answered differs.
LEMMA BaseFollows ==
  ASSUME NEW d, NEW p, NEW q \in PaneRecord, Base(d, p), Follows(p, q), RowsOK(d, q),
         q.cache = p.cache, q.images = p.images
  PROVE  Base(d, q)
BY ImagesFollow DEF Base

LEMMA SameBase ==
  ASSUME NEW d, NEW p, NEW q \in PaneRecord, Base(d, p),
         q.rows = p.rows, q.phase = p.phase, q.key = p.key, q.cache = p.cache, q.images = p.images
  PROVE  Base(d, q)
<1>1. p \in PaneRecord /\ RowsOK(d, p)
  BY DEF Base
<1>2. RowsOK(d, q)
  BY <1>1 DEF RowsOK
<1> QED  BY <1>1, <1>2, FollowsSame, BaseFollows

\* The answers are still good for rows that follow.
LEMMA AnswersStay ==
  ASSUME NEW p \in PaneRecord, NEW q \in PaneRecord, NEW w \in Seq(Answer), Follows(p, q), AnswersOK(p, w),
         q.queue = p.queue, q.results = p.results, q.fresh = p.fresh
  PROVE  AnswersOK(q, w)
<1>1. ASSUME NEW i \in DOMAIN p.queue
      PROVE  KeyOK(q, p.queue[i].key)
  BY LookupTypes, KeysFollow DEF AnswersOK
<1>2. ASSUME NEW i \in DOMAIN p.results
      PROVE  AnswerOK(q, p.results[i])
  BY LookupTypes, AnswersFollow DEF AnswersOK
<1>3. ASSUME p.fresh
      PROVE  w # <<>> /\ AnswerOK(q, w[1])
  <2>1. w # <<>> /\ AnswerOK(p, w[1])
    BY <1>3 DEF AnswersOK
  <2>2. w[1] \in Answer
    BY <2>1
  <2> QED  BY <2>1, <2>2, AnswersFollow
<1> QED  BY <1>1, <1>2, <1>3 DEF AnswersOK

LEMMA NoOrderSaved == NoOrder \in Saved /\ NoOrder.order = <<>>
BY DEF NoOrder, Saved

LEMMA QuietIs ==
  ASSUME NEW p \in PaneRecord, NEW q, q = Quiet(p)
  PROVE  /\ q \in PaneRecord
         /\ q.rows = p.rows /\ q.phase = p.phase /\ q.watch = p.watch /\ q.key = p.key
         /\ q.pending = p.pending /\ q.cursor = p.cursor /\ q.failed = p.failed /\ q.order = p.order
         /\ q.interest = p.interest /\ q.owed = p.owed /\ q.size = p.size
         /\ q.cache = p.cache /\ q.images = p.images
         /\ q.queue = <<>> /\ q.results = <<>> /\ q.fresh = FALSE
<1>1. <<>> \in Seq(Request) /\ <<>> \in Seq(Answer)
  OBVIOUS
<1>2. q = [p EXCEPT !.queue = <<>>, !.results = <<>>, !.fresh = FALSE]
  BY DEF Quiet
<1>3. q \in PaneRecord
  BY <1>1, <1>2 DEF PaneRecord
<1> QED  BY <1>2, <1>3 DEF PaneRecord

LEMMA CancelledIs ==
  ASSUME NEW p \in PaneRecord, NEW q, q = Cancelled(p)
  PROVE  /\ q \in PaneRecord
         /\ q.rows = p.rows /\ q.phase = p.phase /\ q.watch = p.watch /\ q.key = p.key
         /\ q.pending = p.pending /\ q.failed = p.failed /\ q.size = p.size
         /\ q.cache = p.cache /\ q.images = p.images
         /\ q.queue = <<>> /\ q.results = <<>> /\ q.fresh = FALSE
         /\ q.interest = <<>> /\ q.owed = {} /\ q.tried = {} /\ q.cursor = 0 /\ q.order = NoOrder
<1> DEFINE r == Quiet(p)
<1>1. /\ r \in PaneRecord
      /\ r.rows = p.rows /\ r.phase = p.phase /\ r.watch = p.watch /\ r.key = p.key
      /\ r.pending = p.pending /\ r.failed = p.failed /\ r.size = p.size
      /\ r.cache = p.cache /\ r.images = p.images
      /\ r.queue = <<>> /\ r.results = <<>> /\ r.fresh = FALSE
  BY QuietIs
<1>2. q = [r EXCEPT !.interest = <<>>, !.owed = {}, !.tried = {}, !.cursor = 0, !.order = NoOrder]
  BY DEF Cancelled
<1> HIDE DEF r
<1>3. <<>> \in Seq(Key) /\ NoOrder \in Saved /\ {} \in SUBSET Request /\ {} \in SUBSET Key /\ 0 \in Nat
  BY NoOrderSaved
<1>4. q \in PaneRecord
  <2> DEFINE s == [r EXCEPT !.interest = <<>>, !.owed = {}, !.tried = {}]
  <2>1. s \in PaneRecord
    BY <1>1, <1>3 DEF PaneRecord
  <2>2. q = [s EXCEPT !.cursor = 0, !.order = NoOrder]
    BY <1>1, <1>2 DEF PaneRecord
  <2> HIDE DEF s
  <2> QED  BY <1>3, <2>1, <2>2 DEF PaneRecord
<1>5. /\ q.rows = r.rows /\ q.phase = r.phase /\ q.watch = r.watch /\ q.key = r.key
      /\ q.pending = r.pending /\ q.failed = r.failed /\ q.size = r.size
      /\ q.cache = r.cache /\ q.images = r.images
      /\ q.queue = r.queue /\ q.results = r.results /\ q.fresh = r.fresh
      /\ q.interest = <<>> /\ q.owed = {} /\ q.tried = {} /\ q.cursor = 0 /\ q.order = NoOrder
  BY <1>1, <1>2 DEF PaneRecord
<1> QED  BY <1>1, <1>4, <1>5

LEMMA PostedIs ==
  ASSUME NEW p \in PaneRecord, NEW q, q = Posted(p)
  PROVE  /\ q \in PaneRecord
         /\ q.rows = p.rows /\ q.phase = p.phase /\ q.watch = p.watch /\ q.key = p.key
         /\ q.pending = p.pending /\ q.cursor = p.cursor /\ q.failed = p.failed /\ q.order = p.order
         /\ q.interest = p.interest /\ q.owed = p.owed /\ q.size = p.size
         /\ q.cache = p.cache /\ q.images = p.images
         /\ q.queue = p.queue /\ q.results = p.results /\ q.fresh = p.fresh
BY DEF PaneRecord, Posted

\* A pane that asks for nothing.
LEMMA StillLookups ==
  ASSUME NEW q \in PaneRecord, NEW w, q.owed = {}, q.queue = <<>>, q.results = <<>>, q.fresh = FALSE,
         Len(q.interest) <= WindowRows, q.cursor <= Len(q.rows), CursorOK(q), OrderOK(q)
  PROVE  Lookups(q, w)
<1>1. IsFiniteSet({}) /\ Cardinality({}) = 0
  BY FS_EmptySet
<1>2. BoundsOK(q)
  BY <1>1, LimitsAssumption DEF BoundsOK
<1>3. AnswersOK(q, w) /\ Coming(q, w)
  BY DEF AnswersOK, Coming
<1> QED  BY <1>2, <1>3 DEF Lookups

\* A pane whose lookups are cancelled.
LEMMA CancelledLookups ==
  ASSUME NEW q \in PaneRecord, NEW w, q.owed = {}, q.queue = <<>>, q.results = <<>>, q.fresh = FALSE,
         q.interest = <<>>, q.cursor = 0, q.order = NoOrder
  PROVE  Lookups(q, w)
<1>1. Len(q.interest) <= WindowRows /\ q.cursor <= Len(q.rows)
  BY RowTypes, RowsAssumption
<1>2. CursorOK(q) /\ OrderOK(q)
  BY DEF CursorOK, OrderOK
<1> QED  BY <1>1, <1>2, StillLookups

LEMMA SameSort ==
  ASSUME NEW p, NEW q, SortOK(p),
         q.rows = p.rows, q.phase = p.phase, q.watch = p.watch, q.key = p.key,
         q.pending = p.pending, q.failed = p.failed
  PROVE  SortOK(q)
BY DEF SortOK, Resolved

LEMMA SameCursor ==
  ASSUME NEW p, NEW q, CursorOK(p),
         q.rows = p.rows, q.watch = p.watch, q.key = p.key, q.pending = p.pending, q.failed = p.failed,
         q.cursor = p.cursor, q.owed = p.owed, q.size = p.size
  PROVE  CursorOK(q)
BY DEF CursorOK, Resolved, PropertyRequest, IconKey

LEMMA SameOrder ==
  ASSUME NEW p, NEW q, OrderOK(p),
         q.rows = p.rows, q.watch = p.watch, q.key = p.key, q.pending = p.pending, q.failed = p.failed,
         q.cursor = p.cursor, q.owed = p.owed, q.order = p.order
  PROVE  OrderOK(q)
<1>1. Order(q) = Order(p)
  BY DEF Order, ByProperty
<1> QED  BY <1>1 DEF OrderOK

LEMMA SameLookups ==
  ASSUME NEW p \in PaneRecord, NEW q \in PaneRecord, NEW w \in Seq(Answer), Lookups(p, w),
         q.rows = p.rows, q.phase = p.phase, q.watch = p.watch, q.key = p.key,
         q.pending = p.pending, q.cursor = p.cursor, q.failed = p.failed, q.order = p.order,
         q.interest = p.interest, q.owed = p.owed, q.size = p.size,
         q.queue = p.queue, q.results = p.results, q.fresh = p.fresh
  PROVE  Lookups(q, w)
<1>1. BoundsOK(q) /\ Coming(q, w)
  BY DEF Lookups, BoundsOK, Coming
<1>2. CursorOK(q) /\ OrderOK(q)
  BY SameCursor, SameOrder DEF Lookups
<1>3. AnswersOK(q, w)
  BY FollowsSame, AnswersStay DEF Lookups
<1> QED  BY <1>1, <1>2, <1>3 DEF Lookups

\* A message that is posted changes nothing else.
LEMMA SamePane ==
  ASSUME NEW d, NEW p \in PaneRecord, NEW q \in PaneRecord, NEW w \in Seq(Answer), PaneOK(d, p, w),
         q.rows = p.rows, q.phase = p.phase, q.watch = p.watch, q.key = p.key,
         q.pending = p.pending, q.cursor = p.cursor, q.failed = p.failed, q.order = p.order,
         q.interest = p.interest, q.owed = p.owed, q.size = p.size,
         q.cache = p.cache, q.images = p.images,
         q.queue = p.queue, q.results = p.results, q.fresh = p.fresh
  PROVE  PaneOK(d, q, w)
<1>1. Base(d, q)
  BY SameBase DEF PaneOK
<1>2. Lookups(q, w)
  BY SameLookups DEF PaneOK
<1>3. SortOK(q)
  BY SameSort DEF PaneOK
<1> QED  BY <1>1, <1>2, <1>3 DEF PaneOK

LEMMA PostedOK ==
  ASSUME NEW d, NEW p, NEW w \in Seq(Answer), PaneOK(d, p, w)
  PROVE  PaneOK(d, Posted(p), w)
<1> DEFINE q == Posted(p)
<1>1. p \in PaneRecord
  BY DEF PaneOK, Base
<1>2. /\ q \in PaneRecord
      /\ q.rows = p.rows /\ q.phase = p.phase /\ q.watch = p.watch /\ q.key = p.key
      /\ q.pending = p.pending /\ q.cursor = p.cursor /\ q.failed = p.failed /\ q.order = p.order
      /\ q.interest = p.interest /\ q.owed = p.owed /\ q.size = p.size
      /\ q.cache = p.cache /\ q.images = p.images
      /\ q.queue = p.queue /\ q.results = p.results /\ q.fresh = p.fresh
  BY <1>1, PostedIs
<1> HIDE DEF q
<1>3. PaneOK(d, q, w)
  BY <1>1, <1>2, SamePane
<1> QED  BY <1>3 DEF q

\* Nothing is asked for, so nothing that is dropped is missed.
LEMMA QuietOK ==
  ASSUME NEW d, NEW p, NEW w, PaneOK(d, p, w), p.owed = {}
  PROVE  PaneOK(d, Quiet(p), w)
<1> DEFINE q == Quiet(p)
<1>1. p \in PaneRecord /\ Base(d, p) /\ Lookups(p, w) /\ SortOK(p)
  BY DEF PaneOK, Base
<1>2. /\ q \in PaneRecord
      /\ q.rows = p.rows /\ q.phase = p.phase /\ q.watch = p.watch /\ q.key = p.key
      /\ q.pending = p.pending /\ q.cursor = p.cursor /\ q.failed = p.failed /\ q.order = p.order
      /\ q.interest = p.interest /\ q.owed = p.owed /\ q.size = p.size
      /\ q.cache = p.cache /\ q.images = p.images
      /\ q.queue = <<>> /\ q.results = <<>> /\ q.fresh = FALSE
  BY <1>1, QuietIs
<1> HIDE DEF q
<1>3. Base(d, q) /\ SortOK(q)
  BY <1>1, <1>2, SameBase, SameSort
<1>4. CursorOK(q) /\ OrderOK(q)
  BY <1>1, <1>2, SameCursor, SameOrder DEF Lookups
<1>5. Len(q.interest) <= WindowRows /\ q.cursor <= Len(q.rows)
  BY <1>1, <1>2 DEF Lookups, BoundsOK
<1>6. Lookups(q, w)
  BY <1>2, <1>4, <1>5, StillLookups
<1> QED  BY <1>3, <1>6 DEF PaneOK, q

\* What is asked for is forgotten with the answers.
LEMMA CancelledOK ==
  ASSUME NEW d, NEW p, NEW w, Base(d, p), SortOK(p)
  PROVE  PaneOK(d, Cancelled(p), w)
<1> DEFINE q == Cancelled(p)
<1>1. p \in PaneRecord
  BY DEF Base
<1>2. /\ q \in PaneRecord
      /\ q.rows = p.rows /\ q.phase = p.phase /\ q.watch = p.watch /\ q.key = p.key
      /\ q.pending = p.pending /\ q.failed = p.failed /\ q.size = p.size
      /\ q.cache = p.cache /\ q.images = p.images
      /\ q.queue = <<>> /\ q.results = <<>> /\ q.fresh = FALSE
      /\ q.interest = <<>> /\ q.owed = {} /\ q.tried = {} /\ q.cursor = 0 /\ q.order = NoOrder
  BY <1>1, CancelledIs
<1> HIDE DEF q
<1>3. Base(d, q) /\ SortOK(q) /\ Lookups(q, w)
  BY <1>1, <1>2, SameBase, SameSort, CancelledLookups
<1> QED  BY <1>3 DEF PaneOK, q

\* Each place of 1 .. n once.
Permutes(order, n) ==
  /\ order \in Seq(Nat) /\ Len(order) = n
  /\ \A k \in 1 .. n : order[k] \in 1 .. n
  /\ \A i, j \in 1 .. n : order[i] = order[j] => i = j

\* The rows of old, in this order.
Rearranged(rows, old, order) ==
  Len(rows) = Len(old) /\ \A k \in 1 .. Len(old) : rows[k] = old[order[k]]

LEMMA ReorderedKeeps ==
  ASSUME NEW d, NEW p, NEW q \in PaneRecord, Base(d, p), NEW order, Permutes(order, Len(p.rows)),
         q.rows = Reordered(p.rows, order), q.phase = p.phase, q.key = p.key,
         q.cache = p.cache, q.images = p.images
  PROVE  Base(d, q) /\ Follows(p, q) /\ Rearranged(q.rows, p.rows, order)
<1> DEFINE n == Len(p.rows)
<1>1. p \in PaneRecord /\ RowsOK(d, p)
  BY DEF Base
<1>2. p.rows \in Seq(Row) /\ n \in Nat /\ DOMAIN p.rows = 1 .. n
  BY <1>1, RowTypes
<1> USE DEF Permutes
<1>3. Len(q.rows) = n /\ \A k \in 1 .. n : q.rows[k] = p.rows[order[k]]
  <2>1. /\ Len(Reordered(p.rows, order)) = Len(p.rows)
        /\ \A k \in 1 .. Len(p.rows) : Reordered(p.rows, order)[k] = p.rows[order[k]]
    BY <1>2, ReorderedIs
  <2> QED  BY <2>1, Zenon
<1>4. DOMAIN q.rows = 1 .. n
  BY <1>3, RowTypes
<1>5. Follows(p, q)
  <2>1. \A j \in DOMAIN q.rows : \E i \in DOMAIN p.rows : q.rows[j] = p.rows[i]
    BY <1>2, <1>3, <1>4
  <2>2. \A j \in DOMAIN q.rows :
          \E i \in DOMAIN p.rows : /\ q.rows[j].id = p.rows[i].id /\ q.rows[j].look = p.rows[i].look
                                   /\ q.rows[j].stamp = p.rows[i].stamp
    BY <2>1, Zenon
  <2>3. q.phase = "loading" => p.phase = "loading" /\ Len(p.rows) <= Len(q.rows)
    BY <1>2, <1>3
  <2> QED  BY <2>2, <2>3, Zenon DEF Follows
<1>6. RowsOK(d, q)
  <2>1. ASSUME NEW j \in DOMAIN q.rows
        PROVE  RowOK(d, q.key, q.rows[j])
    <3>1. order[j] \in DOMAIN p.rows /\ q.rows[j] = p.rows[order[j]]
      BY <1>2, <1>3, <1>4
    <3>2. RowOK(d, p.key, p.rows[order[j]])
      BY <1>1, <3>1 DEF RowsOK
    <3> QED  BY <3>1, <3>2, Zenon
  <2>2. ASSUME NEW i \in DOMAIN q.rows, NEW j \in DOMAIN q.rows, q.rows[i].id = q.rows[j].id
        PROVE  i = j
    <3>1. order[i] \in DOMAIN p.rows /\ order[j] \in DOMAIN p.rows
      BY <1>2, <1>4
    <3>2. p.rows[order[i]].id = p.rows[order[j]].id
      BY <1>3, <1>4, <2>2
    <3>3. order[i] = order[j]
      BY <1>1, <3>1, <3>2 DEF RowsOK
    <3> QED  BY <1>4, <3>3
  <2>3. q.phase = "loading" => \A i \in DOMAIN q.rows : q.rows[i].id <= Len(q.rows)
    BY <1>1, <1>2, <1>3, <1>4 DEF RowsOK
  <2> QED  BY <2>1, <2>2, <2>3 DEF RowsOK
<1> QED  BY <1>3, <1>5, <1>6, BaseFollows DEF Rearranged

\* A sort by name, when that is the sort, orders the rows at once.
LEMMA SortedOK ==
  ASSUME NEW d, NEW p, NEW w \in Seq(Answer), Base(d, p), Lookups(p, w),
         p.pending = (p.key # "name"), p.order = NoOrder,
         p.watch = "recovering" => p.phase = "complete"
  PROVE  PaneOK(d, Sorted(p), w)
<1>1. p \in PaneRecord /\ RowsOK(d, p)
  BY DEF Base
<1>2. p.rows \in Seq(Row) /\ Len(p.rows) \in Nat /\ DOMAIN p.rows = 1 .. Len(p.rows)
  BY <1>1, RowTypes
<1>3. CASE p.key = "name" /\ p.watch # "recovering"
  <2> DEFINE places == Ranked(Len(p.rows), ByName(p.rows))
             rows == Reordered(p.rows, places)
             q == Sorted(p)
  <2>1. q = [p EXCEPT !.rows = rows]
    BY <1>3 DEF Sorted
  <2>2. Orders(ByName(p.rows), Len(p.rows))
    BY <1>1, <1>2, NamesOrder DEF RowsOK
  <2>3. /\ places \in Seq(Nat) /\ Len(places) = Len(p.rows)
        /\ \A k \in 1 .. Len(p.rows) : places[k] \in 1 .. Len(p.rows)
        /\ \A i, j \in 1 .. Len(p.rows) : i < j => <<places[i], places[j]>> \in ByName(p.rows)
        /\ \A i, j \in 1 .. Len(p.rows) : places[i] = places[j] => i = j
    BY <1>2, <2>2, RankedIs
  <2> HIDE DEF places
  <2>4. rows \in Seq(Row)
    BY <1>2, <2>3, ReorderedIs
  <2>5. /\ q \in PaneRecord /\ q.rows = rows
        /\ q.phase = p.phase /\ q.watch = p.watch /\ q.key = p.key
        /\ q.pending = p.pending /\ q.cursor = p.cursor /\ q.failed = p.failed /\ q.order = p.order
        /\ q.interest = p.interest /\ q.owed = p.owed /\ q.size = p.size
        /\ q.cache = p.cache /\ q.images = p.images
        /\ q.queue = p.queue /\ q.results = p.results /\ q.fresh = p.fresh
    <3> HIDE DEF rows, q
    <3> QED  BY <1>1, <2>1, <2>4 DEF PaneRecord
  <2> HIDE DEF q
  <2>6. /\ Base(d, q) /\ Follows(p, q) /\ Len(q.rows) = Len(p.rows)
        /\ \A k \in 1 .. Len(p.rows) : q.rows[k] = p.rows[places[k]]
    <3>1. Permutes(places, Len(p.rows)) /\ q.rows = Reordered(p.rows, places)
      BY <2>3, <2>5 DEF Permutes
    <3> HIDE DEF rows
    <3> HIDE DEF rows
    <3>2. Base(d, q) /\ Follows(p, q) /\ Rearranged(q.rows, p.rows, places)
      BY <2>5, <3>1, ReorderedKeeps
    <3> QED  BY <3>2 DEF Rearranged
  <2>7. ~q.pending /\ q.order = NoOrder
    BY <1>3, <2>5
  <2>8. Lookups(q, w)
    <3>1. BoundsOK(q) /\ Coming(q, w)
      BY <2>5, <2>6 DEF Lookups, BoundsOK, Coming
    <3>2. AnswersOK(q, w)
      BY <1>1, <2>5, <2>6, AnswersStay DEF Lookups
    <3>3. CursorOK(q) /\ OrderOK(q)
      BY <2>7 DEF CursorOK, OrderOK
    <3> QED  BY <3>1, <3>2, <3>3 DEF Lookups
  <2>9. SortOK(q)
    <3>1. ASSUME NEW i \in DOMAIN q.rows, NEW j \in DOMAIN q.rows, i < j
          PROVE  q.rows[i].id < q.rows[j].id
      <4>1. i \in 1 .. Len(p.rows) /\ j \in 1 .. Len(p.rows)
        BY <2>5, <2>6, RowTypes
      <4>2. <<places[i], places[j]>> \in ByName(p.rows)
        BY <2>3, <3>1, <4>1
      <4>3. p.rows[places[i]].id < p.rows[places[j]].id
        BY <4>2 DEF ByName
      <4> QED  BY <2>6, <4>1, <4>3
    <3> QED  BY <1>3, <2>5, <2>7, <3>1 DEF SortOK
  <2> QED  BY <2>6, <2>8, <2>9 DEF PaneOK, q
<1>4. CASE ~(p.key = "name" /\ p.watch # "recovering")
  <2>1. Sorted(p) = p
    BY <1>4 DEF Sorted
  <2>2. SortOK(p)
    BY <1>4 DEF SortOK
  <2> QED  BY <2>1, <2>2 DEF PaneOK
<1> QED  BY <1>3, <1>4

\* A merge goes on with what it began with, and its last step leaves the rows
\* in the order of their values.
LEMMA FinishedOK ==
  ASSUME NEW d, NEW p, NEW w \in Seq(Answer), PaneOK(d, p, w)
  PROVE  PaneOK(d, Finished(p), w)
<1> DEFINE o == IF p.order = NoOrder THEN [order |-> Order(p), steps |-> 1]
                ELSE [p.order EXCEPT !.steps = @ + 1]
           Not == \/ p.owed # {} \/ ~p.pending
                  \/ p.watch = "recovering" \/ p.phase = "loading"
                  \/ p.cursor < Len(p.rows) /\ ~p.failed
           n == Len(p.rows)
<1>1. p \in PaneRecord /\ Base(d, p) /\ RowsOK(d, p) /\ Lookups(p, w) /\ SortOK(p)
  BY DEF PaneOK, Base
<1>2. p.rows \in Seq(Row) /\ n \in Nat /\ DOMAIN p.rows = 1 .. n
  BY <1>1, RowTypes
<1>3. CASE Not
  BY <1>3 DEF Finished
<1>4. CASE ~Not
  <2>1. Orders(ByProperty(p), n)
    BY <1>1, ValuesOrder DEF RowsOK
  <2>2. /\ Order(p) \in Seq(Nat) /\ Len(Order(p)) = n
        /\ \A k \in 1 .. n : Order(p)[k] \in 1 .. n
        /\ \A i, j \in 1 .. n : i < j => <<Order(p)[i], Order(p)[j]>> \in ByProperty(p)
        /\ \A i, j \in 1 .. n : Order(p)[i] = Order(p)[j] => i = j
    BY <1>2, <2>1, RankedIs DEF Order
  <2>3. o \in Saved /\ o.order = Order(p)
    <3>1. CASE p.order = NoOrder
      BY <2>2, <3>1 DEF Saved
    <3>2. CASE p.order # NoOrder
      <4>1. p.order \in Saved
        BY <1>1 DEF PaneRecord
      <4>2. p.order.order = Order(p)
        BY <1>1, <1>4, <3>2 DEF Lookups, OrderOK
      <4> QED  BY <3>2, <4>1, <4>2 DEF Saved
    <3> QED  BY <3>1, <3>2
  <2> HIDE DEF o
  <2>4. p.pending /\ p.owed = {} /\ p.watch # "recovering" /\ p.phase # "loading"
        /\ (p.failed \/ p.cursor >= n)
    BY <1>1, <1>2, <1>4, LookupTypes
  <2>5. CASE Len(o.order) >= 2 /\ o.steps < MergeSteps
    <3> DEFINE q == [p EXCEPT !.order = o]
    <3>1. Finished(p) = Posted(q)
      BY <1>4, <2>5 DEF Finished, o
    <3>2. /\ q \in PaneRecord /\ q.order = o
          /\ q.rows = p.rows /\ q.phase = p.phase /\ q.watch = p.watch /\ q.key = p.key
          /\ q.pending = p.pending /\ q.cursor = p.cursor /\ q.failed = p.failed
          /\ q.interest = p.interest /\ q.owed = p.owed /\ q.size = p.size
          /\ q.cache = p.cache /\ q.images = p.images
          /\ q.queue = p.queue /\ q.results = p.results /\ q.fresh = p.fresh
      BY <1>1, <2>3 DEF PaneRecord
    <3> HIDE DEF q
    <3>3. Base(d, q) /\ SortOK(q)
      BY <1>1, <3>2, SameBase, SameSort
    <3>4. Order(q) = Order(p)
      BY <3>2 DEF Order, ByProperty
    <3>5. OrderOK(q)
      BY <2>3, <2>4, <3>2, <3>4 DEF OrderOK
    <3>6. BoundsOK(q) /\ Coming(q, w)
      BY <1>1, <3>2 DEF Lookups, BoundsOK, Coming
    <3>7. CursorOK(q)
      BY <1>1, <3>2, SameCursor DEF Lookups
    <3>8. AnswersOK(q, w)
      BY <1>1, <3>2, FollowsSame, AnswersStay DEF Lookups
    <3>9. PaneOK(d, q, w)
      BY <3>3, <3>5, <3>6, <3>7, <3>8 DEF PaneOK, Lookups
    <3> QED  BY <3>1, <3>9, PostedOK
  <2>6. CASE ~(Len(o.order) >= 2 /\ o.steps < MergeSteps)
    <3> DEFINE rows == Reordered(p.rows, o.order)
               q == [p EXCEPT !.rows = rows, !.pending = FALSE]
    <3>1. Finished(p) = Posted(Cancelled(q))
      BY <1>4, <2>6 DEF Finished, o
    <3>2. rows \in Seq(Row)
      BY <1>2, <2>2, <2>3, ReorderedIs
    <3>3. /\ q \in PaneRecord /\ q.rows = Reordered(p.rows, Order(p)) /\ ~q.pending
          /\ q.phase = p.phase /\ q.watch = p.watch /\ q.key = p.key /\ q.failed = p.failed
          /\ q.cache = p.cache /\ q.images = p.images
      <4> HIDE DEF rows
      <4>1. /\ q \in PaneRecord /\ q.rows = rows /\ ~q.pending
            /\ q.phase = p.phase /\ q.watch = p.watch /\ q.key = p.key /\ q.failed = p.failed
            /\ q.cache = p.cache /\ q.images = p.images
        BY <1>1, <3>2 DEF PaneRecord
      <4> QED  BY <2>3, <4>1 DEF rows
    <3> HIDE DEF q, rows
    <3>4. /\ Base(d, q) /\ Len(q.rows) = n
          /\ \A k \in 1 .. n : q.rows[k] = p.rows[Order(p)[k]]
      <4>1. Permutes(Order(p), Len(p.rows))
        BY <2>2 DEF Permutes
      <4>2. Base(d, q) /\ Rearranged(q.rows, p.rows, Order(p))
        BY <1>1, <3>3, <4>1, ReorderedKeeps
      <4> QED  BY <4>2 DEF Rearranged
    <3>5. DOMAIN q.rows = 1 .. n
      BY <3>3, <3>4, RowTypes
    <3>6. p.key # "name"
      BY <1>1, <2>4 DEF SortOK
    <3>7. ASSUME ~q.failed, NEW i \in DOMAIN q.rows
          PROVE  Resolved(q, i)
      <4>1. Order(p)[i] \in 1 .. p.cursor
        BY <1>1, <1>2, <2>2, <2>4, <3>3, <3>5, <3>7, LookupTypes
      <4>2. Resolved(p, Order(p)[i])
        BY <1>1, <2>4, <3>3, <3>7, <4>1 DEF Lookups, CursorOK
      <4> QED  BY <3>3, <3>4, <3>5, <4>2 DEF Resolved
    <3>8. ASSUME NEW i \in DOMAIN q.rows, NEW j \in DOMAIN q.rows, i < j
          PROVE  RowLess(q.key, q.rows[i], q.rows[j])
      <4>1. <<Order(p)[i], Order(p)[j]>> \in ByProperty(p)
        BY <2>2, <3>5, <3>8
      <4>2. RowLess(p.key, p.rows[Order(p)[i]], p.rows[Order(p)[j]])
        BY <4>1 DEF ByProperty
      <4> QED  BY <3>3, <3>4, <3>5, <4>2
    <3>9. SortOK(q)
      BY <2>4, <3>3, <3>6, <3>7, <3>8 DEF SortOK
    <3>10. PaneOK(d, Cancelled(q), w)
      BY <3>4, <3>9, CancelledOK
    <3> QED  BY <3>1, <3>10, PostedOK
  <2> QED  BY <2>5, <2>6
<1> QED  BY <1>3, <1>4

\* The end of a batch: nothing that was asked for about other rows counts.
LEMMA MergedOK ==
  ASSUME NEW d, NEW p, NEW w \in Seq(Answer), Base(d, p), p.pending = (p.key # "name"),
         p.watch = "recovering" => p.phase = "complete"
  PROVE  PaneOK(d, Merged(p), w)
<1> DEFINE q == Cancelled(p)
<1>1. p \in PaneRecord
  BY DEF Base
<1>2. /\ q \in PaneRecord
      /\ q.rows = p.rows /\ q.phase = p.phase /\ q.watch = p.watch /\ q.key = p.key
      /\ q.pending = p.pending /\ q.failed = p.failed /\ q.size = p.size
      /\ q.cache = p.cache /\ q.images = p.images
      /\ q.queue = <<>> /\ q.results = <<>> /\ q.fresh = FALSE
      /\ q.interest = <<>> /\ q.owed = {} /\ q.tried = {} /\ q.cursor = 0 /\ q.order = NoOrder
  BY <1>1, CancelledIs
<1> HIDE DEF q
<1>3. Base(d, q) /\ Lookups(q, w)
  BY <1>2, SameBase, CancelledLookups
<1>4. PaneOK(d, Sorted(q), w)
  BY <1>2, <1>3, SortedOK
<1>5. PaneOK(d, Posted(Finished(Sorted(q))), w)
  BY <1>4, FinishedOK, PostedOK
<1> QED  BY <1>5 DEF Merged, q

-----------------------------------------------------------------------------
(* What the rows ask for.  *)

AskRecord == [requests : Seq(Request), full : BOOLEAN, cursor : Nat, tried : SUBSET Key, cache : Seq(Entry)]

AllResolved(p) == \A i \in DOMAIN p.rows : Resolved(p, i)

Requesting(v, request) == \E j \in DOMAIN v.requests : v.requests[j] = request

\* The rows the cursor has passed are resolved or in the window of requests.
Passed(p, v) ==
  p.pending /\ ~p.failed /\ p.watch # "recovering" =>
    \A i \in 1 .. v.cursor : Resolved(p, i) \/ Requesting(v, PropertyRequest(p, i, p.key))

\* A window of requests on its way.
Asks(p, v) ==
  /\ v \in AskRecord /\ Len(v.requests) <= Interest
  /\ \A i \in DOMAIN v.requests : KeyOK(p, v.requests[i].key)
  /\ p.cursor <= v.cursor /\ v.cursor <= Len(p.rows)
  /\ CacheOK(v.cache, p.images) /\ ImagesOK(p, v.cache, p.images)
  /\ Passed(p, v)
  /\ p.pending /\ AllResolved(p) => v.requests = <<>>

\* An entry that is used moves to the end.
LEMMA UsedIs ==
  ASSUME NEW cache \in Seq(Entry), NEW images, CacheOK(cache, images), NEW key, Cached(cache, key)
  PROVE  /\ Used(cache, key) \in Seq(Entry) /\ CacheOK(Used(cache, key), images)
         /\ \A j \in DOMAIN Used(cache, key) : \E k \in DOMAIN cache : Used(cache, key)[j] = cache[k]
<1> DEFINE i == CHOOSE j \in DOMAIN cache : cache[j].key = key
           n == Len(cache)
           left == RemoveAt(cache, i)
           q == Append(left, cache[i])
           Old(j) == IF j = n THEN i ELSE IF j < i THEN j ELSE j + 1
<1>1. i \in 1 .. n /\ n \in Nat /\ i \in DOMAIN cache /\ DOMAIN cache = 1 .. n /\ cache[i] \in Entry
  BY DEF Cached
<1>2. Used(cache, key) = q
  BY DEF Used
<1> HIDE DEF i, n
<1>3. left \in Seq(Entry) /\ Lacks(left, cache, i)
  BY <1>1, Removed
<1> HIDE DEF left
<1>4. Len(left) = n - 1 /\ \A k \in 1 .. n - 1 : left[k] = IF k < i THEN cache[k] ELSE cache[k + 1]
  BY <1>1, <1>3 DEF Lacks, n
<1>5. /\ q \in Seq(Entry) /\ Len(q) = n /\ DOMAIN q = 1 .. n /\ q[n] = cache[i]
      /\ \A k \in 1 .. n - 1 : q[k] = left[k]
  <2>1. /\ q \in Seq(Entry) /\ Len(q) = Len(left) + 1
        /\ \A k \in 1 .. Len(left) : q[k] = left[k]
        /\ q[Len(left) + 1] = cache[i]
    BY <1>1, <1>3, AppendProperties
  <2>2. Len(left) + 1 = n
    BY <1>1, <1>4
  <2> HIDE DEF q
  <2> QED  BY <1>1, <1>4, <2>1, <2>2
<1> HIDE DEF q
<1>6. ASSUME NEW j \in 1 .. n
      PROVE  Old(j) \in 1 .. n /\ q[j] = cache[Old(j)]
  <2>1. CASE j = n
    BY <1>1, <1>5, <2>1
  <2>2. CASE j # n
    <3>1. j \in 1 .. n - 1
      BY <1>1, <2>2
    <3>2. q[j] = IF j < i THEN cache[j] ELSE cache[j + 1]
      BY <1>4, <1>5, <3>1
    <3> QED  BY <1>1, <2>2, <3>1, <3>2
  <2> QED  BY <2>1, <2>2
<1>7. \A j, k \in 1 .. n : Old(j) = Old(k) => j = k
  BY <1>1
<1> HIDE DEF Old
<1>8. CacheOK(q, images)
  <2>1. \A j, k \in DOMAIN q : q[j].slot = q[k].slot => j = k
    <3> SUFFICES ASSUME NEW j \in 1 .. n, NEW k \in 1 .. n, q[j].slot = q[k].slot
                 PROVE  j = k
      BY <1>5
    <3>1. cache[Old(j)].slot = cache[Old(k)].slot /\ Old(j) \in DOMAIN cache /\ Old(k) \in DOMAIN cache
      BY <1>1, <1>6
    <3>2. Old(j) = Old(k)
      BY <3>1 DEF CacheOK
    <3> QED  BY <1>7, <3>2
  <2>2. ASSUME NEW j \in DOMAIN q
        PROVE  q[j].slot \in DOMAIN images /\ images[q[j].slot].key = q[j].key
    <3>1. q[j] = cache[Old(j)] /\ Old(j) \in DOMAIN cache
      BY <1>1, <1>5, <1>6
    <3> QED  BY <3>1 DEF CacheOK
  <2> QED  BY <1>5, <2>1, <2>2 DEF CacheOK, n
<1> QED  BY <1>1, <1>2, <1>5, <1>6, <1>8

\* The keys of a row are good.
LEMMA KeysOfRow ==
  ASSUME NEW d, NEW p \in PaneRecord, RowsOK(d, p), NEW index \in DOMAIN p.rows
  PROVE  /\ IconKey(p, p.rows[index]) \in Key /\ KeyOK(p, IconKey(p, p.rows[index]))
         /\ TypeKey(p, p.rows[index]) \in Key /\ KeyOK(p, TypeKey(p, p.rows[index]))
<1> DEFINE row == p.rows[index]
<1>1. /\ row.id \in Ids /\ row.id \in Nat /\ row.stamp \in Nat /\ p.size \in Nat
      /\ \A i \in DOMAIN p.rows : p.rows[i].id \in Nat /\ p.rows[i].stamp \in Nat /\ p.rows[i].id >= 1
      /\ Len(p.rows) \in Nat
  <2>1. p.size \in Nat
    BY DEF PaneRecord
  <2>2. \A id \in Ids : id >= 1
    BY RowsAssumption DEF Ids
  <2> QED  BY <2>1, <2>2, RowTypes
<1>2. IconKey(p, row) \in Key
  BY <1>1 DEF IconKey, Key
<1>3. KeyOK(p, IconKey(p, row))
  <2>1. \A i \in DOMAIN p.rows : p.rows[i].id = row.id => i = index
    BY DEF RowsOK
  <2>2. IconKey(p, row).id = row.id /\ IconKey(p, row).stamp = row.stamp
    BY DEF IconKey
  <2>3. p.phase = "loading" => row.id <= Len(p.rows)
    BY DEF RowsOK
  <2> QED  BY <1>1, <2>1, <2>2, <2>3 DEF KeyOK
<1>4. TypeKey(p, row) \in Key /\ TypeKey(p, row).id \in {0, -1}
  <2>1. row.id % 2 \in {0, 1}
    BY <1>1
  <2>2. 0 - (row.id % 2) \in {0, -1}
    BY <2>1
  <2> QED  BY <1>1, <2>2 DEF TypeKey, Key
<1>5. KeyOK(p, TypeKey(p, row))
  BY <1>1, <1>4 DEF KeyOK
<1> QED  BY <1>2, <1>3, <1>4, <1>5

LEMMA PropertyRequestIs ==
  ASSUME NEW d, NEW p \in PaneRecord, RowsOK(d, p), NEW index \in DOMAIN p.rows, NEW property \in Keys \cup {"type"}
  PROVE  LET r == PropertyRequest(p, index, property) IN
         r \in Request /\ KeyOK(p, r.key) /\ r.property = property
<1>1. /\ IconKey(p, p.rows[index]) \in Key /\ KeyOK(p, IconKey(p, p.rows[index]))
      /\ index \in Nat \ {0}
  BY KeysOfRow, RowTypes
<1> QED  BY <1>1 DEF PropertyRequest, Request

\* One more request.
LEMMA AppendedAsks ==
  ASSUME NEW p \in PaneRecord, NEW v, Asks(p, v), NEW request \in Request, KeyOK(p, request.key),
         Len(v.requests) # Interest, ~(p.pending /\ AllResolved(p)),
         NEW u \in AskRecord, u.requests = Append(v.requests, request), u.cursor = v.cursor, u.cache = v.cache
  PROVE  Asks(p, u) /\ Requesting(u, request)
<1> DEFINE n == Len(v.requests)
<1>1. v.requests \in Seq(Request) /\ n \in Nat /\ DOMAIN v.requests = 1 .. n
  BY DEF Asks, AskRecord
<1>2. /\ Len(u.requests) = n + 1 /\ DOMAIN u.requests = 1 .. n + 1
      /\ \A i \in 1 .. n : u.requests[i] = v.requests[i]
      /\ u.requests[n + 1] = request
  BY <1>1, AppendProperties
<1>3. Len(u.requests) <= Interest
  BY <1>1, <1>2, LimitsAssumption DEF Asks
<1>4. \A i \in DOMAIN u.requests : KeyOK(p, u.requests[i].key)
  BY <1>1, <1>2 DEF Asks
<1>5. \A r : Requesting(v, r) => Requesting(u, r)
  BY <1>1, <1>2 DEF Requesting
<1>6. Passed(p, u)
  BY <1>5 DEF Asks, Passed
<1>7. Requesting(u, request)
  BY <1>1, <1>2 DEF Requesting
<1> QED  BY <1>3, <1>4, <1>6, <1>7 DEF Asks

\* A row asks for its property.
LEMMA AskingAsks ==
  ASSUME NEW d, NEW p \in PaneRecord, RowsOK(d, p), NEW v, Asks(p, v), NEW index \in DOMAIN p.rows,
         NEW property \in Keys \cup {"type"}, p.pending => property = p.key
  PROVE  LET u == Asking(p, property, v, index) IN
         /\ Asks(p, u) /\ u.cursor = v.cursor
         /\ property = p.key /\ ~u.full => Resolved(p, index) \/ Requesting(u, PropertyRequest(p, index, property))
<1> DEFINE request == PropertyRequest(p, index, property)
           u == Asking(p, property, v, index)
<1>1. v \in AskRecord /\ v.requests \in Seq(Request)
  BY DEF Asks, AskRecord
<1>2. request \in Request /\ KeyOK(p, request.key)
  BY PropertyRequestIs
<1> HIDE DEF request
<1>3. CASE p.rows[index].properties[Slot(property)].state # "unresolved"
  <2>1. u = v
    BY <1>3 DEF Asking
  <2> QED  BY <1>3, <2>1 DEF Resolved
<1>4. CASE Contains(v.requests, request)
  <2>1. u = v
    BY <1>4 DEF Asking, request
  <2>2. Requesting(v, request)
    BY <1>4 DEF Contains, Requesting
  <2> QED  BY <2>1, <2>2 DEF request
<1>5. CASE /\ p.rows[index].properties[Slot(property)].state = "unresolved" /\ ~Contains(v.requests, request)
           /\ Len(v.requests) = Interest
  <2>1. u = [v EXCEPT !.full = TRUE]
    BY <1>5 DEF Asking, request
  <2> HIDE DEF u
  <2>2. u \in AskRecord /\ u.full /\ u.requests = v.requests /\ u.cursor = v.cursor /\ u.cache = v.cache
    BY <1>1, <2>1 DEF AskRecord
  <2>3. Asks(p, u)
    BY <2>2 DEF Asks, Passed, Requesting
  <2> QED  BY <2>2, <2>3 DEF u
<1>6. CASE /\ p.rows[index].properties[Slot(property)].state = "unresolved" /\ ~Contains(v.requests, request)
           /\ Len(v.requests) # Interest
  <2>1. u = [v EXCEPT !.requests = Append(@, request)]
    BY <1>6 DEF Asking, request
  <2>2. Append(v.requests, request) \in Seq(Request)
    BY <1>1, <1>2, AppendProperties
  <2> HIDE DEF u
  <2>3. /\ u \in AskRecord /\ u.requests = Append(v.requests, request) /\ u.cursor = v.cursor
        /\ u.cache = v.cache
    BY <1>1, <2>1, <2>2 DEF AskRecord
  <2>4. ~(p.pending /\ AllResolved(p))
    BY <1>6 DEF AllResolved, Resolved
  <2>5. Asks(p, u) /\ Requesting(u, request)
    BY <1>2, <1>6, <2>3, <2>4, AppendedAsks
  <2> QED  BY <2>3, <2>5 DEF u, request
<1> QED  BY <1>3, <1>4, <1>5, <1>6

\* An image that is cached is used.
LEMMA UsedAsks ==
  ASSUME NEW p \in PaneRecord, NEW v, Asks(p, v), NEW key, Cached(v.cache, key)
  PROVE  Asks(p, [v EXCEPT !.cache = Used(@, key)])
<1> DEFINE cache == Used(v.cache, key)
           u == [v EXCEPT !.cache = cache]
<1>1. v \in AskRecord /\ v.cache \in Seq(Entry) /\ CacheOK(v.cache, p.images)
  BY DEF Asks, AskRecord
<1>2. /\ cache \in Seq(Entry) /\ CacheOK(cache, p.images)
      /\ \A j \in DOMAIN cache : \E k \in DOMAIN v.cache : cache[j] = v.cache[k]
  BY <1>1, UsedIs
<1> HIDE DEF cache
<1>3. u \in AskRecord /\ u.requests = v.requests /\ u.cursor = v.cursor /\ u.cache = cache
  BY <1>1, <1>2 DEF AskRecord
<1> HIDE DEF u
<1>4. ImagesOK(p, cache, p.images)
  <2> SUFFICES ASSUME NEW j \in DOMAIN cache
               PROVE  KeyOK(p, cache[j].key) /\ ReadOK(p, cache[j].key, p.images[cache[j].slot].look)
    BY DEF ImagesOK
  <2>1. PICK k \in DOMAIN v.cache : cache[j] = v.cache[k]
    BY <1>2
  <2>2. KeyOK(p, v.cache[k].key) /\ ReadOK(p, v.cache[k].key, p.images[v.cache[k].slot].look)
    BY DEF Asks, ImagesOK
  <2> QED  BY <2>1, <2>2
<1>5. Asks(p, u)
  BY <1>2, <1>3, <1>4 DEF Asks, Passed, Requesting
<1> QED  BY <1>5 DEF u, cache

\* An image is asked for.
LEMMA ImageAsked ==
  ASSUME NEW p \in PaneRecord, NEW v, Asks(p, v), NEW key \in Key, KeyOK(p, key), ~p.pending,
         Len(v.requests) # Interest
  PROVE  Asks(p, [v EXCEPT !.requests = Append(@, ImageRequest(key)), !.tried = @ \cup {key}])
<1> DEFINE u == [v EXCEPT !.requests = Append(@, ImageRequest(key)), !.tried = @ \cup {key}]
<1>1. v \in AskRecord /\ v.requests \in Seq(Request) /\ v.tried \in SUBSET Key
  BY DEF Asks, AskRecord
<1>2. ImageRequest(key) \in Request /\ ImageRequest(key).key = key
  BY DEF ImageRequest, Request
<1>3. Append(v.requests, ImageRequest(key)) \in Seq(Request) /\ v.tried \cup {key} \in SUBSET Key
  BY <1>1, <1>2, AppendProperties
<1>4. u \in AskRecord
  BY <1>1, <1>3 DEF AskRecord
<1>5. u.requests = Append(v.requests, ImageRequest(key)) /\ u.cursor = v.cursor /\ u.cache = v.cache
  BY <1>1 DEF AskRecord
<1> HIDE DEF u
<1>6. Asks(p, u)
  BY <1>2, <1>4, <1>5, AppendedAsks
<1> QED  BY <1>6 DEF u

LEMMA FullAsks ==
  ASSUME NEW p, NEW v, Asks(p, v), NEW full \in BOOLEAN
  PROVE  /\ Asks(p, [v EXCEPT !.full = full]) /\ [v EXCEPT !.full = full].full = full
         /\ [v EXCEPT !.full = full].requests = v.requests /\ [v EXCEPT !.full = full].cursor = v.cursor
<1> DEFINE u == [v EXCEPT !.full = full]
<1>1. v \in AskRecord
  BY DEF Asks
<1>2. u \in AskRecord /\ u.requests = v.requests /\ u.cursor = v.cursor /\ u.cache = v.cache /\ u.full = full
  BY <1>1 DEF AskRecord
<1> HIDE DEF u
<1>3. Asks(p, u)
  BY <1>2 DEF Asks, Passed, Requesting
<1> QED  BY <1>2, <1>3 DEF u

\* The cursor passes a row only when that is resolved or asked for.
LEMMA NextAsks ==
  ASSUME NEW d, NEW p \in PaneRecord, RowsOK(d, p), NEW v, Asks(p, v), NEW index \in DOMAIN p.rows,
         v.full \/ Len(v.requests) = Interest \/ index = v.cursor + 1
  PROVE  LET u == AskingNext(p, v, index) IN
         /\ Asks(p, u)
         /\ u.full \/ Len(u.requests) = Interest \/ u.cursor = index
<1> DEFINE u == AskingNext(p, v, index)
           asked == Asking(p, p.key, v, index)
<1>1. CASE v.full \/ Len(v.requests) = Interest
  BY <1>1 DEF AskingNext
<1>2. ASSUME ~(v.full \/ Len(v.requests) = Interest)
      PROVE  Asks(p, u) /\ (u.full \/ Len(u.requests) = Interest \/ u.cursor = index)
  <2>1. p.key \in Keys
    BY DEF PaneRecord
  <2>2. /\ Asks(p, asked) /\ asked.cursor = v.cursor
        /\ ~asked.full => Resolved(p, index) \/ Requesting(asked, PropertyRequest(p, index, p.key))
    BY <2>1, AskingAsks
  <2>3. u = IF asked.full THEN asked ELSE [asked EXCEPT !.cursor = index]
    BY <1>2 DEF AskingNext
  <2> HIDE DEF asked, u
  <2>4. ASSUME asked.full
        PROVE  Asks(p, u) /\ u.full
    <3>1. u = asked
      BY <2>3, <2>4
    <3> QED  BY <2>2, <2>4, <3>1
  <2>5. ASSUME ~asked.full
        PROVE  Asks(p, u) /\ u.cursor = index
    <3>1. asked \in AskRecord /\ asked.cursor \in Nat /\ index \in Nat /\ index <= Len(p.rows)
          /\ index = asked.cursor + 1
      BY <1>2, <2>2, RowTypes DEF Asks, AskRecord
    <3>2. u = [asked EXCEPT !.cursor = index]
      BY <2>3, <2>5
    <3>3. u \in AskRecord /\ u.requests = asked.requests /\ u.cache = asked.cache /\ u.cursor = index
      BY <3>1, <3>2 DEF AskRecord
    <3>4. Passed(p, u)
      <4> SUFFICES ASSUME p.pending, ~p.failed, p.watch # "recovering", NEW i \in 1 .. index
                   PROVE  Resolved(p, i) \/ Requesting(u, PropertyRequest(p, i, p.key))
        BY <3>3 DEF Passed
      <4>1. CASE i = index
        BY <2>2, <2>5, <3>3, <4>1 DEF Requesting
      <4>2. CASE i # index
        <5>1. i \in 1 .. asked.cursor
          BY <3>1, <4>2
        <5> QED  BY <2>2, <3>3, <5>1 DEF Asks, Passed, Requesting
      <4> QED  BY <4>1, <4>2
    <3>5. p.cursor <= u.cursor /\ u.cursor <= Len(p.rows)
      BY <2>2, <3>1, <3>3, LookupTypes DEF Asks
    <3>6. Asks(p, u)
      BY <2>2, <3>3, <3>4, <3>5 DEF Asks
    <3> QED  BY <3>3, <3>6
  <2> QED  BY <2>4, <2>5
<1> QED  BY <1>1, <1>2

LEMMA TypeAsks ==
  ASSUME NEW p \in PaneRecord, NEW v, Asks(p, v), NEW key \in Key, KeyOK(p, key), ~p.pending
  PROVE  Asks(p, AskingType(v, key))
<1>1. Asks(p, [v EXCEPT !.full = TRUE])
  BY FullAsks
<1>2. Cached(v.cache, key) => Asks(p, [v EXCEPT !.cache = Used(@, key)])
  BY UsedAsks
<1>3. Len(v.requests) # Interest =>
        Asks(p, [v EXCEPT !.requests = Append(@, ImageRequest(key)), !.tried = @ \cup {key}])
  BY ImageAsked
<1> QED  BY <1>1, <1>2, <1>3, Zenon DEF AskingType

LEMMA RowImageAsks ==
  ASSUME NEW p \in PaneRecord, NEW v, Asks(p, v), NEW key \in Key, KeyOK(p, key), ~p.pending
  PROVE  Asks(p, AskingImage(v, key))
<1>1. Cached(v.cache, key) => Asks(p, [v EXCEPT !.cache = Used(@, key)])
  BY UsedAsks
<1>2. Len(v.requests) # Interest =>
        Asks(p, [v EXCEPT !.requests = Append(@, ImageRequest(key)), !.tried = @ \cup {key}])
  BY ImageAsked
<1> QED  BY <1>1, <1>2, Zenon DEF AskingImage

\* The loops that ask for values run while a sort is pending, the others when none is.
Loop(what, p) ==
  \/ what \in {"visible", "next"}
  \/ what \in {"column", "type", "image"} /\ ~p.pending

LoopAsks(what, p, first, k, v) ==
  /\ Asks(p, v)
  /\ what = "next" => v.full \/ Len(v.requests) = Interest \/ v.cursor = first + k
  /\ what = "visible" => v.cursor = first

LEMMA AboutAsks ==
  ASSUME NEW d, NEW p \in PaneRecord, RowsOK(d, p), NEW what, Loop(what, p), NEW first \in Nat, NEW k \in Nat \ {0},
         NEW index \in DOMAIN p.rows, what = "next" => index = first + k,
         NEW v, LoopAsks(what, p, first, k - 1, v)
  PROVE  LoopAsks(what, p, first, k, AskingAbout(what, p, v, index))
<1>1. Asks(p, v) /\ p.key \in Keys
  BY DEF LoopAsks, PaneRecord
<1>2. CASE what = "visible"
  <2>1. Asks(p, Asking(p, p.key, v, index)) /\ Asking(p, p.key, v, index).cursor = v.cursor
    BY <1>1, AskingAsks
  <2>2. AskingAbout(what, p, v, index) = IF v.full THEN v ELSE Asking(p, p.key, v, index)
    BY <1>2 DEF AskingAbout
  <2> QED  BY <1>1, <1>2, <2>1, <2>2 DEF LoopAsks
<1>3. CASE what = "next"
  <2>1. v.full \/ Len(v.requests) = Interest \/ index = v.cursor + 1
    BY <1>1, <1>3 DEF LoopAsks, Asks, AskRecord
  <2>2. LET u == AskingNext(p, v, index) IN
        /\ Asks(p, u)
        /\ u.full \/ Len(u.requests) = Interest \/ u.cursor = index
    BY <1>1, <2>1, NextAsks
  <2>3. AskingAbout(what, p, v, index) = AskingNext(p, v, index)
    BY <1>3 DEF AskingAbout
  <2> QED  BY <1>3, <2>2, <2>3 DEF LoopAsks
<1>4. CASE what = "column"
  <2>1. ~p.pending
    BY <1>4 DEF Loop
  <2>2. Asks(p, Asking(p, "type", v, index))
    BY <1>1, <2>1, AskingAsks
  <2>3. AskingAbout(what, p, v, index) = Asking(p, "type", v, index)
    BY <1>4 DEF AskingAbout
  <2> QED  BY <1>4, <2>2, <2>3 DEF LoopAsks
<1>5. CASE what = "type"
  <2>1. ~p.pending
    BY <1>5 DEF Loop
  <2>2. TypeKey(p, p.rows[index]) \in Key /\ KeyOK(p, TypeKey(p, p.rows[index]))
    BY KeysOfRow
  <2>3. Asks(p, AskingType(v, TypeKey(p, p.rows[index])))
    BY <1>1, <2>1, <2>2, TypeAsks
  <2>4. AskingAbout(what, p, v, index) = IF v.full THEN v ELSE AskingType(v, TypeKey(p, p.rows[index]))
    BY <1>5 DEF AskingAbout
  <2> QED  BY <1>1, <1>5, <2>3, <2>4 DEF LoopAsks
<1>6. CASE what = "image"
  <2>1. ~p.pending
    BY <1>6 DEF Loop
  <2>2. IconKey(p, p.rows[index]) \in Key /\ KeyOK(p, IconKey(p, p.rows[index]))
    BY KeysOfRow
  <2>3. Asks(p, AskingImage(v, IconKey(p, p.rows[index])))
    BY <1>1, <2>1, <2>2, RowImageAsks
  <2>4. AskingAbout(what, p, v, index) = AskingImage(v, IconKey(p, p.rows[index]))
    BY <1>6 DEF AskingAbout
  <2> QED  BY <1>6, <2>3, <2>4 DEF LoopAsks
<1> QED  BY <1>2, <1>3, <1>4, <1>5, <1>6 DEF Loop

\* What a loop over rows leaves.
LEMMA AskedAsks ==
  ASSUME NEW d, NEW p \in PaneRecord, RowsOK(d, p), NEW what, Loop(what, p), NEW w, Asks(p, w),
         NEW indices \in Seq(DOMAIN p.rows),
         what = "next" => \A k \in DOMAIN indices : indices[k] = w.cursor + k
  PROVE  /\ Asks(p, Asked(what, p, w, indices))
         /\ what = "visible" => Asked(what, p, w, indices).cursor = w.cursor
<1> DEFINE n == Len(indices)
           first == w.cursor
           T == [k \in 0 .. n |-> {v \in AskRecord : LoopAsks(what, p, first, k, v)}]
           F == [x \in (1 .. n) \X AskRecord |-> AskingAbout(what, p, x[2], indices[x[1]])]
           After[k \in 0 .. n] == IF k = 0 THEN w ELSE AskingAbout(what, p, After[k - 1], indices[k])
<1>1. Asked(what, p, w, indices) = [After[n] EXCEPT !.full = FALSE]
  BY DEF Asked
<1>2. n \in Nat /\ DOMAIN indices = 1 .. n /\ first \in Nat
  BY DEF Asks, AskRecord
<1>3. ASSUME NEW k \in 1 .. n, NEW v \in AskRecord, LoopAsks(what, p, first, k - 1, v)
      PROVE  /\ AskingAbout(what, p, v, indices[k]) \in AskRecord
             /\ LoopAsks(what, p, first, k, AskingAbout(what, p, v, indices[k]))
  <2>1. k \in Nat \ {0} /\ indices[k] \in DOMAIN p.rows
    BY <1>2
  <2>2. what = "next" => indices[k] = first + k
    BY <1>2
  <2> HIDE DEF first
  <2>3. LoopAsks(what, p, first, k, AskingAbout(what, p, v, indices[k]))
    BY <1>2, <1>3, <2>1, <2>2, AboutAsks
  <2> QED  BY <2>3 DEF LoopAsks, Asks
<1>4. w \in AskRecord /\ LoopAsks(what, p, first, 0, w)
  BY <1>2 DEF LoopAsks, Asks
<1> HIDE DEF n, first
<1>5. w \in T[0]
  BY <1>2, <1>4
<1>6. \A k \in 1 .. n : \A v \in T[k - 1] : /\ AskingAbout(what, p, v, indices[k]) \in T[k]
                                            /\ F[<<k, v>>] = AskingAbout(what, p, v, indices[k])
  <2> TAKE k \in 1 .. n
  <2>1. k - 1 \in 0 .. n /\ k \in 0 .. n
    BY <1>2
  <2>2. /\ T[k - 1] = {v \in AskRecord : LoopAsks(what, p, first, k - 1, v)}
        /\ T[k] = {v \in AskRecord : LoopAsks(what, p, first, k, v)}
    BY <2>1
  <2> QED  BY <1>3, <2>2
<1> HIDE DEF T, F
<1>7. PICK f : (\A k \in 0 .. n : f[k] \in T[k]) /\ Steps(f, w, n, F)
  <2>1. \A k \in 1 .. n : \A v \in T[k - 1] : F[<<k, v>>] \in T[k]
    BY <1>6
  <2> QED  BY <1>2, <1>5, <2>1, Recursed
<1>8. f = [k \in 0 .. n |-> IF k = 0 THEN w ELSE AskingAbout(what, p, f[k - 1], indices[k])]
  <2>1. \A k \in 0 .. n : k # 0 => k \in 1 .. n /\ k - 1 \in 0 .. n
    BY <1>2
  <2>2. \A k \in 0 .. n : k # 0 => F[<<k, f[k - 1]>>] = AskingAbout(what, p, f[k - 1], indices[k])
    BY <1>6, <1>7, <2>1
  <2> QED  BY <1>7, <2>2, Zenon DEF Steps
<1>9. After = [k \in 0 .. n |-> IF k = 0 THEN w ELSE AskingAbout(what, p, After[k - 1], indices[k])]
  BY <1>8, Zenon
<1> HIDE DEF After
<1>10. After[0] = w /\ \A k \in 1 .. n : After[k] = AskingAbout(what, p, After[k - 1], indices[k])
  <2>1. 0 \in 0 .. n /\ \A k \in 1 .. n : k \in 0 .. n /\ k # 0
    BY <1>2
  <2>2. \A k \in 0 .. n : After[k] = IF k = 0 THEN w ELSE AskingAbout(what, p, After[k - 1], indices[k])
    BY <1>9, Zenon
  <2> QED  BY <2>1, <2>2
<1>11. \A k \in 0 .. n : After[k] \in T[k]
  <2>1. After[0] \in T[0] /\ \A k \in 1 .. n : After[k - 1] \in T[k - 1] => After[k] \in T[k]
    BY <1>5, <1>6, <1>10
  <2> QED  BY <1>2, <2>1, AllAlong
<1>12. Asks(p, After[n]) /\ (what = "visible" => After[n].cursor = first)
  <2>1. n \in 0 .. n /\ T[n] = {v \in AskRecord : LoopAsks(what, p, first, n, v)}
    BY <1>2 DEF T
  <2> QED  BY <1>11, <2>1 DEF LoopAsks
<1>13. /\ Asks(p, [After[n] EXCEPT !.full = FALSE])
       /\ [After[n] EXCEPT !.full = FALSE].cursor = After[n].cursor
  BY <1>12, FullAsks
<1>14. first = w.cursor
  BY DEF first
<1> QED  BY <1>1, <1>12, <1>13, <1>14

-----------------------------------------------------------------------------
(* A viewport and what it asks for.  *)

Nothing(p) ==
  [requests |-> <<>>, full |-> FALSE, cursor |-> p.cursor, tried |-> p.tried, cache |-> p.cache]

LEMMA NothingAsks ==
  ASSUME NEW d, NEW p, Base(d, p), BoundsOK(p), CursorOK(p), p.owed = {}
  PROVE  Asks(p, Nothing(p)) /\ Nothing(p).requests = <<>> /\ Nothing(p).cursor = p.cursor
<1>1. p \in PaneRecord /\ CacheOK(p.cache, p.images) /\ ImagesOK(p, p.cache, p.images)
  BY DEF Base
<1>2. p.cursor \in Nat /\ p.tried \in SUBSET Key /\ p.cache \in Seq(Entry) /\ Len(p.rows) \in Nat
  BY <1>1, RowTypes DEF PaneRecord
<1>3. <<>> \in Seq(Request) /\ Len(<<>>) = 0
  OBVIOUS
<1> DEFINE v == Nothing(p)
<1>4. /\ v \in AskRecord /\ v.requests = <<>> /\ v.cursor = p.cursor /\ v.cache = p.cache
  BY <1>2, <1>3 DEF AskRecord, Nothing
<1> HIDE DEF v
<1>5. Passed(p, v)
  BY <1>4 DEF Passed, CursorOK
<1>6. p.cursor <= v.cursor /\ v.cursor <= Len(p.rows) /\ Len(v.requests) <= Interest
  BY <1>2, <1>3, <1>4, LimitsAssumption DEF BoundsOK
<1>7. Asks(p, v)
  BY <1>1, <1>4, <1>5, <1>6 DEF Asks
<1> QED  BY <1>4, <1>7 DEF v

LEMMA DemandAsks ==
  ASSUME NEW d, NEW p, Base(d, p), BoundsOK(p), CursorOK(p), p.owed = {}, NEW visible \in Seq(DOMAIN p.rows)
  PROVE  Asks(p, Demand(p, visible)) /\ (p.pending /\ p.failed => Demand(p, visible).requests = <<>>)
<1> DEFINE none == Nothing(p)
           n == Len(p.rows)
<1>1. p \in PaneRecord /\ RowsOK(d, p)
  BY DEF Base
<1>2. n \in Nat /\ DOMAIN p.rows = 1 .. n /\ p.pending \in BOOLEAN
  BY <1>1, RowTypes DEF PaneRecord
<1>3. Asks(p, none) /\ none.requests = <<>> /\ none.cursor = p.cursor
  BY NothingAsks
<1>4. Demand(p, visible) =
        IF p.pending
        THEN IF p.failed THEN none ELSE SortDemand(p, visible, none)
        ELSE ImageDemand(p, visible, ColumnDemand(p, visible, TypeDemand(p, visible, none)))
  BY DEF Demand, Nothing
<1> HIDE DEF none, n
<1>5. ASSUME p.pending, ~p.failed
      PROVE  Asks(p, SortDemand(p, visible, none))
  <2> DEFINE v == Asked("visible", p, none, visible)
             next == [i \in 1 .. n - none.cursor |-> none.cursor + i]
  <2>1. Asks(p, v) /\ v.cursor = none.cursor
    <3>1. Loop("visible", p)
      BY DEF Loop
    <3> HIDE DEF v
    <3>2. Asks(p, Asked("visible", p, none, visible)) /\ Asked("visible", p, none, visible).cursor = none.cursor
      BY <1>1, <1>3, <3>1, AskedAsks
    <3> QED  BY <3>2 DEF v
  <2>2. none.cursor \in Nat /\ none.cursor <= n
    BY <1>3 DEF Asks, AskRecord, n
  <2>3. next \in Seq(DOMAIN p.rows) /\ \A k \in DOMAIN next : next[k] = none.cursor + k
    <3>1. n - none.cursor \in Nat
      BY <1>2, <2>2
    <3>2. \A i \in 1 .. n - none.cursor : none.cursor + i \in DOMAIN p.rows
      BY <1>2, <2>2
    <3> QED  BY <3>1, <3>2
  <2>4. SortDemand(p, visible, none) = Asked("next", p, v, next)
    BY DEF SortDemand, n
  <2> HIDE DEF v, next
  <2>5. Asks(p, Asked("next", p, v, next))
    <3>1. Loop("next", p)
      BY DEF Loop
    <3>2. \A k \in DOMAIN next : next[k] = v.cursor + k
      BY <2>1, <2>3
    <3> QED  BY <1>1, <2>1, <2>3, <3>1, <3>2, AskedAsks
  <2> QED  BY <2>4, <2>5
<1>6. ASSUME ~p.pending
      PROVE  Asks(p, ImageDemand(p, visible, ColumnDemand(p, visible, TypeDemand(p, visible, none))))
  <2> DEFINE all == visible \o [i \in DOMAIN p.rows |-> i]
             types == TypeDemand(p, visible, none)
             columns == ColumnDemand(p, visible, types)
  <2>1. [i \in DOMAIN p.rows |-> i] \in Seq(DOMAIN p.rows)
    BY <1>2
  <2>2. all \in Seq(DOMAIN p.rows)
    BY <2>1, ConcatProperties
  <2>3. types = Asked("type", p, none, all)
    BY DEF TypeDemand
  <2> HIDE DEF all
  <2>4. Asks(p, Asked("type", p, none, all))
    BY <1>1, <1>3, <1>6, <2>2, AskedAsks DEF Loop
  <2>5. Asks(p, types)
    BY <2>3, <2>4
  <2> HIDE DEF types
  <2>6. Asks(p, Asked("column", p, types, visible))
    BY <1>1, <1>6, <2>5, AskedAsks DEF Loop
  <2>7. Asks(p, columns)
    BY <2>5, <2>6 DEF ColumnDemand
  <2> HIDE DEF columns
  <2>8. Asks(p, Asked("image", p, columns, visible))
    BY <1>1, <1>6, <2>7, AskedAsks DEF Loop
  <2> QED  BY <2>8 DEF ImageDemand, columns, types
<1> QED  BY <1>3, <1>4, <1>5, <1>6

\* Another size of the images empties the cache.
LEMMA ResizedOK ==
  ASSUME NEW d, NEW p, NEW w \in Seq(Answer), PaneOK(d, p, w)
  PROVE  PaneOK(d, Resized(p), w) /\ Resized(p).rows = p.rows
<1>1. CASE p.size = p.wanted
  BY <1>1 DEF Resized
<1>2. CASE p.size # p.wanted
  <2> DEFINE c == Cancelled(p)
             q == [Emptied(c) EXCEPT !.size = p.wanted]
  <2>1. p \in PaneRecord /\ Base(d, p) /\ SortOK(p) /\ p.wanted \in Nat
    BY DEF PaneOK, Base, PaneRecord
  <2>2. PaneOK(d, c, w)
    BY <2>1, CancelledOK
  <2>3. /\ c \in PaneRecord /\ c.rows = p.rows
        /\ c.queue = <<>> /\ c.results = <<>> /\ c.fresh = FALSE
        /\ c.interest = <<>> /\ c.owed = {} /\ c.cursor = 0 /\ c.order = NoOrder
    BY <2>1, CancelledIs
  <2>4. Resized(p) = q
    BY <1>2 DEF Resized
  <2> HIDE DEF c
  <2>5. <<>> \in Seq(Entry) /\ <<>> \in Seq(Image) /\ Len(<<>>) = 0 /\ DOMAIN <<>> = {}
    OBVIOUS
  <2>6. q = [c EXCEPT !.cache = <<>>, !.images = <<>>, !.size = p.wanted]
    BY <2>3 DEF Emptied, PaneRecord
  <2> HIDE DEF q
  <2>7. /\ q \in PaneRecord
        /\ q.rows = c.rows /\ q.phase = c.phase /\ q.watch = c.watch /\ q.key = c.key
        /\ q.pending = c.pending /\ q.failed = c.failed
        /\ q.queue = c.queue /\ q.results = c.results /\ q.fresh = c.fresh
        /\ q.interest = c.interest /\ q.owed = c.owed /\ q.cursor = c.cursor /\ q.order = c.order
        /\ q.cache = <<>> /\ q.images = <<>>
    BY <2>1, <2>3, <2>5, <2>6 DEF PaneRecord
  <2>8. RowsOK(d, c) /\ SortOK(c)
    BY <2>2 DEF PaneOK, Base
  <2>9. RowsOK(d, q)
    BY <2>7, <2>8 DEF RowsOK
  <2>10. CacheOK(q.cache, q.images) /\ ImagesOK(q, q.cache, q.images)
    BY <2>5, <2>7, LimitsAssumption DEF CacheOK, ImagesOK
  <2>11. Lookups(q, w)
    BY <2>3, <2>7, CancelledLookups
  <2>12. SortOK(q)
    BY <2>7, <2>8, SameSort
  <2> QED  BY <2>3, <2>4, <2>7, <2>9, <2>10, <2>11, <2>12 DEF PaneOK, Base
<1> QED  BY <1>1, <1>2

\* Another interest owes nothing; the answers that still come are dropped.
LEMMA InterestedOK ==
  ASSUME NEW d, NEW p, NEW w \in Seq(Answer), PaneOK(d, p, w),
         NEW visible \in Seq(DOMAIN p.rows), Len(visible) <= WindowRows
  PROVE  LET q == Interested(p, visible) IN
         PaneOK(d, q, w) /\ q.rows = p.rows /\ (q = p \/ q.owed = {})
<1> DEFINE interest == [i \in DOMAIN visible |-> IconKey(p, p.rows[visible[i]])]
           q == [p EXCEPT !.interest = interest, !.owed = {}, !.tried = {}, !.cursor = 0, !.order = NoOrder]
<1>1. p \in PaneRecord /\ Base(d, p) /\ RowsOK(d, p) /\ SortOK(p) /\ Lookups(p, w)
  BY DEF PaneOK, Base
<1>2. DOMAIN visible = 1 .. Len(visible) /\ Len(visible) \in Nat /\ \A i \in DOMAIN visible : visible[i] \in DOMAIN p.rows
  OBVIOUS
<1>3. interest \in Seq(Key) /\ Len(interest) = Len(visible)
  <2>1. \A i \in 1 .. Len(visible) : IconKey(p, p.rows[visible[i]]) \in Key
    BY <1>1, <1>2, KeysOfRow
  <2> QED  BY <1>2, <2>1
<1>4. Interested(p, visible) = IF interest = p.interest THEN p ELSE q
  BY DEF Interested
<1> HIDE DEF interest
<1>5. NoOrder \in Saved /\ {} \in SUBSET Request /\ {} \in SUBSET Key /\ 0 \in Nat
  BY NoOrderSaved
<1>6. /\ q \in PaneRecord
      /\ q.rows = p.rows /\ q.phase = p.phase /\ q.watch = p.watch /\ q.key = p.key
      /\ q.pending = p.pending /\ q.failed = p.failed /\ q.size = p.size
      /\ q.cache = p.cache /\ q.images = p.images
      /\ q.queue = p.queue /\ q.results = p.results /\ q.fresh = p.fresh
      /\ q.interest = interest /\ q.owed = {} /\ q.cursor = 0 /\ q.order = NoOrder
  <2> DEFINE s == [p EXCEPT !.interest = interest, !.owed = {}, !.tried = {}]
  <2>1. /\ s \in PaneRecord
        /\ s.rows = p.rows /\ s.phase = p.phase /\ s.watch = p.watch /\ s.key = p.key
        /\ s.pending = p.pending /\ s.failed = p.failed /\ s.size = p.size
        /\ s.cache = p.cache /\ s.images = p.images
        /\ s.queue = p.queue /\ s.results = p.results /\ s.fresh = p.fresh
        /\ s.interest = interest /\ s.owed = {}
    BY <1>1, <1>3, <1>5 DEF PaneRecord
  <2>2. q = [s EXCEPT !.cursor = 0, !.order = NoOrder]
    BY <1>1 DEF PaneRecord
  <2> HIDE DEF s, q
  <2> QED  BY <1>5, <2>1, <2>2 DEF PaneRecord
<1> HIDE DEF q
<1>7. Base(d, q) /\ SortOK(q)
  BY <1>1, <1>6, SameBase, SameSort
<1>8. Lookups(q, w)
  <2>1. IsFiniteSet({}) /\ Cardinality({}) = 0
    BY FS_EmptySet
  <2>2. BoundsOK(q)
    BY <1>1, <1>3, <1>6, <2>1, RowTypes, LimitsAssumption DEF Lookups, BoundsOK
  <2>3. AnswersOK(q, w)
    BY <1>1, <1>6, FollowsSame, AnswersStay DEF Lookups
  <2>4. Coming(q, w) /\ CursorOK(q) /\ OrderOK(q)
    BY <1>6 DEF Coming, CursorOK, OrderOK
  <2> QED  BY <2>2, <2>3, <2>4 DEF Lookups
<1>9. PaneOK(d, q, w)
  BY <1>7, <1>8 DEF PaneOK
<1> QED  BY <1>4, <1>6, <1>9

-----------------------------------------------------------------------------
(* request_list_images.  *)

LEMMA ToSetSize ==
  ASSUME NEW s \in Seq(Request)
  PROVE  /\ ToSet(s) \in SUBSET Request /\ IsFiniteSet(ToSet(s)) /\ Cardinality(ToSet(s)) <= Len(s)
         /\ \A x : x \in ToSet(s) <=> \E i \in DOMAIN s : s[i] = x
<1>1. DOMAIN s = 1 .. Len(s) /\ Len(s) \in Nat
  OBVIOUS
<1>2. IsFiniteSet(1 .. Len(s)) /\ Cardinality(1 .. Len(s)) = Len(s)
  BY <1>1, FS_Interval
<1>3. s \in Surjection(1 .. Len(s), ToSet(s))
  BY <1>1 DEF Surjection, ToSet
<1>4. IsFiniteSet(ToSet(s)) /\ Cardinality(ToSet(s)) <= Len(s)
  BY <1>2, <1>3, FS_Surjection
<1>5. ToSet(s) \in SUBSET Request /\ \A x : x \in ToSet(s) <=> \E i \in DOMAIN s : s[i] = x
  BY DEF ToSet
<1> QED  BY <1>4, <1>5

\* The pane once the window of requests v is made up.
Marked(q, v) == [q EXCEPT !.cursor = v.cursor, !.tried = v.tried, !.cache = v.cache]

LEMMA MarkedIs ==
  ASSUME NEW q \in PaneRecord, NEW v, Asks(q, v), NEW r, r = Marked(q, v)
  PROVE  /\ r \in PaneRecord
         /\ r.rows = q.rows /\ r.phase = q.phase /\ r.watch = q.watch /\ r.key = q.key
         /\ r.pending = q.pending /\ r.failed = q.failed /\ r.order = q.order
         /\ r.interest = q.interest /\ r.owed = q.owed /\ r.size = q.size /\ r.images = q.images
         /\ r.queue = q.queue /\ r.results = q.results /\ r.fresh = q.fresh
         /\ r.cursor = v.cursor /\ r.cache = v.cache
<1>1. v.cursor \in Nat /\ v.tried \in SUBSET Key /\ v.cache \in Seq(Entry)
  BY DEF Asks, AskRecord
<1>2. r = [q EXCEPT !.cursor = v.cursor, !.tried = v.tried, !.cache = v.cache]
  BY DEF Marked
<1> QED  BY <1>1, <1>2 DEF PaneRecord

\* It is as good as before, but for the rows the cursor passed.
LEMMA MarkedOK ==
  ASSUME NEW d, NEW q, NEW w \in Seq(Answer), PaneOK(d, q, w), q.owed = {}, NEW v, Asks(q, v), NEW r, r = Marked(q, v)
  PROVE  /\ Base(d, r) /\ SortOK(r) /\ OrderOK(r) /\ BoundsOK(r) /\ AnswersOK(r, w)
         /\ v.requests = <<>> => PaneOK(d, r, w)
<1>1. q \in PaneRecord /\ Base(d, q) /\ RowsOK(d, q) /\ SortOK(q) /\ Lookups(q, w)
  BY DEF PaneOK, Base
<1>2. /\ r \in PaneRecord
      /\ r.rows = q.rows /\ r.phase = q.phase /\ r.watch = q.watch /\ r.key = q.key
      /\ r.pending = q.pending /\ r.failed = q.failed /\ r.order = q.order
      /\ r.interest = q.interest /\ r.owed = q.owed /\ r.size = q.size /\ r.images = q.images
      /\ r.queue = q.queue /\ r.results = q.results /\ r.fresh = q.fresh
      /\ r.cursor = v.cursor /\ r.cache = v.cache
  BY <1>1, MarkedIs
<1>3. Base(d, r)
  <2>1. CacheOK(r.cache, r.images)
    BY <1>2 DEF Asks
  <2>2. RowsOK(d, r)
    BY <1>1, <1>2 DEF RowsOK
  <2>3. ImagesOK(r, r.cache, r.images)
    BY <1>2 DEF Asks, ImagesOK, KeyOK, ReadOK
  <2> QED  BY <1>2, <2>1, <2>2, <2>3 DEF Base
<1>4. SortOK(r)
  BY <1>1, <1>2, SameSort
<1>5. OrderOK(r)
  <2>1. Order(r) = Order(q)
    BY <1>2 DEF Order, ByProperty
  <2>2. q.cursor <= r.cursor /\ q.cursor \in Nat /\ r.cursor \in Nat /\ Len(q.rows) \in Nat
    BY <1>1, <1>2, RowTypes, LookupTypes DEF Asks
  <2>3. OrderOK(q)
    BY <1>1 DEF Lookups
  <2>4. q.cursor >= Len(q.rows) => r.cursor >= Len(r.rows)
    BY <1>2, <2>2
  <2> QED  BY <1>2, <2>1, <2>3, <2>4 DEF OrderOK
<1>6. BoundsOK(r)
  BY <1>1, <1>2 DEF Lookups, BoundsOK, Asks
<1>7. AnswersOK(r, w)
  BY <1>1, <1>2, FollowsSame, AnswersStay DEF Lookups
<1>8. ASSUME v.requests = <<>>
      PROVE  PaneOK(d, r, w)
  <2>1. \A request : ~Requesting(v, request)
    BY <1>8 DEF Requesting
  <2>2. CursorOK(r)
    <3> SUFFICES ASSUME r.pending, ~r.failed, r.watch # "recovering", NEW i \in 1 .. r.cursor
                 PROVE  Resolved(r, i)
      BY DEF CursorOK
    <3>1. i \in 1 .. v.cursor /\ q.pending /\ ~q.failed /\ q.watch # "recovering"
      BY <1>2
    <3>2. Resolved(q, i)
      BY <2>1, <3>1 DEF Asks, Passed
    <3> QED  BY <1>2, <3>2 DEF Resolved
  <2>3. Coming(r, w)
    BY <1>2 DEF Coming
  <2> QED  BY <1>3, <1>4, <1>5, <1>6, <1>7, <2>2, <2>3 DEF PaneOK, Lookups
<1> QED  BY <1>3, <1>4, <1>5, <1>6, <1>7, <1>8

\* The worker takes the window of requests.
LEMMA OwedOK ==
  ASSUME NEW d, NEW q, NEW w \in Seq(Answer), PaneOK(d, q, w), q.owed = {}, NEW v, Asks(q, v),
         v.requests # <<>>, q.pending /\ q.failed => v.requests = <<>>
  PROVE  PaneOK(d, [Quiet(Marked(q, v)) EXCEPT !.owed = ToSet(v.requests), !.queue = v.requests], w)
<1> DEFINE r == Marked(q, v)
           s == Quiet(r)
           t == [s EXCEPT !.owed = ToSet(v.requests), !.queue = v.requests]
<1>1. q \in PaneRecord /\ Base(d, q) /\ Lookups(q, w)
  BY DEF PaneOK, Base
<1>2. /\ r \in PaneRecord
      /\ r.rows = q.rows /\ r.phase = q.phase /\ r.watch = q.watch /\ r.key = q.key
      /\ r.pending = q.pending /\ r.failed = q.failed /\ r.order = q.order
      /\ r.interest = q.interest /\ r.owed = q.owed /\ r.size = q.size /\ r.images = q.images
      /\ r.queue = q.queue /\ r.results = q.results /\ r.fresh = q.fresh
      /\ r.cursor = v.cursor /\ r.cache = v.cache
  BY <1>1, MarkedIs
<1>3. Base(d, r) /\ SortOK(r) /\ OrderOK(r) /\ BoundsOK(r) /\ AnswersOK(r, w)
  BY MarkedOK
<1> HIDE DEF r
<1>4. /\ s \in PaneRecord
      /\ s.rows = r.rows /\ s.phase = r.phase /\ s.watch = r.watch /\ s.key = r.key
      /\ s.pending = r.pending /\ s.cursor = r.cursor /\ s.failed = r.failed /\ s.order = r.order
      /\ s.interest = r.interest /\ s.owed = r.owed /\ s.size = r.size
      /\ s.cache = r.cache /\ s.images = r.images
      /\ s.queue = <<>> /\ s.results = <<>> /\ s.fresh = FALSE
  BY <1>2, QuietIs
<1> HIDE DEF s
<1>5. v.requests \in Seq(Request) /\ Len(v.requests) <= Interest
  BY DEF Asks, AskRecord
<1>6. /\ ToSet(v.requests) \in SUBSET Request /\ IsFiniteSet(ToSet(v.requests))
      /\ Cardinality(ToSet(v.requests)) <= Len(v.requests)
      /\ \A x : x \in ToSet(v.requests) <=> \E i \in DOMAIN v.requests : v.requests[i] = x
  BY <1>5, ToSetSize
<1>7. /\ t \in PaneRecord
      /\ t.rows = q.rows /\ t.phase = q.phase /\ t.watch = q.watch /\ t.key = q.key
      /\ t.pending = q.pending /\ t.cursor = v.cursor /\ t.failed = q.failed /\ t.order = q.order
      /\ t.interest = q.interest /\ t.owed = ToSet(v.requests) /\ t.size = q.size
      /\ t.cache = r.cache /\ t.images = r.images
      /\ t.queue = v.requests /\ t.results = <<>> /\ t.fresh = FALSE
  <2>1. /\ t \in PaneRecord
        /\ t.rows = s.rows /\ t.phase = s.phase /\ t.watch = s.watch /\ t.key = s.key
        /\ t.pending = s.pending /\ t.cursor = s.cursor /\ t.failed = s.failed /\ t.order = s.order
        /\ t.interest = s.interest /\ t.owed = ToSet(v.requests) /\ t.size = s.size
        /\ t.cache = s.cache /\ t.images = s.images
        /\ t.queue = v.requests /\ t.results = s.results /\ t.fresh = s.fresh
    BY <1>4, <1>5, <1>6 DEF PaneRecord
  <2> HIDE DEF t
  <2> QED  BY <1>2, <1>4, <2>1
<1> HIDE DEF t
<1>8. Base(d, t) /\ SortOK(t)
  BY <1>2, <1>3, <1>7, SameBase, SameSort
<1>9. BoundsOK(t)
  <2>1. Len(t.results) = 0 /\ Cardinality(t.owed) \in Nat /\ Len(v.requests) \in Nat
    BY <1>5, <1>6, <1>7, FS_CardinalityType
  <2>2. Cardinality(t.owed) <= Interest /\ IsFiniteSet(t.owed)
    BY <1>5, <1>6, <1>7, <2>1, LimitsAssumption
  <2>3. Len(t.interest) <= WindowRows /\ t.cursor <= Len(t.rows)
    BY <1>1, <1>7 DEF Lookups, BoundsOK, Asks
  <2>4. Len(t.queue) <= Interest /\ Len(t.results) <= IconResults
    BY <1>5, <1>7, <2>1, LimitsAssumption
  <2> QED  BY <2>2, <2>3, <2>4 DEF BoundsOK
<1>10. AnswersOK(t, w)
  <2>1. \A i \in DOMAIN t.queue : KeyOK(t, t.queue[i].key)
    BY <1>7 DEF Asks, KeyOK
  <2> QED  BY <1>7, <2>1 DEF AnswersOK
<1>11. Coming(t, w)
  BY <1>6, <1>7 DEF Coming
<1>12. CursorOK(t)
  <2> SUFFICES ASSUME t.pending, ~t.failed, t.watch # "recovering", NEW i \in 1 .. t.cursor
               PROVE  Resolved(t, i) \/ PropertyRequest(t, i, t.key) \in t.owed
    BY DEF CursorOK
  <2>1. Resolved(q, i) \/ Requesting(v, PropertyRequest(q, i, q.key))
    BY <1>7 DEF Asks, Passed
  <2>2. PropertyRequest(t, i, t.key) = PropertyRequest(q, i, q.key)
    BY <1>7 DEF PropertyRequest, IconKey
  <2> QED  BY <1>6, <1>7, <2>1, <2>2 DEF Resolved, Requesting
<1>13. OrderOK(t)
  <2> SUFFICES ASSUME t.order # NoOrder, t.watch # "recovering"
               PROVE  FALSE
    BY DEF OrderOK
  <2>1. q.pending /\ (q.failed \/ q.cursor >= Len(q.rows)) /\ CursorOK(q)
    BY <1>1, <1>7 DEF Lookups, OrderOK
  <2>2. ~q.failed /\ q.cursor >= Len(q.rows)
    BY <2>1
  <2>3. DOMAIN q.rows = 1 .. Len(q.rows) /\ Len(q.rows) \in Nat /\ q.cursor \in Nat
    BY <1>1, RowTypes, LookupTypes
  <2>4. AllResolved(q)
    BY <1>7, <2>1, <2>2, <2>3 DEF AllResolved, CursorOK
  <2> QED  BY <2>1, <2>4 DEF Asks
<1>14. PaneOK(d, t, w)
  BY <1>8, <1>9, <1>10, <1>11, <1>12, <1>13 DEF PaneOK, Lookups
<1> QED  BY <1>14 DEF t, s, r

\* No worker takes it: the sort ends with what it has.
LEMMA RefusedOK ==
  ASSUME NEW d, NEW q, NEW w \in Seq(Answer), PaneOK(d, q, w), q.owed = {}, NEW v, Asks(q, v)
  PROVE  PaneOK(d, [Quiet(Marked(q, v)) EXCEPT !.owed = {}, !.failed = TRUE], w)
<1> DEFINE r == Marked(q, v)
           s == Quiet(r)
           t == [s EXCEPT !.owed = {}, !.failed = TRUE]
<1>1. q \in PaneRecord
  BY DEF PaneOK, Base
<1>2. r \in PaneRecord
  BY <1>1, MarkedIs
<1>3. Base(d, r) /\ SortOK(r) /\ OrderOK(r) /\ BoundsOK(r) /\ AnswersOK(r, w)
  BY MarkedOK
<1> HIDE DEF r
<1>4. /\ s \in PaneRecord
      /\ s.rows = r.rows /\ s.phase = r.phase /\ s.watch = r.watch /\ s.key = r.key
      /\ s.pending = r.pending /\ s.cursor = r.cursor /\ s.failed = r.failed /\ s.order = r.order
      /\ s.interest = r.interest /\ s.owed = r.owed /\ s.size = r.size
      /\ s.cache = r.cache /\ s.images = r.images
      /\ s.queue = <<>> /\ s.results = <<>> /\ s.fresh = FALSE
  BY <1>2, QuietIs
<1> HIDE DEF s
<1>5. /\ t \in PaneRecord
      /\ t.rows = r.rows /\ t.phase = r.phase /\ t.watch = r.watch /\ t.key = r.key
      /\ t.pending = r.pending /\ t.cursor = r.cursor /\ t.failed = TRUE /\ t.order = r.order
      /\ t.interest = r.interest /\ t.owed = {} /\ t.size = r.size
      /\ t.cache = r.cache /\ t.images = r.images
      /\ t.queue = <<>> /\ t.results = <<>> /\ t.fresh = FALSE
  <2>1. /\ t \in PaneRecord
        /\ t.rows = s.rows /\ t.phase = s.phase /\ t.watch = s.watch /\ t.key = s.key
        /\ t.pending = s.pending /\ t.cursor = s.cursor /\ t.failed = TRUE /\ t.order = s.order
        /\ t.interest = s.interest /\ t.owed = {} /\ t.size = s.size
        /\ t.cache = s.cache /\ t.images = s.images
        /\ t.queue = s.queue /\ t.results = s.results /\ t.fresh = s.fresh
    BY <1>4 DEF PaneRecord
  <2> HIDE DEF t
  <2> QED  BY <1>4, <2>1
<1> HIDE DEF t
<1>6. Base(d, t)
  BY <1>2, <1>3, <1>5, SameBase
<1>7. SortOK(t)
  BY <1>3, <1>5 DEF SortOK
<1>8. CursorOK(t)
  BY <1>5 DEF CursorOK
<1>9. OrderOK(t)
  <2>1. Order(t) = Order(r)
    BY <1>5 DEF Order, ByProperty
  <2> QED  BY <1>3, <1>5, <2>1 DEF OrderOK
<1>10. Lookups(t, w)
  BY <1>3, <1>5, <1>8, <1>9, StillLookups DEF BoundsOK
<1>11. PaneOK(d, t, w)
  BY <1>6, <1>7, <1>10 DEF PaneOK
<1> QED  BY <1>11 DEF t, s, r

LEMMA RequestedOK ==
  ASSUME NEW d, NEW p, NEW w \in Seq(Answer), PaneOK(d, p, w), NEW refused,
         NEW visible \in Seq(DOMAIN p.rows), Len(visible) <= WindowRows
  PROVE  PaneOK(d, Requested(p, visible, refused), w)
<1> DEFINE sized == Resized(p)
           q == Interested(sized, visible)
           v == Demand(q, visible)
           r == Marked(q, v)
<1>1. PaneOK(d, sized, w) /\ sized.rows = p.rows
  BY ResizedOK
<1>2. Requested(p, visible, refused) =
        IF q = sized /\ q.owed # {} THEN q
        ELSE IF v.requests = <<>>
        THEN IF r.pending /\ r.phase # "loading" /\ r.cursor >= Len(r.rows) THEN Finished(r)
             ELSE Finished(Quiet(r))
        ELSE IF refused THEN Finished([Quiet(r) EXCEPT !.owed = {}, !.failed = TRUE])
        ELSE [Quiet(r) EXCEPT !.owed = ToSet(v.requests), !.queue = v.requests]
  BY DEF Requested, Marked
<1> HIDE DEF sized
<1>3. visible \in Seq(DOMAIN sized.rows)
  BY <1>1
<1>4. PaneOK(d, q, w) /\ q.rows = sized.rows /\ (q = sized \/ q.owed = {})
  BY <1>1, <1>3, InterestedOK
<1> HIDE DEF q
<1>5. CASE q = sized /\ q.owed # {}
  BY <1>2, <1>4, <1>5
<1>6. CASE q.owed = {}
  <2>1. Base(d, q) /\ BoundsOK(q) /\ CursorOK(q) /\ q \in PaneRecord /\ visible \in Seq(DOMAIN q.rows)
    BY <1>3, <1>4 DEF PaneOK, Lookups, Base
  <2>2. Asks(q, v) /\ (q.pending /\ q.failed => v.requests = <<>>)
    BY <1>6, <2>1, DemandAsks
  <2> HIDE DEF v
  <2>3. v.requests = <<>> => PaneOK(d, r, w)
    BY <1>4, <1>6, <2>2, MarkedOK
  <2>4. r.owed = {}
    BY <1>6, <2>1, <2>2, MarkedIs
  <2> HIDE DEF r
  <2>5. v.requests = <<>> => PaneOK(d, Finished(r), w) /\ PaneOK(d, Finished(Quiet(r)), w)
    BY <2>3, <2>4, QuietOK, FinishedOK
  <2>6. PaneOK(d, [Quiet(r) EXCEPT !.owed = {}, !.failed = TRUE], w)
    BY <1>4, <1>6, <2>2, RefusedOK DEF r
  <2>7. PaneOK(d, Finished([Quiet(r) EXCEPT !.owed = {}, !.failed = TRUE]), w)
    BY <2>6, FinishedOK
  <2>8. v.requests # <<>> =>
          PaneOK(d, [Quiet(r) EXCEPT !.owed = ToSet(v.requests), !.queue = v.requests], w)
    BY <1>4, <1>6, <2>2, OwedOK DEF r
  <2> QED  BY <1>2, <1>6, <2>5, <2>7, <2>8
<1> QED  BY <1>4, <1>5, <1>6

LEMMA VisibleIs ==
  ASSUME NEW p \in PaneRecord
  PROVE  Visible(p) \in Seq(DOMAIN p.rows) /\ Len(Visible(p)) <= WindowRows
<1> DEFINE n == Len(p.rows)
           S == {WindowRows, Interest, n - p.first + 1}
           shown == Min(S)
<1>1. n \in Nat /\ DOMAIN p.rows = 1 .. n
  BY RowTypes
<1>2. p.first \in Nat /\ p.first >= 1
  BY RowsAssumption DEF PaneRecord, Ids
<1>3. shown \in S /\ \A x \in S : shown <= x
  <2> HIDE DEF n
  <2>1. \E x \in S : \A y \in S : x <= y
    <3> DEFINE a == IF WindowRows <= Interest THEN WindowRows ELSE Interest
               b == IF a <= n - p.first + 1 THEN a ELSE n - p.first + 1
    <3>1. b \in S /\ \A y \in S : b <= y
      BY <1>1, <1>2, RowsAssumption, LimitsAssumption
    <3> QED  BY <3>1
  <2>2. shown = CHOOSE x \in S : \A y \in S : x <= y
    BY DEF Min
  <2> HIDE DEF S, shown
  <2> QED  BY <2>1, <2>2
<1>4. shown <= WindowRows /\ shown <= n - p.first + 1 /\ shown \in Int
  BY <1>1, <1>2, <1>3, RowsAssumption, LimitsAssumption
<1>5. Visible(p) = IF shown <= 0 THEN <<>> ELSE [i \in 1 .. shown |-> p.first + i - 1]
  BY DEF Visible
<1> HIDE DEF shown, n
<1>6. CASE shown <= 0
  <2>1. <<>> \in Seq(DOMAIN p.rows) /\ Len(<<>>) = 0
    OBVIOUS
  <2> QED  BY <1>5, <1>6, <2>1, RowsAssumption
<1>7. CASE ~(shown <= 0)
  <2>1. shown \in Nat /\ \A i \in 1 .. shown : p.first + i - 1 \in DOMAIN p.rows
    BY <1>1, <1>2, <1>4, <1>7
  <2>2. Visible(p) = [i \in 1 .. shown |-> p.first + i - 1]
    BY <1>5, <1>7
  <2> QED  BY <1>4, <2>1, <2>2
<1> QED  BY <1>6, <1>7

-----------------------------------------------------------------------------
(* The answers.  *)

\* What holds while answers are taken in, but for where the others are.
Midway(d, p, w) ==
  Base(d, p) /\ BoundsOK(p) /\ AnswersOK(p, w) /\ CursorOK(p) /\ OrderOK(p) /\ SortOK(p)

\* What the answers leave alone.
Beside(p, q) ==
  /\ q.phase = p.phase /\ q.watch = p.watch /\ q.key = p.key
  /\ q.pending = p.pending /\ q.cursor = p.cursor /\ q.failed = p.failed /\ q.order = p.order
  /\ q.interest = p.interest /\ q.size = p.size
  /\ q.queue = p.queue /\ q.results = p.results /\ q.fresh = p.fresh

\* One request less.
Less(p, r) == [p EXCEPT !.owed = @ \ {r.request}]

LEMMA LessIs ==
  ASSUME NEW p \in PaneRecord, NEW r, NEW q, q = Less(p, r)
  PROVE  /\ q \in PaneRecord /\ Beside(p, q) /\ q.owed = p.owed \ {r.request}
         /\ q.rows = p.rows /\ q.cache = p.cache /\ q.images = p.images
<1>1. p.owed \ {r.request} \in SUBSET Request
  BY DEF PaneRecord
<1>2. q = [p EXCEPT !.owed = p.owed \ {r.request}]
  BY DEF Less
<1> QED  BY <1>1, <1>2 DEF PaneRecord, Beside

LEMMA FewerOwed ==
  ASSUME NEW p, NEW q, BoundsOK(p), Beside(p, q), NEW x, q.owed = p.owed \ {x}, Len(q.rows) = Len(p.rows)
  PROVE  BoundsOK(q)
<1>1. IsFiniteSet(p.owed) /\ Cardinality(p.owed) <= Interest
  BY DEF BoundsOK
<1>2. IsFiniteSet(q.owed) /\ Cardinality(q.owed) <= Cardinality(p.owed) /\ Cardinality(q.owed) \in Nat
      /\ Cardinality(p.owed) \in Nat
  <2>1. p.owed \ {x} \in SUBSET p.owed
    OBVIOUS
  <2> QED  BY <1>1, <2>1, FS_Subset, FS_CardinalityType
<1>3. Cardinality(q.owed) <= Interest
  BY <1>1, <1>2, LimitsAssumption
<1> QED  BY <1>2, <1>3 DEF BoundsOK, Beside

\* A property is shown by the row it was read for.
Answered(row, slot, value) == [row EXCEPT !.properties[slot] = value]

LEMMA AnsweredIs ==
  ASSUME NEW row \in Row, NEW slot \in {"type", "sort"}, NEW value \in Value,
         NEW new, new = Answered(row, slot, value)
  PROVE  /\ new \in Row /\ new.id = row.id /\ new.stamp = row.stamp /\ new.look = row.look
         /\ \A s \in {"type", "sort"} : new.properties[s] = IF s = slot THEN value ELSE row.properties[s]
         /\ new.properties.type = IF slot = "type" THEN value ELSE row.properties.type
         /\ new.properties.sort = IF slot = "sort" THEN value ELSE row.properties.sort
<1> DEFINE properties == [row.properties EXCEPT ![slot] = value]
<1>1. row.properties \in [type : Value, sort : Value]
  BY DEF Row
<1> HIDE DEF Value
<1>2. /\ properties \in [type : Value, sort : Value]
      /\ \A s \in {"type", "sort"} : properties[s] = IF s = slot THEN value ELSE row.properties[s]
  BY <1>1
<1>3. new = [row EXCEPT !.properties = properties]
  BY DEF Answered
<1> HIDE DEF properties
<1>4. /\ new \in Row /\ new.id = row.id /\ new.stamp = row.stamp /\ new.look = row.look
      /\ new.properties = properties
  BY <1>2, <1>3 DEF Row
<1> QED  BY <1>2, <1>4

LEMMA SlotIs ==
  ASSUME NEW property
  PROVE  Slot(property) \in {"type", "sort"} /\ (Slot(property) = "type" <=> property = "type")
BY DEF Slot

\* A request for the property of a row, not for an image.
OfRow(request) == request.property # ""

LEMMA OfRowIs ==
  ASSUME NEW request \in Request, OfRow(request)
  PROVE  request.row \in Nat \ {0} /\ request.property \in Keys \cup {"type"}
BY DEF Request, OfRow

LEMMA PropertyAcceptedOK ==
  ASSUME NEW d, NEW p, NEW w \in Seq(Answer), Midway(d, p, w), NEW r \in Answer, AnswerOK(p, r),
         r.request \in p.owed, OfRow(r.request)
  PROVE  LET q == PropertyAccepted(Less(p, r), r) IN
         Midway(d, q, w) /\ Follows(p, q) /\ Beside(p, q) /\ q.owed = p.owed \ {r.request}
<1> DEFINE l == Less(p, r)
           k == r.request.row
           n == Len(p.rows)
           slot == Slot(r.request.property)
           row == p.rows[k]
           value == [state |-> IF r.look = 0 THEN "failed" ELSE "value", of |-> r.request.property, look |-> r.look]
           new == Answered(row, slot, value)
           Not == \/ k > n \/ r.request.key # IconKey(p, row)
                  \/ slot = "sort" /\ r.request.property # p.key
                  \/ row.properties[slot].state # "unresolved"
           t == [l EXCEPT !.rows[k].properties[slot] = value]
           q == PropertyAccepted(l, r)
<1>1. p \in PaneRecord /\ RowsOK(d, p)
  BY DEF Midway, Base
<1>2. /\ l \in PaneRecord /\ Beside(p, l) /\ l.owed = p.owed \ {r.request}
      /\ l.rows = p.rows /\ l.cache = p.cache /\ l.images = p.images
  BY <1>1, LessIs
<1>3. q = IF Not THEN l ELSE t
  <2>1. IconKey(l, row) = IconKey(p, row)
    BY <1>2 DEF IconKey, Beside
  <2>2. l.rows[k] = row /\ Len(l.rows) = Len(p.rows) /\ l.key = p.key
    BY <1>2 DEF Beside
  <2> HIDE DEF l
  <2> QED  BY <2>1, <2>2 DEF PropertyAccepted
<1> HIDE DEF l
<1>4. r.request \in Request /\ r.look \in Nat /\ k \in Nat \ {0} /\ r.request.property \in Keys \cup {"type"}
  <2>1. r.request \in Request /\ r.look \in Nat
    BY DEF Answer
  <2> QED  BY <2>1, OfRowIs
<1>5. slot \in {"type", "sort"} /\ (slot = "type" <=> r.request.property = "type")
      /\ Slot(p.key) \in {"type", "sort"} /\ (Slot(p.key) = "type" <=> p.key = "type")
  BY SlotIs
<1>6. n \in Nat /\ DOMAIN p.rows = 1 .. n /\ p.cursor \in Nat /\ p.cursor <= n
  BY <1>1, RowTypes, LookupTypes DEF Midway, BoundsOK
\* A request about a row is the one it asks for.
<1>7. ASSUME NEW i \in DOMAIN p.rows, PropertyRequest(p, i, p.key) = r.request
      PROVE  i = k /\ r.request.key = IconKey(p, row) /\ r.request.property = p.key
  <2>1. PropertyRequest(p, i, p.key).row = i /\ PropertyRequest(p, i, p.key).property = p.key
        /\ PropertyRequest(p, i, p.key).key = IconKey(p, p.rows[i])
    BY DEF PropertyRequest
  <2> QED  BY <1>7, <2>1
<1> HIDE DEF slot, n
<1>8. CASE Not
  <2>1. q = l
    BY <1>3, <1>8
  <2>2. Base(d, l) /\ SortOK(l)
    BY <1>2, SameBase, SameSort DEF Midway, Beside
  <2>3. BoundsOK(l)
    BY <1>2, FewerOwed DEF Midway
  <2>4. AnswersOK(l, w) /\ Follows(p, l)
    BY <1>1, <1>2, FollowsSame, AnswersStay DEF Midway, Beside
  <2>5. OrderOK(l)
    BY <1>2 DEF Midway, OrderOK, Beside
  <2>6. CursorOK(l)
    <3> SUFFICES ASSUME l.pending, ~l.failed, l.watch # "recovering", NEW i \in 1 .. l.cursor
                 PROVE  Resolved(l, i) \/ PropertyRequest(l, i, l.key) \in l.owed
      BY DEF CursorOK
    <3>1. i \in DOMAIN p.rows /\ i \in 1 .. p.cursor /\ l.cursor = p.cursor
      <4>1. l.cursor = p.cursor
        BY <1>2 DEF Beside
      <4>2. i \in 1 .. p.cursor
        BY <4>1
      <4> QED  BY <1>6, <4>1, <4>2
    <3>2. Resolved(p, i) \/ PropertyRequest(p, i, p.key) \in p.owed
      BY <1>2, <3>1 DEF Midway, CursorOK, Beside
    <3>3. PropertyRequest(l, i, l.key) = PropertyRequest(p, i, p.key)
      BY <1>2 DEF PropertyRequest, IconKey, Beside
    <3>4. Resolved(l, i) <=> Resolved(p, i)
      BY <1>2 DEF Resolved, Beside
    <3>5. PropertyRequest(p, i, p.key) = r.request => Resolved(p, i)
      <4>1. ASSUME PropertyRequest(p, i, p.key) = r.request
            PROVE  Resolved(p, i)
        <5>1. i = k /\ r.request.key = IconKey(p, row) /\ r.request.property = p.key
          BY <1>7, <3>1, <4>1
        <5>2. row.properties[slot].state # "unresolved"
          <6>1. ~(k > n)
            BY <1>6, <3>1, <5>1
          <6> HIDE DEF row, k
          <6> QED  BY <1>8, <5>1, <6>1
        <5> QED  BY <5>1, <5>2 DEF Resolved, slot
      <4> QED  BY <4>1
    <3> QED  BY <1>2, <3>2, <3>3, <3>4, <3>5
  <2> QED  BY <1>2, <2>1, <2>2, <2>3, <2>4, <2>5, <2>6 DEF Midway, l
<1>9. CASE ~Not
  <2>1. q = t
    BY <1>3, <1>9
  <2>2. /\ k \in DOMAIN p.rows /\ row \in Row /\ r.request.key = IconKey(p, row)
        /\ row.properties[slot].state = "unresolved"
        /\ slot = "sort" => r.request.property = p.key
    <3>1. k \in DOMAIN p.rows
      <4>1. ~(k > n)
        BY <1>9
      <4> HIDE DEF k
      <4> QED  BY <1>4, <1>6, <4>1
    <3>2. row \in Row
      BY <1>1, <3>1, RowTypes
    <3>3. /\ r.request.key = IconKey(p, row) /\ row.properties[slot].state = "unresolved"
          /\ slot = "sort" => r.request.property = p.key
      <4> HIDE DEF row, k
      <4> QED  BY <1>9
    <3> QED  BY <3>1, <3>2, <3>3
  <2>3. value \in Value
    BY <1>4 DEF Value
  <2> HIDE DEF value
  <2>4. /\ new \in Row /\ new.id = row.id /\ new.stamp = row.stamp /\ new.look = row.look
        /\ \A s \in {"type", "sort"} : new.properties[s] = IF s = slot THEN value ELSE row.properties[s]
        /\ new.properties.type = IF slot = "type" THEN value ELSE row.properties.type
        /\ new.properties.sort = IF slot = "sort" THEN value ELSE row.properties.sort
    <3>1. new = Answered(row, slot, value)
      OBVIOUS
    <3> HIDE DEF new, row, k
    <3> QED  BY <1>5, <2>2, <2>3, <3>1, AnsweredIs
  <2> DEFINE rows == [p.rows EXCEPT ![k] = new]
  <2>5. t = [l EXCEPT !.rows = rows]
    <3>1. l.rows[k] = row /\ l.rows = p.rows
      BY <1>2
    <3>2. [l.rows EXCEPT ![k].properties[slot] = value] = [l.rows EXCEPT ![k] = new]
      BY <3>1 DEF Answered
    <3> QED  BY <1>2, <3>2
  <2> HIDE DEF new, t, q
  <2>6. /\ rows \in Seq(Row) /\ Len(rows) = n /\ DOMAIN rows = DOMAIN p.rows
        /\ \A i \in DOMAIN p.rows : rows[i] = IF i = k THEN new ELSE p.rows[i]
    <3>1. p.rows \in Seq(Row)
      BY <1>1, RowTypes
    <3>2. Len(rows) = Len(p.rows) /\ rows \in Seq(Row)
      <4> HIDE DEF row, k
      <4> QED  BY <2>2, <2>4, <3>1
    <3> HIDE DEF row, k
    <3> QED  BY <2>2, <2>4, <3>1, <3>2 DEF n
  <2> HIDE DEF rows
  <2>7. /\ q \in PaneRecord /\ Beside(p, q) /\ q.owed = p.owed \ {r.request}
        /\ q.rows = rows /\ q.cache = p.cache /\ q.images = p.images
    <3>1. /\ q \in PaneRecord /\ Beside(l, q) /\ q.owed = l.owed
          /\ q.rows = rows /\ q.cache = l.cache /\ q.images = l.images
      BY <1>2, <2>1, <2>5, <2>6 DEF PaneRecord, Beside
    <3> QED  BY <1>2, <3>1 DEF Beside
  <2>8. \A i \in DOMAIN p.rows : /\ rows[i].id = p.rows[i].id /\ rows[i].stamp = p.rows[i].stamp
                                 /\ rows[i].look = p.rows[i].look
    BY <2>4, <2>6
  <2>9. Follows(p, q)
    <3>1. Len(q.rows) = n /\ DOMAIN q.rows = DOMAIN p.rows /\ q.phase = p.phase
      BY <2>6, <2>7 DEF Beside
    <3>2. \A i \in DOMAIN q.rows : /\ q.rows[i].id = p.rows[i].id /\ q.rows[i].stamp = p.rows[i].stamp
                                   /\ q.rows[i].look = p.rows[i].look
      <4> HIDE DEF row, k
      <4> QED  BY <2>7, <2>8, <3>1
    <3> QED  BY <1>6, <3>1, <3>2 DEF Follows
  <2>10. RowOK(d, p.key, new)
    <3>1. RowOK(d, p.key, row)
      BY <1>1, <2>2 DEF RowsOK
    <3>2. r.look # 0 => r.look >= row.look
      <4>1. IconKey(p, row).id = row.id /\ IconKey(p, row).stamp = row.stamp
        BY DEF IconKey
      <4> QED  BY <2>2, <4>1 DEF AnswerOK, ReadOK
    <3>3. value.state = "value" => value.look >= row.look /\ value.of = r.request.property
      BY <3>2 DEF value
    <3>4. slot = "type" => r.request.property = "type"
      BY <1>5
    <3> HIDE DEF row
    <3> QED  BY <1>5, <2>2, <2>4, <3>1, <3>3, <3>4 DEF RowOK
  <2>11. RowsOK(d, q)
    <3>1. \A i \in DOMAIN p.rows : RowOK(d, p.key, rows[i])
      <4> HIDE DEF row, k
      <4> QED  BY <1>1, <2>6, <2>10 DEF RowsOK
    <3> HIDE DEF row, k
    <3>2. q.phase = p.phase /\ q.key = p.key /\ DOMAIN q.rows = DOMAIN p.rows /\ Len(q.rows) = n
      BY <2>6, <2>7 DEF Beside
    <3>3. \A i \in DOMAIN q.rows : RowOK(d, q.key, q.rows[i]) /\ q.rows[i].id = p.rows[i].id
      BY <2>7, <2>8, <3>1, <3>2
    <3> QED  BY <1>1, <3>2, <3>3 DEF RowsOK
  <2>12. Base(d, q)
    BY <2>7, <2>9, <2>11, BaseFollows DEF Midway
  <2>13. BoundsOK(q)
    BY <2>6, <2>7, FewerOwed DEF Midway, n
  <2>14. AnswersOK(q, w)
    BY <1>1, <2>7, <2>9, AnswersStay DEF Midway, Beside
  <2>15. OrderOK(q)
    <3>1. ~(p.order # NoOrder /\ p.watch # "recovering")
      BY DEF Midway, OrderOK
    <3> QED  BY <2>7, <3>1 DEF OrderOK, Beside
\* Other rows and another slot than the sort's are as they were.
  <2>16. ASSUME NEW i \in DOMAIN p.rows
         PROVE  /\ Resolved(p, i) => /\ Resolved(q, i)
                                     /\ q.rows[i].properties[Slot(p.key)] = p.rows[i].properties[Slot(p.key)]
                /\ PropertyRequest(p, i, p.key) = r.request => Resolved(q, i)
    <3>1. CASE i # k
      <4>1. q.rows[i] = p.rows[i] /\ q.key = p.key
        BY <2>6, <2>7, <3>1 DEF Beside
      <4>2. PropertyRequest(p, i, p.key) # r.request
        BY <1>7, <3>1
      <4> QED  BY <4>1, <4>2 DEF Resolved
    <3>2. CASE i = k
      <4>1. q.rows[i] = new /\ q.key = p.key /\ p.rows[i] = row
        BY <2>6, <2>7, <3>2 DEF Beside
      <4>2. value.state # "unresolved"
        BY DEF value
      <4>3. Resolved(p, i) => Slot(p.key) # slot
        BY <2>2, <3>2 DEF Resolved
      <4>4. new.properties[Slot(p.key)] = IF Slot(p.key) = slot THEN value ELSE row.properties[Slot(p.key)]
        BY <1>5, <2>4
      <4>5. PropertyRequest(p, i, p.key) = r.request => Slot(p.key) = slot
        BY <1>7 DEF slot
      <4> QED  BY <4>1, <4>2, <4>3, <4>4, <4>5 DEF Resolved
    <3> QED  BY <3>1, <3>2
  <2>17. CursorOK(q)
    <3> SUFFICES ASSUME q.pending, ~q.failed, q.watch # "recovering", NEW i \in 1 .. q.cursor
                 PROVE  Resolved(q, i) \/ PropertyRequest(q, i, q.key) \in q.owed
      BY DEF CursorOK
    <3>1. i \in DOMAIN p.rows /\ i \in 1 .. p.cursor
      <4>1. q.cursor = p.cursor
        BY <2>7 DEF Beside
      <4>2. i \in 1 .. p.cursor
        BY <4>1
      <4> QED  BY <1>6, <4>2
    <3>2. Resolved(p, i) \/ PropertyRequest(p, i, p.key) \in p.owed
      BY <2>7, <3>1 DEF Midway, CursorOK, Beside
    <3>3. PropertyRequest(q, i, q.key) = PropertyRequest(p, i, p.key)
      BY <2>7, <2>8, <3>1 DEF PropertyRequest, IconKey, Beside
    <3> QED  BY <2>7, <2>16, <3>1, <3>2, <3>3
  <2>18. SortOK(q)
    <3>1. SortOK(p) /\ q.phase = p.phase /\ q.watch = p.watch /\ q.key = p.key
          /\ q.pending = p.pending /\ q.failed = p.failed
      BY <2>7 DEF Midway, Beside
    <3>2. DOMAIN q.rows = DOMAIN p.rows /\ \A i \in DOMAIN p.rows : q.rows[i].id = p.rows[i].id
      BY <2>6, <2>7, <2>8
    <3>3. ASSUME ~p.pending, ~p.failed, p.key # "name"
          PROVE  /\ \A i \in DOMAIN q.rows : Resolved(q, i)
                 /\ q.watch # "recovering" =>
                      \A i, j \in DOMAIN q.rows : i < j => RowLess(q.key, q.rows[i], q.rows[j])
      <4>1. \A i \in DOMAIN p.rows :
              Resolved(q, i) /\ q.rows[i].properties[Slot(p.key)] = p.rows[i].properties[Slot(p.key)]
        BY <2>16, <3>1, <3>3 DEF SortOK
      <4>2. \A i, j \in DOMAIN p.rows :
              RowLess(p.key, q.rows[i], q.rows[j]) <=> RowLess(p.key, p.rows[i], p.rows[j])
        BY <3>2, <4>1 DEF RowLess
      <4> QED  BY <3>1, <3>2, <3>3, <4>1, <4>2 DEF SortOK
    <3>4. q.key = "name" /\ q.watch # "recovering" =>
            \A i, j \in DOMAIN q.rows : i < j => q.rows[i].id < q.rows[j].id
      BY <3>1, <3>2 DEF SortOK
    <3>5. (q.watch = "recovering" => q.phase = "complete") /\ (q.pending => q.key # "name") /\ (q.phase = "loading" /\ q.key # "name" => q.pending)
      BY <3>1 DEF SortOK
    <3>6. ~q.pending /\ ~q.failed /\ q.key # "name" =>
            /\ \A i \in DOMAIN q.rows : Resolved(q, i)
            /\ q.watch # "recovering" =>
                 \A i, j \in DOMAIN q.rows : i < j => RowLess(q.key, q.rows[i], q.rows[j])
      BY <3>1, <3>3
    <3> QED  BY <3>4, <3>5, <3>6 DEF SortOK
  <2>19. Midway(d, q, w)
    BY <2>12, <2>13, <2>14, <2>15, <2>17, <2>18 DEF Midway
  <2> QED  BY <2>7, <2>9, <2>19 DEF q, l
<1> QED  BY <1>8, <1>9

LEMMA ImageAcceptedOK ==
  ASSUME NEW d, NEW p, NEW w \in Seq(Answer), Midway(d, p, w), NEW r \in Answer, AnswerOK(p, r),
         r.request \in p.owed, ~OfRow(r.request)
  PROVE  LET q == ImageAccepted(Less(p, r), r) IN
         Midway(d, q, w) /\ Follows(p, q) /\ Beside(p, q) /\ q.owed = p.owed \ {r.request}
<1> DEFINE l == Less(p, r)
           key == r.request.key
           t == Stored(l, key, r.look)
           q == ImageAccepted(l, r)
<1>1. p \in PaneRecord /\ RowsOK(d, p)
  BY DEF Midway, Base
<1>2. /\ l \in PaneRecord /\ Beside(p, l) /\ l.owed = p.owed \ {r.request}
      /\ l.rows = p.rows /\ l.cache = p.cache /\ l.images = p.images
  BY <1>1, LessIs
<1>3. q = l \/ (q = t /\ r.look # 0)
  BY DEF ImageAccepted
<1> HIDE DEF l
<1>4. key \in Key /\ r.look \in Nat /\ r.request \in Request
  BY DEF Answer, Request
<1>5. KeyOK(p, key) /\ (r.look # 0 => ReadOK(p, key, r.look))
  BY DEF AnswerOK
<1>6. Base(d, l)
  BY <1>2, SameBase DEF Midway, Beside
<1>7. /\ Base(d, q) /\ Beside(p, q) /\ q.owed = p.owed \ {r.request} /\ q.rows = p.rows
  <2>1. CASE q = l
    BY <1>2, <1>6, <2>1
  <2>2. CASE q = t /\ r.look # 0
    <3>1. CacheOK(l.cache, l.images) /\ ImagesOK(l, l.cache, l.images) /\ RowsOK(d, l)
      BY <1>6 DEF Base
    <3>2. /\ ButCache(l, t) /\ CacheOK(t.cache, t.images)
          /\ \A j \in DOMAIN t.cache :
               \/ t.cache[j].key = key /\ t.images[t.cache[j].slot].look = r.look
               \/ \E k \in DOMAIN l.cache : /\ t.cache[j].key = l.cache[k].key
                                            /\ t.images[t.cache[j].slot] = l.images[l.cache[k].slot]
      <4>1. t = Stored(l, key, r.look)
        OBVIOUS
      <4> HIDE DEF key, t
      <4> QED  BY <1>2, <1>4, <3>1, <4>1, StoredIs
    <3> HIDE DEF t, key, q
    <3>3. t \in PaneRecord /\ Beside(l, t) /\ t.owed = l.owed /\ t.rows = l.rows
      BY <3>2 DEF ButCache, Beside
    <3>4. Beside(p, t) /\ t.rows = p.rows /\ t.phase = p.phase /\ t.key = p.key
      BY <1>2, <3>3 DEF Beside
    <3>5. RowsOK(d, t)
      BY <1>1, <3>4 DEF RowsOK
    <3>6. ImagesOK(t, t.cache, t.images)
      <4> SUFFICES ASSUME NEW j \in DOMAIN t.cache
                   PROVE  KeyOK(t, t.cache[j].key) /\ ReadOK(t, t.cache[j].key, t.images[t.cache[j].slot].look)
        BY DEF ImagesOK
      <4>1. CASE t.cache[j].key = key /\ t.images[t.cache[j].slot].look = r.look
        BY <1>5, <2>2, <3>4, <4>1 DEF KeyOK, ReadOK
      <4>2. CASE \E k \in DOMAIN l.cache : /\ t.cache[j].key = l.cache[k].key
                                           /\ t.images[t.cache[j].slot] = l.images[l.cache[k].slot]
        <5>1. PICK k \in DOMAIN l.cache : /\ t.cache[j].key = l.cache[k].key
                                          /\ t.images[t.cache[j].slot] = l.images[l.cache[k].slot]
          BY <4>2
        <5>2. KeyOK(l, l.cache[k].key) /\ ReadOK(l, l.cache[k].key, l.images[l.cache[k].slot].look)
          BY <3>1 DEF ImagesOK
        <5>3. t.rows = l.rows /\ t.phase = l.phase
          BY <3>3 DEF Beside
        <5> QED  BY <5>1, <5>2, <5>3 DEF KeyOK, ReadOK
      <4> QED  BY <3>2, <4>1, <4>2
    <3>7. Base(d, t)
      BY <3>2, <3>3, <3>5, <3>6 DEF Base
    <3> QED  BY <1>2, <2>2, <3>3, <3>4, <3>7
  <2> QED  BY <1>3, <2>1, <2>2
<1> HIDE DEF q
<1>8. q \in PaneRecord /\ q.phase = p.phase
  BY <1>7 DEF Base, Beside
<1>9. Follows(p, q)
  BY <1>1, <1>7, <1>8, FollowsSame
<1>10. AnswersOK(q, w)
  BY <1>1, <1>7, <1>8, <1>9, AnswersStay DEF Midway, Beside
<1>11. BoundsOK(q)
  BY <1>7, FewerOwed DEF Midway
<1>12. SortOK(q)
  BY <1>7, SameSort DEF Midway, Beside
<1>13. OrderOK(q)
  <2>1. ~(p.order # NoOrder /\ p.watch # "recovering")
    BY DEF Midway, OrderOK
  <2> QED  BY <1>7, <2>1 DEF OrderOK, Beside
\* No row waits for an image.
<1>14. CursorOK(q)
  <2> SUFFICES ASSUME q.pending, ~q.failed, q.watch # "recovering", NEW i \in 1 .. q.cursor
               PROVE  Resolved(q, i) \/ PropertyRequest(q, i, q.key) \in q.owed
    BY DEF CursorOK
  <2>1. Resolved(p, i) \/ PropertyRequest(p, i, p.key) \in p.owed
    BY <1>7 DEF Midway, CursorOK, Beside
  <2>2. PropertyRequest(q, i, q.key) = PropertyRequest(p, i, p.key) /\ (Resolved(p, i) <=> Resolved(q, i))
    BY <1>7 DEF PropertyRequest, IconKey, Resolved, Beside
  <2>3. PropertyRequest(p, i, p.key) # r.request
    <3>1. PropertyRequest(p, i, p.key).property = p.key /\ p.key \in Keys
      BY <1>1 DEF PropertyRequest, PaneRecord
    <3>2. OfRow(PropertyRequest(p, i, p.key))
      BY <3>1, KeysAssumption DEF OfRow
    <3> QED  BY <3>2
  <2> QED  BY <1>7, <2>1, <2>2, <2>3
<1> QED  BY <1>7, <1>9, <1>10, <1>11, <1>12, <1>13, <1>14 DEF Midway, q, l

\* An answer is taken in.
LEMMA AcceptedOK ==
  ASSUME NEW d, NEW p, NEW w \in Seq(Answer), Midway(d, p, w), NEW r \in Answer, AnswerOK(p, r)
  PROVE  LET q == Accepted(p, r) IN
         Midway(d, q, w) /\ Follows(p, q) /\ Beside(p, q) /\ q.owed = p.owed \ {r.request}
<1>1. p \in PaneRecord
  BY DEF Midway, Base
<1>2. Accepted(p, r) =
        IF r.request \notin p.owed THEN p
        ELSE IF OfRow(r.request) THEN PropertyAccepted(Less(p, r), r) ELSE ImageAccepted(Less(p, r), r)
  BY Zenon DEF Accepted, Less, OfRow
<1>3. CASE r.request \notin p.owed
  <2>1. Accepted(p, r) = p
    BY <1>2, <1>3
  <2>2. p.owed = p.owed \ {r.request}
    BY <1>3
  <2>3. Follows(p, p) /\ Beside(p, p)
    BY <1>1, FollowsSame DEF Beside
  <2> QED  BY <2>1, <2>2, <2>3
<1>4. CASE r.request \in p.owed /\ OfRow(r.request)
  <2> DEFINE t == PropertyAccepted(Less(p, r), r)
  <2>1. Midway(d, t, w) /\ Follows(p, t) /\ Beside(p, t) /\ t.owed = p.owed \ {r.request}
    BY <1>4, PropertyAcceptedOK
  <2>2. Accepted(p, r) = t
    BY <1>2, <1>4
  <2> HIDE DEF t
  <2> QED  BY <2>1, <2>2
<1>5. CASE r.request \in p.owed /\ ~OfRow(r.request)
  <2> DEFINE t == ImageAccepted(Less(p, r), r)
  <2>1. Midway(d, t, w) /\ Follows(p, t) /\ Beside(p, t) /\ t.owed = p.owed \ {r.request}
    BY <1>5, ImageAcceptedOK
  <2>2. Accepted(p, r) = t
    BY <1>2, <1>5
  <2> HIDE DEF t
  <2> QED  BY <2>1, <2>2
<1> QED  BY <1>3, <1>4, <1>5

\* After k of the answers.
Stage(d, p, w, answers, k, q) ==
  /\ Midway(d, q, w) /\ Beside(p, q)
  /\ \A i \in DOMAIN answers : i > k => AnswerOK(q, answers[i])
  /\ \A x \in q.owed : x \in p.owed /\ \A i \in DOMAIN answers : i <= k => answers[i].request # x

LEMMA NextStage ==
  ASSUME NEW d, NEW p, NEW w \in Seq(Answer), NEW answers \in Seq(Answer), NEW k \in DOMAIN answers,
         NEW v, Stage(d, p, w, answers, k - 1, v)
  PROVE  Stage(d, p, w, answers, k, Accepted(v, answers[k]))
<1> DEFINE r == answers[k]
           q == Accepted(v, r)
<1>1. k \in Nat /\ r \in Answer /\ k > k - 1 /\ \A i \in DOMAIN answers : i \in Nat /\ answers[i] \in Answer
  OBVIOUS
<1>2. Midway(d, v, w) /\ Beside(p, v) /\ AnswerOK(v, r)
  BY <1>1 DEF Stage
<1>3. Midway(d, q, w) /\ Follows(v, q) /\ Beside(v, q) /\ q.owed = v.owed \ {r.request}
  BY <1>1, <1>2, AcceptedOK
<1> HIDE DEF q
<1>4. Beside(p, q)
  BY <1>2, <1>3 DEF Beside
<1>5. v \in PaneRecord /\ q \in PaneRecord
  BY <1>2, <1>3 DEF Midway, Base
<1>6. ASSUME NEW i \in DOMAIN answers, i > k
      PROVE  AnswerOK(q, answers[i])
  <2>1. i > k - 1
    BY <1>1, <1>6
  <2>2. AnswerOK(v, answers[i])
    BY <2>1 DEF Stage
  <2> QED  BY <1>1, <1>3, <1>5, <2>2, AnswersFollow
<1>7. ASSUME NEW x \in q.owed
      PROVE  x \in p.owed /\ \A i \in DOMAIN answers : i <= k => answers[i].request # x
  <2>1. x \in v.owed /\ x # r.request
    BY <1>3
  <2>2. x \in p.owed /\ \A i \in DOMAIN answers : i <= k - 1 => answers[i].request # x
    BY <2>1 DEF Stage
  <2>3. \A i \in DOMAIN answers : i <= k => i <= k - 1 \/ i = k
    BY <1>1
  <2> QED  BY <2>1, <2>2, <2>3
<1> QED  BY <1>3, <1>4, <1>6, <1>7 DEF Stage, q

\* All answers that were taken in.
LEMMA AllAcceptedOK ==
  ASSUME NEW d, NEW p, NEW w \in Seq(Answer), NEW answers \in Seq(Answer), Stage(d, p, w, answers, 0, p)
  PROVE  Stage(d, p, w, answers, Len(answers), AllAccepted(p, answers))
<1> DEFINE n == Len(answers)
           T == [k \in 0 .. n |-> {v \in PaneRecord : Stage(d, p, w, answers, k, v)}]
           F == [x \in (1 .. n) \X PaneRecord |-> Accepted(x[2], answers[x[1]])]
           After[k \in 0 .. n] == IF k = 0 THEN p ELSE Accepted(After[k - 1], answers[k])
<1>1. AllAccepted(p, answers) = After[n]
  BY DEF AllAccepted
<1>2. n \in Nat /\ DOMAIN answers = 1 .. n
  OBVIOUS
<1>3. ASSUME NEW k \in 1 .. n, NEW v \in PaneRecord, Stage(d, p, w, answers, k - 1, v)
      PROVE  /\ Accepted(v, answers[k]) \in PaneRecord
             /\ Stage(d, p, w, answers, k, Accepted(v, answers[k]))
  <2>1. Stage(d, p, w, answers, k, Accepted(v, answers[k]))
    BY <1>2, <1>3, NextStage
  <2> QED  BY <2>1 DEF Stage, Midway, Base
<1>4. p \in PaneRecord
  BY DEF Stage, Midway, Base
<1> HIDE DEF n
<1>5. p \in T[0]
  BY <1>2, <1>4
<1>6. \A k \in 1 .. n : \A v \in T[k - 1] : /\ Accepted(v, answers[k]) \in T[k]
                                            /\ F[<<k, v>>] = Accepted(v, answers[k])
  <2> TAKE k \in 1 .. n
  <2>1. k - 1 \in 0 .. n /\ k \in 0 .. n
    BY <1>2
  <2>2. /\ T[k - 1] = {v \in PaneRecord : Stage(d, p, w, answers, k - 1, v)}
        /\ T[k] = {v \in PaneRecord : Stage(d, p, w, answers, k, v)}
    BY <2>1
  <2> QED  BY <1>3, <2>2
<1> HIDE DEF T, F
<1>7. PICK f : (\A k \in 0 .. n : f[k] \in T[k]) /\ Steps(f, p, n, F)
  <2>1. \A k \in 1 .. n : \A v \in T[k - 1] : F[<<k, v>>] \in T[k]
    BY <1>6
  <2> QED  BY <1>2, <1>5, <2>1, Recursed
<1>8. f = [k \in 0 .. n |-> IF k = 0 THEN p ELSE Accepted(f[k - 1], answers[k])]
  <2>1. \A k \in 0 .. n : k # 0 => k \in 1 .. n /\ k - 1 \in 0 .. n
    BY <1>2
  <2>2. \A k \in 0 .. n : k # 0 => F[<<k, f[k - 1]>>] = Accepted(f[k - 1], answers[k])
    BY <1>6, <1>7, <2>1
  <2> QED  BY <1>7, <2>2, Zenon DEF Steps
<1>9. After = [k \in 0 .. n |-> IF k = 0 THEN p ELSE Accepted(After[k - 1], answers[k])]
  BY <1>8, Zenon
<1> HIDE DEF After
<1>10. After[0] = p /\ \A k \in 1 .. n : After[k] = Accepted(After[k - 1], answers[k])
  <2>1. 0 \in 0 .. n /\ \A k \in 1 .. n : k \in 0 .. n /\ k # 0
    BY <1>2
  <2>2. \A k \in 0 .. n : After[k] = IF k = 0 THEN p ELSE Accepted(After[k - 1], answers[k])
    BY <1>9, Zenon
  <2> QED  BY <2>1, <2>2
<1>11. \A k \in 0 .. n : After[k] \in T[k]
  <2>1. After[0] \in T[0] /\ \A k \in 1 .. n : After[k - 1] \in T[k - 1] => After[k] \in T[k]
    BY <1>5, <1>6, <1>10
  <2> QED  BY <1>2, <2>1, AllAlong
<1>12. Stage(d, p, w, answers, n, After[n])
  <2>1. n \in 0 .. n /\ T[n] = {v \in PaneRecord : Stage(d, p, w, answers, n, v)}
    BY <1>2 DEF T
  <2> QED  BY <1>11, <2>1
<1> QED  BY <1>1, <1>12 DEF n

\* process_icon_results
LEMMA ProcessedOK ==
  ASSUME NEW d, NEW p, NEW w \in Seq(Answer), PaneOK(d, p, w)
  PROVE  PaneOK(d, Processed(p), w)
<1> DEFINE m == Len(p.results)
           n == Min({IconResults, m})
           rest == SubSeq(p.results, n + 1, m)
           b == [p EXCEPT !.results = rest]
           answers == SubSeq(p.results, 1, n)
           q == AllAccepted(b, answers)
<1>1. p \in PaneRecord /\ Base(d, p) /\ Lookups(p, w) /\ SortOK(p)
  BY DEF PaneOK, Base
<1>2. p.results \in Seq(Answer) /\ m \in Nat /\ DOMAIN p.results = 1 .. m
  BY <1>1, LookupTypes
<1>3. Processed(p) = IF q.owed = {} THEN Posted(Finished(q)) ELSE q
  BY DEF Processed
<1> HIDE DEF m
<1>4. n \in 0 .. m
  <2> DEFINE S == {IconResults, m}
  <2>1. \E x \in S : \A y \in S : x <= y
    <3> DEFINE a == IF IconResults <= m THEN IconResults ELSE m
    <3>1. a \in S /\ \A y \in S : a <= y
      BY <1>2, LimitsAssumption
    <3> QED  BY <3>1
  <2>2. n = CHOOSE x \in S : \A y \in S : x <= y
    BY DEF Min
  <2> HIDE DEF S, n
  <2>3. n \in S /\ \A y \in S : n <= y
    BY <2>1, <2>2
  <2> QED  BY <1>2, <2>3, LimitsAssumption DEF S
<1> HIDE DEF n
<1>5. /\ rest \in Seq(Answer) /\ Len(rest) = m - n
      /\ \A i \in 1 .. m - n : rest[i] = p.results[n + i]
  <2>1. \A i \in n + 1 .. m : p.results[i] \in Answer
    BY <1>2, <1>4
  <2>2. /\ rest \in Seq(Answer) /\ Len(rest) = IF n + 1 <= m THEN m - (n + 1) + 1 ELSE 0
        /\ \A i \in 1 .. m - (n + 1) + 1 : rest[i] = p.results[(n + 1) + i - 1]
    <3>1. n + 1 \in Int /\ m \in Int
      BY <1>2, <1>4
    <3> HIDE DEF rest
    <3> QED  BY <2>1, <3>1, SubSeqProperties DEF rest
  <2> HIDE DEF rest
  <2>3. m - (n + 1) + 1 = m - n /\ \A i \in 1 .. m - n : (n + 1) + i - 1 = n + i
    BY <1>2, <1>4
  <2> QED  BY <1>2, <1>4, <2>2, <2>3
<1>6. /\ answers \in Seq(Answer) /\ Len(answers) = n
      /\ \A i \in 1 .. n : answers[i] = p.results[i]
  <2>1. \A i \in 1 .. n : p.results[i] \in Answer
    BY <1>2, <1>4
  <2>2. /\ answers \in Seq(Answer) /\ Len(answers) = IF 1 <= n THEN n - 1 + 1 ELSE 0
        /\ \A i \in 1 .. n - 1 + 1 : answers[i] = p.results[1 + i - 1]
    <3>1. n \in Int /\ 1 \in Int
      BY <1>4
    <3> HIDE DEF answers
    <3> QED  BY <2>1, <3>1, SubSeqProperties DEF answers
  <2> HIDE DEF answers
  <2>3. n - 1 + 1 = n /\ \A i \in 1 .. n : 1 + i - 1 = i
    BY <1>4
  <2> QED  BY <1>4, <2>2, <2>3
<1> HIDE DEF rest, answers
<1>7. /\ b \in PaneRecord
      /\ b.rows = p.rows /\ b.phase = p.phase /\ b.watch = p.watch /\ b.key = p.key
      /\ b.pending = p.pending /\ b.cursor = p.cursor /\ b.failed = p.failed /\ b.order = p.order
      /\ b.interest = p.interest /\ b.owed = p.owed /\ b.size = p.size
      /\ b.cache = p.cache /\ b.images = p.images
      /\ b.queue = p.queue /\ b.results = rest /\ b.fresh = p.fresh
  BY <1>1, <1>5 DEF PaneRecord
<1> HIDE DEF b
<1>8. Follows(p, b) /\ \A a \in Answer : AnswerOK(p, a) => AnswerOK(b, a)
  BY <1>1, <1>7, FollowsSame, AnswersFollow
<1>9. DOMAIN rest = 1 .. m - n /\ DOMAIN answers = 1 .. n
  BY <1>5, <1>6
<1>10. \A i \in DOMAIN p.results : AnswerOK(p, p.results[i]) /\ p.results[i] \in Answer
  BY <1>1, <1>2 DEF Lookups, AnswersOK
<1>11. Midway(d, b, w)
  <2>1. Base(d, b) /\ SortOK(b) /\ CursorOK(b) /\ OrderOK(b)
    BY <1>1, <1>7, SameBase, SameSort, SameCursor, SameOrder DEF Lookups
  <2>2. BoundsOK(b)
    <3>1. Len(b.results) <= IconResults
      <4>1. m <= IconResults
        BY <1>1 DEF Lookups, BoundsOK, m
      <4> QED  BY <1>2, <1>4, <1>5, <1>7, <4>1, LimitsAssumption
    <3> QED  BY <1>1, <1>7, <3>1 DEF Lookups, BoundsOK
  <2>3. AnswersOK(b, w)
    <3>1. \A i \in DOMAIN b.queue : KeyOK(b, b.queue[i].key)
      BY <1>1, <1>7 DEF Lookups, AnswersOK, KeyOK
    <3>2. ASSUME NEW i \in DOMAIN b.results
          PROVE  AnswerOK(b, b.results[i])
      <4>1. i \in 1 .. m - n /\ b.results[i] = rest[i]
        BY <1>7, <1>9
      <4>2. rest[i] = p.results[n + i]
        BY <1>5, <4>1
      <4>3. n + i \in DOMAIN p.results
        BY <1>2, <1>4, <4>1
      <4> QED  BY <1>8, <1>10, <4>1, <4>2, <4>3
    <3>3. b.fresh => w # <<>> /\ AnswerOK(b, w[1])
      <4> SUFFICES ASSUME b.fresh
                   PROVE  w # <<>> /\ AnswerOK(b, w[1])
        OBVIOUS
      <4>1. w # <<>> /\ AnswerOK(p, w[1])
        BY <1>1, <1>7 DEF Lookups, AnswersOK
      <4>2. w[1] \in Answer
        BY <4>1
      <4> QED  BY <1>8, <4>1, <4>2
    <3> QED  BY <3>1, <3>2, <3>3 DEF AnswersOK
  <2> QED  BY <2>1, <2>2, <2>3 DEF Midway
<1>12. Stage(d, b, w, answers, 0, b)
  <2>1. \A i \in DOMAIN answers : AnswerOK(b, answers[i])
    <3> TAKE i \in DOMAIN answers
    <3>1. i \in DOMAIN p.results /\ answers[i] = p.results[i]
      BY <1>2, <1>4, <1>6, <1>9
    <3> QED  BY <1>8, <1>10, <3>1
  <2>2. \A i \in DOMAIN answers : ~(i <= 0)
    BY <1>4, <1>9
  <2> QED  BY <1>11, <2>1, <2>2 DEF Stage, Beside
<1>13. Stage(d, b, w, answers, n, q)
  BY <1>6, <1>12, AllAcceptedOK
<1> HIDE DEF q
<1>14. Midway(d, q, w) /\ Beside(b, q)
  BY <1>13 DEF Stage
<1>15. Coming(q, w)
  <2> SUFFICES ASSUME NEW x \in q.owed
               PROVE  \/ \E i \in DOMAIN q.queue : q.queue[i] = x
                      \/ \E i \in DOMAIN q.results : q.results[i].request = x
                      \/ q.fresh /\ w[1].request = x
    BY DEF Coming
  <2>1. q.queue = p.queue /\ q.results = rest /\ q.fresh = p.fresh
    BY <1>7, <1>14 DEF Beside
  <2>2. x \in b.owed /\ \A i \in DOMAIN answers : i <= n => answers[i].request # x
    BY <1>13 DEF Stage
  <2>3. \/ \E i \in DOMAIN p.queue : p.queue[i] = x
        \/ \E i \in DOMAIN p.results : p.results[i].request = x
        \/ p.fresh /\ w[1].request = x
    BY <1>1, <1>7, <2>2 DEF Lookups, Coming
  <2>4. ASSUME NEW i \in DOMAIN p.results, p.results[i].request = x
        PROVE  \E j \in DOMAIN q.results : q.results[j].request = x
    <3>1. ~(i <= n)
      <4>1. ASSUME i <= n
            PROVE  FALSE
        <5>1. i \in 1 .. n
          BY <1>2, <1>4, <4>1
        <5> QED  BY <1>6, <1>9, <2>2, <2>4, <4>1, <5>1
      <4> QED  BY <4>1
    <3>2. i - n \in 1 .. m - n /\ n + (i - n) = i
      BY <1>2, <1>4, <3>1
    <3>3. rest[i - n] = p.results[i]
      BY <1>5, <3>2
    <3> QED  BY <1>9, <2>1, <2>4, <3>2, <3>3
  <2> QED  BY <2>1, <2>3, <2>4
<1>16. PaneOK(d, q, w)
  BY <1>14, <1>15 DEF PaneOK, Midway, Lookups
<1>17. PaneOK(d, Posted(Finished(q)), w)
  BY <1>16, FinishedOK, PostedOK
<1> QED  BY <1>3, <1>16, <1>17 DEF q

-----------------------------------------------------------------------------
(* The actions keep the invariant.  *)

LEMMA WorkerReadKeeps ==
  ASSUME IInv, WorkerRead
  PROVE  IInv'
<1> DEFINE request == pane.queue[1]
           q == [pane EXCEPT !.queue = Tail(@), !.fresh = TRUE]
<1>1. DiskOK(disk) /\ PaneOK(disk, pane, worker) /\ worker = <<>> /\ pane.queue # <<>> /\ disk' = disk /\ pane' = q
  BY DEF IInv, WorkerRead
<1>2. pane \in PaneRecord /\ Base(disk, pane) /\ RowsOK(disk, pane) /\ Lookups(pane, worker) /\ SortOK(pane)
  BY <1>1 DEF PaneOK, Base
<1>3. pane.queue \in Seq(Request) /\ Len(pane.queue) \in Nat /\ DOMAIN pane.queue = 1 .. Len(pane.queue)
  BY <1>2, LookupTypes
<1>4. /\ Head(pane.queue) = request /\ 1 \in DOMAIN pane.queue
      /\ Tail(pane.queue) \in Seq(Request) /\ Len(Tail(pane.queue)) = Len(pane.queue) - 1
      /\ \A i \in 1 .. Len(Tail(pane.queue)) : Tail(pane.queue)[i] = pane.queue[i + 1]
  BY <1>1, <1>3, HeadTailProperties
<1>5. request \in Request /\ request.key \in Key /\ KeyOK(pane, request.key)
  BY <1>2, <1>4, LookupTypes DEF Lookups, AnswersOK
<1> DEFINE look == IF request.key.stamp = -1 THEN 1 ELSE disk[request.key.id].look
<1>6. PICK failing \in BOOLEAN : worker' = <<[request |-> request, look |-> IF failing THEN 0 ELSE look]>>
  BY <1>4 DEF WorkerRead
<1>7. look \in Nat
  <2>1. request.key.stamp # -1 => request.key.id \in Ids
    BY <1>5, KeyTypes
  <2> HIDE DEF request
  <2> QED  BY <1>1, <2>1 DEF DiskOK
<1> DEFINE a == [request |-> request, look |-> IF failing THEN 0 ELSE look]
<1>8. a \in Answer /\ a.request = request /\ a.look = IF failing THEN 0 ELSE look
  <2> HIDE DEF request, look
  <2> QED  BY <1>5, <1>7 DEF Answer
<1>9. worker' = <<a>>
  BY <1>6
<1> HIDE DEF a
<1>10. worker' \in Seq(Answer) /\ Len(worker') <= 1 /\ worker' # <<>> /\ worker'[1] = a
  BY <1>8, <1>9
<1>11. AnswerOK(pane, a)
  <2> SUFFICES ASSUME ~failing, look # 0
               PROVE  ReadOK(pane, request.key, look)
    <3> HIDE DEF request, look
    <3> QED  BY <1>5, <1>8 DEF AnswerOK
  <2> SUFFICES ASSUME NEW i \in DOMAIN pane.rows,
                      pane.rows[i].id = request.key.id, pane.rows[i].stamp = request.key.stamp
               PROVE  look >= pane.rows[i].look
    BY DEF ReadOK
  <2>1. pane.rows[i].id \in Ids /\ pane.rows[i].stamp \in Nat /\ pane.rows[i].look \in Nat
    BY <1>2, RowTypes
  <2>2. RowOK(disk, pane.key, pane.rows[i])
    BY <1>2 DEF RowsOK
  <2>3. request.key.stamp # -1
    BY <2>1
  <2>4. look = disk[pane.rows[i].id].look
    BY <2>3
  <2> HIDE DEF look, request
  <2> QED  BY <1>7, <2>1, <2>2, <2>4 DEF RowOK
<1> HIDE DEF q
<1>12. /\ q \in PaneRecord
       /\ q.rows = pane.rows /\ q.phase = pane.phase /\ q.watch = pane.watch /\ q.key = pane.key
       /\ q.pending = pane.pending /\ q.cursor = pane.cursor /\ q.failed = pane.failed /\ q.order = pane.order
       /\ q.interest = pane.interest /\ q.owed = pane.owed /\ q.size = pane.size
       /\ q.cache = pane.cache /\ q.images = pane.images
       /\ q.queue = Tail(pane.queue) /\ q.results = pane.results /\ q.fresh = TRUE
  <2> HIDE DEF request
  <2> QED  BY <1>2, <1>4 DEF PaneRecord, q
<1>13. Base(disk, q) /\ SortOK(q) /\ CursorOK(q) /\ OrderOK(q)
  BY <1>2, <1>12, SameBase, SameSort, SameCursor, SameOrder DEF Lookups
<1>14. BoundsOK(q)
  <2>1. Len(q.queue) <= Interest
    <3>1. Len(pane.queue) <= Interest /\ Len(q.queue) = Len(pane.queue) - 1
      BY <1>2, <1>4, <1>12 DEF Lookups, BoundsOK
    <3> QED  BY <1>3, <3>1, LimitsAssumption
  <2> QED  BY <1>2, <1>12, <2>1 DEF Lookups, BoundsOK
<1>15. DOMAIN q.queue = 1 .. Len(pane.queue) - 1 /\ \A i \in DOMAIN q.queue : q.queue[i] = pane.queue[i + 1]
  <2>1. DOMAIN Tail(pane.queue) = 1 .. Len(Tail(pane.queue))
    BY <1>4
  <2> QED  BY <1>4, <1>12, <2>1
<1>16. \A x \in Key : KeyOK(pane, x) => KeyOK(q, x)
  BY <1>12 DEF KeyOK
<1>17. \A x \in Answer : AnswerOK(pane, x) => AnswerOK(q, x)
  BY <1>2, <1>12, FollowsSame, AnswersFollow
<1>18. AnswersOK(q, worker')
  <2>1. ASSUME NEW i \in DOMAIN q.queue
        PROVE  KeyOK(q, q.queue[i].key)
    <3>1. i + 1 \in DOMAIN pane.queue /\ q.queue[i] = pane.queue[i + 1]
      BY <1>3, <1>15
    <3>2. KeyOK(pane, pane.queue[i + 1].key) /\ pane.queue[i + 1].key \in Key
      BY <1>2, <3>1, LookupTypes DEF Lookups, AnswersOK
    <3> QED  BY <1>16, <3>1, <3>2
  <2>2. ASSUME NEW i \in DOMAIN q.results
        PROVE  AnswerOK(q, q.results[i])
    BY <1>2, <1>12, <1>17, LookupTypes DEF Lookups, AnswersOK
  <2>3. worker' # <<>> /\ AnswerOK(q, worker'[1])
    BY <1>8, <1>10, <1>11, <1>17
  <2> QED  BY <2>1, <2>2, <2>3 DEF AnswersOK
<1>19. Coming(q, worker')
  <2> SUFFICES ASSUME NEW x \in q.owed
               PROVE  \/ \E i \in DOMAIN q.queue : q.queue[i] = x
                      \/ \E i \in DOMAIN q.results : q.results[i].request = x
                      \/ q.fresh /\ worker'[1].request = x
    BY DEF Coming
  <2>1. ~pane.fresh
    BY <1>1, <1>2 DEF Lookups, AnswersOK
  <2>2. \/ \E i \in DOMAIN pane.queue : pane.queue[i] = x
        \/ \E i \in DOMAIN pane.results : pane.results[i].request = x
    BY <1>2, <1>12, <2>1 DEF Lookups, Coming
  <2>3. ASSUME NEW i \in DOMAIN pane.queue, pane.queue[i] = x, i # 1
        PROVE  \E j \in DOMAIN q.queue : q.queue[j] = x
    <3>1. i - 1 \in DOMAIN q.queue /\ (i - 1) + 1 = i
      BY <1>3, <1>15, <2>3
    <3> QED  BY <1>15, <2>3, <3>1
  <2>4. worker'[1].request = pane.queue[1]
    BY <1>8, <1>10
  <2> QED  BY <1>12, <2>2, <2>3, <2>4
<1>20. PaneOK(disk, q, worker')
  BY <1>13, <1>14, <1>18, <1>19 DEF PaneOK, Lookups
<1> QED  BY <1>1, <1>10, <1>20 DEF IInv, q

LEMMA WorkerAnswerKeeps ==
  ASSUME IInv, WorkerAnswer
  PROVE  IInv'
<1> DEFINE a == worker[1]
           t == [pane EXCEPT !.results = Append(@, a), !.fresh = FALSE]
<1>1. /\ DiskOK(disk) /\ PaneOK(disk, pane, worker) /\ worker \in Seq(Answer) /\ worker # <<>>
      /\ disk' = disk /\ worker' = <<>> /\ pane' = IF pane.fresh THEN t ELSE pane
      /\ pane.fresh => Len(pane.results) < IconResults
  BY DEF IInv, WorkerAnswer
<1>2. pane \in PaneRecord /\ Base(disk, pane) /\ Lookups(pane, worker) /\ SortOK(pane) /\ pane.fresh \in BOOLEAN
  BY <1>1 DEF PaneOK, Base, PaneRecord
<1>3. worker' \in Seq(Answer) /\ Len(worker') <= 1
  BY <1>1
<1>4. CASE ~pane.fresh
  <2>1. AnswersOK(pane, <<>>) /\ Coming(pane, <<>>)
    BY <1>2, <1>4 DEF Lookups, AnswersOK, Coming
  <2>2. PaneOK(disk, pane, <<>>)
    BY <1>2, <2>1 DEF PaneOK, Lookups
  <2> QED  BY <1>1, <1>3, <1>4, <2>2 DEF IInv
<1>5. CASE pane.fresh
  <2> DEFINE n == Len(pane.results)
  <2>1. a \in Answer /\ AnswerOK(pane, a)
    BY <1>1, <1>2, <1>5 DEF Lookups, AnswersOK
  <2>2. pane.results \in Seq(Answer) /\ n \in Nat /\ DOMAIN pane.results = 1 .. n
    BY <1>2, LookupTypes
  <2> HIDE DEF a
  <2>3. /\ Append(pane.results, a) \in Seq(Answer) /\ Len(Append(pane.results, a)) = n + 1
        /\ DOMAIN Append(pane.results, a) = 1 .. n + 1
        /\ \A i \in 1 .. n : Append(pane.results, a)[i] = pane.results[i]
        /\ Append(pane.results, a)[n + 1] = a
    BY <2>1, <2>2, AppendProperties
  <2>4. /\ t \in PaneRecord
        /\ t.rows = pane.rows /\ t.phase = pane.phase /\ t.watch = pane.watch /\ t.key = pane.key
        /\ t.pending = pane.pending /\ t.cursor = pane.cursor /\ t.failed = pane.failed /\ t.order = pane.order
        /\ t.interest = pane.interest /\ t.owed = pane.owed /\ t.size = pane.size
        /\ t.cache = pane.cache /\ t.images = pane.images
        /\ t.queue = pane.queue /\ t.results = Append(pane.results, a) /\ t.fresh = FALSE
    BY <1>2, <2>3 DEF PaneRecord
  <2> HIDE DEF t
  <2>5. Base(disk, t) /\ SortOK(t) /\ CursorOK(t) /\ OrderOK(t)
    BY <1>2, <2>4, SameBase, SameSort, SameCursor, SameOrder DEF Lookups
  <2>6. BoundsOK(t)
    <3>1. Len(t.results) <= IconResults
      <4>1. n < IconResults
        BY <1>1, <1>5
      <4>2. Len(t.results) = n + 1
        BY <2>3, <2>4
      <4> HIDE DEF n
      <4> QED  BY <2>2, <4>1, <4>2, LimitsAssumption
    <3> QED  BY <1>2, <2>4, <3>1 DEF Lookups, BoundsOK
  <2> HIDE DEF n
  <2>7. DOMAIN t.results = 1 .. n + 1 /\ t.results[n + 1] = a /\ \A i \in 1 .. n : t.results[i] = pane.results[i]
    BY <2>3, <2>4
  <2>8. \A x \in Answer : AnswerOK(pane, x) => AnswerOK(t, x)
    BY <1>2, <2>4, FollowsSame, AnswersFollow
  <2>9. AnswersOK(t, <<>>)
    <3>1. \A i \in DOMAIN t.queue : KeyOK(t, t.queue[i].key)
      BY <1>2, <2>4 DEF Lookups, AnswersOK, KeyOK
    <3>2. \A i \in 1 .. n : AnswerOK(pane, pane.results[i]) /\ pane.results[i] \in Answer
      BY <1>2, <2>2 DEF Lookups, AnswersOK
    <3>3. ASSUME NEW i \in 1 .. n + 1
          PROVE  AnswerOK(t, t.results[i])
      <4>1. i \in 1 .. n \/ i = n + 1
        BY <2>2
      <4> QED  BY <2>1, <2>7, <2>8, <3>2, <4>1
    <3> QED  BY <2>4, <2>7, <3>1, <3>3 DEF AnswersOK
  <2>10. Coming(t, <<>>)
    <3> SUFFICES ASSUME NEW x \in t.owed
                 PROVE  \/ \E i \in DOMAIN t.queue : t.queue[i] = x
                        \/ \E i \in DOMAIN t.results : t.results[i].request = x
      BY DEF Coming
    <3>1. \/ \E i \in DOMAIN pane.queue : pane.queue[i] = x
          \/ \E i \in DOMAIN pane.results : pane.results[i].request = x
          \/ a.request = x
      BY <1>2, <2>4 DEF Lookups, Coming, a
    <3>2. ASSUME NEW i \in DOMAIN pane.results, pane.results[i].request = x
          PROVE  \E j \in DOMAIN t.results : t.results[j].request = x
      <4>1. i \in 1 .. n /\ i \in 1 .. n + 1
        BY <2>2
      <4> QED  BY <2>7, <3>2, <4>1
    <3>3. n + 1 \in DOMAIN t.results
      BY <2>2, <2>7
    <3> QED  BY <2>4, <2>7, <3>1, <3>2, <3>3
  <2>11. PaneOK(disk, t, <<>>)
    BY <2>5, <2>6, <2>9, <2>10 DEF PaneOK, Lookups
  <2> QED  BY <1>1, <1>3, <1>5, <2>11 DEF IInv
<1> QED  BY <1>2, <1>4, <1>5

\* Whatever changes the pane alone.
LEMMA PaneKeeps ==
  ASSUME IInv, disk' = disk, worker' = worker, PaneOK(disk, pane', worker)
  PROVE  IInv'
BY DEF IInv

LEMMA InvFacts ==
  ASSUME IInv
  PROVE  /\ DiskOK(disk) /\ worker \in Seq(Answer) /\ pane \in PaneRecord /\ PaneOK(disk, pane, worker)
         /\ Base(disk, pane) /\ RowsOK(disk, pane) /\ Lookups(pane, worker) /\ SortOK(pane)
BY DEF IInv, PaneOK, Base

LEMMA ViewportMessageKeeps ==
  ASSUME IInv, ViewportMessage
  PROVE  IInv'
<1> DEFINE q == [pane EXCEPT !.posted = FALSE]
           visible == Visible(pane)
<1>1. /\ worker \in Seq(Answer) /\ pane \in PaneRecord /\ PaneOK(disk, pane, worker)
  BY InvFacts
<1>2. PICK refused \in BOOLEAN : pane' = Requested(q, visible, refused)
  BY DEF ViewportMessage
<1>3. disk' = disk /\ worker' = worker
  BY DEF ViewportMessage
<1>4. visible \in Seq(DOMAIN pane.rows) /\ Len(visible) <= WindowRows
  BY <1>1, VisibleIs
<1>5. /\ q \in PaneRecord
      /\ q.rows = pane.rows /\ q.phase = pane.phase /\ q.watch = pane.watch /\ q.key = pane.key
      /\ q.pending = pane.pending /\ q.cursor = pane.cursor /\ q.failed = pane.failed /\ q.order = pane.order
      /\ q.interest = pane.interest /\ q.owed = pane.owed /\ q.size = pane.size
      /\ q.cache = pane.cache /\ q.images = pane.images
      /\ q.queue = pane.queue /\ q.results = pane.results /\ q.fresh = pane.fresh
  BY <1>1 DEF PaneRecord
<1> HIDE DEF q, visible
<1>6. PaneOK(disk, q, worker)
  BY <1>1, <1>5, SamePane
<1>7. visible \in Seq(DOMAIN q.rows)
  BY <1>4, <1>5
<1>8. PaneOK(disk, Requested(q, visible, refused), worker)
  BY <1>1, <1>4, <1>6, <1>7, RequestedOK
<1> QED  BY <1>2, <1>3, <1>8, PaneKeeps

LEMMA ProcessResultsKeeps ==
  ASSUME IInv, ProcessResults
  PROVE  IInv'
<1>1. worker \in Seq(Answer) /\ PaneOK(disk, pane, worker)
  BY InvFacts
<1>2. pane' = Processed(pane) /\ disk' = disk /\ worker' = worker
  BY DEF ProcessResults
<1>3. PaneOK(disk, Processed(pane), worker)
  BY <1>1, ProcessedOK
<1> QED  BY <1>2, <1>3, PaneKeeps

\* A row as the disk has the item now.
LEMMA IncomingIs ==
  ASSUME DiskOK(disk), NEW id \in Ids, NEW key
  PROVE  /\ Incoming(id) \in Row /\ Incoming(id).id = id
         /\ Incoming(id).stamp = disk[id].stamp /\ Incoming(id).look = disk[id].look
         /\ RowOK(disk, key, Incoming(id))
<1>1. disk[id].stamp \in Nat /\ disk[id].look \in Nat
  BY DEF DiskOK
<1>2. Unresolved \in Value /\ Unresolved.state = "unresolved"
  BY KeysAssumption DEF Unresolved, Value
<1>3. [type |-> Unresolved, sort |-> Unresolved] \in [type : Value, sort : Value]
  BY <1>2
<1>4. /\ Incoming(id).id = id /\ Incoming(id).stamp = disk[id].stamp /\ Incoming(id).look = disk[id].look
      /\ Incoming(id).properties = [type |-> Unresolved, sort |-> Unresolved]
  BY DEF Incoming
<1>5. Incoming(id) \in Row
  BY <1>1, <1>3 DEF Row, Incoming
<1>6. RowOK(disk, key, Incoming(id))
  <2> DEFINE row == Incoming(id)
  <2>1. row.properties.type = Unresolved /\ row.properties.sort = Unresolved
    BY <1>4
  <2> HIDE DEF row
  <2> QED  BY <1>1, <1>2, <1>4, <2>1 DEF RowOK, row
<1> QED  BY <1>4, <1>5, <1>6

LEMMA AppendRowKeeps ==
  ASSUME IInv, AppendRow
  PROVE  IInv'
<1> DEFINE n == Len(pane.rows)
           row == Incoming(n + 1)
           rows == Append(pane.rows, row)
<1>1. /\ DiskOK(disk) /\ worker \in Seq(Answer) /\ pane \in PaneRecord /\ PaneOK(disk, pane, worker)
      /\ Base(disk, pane) /\ RowsOK(disk, pane) /\ SortOK(pane)
  BY InvFacts
<1>2. PICK phase \in {"loading", "complete"} :
        pane' = Merged([pane EXCEPT !.rows = rows, !.phase = phase])
  BY DEF AppendRow
<1>3. pane.phase = "loading" /\ n < LastRow /\ disk' = disk /\ worker' = worker
  BY DEF AppendRow
<1>4. pane.rows \in Seq(Row) /\ n \in Nat /\ DOMAIN pane.rows = 1 .. n /\ \A i \in DOMAIN pane.rows : pane.rows[i].id \in Nat
  BY <1>1, RowTypes
<1> DEFINE q == [pane EXCEPT !.rows = rows, !.phase = phase]
<1>5. n + 1 \in Ids
  <2> HIDE DEF n
  <2> QED  BY <1>3, <1>4, RowsAssumption DEF Ids
<1>6. row \in Row /\ row.id = n + 1 /\ RowOK(disk, pane.key, row)
  BY <1>1, <1>5, IncomingIs
<1> HIDE DEF row
<1>7. /\ rows \in Seq(Row) /\ Len(rows) = n + 1 /\ DOMAIN rows = 1 .. n + 1
      /\ \A i \in 1 .. n : rows[i] = pane.rows[i]
      /\ rows[n + 1] = row
  BY <1>4, <1>6, AppendProperties
<1> HIDE DEF rows
<1>8. /\ q \in PaneRecord /\ q.rows = rows /\ q.phase = phase /\ q.watch = pane.watch
      /\ q.key = pane.key /\ q.pending = pane.pending /\ q.cache = pane.cache /\ q.images = pane.images
  <2> HIDE DEF n
  <2> QED  BY <1>1, <1>7 DEF PaneRecord
<1> HIDE DEF q, n
<1>9. \A i \in DOMAIN rows : i \in 1 .. n \/ i = n + 1
  BY <1>4, <1>7
<1>10. \A i \in 1 .. n : pane.rows[i].id <= n /\ RowOK(disk, pane.key, pane.rows[i])
  BY <1>1, <1>3, <1>4 DEF RowsOK, n
<1>11. Follows(pane, q)
  <2>1. q.phase = "loading" => pane.phase = "loading" /\ Len(pane.rows) <= Len(q.rows)
    BY <1>3, <1>4, <1>7, <1>8 DEF n
  <2>2. ASSUME NEW j \in DOMAIN q.rows
        PROVE  \/ \E i \in DOMAIN pane.rows : q.rows[j] = pane.rows[i]
               \/ pane.phase = "loading" /\ q.rows[j].id > Len(pane.rows)
    <3>1. CASE j \in 1 .. n
      BY <1>4, <1>7, <1>8, <3>1
    <3>2. CASE j = n + 1
      <4>1. q.rows[j].id = n + 1
        BY <1>6, <1>7, <1>8, <3>2
      <4> QED  BY <1>3, <1>4, <4>1 DEF n
    <3> QED  BY <1>8, <1>9, <3>1, <3>2
  <2> QED  BY <2>1, <2>2, Zenon DEF Follows
<1>12. RowsOK(disk, q)
  <2>1. \A i \in DOMAIN q.rows : RowOK(disk, q.key, q.rows[i])
    BY <1>6, <1>7, <1>8, <1>9, <1>10
  <2>2. ASSUME NEW i \in DOMAIN q.rows, NEW j \in DOMAIN q.rows, q.rows[i].id = q.rows[j].id
        PROVE  i = j
    <3>1. CASE i \in 1 .. n /\ j \in 1 .. n
      BY <1>1, <1>4, <1>7, <1>8, <2>2, <3>1 DEF RowsOK
    <3>2. CASE i = n + 1 /\ j = n + 1
      BY <3>2
    <3>3. CASE i \in 1 .. n /\ j = n + 1
      BY <1>4, <1>6, <1>7, <1>8, <1>10, <2>2, <3>3
    <3>4. CASE i = n + 1 /\ j \in 1 .. n
      BY <1>4, <1>6, <1>7, <1>8, <1>10, <2>2, <3>4
    <3> QED  BY <1>8, <1>9, <3>1, <3>2, <3>3, <3>4
  <2>3. \A i \in DOMAIN q.rows : q.rows[i].id <= Len(q.rows)
    <3> TAKE i \in DOMAIN q.rows
    <3>1. q.rows[i].id <= n + 1
      BY <1>4, <1>6, <1>7, <1>8, <1>9, <1>10
    <3> QED  BY <1>7, <1>8, <3>1
  <2> QED  BY <2>1, <2>2, <2>3 DEF RowsOK
<1>13. Base(disk, q)
  BY <1>1, <1>8, <1>11, <1>12, BaseFollows
<1>14. q.pending = (q.key # "name") /\ q.watch # "recovering"
  BY <1>1, <1>3, <1>8 DEF SortOK, PaneRecord
<1>15. PaneOK(disk, Merged(q), worker)
  BY <1>1, <1>13, <1>14, MergedOK
<1> QED  BY <1>2, <1>3, <1>15, PaneKeeps DEF q

LEMMA LastBatchKeeps ==
  ASSUME IInv, LastBatch
  PROVE  IInv'
<1> DEFINE q == [pane EXCEPT !.phase = "complete"]
<1>1. /\ worker \in Seq(Answer) /\ pane \in PaneRecord /\ Base(disk, pane) /\ RowsOK(disk, pane)
      /\ Lookups(pane, worker) /\ SortOK(pane)
  BY InvFacts
<1>2. pane' = Posted(Finished(q)) /\ disk' = disk /\ worker' = worker
  BY DEF LastBatch
<1>3. /\ q \in PaneRecord
      /\ q.rows = pane.rows /\ q.phase = "complete" /\ q.watch = pane.watch /\ q.key = pane.key
      /\ q.pending = pane.pending /\ q.cursor = pane.cursor /\ q.failed = pane.failed /\ q.order = pane.order
      /\ q.interest = pane.interest /\ q.owed = pane.owed /\ q.size = pane.size
      /\ q.cache = pane.cache /\ q.images = pane.images
      /\ q.queue = pane.queue /\ q.results = pane.results /\ q.fresh = pane.fresh
  BY <1>1 DEF PaneRecord
<1> HIDE DEF q
<1>4. Follows(pane, q)
  BY <1>3 DEF Follows
<1>5. RowsOK(disk, q)
  BY <1>1, <1>3 DEF RowsOK
<1>6. Base(disk, q)
  BY <1>1, <1>3, <1>4, <1>5, BaseFollows
<1>7. AnswersOK(q, worker)
  BY <1>1, <1>3, <1>4, AnswersStay DEF Lookups
<1>8. BoundsOK(q) /\ Coming(q, worker) /\ CursorOK(q) /\ OrderOK(q)
  <2>1. BoundsOK(q) /\ Coming(q, worker)
    BY <1>1, <1>3 DEF Lookups, BoundsOK, Coming
  <2> QED  BY <1>1, <1>3, <2>1, SameCursor, SameOrder DEF Lookups
<1>9. SortOK(q)
  BY <1>1, <1>3 DEF SortOK, Resolved
<1>10. PaneOK(disk, q, worker)
  BY <1>6, <1>7, <1>8, <1>9 DEF PaneOK, Lookups
<1>11. PaneOK(disk, Posted(Finished(q)), worker)
  BY <1>1, <1>10, FinishedOK, PostedOK
<1> QED  BY <1>2, <1>11, PaneKeeps

\* The images of other items are as good for rows that replace those of one.
LEMMA ForgottenBase ==
  ASSUME NEW d, NEW p, Base(d, p), NEW q \in PaneRecord, NEW id,
         q.cache = p.cache, q.images = p.images, RowsOK(d, q),
         q.phase = "loading" => p.phase = "loading" /\ Len(p.rows) <= Len(q.rows),
         \A j \in DOMAIN q.rows : q.rows[j].id = id \/ \E i \in DOMAIN p.rows : q.rows[j] = p.rows[i]
  PROVE  Base(d, Forgotten(q, id)) /\ ButCache(q, Forgotten(q, id))
<1> DEFINE f == Forgotten(q, id)
<1>1. p \in PaneRecord /\ CacheOK(p.cache, p.images) /\ ImagesOK(p, p.cache, p.images)
  BY DEF Base
<1>2. /\ ButCache(q, f) /\ CacheOK(f.cache, f.images)
      /\ \A j \in DOMAIN f.cache :
           /\ f.cache[j].key.id # id
           /\ \E k \in DOMAIN q.cache : /\ f.cache[j].key = q.cache[k].key
                                        /\ f.images[f.cache[j].slot] = q.images[q.cache[k].slot]
  BY <1>1, ForgottenIs
<1> HIDE DEF f
<1>3. f \in PaneRecord /\ f.rows = q.rows /\ f.phase = q.phase /\ f.key = q.key
  BY <1>2 DEF ButCache
<1>4. RowsOK(d, f)
  BY <1>3 DEF RowsOK
<1>5. ASSUME NEW j \in DOMAIN f.cache
      PROVE  KeyOK(f, f.cache[j].key) /\ ReadOK(f, f.cache[j].key, f.images[f.cache[j].slot].look)
  <2>1. PICK k \in DOMAIN p.cache : /\ f.cache[j].key = p.cache[k].key
                                    /\ f.images[f.cache[j].slot] = p.images[p.cache[k].slot]
    BY <1>2
  <2> DEFINE key == p.cache[k].key
             look == p.images[p.cache[k].slot].look
  <2>2. KeyOK(p, key) /\ ReadOK(p, key, look) /\ key \in Key /\ key.id # id
    BY <1>1, <1>2, <2>1, CacheTypes DEF ImagesOK
  <2>3. key.id \in Int /\ key.id <= LastRow /\ Len(p.rows) \in Nat /\ Len(q.rows) \in Nat
    BY <1>1, <2>2, KeyTypes, RowTypes
  <2>4. f.cache[j].key = key /\ f.images[f.cache[j].slot].look = look
    BY <2>1
  <2> HIDE DEF key, look
  <2>5. ASSUME NEW r \in DOMAIN f.rows, f.rows[r].id = key.id
        PROVE  \E i \in DOMAIN p.rows : f.rows[r] = p.rows[i]
    BY <1>3, <2>2, <2>5
  <2>6. KeyOK(f, key)
    <3>1. \A r \in DOMAIN f.rows : f.rows[r].id = key.id => key.stamp <= f.rows[r].stamp
      BY <2>2, <2>5 DEF KeyOK
    <3>2. f.phase = "loading" => key.id <= Len(f.rows)
      BY <1>3, <2>2, <2>3 DEF KeyOK
    <3> QED  BY <3>1, <3>2 DEF KeyOK
  <2>7. ReadOK(f, key, look)
    BY <2>2, <2>5 DEF ReadOK
  <2> QED  BY <2>4, <2>6, <2>7
<1>6. ImagesOK(f, f.cache, f.images)
  BY <1>5 DEF ImagesOK
<1> QED  BY <1>2, <1>3, <1>4, <1>6 DEF Base, f

LEMMA DeltaKeeps ==
  ASSUME IInv, NEW id \in Ids, Delta(id)
  PROVE  IInv'
<1> DEFINE left == Without(pane.rows, {id})
           rows == IF id \in Present THEN Append(left, Incoming(id)) ELSE left
           q == [pane EXCEPT !.rows = rows, !.pending = pane.key # "name"]
           f == Forgotten(q, id)
<1>1. /\ DiskOK(disk) /\ worker \in Seq(Answer) /\ pane \in PaneRecord /\ Base(disk, pane) /\ RowsOK(disk, pane)
  BY InvFacts
<1>2. /\ pane' = Merged(f) /\ disk' = disk /\ worker' = worker
      /\ pane.phase = "complete" /\ pane.watch # "recovering"
  BY DEF Delta
<1>3. pane.rows \in Seq(Row) /\ \A i, j \in DOMAIN pane.rows : pane.rows[i].id = pane.rows[j].id => i = j
  BY <1>1, RowTypes DEF RowsOK
<1>4. /\ left \in Seq(Row)
      /\ \A i, j \in DOMAIN left : left[i].id = left[j].id => i = j
      /\ \A j \in DOMAIN left : left[j].id \notin {id} /\ \E i \in DOMAIN pane.rows : left[j] = pane.rows[i]
  BY <1>3, WithoutIs
<1> HIDE DEF left
<1>5. Incoming(id) \in Row /\ Incoming(id).id = id /\ RowOK(disk, pane.key, Incoming(id))
  BY <1>1, IncomingIs
<1> DEFINE n == Len(left)
           last == Incoming(id)
<1>6. n \in Nat /\ DOMAIN left = 1 .. n
  BY <1>4
<1> HIDE DEF last
<1>7. /\ Append(left, last) \in Seq(Row) /\ DOMAIN Append(left, last) = 1 .. n + 1
      /\ \A i \in 1 .. n : Append(left, last)[i] = left[i]
      /\ Append(left, last)[n + 1] = last
  BY <1>4, <1>5, <1>6, AppendProperties DEF last
<1>8. rows = IF id \in Present THEN Append(left, last) ELSE left
  BY DEF last
<1> HIDE DEF rows, n
<1>9. /\ rows \in Seq(Row)
      /\ \A j \in DOMAIN rows : \/ j \in DOMAIN left /\ rows[j] = left[j]
                                \/ j = n + 1 /\ rows[j] = last
  <2>1. \A j \in 1 .. n + 1 : j \in 1 .. n \/ j = n + 1
    BY <1>6
  <2> QED  BY <1>4, <1>6, <1>7, <1>8, <2>1
<1>10. /\ q \in PaneRecord /\ q.rows = rows /\ q.phase = pane.phase /\ q.watch = pane.watch /\ q.key = pane.key
       /\ q.pending = (pane.key # "name") /\ q.cache = pane.cache /\ q.images = pane.images
  BY <1>1, <1>9 DEF PaneRecord
<1> HIDE DEF q
<1>11. RowsOK(disk, q)
  <2>1. ASSUME NEW j \in DOMAIN rows
        PROVE  RowOK(disk, pane.key, rows[j])
    <3>1. CASE j \in DOMAIN left /\ rows[j] = left[j]
      BY <1>1, <1>4, <3>1 DEF RowsOK
    <3>2. CASE rows[j] = last
      BY <1>5, <3>2 DEF last
    <3> QED  BY <1>9, <3>1, <3>2
  <2>2. ASSUME NEW i \in DOMAIN rows, NEW j \in DOMAIN rows, rows[i].id = rows[j].id
        PROVE  i = j
    <3>1. last.id = id /\ \A k \in DOMAIN left : left[k].id # id
      BY <1>4, <1>5 DEF last
    <3> QED  BY <1>4, <1>9, <2>2, <3>1
  <2> QED  BY <1>2, <1>10, <2>1, <2>2 DEF RowsOK
<1>12. \A j \in DOMAIN q.rows : q.rows[j].id = id \/ \E i \in DOMAIN pane.rows : q.rows[j] = pane.rows[i]
  BY <1>4, <1>5, <1>9, <1>10 DEF last
<1>13. Base(disk, f) /\ ButCache(q, f)
  BY <1>1, <1>2, <1>10, <1>11, <1>12, ForgottenBase
<1> HIDE DEF f
<1>14. f.pending = (f.key # "name") /\ f.watch # "recovering"
  BY <1>2, <1>10, <1>13 DEF ButCache
<1>15. PaneOK(disk, Merged(f), worker)
  BY <1>1, <1>13, <1>14, MergedOK
<1> QED  BY <1>2, <1>15, PaneKeeps

LEMMA BeginRescanKeeps ==
  ASSUME IInv, BeginRescan
  PROVE  IInv'
<1> DEFINE q == [pane EXCEPT !.watch = "recovering"]
<1>1. /\ worker \in Seq(Answer) /\ pane \in PaneRecord /\ Base(disk, pane)
      /\ Lookups(pane, worker) /\ SortOK(pane)
  BY InvFacts
<1>2. pane' = Posted(Finished(q)) /\ disk' = disk /\ worker' = worker /\ pane.phase = "complete"
  BY DEF BeginRescan
<1>3. /\ q \in PaneRecord
      /\ q.rows = pane.rows /\ q.phase = pane.phase /\ q.watch = "recovering" /\ q.key = pane.key
      /\ q.pending = pane.pending /\ q.cursor = pane.cursor /\ q.failed = pane.failed /\ q.order = pane.order
      /\ q.interest = pane.interest /\ q.owed = pane.owed /\ q.size = pane.size
      /\ q.cache = pane.cache /\ q.images = pane.images
      /\ q.queue = pane.queue /\ q.results = pane.results /\ q.fresh = pane.fresh
  BY <1>1 DEF PaneRecord
<1> HIDE DEF q
<1>4. Base(disk, q)
  BY <1>1, <1>3, SameBase
<1>5. Lookups(q, worker)
  <2>1. BoundsOK(q) /\ Coming(q, worker)
    BY <1>1, <1>3 DEF Lookups, BoundsOK, Coming
  <2>2. CursorOK(q) /\ OrderOK(q)
    BY <1>3 DEF CursorOK, OrderOK
  <2>3. AnswersOK(q, worker)
    BY <1>1, <1>3, FollowsSame, AnswersStay DEF Lookups
  <2> QED  BY <2>1, <2>2, <2>3 DEF Lookups
<1>6. SortOK(q)
  BY <1>1, <1>2, <1>3 DEF SortOK, Resolved
<1>7. PaneOK(disk, Posted(Finished(q)), worker)
  BY <1>1, <1>4, <1>5, <1>6, FinishedOK, PostedOK DEF PaneOK
<1> QED  BY <1>2, <1>7, PaneKeeps

LEMMA RescanRowKeeps ==
  ASSUME IInv, RescanRow
  PROVE  IInv'
<1>1. /\ DiskOK(disk) /\ worker \in Seq(Answer) /\ pane \in PaneRecord /\ Base(disk, pane) /\ RowsOK(disk, pane)
      /\ Lookups(pane, worker) /\ SortOK(pane)
  BY InvFacts
<1>2. PICK i \in DOMAIN pane.rows :
        /\ pane.rows[i].stamp # disk[pane.rows[i].id].stamp
        /\ pane' = Posted(Finished([Rescanned(i) EXCEPT !.pending = pane.key # "name"]))
  BY DEF RescanRow
<1>3. disk' = disk /\ worker' = worker /\ pane.watch = "recovering"
  BY DEF RescanRow
<1> DEFINE old == pane.rows[i]
           row == Incoming(old.id)
           rows == [pane.rows EXCEPT ![i] = row]
           q == [pane EXCEPT !.rows = rows]
           f == Forgotten(q, old.id)
           t == [f EXCEPT !.pending = pane.key # "name"]
           n == Len(pane.rows)
<1>4. pane.rows \in Seq(Row) /\ n \in Nat /\ DOMAIN pane.rows = 1 .. n
      /\ \A j \in DOMAIN pane.rows : pane.rows[j].id \in Ids
      /\ old \in Row /\ old.id \in Ids /\ old.stamp \in Nat
  BY <1>1, RowTypes
<1>5. /\ row \in Row /\ row.id = old.id /\ row.stamp = disk[old.id].stamp
      /\ RowOK(disk, pane.key, row)
  BY <1>1, <1>4, IncomingIs
<1>6. row.stamp > old.stamp
  <2>1. old.stamp <= disk[old.id].stamp /\ disk[old.id].stamp \in Nat
    BY <1>1, <1>4 DEF RowsOK, RowOK, DiskOK
  <2>2. old.stamp # disk[old.id].stamp
    BY <1>2
  <2> HIDE DEF row, old
  <2> QED  BY <1>4, <1>5, <2>1, <2>2
<1>7. Rescanned(i) = f
  <2>1. [pane EXCEPT !.rows[i] = Incoming(old.id)] = q
    BY <1>1 DEF PaneRecord
  <2> QED  BY <1>2, <2>1 DEF Rescanned
<1> HIDE DEF row
<1>8. /\ rows \in Seq(Row) /\ Len(rows) = n /\ DOMAIN rows = DOMAIN pane.rows
      /\ \A j \in DOMAIN pane.rows : rows[j] = IF j = i THEN row ELSE pane.rows[j]
  <2> HIDE DEF old
  <2> QED  BY <1>4, <1>5
<1> HIDE DEF rows, n
<1>9. \A j \in DOMAIN pane.rows : rows[j].id = pane.rows[j].id
  BY <1>5, <1>8
<1>10. /\ q \in PaneRecord
       /\ q.rows = rows /\ q.phase = pane.phase /\ q.watch = pane.watch /\ q.key = pane.key
       /\ q.cursor = pane.cursor /\ q.interest = pane.interest /\ q.owed = pane.owed
       /\ q.cache = pane.cache /\ q.images = pane.images
       /\ q.queue = pane.queue /\ q.results = pane.results /\ q.fresh = pane.fresh
  BY <1>1, <1>8 DEF PaneRecord
<1> HIDE DEF q
<1>11. Len(q.rows) = Len(pane.rows)
  BY <1>8, <1>10 DEF n
<1>12. RowsOK(disk, q)
  <2>1. \A j \in DOMAIN rows : RowOK(disk, pane.key, rows[j])
    BY <1>1, <1>5, <1>8 DEF RowsOK
  <2> QED  BY <1>1, <1>8, <1>9, <1>10, <1>11, <2>1 DEF RowsOK
<1>13. \A j \in DOMAIN q.rows : q.rows[j].id = old.id \/ \E k \in DOMAIN pane.rows : q.rows[j] = pane.rows[k]
  BY <1>5, <1>8, <1>10
<1>14. Base(disk, f) /\ ButCache(q, f)
  <2>1. q.phase = "loading" => pane.phase = "loading" /\ Len(pane.rows) <= Len(q.rows)
    BY <1>4, <1>10, <1>11 DEF n
  <2> HIDE DEF old
  <2> QED  BY <1>1, <1>10, <1>12, <1>13, <2>1, ForgottenBase
<1> HIDE DEF f, old
<1>15. /\ f \in PaneRecord
       /\ f.rows = rows /\ f.phase = pane.phase /\ f.watch = pane.watch /\ f.key = pane.key
       /\ f.cursor = pane.cursor /\ f.interest = pane.interest /\ f.owed = pane.owed
       /\ f.queue = pane.queue /\ f.results = pane.results /\ f.fresh = pane.fresh
  BY <1>10, <1>14 DEF ButCache
<1>16. /\ t \in PaneRecord /\ t.pending = (pane.key # "name")
       /\ t.rows = rows /\ t.phase = pane.phase /\ t.watch = pane.watch /\ t.key = pane.key
       /\ t.cursor = pane.cursor /\ t.interest = pane.interest /\ t.owed = pane.owed
       /\ t.queue = pane.queue /\ t.results = pane.results /\ t.fresh = pane.fresh
       /\ t.cache = f.cache /\ t.images = f.images
  <2>1. /\ t \in PaneRecord /\ t.pending = (pane.key # "name")
        /\ t.rows = f.rows /\ t.phase = f.phase /\ t.watch = f.watch /\ t.key = f.key
        /\ t.cursor = f.cursor /\ t.interest = f.interest /\ t.owed = f.owed
        /\ t.queue = f.queue /\ t.results = f.results /\ t.fresh = f.fresh
        /\ t.cache = f.cache /\ t.images = f.images
    BY <1>15 DEF PaneRecord
  <2> HIDE DEF t
  <2> QED  BY <1>15, <2>1
<1> HIDE DEF t
<1>17. Base(disk, t)
  BY <1>14, <1>15, <1>16, SameBase
<1>18. Follows(pane, t)
  <2>1. t.phase = pane.phase /\ Len(t.rows) = Len(pane.rows) /\ Len(pane.rows) \in Nat /\ t.rows = rows
    BY <1>4, <1>10, <1>11, <1>16 DEF n
  <2>2. ASSUME NEW j \in DOMAIN rows
        PROVE  \/ \E k \in DOMAIN pane.rows : rows[j] = pane.rows[k]
               \/ \E k \in DOMAIN pane.rows : rows[j].id = pane.rows[k].id /\ rows[j].stamp > pane.rows[k].stamp
    BY <1>5, <1>6, <1>8 DEF old
  <2> QED  BY <2>1, <2>2 DEF Follows
<1>19. Lookups(t, worker)
  <2>1. BoundsOK(t)
    BY <1>1, <1>10, <1>11, <1>16 DEF Lookups, BoundsOK
  <2>2. Coming(t, worker)
    BY <1>1, <1>16 DEF Lookups, Coming
  <2>3. AnswersOK(t, worker)
    BY <1>1, <1>16, <1>18, AnswersStay DEF Lookups
  <2>4. CursorOK(t) /\ OrderOK(t)
    BY <1>3, <1>16 DEF CursorOK, OrderOK
  <2> QED  BY <2>1, <2>2, <2>3, <2>4 DEF Lookups
<1>20. SortOK(t)
  BY <1>1, <1>3, <1>16 DEF SortOK
<1>21. PaneOK(disk, Posted(Finished(t)), worker)
  BY <1>1, <1>17, <1>19, <1>20, FinishedOK, PostedOK DEF PaneOK
<1> QED  BY <1>2, <1>3, <1>7, <1>21, PaneKeeps DEF t

LEMMA EndRescanKeeps ==
  ASSUME IInv, EndRescan
  PROVE  IInv'
<1> DEFINE rows == Without(pane.rows, Ids \ Present)
           q == [pane EXCEPT !.rows = rows, !.watch = "watching", !.pending = pane.key # "name"]
<1>1. /\ worker \in Seq(Answer) /\ pane \in PaneRecord /\ Base(disk, pane) /\ RowsOK(disk, pane) /\ SortOK(pane)
  BY InvFacts
<1>2. pane' = Merged(q) /\ disk' = disk /\ worker' = worker /\ pane.watch = "recovering"
  BY DEF EndRescan
<1>3. pane.rows \in Seq(Row) /\ \A i, j \in DOMAIN pane.rows : pane.rows[i].id = pane.rows[j].id => i = j
  BY <1>1, RowTypes DEF RowsOK
<1>4. /\ rows \in Seq(Row)
      /\ \A i, j \in DOMAIN rows : rows[i].id = rows[j].id => i = j
      /\ \A j \in DOMAIN rows : \E i \in DOMAIN pane.rows : rows[j] = pane.rows[i]
  <2> DEFINE gone == Ids \ Present
             left == Without(pane.rows, gone)
  <2> HIDE DEF gone
  <2>1. /\ left \in Seq(Row)
        /\ \A i, j \in DOMAIN left : left[i].id = left[j].id => i = j
        /\ \A j \in DOMAIN left : left[j].id \notin gone /\ \E i \in DOMAIN pane.rows : left[j] = pane.rows[i]
    BY <1>3, WithoutIs
  <2>2. left = rows
    BY DEF gone
  <2> HIDE DEF left, rows
  <2> QED  BY <2>1, <2>2
<1> HIDE DEF rows
<1>5. /\ q \in PaneRecord /\ q.rows = rows /\ q.phase = pane.phase /\ q.watch = "watching" /\ q.key = pane.key
      /\ q.pending = (pane.key # "name") /\ q.cache = pane.cache /\ q.images = pane.images
  BY <1>1, <1>4 DEF PaneRecord
<1> HIDE DEF q
<1>6. pane.phase = "complete"
  BY <1>1, <1>2 DEF SortOK
<1>7. Follows(pane, q)
  BY <1>4, <1>5, <1>6 DEF Follows
<1>8. RowsOK(disk, q)
  <2>1. \A j \in DOMAIN rows : RowOK(disk, pane.key, rows[j])
    BY <1>1, <1>4 DEF RowsOK
  <2> QED  BY <1>4, <1>5, <1>6, <2>1 DEF RowsOK
<1>9. Base(disk, q)
  BY <1>1, <1>5, <1>7, <1>8, BaseFollows
<1>10. PaneOK(disk, Merged(q), worker)
  BY <1>1, <1>5, <1>9, MergedOK
<1> QED  BY <1>2, <1>10, PaneKeeps

LEMMA ChangeKeeps ==
  ASSUME IInv, NEW id \in Ids, NEW what, Change(id, what)
  PROVE  IInv'
<1>1. /\ DiskOK(disk) /\ worker \in Seq(Answer) /\ pane \in PaneRecord /\ PaneOK(disk, pane, worker)
      /\ RowsOK(disk, pane)
  BY InvFacts
<1> DEFINE item == [stamp |-> IF what = "content" THEN disk[id].stamp + 1 ELSE disk[id].stamp,
                    look |-> IF what = "deleted" THEN 0 ELSE disk[id].look + 1]
<1>2. disk' = [disk EXCEPT ![id] = item] /\ pane' = pane /\ worker' = worker
  BY DEF Change
<1>3. disk[id].stamp \in Nat /\ disk[id].look \in Nat
  BY <1>1 DEF DiskOK
<1>4. /\ item \in [stamp : Nat, look : Nat] /\ item.stamp \in Nat /\ item.look \in Nat
      /\ disk[id].stamp <= item.stamp /\ (item.look = 0 \/ disk[id].look <= item.look)
  BY <1>3
<1> HIDE DEF item
<1>5. DiskOK(disk') /\ \A i \in Ids : disk'[i] = IF i = id THEN item ELSE disk[i]
  BY <1>1, <1>2, <1>4 DEF DiskOK
<1>6. disk[id].look # 0
  BY DEF Change, Present
<1>7. RowsOK(disk', pane)
  <2>1. ASSUME NEW i \in DOMAIN pane.rows
        PROVE  RowOK(disk', pane.key, pane.rows[i])
    <3> DEFINE row == pane.rows[i]
    <3>1. row \in Row /\ row.id \in Ids /\ row.stamp \in Nat /\ row.look \in Nat
      BY <1>1, RowTypes
    <3>2. RowOK(disk, pane.key, row)
      BY <1>1 DEF RowsOK
    <3> HIDE DEF row
    <3>3. disk'[row.id] = IF row.id = id THEN item ELSE disk[row.id]
      BY <1>5, <3>1
    <3>4. /\ row.stamp <= disk[row.id].stamp
          /\ disk[row.id].look = 0 \/ row.look <= disk[row.id].look
      BY <3>2 DEF RowOK
    <3>5. /\ row.stamp <= disk'[row.id].stamp
          /\ disk'[row.id].look = 0 \/ row.look <= disk'[row.id].look
      <4>1. CASE row.id = id
        <5>1. disk'[row.id] = item /\ row.stamp <= disk[id].stamp /\ row.look <= disk[id].look
          BY <1>6, <3>3, <3>4, <4>1
        <5> HIDE <1>2
        <5> QED  BY <1>3, <1>4, <3>1, <5>1
      <4>2. CASE row.id # id
        BY <3>3, <3>4, <4>2
      <4> QED  BY <4>1, <4>2
    <3>6. RowOK(disk', pane.key, row)
      BY <3>2, <3>5 DEF RowOK
    <3> QED  BY <3>6 DEF row
  <2> QED  BY <1>1, <2>1 DEF RowsOK
<1>8. PaneOK(disk', pane, worker)
  BY <1>1, <1>7 DEF PaneOK, Base
<1> QED  BY <1>2, <1>5, <1>8 DEF IInv

LEMMA ScrollKeeps ==
  ASSUME IInv, NEW first \in 1 .. LastRow, Scroll(first)
  PROVE  IInv'
<1> DEFINE q == [pane EXCEPT !.first = first]
<1>1. worker \in Seq(Answer) /\ pane \in PaneRecord /\ PaneOK(disk, pane, worker)
  BY InvFacts
<1>2. pane' = Posted(q) /\ disk' = disk /\ worker' = worker
  BY DEF Scroll, Commanded
<1>3. /\ q \in PaneRecord
      /\ q.rows = pane.rows /\ q.phase = pane.phase /\ q.watch = pane.watch /\ q.key = pane.key
      /\ q.pending = pane.pending /\ q.cursor = pane.cursor /\ q.failed = pane.failed /\ q.order = pane.order
      /\ q.interest = pane.interest /\ q.owed = pane.owed /\ q.size = pane.size
      /\ q.cache = pane.cache /\ q.images = pane.images
      /\ q.queue = pane.queue /\ q.results = pane.results /\ q.fresh = pane.fresh
  BY <1>1 DEF PaneRecord, Ids
<1> HIDE DEF q
<1>4. PaneOK(disk, Posted(q), worker)
  BY <1>1, <1>3, SamePane, PostedOK
<1> QED  BY <1>2, <1>4, PaneKeeps

LEMMA ResizeKeeps ==
  ASSUME IInv, NEW size \in {1, 2}, Resize(size)
  PROVE  IInv'
<1> DEFINE q == [pane EXCEPT !.wanted = size]
<1>1. worker \in Seq(Answer) /\ pane \in PaneRecord /\ PaneOK(disk, pane, worker) /\ size \in Nat
  BY InvFacts
<1>2. pane' = Posted(q) /\ disk' = disk /\ worker' = worker
  BY DEF Resize, Commanded
<1>3. /\ q \in PaneRecord
      /\ q.rows = pane.rows /\ q.phase = pane.phase /\ q.watch = pane.watch /\ q.key = pane.key
      /\ q.pending = pane.pending /\ q.cursor = pane.cursor /\ q.failed = pane.failed /\ q.order = pane.order
      /\ q.interest = pane.interest /\ q.owed = pane.owed /\ q.size = pane.size
      /\ q.cache = pane.cache /\ q.images = pane.images
      /\ q.queue = pane.queue /\ q.results = pane.results /\ q.fresh = pane.fresh
  BY <1>1 DEF PaneRecord
<1> HIDE DEF q
<1>4. PaneOK(disk, Posted(q), worker)
  BY <1>1, <1>3, SamePane, PostedOK
<1> QED  BY <1>2, <1>4, PaneKeeps

\* A row that forgets the property of the last sort.
LEMMA BlankedIs ==
  ASSUME NEW row \in Row, NEW new, new = [row EXCEPT !.properties.sort = Unresolved]
  PROVE  /\ new \in Row /\ new.id = row.id /\ new.stamp = row.stamp /\ new.look = row.look
         /\ new.properties.type = row.properties.type /\ new.properties.sort = Unresolved
<1> DEFINE properties == [row.properties EXCEPT !.sort = Unresolved]
<1>1. row.properties \in [type : Value, sort : Value]
  BY DEF Row
<1>2. Unresolved \in Value
  BY KeysAssumption DEF Unresolved, Value
<1>3. /\ properties \in [type : Value, sort : Value]
      /\ properties.type = row.properties.type /\ properties.sort = Unresolved
  BY <1>1, <1>2
<1>4. new = [row EXCEPT !.properties = properties]
  OBVIOUS
<1> HIDE DEF properties
<1>5. /\ new \in Row /\ new.id = row.id /\ new.stamp = row.stamp /\ new.look = row.look
      /\ new.properties = properties
  BY <1>3, <1>4 DEF Row
<1> QED  BY <1>3, <1>5

LEMMA SortByKeeps ==
  ASSUME IInv, NEW key \in Keys, SortBy(key)
  PROVE  IInv'
<1> DEFINE Blank(row) == [row EXCEPT !.properties.sort = Unresolved]
           c == Cancelled(pane)
           other == [c EXCEPT !.key = key, !.failed = FALSE, !.rows = [i \in DOMAIN @ |-> Blank(@[i])]]
           keyed == IF key = pane.key THEN pane ELSE other
           q == [keyed EXCEPT !.pending = key # "name", !.cursor = 0, !.order = NoOrder]
<1>1. /\ worker \in Seq(Answer) /\ pane \in PaneRecord /\ Base(disk, pane) /\ RowsOK(disk, pane)
      /\ Lookups(pane, worker) /\ SortOK(pane)
  BY InvFacts
<1>2. pane' = Posted(Finished(Sorted(q))) /\ disk' = disk /\ worker' = worker
  BY DEF SortBy, Commanded
<1>3. /\ keyed \in PaneRecord /\ keyed.key = key /\ Base(disk, keyed)
      /\ keyed.phase = pane.phase /\ keyed.watch = pane.watch
      /\ BoundsOK(keyed) /\ AnswersOK(keyed, worker) /\ Coming(keyed, worker)
  <2>1. CASE key = pane.key
    BY <1>1, <2>1 DEF Lookups
  <2>2. CASE key # pane.key
    <3>1. /\ c \in PaneRecord
          /\ c.rows = pane.rows /\ c.phase = pane.phase /\ c.watch = pane.watch
          /\ c.cache = pane.cache /\ c.images = pane.images
          /\ c.queue = <<>> /\ c.results = <<>> /\ c.fresh = FALSE
          /\ c.interest = <<>> /\ c.owed = {} /\ c.cursor = 0 /\ c.order = NoOrder
      BY <1>1, CancelledIs
    <3> HIDE DEF c
    <3> DEFINE rows == [i \in DOMAIN c.rows |-> Blank(c.rows[i])]
    <3>2. other = [c EXCEPT !.key = key, !.failed = FALSE, !.rows = rows]
      OBVIOUS
    <3>3. pane.rows \in Seq(Row) /\ DOMAIN pane.rows = 1 .. Len(pane.rows) /\ Len(pane.rows) \in Nat
          /\ \A i \in DOMAIN pane.rows : pane.rows[i] \in Row
      BY <1>1, RowTypes
    <3>4. DOMAIN rows = DOMAIN pane.rows /\ \A i \in DOMAIN pane.rows : rows[i] = Blank(pane.rows[i])
      BY <3>1
    <3>5. ASSUME NEW i \in DOMAIN pane.rows
          PROVE  /\ rows[i] \in Row /\ rows[i].id = pane.rows[i].id /\ rows[i].stamp = pane.rows[i].stamp
                 /\ rows[i].look = pane.rows[i].look
                 /\ rows[i].properties.type = pane.rows[i].properties.type
                 /\ rows[i].properties.sort = Unresolved
      <4>1. pane.rows[i] \in Row /\ rows[i] = [pane.rows[i] EXCEPT !.properties.sort = Unresolved]
        BY <3>3, <3>4
      <4> HIDE DEF rows
      <4> QED  BY <4>1, BlankedIs
    <3>6. rows \in Seq(Row) /\ Len(rows) = Len(pane.rows)
      <4> DEFINE n == Len(pane.rows)
      <4>1. n \in Nat /\ rows = [i \in 1 .. n |-> Blank(c.rows[i])] /\ \A i \in 1 .. n : rows[i] \in Row
        BY <3>1, <3>3, <3>5
      <4> HIDE DEF n
      <4>2. \A i \in 1 .. n : Blank(c.rows[i]) \in Row
        BY <4>1
      <4> HIDE DEF rows, Blank
      <4>3. rows \in Seq(Row) /\ Len(rows) = n
        BY <4>1, <4>2
      <4> QED  BY <4>3 DEF n
    <3> HIDE DEF rows, other
    <3>7. /\ other \in PaneRecord /\ other.rows = rows /\ other.key = key
          /\ other.phase = pane.phase /\ other.watch = pane.watch
          /\ other.cache = pane.cache /\ other.images = pane.images
          /\ other.queue = <<>> /\ other.results = <<>> /\ other.fresh = FALSE
          /\ other.interest = <<>> /\ other.owed = {} /\ other.cursor = 0 /\ other.order = NoOrder
      <4>1. /\ other \in PaneRecord /\ other.rows = rows /\ other.key = key
            /\ other.phase = c.phase /\ other.watch = c.watch
            /\ other.cache = c.cache /\ other.images = c.images
            /\ other.queue = c.queue /\ other.results = c.results /\ other.fresh = c.fresh
            /\ other.interest = c.interest /\ other.owed = c.owed /\ other.cursor = c.cursor
            /\ other.order = c.order
        BY <3>1, <3>2, <3>6 DEF PaneRecord
      <4> QED  BY <3>1, <4>1
    <3>8. RowsOK(disk, other)
      <4>1. \A i \in DOMAIN rows : RowOK(disk, key, rows[i])
        <5> TAKE i \in DOMAIN rows
        <5>1. RowOK(disk, pane.key, pane.rows[i])
          BY <1>1, <3>4 DEF RowsOK
        <5>2. Unresolved.state # "value"
          BY DEF Unresolved
        <5> QED  BY <3>4, <3>5, <5>1, <5>2 DEF RowOK
      <4> QED  BY <1>1, <3>4, <3>5, <3>6, <3>7, <4>1 DEF RowsOK
    <3>9. Follows(pane, other)
      <4>1. Len(other.rows) = Len(pane.rows) /\ other.phase = pane.phase /\ Len(pane.rows) \in Nat
        BY <3>3, <3>6, <3>7
      <4> QED  BY <3>4, <3>5, <3>7, <4>1 DEF Follows
    <3>10. Base(disk, other)
      BY <1>1, <3>7, <3>8, <3>9, BaseFollows
    <3>11. Lookups(other, worker)
      BY <3>7, CancelledLookups
    <3>12. keyed = other
      BY <2>2
    <3> QED  BY <3>7, <3>10, <3>11, <3>12 DEF Lookups
  <2> QED  BY <2>1, <2>2
<1> HIDE DEF keyed
<1>4. /\ q \in PaneRecord
      /\ q.rows = keyed.rows /\ q.phase = keyed.phase /\ q.watch = keyed.watch /\ q.key = keyed.key
      /\ q.pending = (key # "name") /\ q.cursor = 0 /\ q.order = NoOrder
      /\ q.interest = keyed.interest /\ q.owed = keyed.owed
      /\ q.cache = keyed.cache /\ q.images = keyed.images
      /\ q.queue = keyed.queue /\ q.results = keyed.results /\ q.fresh = keyed.fresh
  BY <1>3, NoOrderSaved DEF PaneRecord
<1> HIDE DEF q
<1>5. Base(disk, q)
  BY <1>3, <1>4, SameBase
<1>6. Lookups(q, worker)
  <2>1. q.cursor <= Len(q.rows)
    BY <1>4, RowTypes
  <2>2. BoundsOK(q) /\ Coming(q, worker)
    BY <1>3, <1>4, <2>1 DEF BoundsOK, Coming
  <2>3. CursorOK(q) /\ OrderOK(q)
    BY <1>4 DEF CursorOK, OrderOK
  <2>4. AnswersOK(q, worker)
    BY <1>1, <1>3, <1>4, FollowsSame, AnswersStay
  <2> QED  BY <2>2, <2>3, <2>4 DEF Lookups
<1>7. q.watch = "recovering" => q.phase = "complete"
  BY <1>1, <1>3, <1>4 DEF SortOK
<1>8. PaneOK(disk, Sorted(q), worker)
  BY <1>1, <1>3, <1>4, <1>5, <1>6, <1>7, SortedOK
<1>9. PaneOK(disk, Posted(Finished(Sorted(q))), worker)
  BY <1>1, <1>8, FinishedOK, PostedOK
<1> QED  BY <1>2, <1>9, PaneKeeps

LEMMA InitInv ==
  ASSUME Init
  PROVE  IInv
<1>1. DiskOK(disk)
  BY DEF Init, DiskOK
<1>2. worker = <<>> /\ worker \in Seq(Answer) /\ Len(worker) <= 1
  BY DEF Init
<1>3. PICK key \in Keys :
        pane = [rows |-> <<>>, phase |-> "loading", watch |-> "inactive", first |-> 1,
                key |-> key, pending |-> key # "name", cursor |-> 0, failed |-> FALSE, order |-> NoOrder,
                interest |-> <<>>, owed |-> {}, tried |-> {}, posted |-> FALSE,
                size |-> 1, wanted |-> 1, cache |-> <<>>, images |-> <<>>,
                queue |-> <<>>, results |-> <<>>, fresh |-> FALSE]
  BY DEF Init
<1>4. /\ <<>> \in Seq(Row) /\ <<>> \in Seq(Key) /\ <<>> \in Seq(Entry) /\ <<>> \in Seq(Image)
      /\ <<>> \in Seq(Request) /\ <<>> \in Seq(Answer) /\ {} \in SUBSET Request /\ {} \in SUBSET Key
      /\ 1 \in Ids /\ NoOrder \in Saved
  BY RowsAssumption, NoOrderSaved DEF Ids
<1>5. pane \in PaneRecord
  BY <1>3, <1>4 DEF PaneRecord
<1>6. /\ pane.rows = <<>> /\ pane.phase = "loading" /\ pane.watch = "inactive" /\ pane.key = key
      /\ pane.pending = (key # "name") /\ pane.cursor = 0 /\ pane.order = NoOrder
      /\ pane.interest = <<>> /\ pane.owed = {} /\ pane.cache = <<>> /\ pane.images = <<>>
      /\ pane.queue = <<>> /\ pane.results = <<>> /\ pane.fresh = FALSE
  BY <1>3
<1> HIDE <1>3
<1>7. DOMAIN <<>> = {} /\ Len(<<>>) = 0
  OBVIOUS
<1>8. Base(disk, pane)
  <2>1. CacheOK(pane.cache, pane.images)
    BY <1>6, <1>7, LimitsAssumption DEF CacheOK
  <2>2. RowsOK(disk, pane) /\ ImagesOK(pane, pane.cache, pane.images)
    BY <1>6, <1>7 DEF RowsOK, ImagesOK
  <2> QED  BY <1>5, <2>1, <2>2 DEF Base
<1>9. Lookups(pane, worker)
  BY <1>5, <1>6, CancelledLookups
<1>10. SortOK(pane)
  BY <1>6, <1>7 DEF SortOK
<1> QED  BY <1>1, <1>2, <1>8, <1>9, <1>10 DEF IInv, PaneOK

LEMMA NextInv ==
  ASSUME IInv, [Next]_vars
  PROVE  IInv'
<1>1. CASE WorkerRead
  BY <1>1, WorkerReadKeeps
<1>2. CASE WorkerAnswer
  BY <1>2, WorkerAnswerKeeps
<1>3. CASE ViewportMessage
  BY <1>3, ViewportMessageKeeps
<1>4. CASE ProcessResults
  BY <1>4, ProcessResultsKeeps
<1>5. CASE AppendRow
  BY <1>5, AppendRowKeeps
<1>6. CASE LastBatch
  BY <1>6, LastBatchKeeps
<1>7. ASSUME NEW id \in Ids, Delta(id)
      PROVE  IInv'
  BY <1>7, DeltaKeeps
<1>8. CASE BeginRescan
  BY <1>8, BeginRescanKeeps
<1>9. CASE RescanRow
  BY <1>9, RescanRowKeeps
<1>10. CASE EndRescan
  BY <1>10, EndRescanKeeps
<1>11. ASSUME NEW first \in 1 .. LastRow, Scroll(first)
       PROVE  IInv'
  BY <1>11, ScrollKeeps
<1>12. ASSUME NEW key \in Keys, SortBy(key)
       PROVE  IInv'
  BY <1>12, SortByKeeps
<1>13. ASSUME NEW size \in {1, 2}, Resize(size)
       PROVE  IInv'
  BY <1>13, ResizeKeeps
<1>14. ASSUME NEW id \in Ids, NEW what \in {"content", "overlay", "deleted"}, Change(id, what)
       PROVE  IInv'
  BY <1>14, ChangeKeeps
<1>15. CASE UNCHANGED vars
  BY <1>15 DEF vars, IInv
<1> QED
  BY <1>1, <1>2, <1>3, <1>4, <1>5, <1>6, <1>7, <1>8, <1>9, <1>10, <1>11, <1>12, <1>13, <1>14, <1>15
  DEF Next, Content, User

LEMMA InvHolds == Spec => []IInv
<1>1. Init => IInv
  BY InitInv
<1>2. IInv /\ [Next]_vars => IInv'
  BY NextInv
<1> QED  BY <1>1, <1>2, PTL DEF Spec

-----------------------------------------------------------------------------
(* What the invariant means.  *)

LEMMA InvTypes == ASSUME IInv PROVE TypeOK
<1>1. /\ worker \in Seq(Answer) /\ pane \in PaneRecord /\ Base(disk, pane) /\ Lookups(pane, worker)
      /\ BoundsOK(pane) /\ CacheOK(pane.cache, pane.images)
  BY InvFacts DEF Lookups, Base
<1>2. Len(worker) <= 1
  BY DEF IInv
<1>3. ASSUME NEW i \in DOMAIN pane.rows
      PROVE  /\ pane.rows[i].id \in Ids
             /\ \A slot \in {"type", "sort"} : pane.rows[i].properties[slot] \in Value
  <2>1. pane.rows[i] \in Row
    BY <1>1, RowTypes
  <2> QED  BY <2>1 DEF Row
<1>4. pane.cursor \in 0 .. Len(pane.rows)
  <2> DEFINE n == Len(pane.rows)
  <2>1. pane.cursor \in Nat /\ n \in Nat /\ pane.cursor <= n
    BY <1>1, RowTypes, LookupTypes DEF BoundsOK
  <2> HIDE DEF n
  <2>2. pane.cursor \in 0 .. n
    BY <2>1
  <2> QED  BY <2>2 DEF n
<1>5. pane.fresh => worker # <<>>
  BY <1>1 DEF Lookups, AnswersOK
<1>6. /\ Len(pane.queue) <= Interest /\ Len(pane.results) <= IconResults
      /\ Len(pane.interest) <= WindowRows /\ Cardinality(pane.owed) <= Interest
      /\ Len(pane.cache) <= Capacity
  BY <1>1 DEF BoundsOK, CacheOK
<1> QED  BY <1>2, <1>3, <1>4, <1>5, <1>6 DEF TypeOK

LEMMA InvSlots == ASSUME IInv PROVE SlotsMatchKeys
<1>1. CacheOK(pane.cache, pane.images)
  BY InvFacts DEF Base
<1> QED  BY <1>1, InvTypes DEF CacheOK, SlotsMatchKeys

LEMMA InvNothingOlder == ASSUME IInv PROVE NothingOlderThanItsRow
<1>1. pane \in PaneRecord /\ RowsOK(disk, pane) /\ ImagesOK(pane, pane.cache, pane.images)
  BY InvFacts DEF Base
<1> SUFFICES ASSUME NEW i \in DOMAIN pane.rows
             PROVE  LET row == pane.rows[i]
                    IN /\ \A slot \in {"type", "sort"} :
                            row.properties[slot].state = "value" => row.properties[slot].look >= row.look
                       /\ \A e \in DOMAIN pane.cache :
                            pane.cache[e].key = IconKey(pane, row) => pane.images[pane.cache[e].slot].look >= row.look
  BY DEF NothingOlderThanItsRow
<1> DEFINE row == pane.rows[i]
<1>2. \A slot \in {"type", "sort"} :
        row.properties[slot].state = "value" => row.properties[slot].look >= row.look
  <2>1. RowOK(disk, pane.key, row)
    BY <1>1 DEF RowsOK
  <2> HIDE DEF row
  <2> QED  BY <2>1 DEF RowOK
<1>3. ASSUME NEW e \in DOMAIN pane.cache, pane.cache[e].key = IconKey(pane, row)
      PROVE  pane.images[pane.cache[e].slot].look >= row.look
  <2>1. ReadOK(pane, pane.cache[e].key, pane.images[pane.cache[e].slot].look)
    BY <1>1 DEF ImagesOK
  <2>2. IconKey(pane, row).id = row.id /\ IconKey(pane, row).stamp = row.stamp
    BY DEF IconKey
  <2> QED  BY <1>3, <2>1, <2>2 DEF ReadOK
<1> QED  BY <1>2, <1>3

LEMMA InvSorted == ASSUME IInv PROVE DoneMeansSorted
<1>1. pane \in PaneRecord /\ RowsOK(disk, pane) /\ SortOK(pane)
  BY InvFacts
<1> DEFINE n == Len(pane.rows)
<1>2. n \in Nat /\ DOMAIN pane.rows = 1 .. n
  BY <1>1, RowTypes
<1> HIDE DEF n
<1>3. \A i \in 1 .. n - 1 : i \in DOMAIN pane.rows /\ i + 1 \in DOMAIN pane.rows /\ i < i + 1
  BY <1>2
<1> SUFFICES ASSUME ~pane.pending, ~pane.failed
             PROVE  /\ pane.key # "name" =>
                         \A i \in DOMAIN pane.rows :
                           LET value == pane.rows[i].properties[Slot(pane.key)]
                           IN value.state # "unresolved" /\ (value.state = "value" => value.of = pane.key)
                    /\ pane.watch # "recovering" =>
                         \A i \in 1 .. n - 1 :
                           IF pane.key = "name" THEN pane.rows[i].id < pane.rows[i + 1].id
                           ELSE RowLess(pane.key, pane.rows[i], pane.rows[i + 1])
  BY DEF DoneMeansSorted, n
<1>4. ASSUME pane.key # "name", NEW i \in DOMAIN pane.rows
      PROVE  LET value == pane.rows[i].properties[Slot(pane.key)]
             IN value.state # "unresolved" /\ (value.state = "value" => value.of = pane.key)
  <2>1. Resolved(pane, i)
    BY <1>1, <1>4 DEF SortOK
  <2>2. RowOK(disk, pane.key, pane.rows[i])
    BY <1>1 DEF RowsOK
  <2>3. (Slot(pane.key) = "type" /\ pane.key = "type") \/ Slot(pane.key) = "sort"
    BY SlotIs
  <2> QED  BY <2>1, <2>2, <2>3 DEF Resolved, RowOK
<1>5. ASSUME pane.watch # "recovering", NEW i \in 1 .. n - 1
      PROVE  IF pane.key = "name" THEN pane.rows[i].id < pane.rows[i + 1].id
             ELSE RowLess(pane.key, pane.rows[i], pane.rows[i + 1])
  BY <1>1, <1>3, <1>5 DEF SortOK
<1> QED  BY <1>4, <1>5

LEMMA InvComing == ASSUME IInv PROVE OwedIsComing
<1>1. Coming(pane, worker)
  BY InvFacts DEF Lookups
<1> SUFFICES ASSUME NEW x \in pane.owed
             PROVE  x \in ToSet(pane.queue) \cup {pane.results[i].request : i \in DOMAIN pane.results}
                             \cup (IF pane.fresh THEN {worker[1].request} ELSE {})
  BY DEF OwedIsComing
<1>2. (\E i \in DOMAIN pane.queue : pane.queue[i] = x) => x \in ToSet(pane.queue)
  BY DEF ToSet
<1> QED  BY <1>1, <1>2 DEF Coming

\* Every slot a row is painted from holds the image of its key, whatever was
\* evicted, forgotten or emptied before, and the collections keep their bounds:
\* the slots that ImageList_Remove moved are repaired each time.
THEOREM SlotsAlwaysMatch == Spec => []SlotsMatchKeys
BY InvHolds, InvSlots, PTL

\* No icon and no property on the screen is older than the row it stands
\* beside, however late the worker answers and however often the item changed.
THEOREM NeverOlderThanItsRow == Spec => []NothingOlderThanItsRow
BY InvHolds, InvNothingOlder, PTL

\* A sort that says it is done has every row's property, of the key that is
\* asked for, and the rows are in its order.
THEOREM DoneIsSorted == Spec => []DoneMeansSorted
BY InvHolds, InvSorted, PTL

\* No request that counts as outstanding is lost between the queue, the worker
\* and the results.
THEOREM OwedAlwaysComing == Spec => []OwedIsComing
BY InvHolds, InvComing, PTL
==============================================================================
