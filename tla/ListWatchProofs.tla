-------------------------- MODULE ListWatchProofs --------------------------
(***************************************************************************)
(* What ListWatch promises, proved for every number of names, of rows in a  *)
(* batch, of records in the kernel's buffer, of changes, faults and         *)
(* refreshes: a watch ends for a reason, and the rows stay in order.        *)
(***************************************************************************)
EXTENDS ListWatch, TLAPS, FiniteSetTheorems, FunctionTheorems, SequenceTheorems, WellFoundedInduction

-----------------------------------------------------------------------------
(* Types.  A row, a batch, the worker, the kernel and the list.  *)

\* What a name can say of an item: the version it was read in.
Version == 1 .. MaxChanges + 1

Row == [name : Names, version : Version]

Batch == [change : Changes, phase : Phases \ {"limited"}, rows : Seq(Row), removed : SUBSET Names,
          renamed : Seq(Names \X Names)]

WorkerState ==
  [at : Places, change : {"none", "rescan"}, next : 1 .. LastName + 1, count : Nat,
   batch : Batch, names : Seq(Names), old : 0 .. LastName, settle : BOOLEAN]

\* What each place of the worker says of the batch it is filling.
WorkerFits(w) ==
  /\ w \in WorkerState
  /\ w.at = "scan" => Len(w.batch.rows) < BatchRows /\ w.batch.removed = {}
  /\ w.at = "open" => w.count = 0
  /\ w.at = "look" =>
       Len(w.batch.rows) + Cardinality(w.batch.removed) + Len(w.names) <= BatchRows
  /\ w.at \in {"open", "listed", "idle"} => w.batch = NewBatch
  /\ w.at = "look" => w.batch.change = "delta"
  /\ w.at \in {"open", "listed"} => w.change = "none"
  /\ Len(w.batch.rows) + Cardinality(w.batch.removed) <= BatchRows

WorkerOK == WorkerFits(worker)

KernelState == [open : BOOLEAN, records : Seq(Record), over : BOOLEAN, broken : BOOLEAN,
                parent : BOOLEAN, away : BOOLEAN]

\* The change buffer, and when the watches of the folder and its parent can be
\* what they are.
KernelOK ==
  /\ kernel \in KernelState
  /\ Len(kernel.records) <= KernelRecords
  /\ kernel.away => kernel.parent
  /\ kernel.parent => kind = "directory"
  /\ kernel.broken => there = "deleted"

\* A batch keeps to the limit of its rows.
BatchOK(b) ==
  /\ b \in Batch
  /\ Len(b.rows) <= BatchRows /\ Cardinality(b.removed) <= BatchRows

ListState ==
  [phase : Phases \cup {"left"}, watch : {"inactive", "watching", "recovering", "failed"},
   updating : BOOLEAN, rows : Seq(Row), seen : SUBSET Nat, selected : SUBSET Nat, device : BOOLEAN]

\* The places a list remembers are places of rows; what it recovers and what it
\* updates it also loads.
ListFits(l) ==
  /\ l \in ListState
  /\ l.seen \subseteq DOMAIN l.rows /\ l.selected \subseteq DOMAIN l.rows
  /\ l.watch # "recovering" => l.seen = {}
  /\ l.phase = "loading" => ~l.device /\ l.watch = IF l.updating THEN "recovering" ELSE "inactive"
  /\ l.updating => l.phase = "loading"

ListOK == ListFits(list)

TypeInv ==
  /\ folder \in [Names -> 0 .. MaxChanges + 1]
  /\ there \in {"there", "moved", "deleted", "slipped"}
  /\ kind \in {"directory", "namespace"}
  /\ kind = "namespace" => there = "there"
  /\ changes \in 0 .. MaxChanges /\ faults \in Nat
  /\ KernelOK /\ WorkerOK /\ ListOK
  /\ results \in Seq(Batch) /\ Len(results) <= QueuedBatches
  /\ \A i \in DOMAIN results : BatchOK(results[i])

-----------------------------------------------------------------------------
(* The inductive invariant.  What the window shows lags behind what the worker *)
(* has said: each batch that is under way was right for the list as it will be *)
(* when the batches before it are taken.  So the invariant says that there is  *)
(* a path of stages from the list through the batches to the worker.           *)

\* The stages of a list that follows its folder: the first reading, the time
\* until its watch is reported, the watch, a rescan, and the two ends: the reading
\* or the folder is over, the watch has ended.
Stages == {"listing", "listed", "following", "rescanning", "over", "ended"}

\* Batch b takes a list from stage s to stage t.
Moves(s, b, t) ==
  \/ s = "over" /\ t = "over"
  \/ s = "listing" /\ b.change = "none"
     /\ t = CASE b.phase = "loading" -> "listing"
              [] b.phase = "error" -> "over"
              [] OTHER -> "listed"
  \/ s = "listed" /\ b.change = "watching" /\ t = "following"
  \/ s = "listed" /\ b.change = "watch_error" /\ t = "ended"
  \/ s = "following" /\ b.change = "delta" /\ t = "following"
  \/ s = "following" /\ b.change = "rescan_begin" /\ t = "rescanning"
  \/ s = "following" /\ b.change = "watch_error" /\ t = "ended"
  \/ s = "following" /\ b.change = "location_lost" /\ t = "over"
  \/ s = "rescanning" /\ b.change = "rescan"
     /\ t = CASE b.phase = "loading" -> "rescanning"
              [] b.phase = "error" -> "over"
              [] OTHER -> "following"

\* The stage the list of the window is at.
ShownStage(l) ==
  IF l.watch = "failed" \/ l.phase \in {"error", "limited", "left"} THEN "ended"
  ELSE IF l.phase = "loading" THEN "listing"
  ELSE IF l.watch = "recovering" THEN "rescanning"
  ELSE IF l.watch = "watching" THEN "following" ELSE "listed"

\* The stage the worker is at.
WorkerStage(w) ==
  IF w.at = "ended" THEN "ended"
  ELSE IF w.at = "open" THEN "listing"
  ELSE IF w.at = "scan" THEN IF w.change = "none" THEN "listing" ELSE "rescanning"
  ELSE IF w.at = "listed" THEN "listed" ELSE "following"

\* The batches under way lead from what the window shows to where the worker
\* is, one stage after the other.
Follows(st) ==
  /\ st[0] = ShownStage(list)
  /\ \A i \in 1 .. Len(results) : Moves(st[i - 1], results[i], st[i])
  /\ \/ st[Len(results)] = WorkerStage(worker)
     \/ st[Len(results)] = "over" /\ (faults > 0 \/ worker.at = "ended")

\* The rows come in the order of their names, after low and up to high.
AscendsFrom(rows, low, high) ==
  /\ \A i \in DOMAIN rows : low < rows[i].name /\ rows[i].name <= high
  /\ \A i, j \in DOMAIN rows : i < j => rows[i].name < rows[j].name

\* The worker is at the first reading of the folder.
Reading(w) == w.at \in {"open", "scan"} /\ w.change = "none"

\* What the first reading has in hand comes after low.
Passed(w, low) == low <= w.next - 1 /\ AscendsFrom(w.batch.rows, low, w.next - 1)

\* A first reading hands out the names in order: what the list shows, what each
\* batch adds and what is in hand lie one above the other.
Ascending(level) ==
  /\ list.phase = "loading" /\ ~list.updating =>
       \A i \in DOMAIN list.rows : list.rows[i].name <= level[0]
  /\ \A i \in 1 .. Len(results) : results[i].change = "none" =>
       level[i - 1] <= level[i] /\ AscendsFrom(results[i].rows, level[i - 1], level[i])
  /\ Reading(worker) => Passed(worker, level[Len(results)])

Path ==
  \E st \in [0 .. Len(results) -> Stages], level \in [0 .. Len(results) -> 0 .. LastName] :
    Follows(st) /\ Ascending(level)

\* A folder that was moved away does not come back between the moment the
\* worker finds it gone and the moment it has said so.
NotWhileGivingUp == ReturnsAt \cap {"scan", "lose", "ended"} = {}

\* The worker gives up for a reason only, and a closed watch has one.
Reasons ==
  NotWhileGivingUp =>
    /\ worker.at = "lose" => there # "there"
    /\ faults = 0 /\ worker.at = "ended" => there # "there"
    /\ faults = 0 /\ ~kernel.open => worker.at \notin {"listed", "idle", "look", "probe"}
    /\ faults = 0 /\ ~kernel.open /\ worker.at = "scan" => there # "there" /\ worker.count = 0

\* No two rows are about one item.
Distinct(rows) == \A i, j \in DOMAIN rows : rows[i].name = rows[j].name => i = j

\* The rows are in order unless the list says that it is being put together
\* again or given up.
InOrder ==
  /\ Distinct(list.rows)
  /\ ~list.updating /\ list.watch # "recovering" /\ ~SaysSo => Ordered(list.rows)

IInv == TypeInv /\ Path /\ Reasons /\ InOrder

-----------------------------------------------------------------------------
(* Numbers, and what steps produce.  *)

\* A set of numbers that is not empty has a least one.
LEMMA Least ==
  ASSUME NEW T \in SUBSET Nat, T # {}
  PROVE  \E x \in T : \A y \in T : x <= y
<1>1. PICK x \in T : \A y \in T : ~ (<<y, x>> \in OpToRel(<, Nat))
  BY WFMin, NatLessThanWellFounded, Zenon
<1>2. \A y \in T : ~(y < x)
  BY <1>1 DEF OpToRel
<1> QED  BY <1>2

\* The least of some places.
LEMMA LeastPlace ==
  ASSUME NEW T \in SUBSET Nat, T # {}
  PROVE  Min(T) \in T /\ \A y \in T : Min(T) <= y
BY Least DEF Min

\* What a step keeps from each place to the next holds at all of them.
LEMMA AllAlong ==
  ASSUME NEW n \in Nat, NEW T, NEW f, f[0] \in T[0],
         \A k \in 1 .. n : f[k - 1] \in T[k - 1] => f[k] \in T[k]
  PROVE  \A k \in 0 .. n : f[k] \in T[k]
<1> DEFINE U == {m \in 0 .. n : f[m] \notin T[m]}
<1>1. SUFFICES ASSUME U # {}
               PROVE  FALSE
  OBVIOUS
<1>2. PICK m \in U : \A y \in U : m <= y
  <2>1. U \in SUBSET Nat
    OBVIOUS
  <2> HIDE DEF U
  <2> QED  BY <1>1, <2>1, Least
<1>3. m # 0 /\ m - 1 \in 0 .. n /\ m - 1 \notin U /\ m \in 1 .. n
  BY <1>2
<1> QED  BY <1>2, <1>3

\* f lists base and what follows from it.
Steps(f, base, n, F) == f = [k \in 0 .. n |-> IF k = 0 THEN base ELSE F[<<k, f[k - 1]>>]]

\* Values that follow from one another can be listed.
LEMMA Walks ==
  ASSUME NEW n \in Nat, NEW T, NEW F, NEW base \in T[0],
         \A k \in 1 .. n : \A s \in T[k - 1] : F[<<k, s>>] \in T[k]
  PROVE  \E f : Steps(f, base, n, F)
<1> DEFINE Is(f, m) == Steps(f, base, m, F)
           U == {m \in 0 .. n : ~ \E f : Is(f, m)}
<1>1. SUFFICES ASSUME U # {}
               PROVE  FALSE
  OBVIOUS
<1>2. PICK m \in U : \A y \in U : m <= y
  <2>1. U \in SUBSET Nat
    OBVIOUS
  <2> HIDE DEF U
  <2> QED  BY <1>1, <2>1, Least
<1>3. CASE m = 0
  <2> DEFINE f == [k \in 0 .. 0 |-> base]
  <2>1. f = [k \in 0 .. 0 |-> IF k = 0 THEN base ELSE F[<<k, f[k - 1]>>]]
    OBVIOUS
  <2> QED  BY <1>2, <1>3, <2>1 DEF Steps
<1>4. CASE m # 0
  <2>1. m \in Nat /\ m - 1 \in 0 .. n /\ m - 1 \notin U
    BY <1>2, <1>4
  <2>2. PICK f : Is(f, m - 1)
    BY <2>1
  <2> DEFINE g == [k \in 0 .. m |-> IF k = 0 THEN base ELSE F[<<k, f[k - 1]>>]]
  <2>3. f = [k \in 0 .. m - 1 |-> IF k = 0 THEN base ELSE F[<<k, f[k - 1]>>]]
    BY <2>2 DEF Steps
  <2>4. ASSUME NEW k \in 0 .. m - 1
        PROVE  g[k] = f[k]
    <3>1. k \in 0 .. m
      BY <2>1
    <3>2. g[k] = IF k = 0 THEN base ELSE F[<<k, f[k - 1]>>]
      BY <3>1
    <3>3. f[k] = IF k = 0 THEN base ELSE F[<<k, f[k - 1]>>]
      BY <2>3, Zenon
    <3> QED  BY <3>2, <3>3
  <2>5. \A k \in 0 .. m : k = 0 \/ k - 1 \in 0 .. m - 1
    BY <2>1
  <2>6. \A k \in 0 .. m : g[k] = IF k = 0 THEN base ELSE F[<<k, g[k - 1]>>]
    BY <2>4, <2>5
  <2>7. Is(g, m)
    BY <2>6 DEF Steps
  <2> QED  BY <1>2, <2>7
<1> QED  BY <1>3, <1>4

\* What steps that keep their families produce.
LEMMA Recursed ==
  ASSUME NEW n \in Nat, NEW T, NEW F, NEW base \in T[0],
         \A k \in 1 .. n : \A s \in T[k - 1] : F[<<k, s>>] \in T[k]
  PROVE  \E f : /\ \A k \in 0 .. n : f[k] \in T[k]
                /\ Steps(f, base, n, F)
<1>1. PICK f : Steps(f, base, n, F)
  BY Walks
<1>2. \A k \in 0 .. n : f[k] = IF k = 0 THEN base ELSE F[<<k, f[k - 1]>>]
  BY <1>1, Zenon DEF Steps
<1>3. f[0] \in T[0]
  <2>1. 0 \in 0 .. n
    OBVIOUS
  <2> QED  BY <1>2, <2>1
<1>4. \A k \in 1 .. n : f[k - 1] \in T[k - 1] => f[k] \in T[k]
  <2> TAKE k \in 1 .. n
  <2>1. k \in 0 .. n /\ k # 0
    OBVIOUS
  <2>2. f[k] = F[<<k, f[k - 1]>>]
    BY <1>2, <2>1
  <2> QED  BY <2>2
<1>5. \A k \in 0 .. n : f[k] \in T[k]
  BY <1>3, <1>4, AllAlong
<1> QED  BY <1>1, <1>5

-----------------------------------------------------------------------------
(* Sorting.  *)

\* A set of pairs that orders 1 .. n.
Orders(before, n) ==
  /\ \A i \in 1 .. n : <<i, i>> \notin before
  /\ \A i, j \in 1 .. n : i # j => <<i, j>> \in before \/ <<j, i>> \in before
  /\ \A i, j, k \in 1 .. n : <<i, j>> \in before /\ <<j, k>> \in before => <<i, k>> \in before

\* Ranked lists 1 .. n in the order, each place once.
LEMMA RankedIs ==
  ASSUME NEW n \in Nat, NEW before, Orders(before, n)
  PROVE  LET r == Ranked(n, before) IN
         /\ r \in Seq(Nat) /\ Len(r) = n /\ \A k \in 1 .. n : r[k] \in 1 .. n
         /\ \A i, j \in 1 .. n : i < j => <<r[i], r[j]>> \in before
         /\ \A i, j \in 1 .. n : r[i] = r[j] => i = j
         /\ \A i \in 1 .. n : \E k \in 1 .. n : r[k] = i
<1> DEFINE Below(i) == {j \in 1 .. n : <<j, i>> \in before}
           Rank(i) == Cardinality(Below(i))
           rank == [i \in 1 .. n |-> Rank(i)]
           r == Ranked(n, before)
<1>1. IsFiniteSet(1 .. n) /\ Cardinality(1 .. n) = n
  BY FS_Interval
<1>2. ASSUME NEW i \in 1 .. n
      PROVE  IsFiniteSet(Below(i)) /\ Rank(i) \in Nat /\ Rank(i) <= n - 1
  <2>1. Below(i) \in SUBSET (1 .. n) /\ i \notin Below(i)
    BY DEF Orders
  <2> HIDE DEF Below
  <2>2. /\ IsFiniteSet(Below(i)) /\ Cardinality(Below(i)) <= Cardinality(1 .. n)
        /\ Cardinality(1 .. n) = Cardinality(Below(i)) => 1 .. n = Below(i)
    BY <1>1, <2>1, FS_Subset
  <2>3. Cardinality(Below(i)) \in Nat
    BY <2>2, FS_CardinalityType
  <2>4. Cardinality(Below(i)) # n
    BY <1>1, <2>1, <2>2
  <2> QED  BY <1>1, <2>2, <2>3, <2>4
<1>3. ASSUME NEW i \in 1 .. n, NEW j \in 1 .. n, <<i, j>> \in before
      PROVE  Rank(i) < Rank(j)
  <2>1. i \in Below(j) /\ i \notin Below(i)
    BY <1>3 DEF Orders
  <2>2. Below(i) \in SUBSET Below(j)
    BY <1>3 DEF Orders
  <2>3. IsFiniteSet(Below(j)) /\ Rank(i) \in Nat /\ Rank(j) \in Nat
    BY <1>2
  <2> HIDE DEF Below
  <2>4. /\ Cardinality(Below(i)) <= Cardinality(Below(j))
        /\ Cardinality(Below(j)) = Cardinality(Below(i)) => Below(j) = Below(i)
    BY <2>2, <2>3, FS_Subset
  <2>5. Below(j) # Below(i)
    BY <2>1
  <2> QED  BY <2>3, <2>4, <2>5
<1> HIDE DEF Below, Rank
<1>4. rank \in Injection(1 .. n, 0 .. n - 1)
  <2>1. rank \in [1 .. n -> 0 .. n - 1]
    BY <1>2
  <2>2. ASSUME NEW i \in 1 .. n, NEW j \in 1 .. n, rank[i] = rank[j]
        PROVE  i = j
    <3>1. Rank(i) \in Int /\ Rank(i) = Rank(j)
      BY <1>2, <2>2
    <3>2. <<i, j>> \notin before /\ <<j, i>> \notin before
      BY <1>3, <3>1
    <3> QED  BY <3>2 DEF Orders
  <2> HIDE DEF rank
  <2> QED  BY <2>1, <2>2 DEF Injection, IsInjective
<1>5. rank \in Surjection(1 .. n, 0 .. n - 1)
  <2>1. IsFiniteSet(0 .. n - 1) /\ Cardinality(0 .. n - 1) = n
    BY FS_Interval
  <2> HIDE DEF rank
  <2> QED  BY <1>1, <1>4, <2>1, FS_Injection
<1>6. \A k \in 1 .. n : \E i \in 1 .. n : Rank(i) = k - 1
  <2>1. \A k \in 0 .. n - 1 : \E i \in 1 .. n : rank[i] = k
    <3> HIDE DEF rank
    <3> QED  BY <1>5 DEF Surjection
  <2>2. \A k \in 1 .. n : k - 1 \in 0 .. n - 1
    OBVIOUS
  <2> QED  BY <2>1, <2>2
<1>7. r = [k \in 1 .. n |-> CHOOSE i \in 1 .. n : Rank(i) = k - 1]
  BY DEF Ranked, Rank, Below
<1> HIDE DEF r
<1>8. \A k \in 1 .. n : r[k] \in 1 .. n /\ Rank(r[k]) = k - 1
  BY <1>6, <1>7
<1>9. r \in Seq(Nat) /\ Len(r) = n
  <2>1. \A k \in 1 .. n : r[k] \in Nat
    BY <1>8
  <2>2. DOMAIN r = 1 .. n /\ r = [k \in 1 .. n |-> r[k]]
    BY <1>7
  <2>3. r \in [1 .. n -> Nat]
    BY <2>1, <2>2
  <2> QED  BY <2>2, <2>3
<1>10. ASSUME NEW i \in 1 .. n
       PROVE  \E k \in 1 .. n : r[k] = i
  <2>1. Rank(i) + 1 \in 1 .. n /\ Rank(i) \in Nat
    BY <1>2
  <2>2. Rank(r[Rank(i) + 1]) = Rank(i) /\ r[Rank(i) + 1] \in 1 .. n
    BY <1>8, <2>1
  <2>3. <<r[Rank(i) + 1], i>> \notin before /\ <<i, r[Rank(i) + 1]>> \notin before
    BY <1>3, <2>1, <2>2
  <2> QED  BY <2>1, <2>2, <2>3 DEF Orders
<1>11. ASSUME NEW i \in 1 .. n, NEW j \in 1 .. n, i < j
       PROVE  <<r[i], r[j]>> \in before
  <2>1. r[i] \in 1 .. n /\ r[j] \in 1 .. n /\ Rank(r[i]) = i - 1 /\ Rank(r[j]) = j - 1
    BY <1>8
  <2>2. r[i] # r[j] /\ ~(Rank(r[j]) < Rank(r[i]))
    BY <1>11, <2>1
  <2>3. <<r[j], r[i]>> \notin before
    BY <1>3, <2>1, <2>2
  <2> QED  BY <2>1, <2>2, <2>3 DEF Orders
<1>12. ASSUME NEW i \in 1 .. n, NEW j \in 1 .. n, r[i] = r[j]
       PROVE  i = j
  <2>1. Rank(r[i]) = i - 1 /\ Rank(r[j]) = j - 1
    BY <1>8
  <2> QED  BY <1>12, <2>1
<1> QED  BY <1>8, <1>9, <1>10, <1>11, <1>12 DEF r

-----------------------------------------------------------------------------
(* Rows.  *)

\* Every row before every later one, not only before the next.
Climbs(rows) == \A i, j \in 1 .. Len(rows) : i < j => Earlier(rows[i], rows[j])

\* The order of the sort decides between any two rows of different names.
LEMMA EarlierIs ==
  ASSUME NEW r \in Row, NEW s \in Row
  PROVE  /\ ~Earlier(r, r)
         /\ r.name # s.name => Earlier(r, s) \/ Earlier(s, r)
         /\ Earlier(r, s) => ~Earlier(s, r)
         /\ \A t \in Row : Earlier(r, s) /\ Earlier(s, t) => Earlier(r, t)
BY DEF Row, Version, Names, Earlier

\* Rows that stand before the next stand before every later one.
LEMMA OrderedClimbs ==
  ASSUME NEW rows \in Seq(Row)
  PROVE  Ordered(rows) <=> Climbs(rows)
<1> DEFINE n == Len(rows)
<1>1. n \in Nat /\ \A i \in 1 .. n : rows[i] \in Row
  OBVIOUS
<1>2. ASSUME Climbs(rows)
      PROVE  Ordered(rows)
  <2>1. \A i \in 1 .. n - 1 : i \in 1 .. n /\ i + 1 \in 1 .. n /\ i < i + 1
    BY <1>1
  <2> QED  BY <1>2, <2>1 DEF Climbs, Ordered
<1>3. ASSUME Ordered(rows), NEW i \in 1 .. n
      PROVE  \A j \in 1 .. n : i < j => Earlier(rows[i], rows[j])
  <2> DEFINE U == {j \in 1 .. n : i < j /\ ~Earlier(rows[i], rows[j])}
  <2>1. SUFFICES ASSUME U # {}
                 PROVE  FALSE
    OBVIOUS
  <2>2. PICK j \in U : \A y \in U : j <= y
    <3>1. U \in SUBSET Nat
      BY <1>1
    <3> HIDE DEF U
    <3> QED  BY <2>1, <3>1, Least
  <2>3. j - 1 \in 1 .. n - 1 /\ j - 1 \in 1 .. n /\ j - 1 \notin U /\ (j - 1) + 1 = j
    BY <1>1, <2>2
  <2>4. Earlier(rows[j - 1], rows[j])
    BY <1>3, <2>3 DEF Ordered
  <2>5. j - 1 = i \/ Earlier(rows[i], rows[j - 1])
    BY <1>1, <2>2, <2>3
  <2>6. rows[i] \in Row /\ rows[j - 1] \in Row /\ rows[j] \in Row
    BY <1>1, <2>2, <2>3
  <2>7. Earlier(rows[i], rows[j])
    BY <2>4, <2>5, <2>6, EarlierIs
  <2> QED  BY <2>2, <2>7
<1> QED  BY <1>2, <1>3 DEF Climbs

\* s is made of the entries of rows at some of their places, in their order.
Picks(s, rows, indices, place) ==
  /\ \A i \in 1 .. Len(s) : /\ place[i] \in indices /\ place[i] \in 1 .. Len(rows)
                            /\ s[i] = rows[place[i]]
  /\ \A i, j \in 1 .. Len(s) : i < j => place[i] < place[j]
  /\ \A k \in 1 .. Len(rows) : k \in indices => \E i \in 1 .. Len(s) : place[i] = k

\* Kept leaves the entries at the places it is given.
LEMMA KeptIs ==
  ASSUME NEW S, NEW rows \in Seq(S), NEW indices
  PROVE  /\ Kept(rows, indices) \in Seq(S)
         /\ Len(Kept(rows, indices)) <= Len(rows)
         /\ \E place : Picks(Kept(rows, indices), rows, indices, place)
<1> DEFINE n == Len(rows)
           Upto[k \in 0 .. n] ==
             IF k = 0 THEN <<>> ELSE IF k \in indices THEN Append(Upto[k - 1], rows[k]) ELSE Upto[k - 1]
           Step(k, s) == IF k \in indices THEN Append(s, rows[k]) ELSE s
           Is(m, s, place) ==
             /\ Len(s) <= m
             /\ \A i \in 1 .. Len(s) : place[i] \in indices /\ place[i] \in 1 .. m /\ s[i] = rows[place[i]]
             /\ \A i, j \in 1 .. Len(s) : i < j => place[i] < place[j]
             /\ \A k \in 1 .. m : k \in indices => \E i \in 1 .. Len(s) : place[i] = k
           T == [m \in 0 .. n |-> {s \in Seq(S) : \E place : Is(m, s, place)}]
           F == [ks \in (1 .. n) \X Seq(S) |-> Step(ks[1], ks[2])]
<1>1. n \in Nat /\ \A i \in 1 .. n : rows[i] \in S
  OBVIOUS
<1>2. <<>> \in T[0]
  <2>1. <<>> \in Seq(S) /\ Is(0, <<>>, <<>>) /\ 0 \in 0 .. n
    BY <1>1
  <2> HIDE DEF Is
  <2> QED  BY <2>1
<1>3. ASSUME NEW k \in 1 .. n, NEW s \in Seq(S), NEW place, Is(k - 1, s, place)
      PROVE  Step(k, s) \in Seq(S) /\ \E p : Is(k, Step(k, s), p)
  <2>1. Len(s) \in Nat /\ Len(s) <= k - 1 /\ k - 1 \in Nat
    BY <1>1, <1>3
  <2>2. CASE k \notin indices
    <3>1. Is(k, s, place)
      BY <1>1, <1>3, <2>1, <2>2
    <3> QED  BY <2>2, <3>1
  <2>3. CASE k \in indices
    <3> DEFINE a == Append(s, rows[k])
               p == [i \in 1 .. Len(s) + 1 |-> IF i = Len(s) + 1 THEN k ELSE place[i]]
    <3>1. /\ a \in Seq(S) /\ Len(a) = Len(s) + 1 /\ a[Len(s) + 1] = rows[k]
          /\ \A i \in 1 .. Len(s) : a[i] = s[i]
      BY <1>1
    <3>2. p[Len(s) + 1] = k /\ \A i \in 1 .. Len(s) : p[i] = place[i]
      BY <2>1
    <3> HIDE DEF a, p
    <3>3. \A i \in 1 .. Len(a) : i \in 1 .. Len(s) \/ i = Len(s) + 1
      BY <2>1, <3>1
    <3>4. Len(a) <= k
      BY <2>1, <3>1
    <3>5. \A i \in 1 .. Len(a) : p[i] \in indices /\ p[i] \in 1 .. k /\ a[i] = rows[p[i]]
      <4> TAKE i \in 1 .. Len(a)
      <4>1. CASE i = Len(s) + 1
        BY <2>3, <3>1, <3>2, <4>1
      <4>2. CASE i \in 1 .. Len(s)
        <5>1. p[i] = place[i] /\ a[i] = s[i]
          BY <3>1, <3>2, <4>2
        <5>2. place[i] \in indices /\ place[i] \in 1 .. k - 1 /\ s[i] = rows[place[i]]
          BY <1>3, <4>2
        <5> QED  BY <2>1, <5>1, <5>2
      <4> QED  BY <3>3, <4>1, <4>2
    <3>6. \A i, j \in 1 .. Len(a) : i < j => p[i] < p[j]
      <4> TAKE i, j \in 1 .. Len(a)
      <4> HAVE i < j
      <4>1. i \in 1 .. Len(s)
        BY <2>1, <3>1, <3>3
      <4>2. p[i] = place[i] /\ place[i] \in 1 .. k - 1
        BY <1>3, <3>2, <4>1
      <4>3. CASE j = Len(s) + 1
        BY <2>1, <3>2, <4>2, <4>3
      <4>4. CASE j \in 1 .. Len(s)
        BY <1>3, <3>2, <4>1, <4>2, <4>4
      <4> QED  BY <3>3, <4>3, <4>4
    <3>7. \A h \in 1 .. k : h \in indices => \E i \in 1 .. Len(a) : p[i] = h
      <4> TAKE h \in 1 .. k
      <4> HAVE h \in indices
      <4>1. CASE h = k
        <5>1. Len(s) + 1 \in 1 .. Len(a)
          BY <2>1, <3>1
        <5> QED  BY <3>2, <4>1, <5>1
      <4>2. CASE h # k
        <5>1. h \in 1 .. k - 1
          BY <2>1, <4>2
        <5>2. PICK i \in 1 .. Len(s) : place[i] = h
          BY <1>3, <5>1
        <5>3. i \in 1 .. Len(a)
          BY <2>1, <3>1
        <5> QED  BY <3>2, <5>2, <5>3
      <4> QED  BY <4>1, <4>2
    <3>8. Is(k, a, p)
      BY <3>4, <3>5, <3>6, <3>7
    <3> HIDE DEF Is
    <3>9. Step(k, s) = a
      BY <2>3 DEF a
    <3> QED  BY <3>1, <3>8, <3>9
  <2> QED  BY <2>2, <2>3
<1> HIDE DEF Is, Step
<1>4. \A k \in 1 .. n : \A s \in T[k - 1] : s \in Seq(S) /\ Step(k, s) \in T[k] /\ F[<<k, s>>] = Step(k, s)
  <2> TAKE k \in 1 .. n
  <2>1. k - 1 \in 0 .. n /\ k \in 0 .. n
    BY <1>1
  <2>2. T[k - 1] = {s \in Seq(S) : \E place : Is(k - 1, s, place)} /\ T[k] = {s \in Seq(S) : \E place : Is(k, s, place)}
    BY <2>1
  <2> TAKE s \in T[k - 1]
  <2>3. PICK place : Is(k - 1, s, place)
    BY <2>2
  <2>4. s \in Seq(S)
    BY <2>2
  <2>5. Step(k, s) \in T[k]
    BY <1>3, <2>2, <2>3, <2>4
  <2> QED  BY <2>4, <2>5
<1> HIDE DEF T, F, n
<1>5. PICK f : /\ \A k \in 0 .. n : f[k] \in T[k]
               /\ Steps(f, <<>>, n, F)
  <2>1. \A k \in 1 .. n : \A s \in T[k - 1] : F[<<k, s>>] \in T[k]
    BY <1>4
  <2> QED  BY <1>1, <1>2, <2>1, Recursed
<1>6. f = [k \in 0 .. n |-> IF k = 0 THEN <<>> ELSE IF k \in indices THEN Append(f[k - 1], rows[k]) ELSE f[k - 1]]
  <2>1. \A k \in 0 .. n : k # 0 => k \in 1 .. n /\ k - 1 \in 0 .. n
    BY <1>1
  <2>2. \A k \in 0 .. n : k # 0 => F[<<k, f[k - 1]>>] = IF k \in indices THEN Append(f[k - 1], rows[k]) ELSE f[k - 1]
    BY <1>4, <1>5, <2>1 DEF Step
  <2> QED  BY <1>5, <2>2, Zenon DEF Steps
<1>7. Upto = [k \in 0 .. n |-> IF k = 0 THEN <<>> ELSE IF k \in indices THEN Append(Upto[k - 1], rows[k]) ELSE Upto[k - 1]]
  BY <1>6, Zenon
<1> HIDE DEF Upto
<1>8. Upto[0] = <<>> /\ \A k \in 1 .. n : Upto[k] = Step(k, Upto[k - 1])
  <2>1. 0 \in 0 .. n /\ \A k \in 1 .. n : k \in 0 .. n /\ k # 0
    BY <1>1
  <2>2. \A k \in 0 .. n : Upto[k] = IF k = 0 THEN <<>> ELSE IF k \in indices THEN Append(Upto[k - 1], rows[k]) ELSE Upto[k - 1]
    BY <1>7, Zenon
  <2> QED  BY <2>1, <2>2 DEF Step
<1>9. \A k \in 0 .. n : Upto[k] \in T[k]
  <2>1. Upto[0] \in T[0] /\ \A k \in 1 .. n : Upto[k - 1] \in T[k - 1] => Upto[k] \in T[k]
    BY <1>2, <1>4, <1>8
  <2> QED  BY <1>1, <2>1, AllAlong
<1>10. Upto[n] \in Seq(S) /\ \E place : Is(n, Upto[n], place)
  <2>1. n \in 0 .. n /\ T[n] = {s \in Seq(S) : \E place : Is(n, s, place)}
    BY <1>1 DEF T
  <2> QED  BY <1>9, <2>1
<1>11. Kept(rows, indices) = Upto[n]
  BY DEF Kept, Upto, n
<1>12. PICK place : Is(n, Upto[n], place)
  BY <1>10
<1>13. Len(Upto[n]) <= n /\ Picks(Upto[n], rows, indices, place)
  BY <1>12 DEF Is, Picks, n
<1> QED  BY <1>10, <1>11, <1>13 DEF n

\* One sequence behind another.
LEMMA Joined ==
  ASSUME NEW S, NEW a \in Seq(S), NEW b \in Seq(S)
  PROVE  /\ a \o b \in Seq(S) /\ Len(a \o b) = Len(a) + Len(b)
         /\ \A k \in 1 .. Len(a) : (a \o b)[k] = a[k]
         /\ \A k \in 1 .. Len(b) : (a \o b)[Len(a) + k] = b[k]
         /\ \A k \in 1 .. Len(a \o b) : k \in 1 .. Len(a) \/ \E h \in 1 .. Len(b) : k = Len(a) + h
<1> DEFINE s == a \o b
<1>1. /\ s \in Seq(S) /\ Len(s) = Len(a) + Len(b)
      /\ \A k \in 1 .. Len(a) + Len(b) : s[k] = IF k <= Len(a) THEN a[k] ELSE b[k - Len(a)]
  BY ConcatProperties
<1>2. Len(a) \in Nat /\ Len(b) \in Nat
  OBVIOUS
<1> HIDE DEF s
<1>3. \A k \in 1 .. Len(a) : k \in 1 .. Len(a) + Len(b) /\ k <= Len(a)
  BY <1>2
<1>4. \A k \in 1 .. Len(b) : /\ Len(a) + k \in 1 .. Len(a) + Len(b) /\ ~(Len(a) + k <= Len(a))
                             /\ (Len(a) + k) - Len(a) = k
  BY <1>2
<1>5. \A k \in 1 .. Len(a) : s[k] = a[k]
  BY <1>1, <1>3
<1>6. \A k \in 1 .. Len(b) : s[Len(a) + k] = b[k]
  BY <1>1, <1>4
<1>7. \A k \in 1 .. Len(s) : k \in 1 .. Len(a) \/ \E h \in 1 .. Len(b) : k = Len(a) + h
  <2> TAKE k \in 1 .. Len(s)
  <2>1. k \in 1 .. Len(a) \/ (k - Len(a) \in 1 .. Len(b) /\ k = Len(a) + (k - Len(a)))
    BY <1>1, <1>2
  <2> QED  BY <2>1
<1> QED  BY <1>1, <1>5, <1>6, <1>7 DEF s

\* The first entries of a sequence and the others.
LEMMA Halves ==
  ASSUME NEW S, NEW s \in Seq(S), NEW m \in 0 .. Len(s)
  PROVE  LET a == SubSeq(s, 1, m)
             b == SubSeq(s, m + 1, Len(s))
         IN /\ a \in Seq(S) /\ Len(a) = m /\ \A k \in 1 .. m : a[k] = s[k]
            /\ b \in Seq(S) /\ Len(b) = Len(s) - m /\ \A k \in 1 .. Len(s) - m : b[k] = s[m + k]
<1> DEFINE a == SubSeq(s, 1, m)
           b == SubSeq(s, m + 1, Len(s))
           n == Len(s)
<1>1. n \in Nat /\ m \in Nat /\ m <= n /\ \A i \in 1 .. n : s[i] \in S
  OBVIOUS
<1> HIDE DEF n
<1>2. a \in Seq(S) /\ Len(a) = m /\ \A k \in 1 .. m : a[k] = s[k]
  <2>1. 1 \in Int /\ m \in Int /\ \A i \in 1 .. m : s[i] \in S
    BY <1>1
  <2>2. /\ a \in Seq(S) /\ Len(a) = IF 1 <= m THEN m - 1 + 1 ELSE 0
        /\ \A i \in 1 .. m - 1 + 1 : a[i] = s[1 + i - 1]
    BY <2>1, SubSeqProperties
  <2> HIDE DEF a
  <2> QED  BY <1>1, <2>2
<1>3. b \in Seq(S) /\ Len(b) = n - m /\ \A k \in 1 .. n - m : b[k] = s[m + k]
  <2>1. m + 1 \in Int /\ n \in Int /\ \A i \in m + 1 .. n : s[i] \in S
    BY <1>1
  <2>2. /\ b \in Seq(S) /\ Len(b) = IF m + 1 <= n THEN n - (m + 1) + 1 ELSE 0
        /\ \A i \in 1 .. n - (m + 1) + 1 : b[i] = s[(m + 1) + i - 1]
    BY <2>1, SubSeqProperties DEF n
  <2> HIDE DEF b
  <2>3. n - (m + 1) + 1 = n - m /\ \A k \in 1 .. n - m : (m + 1) + k - 1 = m + k
    BY <1>1
  <2> QED  BY <1>1, <2>2, <2>3
<1> QED  BY <1>2, <1>3 DEF n

\* Rows of different names behind rows of different names, none of them shared.
LEMMA DistinctJoined ==
  ASSUME NEW a \in Seq(Row), NEW b \in Seq(Row), Distinct(a), Distinct(b),
         \A i \in 1 .. Len(a), j \in 1 .. Len(b) : a[i].name # b[j].name
  PROVE  Distinct(a \o b)
<1> DEFINE s == a \o b
<1>1. /\ s \in Seq(Row) /\ Len(s) = Len(a) + Len(b)
      /\ \A k \in 1 .. Len(a) : s[k] = a[k]
      /\ \A k \in 1 .. Len(b) : s[Len(a) + k] = b[k]
      /\ \A k \in 1 .. Len(s) : k \in 1 .. Len(a) \/ \E h \in 1 .. Len(b) : k = Len(a) + h
  BY Joined
<1> HIDE DEF s
<1>2. /\ \A i, j \in 1 .. Len(a) : a[i].name = a[j].name => i = j
      /\ \A i, j \in 1 .. Len(b) : b[i].name = b[j].name => i = j
  BY DEF Distinct
<1>3. ASSUME NEW i \in 1 .. Len(s), NEW j \in 1 .. Len(s), s[i].name = s[j].name
      PROVE  i = j
  <2>1. CASE i \in 1 .. Len(a) /\ j \in 1 .. Len(a)
    BY <1>1, <1>2, <1>3, <2>1
  <2>2. ASSUME NEW h \in 1 .. Len(b), j = Len(a) + h, i \in 1 .. Len(a)
        PROVE  FALSE
    <3>1. s[i] = a[i] /\ s[j] = b[h]
      BY <1>1, <2>2
    <3> QED  BY <1>3, <2>2, <3>1
  <2>3. ASSUME NEW h \in 1 .. Len(b), i = Len(a) + h, j \in 1 .. Len(a)
        PROVE  FALSE
    <3>1. s[j] = a[j] /\ s[i] = b[h]
      BY <1>1, <2>3
    <3> QED  BY <1>3, <2>3, <3>1
  <2>4. ASSUME NEW g \in 1 .. Len(b), NEW h \in 1 .. Len(b), i = Len(a) + g, j = Len(a) + h
        PROVE  i = j
    <3>1. s[i] = b[g] /\ s[j] = b[h]
      BY <1>1, <2>4
    <3>2. g = h
      BY <1>2, <1>3, <3>1
    <3> QED  BY <2>4, <3>2
  <2> QED  BY <1>1, <2>1, <2>2, <2>3, <2>4
<1>4. DOMAIN s = 1 .. Len(s)
  BY <1>1
<1> QED  BY <1>3, <1>4 DEF Distinct, s

\* s has the rows of another sequence, each once.
Shuffled(s, rows) ==
  /\ s \in Seq(Row) /\ Len(s) = Len(rows)
  /\ Distinct(s)
  /\ \A i \in 1 .. Len(rows) : \E k \in 1 .. Len(rows) : s[i] = rows[k]
  /\ \A k \in 1 .. Len(rows) : \E i \in 1 .. Len(rows) : s[i] = rows[k]

\* Rows of different names are arranged in the order of the sort.
LEMMA ArrangedIs ==
  ASSUME NEW rows \in Seq(Row), Distinct(rows)
  PROVE  Shuffled(Arranged(rows), rows) /\ Ordered(Arranged(rows))
<1> DEFINE n == Len(rows)
           before == Preceding(rows)
           places == Ranked(n, before)
           s == Arranged(rows)
<1>1. n \in Nat /\ DOMAIN rows = 1 .. n /\ \A i \in 1 .. n : rows[i] \in Row
  OBVIOUS
<1>2. \A i, j \in 1 .. n :
        <<i, j>> \in before <=> Earlier(rows[i], rows[j]) \/ (~Earlier(rows[j], rows[i]) /\ i < j)
  BY <1>1 DEF Preceding
<1>3. \A i, j \in 1 .. n : i # j => rows[i].name # rows[j].name
  BY <1>1 DEF Distinct
<1>4. \A i, j \in 1 .. n : <<i, j>> \in before <=> Earlier(rows[i], rows[j])
  <2> TAKE i, j \in 1 .. n
  <2>1. CASE i = j
    BY <1>1, <1>2, <2>1, EarlierIs
  <2>2. CASE i # j
    BY <1>1, <1>2, <1>3, <2>2, EarlierIs
  <2> QED  BY <2>1, <2>2
<1> HIDE DEF before
<1>5. Orders(before, n)
  <2>1. \A i \in 1 .. n : <<i, i>> \notin before
    BY <1>1, <1>4, EarlierIs
  <2>2. \A i, j \in 1 .. n : i # j => <<i, j>> \in before \/ <<j, i>> \in before
    BY <1>1, <1>3, <1>4, EarlierIs
  <2>3. \A i, j, k \in 1 .. n : <<i, j>> \in before /\ <<j, k>> \in before => <<i, k>> \in before
    BY <1>1, <1>4, EarlierIs
  <2> QED  BY <2>1, <2>2, <2>3 DEF Orders
<1>6. /\ \A k \in 1 .. n : places[k] \in 1 .. n
      /\ \A i, j \in 1 .. n : i < j => <<places[i], places[j]>> \in before
      /\ \A i, j \in 1 .. n : places[i] = places[j] => i = j
      /\ \A i \in 1 .. n : \E k \in 1 .. n : places[k] = i
  BY <1>1, <1>5, RankedIs
<1>7. s = [k \in 1 .. n |-> rows[places[k]]]
  BY <1>1 DEF Arranged, before
<1> HIDE DEF places, s, n
<1>8. s \in Seq(Row) /\ Len(s) = n /\ \A k \in 1 .. n : s[k] = rows[places[k]]
  <2>1. s \in [1 .. n -> Row]
    BY <1>1, <1>6, <1>7
  <2> QED  BY <1>1, <1>7, <2>1
<1>9. Climbs(s)
  <2>1. SUFFICES ASSUME NEW i \in 1 .. n, NEW j \in 1 .. n, i < j
                 PROVE  Earlier(s[i], s[j])
    BY <1>8 DEF Climbs
  <2>2. places[i] \in 1 .. n /\ places[j] \in 1 .. n /\ <<places[i], places[j]>> \in before
    BY <1>6, <2>1
  <2>3. s[i] = rows[places[i]] /\ s[j] = rows[places[j]]
    BY <1>8
  <2> QED  BY <1>4, <2>2, <2>3
<1>10. Distinct(s)
  <2>1. DOMAIN s = 1 .. n
    BY <1>7
  <2>2. SUFFICES ASSUME NEW i \in 1 .. n, NEW j \in 1 .. n, s[i].name = s[j].name
                 PROVE  i = j
    BY <2>1 DEF Distinct
  <2>3. places[i] \in 1 .. n /\ places[j] \in 1 .. n /\ s[i] = rows[places[i]] /\ s[j] = rows[places[j]]
    BY <1>6, <1>8
  <2>4. places[i] = places[j]
    BY <1>3, <2>2, <2>3
  <2> QED  BY <1>6, <2>4
<1>11. \A k \in 1 .. n : \E i \in 1 .. n : s[i] = rows[k]
  BY <1>6, <1>8
<1>12. \A i \in 1 .. n : \E k \in 1 .. n : s[i] = rows[k]
  BY <1>6, <1>8
<1> QED  BY <1>8, <1>9, <1>10, <1>11, <1>12, OrderedClimbs DEF Shuffled, s, n

\* The sort keeps the rows; it orders them all where its prefix is in order.
LEMMA SortedIs ==
  ASSUME NEW rows \in Seq(Row), Distinct(rows), NEW prefix \in 0 .. Len(rows)
  PROVE  /\ Shuffled(Sorted(rows, prefix), rows)
         /\ Ordered(SubSeq(rows, 1, prefix)) => Ordered(Sorted(rows, prefix))
<1> DEFINE n == Len(rows)
           head == SubSeq(rows, 1, prefix)
           tail == SubSeq(rows, prefix + 1, n)
           end == Arranged(tail)
           s == head \o end
<1>1. CASE Ordered(head)
  BY <1>1, ArrangedIs DEF Sorted
<1>2. CASE ~Ordered(head)
  <2>1. /\ n \in Nat /\ prefix \in Nat /\ prefix <= n /\ DOMAIN rows = 1 .. n
        /\ \A i \in 1 .. n : rows[i] \in Row
        /\ \A i, j \in 1 .. n : rows[i].name = rows[j].name => i = j
    BY DEF Distinct
  <2>2. /\ head \in Seq(Row) /\ Len(head) = prefix
        /\ \A k \in 1 .. prefix : head[k] = rows[k]
        /\ tail \in Seq(Row) /\ Len(tail) = n - prefix
        /\ \A k \in 1 .. n - prefix : tail[k] = rows[prefix + k]
    BY Halves
  <2> HIDE DEF head, tail, n
  <2>3. /\ \A k \in 1 .. n : k \in 1 .. prefix \/ \E h \in 1 .. n - prefix : k = prefix + h
        /\ \A k \in 1 .. prefix : k \in 1 .. n
        /\ \A k \in 1 .. n - prefix : prefix + k \in 1 .. n
    <3>1. \A k \in 1 .. n : k \in 1 .. prefix \/ (k - prefix \in 1 .. n - prefix /\ k = prefix + (k - prefix))
      BY <2>1
    <3>2. \A k \in 1 .. n : k \in 1 .. prefix \/ \E h \in 1 .. n - prefix : k = prefix + h
      BY <3>1
    <3> QED  BY <2>1, <3>2
  <2>4. Distinct(head)
    <3>1. DOMAIN head = 1 .. prefix
      BY <2>2
    <3> QED  BY <2>1, <2>2, <2>3, <3>1 DEF Distinct
  <2>5. Distinct(tail)
    <3>1. DOMAIN tail = 1 .. n - prefix
      BY <2>2
    <3>2. SUFFICES ASSUME NEW i \in 1 .. n - prefix, NEW j \in 1 .. n - prefix,
                          tail[i].name = tail[j].name
                   PROVE  i = j
      BY <3>1 DEF Distinct
    <3>3. rows[prefix + i].name = rows[prefix + j].name
      BY <2>2, <3>2
    <3>4. prefix + i = prefix + j
      BY <2>1, <2>3, <3>3
    <3> QED  BY <2>1, <3>4
  <2>6. Shuffled(end, tail)
    BY <2>2, <2>5, ArrangedIs
  <2> HIDE DEF end
  <2>7. /\ end \in Seq(Row) /\ Len(end) = n - prefix /\ Distinct(end)
        /\ \A i \in 1 .. n - prefix : \E k \in 1 .. n - prefix : end[i] = tail[k]
        /\ \A k \in 1 .. n - prefix : \E i \in 1 .. n - prefix : end[i] = tail[k]
    BY <2>2, <2>6 DEF Shuffled
  <2>8. /\ s \in Seq(Row) /\ Len(s) = prefix + (n - prefix)
        /\ \A k \in 1 .. prefix : s[k] = head[k]
        /\ \A k \in 1 .. n - prefix : s[prefix + k] = end[k]
    <3>0. head \in Seq(Row) /\ end \in Seq(Row)
      BY <2>2, <2>7
    <3>1. /\ s \in Seq(Row) /\ Len(s) = Len(head) + Len(end)
          /\ \A k \in 1 .. Len(head) : s[k] = head[k]
          /\ \A k \in 1 .. Len(end) : s[Len(head) + k] = end[k]
      BY <3>0, Joined
    <3> HIDE DEF s
    <3> QED  BY <2>2, <2>7, <3>1
  <2>9. Distinct(s)
    <3>1. \A i \in 1 .. prefix, j \in 1 .. n - prefix : head[i].name # end[j].name
      <4> TAKE i \in 1 .. prefix, j \in 1 .. n - prefix
      <4>1. PICK k \in 1 .. n - prefix : end[j] = tail[k]
        BY <2>7
      <4>2. head[i] = rows[i] /\ end[j] = rows[prefix + k]
        BY <2>2, <4>1
      <4>3. i # prefix + k
        BY <2>1
      <4> QED  BY <2>1, <2>3, <4>2, <4>3
    <3>2. Len(head) = prefix /\ Len(end) = n - prefix
      BY <2>2, <2>7
    <3>3. \A i \in 1 .. Len(head), j \in 1 .. Len(end) : head[i].name # end[j].name
      BY ONLY <3>1, <3>2
    <3> QED  BY <2>2, <2>4, <2>7, <3>3, DistinctJoined
  <2> HIDE DEF s
  <2>10. Len(s) = n
    BY <2>1, <2>8
  <2>11. \A i \in 1 .. n : \E k \in 1 .. n : s[i] = rows[k]
    <3> TAKE i \in 1 .. n
    <3>1. CASE i \in 1 .. prefix
      BY <2>2, <2>3, <2>8, <3>1
    <3>2. ASSUME NEW h \in 1 .. n - prefix, i = prefix + h
          PROVE  \E k \in 1 .. n : s[i] = rows[k]
      <4>1. PICK k \in 1 .. n - prefix : end[h] = tail[k]
        BY <2>7
      <4>2. s[i] = rows[prefix + k]
        BY <2>2, <2>8, <3>2, <4>1
      <4> QED  BY <2>3, <4>2
    <3> QED  BY <2>3, <3>1, <3>2
  <2>12. \A k \in 1 .. n : \E i \in 1 .. n : s[i] = rows[k]
    <3> TAKE k \in 1 .. n
    <3>1. CASE k \in 1 .. prefix
      BY <2>2, <2>3, <2>8, <3>1
    <3>2. ASSUME NEW h \in 1 .. n - prefix, k = prefix + h
          PROVE  \E i \in 1 .. n : s[i] = rows[k]
      <4>1. PICK i \in 1 .. n - prefix : end[i] = tail[h]
        BY <2>7
      <4>2. s[prefix + i] = rows[k]
        BY <2>2, <2>8, <3>2, <4>1
      <4> QED  BY <2>3, <4>2
    <3> QED  BY <2>3, <3>1, <3>2
  <2>13. Sorted(rows, prefix) = s
    BY <1>2 DEF Sorted, s, head, end, tail, n
  <2>14. Shuffled(s, rows)
    BY <2>8, <2>9, <2>10, <2>11, <2>12 DEF Shuffled, n
  <2> QED  BY <1>2, <2>13, <2>14 DEF head
<1> QED  BY <1>1, <1>2

-----------------------------------------------------------------------------
(* What a batch does to rows.  *)

\* What apply works on: the rows so far, the names seen and the rows taken
\* out of the run.
Merge == [rows : Seq(Row), seen : SUBSET Nat, updated : SUBSET Nat]

\* q is m after some rows were put in: each keeps its place and its name, and what
\* it was unless it is noted as updated.
Grown(m, q) ==
  /\ q \in Merge /\ Distinct(q.rows) /\ q.seen \subseteq 1 .. Len(q.rows)
  /\ Len(m.rows) <= Len(q.rows) /\ m.seen \subseteq q.seen /\ m.updated \subseteq q.updated
  /\ \A i \in 1 .. Len(m.rows) : /\ q.rows[i].name = m.rows[i].name
                                 /\ i \notin q.updated => q.rows[i] = m.rows[i]

\* The row of the name has been seen.
SeenIn(q, name) == \E i \in q.seen : q.rows[i].name = name

\* What two merges in turn leave.
LEMMA GrownTwice ==
  ASSUME NEW m \in Merge, NEW p, NEW q, Grown(m, p), Grown(p, q)
  PROVE  /\ Grown(m, q)
         /\ \A name : SeenIn(p, name) => SeenIn(q, name)
<1>1. Len(m.rows) \in Nat /\ Len(p.rows) \in Nat /\ Len(q.rows) \in Nat
  BY DEF Merge, Grown
<1>2. \A i \in 1 .. Len(m.rows) : i \in 1 .. Len(p.rows)
  BY <1>1 DEF Grown
<1>3. Grown(m, q)
  <2>1. Len(m.rows) <= Len(q.rows)
    BY <1>1 DEF Grown
  <2>2. m.seen \subseteq q.seen /\ m.updated \subseteq q.updated
    BY DEF Grown
  <2>3. ASSUME NEW i \in 1 .. Len(m.rows)
        PROVE  /\ q.rows[i].name = m.rows[i].name
               /\ i \notin q.updated => q.rows[i] = m.rows[i]
    <3>1. p.rows[i].name = m.rows[i].name /\ (i \notin p.updated => p.rows[i] = m.rows[i])
      BY DEF Grown
    <3>2. q.rows[i].name = p.rows[i].name /\ (i \notin q.updated => q.rows[i] = p.rows[i])
      BY <1>2 DEF Grown
    <3>3. i \notin q.updated => i \notin p.updated
      BY DEF Grown
    <3> QED  BY <3>1, <3>2, <3>3
  <2> QED  BY <2>1, <2>2, <2>3 DEF Grown
<1>4. ASSUME NEW name, SeenIn(p, name)
      PROVE  SeenIn(q, name)
  <2>1. PICK i \in p.seen : p.rows[i].name = name
    BY <1>4 DEF SeenIn
  <2>2. i \in q.seen /\ q.rows[i].name = p.rows[i].name
    BY DEF Grown
  <2> QED  BY <2>1, <2>2 DEF SeenIn
<1> QED  BY <1>3, <1>4

\* One row: it takes the place of the row of its name, or the last one.
LEMMA UpsertedIs ==
  ASSUME NEW m \in Merge, Distinct(m.rows), m.seen \subseteq 1 .. Len(m.rows), NEW r \in Row
  PROVE  Grown(m, Upserted(m, r)) /\ SeenIn(Upserted(m, r), r.name)
<1> DEFINE n == Len(m.rows)
           at == Named(m.rows, r.name)
           q == Upserted(m, r)
<1>1. /\ m.rows \in Seq(Row) /\ m.seen \in SUBSET Nat /\ m.updated \in SUBSET Nat
      /\ m = [rows |-> m.rows, seen |-> m.seen, updated |-> m.updated]
  BY DEF Merge
<1>2. n \in Nat /\ DOMAIN m.rows = 1 .. n /\ \A i \in 1 .. n : m.rows[i] \in Row
  BY <1>1
<1>3. \A i, j \in 1 .. n : m.rows[i].name = m.rows[j].name => i = j
  BY <1>2 DEF Distinct
<1>4. at = {i \in 1 .. n : m.rows[i].name = r.name}
  BY <1>2 DEF Named
<1>5. CASE at = {}
  <2> DEFINE a == Append(m.rows, r)
  <2>1. /\ a \in Seq(Row) /\ Len(a) = n + 1 /\ a[n + 1] = r
        /\ \A i \in 1 .. n : a[i] = m.rows[i]
    BY <1>1
  <2> HIDE DEF a
  <2>2. q = [rows |-> a, seen |-> m.seen \cup {n + 1}, updated |-> m.updated]
    <3>1. q = [m EXCEPT !.rows = Append(@, r), !.seen = @ \cup {Len(m.rows) + 1}]
      BY <1>5 DEF Upserted
    <3> QED  BY <1>1, <3>1 DEF a
  <2> HIDE DEF q, n, at
  <2>3. q.rows = a /\ q.seen = m.seen \cup {n + 1} /\ q.updated = m.updated /\ q \in Merge
    BY <1>1, <1>2, <2>1, <2>2 DEF Merge
  <2>4. \A i \in 1 .. n + 1 : i \in 1 .. n \/ i = n + 1
    BY <1>2
  <2>5. Distinct(a)
    <3>1. DOMAIN a = 1 .. n + 1
      BY <2>1
    <3>2. \A i \in 1 .. n : m.rows[i].name # r.name
      BY <1>4, <1>5
    <3> QED  BY <1>3, <2>1, <2>4, <3>1, <3>2 DEF Distinct
  <2>6. q.seen \subseteq 1 .. Len(q.rows) /\ Len(m.rows) <= Len(q.rows)
    BY <1>2, <2>1, <2>3 DEF n
  <2>7. Grown(m, q)
    BY <2>1, <2>3, <2>5, <2>6 DEF Grown, n
  <2>8. SeenIn(q, r.name)
    BY <2>1, <2>3 DEF SeenIn
  <2> QED  BY <2>7, <2>8 DEF q
<1>6. CASE at # {}
  <2> DEFINE k == Min(at)
             a == [m.rows EXCEPT ![k] = r]
  <2>1. k \in at
    <3>1. at \in SUBSET Nat
      BY <1>2, <1>4
    <3> HIDE DEF at
    <3> QED  BY <1>6, <3>1, LeastPlace
  <2> HIDE DEF k
  <2>2. k \in 1 .. n /\ m.rows[k].name = r.name /\ at = {k}
    BY <1>3, <1>4, <2>1
  <2>3. /\ a \in Seq(Row) /\ Len(a) = n /\ a[k] = r
        /\ \A i \in 1 .. n : i # k => a[i] = m.rows[i]
    BY <1>1, <1>2, <2>2
  <2> HIDE DEF a
  <2>4. q = [rows |-> a, seen |-> m.seen \cup {k}, updated |-> m.updated \cup {k}]
    <3>1. q = [m EXCEPT !.rows[k] = r, !.seen = @ \cup at, !.updated = @ \cup at]
      BY <1>6 DEF Upserted, k
    <3> HIDE DEF q, at
    <3> QED  BY <1>1, <2>2, <3>1 DEF a
  <2> HIDE DEF q, n, at
  <2>5. q.rows = a /\ q.seen = m.seen \cup {k} /\ q.updated = m.updated \cup {k} /\ q \in Merge
    BY <1>1, <1>2, <2>2, <2>3, <2>4 DEF Merge
  <2>6. \A i \in 1 .. n : a[i].name = m.rows[i].name
    BY <2>2, <2>3
  <2>7. Distinct(a)
    <3>1. DOMAIN a = 1 .. n
      BY <2>3
    <3> QED  BY <1>3, <2>6, <3>1 DEF Distinct
  <2>8. q.seen \subseteq 1 .. Len(q.rows) /\ Len(m.rows) <= Len(q.rows)
    BY <1>2, <2>2, <2>3, <2>5 DEF n
  <2>9. Grown(m, q)
    BY <2>2, <2>3, <2>5, <2>6, <2>7, <2>8 DEF Grown, n
  <2>10. SeenIn(q, r.name)
    BY <2>3, <2>5 DEF SeenIn
  <2> QED  BY <2>9, <2>10 DEF q
<1> QED  BY <1>5, <1>6

\* All rows of a batch.
LEMMA AllUpsertedIs ==
  ASSUME NEW m \in Merge, Distinct(m.rows), m.seen \subseteq 1 .. Len(m.rows), NEW rows \in Seq(Row)
  PROVE  /\ Grown(m, AllUpserted(m, rows))
         /\ \A j \in 1 .. Len(rows) : SeenIn(AllUpserted(m, rows), rows[j].name)
<1> DEFINE n == Len(rows)
           Upto[k \in 0 .. n] == IF k = 0 THEN m ELSE Upserted(Upto[k - 1], rows[k])
           Is(k, q) == Grown(m, q) /\ \A j \in 1 .. k : SeenIn(q, rows[j].name)
           T == [k \in 0 .. n |-> {q \in Merge : Is(k, q)}]
           F == [kq \in (1 .. n) \X Merge |-> Upserted(kq[2], rows[kq[1]])]
<1>1. n \in Nat /\ \A i \in 1 .. n : rows[i] \in Row
  OBVIOUS
<1>2. m \in T[0]
  <2>1. Grown(m, m)
    BY DEF Grown, Merge
  <2>2. 0 \in 0 .. n
    BY <1>1
  <2> QED  BY <2>1, <2>2
<1>3. ASSUME NEW k \in 1 .. n, NEW q \in Merge, Is(k - 1, q)
      PROVE  Upserted(q, rows[k]) \in Merge /\ Is(k, Upserted(q, rows[k]))
  <2> DEFINE p == Upserted(q, rows[k])
  <2>1. Grown(q, p) /\ SeenIn(p, rows[k].name)
    BY <1>1, <1>3, UpsertedIs DEF Grown
  <2> HIDE DEF p
  <2>2. Grown(m, p) /\ \A name : SeenIn(q, name) => SeenIn(p, name)
    BY <1>3, <2>1, GrownTwice
  <2>3. \A j \in 1 .. k : j \in 1 .. k - 1 \/ j = k
    BY <1>1
  <2> QED  BY <1>3, <2>1, <2>2, <2>3 DEF Grown, p
<1> HIDE DEF Is
<1>4. \A k \in 1 .. n : \A q \in T[k - 1] : /\ q \in Merge /\ Upserted(q, rows[k]) \in T[k]
                                           /\ F[<<k, q>>] = Upserted(q, rows[k])
  <2> TAKE k \in 1 .. n
  <2>1. k - 1 \in 0 .. n /\ k \in 0 .. n
    BY <1>1
  <2>2. T[k - 1] = {q \in Merge : Is(k - 1, q)} /\ T[k] = {q \in Merge : Is(k, q)}
    BY <2>1
  <2> QED  BY <1>3, <2>2
<1> HIDE DEF T, F, n
<1>5. PICK f : /\ \A k \in 0 .. n : f[k] \in T[k]
               /\ Steps(f, m, n, F)
  <2>1. \A k \in 1 .. n : \A q \in T[k - 1] : F[<<k, q>>] \in T[k]
    BY <1>4
  <2> QED  BY <1>1, <1>2, <2>1, Recursed
<1>6. f = [k \in 0 .. n |-> IF k = 0 THEN m ELSE Upserted(f[k - 1], rows[k])]
  <2>1. \A k \in 0 .. n : k # 0 => k \in 1 .. n /\ k - 1 \in 0 .. n
    BY <1>1
  <2>2. \A k \in 0 .. n : k # 0 => F[<<k, f[k - 1]>>] = Upserted(f[k - 1], rows[k])
    BY <1>4, <1>5, <2>1
  <2> QED  BY <1>5, <2>2, Zenon DEF Steps
<1>7. Upto = [k \in 0 .. n |-> IF k = 0 THEN m ELSE Upserted(Upto[k - 1], rows[k])]
  BY <1>6, Zenon
<1> HIDE DEF Upto
<1>8. Upto[0] = m /\ \A k \in 1 .. n : Upto[k] = Upserted(Upto[k - 1], rows[k])
  <2>1. 0 \in 0 .. n /\ \A k \in 1 .. n : k \in 0 .. n /\ k # 0
    BY <1>1
  <2>2. \A k \in 0 .. n : Upto[k] = IF k = 0 THEN m ELSE Upserted(Upto[k - 1], rows[k])
    BY <1>7, Zenon
  <2> QED  BY <2>1, <2>2
<1>9. \A k \in 0 .. n : Upto[k] \in T[k]
  <2>1. Upto[0] \in T[0] /\ \A k \in 1 .. n : Upto[k - 1] \in T[k - 1] => Upto[k] \in T[k]
    BY <1>2, <1>4, <1>8
  <2> QED  BY <1>1, <2>1, AllAlong
<1>10. Upto[n] \in Merge /\ Is(n, Upto[n])
  <2>1. n \in 0 .. n /\ T[n] = {q \in Merge : Is(n, q)}
    BY <1>1 DEF T
  <2> QED  BY <1>9, <2>1
<1>11. AllUpserted(m, rows) = Upto[n]
  BY DEF AllUpserted, Upto, n
<1> QED  BY <1>10, <1>11 DEF Is, n

\* What is kept of rows of different names has different names, in the same order.
LEMMA KeptRows ==
  ASSUME NEW rows \in Seq(Row), Distinct(rows), NEW indices
  PROVE  LET s == Kept(rows, indices) IN
         /\ s \in Seq(Row) /\ Distinct(s)
         /\ Climbs(rows) => Climbs(s)
         /\ \A i \in 1 .. Len(s) : \E k \in 1 .. Len(rows) : k \in indices /\ s[i] = rows[k]
         /\ \A k \in 1 .. Len(rows) : k \in indices => \E i \in 1 .. Len(s) : s[i] = rows[k]
<1> DEFINE s == Kept(rows, indices)
<1>1. s \in Seq(Row)
  BY KeptIs
<1>2. PICK place : Picks(s, rows, indices, place)
  BY KeptIs
<1> HIDE DEF s
<1>3. /\ Len(s) \in Nat /\ Len(rows) \in Nat /\ DOMAIN s = 1 .. Len(s) /\ DOMAIN rows = 1 .. Len(rows)
  BY <1>1
<1>4. \A i \in 1 .. Len(s) : place[i] \in indices /\ place[i] \in 1 .. Len(rows) /\ s[i] = rows[place[i]]
  BY <1>2 DEF Picks
<1>5. \A i, j \in 1 .. Len(s) : i < j => place[i] < place[j]
  BY <1>2 DEF Picks
<1>6. ASSUME NEW i \in 1 .. Len(s), NEW j \in 1 .. Len(s), s[i].name = s[j].name
      PROVE  i = j
  <2>1. place[i] = place[j]
    BY <1>3, <1>4, <1>6 DEF Distinct
  <2>2. ~(place[i] < place[j]) /\ ~(place[j] < place[i])
    BY <1>3, <1>4, <2>1
  <2> QED  BY <1>3, <1>5, <2>2
<1>7. Distinct(s)
  BY <1>3, <1>6 DEF Distinct
<1>8. ASSUME Climbs(rows), NEW i \in 1 .. Len(s), NEW j \in 1 .. Len(s), i < j
      PROVE  Earlier(s[i], s[j])
  <2>1. place[i] < place[j] /\ place[i] \in 1 .. Len(rows) /\ place[j] \in 1 .. Len(rows)
    BY <1>4, <1>5, <1>8
  <2>2. Earlier(rows[place[i]], rows[place[j]])
    BY <1>8, <2>1 DEF Climbs
  <2> QED  BY <1>4, <2>2
<1>9. Climbs(rows) => Climbs(s)
  BY <1>8 DEF Climbs
<1>10. \A k \in 1 .. Len(rows) : k \in indices => \E i \in 1 .. Len(s) : s[i] = rows[k]
  <2> TAKE k \in 1 .. Len(rows)
  <2> HAVE k \in indices
  <2>1. PICK i \in 1 .. Len(s) : place[i] = k
    BY <1>2 DEF Picks
  <2> QED  BY <1>4, <2>1
<1> QED  BY <1>1, <1>4, <1>7, <1>9, <1>10 DEF s

\* A part of the rows does not share its names with another part.
LEMMA PartsDiffer ==
  ASSUME NEW rows \in Seq(Row), Distinct(rows), NEW a, NEW b, a \cap b = {}
  PROVE  \A i \in 1 .. Len(Kept(rows, a)), j \in 1 .. Len(Kept(rows, b)) :
           Kept(rows, a)[i].name # Kept(rows, b)[j].name
<1> DEFINE s == Kept(rows, a)
           t == Kept(rows, b)
<1>1. \A i \in 1 .. Len(s) : \E k \in 1 .. Len(rows) : k \in a /\ s[i] = rows[k]
  BY KeptRows
<1>2. \A i \in 1 .. Len(t) : \E k \in 1 .. Len(rows) : k \in b /\ t[i] = rows[k]
  BY KeptRows
<1> HIDE DEF s, t
<1>3. \A h, k \in 1 .. Len(rows) : rows[h].name = rows[k].name => h = k
  BY DEF Distinct
<1>4. ASSUME NEW i \in 1 .. Len(s), NEW j \in 1 .. Len(t)
      PROVE  s[i].name # t[j].name
  <2>1. PICK h \in 1 .. Len(rows) : h \in a /\ s[i] = rows[h]
    BY <1>1
  <2>2. PICK k \in 1 .. Len(rows) : k \in b /\ t[j] = rows[k]
    BY <1>2
  <2> QED  BY <1>3, <2>1, <2>2
<1> QED  BY <1>4 DEF s, t

\* The names whose rows a change takes out.
Gone(b) == b.removed \cup {b.renamed[i][1] : i \in DOMAIN b.renamed}

\* A delta leaves rows of different names, in order where they were in order, and
\* every name it does not take out.
LEMMA DeltaIs ==
  ASSUME NEW rows \in Seq(Row), Distinct(rows), NEW b, b.rows \in Seq(Row)
  PROVE  /\ Delta(rows, b) \in Seq(Row) /\ Distinct(Delta(rows, b))
         /\ Ordered(rows) => Ordered(Delta(rows, b))
         /\ \A k \in 1 .. Len(rows) : rows[k].name \notin Gone(b) =>
              \E i \in 1 .. Len(Delta(rows, b)) : Delta(rows, b)[i].name = rows[k].name
<1> DEFINE here == {i \in DOMAIN rows : rows[i].name \notin Gone(b)}
           base == Kept(rows, here)
           start == [rows |-> base, seen |-> {}, updated |-> {}]
           m == AllUpserted(start, b.rows)
           touched == DOMAIN base \cap m.updated
           still == Kept(m.rows, DOMAIN base \ touched)
           added == Kept(m.rows, DOMAIN m.rows \ DOMAIN base)
           last == Kept(m.rows, touched)
           first == still \o added
           s == first \o last
<1>1. DOMAIN rows = 1 .. Len(rows)
  OBVIOUS
<1>2. /\ base \in Seq(Row) /\ Distinct(base)
      /\ Climbs(rows) => Climbs(base)
      /\ \A k \in 1 .. Len(rows) : k \in here => \E i \in 1 .. Len(base) : base[i] = rows[k]
  <2> HIDE DEF here
  <2> QED  BY KeptRows
<1> HIDE DEF base
<1>3. Len(base) \in Nat /\ DOMAIN base = 1 .. Len(base)
  BY <1>2
<1>4. Grown(start, m)
  <2>1. start \in Merge /\ start.seen = {} /\ start.rows = base
    <3>1. base \in Seq(Row) /\ {} \in SUBSET Nat
      BY <1>2
    <3> QED  BY <3>1 DEF Merge
  <2> HIDE DEF start
  <2>2. Distinct(start.rows) /\ start.seen \subseteq 1 .. Len(start.rows)
    BY <1>2, <2>1
  <2> QED  BY <2>1, <2>2, AllUpsertedIs
<1> HIDE DEF m
<1>5. /\ m.rows \in Seq(Row) /\ Distinct(m.rows) /\ Len(base) <= Len(m.rows)
      /\ \A i \in 1 .. Len(base) : /\ m.rows[i].name = base[i].name
                                   /\ i \notin m.updated => m.rows[i] = base[i]
  BY <1>4 DEF Grown, Merge
<1>6. /\ DOMAIN m.rows = 1 .. Len(m.rows) /\ Len(m.rows) \in Nat
      /\ \A i \in 1 .. Len(base) : i \in 1 .. Len(m.rows)
  BY <1>3, <1>5
<1>7. /\ still \in Seq(Row) /\ Distinct(still) /\ added \in Seq(Row) /\ Distinct(added)
      /\ last \in Seq(Row) /\ Distinct(last)
  BY <1>5, KeptRows
<1>8. /\ \A k \in 1 .. Len(m.rows) : k \in DOMAIN base \ touched => \E i \in 1 .. Len(still) : still[i] = m.rows[k]
      /\ \A k \in 1 .. Len(m.rows) : k \in touched => \E i \in 1 .. Len(last) : last[i] = m.rows[k]
  <2> DEFINE rest == DOMAIN base \ touched
             rows_now == m.rows
  <2> HIDE DEF rest, touched, rows_now
  <2>1. rows_now \in Seq(Row) /\ Distinct(rows_now)
    BY <1>5 DEF rows_now
  <2>2. \A k \in 1 .. Len(rows_now) : k \in rest => \E i \in 1 .. Len(Kept(rows_now, rest)) : Kept(rows_now, rest)[i] = rows_now[k]
    BY <2>1, KeptRows
  <2>3. \A k \in 1 .. Len(rows_now) : k \in touched => \E i \in 1 .. Len(Kept(rows_now, touched)) : Kept(rows_now, touched)[i] = rows_now[k]
    BY <2>1, KeptRows
  <2> QED  BY <2>2, <2>3 DEF rest, rows_now
<1>9. /\ \A i \in 1 .. Len(still), j \in 1 .. Len(added) : still[i].name # added[j].name
      /\ \A i \in 1 .. Len(still), j \in 1 .. Len(last) : still[i].name # last[j].name
      /\ \A i \in 1 .. Len(added), j \in 1 .. Len(last) : added[i].name # last[j].name
  <2>1. /\ (DOMAIN base \ touched) \cap (DOMAIN m.rows \ DOMAIN base) = {}
        /\ (DOMAIN base \ touched) \cap touched = {} /\ (DOMAIN m.rows \ DOMAIN base) \cap touched = {}
    OBVIOUS
  <2> HIDE DEF touched
  <2>2. \A i \in 1 .. Len(still), j \in 1 .. Len(added) : still[i].name # added[j].name
    BY <1>5, <2>1, PartsDiffer
  <2>3. \A i \in 1 .. Len(still), j \in 1 .. Len(last) : still[i].name # last[j].name
    BY <1>5, <2>1, PartsDiffer
  <2>4. \A i \in 1 .. Len(added), j \in 1 .. Len(last) : added[i].name # last[j].name
    BY <1>5, <2>1, PartsDiffer
  <2> QED  BY <2>2, <2>3, <2>4
<1>10. ASSUME Climbs(rows)
       PROVE  Climbs(still)
  <2>1. PICK place : Picks(still, m.rows, DOMAIN base \ touched, place)
    BY <1>5, KeptIs
  <2> HIDE DEF still
  <2>2. SUFFICES ASSUME NEW i \in 1 .. Len(still), NEW j \in 1 .. Len(still), i < j
                 PROVE  Earlier(still[i], still[j])
    BY DEF Climbs
  <2>3. /\ place[i] \in DOMAIN base \ touched /\ place[j] \in DOMAIN base \ touched /\ place[i] < place[j]
        /\ still[i] = m.rows[place[i]] /\ still[j] = m.rows[place[j]]
    BY <2>1, <2>2 DEF Picks
  <2>4. place[i] \in 1 .. Len(base) /\ place[j] \in 1 .. Len(base) /\ place[i] \notin m.updated /\ place[j] \notin m.updated
    BY <1>3, <2>3
  <2>5. still[i] = base[place[i]] /\ still[j] = base[place[j]]
    BY <1>5, <2>3, <2>4
  <2>6. Earlier(base[place[i]], base[place[j]])
    BY <1>2, <1>10, <2>3, <2>4 DEF Climbs
  <2> QED  BY <2>5, <2>6
<1> HIDE DEF still, added, last, touched
<1>11. /\ first \in Seq(Row) /\ Len(first) = Len(still) + Len(added)
       /\ \A k \in 1 .. Len(still) : first[k] = still[k]
       /\ \A k \in 1 .. Len(added) : first[Len(still) + k] = added[k]
       /\ \A k \in 1 .. Len(first) : k \in 1 .. Len(still) \/ \E h \in 1 .. Len(added) : k = Len(still) + h
  BY <1>7, Joined
<1>12. Distinct(first)
  BY <1>7, <1>9, DistinctJoined
<1> HIDE DEF first
<1>13. \A i \in 1 .. Len(first), j \in 1 .. Len(last) : first[i].name # last[j].name
  <2> TAKE i \in 1 .. Len(first), j \in 1 .. Len(last)
  <2>1. CASE i \in 1 .. Len(still)
    BY <1>9, <1>11, <2>1
  <2>2. ASSUME NEW h \in 1 .. Len(added), i = Len(still) + h
        PROVE  first[i].name # last[j].name
    BY <1>9, <1>11, <2>2
  <2> QED  BY <1>11, <2>1, <2>2
<1>14. /\ s \in Seq(Row) /\ Len(s) = Len(first) + Len(last)
       /\ \A k \in 1 .. Len(first) : s[k] = first[k]
       /\ \A k \in 1 .. Len(last) : s[Len(first) + k] = last[k]
  <2>1. first \in Seq(Row) /\ last \in Seq(Row)
    BY <1>7, <1>11
  <2> QED  BY <2>1, Joined
<1>15. Distinct(s)
  BY <1>7, <1>11, <1>12, <1>13, DistinctJoined
<1> HIDE DEF s
<1>16. Len(still) \in Nat /\ Len(added) \in Nat /\ Len(last) \in Nat /\ Len(first) \in Nat /\ Len(s) \in Nat
  BY <1>7, <1>11, <1>14
<1>17. Len(still) \in 0 .. Len(s)
  BY <1>11, <1>14, <1>16
<1>18. Delta(rows, b) = Sorted(s, Len(still))
  <2>1. Delta(rows, b) = Sorted(still \o added \o last, Len(still))
    BY DEF Delta, Without, Gone, here, base, start, m, touched, still, added, last
  <2> QED  BY <2>1 DEF s, first
<1>19. /\ Shuffled(Sorted(s, Len(still)), s)
       /\ Ordered(SubSeq(s, 1, Len(still))) => Ordered(Sorted(s, Len(still)))
  BY <1>14, <1>15, <1>17, SortedIs
<1>20. ASSUME Ordered(rows)
       PROVE  Ordered(SubSeq(s, 1, Len(still)))
  <2> DEFINE head == SubSeq(s, 1, Len(still))
  <2>1. head \in Seq(Row) /\ Len(head) = Len(still) /\ \A k \in 1 .. Len(still) : head[k] = s[k]
    BY <1>14, <1>17, Halves
  <2> HIDE DEF head
  <2>2. \A k \in 1 .. Len(still) : head[k] = still[k]
    BY <1>11, <1>14, <1>16, <2>1
  <2>3. Climbs(still)
    BY <1>10, <1>20, OrderedClimbs
  <2>4. Climbs(head)
    BY <2>1, <2>2, <2>3 DEF Climbs
  <2> QED  BY <2>1, <2>4, OrderedClimbs DEF head
<1>21. ASSUME NEW k \in 1 .. Len(rows), rows[k].name \notin Gone(b)
       PROVE  \E i \in 1 .. Len(s) : s[i].name = rows[k].name
  <2>1. PICK j \in 1 .. Len(base) : base[j] = rows[k]
    BY <1>1, <1>2, <1>21
  <2>2. m.rows[j].name = rows[k].name /\ j \in 1 .. Len(m.rows)
    BY <1>5, <1>6, <2>1
  <2>3. CASE j \in touched
    <3>1. PICK i \in 1 .. Len(last) : last[i] = m.rows[j]
      BY <1>8, <2>2, <2>3
    <3>2. Len(first) + i \in 1 .. Len(s)
      BY <1>14, <1>16
    <3> QED  BY <1>14, <2>2, <3>1, <3>2
  <2>4. CASE j \notin touched
    <3>1. PICK i \in 1 .. Len(still) : still[i] = m.rows[j]
      BY <1>3, <1>8, <2>2, <2>4
    <3>2. i \in 1 .. Len(first) /\ i \in 1 .. Len(s)
      BY <1>11, <1>14, <1>16
    <3> QED  BY <1>11, <1>14, <2>2, <3>1, <3>2
  <2> QED  BY <2>3, <2>4
<1> DEFINE d == Sorted(s, Len(still))
<1>22. /\ d \in Seq(Row) /\ Distinct(d) /\ Len(d) = Len(s)
       /\ \A k \in 1 .. Len(s) : \E i \in 1 .. Len(s) : d[i] = s[k]
  BY <1>19 DEF Shuffled
<1>23. Ordered(rows) => Ordered(d)
  BY <1>19, <1>20
<1> HIDE DEF d
<1>24. \A k \in 1 .. Len(rows) : rows[k].name \notin Gone(b) => \E i \in 1 .. Len(d) : d[i].name = rows[k].name
  <2> TAKE k \in 1 .. Len(rows)
  <2> HAVE rows[k].name \notin Gone(b)
  <2>1. PICK j \in 1 .. Len(s) : s[j].name = rows[k].name
    BY <1>21
  <2>2. PICK i \in 1 .. Len(s) : d[i] = s[j]
    BY <1>22
  <2> QED  BY <1>22, <2>1, <2>2
<1> QED  BY <1>18, <1>22, <1>23, <1>24 DEF d

-----------------------------------------------------------------------------
(* What a dispatch keeps of the list while it takes batches.  *)

\* What a list says of its watch.
Watches == {"inactive", "watching", "recovering", "failed"}

\* The list with the locals of process_content_results.
Screen == [phase : Phases \cup {"left"}, watch : Watches, updating : BOOLEAN, rows : Seq(Row),
           seen : SUBSET Nat, selected : SUBSET Nat, device : BOOLEAN,
           kept : BOOLEAN, names : SUBSET Names, changed : BOOLEAN, full : BOOLEAN, stop : BOOLEAN,
           cancelled : BOOLEAN, lost : BOOLEAN, append : BOOLEAN]

\* The list says that it is not refreshed.
Over(u) == u.watch = "failed" \/ u.phase \in {"error", "limited", "left"}

\* The state of the list hangs together, and the indices are those of rows unless
\* the selection is remembered by name.
Coherent(u) ==
  /\ u \in Screen
  /\ Distinct(u.rows)
  /\ u.seen \subseteq 1 .. Len(u.rows)
  /\ u.selected \subseteq 1 .. Len(u.rows) \/ (u.kept /\ u.changed)
  /\ u.watch # "recovering" => u.seen = {}
  /\ u.phase = "loading" => ~u.device /\ u.watch = IF u.updating THEN "recovering" ELSE "inactive"
  /\ u.updating => u.phase = "loading"
  /\ u.cancelled = u.stop
  /\ u.stop => u.lost \/ Over(u)
  /\ u.lost => u.stop

\* The selection stays a set of names when renames are handed on.
LEMMA HandedOnIs ==
  ASSUME NEW names \in SUBSET Names, NEW b, b.renamed \in Seq(Names \X Names)
  PROVE  Followed(names, b) \in SUBSET Names
<1> DEFINE n == Len(b.renamed)
           Upto[k \in 0 .. n] == IF k = 0 THEN names ELSE HandedOn(Upto[k - 1], b.renamed[k])
           T == [k \in 0 .. n |-> SUBSET Names]
           F == [ks \in (1 .. n) \X SUBSET Names |-> HandedOn(ks[2], b.renamed[ks[1]])]
<1>1. n \in Nat /\ \A i \in 1 .. n : b.renamed[i] \in Names \X Names
  OBVIOUS
<1>2. names \in T[0]
  <2>1. 0 \in 0 .. n
    BY <1>1
  <2> QED  BY <2>1
<1>3. \A k \in 1 .. n : \A s \in SUBSET Names : HandedOn(s, b.renamed[k]) \in SUBSET Names
  BY <1>1 DEF HandedOn
<1>4. \A k \in 1 .. n : \A s \in T[k - 1] : /\ s \in SUBSET Names /\ HandedOn(s, b.renamed[k]) \in T[k]
                                           /\ F[<<k, s>>] = HandedOn(s, b.renamed[k])
  <2> TAKE k \in 1 .. n
  <2>1. k - 1 \in 0 .. n /\ k \in 0 .. n
    BY <1>1
  <2>2. T[k - 1] = SUBSET Names /\ T[k] = SUBSET Names
    BY <2>1
  <2> QED  BY <1>3, <2>2
<1> HIDE DEF T, F, n
<1>5. PICK f : /\ \A k \in 0 .. n : f[k] \in T[k]
               /\ Steps(f, names, n, F)
  <2>1. \A k \in 1 .. n : \A s \in T[k - 1] : F[<<k, s>>] \in T[k]
    BY <1>4
  <2> QED  BY <1>1, <1>2, <2>1, Recursed
<1>6. f = [k \in 0 .. n |-> IF k = 0 THEN names ELSE HandedOn(f[k - 1], b.renamed[k])]
  <2>1. \A k \in 0 .. n : k # 0 => k \in 1 .. n /\ k - 1 \in 0 .. n
    BY <1>1
  <2>2. \A k \in 0 .. n : k # 0 => F[<<k, f[k - 1]>>] = HandedOn(f[k - 1], b.renamed[k])
    BY <1>4, <1>5, <2>1
  <2> QED  BY <1>5, <2>2, Zenon DEF Steps
<1>7. Upto = [k \in 0 .. n |-> IF k = 0 THEN names ELSE HandedOn(Upto[k - 1], b.renamed[k])]
  BY <1>6, Zenon
<1> HIDE DEF Upto
<1>8. Upto[0] = names /\ \A k \in 1 .. n : Upto[k] = HandedOn(Upto[k - 1], b.renamed[k])
  <2>1. 0 \in 0 .. n /\ \A k \in 1 .. n : k \in 0 .. n /\ k # 0
    BY <1>1
  <2>2. \A k \in 0 .. n : Upto[k] = IF k = 0 THEN names ELSE HandedOn(Upto[k - 1], b.renamed[k])
    BY <1>7, Zenon
  <2> QED  BY <2>1, <2>2
<1>9. \A k \in 0 .. n : Upto[k] \in T[k]
  <2>1. Upto[0] \in T[0]
    BY <1>2, <1>8
  <2>2. \A k \in 1 .. n : Upto[k - 1] \in T[k - 1] => Upto[k] \in T[k]
    <3> TAKE k \in 1 .. n
    <3> HAVE Upto[k - 1] \in T[k - 1]
    <3>1. HandedOn(Upto[k - 1], b.renamed[k]) \in T[k]
      BY <1>4
    <3> QED  BY <1>8, <3>1
  <2> QED  BY <1>1, <2>1, <2>2, AllAlong
<1>10. Upto[n] \in SUBSET Names
  <2>1. n \in 0 .. n /\ T[n] = SUBSET Names
    BY <1>1 DEF T
  <2> QED  BY <1>9, <2>1
<1> QED  BY <1>10 DEF Followed, Upto, n

\* Remembering the selection changes nothing else.
LEMMA CapturedIs ==
  ASSUME NEW u, Coherent(u)
  PROVE  LET c == Captured(u) IN
         /\ c \in Screen /\ c.kept
         /\ c.phase = u.phase /\ c.watch = u.watch /\ c.updating = u.updating /\ c.rows = u.rows
         /\ c.seen = u.seen /\ c.selected = u.selected /\ c.device = u.device /\ c.changed = u.changed
         /\ c.full = u.full /\ c.stop = u.stop /\ c.cancelled = u.cancelled /\ c.lost = u.lost /\ c.append = u.append
<1>1. u \in Screen
  BY DEF Coherent
<1>2. CASE u.kept
  BY <1>1, <1>2 DEF Captured
<1>3. CASE ~u.kept
  <2> DEFINE names == {u.rows[i].name : i \in u.selected}
  <2>1. u.selected \subseteq 1 .. Len(u.rows) /\ u.rows \in Seq(Row)
    BY <1>1, <1>3 DEF Coherent, Screen
  <2>2. names \in SUBSET Names
    <3>1. \A i \in u.selected : u.rows[i] \in Row
      BY <2>1
    <3> QED  BY <3>1 DEF Row
  <2> HIDE DEF names
  <2>3. Captured(u) = [u EXCEPT !.kept = TRUE, !.names = names]
    BY <1>3 DEF Captured, names
  <2> QED  BY <1>1, <2>2, <2>3 DEF Screen
<1> QED  BY <1>2, <1>3

\* What no merge of a batch changes.
SameFlags(u, v) ==
  /\ v.updating = u.updating /\ v.selected = u.selected /\ v.device = u.device
  /\ v.kept = u.kept /\ v.changed = u.changed /\ v.full = u.full /\ v.append = u.append /\ v.lost = u.lost

\* fail_list_watch: the watch is over, the rows stay.
LEMMA FailedIs ==
  ASSUME NEW u \in Screen
  PROVE  LET v == Failed(u) IN
         /\ v \in Screen /\ SameFlags(u, v) /\ v.phase = u.phase /\ v.rows = u.rows
         /\ v.watch = "failed" /\ v.seen = {} /\ v.stop /\ v.cancelled
<1>1. Failed(u) = [u EXCEPT !.watch = "failed", !.seen = {}, !.stop = TRUE, !.cancelled = TRUE]
  BY DEF Failed, Cancelled, Screen
<1> QED  BY <1>1 DEF Screen, Watches, SameFlags

\* A batch of a rescan, or one that is merged like it.
LEMMA AppliedRescanIs ==
  ASSUME NEW u \in Screen, Distinct(u.rows), u.seen \subseteq 1 .. Len(u.rows),
         u.watch = "recovering", ~u.stop, ~u.cancelled,
         NEW b \in Batch, b.change = "rescan", NEW abort \in BOOLEAN
  PROVE  LET v == Applied(u, b, abort) IN
         /\ v \in Screen /\ SameFlags(u, v)
         /\ Distinct(v.rows) /\ v.seen \subseteq 1 .. Len(v.rows)
         /\ v.cancelled = v.stop
         /\ v.stop <=> abort \/ b.phase = "error"
         /\ v.watch = IF abort \/ b.phase = "error" THEN "failed"
                      ELSE IF b.phase = "loading" THEN "recovering" ELSE "watching"
         /\ v.watch # "recovering" => v.seen = {}
         /\ v.watch # "watching" => Len(u.rows) <= Len(v.rows)
         /\ ~abort => v.phase \in {"empty", "complete"}
<1> DEFINE w == [u EXCEPT !.names = IF u.kept THEN Followed(@, b) ELSE @]
           start == [rows |-> w.rows, seen |-> w.seen, updated |-> {}]
           m == AllUpserted(start, b.rows)
           x == [w EXCEPT !.rows = m.rows, !.seen = m.seen]
           y == Recovered(x, b.phase)
           v == Applied(u, b, abort)
<1>1. /\ b.rows \in Seq(Row) /\ b.renamed \in Seq(Names \X Names) /\ u.names \in SUBSET Names
      /\ u.rows \in Seq(Row) /\ u.seen \in SUBSET Nat
  BY DEF Batch, Screen
<1>0. u.stop = FALSE /\ u.cancelled = FALSE /\ abort \in {TRUE, FALSE}
  BY DEF Screen
<1>2. w \in Screen /\ SameFlags(u, w) /\ w.phase = u.phase /\ w.rows = u.rows /\ w.seen = u.seen
      /\ w.watch = u.watch /\ w.stop = u.stop /\ w.cancelled = u.cancelled
  <2>1. Followed(u.names, b) \in SUBSET Names
    BY <1>1, HandedOnIs
  <2> QED  BY <2>1 DEF Screen, SameFlags
<1> HIDE DEF w
<1>3. Grown(start, m)
  <2>1. start \in Merge /\ start.rows = u.rows /\ start.seen = u.seen
    BY <1>1, <1>2 DEF Merge
  <2> HIDE DEF start
  <2> QED  BY <1>1, <2>1, AllUpsertedIs
<1>4. /\ m.rows \in Seq(Row) /\ m.seen \in SUBSET Nat /\ Distinct(m.rows) /\ m.seen \subseteq 1 .. Len(m.rows)
      /\ Len(u.rows) <= Len(m.rows)
  <2>1. start.rows = u.rows
    BY <1>2
  <2> HIDE DEF start, m
  <2> QED  BY <1>3, <2>1 DEF Grown, Merge
<1> HIDE DEF m, start
<1>5. /\ x \in Screen /\ SameFlags(u, x) /\ x.phase = u.phase /\ x.rows = m.rows /\ x.seen = m.seen
      /\ x.watch = u.watch /\ x.stop = u.stop /\ x.cancelled = u.cancelled
  BY <1>2, <1>4 DEF Screen, SameFlags
<1> HIDE DEF x
<1>6. CASE abort
  <2>1. v = Failed(w)
    BY <1>6 DEF Applied, w
  <2> HIDE DEF v
  <2>2. /\ v \in Screen /\ SameFlags(w, v) /\ v.rows = u.rows /\ v.watch = "failed" /\ v.seen = {} /\ v.stop /\ v.cancelled
    BY <1>2, <2>1, FailedIs
  <2>3. Len(u.rows) <= Len(v.rows)
    BY <1>1, <2>2
  <2> QED  BY <1>2, <1>6, <2>2, <2>3 DEF SameFlags, v
<1>7. CASE ~abort
  <2>1. v = [y EXCEPT !.phase = IF y.rows = <<>> THEN "empty" ELSE "complete"]
    BY <1>7 DEF Applied, w, x, y, m, start
  <2>2. CASE b.phase = "loading"
    <3>1. y = x
      BY <2>2 DEF Recovered
    <3> HIDE DEF v, y
    <3>2. /\ v \in Screen /\ SameFlags(x, v) /\ v.rows = m.rows /\ v.seen = m.seen /\ v.watch = "recovering"
          /\ v.stop = u.stop /\ v.cancelled = u.cancelled /\ v.phase \in {"empty", "complete"}
      BY <1>5, <2>1, <3>1 DEF Screen, SameFlags, Phases
    <3> QED  BY <1>0, <1>4, <1>5, <1>7, <2>2, <3>2 DEF SameFlags, v
  <2>3. CASE b.phase = "error"
    <3>1. y = Failed(x)
      BY <2>3 DEF Recovered
    <3> HIDE DEF v, y
    <3>2. /\ y \in Screen /\ SameFlags(x, y) /\ y.rows = m.rows /\ y.watch = "failed" /\ y.seen = {} /\ y.stop /\ y.cancelled
      BY <1>5, <3>1, FailedIs
    <3>3. /\ v \in Screen /\ SameFlags(y, v) /\ v.rows = m.rows /\ v.seen = {} /\ v.watch = "failed"
          /\ v.stop /\ v.cancelled /\ v.phase \in {"empty", "complete"}
      BY <2>1, <3>2 DEF Screen, SameFlags, Phases
    <3> QED  BY <1>4, <1>5, <1>7, <2>3, <3>2, <3>3 DEF SameFlags, v
  <2>4. CASE b.phase \notin {"loading", "error"}
    <3> DEFINE kept == Kept(x.rows, x.seen)
    <3>1. kept \in Seq(Row) /\ Distinct(kept)
      BY <1>4, <1>5, KeptRows
    <3>2. y = [x EXCEPT !.rows = kept, !.seen = {}, !.watch = "watching"]
      BY <2>4 DEF Recovered
    <3> HIDE DEF v, y, kept
    <3>3. /\ y \in Screen /\ SameFlags(x, y) /\ y.rows = kept /\ y.watch = "watching" /\ y.seen = {}
          /\ y.stop = u.stop /\ y.cancelled = u.cancelled
      BY <1>5, <3>1, <3>2 DEF Screen, SameFlags, Watches
    <3>4. /\ v \in Screen /\ SameFlags(y, v) /\ v.rows = kept /\ v.seen = {} /\ v.watch = "watching"
          /\ v.stop = u.stop /\ v.cancelled = u.cancelled /\ v.phase \in {"empty", "complete"}
      BY <2>1, <3>3 DEF Screen, SameFlags, Phases
    <3> QED  BY <1>0, <1>5, <1>7, <2>4, <3>1, <3>3, <3>4 DEF SameFlags, v
  <2> QED  BY <2>2, <2>3, <2>4
<1> QED  BY <1>6, <1>7

\* A delta, over rows nothing else is merging into.
LEMMA AppliedDeltaIs ==
  ASSUME NEW u \in Screen, Distinct(u.rows), u.watch = "watching", ~u.stop, ~u.cancelled,
         NEW b \in Batch, b.change = "delta", NEW abort \in BOOLEAN
  PROVE  LET v == Applied(u, b, abort) IN
         /\ v \in Screen /\ SameFlags(u, v)
         /\ Distinct(v.rows)
         /\ v.cancelled = v.stop
         /\ v.stop <=> abort
         /\ abort => v.watch = "failed" /\ v.seen = {} /\ v.rows = u.rows
         /\ ~abort => /\ v.watch = "watching" /\ v.seen = u.seen /\ v.rows = Delta(u.rows, b)
                      /\ v.phase \in {"empty", "complete"}
<1> DEFINE w == [u EXCEPT !.names = IF u.kept THEN Followed(@, b) ELSE @]
           x == [w EXCEPT !.rows = Delta(w.rows, b)]
           v == Applied(u, b, abort)
<1>1. /\ b.rows \in Seq(Row) /\ b.renamed \in Seq(Names \X Names) /\ u.names \in SUBSET Names
      /\ u.rows \in Seq(Row)
  BY DEF Batch, Screen
<1>0. u.stop = FALSE /\ u.cancelled = FALSE /\ abort \in {TRUE, FALSE}
  BY DEF Screen
<1>2. w \in Screen /\ SameFlags(u, w) /\ w.phase = u.phase /\ w.rows = u.rows /\ w.seen = u.seen
      /\ w.watch = u.watch /\ w.stop = u.stop /\ w.cancelled = u.cancelled
  <2>1. Followed(u.names, b) \in SUBSET Names
    BY <1>1, HandedOnIs
  <2> QED  BY <2>1 DEF Screen, SameFlags
<1> HIDE DEF w
<1>3. Delta(u.rows, b) \in Seq(Row) /\ Distinct(Delta(u.rows, b))
  BY <1>1, DeltaIs
<1>4. CASE abort
  <2>1. v = Failed(w)
    BY <1>4 DEF Applied, w
  <2> HIDE DEF v
  <2>2. /\ v \in Screen /\ SameFlags(w, v) /\ v.rows = u.rows /\ v.watch = "failed" /\ v.seen = {} /\ v.stop /\ v.cancelled
    BY <1>2, <2>1, FailedIs
  <2> QED  BY <1>2, <1>4, <2>2 DEF SameFlags, v
<1>5. CASE ~abort
  <2>1. v = [x EXCEPT !.phase = IF x.rows = <<>> THEN "empty" ELSE "complete"]
    BY <1>2, <1>5 DEF Applied, w, x
  <2>2. /\ x \in Screen /\ SameFlags(u, x) /\ x.phase = u.phase /\ x.rows = Delta(u.rows, b) /\ x.seen = u.seen
        /\ x.watch = u.watch /\ x.stop = u.stop /\ x.cancelled = u.cancelled
    BY <1>2, <1>3 DEF Screen, SameFlags
  <2> HIDE DEF v, x
  <2>3. /\ v \in Screen /\ SameFlags(x, v) /\ v.rows = x.rows /\ v.seen = x.seen /\ v.watch = x.watch
        /\ v.stop = u.stop /\ v.cancelled = u.cancelled /\ v.phase \in {"empty", "complete"}
    BY <2>1, <2>2 DEF Screen, SameFlags, Phases
  <2> QED  BY <1>0, <1>3, <1>5, <2>2, <2>3 DEF SameFlags, v
<1> QED  BY <1>4, <1>5

\* The rows the dispatch began with are still the first ones.
Behind(l, u) ==
  u.append => l.watch # "recovering" /\ ~l.updating /\ Len(l.rows) <= Len(u.rows) /\ \A i \in 1 .. Len(l.rows) : u.rows[i] = l.rows[i]

\* Rows that are to be in order are, or will be sorted when the dispatch ends; what
\* has only been appended is still to be sorted, and no delta can follow it yet.
Placed(u, s, k) ==
  ~u.stop /\ ~u.updating /\ s \in {"listing", "listed", "following"} =>
    \/ Ordered(u.rows)
    \/ u.changed /\ u.full
    \/ u.changed /\ u.append /\ k >= 1 /\ (s = "following" => k >= 2)

\* A first listing has not come past the name.
Low(u, low) ==
  ~u.stop /\ u.phase = "loading" /\ ~u.updating => \A i \in 1 .. Len(u.rows) : u.rows[i].name <= low

\* The list after k batches.
Taken(l, u, s, low, k) ==
  /\ Coherent(u)
  /\ ~u.stop => ShownStage(u) = s
  /\ Behind(l, u) /\ Placed(u, s, k) /\ Low(u, low)

\* What the stage says of the list.
LEMMA StageIs ==
  ASSUME NEW u, Coherent(u), NEW s, ShownStage(u) = s
  PROVE  /\ s = "listing" => u.phase = "loading" /\ u.watch = IF u.updating THEN "recovering" ELSE "inactive"
         /\ s = "listed" => u.phase \in {"complete", "empty"} /\ u.watch = "inactive" /\ ~u.updating
         /\ s = "following" => u.phase \in {"complete", "empty"} /\ u.watch = "watching" /\ ~u.updating
         /\ s = "rescanning" => u.phase \in {"complete", "empty"} /\ u.watch = "recovering" /\ ~u.updating
         /\ s # "over"
         /\ s \in {"listing", "listed", "following", "rescanning"} => u.watch # "failed"
<1>1. u.phase \in Phases \cup {"left"} /\ u.watch \in Watches
  BY DEF Coherent, Screen
<1> QED  BY <1>1 DEF ShownStage, Coherent, Phases, Watches

\* A cancelled source ends the dispatch and leaves the list.
LEMMA CancelledIs ==
  ASSUME NEW u \in Screen
  PROVE  LET v == Cancelled(u) IN
         /\ v \in Screen /\ SameFlags(u, v) /\ v.phase = u.phase /\ v.rows = u.rows
         /\ v.watch = u.watch /\ v.seen = u.seen /\ v.stop /\ v.cancelled
BY DEF Cancelled, Screen, SameFlags

\* A batch of a first listing.
LEMMA AppendedIs ==
  ASSUME NEW l, l.rows \in Seq(Row), NEW u, NEW low \in Int, NEW high \in Int, low <= high,
         NEW k \in Nat, Taken(l, u, "listing", low, k), ~u.stop, ~u.updating,
         NEW b \in Batch, AscendsFrom(b.rows, low, high), NEW abort \in BOOLEAN,
         NEW t, Moves("listing", b, t)
  PROVE  /\ Taken(l, Appended(u, b, abort), t, high, k + 1)
         /\ Appended(u, b, abort).stop => t = "over" \/ abort
<1> DEFINE phase == IF abort THEN "limited" ELSE b.phase
           c == IF b.rows # <<>> THEN Captured(u) ELSE u
           rows == IF abort THEN u.rows ELSE u.rows \o b.rows
           w == [c EXCEPT !.rows = IF abort THEN @ ELSE @ \o b.rows, !.phase = phase,
                          !.changed = @ \/ (b.rows # <<>> /\ ~abort),
                          !.full = @ \/ (b.rows # <<>> /\ ~abort /\ ~u.append)]
           v == Appended(u, b, abort)
<1>1. /\ u \in Screen /\ Distinct(u.rows) /\ u.rows \in Seq(Row) /\ u.stop = FALSE /\ u.cancelled = FALSE
      /\ u.phase = "loading" /\ u.watch = "inactive" /\ u.seen = {} /\ u.updating = FALSE /\ u.device = FALSE
      /\ u.lost = FALSE
  <2>1. Coherent(u) /\ ShownStage(u) = "listing"
    BY DEF Taken
  <2> QED  BY <2>1, StageIs DEF Coherent, Screen
<1>2. b.rows \in Seq(Row) /\ b.phase \in Phases \ {"limited"}
  BY DEF Batch
<1>3. /\ c \in Screen /\ c.rows = u.rows /\ c.changed = u.changed /\ c.full = u.full /\ c.append = u.append
      /\ c.seen = {} /\ c.selected = u.selected /\ c.updating = FALSE /\ c.device = FALSE /\ c.watch = "inactive"
      /\ c.stop = FALSE /\ c.cancelled = FALSE /\ c.lost = u.lost /\ (u.kept => c.kept)
  <2>1. Coherent(u)
    BY DEF Taken
  <2> QED  BY <1>1, <2>1, CapturedIs
<1>4. /\ rows \in Seq(Row) /\ Len(u.rows) <= Len(rows) /\ \A i \in 1 .. Len(u.rows) : rows[i] = u.rows[i]
      /\ Distinct(rows) /\ \A i \in 1 .. Len(rows) : rows[i].name <= high
      /\ b.rows = <<>> => rows = u.rows
  <2>1. /\ \A i \in 1 .. Len(u.rows) : u.rows[i].name <= low
        /\ \A i \in 1 .. Len(u.rows) : u.rows[i].name \in Int
    <3>1. \A i \in 1 .. Len(u.rows) : u.rows[i] \in Row
      BY <1>1
    <3>2. \A i \in 1 .. Len(u.rows) : u.rows[i].name \in Int
      BY <3>1 DEF Row, Names
    <3> QED  BY <1>1, <3>2 DEF Taken, Low
  <2>2. CASE abort
    BY <1>1, <2>1, <2>2
  <2>3. CASE ~abort
    <3>1. DOMAIN b.rows = 1 .. Len(b.rows) /\ \A i \in 1 .. Len(b.rows) : b.rows[i] \in Row
      BY <1>2
    <3>2. /\ \A i \in 1 .. Len(b.rows) : low < b.rows[i].name /\ b.rows[i].name <= high /\ b.rows[i].name \in Int
          /\ \A i, j \in 1 .. Len(b.rows) : i < j => b.rows[i].name < b.rows[j].name
      <4>1. \A i \in 1 .. Len(b.rows) : low < b.rows[i].name /\ b.rows[i].name <= high
        BY <3>1 DEF AscendsFrom
      <4>2. \A i, j \in 1 .. Len(b.rows) : i < j => b.rows[i].name < b.rows[j].name
        BY <3>1 DEF AscendsFrom
      <4>3. \A i \in 1 .. Len(b.rows) : b.rows[i].name \in Int
        BY <3>1 DEF Row, Names
      <4> QED  BY <4>1, <4>2, <4>3
    <3>3. Distinct(b.rows)
      <4> SUFFICES ASSUME NEW i \in 1 .. Len(b.rows), NEW j \in 1 .. Len(b.rows), b.rows[i].name = b.rows[j].name
                   PROVE  i = j
        BY <3>1 DEF Distinct
      <4>1. ~(i < j) /\ ~(j < i)
        BY <3>2
      <4> QED  BY <1>2, <4>1
    <3>4. \A i \in 1 .. Len(u.rows), j \in 1 .. Len(b.rows) : u.rows[i].name # b.rows[j].name
      BY <2>1, <3>2
    <3> DEFINE s == u.rows \o b.rows
    <3>5. Distinct(s)
      BY <1>1, <1>2, <3>3, <3>4, DistinctJoined
    <3>6. /\ s \in Seq(Row) /\ Len(s) = Len(u.rows) + Len(b.rows)
          /\ \A i \in 1 .. Len(u.rows) : s[i] = u.rows[i]
          /\ \A i \in 1 .. Len(b.rows) : s[Len(u.rows) + i] = b.rows[i]
          /\ \A i \in 1 .. Len(s) : i \in 1 .. Len(u.rows) \/ \E h \in 1 .. Len(b.rows) : i = Len(u.rows) + h
      <4>1. u.rows \in Seq(Row) /\ b.rows \in Seq(Row)
        BY <1>1, <1>2
      <4> DEFINE a == u.rows
                 d == b.rows
      <4> HIDE DEF a, d
      <4>2. a \in Seq(Row) /\ d \in Seq(Row)
        BY <4>1 DEF a, d
      <4>3. /\ a \o d \in Seq(Row) /\ Len(a \o d) = Len(a) + Len(d)
            /\ \A i \in 1 .. Len(a) : (a \o d)[i] = a[i]
            /\ \A i \in 1 .. Len(d) : (a \o d)[Len(a) + i] = d[i]
            /\ \A i \in 1 .. Len(a \o d) : i \in 1 .. Len(a) \/ \E h \in 1 .. Len(d) : i = Len(a) + h
        BY <4>2, Joined
      <4> QED  BY <4>3 DEF a, d
    <3>7. b.rows = <<>> => s = u.rows
      BY <1>1, ConcatEmptySeq
    <3> HIDE DEF s
    <3>8. Len(u.rows) \in Nat /\ Len(b.rows) \in Nat
      BY <1>1, <1>2
    <3>9. \A i \in 1 .. Len(s) : s[i].name <= high
      <4> TAKE i \in 1 .. Len(s)
      <4>1. CASE i \in 1 .. Len(u.rows)
        <5>1. s[i] = u.rows[i] /\ u.rows[i].name <= low /\ u.rows[i].name \in Int
          BY <2>1, <3>6, <4>1
        <5> QED  BY <5>1
      <4>2. ASSUME NEW h \in 1 .. Len(b.rows), i = Len(u.rows) + h
            PROVE  s[i].name <= high
        BY <3>2, <3>6, <4>2
      <4> QED  BY <3>6, <4>1, <4>2
    <3>10. rows = s
      BY <2>3 DEF s
    <3>11. Len(u.rows) <= Len(s)
      <4>1. Len(s) = Len(u.rows) + Len(b.rows)
        BY <3>6, Zenon
      <4> DEFINE a == Len(u.rows)
                 d == Len(b.rows)
      <4>2. a \in Nat /\ d \in Nat /\ Len(s) = a + d
        BY <3>8, <4>1, Zenon
      <4> HIDE DEF a, d
      <4>3. a <= Len(s)
        BY <4>2
      <4> QED  BY <4>3, Zenon DEF a
    <3>12. s \in Seq(Row) /\ \A i \in 1 .. Len(u.rows) : s[i] = u.rows[i]
      BY <3>6
    <3> HIDE DEF rows
    <3> QED  BY <3>5, <3>7, <3>9, <3>10, <3>11, <3>12, Zenon
  <2> QED  BY <2>2, <2>3
<1> HIDE DEF rows
<1>5. w = [c EXCEPT !.rows = rows, !.phase = phase,
                    !.changed = u.changed \/ (b.rows # <<>> /\ ~abort),
                    !.full = u.full \/ (b.rows # <<>> /\ ~abort /\ ~u.append)]
  <2> HIDE DEF c
  <2> QED  BY <1>3 DEF rows
<1> HIDE DEF c
<1>6. phase \in Phases
  BY <1>2 DEF Phases
<1>7. v = IF phase \in {"error", "limited"} THEN Cancelled(w) ELSE w
  BY DEF Appended, c
<1> HIDE DEF phase, w
<1>8. /\ w \in Screen /\ w.rows = rows /\ w.phase = phase
      /\ w.changed = (u.changed \/ (b.rows # <<>> /\ ~abort))
      /\ w.full = (u.full \/ (b.rows # <<>> /\ ~abort /\ ~u.append))
      /\ w.append = u.append /\ w.seen = {} /\ w.selected = u.selected /\ w.updating = FALSE /\ w.device = FALSE
      /\ w.watch = "inactive" /\ w.stop = FALSE /\ w.cancelled = FALSE /\ (u.kept => w.kept)
  BY <1>3, <1>4, <1>5, <1>6 DEF Screen
<1>81. w.lost = FALSE
  BY <1>1, <1>3, <1>5 DEF Screen
<1>9. v \in Screen /\ SameFlags(w, v) /\ v.phase = phase /\ v.rows = rows /\ v.watch = "inactive" /\ v.seen = {}
      /\ v.cancelled = v.stop /\ (v.stop <=> phase \in {"error", "limited"})
  <2>1. CASE phase \in {"error", "limited"}
    <3>1. v = Cancelled(w)
      BY <1>7, <2>1
    <3>2. /\ v \in Screen /\ SameFlags(w, v) /\ v.phase = w.phase /\ v.rows = w.rows
          /\ v.watch = w.watch /\ v.seen = w.seen /\ v.stop /\ v.cancelled
      BY <1>8, <3>1, CancelledIs
    <3>3. v.stop = TRUE /\ v.cancelled = TRUE
      BY <3>2 DEF Screen
    <3> QED  BY <1>8, <2>1, <3>2, <3>3
  <2>2. CASE phase \notin {"error", "limited"}
    <3>1. v = w
      BY <1>7, <2>2
    <3> QED  BY <1>8, <2>2, <3>1 DEF SameFlags
  <2> QED  BY <2>1, <2>2
<1> HIDE DEF v
<1>10. /\ v.changed = (u.changed \/ (b.rows # <<>> /\ ~abort))
       /\ v.full = (u.full \/ (b.rows # <<>> /\ ~abort /\ ~u.append))
       /\ v.append = u.append /\ v.selected = u.selected /\ v.updating = FALSE /\ v.device = FALSE /\ v.lost = FALSE
       /\ (u.kept => v.kept) /\ u.append \in BOOLEAN
  BY <1>1, <1>8, <1>81, <1>9 DEF SameFlags, Screen
<1>11. v.selected \subseteq 1 .. Len(v.rows) \/ (v.kept /\ v.changed)
  <2>1. u.selected \subseteq 1 .. Len(u.rows) \/ (u.kept /\ u.changed)
    BY DEF Taken, Coherent
  <2>2. 1 .. Len(u.rows) \subseteq 1 .. Len(rows)
    <3>1. Len(u.rows) \in Nat /\ Len(rows) \in Nat
      BY <1>1, <1>4
    <3> QED  BY <1>4, <3>1
  <2>3. v.rows = rows
    BY <1>9
  <2> QED  BY <1>10, <2>1, <2>2, <2>3
<1>12. Coherent(v)
  BY <1>4, <1>9, <1>10, <1>11 DEF Coherent, Over
<1>13. phase = IF abort THEN "limited" ELSE b.phase
  BY DEF phase
<1>14. t = CASE b.phase = "loading" -> "listing" [] b.phase = "error" -> "over" [] OTHER -> "listed"
  BY DEF Moves
<1>15. v.stop => t = "over" \/ abort
  BY <1>2, <1>9, <1>13, <1>14
<1>16. ~v.stop => ShownStage(v) = t
  BY <1>2, <1>6, <1>9, <1>10, <1>13, <1>14 DEF ShownStage, Phases
<1>17. Behind(l, v)
  <2>1. u.append => l.watch # "recovering" /\ ~l.updating /\ Len(l.rows) <= Len(u.rows) /\ \A i \in 1 .. Len(l.rows) : u.rows[i] = l.rows[i]
    BY DEF Taken, Behind
  <2>2. Len(l.rows) \in Nat /\ Len(u.rows) \in Nat /\ Len(rows) \in Nat
    BY <1>1, <1>4
  <2>3. v.append = u.append /\ v.rows = rows
    BY <1>9, <1>10
  <2> QED  BY <1>4, <2>1, <2>2, <2>3 DEF Behind
<1>18. Placed(v, t, k + 1)
  <2>1. SUFFICES ASSUME ~v.stop
                 PROVE  \/ Ordered(v.rows) \/ (v.changed /\ v.full)
                        \/ (v.changed /\ v.append /\ k + 1 >= 1 /\ (t = "following" => k + 1 >= 2))
    BY DEF Placed
  <2>2. ~abort /\ t # "following" /\ k + 1 >= 1
    BY <1>2, <1>9, <1>13, <1>14, <2>1
  <2>3. CASE b.rows = <<>>
    <3>1. \/ Ordered(u.rows) \/ (u.changed /\ u.full) \/ (u.changed /\ u.append)
      BY <1>1 DEF Taken, Placed
    <3> QED  BY <1>4, <1>9, <1>10, <2>2, <2>3, <3>1
  <2>4. CASE b.rows # <<>>
    BY <1>10, <2>2, <2>4
  <2> QED  BY <2>3, <2>4
<1>19. Low(v, high)
  BY <1>4, <1>9 DEF Low
<1> QED  BY <1>12, <1>15, <1>16, <1>17, <1>18, <1>19 DEF Taken, v

\* A batch of a listing over rows that were kept.
LEMMA UpdatedIs ==
  ASSUME NEW l, NEW u, NEW low \in Int, NEW high \in Int,
         NEW k \in Nat, Taken(l, u, "listing", low, k), ~u.stop, u.updating,
         NEW b \in Batch, NEW abort \in BOOLEAN,
         NEW t, Moves("listing", b, t)
  PROVE  /\ Taken(l, Updated(u, b, abort), t, high, k + 1)
         /\ Updated(u, b, abort).stop => t = "over" \/ abort
<1> DEFINE ends == b.phase # "loading"
           c == IF ends THEN Captured(u) ELSE u
           d == [c EXCEPT !.append = FALSE]
           br == [b EXCEPT !.change = "rescan"]
           v == Applied(d, br, abort)
           w == IF v.watch = "failed" THEN Cancelled([v EXCEPT !.phase = "error", !.updating = FALSE, !.seen = {}])
                ELSE [v EXCEPT !.phase = b.phase]
           x == Updated(u, b, abort)
<1>1. /\ u \in Screen /\ Distinct(u.rows) /\ u.rows \in Seq(Row) /\ u.stop = FALSE /\ u.cancelled = FALSE
      /\ u.phase = "loading" /\ u.watch = "recovering" /\ u.seen \subseteq 1 .. Len(u.rows) /\ u.updating = TRUE
      /\ u.lost = FALSE /\ u.device = FALSE /\ (u.selected \subseteq 1 .. Len(u.rows) \/ (u.kept /\ u.changed))
  <2>1. Coherent(u) /\ ShownStage(u) = "listing"
    BY DEF Taken
  <2> QED  BY <2>1, StageIs DEF Coherent, Screen
<1>2. b.phase \in Phases \ {"limited"} /\ br \in Batch /\ br.change = "rescan" /\ br.phase = b.phase
  BY DEF Batch, Changes
<1>3. /\ c \in Screen /\ c.rows = u.rows /\ c.changed = u.changed /\ c.full = u.full
      /\ c.seen = u.seen /\ c.selected = u.selected /\ c.updating = TRUE /\ c.device = FALSE
      /\ c.watch = "recovering" /\ c.stop = FALSE /\ c.cancelled = FALSE /\ c.lost = FALSE /\ (u.kept \/ ends => c.kept)
  <2>1. Coherent(u)
    BY DEF Taken
  <2> QED  BY <1>1, <2>1, CapturedIs
<1> HIDE DEF c
<1>4. /\ d \in Screen /\ d.rows = u.rows /\ d.changed = u.changed /\ d.full = u.full /\ d.append = FALSE
      /\ d.seen = u.seen /\ d.selected = u.selected /\ d.updating = TRUE /\ d.device = FALSE
      /\ d.watch = "recovering" /\ d.stop = FALSE /\ d.cancelled = FALSE /\ d.lost = FALSE /\ (u.kept \/ ends => d.kept)
  BY <1>3 DEF Screen
<1> HIDE DEF d, br
<1>5. /\ v \in Screen /\ SameFlags(d, v)
      /\ Distinct(v.rows) /\ v.seen \subseteq 1 .. Len(v.rows)
      /\ v.cancelled = v.stop
      /\ v.stop <=> abort \/ b.phase = "error"
      /\ v.watch = IF abort \/ b.phase = "error" THEN "failed"
                   ELSE IF b.phase = "loading" THEN "recovering" ELSE "watching"
      /\ v.watch # "recovering" => v.seen = {}
      /\ v.watch # "watching" => Len(u.rows) <= Len(v.rows)
  <2>1. d.seen \subseteq 1 .. Len(d.rows) /\ Distinct(d.rows) /\ ~d.stop /\ ~d.cancelled
    BY <1>1, <1>4
  <2> QED  BY <1>2, <1>4, <2>1, AppliedRescanIs
<1>6. x = [w EXCEPT !.updating = w.updating /\ ~ends,
                    !.watch = IF ends /\ w.watch = "watching" THEN "inactive" ELSE w.watch,
                    !.changed = w.changed \/ ends, !.full = w.full \/ ends]
  <2> DEFINE vv == Applied([(IF ends THEN Captured(u) ELSE u) EXCEPT !.append = FALSE],
                   [b EXCEPT !.change = "rescan"], abort)
             ww == IF vv.watch = "failed" THEN Cancelled([vv EXCEPT !.phase = "error", !.updating = FALSE, !.seen = {}])
                   ELSE [vv EXCEPT !.phase = b.phase]
  <2>1. ww = w
    BY DEF d, c, br
  <2>2. x = [ww EXCEPT !.updating = @ /\ ~ends, !.watch = IF ends /\ @ = "watching" THEN "inactive" ELSE @,
               !.changed = @ \/ ends, !.full = @ \/ ends]
    BY DEF Updated
  <2> HIDE DEF x, w, ww, ends
  <2> QED  BY <2>1, <2>2
<1>7. /\ d.append = v.append /\ v.selected = u.selected /\ v.updating = TRUE /\ v.device = FALSE
      /\ (u.kept \/ ends => v.kept) /\ v.changed = u.changed /\ v.full = u.full /\ v.lost = FALSE
  BY <1>4, <1>5 DEF SameFlags
<1>8. /\ v.rows \in Seq(Row)
      /\ u.selected \subseteq 1 .. Len(u.rows) \/ (v.kept /\ u.changed)
  BY <1>1, <1>5, <1>7 DEF Screen
<1>9. t = CASE b.phase = "loading" -> "listing" [] b.phase = "error" -> "over" [] OTHER -> "listed"
  BY DEF Moves
<1> HIDE DEF x, v
<1>10. v.watch # "watching" => u.selected \subseteq 1 .. Len(v.rows) \/ (v.kept /\ u.changed)
  <2>1. Len(u.rows) \in Nat /\ Len(v.rows) \in Nat
    BY <1>1, <1>5 DEF Screen
  <2>2. Len(u.rows) <= Len(v.rows) => 1 .. Len(u.rows) \subseteq 1 .. Len(v.rows)
    BY <2>1
  <2> QED  BY <1>1, <1>5, <1>7, <2>2
<1>11. CASE v.watch = "failed"
  <2> DEFINE y == [v EXCEPT !.phase = "error", !.updating = FALSE, !.seen = {}]
  <2>1. /\ y \in Screen /\ y.phase = "error" /\ y.updating = FALSE /\ y.seen = {} /\ y.rows = v.rows
        /\ y.watch = "failed" /\ y.selected = u.selected /\ y.device = FALSE /\ y.kept = v.kept
        /\ y.changed = u.changed /\ y.full = u.full /\ y.append = FALSE /\ y.lost = FALSE
    BY <1>4, <1>5, <1>7, <1>11 DEF Screen, Phases
  <2>2. w = Cancelled(y)
    BY <1>11
  <2> HIDE DEF y, w
  <2>3. /\ w \in Screen /\ SameFlags(y, w) /\ w.phase = y.phase /\ w.rows = y.rows
        /\ w.watch = y.watch /\ w.seen = y.seen /\ w.stop /\ w.cancelled
    BY <2>1, <2>2, CancelledIs
  <2>4. /\ x \in Screen /\ x.phase = "error" /\ x.updating = FALSE /\ x.seen = {} /\ x.rows = v.rows
        /\ x.watch = "failed" /\ x.selected = u.selected /\ x.device = FALSE /\ x.kept = v.kept
        /\ x.changed = (u.changed \/ ends) /\ x.append = FALSE /\ x.stop = TRUE /\ x.cancelled = TRUE /\ x.lost = FALSE
    <3>1. /\ w \in Screen /\ w.updating = FALSE /\ w.watch = "failed" /\ w.changed = u.changed /\ w.full = u.full
          /\ w.phase = "error" /\ w.seen = {} /\ w.rows = v.rows /\ w.selected = u.selected /\ w.device = FALSE
          /\ w.kept = v.kept /\ w.append = FALSE /\ w.stop = TRUE /\ w.cancelled = TRUE /\ w.lost = FALSE
      BY <2>1, <2>3 DEF SameFlags, Screen
    <3>2. x = [w EXCEPT !.updating = FALSE, !.watch = "failed", !.changed = u.changed \/ ends, !.full = u.full \/ ends]
      BY <1>6, <3>1
    <3> HIDE DEF ends
    <3>3. (u.changed \/ ends) \in BOOLEAN /\ (u.full \/ ends) \in BOOLEAN
      OBVIOUS
    <3> QED  BY <3>1, <3>2, <3>3 DEF Screen, Watches
  <2>5. Coherent(x)
    BY <1>5, <1>10, <1>11, <2>4 DEF Coherent, Over
  <2>6. b.phase = "error" => t = "over"
    BY <1>9
  <2>7. b.phase = "error" \/ abort
    BY <1>5, <1>11
  <2> QED  BY <2>4, <2>5, <2>6, <2>7 DEF Taken, Behind, Placed, Low, x
<1>12. CASE v.watch # "failed"
  <2>1. w = [v EXCEPT !.phase = b.phase]
    BY <1>12
  <2> HIDE DEF w
  <2>2. /\ w \in Screen /\ w.phase = b.phase /\ w.updating = TRUE /\ w.seen = v.seen /\ w.rows = v.rows
        /\ w.watch = v.watch /\ w.selected = u.selected /\ w.device = FALSE /\ w.kept = v.kept
        /\ w.changed = u.changed /\ w.full = u.full /\ w.append = FALSE /\ w.stop = v.stop /\ w.cancelled = v.stop /\ w.lost = FALSE
    BY <1>2, <1>4, <1>5, <1>7, <2>1 DEF Screen
  <2>3. ~abort /\ b.phase # "error" /\ v.stop = FALSE
    BY <1>5, <1>12 DEF Screen
  <2>4. CASE b.phase = "loading"
    <3>1. ~ends /\ t = "listing" /\ v.watch = "recovering"
      BY <1>5, <1>9, <2>3, <2>4
    <3>2. /\ x \in Screen /\ x.phase = "loading" /\ x.updating = TRUE /\ x.seen = v.seen /\ x.rows = v.rows
          /\ x.watch = "recovering" /\ x.selected = u.selected /\ x.device = FALSE /\ x.kept = v.kept
          /\ x.changed = u.changed /\ x.append = FALSE /\ x.stop = FALSE /\ x.cancelled = FALSE /\ x.lost = FALSE
      BY <1>6, <2>2, <2>3, <2>4, <3>1 DEF Screen
    <3>3. Coherent(x)
      BY <1>5, <1>10, <3>1, <3>2 DEF Coherent, Over
    <3>4. ShownStage(x) = t
      BY <3>1, <3>2 DEF ShownStage
    <3> QED  BY <3>2, <3>3, <3>4 DEF Taken, Behind, Placed, Low, x
  <2>5. CASE b.phase # "loading"
    <3>1. ends /\ t = "listed" /\ v.watch = "watching" /\ b.phase \in {"complete", "empty"}
      BY <1>2, <1>5, <1>9, <2>3, <2>5 DEF Phases
    <3>2. /\ x \in Screen /\ x.phase = b.phase /\ x.updating = FALSE /\ x.seen = {} /\ x.rows = v.rows
          /\ x.watch = "inactive" /\ x.selected = u.selected /\ x.device = FALSE /\ x.kept = v.kept
          /\ x.changed = TRUE /\ x.full = TRUE /\ x.append = FALSE /\ x.stop = FALSE /\ x.cancelled = FALSE /\ x.lost = FALSE
      BY <1>5, <1>6, <2>2, <2>3, <2>5, <3>1 DEF Screen, Watches
    <3>3. x.kept
      BY <1>7, <3>1, <3>2
    <3>4. Coherent(x)
      BY <1>5, <3>1, <3>2, <3>3 DEF Coherent, Over
    <3>5. ShownStage(x) = t
      BY <3>1, <3>2 DEF ShownStage
    <3> QED  BY <3>1, <3>2, <3>4, <3>5 DEF Taken, Behind, Placed, Low, x
  <2> QED  BY <2>4, <2>5
<1> QED  BY <1>11, <1>12

\* What a change batch notes before it is merged.
Marked(u, ends, full, append) ==
  [(IF ends THEN Captured(u) ELSE u) EXCEPT !.changed = @ \/ ends, !.full = @ \/ full, !.append = @ /\ append]

\* What the locals of a dispatch note leaves the list alone.
LEMMA MarkedIs ==
  ASSUME NEW u, Coherent(u), NEW ends \in BOOLEAN, NEW full \in BOOLEAN, NEW append \in BOOLEAN
  PROVE  LET v == Marked(u, ends, full, append) IN
         /\ v \in Screen
         /\ v.phase = u.phase /\ v.watch = u.watch /\ v.updating = u.updating /\ v.rows = u.rows
         /\ v.seen = u.seen /\ v.selected = u.selected /\ v.device = u.device
         /\ v.stop = u.stop /\ v.cancelled = u.cancelled /\ v.lost = u.lost
         /\ v.changed = (u.changed \/ ends) /\ v.full = (u.full \/ full) /\ v.append = (u.append /\ append)
         /\ (u.kept \/ ends => v.kept)
<1> DEFINE c == IF ends THEN Captured(u) ELSE u
<1>1. u \in Screen
  BY DEF Coherent
<1>2. /\ c \in Screen
      /\ c.phase = u.phase /\ c.watch = u.watch /\ c.updating = u.updating /\ c.rows = u.rows
      /\ c.seen = u.seen /\ c.selected = u.selected /\ c.device = u.device /\ c.changed = u.changed
      /\ c.full = u.full /\ c.stop = u.stop /\ c.cancelled = u.cancelled /\ c.lost = u.lost /\ c.append = u.append
      /\ (u.kept \/ ends => c.kept)
  BY <1>1, CapturedIs
<1>3. Marked(u, ends, full, append) =
        [c EXCEPT !.changed = c.changed \/ ends, !.full = c.full \/ full, !.append = c.append /\ append]
  BY DEF Marked
<1> HIDE DEF c
<1> QED  BY <1>2, <1>3 DEF Screen

\* The list between a listing and a failure.
LEMMA ShownOf ==
  ASSUME NEW l, NEW u, NEW s, NEW low, NEW k, Taken(l, u, s, low, k), ~u.stop,
         s \in {"listed", "following", "rescanning"}
  PROVE  /\ Coherent(u) /\ u \in Screen /\ Distinct(u.rows) /\ u.rows \in Seq(Row)
         /\ u.stop = FALSE /\ u.cancelled = FALSE /\ u.lost = FALSE /\ u.updating = FALSE /\ u.phase \in {"complete", "empty"}
         /\ u.seen \subseteq 1 .. Len(u.rows) /\ (u.selected \subseteq 1 .. Len(u.rows) \/ (u.kept /\ u.changed))
         /\ u.watch = IF s = "listed" THEN "inactive" ELSE IF s = "following" THEN "watching" ELSE "recovering"
<1>1. Coherent(u) /\ ShownStage(u) = s
  BY DEF Taken
<1> QED  BY <1>1, StageIs DEF Coherent, Screen

\* A listing that is over is watched from here on, or not at all.
LEMMA NotedWatchingIs ==
  ASSUME NEW l, NEW u, NEW low, NEW high, NEW k \in Nat, Taken(l, u, "listed", low, k), ~u.stop,
         NEW b \in Batch, b.change = "watching", NEW abort \in BOOLEAN
  PROVE  Taken(l, Noted(u, b, abort), "following", high, k + 1) /\ ~Noted(u, b, abort).stop
<1> DEFINE v == Marked(u, FALSE, FALSE, TRUE)
           x == Noted(u, b, abort)
<1>1. /\ Coherent(u) /\ u \in Screen /\ Distinct(u.rows) /\ u.rows \in Seq(Row)
      /\ u.stop = FALSE /\ u.cancelled = FALSE /\ u.lost = FALSE /\ u.updating = FALSE /\ u.phase \in {"complete", "empty"}
      /\ u.seen \subseteq 1 .. Len(u.rows) /\ (u.selected \subseteq 1 .. Len(u.rows) \/ (u.kept /\ u.changed))
      /\ u.watch = "inactive"
  BY ShownOf
<1>2. x = [v EXCEPT !.watch = "watching", !.device = TRUE]
  BY <1>1 DEF Noted, Marked
<1>3. /\ v \in Screen
      /\ v.phase = u.phase /\ v.watch = u.watch /\ v.updating = u.updating /\ v.rows = u.rows
      /\ v.seen = u.seen /\ v.selected = u.selected
      /\ v.stop = u.stop /\ v.cancelled = u.cancelled /\ v.lost = u.lost
      /\ v.changed = (u.changed \/ FALSE) /\ v.full = (u.full \/ FALSE) /\ v.append = (u.append /\ TRUE)
      /\ (u.kept => v.kept)
  BY <1>1, MarkedIs
<1> HIDE DEF v, x
<1>4. /\ x \in Screen /\ x.phase = u.phase /\ x.watch = "watching" /\ x.updating = FALSE /\ x.rows = u.rows
      /\ x.seen = u.seen /\ x.selected = u.selected /\ x.stop = FALSE /\ x.cancelled = FALSE /\ x.lost = FALSE
      /\ x.changed = u.changed /\ x.full = u.full /\ x.append = u.append /\ (u.kept => x.kept)
  BY <1>1, <1>2, <1>3 DEF Screen, Watches
<1>5. u.seen = {}
  BY <1>1 DEF Coherent
<1>6. Coherent(x)
  BY <1>1, <1>4, <1>5 DEF Coherent
<1>7. ShownStage(x) = "following"
  BY <1>1, <1>4 DEF ShownStage
<1>8. Behind(l, x)
  BY <1>4 DEF Taken, Behind
<1>9. Placed(x, "following", k + 1)
  <2>1. \/ Ordered(u.rows) \/ (u.changed /\ u.full) \/ (u.changed /\ u.append /\ k >= 1)
    BY <1>1 DEF Taken, Placed
  <2> QED  BY <1>4, <2>1 DEF Placed
<1>10. Low(x, high)
  BY <1>1, <1>4 DEF Low
<1> QED  BY <1>4, <1>6, <1>7, <1>8, <1>9, <1>10 DEF Taken, x

\* A batch that reports the end of the watch ends it.
LEMMA NotedErrorIs ==
  ASSUME NEW l, NEW u, NEW s \in {"listed", "following"}, NEW low, NEW high, NEW k \in Nat,
         Taken(l, u, s, low, k), ~u.stop,
         NEW b \in Batch, b.change = "watch_error", NEW abort \in BOOLEAN
  PROVE  Taken(l, Noted(u, b, abort), "ended", high, k + 1) /\ ~Noted(u, b, abort).stop
<1> DEFINE v == Marked(u, FALSE, FALSE, FALSE)
           x == Noted(u, b, abort)
<1>1. /\ Coherent(u) /\ u \in Screen /\ Distinct(u.rows) /\ u.rows \in Seq(Row)
      /\ u.stop = FALSE /\ u.cancelled = FALSE /\ u.lost = FALSE /\ u.updating = FALSE /\ u.phase \in {"complete", "empty"}
      /\ u.seen \subseteq 1 .. Len(u.rows) /\ (u.selected \subseteq 1 .. Len(u.rows) \/ (u.kept /\ u.changed))
      /\ u.watch \in {"inactive", "watching"}
  BY ShownOf
<1>2. x = [v EXCEPT !.watch = "failed", !.seen = {}, !.device = FALSE]
  BY <1>1 DEF Noted, Marked
<1>3. /\ v \in Screen
      /\ v.phase = u.phase /\ v.updating = u.updating /\ v.rows = u.rows
      /\ v.selected = u.selected
      /\ v.stop = u.stop /\ v.cancelled = u.cancelled /\ v.lost = u.lost
      /\ v.changed = (u.changed \/ FALSE) /\ v.append = (u.append /\ FALSE)
      /\ (u.kept => v.kept)
  BY <1>1, MarkedIs
<1> HIDE DEF v, x
<1>4. /\ x \in Screen /\ x.phase = u.phase /\ x.watch = "failed" /\ x.updating = FALSE /\ x.rows = u.rows
      /\ x.seen = {} /\ x.selected = u.selected /\ x.stop = FALSE /\ x.cancelled = FALSE /\ x.lost = FALSE
      /\ x.changed = u.changed /\ x.append = FALSE /\ (u.kept => x.kept)
  BY <1>1, <1>2, <1>3 DEF Screen, Watches
<1>5. Coherent(x)
  BY <1>1, <1>4 DEF Coherent
<1>6. ShownStage(x) = "ended"
  BY <1>4 DEF ShownStage
<1> QED  BY <1>1, <1>4, <1>5, <1>6 DEF Taken, Behind, Placed, Low, x

\* A batch that announces a rescan begins one.
LEMMA NotedBeginIs ==
  ASSUME NEW l, NEW u, NEW low, NEW high, NEW k \in Nat,
         Taken(l, u, "following", low, k), ~u.stop,
         NEW b \in Batch, b.change = "rescan_begin", NEW abort \in BOOLEAN
  PROVE  /\ Taken(l, Noted(u, b, abort), "rescanning", high, k + 1)
         /\ Noted(u, b, abort).stop => abort
<1> DEFINE v == Marked(u, FALSE, FALSE, FALSE)
           x == Noted(u, b, abort)
<1>1. /\ Coherent(u) /\ u \in Screen /\ Distinct(u.rows) /\ u.rows \in Seq(Row)
      /\ u.stop = FALSE /\ u.cancelled = FALSE /\ u.lost = FALSE /\ u.updating = FALSE /\ u.phase \in {"complete", "empty"}
      /\ u.seen \subseteq 1 .. Len(u.rows) /\ (u.selected \subseteq 1 .. Len(u.rows) \/ (u.kept /\ u.changed))
      /\ u.watch = "watching"
  <2>1. Coherent(u) /\ ShownStage(u) = "following"
    BY DEF Taken
  <2>2. u.watch = "watching" /\ u.phase \in {"complete", "empty"} /\ ~u.updating
    BY <2>1, StageIs
  <2> QED  BY <2>1, <2>2 DEF Coherent, Screen
<1>2. x = IF abort THEN Failed(v) ELSE [v EXCEPT !.watch = "recovering", !.seen = {}]
  BY <1>1 DEF Noted, Marked
<1>3. /\ v \in Screen
      /\ v.phase = u.phase /\ v.updating = u.updating /\ v.rows = u.rows
      /\ v.selected = u.selected
      /\ v.stop = u.stop /\ v.cancelled = u.cancelled /\ v.lost = u.lost
      /\ v.changed = (u.changed \/ FALSE) /\ v.append = (u.append /\ FALSE)
      /\ (u.kept => v.kept)
  BY <1>1, MarkedIs
<1> HIDE DEF v, x
<1>4. CASE abort
  <2>1. /\ x \in Screen /\ SameFlags(v, x) /\ x.phase = v.phase /\ x.rows = v.rows
        /\ x.watch = "failed" /\ x.seen = {} /\ x.stop /\ x.cancelled
    BY <1>2, <1>3, <1>4, FailedIs
  <2>2. /\ x \in Screen /\ x.phase = u.phase /\ x.watch = "failed" /\ x.updating = FALSE /\ x.rows = u.rows
        /\ x.seen = {} /\ x.selected = u.selected /\ x.stop = TRUE /\ x.cancelled = TRUE /\ x.lost = FALSE
        /\ x.changed = u.changed /\ x.append = FALSE /\ (u.kept => x.kept)
    BY <1>1, <1>3, <2>1 DEF Screen, SameFlags
  <2>3. Coherent(x)
    BY <1>1, <2>2 DEF Coherent, Over
  <2> QED  BY <1>4, <2>2, <2>3 DEF Taken, Behind, Placed, Low, x
<1>5. CASE ~abort
  <2>1. /\ x \in Screen /\ x.phase = u.phase /\ x.watch = "recovering" /\ x.updating = FALSE /\ x.rows = u.rows
        /\ x.seen = {} /\ x.selected = u.selected /\ x.stop = FALSE /\ x.cancelled = FALSE /\ x.lost = FALSE
        /\ x.changed = u.changed /\ x.append = FALSE /\ (u.kept => x.kept)
    BY <1>1, <1>2, <1>3, <1>5 DEF Screen, Watches
  <2>2. Coherent(x)
    BY <1>1, <2>1 DEF Coherent
  <2>3. ShownStage(x) = "rescanning"
    BY <1>1, <2>1 DEF ShownStage
  <2> QED  BY <1>1, <2>1, <2>2, <2>3 DEF Taken, Behind, Placed, Low, x
<1> QED  BY <1>4, <1>5

\* A delta comes over rows in order, or over rows that are sorted as a whole.
LEMMA NotedDeltaIs ==
  ASSUME NEW l, NEW u, NEW low, NEW high, NEW k \in Nat, k <= 1,
         Taken(l, u, "following", low, k), ~u.stop,
         NEW b \in Batch, b.change = "delta", NEW abort \in BOOLEAN
  PROVE  /\ Taken(l, Noted(u, b, abort), "following", high, k + 1)
         /\ Noted(u, b, abort).stop => abort
<1> DEFINE yes == TRUE
           no == FALSE
           v == Marked(u, yes, no, no)
           x == Noted(u, b, abort)
<1>1. /\ Coherent(u) /\ u \in Screen /\ Distinct(u.rows) /\ u.rows \in Seq(Row)
      /\ u.stop = FALSE /\ u.cancelled = FALSE /\ u.lost = FALSE /\ u.updating = FALSE /\ u.phase \in {"complete", "empty"}
      /\ u.seen = {} /\ u.watch = "watching"
  <2>1. Coherent(u) /\ ShownStage(u) = "following"
    BY DEF Taken
  <2>2. u.watch = "watching" /\ u.phase \in {"complete", "empty"} /\ ~u.updating
    BY <2>1, StageIs
  <2> QED  BY <2>1, <2>2 DEF Coherent, Screen
<1>2. x = Applied(v, b, abort)
  BY <1>1 DEF Noted, Marked
<1>3. /\ v \in Screen
      /\ v.phase = u.phase /\ v.updating = u.updating /\ v.rows = u.rows /\ v.seen = u.seen
      /\ v.selected = u.selected /\ v.watch = u.watch
      /\ v.stop = u.stop /\ v.cancelled = u.cancelled /\ v.lost = u.lost
      /\ v.changed = (u.changed \/ yes) /\ v.full = (u.full \/ no) /\ v.append = (u.append /\ no)
      /\ (u.kept \/ yes => v.kept)
  <2>1. yes \in BOOLEAN /\ no \in BOOLEAN
    OBVIOUS
  <2> HIDE DEF yes, no
  <2> QED  BY <1>1, <2>1, MarkedIs
<1> HIDE DEF v, x
<1>4. /\ x \in Screen /\ SameFlags(v, x)
      /\ Distinct(x.rows)
      /\ x.cancelled = x.stop
      /\ x.stop <=> abort
      /\ abort => x.watch = "failed" /\ x.seen = {} /\ x.rows = v.rows
      /\ ~abort => /\ x.watch = "watching" /\ x.seen = v.seen /\ x.rows = Delta(v.rows, b)
                   /\ x.phase \in {"empty", "complete"}
  <2>1. Distinct(v.rows) /\ ~v.stop /\ ~v.cancelled /\ v.watch = "watching"
    BY <1>1, <1>3
  <2> QED  BY <1>2, <1>3, <2>1, AppliedDeltaIs
<1>5. /\ x.updating = FALSE /\ x.kept /\ x.changed /\ x.full = u.full /\ x.append = FALSE /\ x.lost = FALSE
  BY <1>1, <1>3, <1>4 DEF SameFlags, Screen
<1>6. CASE abort
  <2>1. x.phase = u.phase
    <3>1. x = Failed([v EXCEPT !.names = IF v.kept THEN Followed(@, b) ELSE @])
      BY <1>2, <1>6 DEF Applied
    <3> QED  BY <1>3, <3>1 DEF Failed, Cancelled, Screen
  <2>2. Coherent(x)
    BY <1>1, <1>4, <1>5, <1>6, <2>1 DEF Coherent, Over
  <2> QED  BY <1>4, <1>5, <1>6, <2>2 DEF Taken, Behind, Placed, Low, x
<1>7. CASE ~abort
  <2>1. Coherent(x)
    BY <1>1, <1>3, <1>4, <1>5, <1>7 DEF Coherent
  <2>2. ShownStage(x) = "following"
    BY <1>4, <1>7 DEF ShownStage
  <2>3. Ordered(x.rows) \/ x.full
    <3>1. k >= 2 => FALSE
      OBVIOUS
    <3>2. Ordered(u.rows) \/ (u.changed /\ u.full)
      BY <1>1, <3>1 DEF Taken, Placed
    <3>3. b.rows \in Seq(Row)
      BY DEF Batch
    <3>4. Ordered(u.rows) => Ordered(Delta(u.rows, b))
      BY <1>1, <3>3, DeltaIs
    <3> QED  BY <1>3, <1>4, <1>5, <1>7, <3>2, <3>4
  <2> QED  BY <1>4, <1>5, <1>7, <2>1, <2>2, <2>3 DEF Taken, Behind, Placed, Low, x
<1> QED  BY <1>6, <1>7

\* A batch of a rescan.
LEMMA NotedRescanIs ==
  ASSUME NEW l, NEW u, NEW low, NEW high, NEW k \in Nat,
         Taken(l, u, "rescanning", low, k), ~u.stop,
         NEW b \in Batch, b.change = "rescan", NEW abort \in BOOLEAN,
         NEW t, Moves("rescanning", b, t)
  PROVE  /\ Taken(l, Noted(u, b, abort), t, high, k + 1)
         /\ Noted(u, b, abort).stop => t = "over" \/ abort
<1> DEFINE ends == b.phase # "loading"
           no == FALSE
           v == Marked(u, ends, ends, no)
           x == Noted(u, b, abort)
<1>1. /\ Coherent(u) /\ u \in Screen /\ Distinct(u.rows) /\ u.rows \in Seq(Row)
      /\ u.stop = FALSE /\ u.cancelled = FALSE /\ u.lost = FALSE /\ u.updating = FALSE /\ u.phase \in {"complete", "empty"}
      /\ u.seen \subseteq 1 .. Len(u.rows) /\ (u.selected \subseteq 1 .. Len(u.rows) \/ (u.kept /\ u.changed))
      /\ u.watch = "recovering"
  <2>1. Coherent(u) /\ ShownStage(u) = "rescanning"
    BY DEF Taken
  <2>2. u.watch = "recovering" /\ u.phase \in {"complete", "empty"} /\ ~u.updating
    BY <2>1, StageIs
  <2> QED  BY <2>1, <2>2 DEF Coherent, Screen
<1>2. x = Applied(v, b, abort)
  BY <1>1 DEF Noted, Marked
<1> HIDE DEF ends
<1>0. ends \in BOOLEAN
  BY DEF ends
<1>3. /\ v \in Screen
      /\ v.phase = u.phase /\ v.updating = u.updating /\ v.rows = u.rows /\ v.seen = u.seen
      /\ v.selected = u.selected /\ v.watch = u.watch
      /\ v.stop = u.stop /\ v.cancelled = u.cancelled /\ v.lost = u.lost
      /\ v.changed = (u.changed \/ ends) /\ v.full = (u.full \/ ends) /\ v.append = (u.append /\ no)
      /\ (u.kept \/ ends => v.kept)
  <2>1. no \in BOOLEAN
    OBVIOUS
  <2> HIDE DEF no
  <2> QED  BY <1>0, <1>1, <2>1, MarkedIs
<1> HIDE DEF v, x
<1>4. /\ x \in Screen /\ SameFlags(v, x)
      /\ Distinct(x.rows) /\ x.seen \subseteq 1 .. Len(x.rows)
      /\ x.cancelled = x.stop
      /\ x.stop <=> abort \/ b.phase = "error"
      /\ x.watch = IF abort \/ b.phase = "error" THEN "failed"
                   ELSE IF b.phase = "loading" THEN "recovering" ELSE "watching"
      /\ x.watch # "recovering" => x.seen = {}
      /\ x.watch # "watching" => Len(v.rows) <= Len(x.rows)
      /\ ~abort => x.phase \in {"empty", "complete"}
  <2>1. Distinct(v.rows) /\ ~v.stop /\ ~v.cancelled /\ v.watch = "recovering" /\ v.seen \subseteq 1 .. Len(v.rows)
    BY <1>1, <1>3
  <2> QED  BY <1>2, <1>3, <2>1, AppliedRescanIs
<1>5. /\ x.updating = FALSE /\ (u.kept \/ ends => x.kept) /\ x.changed = (u.changed \/ ends)
      /\ x.full = (u.full \/ ends) /\ x.append = FALSE /\ x.selected = u.selected /\ x.lost = FALSE
  BY <1>1, <1>3, <1>4 DEF SameFlags, Screen
<1>6. x.phase \in {"empty", "complete"}
  <2>1. CASE abort
    <3>1. x = Failed([v EXCEPT !.names = IF v.kept THEN Followed(@, b) ELSE @])
      BY <1>2, <2>1 DEF Applied
    <3>2. x.phase = v.phase
      BY <1>3, <3>1 DEF Failed, Cancelled, Screen
    <3> QED  BY <1>1, <1>3, <3>2
  <2> QED  BY <1>4, <2>1
<1>7. x.selected \subseteq 1 .. Len(x.rows) \/ (x.kept /\ x.changed)
  <2>1. CASE x.watch = "watching"
    <3>1. ends
      BY <1>4, <2>1 DEF ends
    <3> QED  BY <1>5, <3>1
  <2>2. CASE x.watch # "watching"
    <3>1. Len(u.rows) \in Nat /\ Len(x.rows) \in Nat
      BY <1>1, <1>4 DEF Screen
    <3>2. Len(u.rows) <= Len(x.rows)
      BY <1>3, <1>4, <2>2
    <3>3. 1 .. Len(u.rows) \subseteq 1 .. Len(x.rows)
      BY <3>1, <3>2
    <3> QED  BY <1>1, <1>5, <3>3
  <2> QED  BY <2>1, <2>2
<1>8. Coherent(x)
  BY <1>4, <1>5, <1>6, <1>7 DEF Coherent, Over
<1>9. t = CASE b.phase = "loading" -> "rescanning" [] b.phase = "error" -> "over" [] OTHER -> "following"
  BY DEF Moves
<1>10. ~x.stop => ShownStage(x) = t
  BY <1>4, <1>6, <1>9 DEF ShownStage
<1>11. Placed(x, t, k + 1)
  <2>1. SUFFICES ASSUME ~x.stop, t \in {"listing", "listed", "following"}
                 PROVE  x.changed /\ x.full
    BY DEF Placed
  <2>2. ends
    BY <1>9, <2>1 DEF ends
  <2> QED  BY <1>5, <2>2
<1>12. x.stop => t = "over" \/ abort
  BY <1>4, <1>9
<1> QED  BY <1>5, <1>6, <1>8, <1>10, <1>11, <1>12 DEF Taken, Behind, Low, x

\* A location that is lost ends the dispatch.
LEMMA LostIs ==
  ASSUME NEW l, NEW u, NEW low, NEW high, NEW k \in Nat,
         Taken(l, u, "following", low, k), ~u.stop
  PROVE  Taken(l, [Cancelled(u) EXCEPT !.lost = TRUE], "over", high, k + 1)
<1> DEFINE c == Cancelled(u)
           x == [c EXCEPT !.lost = TRUE]
<1>1. Coherent(u) /\ u \in Screen /\ u.append \in BOOLEAN
  BY DEF Taken, Coherent, Screen
<1>2. /\ c \in Screen /\ SameFlags(u, c) /\ c.phase = u.phase /\ c.rows = u.rows
      /\ c.watch = u.watch /\ c.seen = u.seen /\ c.stop = TRUE /\ c.cancelled = TRUE
  BY <1>1, CancelledIs DEF Screen
<1> HIDE DEF c
<1>3. /\ x \in Screen /\ x.phase = u.phase /\ x.rows = u.rows /\ x.updating = u.updating /\ x.selected = u.selected
      /\ x.device = u.device /\ x.kept = u.kept /\ x.changed = u.changed /\ x.append = u.append
      /\ x.watch = u.watch /\ x.seen = u.seen /\ x.stop = TRUE /\ x.cancelled = TRUE /\ x.lost = TRUE
  BY <1>2 DEF SameFlags, Screen
<1> HIDE DEF x
<1>4. Coherent(x)
  BY <1>1, <1>3 DEF Coherent
<1>5. Behind(l, x)
  BY <1>3 DEF Taken, Behind
<1> QED  BY <1>3, <1>4, <1>5 DEF Taken, Placed, Low, x, c

\* A batch takes the list to the next stage, or ends the dispatch.
LEMMA ConsumedIs ==
  ASSUME NEW l, l.rows \in Seq(Row), NEW u, NEW s, NEW t, NEW low \in Int, NEW high \in Int,
         NEW k \in Nat, k <= 1, Taken(l, u, s, low, k),
         NEW b \in Batch, Moves(s, b, t), NEW abort \in BOOLEAN,
         b.change = "none" => low <= high /\ AscendsFrom(b.rows, low, high)
  PROVE  LET v == Consumed(u, b, abort) IN
         /\ Taken(l, v, t, high, k + 1)
         /\ v.stop => u.stop \/ t = "over" \/ abort
<1> DEFINE v == Consumed(u, b, abort)
<1>1. CASE u.stop
  <2>1. v = u
    BY <1>1 DEF Consumed
  <2> QED  BY <1>1, <2>1 DEF Taken, Behind, Placed, Low
<1>2. CASE ~u.stop
  <2>1. Coherent(u) /\ ShownStage(u) = s /\ s # "over"
    BY <1>2, StageIs DEF Taken
  <2>2. CASE s = "listing"
    <3>1. b.change = "none" /\ u.phase = "loading"
      BY <2>1, <2>2, StageIs DEF Moves
    <3>2. v = IF u.updating THEN Updated(u, b, abort) ELSE Appended(u, b, abort)
      BY <1>2, <3>1 DEF Consumed
    <3>3. Moves("listing", b, t) /\ Taken(l, u, "listing", low, k)
      BY <2>2
    <3>4. CASE u.updating
      BY <1>2, <3>2, <3>3, <3>4, UpdatedIs
    <3>5. CASE ~u.updating
      BY <1>2, <3>1, <3>2, <3>3, <3>5, AppendedIs
    <3> QED  BY <3>4, <3>5
  <2>3. CASE s # "listing" /\ b.change = "location_lost"
    <3>1. s = "following" /\ t = "over"
      BY <2>1, <2>3 DEF Moves
    <3>2. v = [Cancelled(u) EXCEPT !.lost = TRUE]
      BY <1>2, <2>3 DEF Consumed
    <3>3. Taken(l, u, "following", low, k)
      BY <3>1
    <3>4. Taken(l, v, "over", high, k + 1)
      BY <1>2, <3>2, <3>3, LostIs
    <3> QED  BY <3>1, <3>4
  <2>4. CASE s # "listing" /\ b.change # "location_lost"
    <3>1. v = Noted(u, b, abort)
      BY <1>2, <2>1, <2>4 DEF Consumed, Moves
    <3>2. CASE b.change = "watching"
      <4>1. s = "listed" /\ t = "following"
        BY <2>1, <2>4, <3>2 DEF Moves
      <4>2. Taken(l, u, "listed", low, k)
        BY <4>1
      <4> QED  BY <1>2, <3>1, <3>2, <4>1, <4>2, NotedWatchingIs
    <3>3. CASE b.change = "watch_error"
      <4>1. s \in {"listed", "following"} /\ t = "ended"
        BY <2>1, <2>4, <3>3 DEF Moves
      <4> QED  BY <1>2, <3>1, <3>3, <4>1, NotedErrorIs
    <3>4. CASE b.change = "rescan_begin"
      <4>1. s = "following" /\ t = "rescanning"
        BY <2>1, <2>4, <3>4 DEF Moves
      <4>2. Taken(l, u, "following", low, k)
        BY <4>1
      <4> QED  BY <1>2, <3>1, <3>4, <4>1, <4>2, NotedBeginIs
    <3>5. CASE b.change = "delta"
      <4>1. s = "following" /\ t = "following"
        BY <2>1, <2>4, <3>5 DEF Moves
      <4>2. Taken(l, u, "following", low, k)
        BY <4>1
      <4> QED  BY <1>2, <3>1, <3>5, <4>1, <4>2, NotedDeltaIs
    <3>6. CASE b.change = "rescan"
      <4>1. s = "rescanning"
        BY <2>1, <2>4, <3>6 DEF Moves
      <4>2. Taken(l, u, "rescanning", low, k) /\ Moves("rescanning", b, t)
        BY <4>1
      <4> QED  BY <1>2, <3>1, <3>6, <4>2, NotedRescanIs
    <3> QED  BY <2>1, <2>4, <3>2, <3>3, <3>4, <3>5, <3>6 DEF Moves
  <2> QED  BY <2>2, <2>3, <2>4
<1> QED  BY <1>1, <1>2

\* A dispatch takes the batches one after the other.
LEMMA AllConsumedIs ==
  ASSUME NEW l, l.rows \in Seq(Row), NEW u, NEW batches \in Seq(Batch), Len(batches) <= 2,
         NEW st, NEW level \in [0 .. Len(batches) -> Int],
         \A i \in 1 .. Len(batches) : Moves(st[i - 1], batches[i], st[i]),
         \A i \in 1 .. Len(batches) : batches[i].change = "none" =>
           level[i - 1] <= level[i] /\ AscendsFrom(batches[i].rows, level[i - 1], level[i]),
         Taken(l, u, st[0], level[0], 0), ~u.stop, NEW j \in Nat
  PROVE  LET v == AllConsumed(u, batches, j) IN
         /\ Taken(l, v, st[Len(batches)], level[Len(batches)], Len(batches))
         /\ v.stop => st[Len(batches)] = "over" \/ j # 0
<1> DEFINE n == Len(batches)
           Step(s, k) == Consumed(s, batches[k], k = j)
           Upto[k \in 0 .. n] == IF k = 0 THEN u ELSE Consumed(Upto[k - 1], batches[k], k = j)
           T == [k \in 0 .. n |-> {s \in Screen : /\ Taken(l, s, st[k], level[k], k)
                                                  /\ s.stop => st[k] = "over" \/ j # 0}]
           F == [ks \in (1 .. n) \X Screen |-> Step(ks[2], ks[1])]
<1>1. n \in Nat /\ n <= 2 /\ \A i \in 1 .. n : batches[i] \in Batch
  OBVIOUS
<1>2. u \in T[0]
  <2>1. 0 \in 0 .. n
    BY <1>1
  <2>2. u \in Screen
    BY DEF Taken, Coherent
  <2> QED  BY <2>1, <2>2
<1>3. \A k \in 1 .. n : \A s \in T[k - 1] : /\ s \in Screen /\ Step(s, k) \in T[k]
                                           /\ F[<<k, s>>] = Step(s, k)
  <2> TAKE k \in 1 .. n
  <2> TAKE s \in T[k - 1]
  <2>1. k - 1 \in 0 .. n /\ k \in 0 .. n /\ k - 1 \in Nat /\ k - 1 <= 1 /\ (k - 1) + 1 = k
    BY <1>1
  <2>2. s \in Screen /\ Taken(l, s, st[k - 1], level[k - 1], k - 1) /\ (s.stop => st[k - 1] = "over" \/ j # 0)
    BY <2>1
  <2>3. /\ batches[k] \in Batch /\ Moves(st[k - 1], batches[k], st[k])
        /\ batches[k].change = "none" => level[k - 1] <= level[k] /\ AscendsFrom(batches[k].rows, level[k - 1], level[k])
        /\ level[k - 1] \in Int /\ level[k] \in Int /\ (k = j) \in BOOLEAN
    BY <1>1, <2>1
  <2>4. /\ Taken(l, Step(s, k), st[k], level[k], (k - 1) + 1)
        /\ Step(s, k).stop => s.stop \/ st[k] = "over" \/ k = j
    <3> DEFINE p == k - 1
               b == batches[k]
               low == level[k - 1]
               high == level[k]
               from == st[k - 1]
               to == st[k]
               abort == k = j
    <3>1. /\ p \in Nat /\ p <= 1 /\ Taken(l, s, from, low, p) /\ b \in Batch /\ Moves(from, b, to)
          /\ b.change = "none" => low <= high /\ AscendsFrom(b.rows, low, high)
          /\ low \in Int /\ high \in Int /\ abort \in BOOLEAN
      BY <2>1, <2>2, <2>3
    <3> HIDE DEF p, b, low, high, from, to, abort
    <3>2. /\ Taken(l, Consumed(s, b, abort), to, high, p + 1)
          /\ Consumed(s, b, abort).stop => s.stop \/ to = "over" \/ abort
      BY <3>1, ConsumedIs
    <3> QED  BY <3>2 DEF p, b, high, to, abort
  <2>5. st[k - 1] = "over" => st[k] = "over"
    BY <2>3 DEF Moves
  <2>6. Step(s, k).stop => st[k] = "over" \/ j # 0
    BY <1>1, <2>2, <2>4, <2>5
  <2>7. Step(s, k) \in Screen /\ Taken(l, Step(s, k), st[k], level[k], k)
    BY <2>1, <2>4 DEF Taken, Coherent
  <2>8. Step(s, k) \in T[k]
    BY <2>1, <2>6, <2>7
  <2>9. F[<<k, s>>] = Step(s, k)
    BY <2>2
  <2> QED  BY <2>2, <2>8, <2>9
<1>4. \A k \in 1 .. n : \A s \in T[k - 1] : F[<<k, s>>] \in T[k]
  BY <1>3
<1> HIDE DEF T, F, n
<1>5. PICK f : /\ \A k \in 0 .. n : f[k] \in T[k]
               /\ Steps(f, u, n, F)
  BY <1>1, <1>2, <1>4, Recursed
<1>6. f = [k \in 0 .. n |-> IF k = 0 THEN u ELSE Step(f[k - 1], k)]
  <2>1. \A k \in 0 .. n : k # 0 => k \in 1 .. n /\ k - 1 \in 0 .. n
    BY <1>1
  <2>2. \A k \in 0 .. n : k # 0 => F[<<k, f[k - 1]>>] = Step(f[k - 1], k)
    BY <1>3, <1>5, <2>1
  <2> QED  BY <1>5, <2>2, Zenon DEF Steps
<1>7. Upto = [k \in 0 .. n |-> IF k = 0 THEN u ELSE Step(Upto[k - 1], k)]
  BY <1>6, Zenon
<1> HIDE DEF Upto, Step
<1>8. Upto[0] = u /\ \A k \in 1 .. n : Upto[k] = Step(Upto[k - 1], k)
  <2>1. 0 \in 0 .. n /\ \A k \in 1 .. n : k \in 0 .. n /\ k # 0
    BY <1>1
  <2>2. \A k \in 0 .. n : Upto[k] = IF k = 0 THEN u ELSE Step(Upto[k - 1], k)
    BY <1>7, Zenon
  <2> QED  BY <2>1, <2>2
<1>9. \A k \in 0 .. n : Upto[k] \in T[k]
  <2>1. Upto[0] \in T[0]
    BY <1>2, <1>8
  <2>2. \A k \in 1 .. n : Upto[k - 1] \in T[k - 1] => Upto[k] \in T[k]
    <3> TAKE k \in 1 .. n
    <3> HAVE Upto[k - 1] \in T[k - 1]
    <3>1. Step(Upto[k - 1], k) \in T[k]
      BY <1>3
    <3> QED  BY <1>8, <3>1
  <2> QED  BY <1>1, <2>1, <2>2, AllAlong
<1>10. /\ Taken(l, Upto[n], st[n], level[n], n)
       /\ Upto[n].stop => st[n] = "over" \/ j # 0
  <2>1. n \in 0 .. n
    BY <1>1
  <2>2. Upto[n] \in T[n]
    BY <1>9, <2>1
  <2> QED  BY <2>1, <2>2 DEF T
<1>11. AllConsumed(u, batches, j) = Upto[n]
  BY DEF AllConsumed, Upto, n, Step
<1> HIDE DEF Upto
<1> QED  BY <1>10, <1>11 DEF n

\* A dispatch starts with the list as it is.
LEMMA StartIs ==
  ASSUME NEW l, ListFits(l), l.phase # "left", Distinct(l.rows), NEW low,
         ~l.updating /\ l.watch # "recovering" /\ ~Over(l) => Ordered(l.rows),
         l.phase = "loading" /\ ~l.updating => \A i \in 1 .. Len(l.rows) : l.rows[i].name <= low
  PROVE  /\ Taken(l, Start(l), ShownStage(l), low, 0)
         /\ ~Start(l).stop
<1> DEFINE u == Start(l)
<1>1. /\ l \in ListState /\ l.rows \in Seq(Row) /\ DOMAIN l.rows = 1 .. Len(l.rows)
      /\ l.seen \subseteq 1 .. Len(l.rows) /\ l.selected \subseteq 1 .. Len(l.rows)
      /\ l.watch # "recovering" => l.seen = {}
      /\ l.phase = "loading" => ~l.device /\ l.watch = IF l.updating THEN "recovering" ELSE "inactive"
      /\ l.updating => l.phase = "loading"
  BY DEF ListFits, ListState
<1>2. /\ u.phase = l.phase /\ u.watch = l.watch /\ u.updating = l.updating /\ u.rows = l.rows
      /\ u.seen = l.seen /\ u.selected = l.selected /\ u.device = l.device /\ u.kept = FALSE
      /\ u.changed = FALSE /\ u.full = FALSE /\ u.stop = FALSE /\ u.cancelled = FALSE /\ u.lost = FALSE
      /\ u.append = (l.watch # "recovering" /\ ~l.updating)
  BY DEF Start
<1>3. u \in Screen
  <2> DEFINE append == l.watch # "recovering" /\ ~l.updating
  <2>1. append \in BOOLEAN /\ {} \in SUBSET Names
    OBVIOUS
  <2>2. u = [phase |-> l.phase, watch |-> l.watch, updating |-> l.updating, rows |-> l.rows,
             seen |-> l.seen, selected |-> l.selected, device |-> l.device,
             kept |-> FALSE, names |-> {}, changed |-> FALSE, full |-> FALSE, stop |-> FALSE,
             cancelled |-> FALSE, lost |-> FALSE, append |-> append]
    BY DEF Start
  <2> HIDE DEF append, u
  <2> QED  BY <1>1, <2>1, <2>2 DEF ListState, Screen, Watches
<1> HIDE DEF u
<1>4. Coherent(u)
  BY <1>1, <1>2, <1>3 DEF Coherent
<1>5. ShownStage(u) = ShownStage(l)
  BY <1>2 DEF ShownStage
<1>6. Behind(l, u)
  <2>1. Len(l.rows) \in Nat
    BY <1>1
  <2>2. \A i \in 1 .. Len(l.rows) : u.rows[i] = l.rows[i]
    BY <1>2
  <2>3. Len(l.rows) <= Len(u.rows)
    BY <1>2, <2>1
  <2>4. u.append => l.watch # "recovering" /\ ~l.updating
    BY <1>2
  <2> QED  BY <2>2, <2>3, <2>4, Zenon DEF Behind
<1>7. Placed(u, ShownStage(l), 0)
  <2>1. SUFFICES ASSUME ~u.updating, ShownStage(u) \in {"listing", "listed", "following"}
                 PROVE  Ordered(u.rows)
    BY <1>5 DEF Placed
  <2>2. ~Over(u) /\ u.watch # "recovering"
    BY <1>4, <2>1, StageIs DEF Over, Phases
  <2>3. ~Over(l)
    BY <1>2, <2>2 DEF Over
  <2> QED  BY <1>2, <2>1, <2>2, <2>3
<1>8. Low(u, low)
  BY <1>2 DEF Low
<1> QED  BY <1>2, <1>4, <1>5, <1>6, <1>7, <1>8 DEF Taken, u

\* What a dispatch leaves is sorted, unless it must not be.
LEMMA FinishedIs ==
  ASSUME ListFits(list), NEW u, NEW s, NEW low, NEW k, Taken(list, u, s, low, k),
         u.append => Ordered(list.rows)
  PROVE  LET x == Finished(u) IN
         /\ x \in ListState
         /\ x.phase = u.phase /\ x.watch = u.watch /\ x.updating = u.updating /\ x.seen = u.seen /\ x.device = u.device
         /\ Shuffled(x.rows, u.rows)
         /\ x.selected \subseteq 1 .. Len(x.rows)
         /\ ~u.stop /\ ~u.updating /\ s \in {"listing", "listed", "following"} => Ordered(x.rows)
<1> DEFINE p == IF u.full THEN 0 ELSE Len(list.rows)
           sorts == u.changed /\ u.watch # "recovering" /\ (u.full \/ u.append)
           rows == IF sorts THEN Sorted(u.rows, p) ELSE u.rows
           selected == IF u.changed /\ u.kept THEN {i \in DOMAIN rows : rows[i].name \in u.names} ELSE u.selected
           x == Finished(u)
<1>1. /\ u \in Screen /\ u.rows \in Seq(Row) /\ Distinct(u.rows) /\ Coherent(u)
      /\ u.selected \subseteq 1 .. Len(u.rows) \/ (u.kept /\ u.changed)
  BY DEF Taken, Coherent, Screen
<1>2. list \in ListState /\ list.rows \in Seq(Row)
  BY DEF ListFits, ListState
<1>3. x = [list EXCEPT !.phase = u.phase, !.watch = u.watch, !.updating = u.updating, !.rows = rows,
             !.seen = u.seen, !.device = u.device, !.selected = selected]
  BY DEF Finished
<1>4. ASSUME sorts
      PROVE  Shuffled(rows, u.rows) /\ Ordered(rows)
  <2>1. p \in 0 .. Len(u.rows) /\ Ordered(SubSeq(u.rows, 1, p))
    <3>1. Len(u.rows) \in Nat /\ Len(list.rows) \in Nat
      BY <1>1, <1>2
    <3>2. CASE u.full
      <4>1. p = 0 /\ 0 \in 0 .. Len(u.rows)
        BY <3>1, <3>2
      <4>2. Len(SubSeq(u.rows, 1, 0)) = 0
        BY <1>1, <4>1, Halves
      <4>3. 1 .. Len(SubSeq(u.rows, 1, 0)) - 1 = {}
        BY <4>2
      <4>4. Ordered(SubSeq(u.rows, 1, 0))
        BY <4>3 DEF Ordered
      <4> QED  BY <4>1, <4>4
    <3>3. CASE ~u.full
      <4>1. u.append
        BY <1>4, <3>3
      <4>2. Len(list.rows) <= Len(u.rows) /\ \A i \in 1 .. Len(list.rows) : u.rows[i] = list.rows[i]
        BY <4>1 DEF Taken, Behind
      <4>3. p = Len(list.rows) /\ p \in 0 .. Len(u.rows) /\ p \in Nat
        BY <3>1, <3>3, <4>2
      <4> DEFINE first == SubSeq(u.rows, 1, p)
      <4> HIDE DEF p
      <4>4. Len(first) = p /\ \A i \in 1 .. p : first[i] = u.rows[i]
        BY <1>1, <4>3, Halves
      <4> HIDE DEF first
      <4>5. \A i \in 1 .. p - 1 : i \in 1 .. p /\ i + 1 \in 1 .. p
        BY <4>3
      <4>6. \A i \in 1 .. p - 1 : Earlier(list.rows[i], list.rows[i + 1])
        BY <4>1, <4>3 DEF Ordered
      <4>7. \A i \in 1 .. p - 1 : first[i] = list.rows[i] /\ first[i + 1] = list.rows[i + 1]
        BY <4>2, <4>3, <4>4, <4>5
      <4>8. \A i \in 1 .. Len(first) - 1 : Earlier(first[i], first[i + 1])
        BY <4>4, <4>6, <4>7
      <4>9. Ordered(first)
        BY <4>8 DEF Ordered
      <4> QED  BY <4>3, <4>9 DEF first
    <3> QED  BY <3>2, <3>3
  <2>2. rows = Sorted(u.rows, p)
    BY <1>4
  <2> HIDE DEF p, rows, sorts
  <2> QED  BY <1>1, <2>1, <2>2, SortedIs
<1>5. Shuffled(rows, u.rows)
  <2>1. ASSUME ~sorts
        PROVE  Shuffled(rows, u.rows)
    <3>1. rows = u.rows
      BY <2>1
    <3> HIDE DEF rows
    <3>2. \A i \in 1 .. Len(u.rows) : \E m \in 1 .. Len(u.rows) : u.rows[i] = u.rows[m]
      OBVIOUS
    <3> QED  BY <1>1, <3>1, <3>2 DEF Shuffled
  <2> HIDE DEF rows, sorts
  <2> QED  BY <1>4, <2>1
<1>6. rows \in Seq(Row) /\ Len(rows) = Len(u.rows)
  <2> HIDE DEF rows
  <2> QED  BY <1>5 DEF Shuffled
<1>7. selected \subseteq 1 .. Len(rows)
  <2> HIDE DEF rows
  <2>1. DOMAIN rows = 1 .. Len(rows)
    BY <1>6
  <2> QED  BY <1>1, <1>6, <2>1
<1>8. ~u.stop /\ ~u.updating /\ s \in {"listing", "listed", "following"} => Ordered(rows)
  <2>1. SUFFICES ASSUME ~u.stop, ~u.updating, s \in {"listing", "listed", "following"}
                 PROVE  Ordered(rows)
    OBVIOUS
  <2>2. CASE sorts
    BY <1>4, <2>2
  <2>3. CASE ~sorts
    <3>1. ShownStage(u) = s
      BY <2>1 DEF Taken
    <3>2. u.watch # "recovering"
      BY <1>1, <2>1, <3>1, StageIs
    <3>3. Ordered(u.rows) \/ (u.changed /\ u.full) \/ (u.changed /\ u.append)
      BY <2>1 DEF Taken, Placed
    <3>4. Ordered(u.rows)
      BY <2>3, <3>2, <3>3
    <3>5. rows = u.rows
      BY <2>3
    <3> HIDE DEF rows
    <3> QED  BY <3>4, <3>5
  <2> HIDE DEF sorts
  <2> QED  BY <2>2, <2>3
<1> HIDE DEF rows, selected, x, p
<1>9. /\ x \in ListState /\ x.rows = rows /\ x.selected = selected
      /\ x.phase = u.phase /\ x.watch = u.watch /\ x.updating = u.updating /\ x.seen = u.seen /\ x.device = u.device
  <2>1. selected \in SUBSET Nat
    <3>1. 1 .. Len(rows) \subseteq Nat
      BY <1>6
    <3> QED  BY <1>7, <3>1
  <2> QED  BY <1>1, <1>2, <1>3, <1>6, <2>1 DEF ListState, Screen, Watches
<1> QED  BY <1>5, <1>7, <1>8, <1>9 DEF x

-----------------------------------------------------------------------------
(* The window's side. *)

\* A worker that was just asked, and one that has nothing to do.
LEMMA AskedIs ==
  ASSUME NamesAssumption, SizesAssumption
  PROVE  /\ NewBatch \in Batch /\ NewBatch.rows = <<>> /\ NewBatch.removed = {} /\ NewBatch.change = "none"
         /\ Len(<<>>) = 0 /\ Cardinality({}) = 0
         /\ WorkerFits(Asked) /\ WorkerFits([Asked EXCEPT !.at = "ended"])
         /\ WorkerStage(Asked) = "listing" /\ WorkerStage([Asked EXCEPT !.at = "ended"]) = "ended"
         /\ NoKernel \in KernelState /\ NoKernel.records = <<>> /\ ~NoKernel.open /\ ~NoKernel.away /\ ~NoKernel.broken /\ ~NoKernel.parent
<1>1. /\ <<>> \in Seq(Row) /\ <<>> \in Seq(Names \X Names) /\ <<>> \in Seq(Names) /\ <<>> \in Seq(Record)
      /\ Len(<<>>) = 0
  BY EmptySeq
<1>2. Cardinality({}) = 0
  BY FS_EmptySet
<1>3. /\ NewBatch \in Batch /\ NewBatch.rows = <<>> /\ NewBatch.removed = {} /\ NewBatch.change = "none"
  BY <1>1 DEF NewBatch, Batch, Changes, Phases
<1>4. /\ Asked \in WorkerState /\ Asked.batch = NewBatch /\ Asked.at = "open" /\ Asked.change = "none"
      /\ Asked.names = <<>> /\ Asked.count = 0
  BY <1>1, <1>3, NamesAssumption DEF Asked, WorkerState, Places
<1> DEFINE ended == [Asked EXCEPT !.at = "ended"]
<1>5. ended \in WorkerState /\ ended.batch = NewBatch /\ ended.at = "ended" /\ ended.names = <<>>
  BY <1>4 DEF WorkerState, Places
<1> HIDE DEF ended
<1>6. 0 + 0 <= BatchRows /\ 0 < BatchRows
  BY SizesAssumption
<1>7. WorkerFits(Asked) /\ WorkerStage(Asked) = "listing"
  BY <1>1, <1>2, <1>3, <1>4, <1>6 DEF WorkerFits, WorkerStage
<1>8. WorkerFits(ended) /\ WorkerStage(ended) = "ended"
  BY <1>1, <1>2, <1>3, <1>5, <1>6 DEF WorkerFits, WorkerStage
<1>9. NoKernel \in KernelState /\ NoKernel.records = <<>> /\ ~NoKernel.open /\ ~NoKernel.away /\ ~NoKernel.broken /\ ~NoKernel.parent
  BY <1>1 DEF NoKernel, KernelState
<1> QED  BY <1>1, <1>2, <1>3, <1>7, <1>8, <1>9 DEF ended

\* A list that says it is not refreshed has nothing coming, and nobody at work.
LEMMA EndedIs ==
  ASSUME TypeInv, Path, ShownStage(list) = "ended"
  PROVE  Len(results) = 0 /\ results = <<>> /\ worker.at = "ended"
<1>1. PICK st \in [0 .. Len(results) -> Stages], level \in [0 .. Len(results) -> 0 .. LastName] :
        Follows(st) /\ Ascending(level)
  BY DEF Path
<1>2. results \in Seq(Batch) /\ Len(results) \in Nat
  BY DEF TypeInv
<1>3. st[0] = "ended"
  BY <1>1 DEF Follows
<1>4. Len(results) = 0
  <2>1. SUFFICES ASSUME 1 \in 1 .. Len(results)
                 PROVE  FALSE
    BY <1>2
  <2>2. Moves(st[1 - 1], results[1], st[1])
    BY <1>1, <2>1 DEF Follows
  <2>3. Moves("ended", results[1], st[1])
    BY <1>3, <2>2
  <2> QED  BY <2>3 DEF Moves
<1>5. WorkerStage(worker) = "ended"
  BY <1>1, <1>3, <1>4 DEF Follows
<1>6. results = <<>>
  BY <1>2, <1>4, EmptySeq
<1> QED  BY <1>4, <1>5, <1>6 DEF WorkerStage

\* With nothing on its way the worker is where the list is.
LEMMA PathAlone ==
  ASSUME NEW s \in Stages, NEW low \in 0 .. LastName, results' = <<>>,
         ShownStage(list') = s, s = WorkerStage(worker'),
         list'.phase = "loading" /\ ~list'.updating => \A i \in DOMAIN list'.rows : list'.rows[i].name <= low,
         Reading(worker') => Passed(worker', low)
  PROVE  Path'
<1> DEFINE st == [k \in 0 .. 0 |-> s]
           level == [k \in 0 .. 0 |-> low]
<1>1. Len(results') = 0
  OBVIOUS
<1>2. /\ st \in [0 .. Len(results') -> Stages] /\ level \in [0 .. Len(results') -> 0 .. LastName]
      /\ st[0] = s /\ level[0] = low
  BY <1>1
<1> HIDE DEF st, level
<1>3. Follows(st)'
  BY <1>1, <1>2 DEF Follows
<1>4. Ascending(level)'
  BY <1>1, <1>2 DEF Ascending
<1> QED  BY <1>2, <1>3, <1>4 DEF Path

\* The list was given up, and the worker with it.
LEMMA SilencedIs ==
  ASSUME NamesAssumption, SizesAssumption, TypeInv, Silenced, ListFits(list'), Distinct(list'.rows),
         ShownStage(list') = "ended", faults' \in Nat,
         NotWhileGivingUp /\ faults' = 0 => there # "there",
         UNCHANGED <<folder, there, kind, changes>>
  PROVE  IInv'
<1> DEFINE ended == [Asked EXCEPT !.at = "ended"]
<1>1. worker' = ended /\ results' = <<>> /\ kernel' = NoKernel
  BY DEF Silenced
<1>2. WorkerFits(ended) /\ WorkerStage(ended) = "ended" /\ ended.at = "ended"
  BY AskedIs DEF Asked
<1>3. NoKernel \in KernelState /\ NoKernel.records = <<>> /\ ~NoKernel.open /\ ~NoKernel.away /\ ~NoKernel.broken /\ ~NoKernel.parent
  BY AskedIs
<1> HIDE DEF ended
<1>4. TypeInv'
  <2>1. KernelOK'
    BY <1>1, <1>3, SizesAssumption DEF KernelOK
  <2>2. WorkerOK' /\ ListOK'
    BY <1>1, <1>2 DEF WorkerOK, ListOK
  <2>3. results' \in Seq(Batch) /\ Len(results') <= QueuedBatches /\ DOMAIN results' = {}
    BY <1>1, SizesAssumption
  <2> QED  BY <2>1, <2>2, <2>3 DEF TypeInv
<1>5. Path'
  <2>1. list'.phase # "loading"
    BY DEF ListFits, ShownStage
  <2>2. "ended" \in Stages /\ 0 \in 0 .. LastName
    BY NamesAssumption DEF Stages
  <2> QED  BY <1>1, <1>2, <2>1, <2>2, PathAlone DEF Reading
<1>6. Reasons'
  BY <1>1, <1>2 DEF Reasons
<1>7. InOrder'
  <2>1. SaysSo' \/ list'.watch = "recovering"
    BY DEF ShownStage, SaysSo
  <2> QED  BY <2>1 DEF InOrder
<1> QED  BY <1>4, <1>5, <1>6, <1>7 DEF IInv

\* A dispatch takes what is there.
LEMMA DispatchKeeps ==
  ASSUME NamesAssumption, SizesAssumption, QueuedBatches <= 2, IInv, Dispatch
  PROVE  IInv'
<1> DEFINE n == Len(results)
<1>1. PICK st \in [0 .. n -> Stages], level \in [0 .. n -> 0 .. LastName] : Follows(st) /\ Ascending(level)
  BY DEF IInv, Path
<1>2. PICK j \in {0} \cup {i \in DOMAIN results : TRUE} :
        LET u == AllConsumed(Start(list), results, j)
        IN /\ list' = IF u.lost THEN [Finished(u) EXCEPT !.phase = "left", !.watch = "failed", !.seen = {},
                                       !.updating = FALSE, !.device = FALSE]
                      ELSE Finished(u)
           /\ IF u.cancelled THEN Silenced ELSE results' = <<>> /\ UNCHANGED <<worker, kernel>>
           /\ faults' = IF j = 0 THEN faults ELSE faults + 1
  <2> DEFINE Js == {0} \cup (IF MayFail THEN {i \in DOMAIN results : results[i].change \notin
                             {"watching", "watch_error", "location_lost"}} ELSE {})
  <2>1. Js \subseteq {0} \cup {i \in DOMAIN results : TRUE}
    OBVIOUS
  <2> QED  BY <2>1 DEF Dispatch
<1> DEFINE u == AllConsumed(Start(list), results, j)
           x == Finished(u)
<1>3. /\ results # <<>> /\ list.phase # "left" /\ UNCHANGED <<folder, there, kind, changes>>
  BY DEF Dispatch
<1>4. /\ results \in Seq(Batch) /\ n \in Nat /\ n <= 2 /\ faults \in Nat /\ j \in Nat
      /\ ListFits(list) /\ list.rows \in Seq(Row) /\ DOMAIN list.rows = 1 .. Len(list.rows) /\ Distinct(list.rows)
  <2>1. results \in Seq(Batch) /\ n <= QueuedBatches /\ faults \in Nat /\ ListFits(list) /\ Distinct(list.rows)
    BY DEF IInv, TypeInv, ListOK, InOrder
  <2>2. n \in Nat /\ DOMAIN results = 1 .. n
    BY <2>1
  <2>3. n <= 2
    BY <2>1, <2>2, SizesAssumption
  <2> QED  BY <1>2, <2>1, <2>2, <2>3 DEF ListFits, ListState
<1>5. ShownStage(list) # "ended"
  BY <1>3, EndedIs DEF IInv
<1>6. ~Over(list) /\ ~SaysSo
  BY <1>5 DEF ShownStage, Over, SaysSo
<1>7. st[0] = ShownStage(list) /\ st[n] \in Stages /\ level[n] \in 0 .. LastName /\ level \in [0 .. n -> Int]
      /\ level[0] \in Int
  <2>1. 0 \in 0 .. n /\ n \in 0 .. n /\ 0 .. LastName \subseteq Int
    BY <1>4
  <2> QED  BY <1>1, <2>1 DEF Follows
<1>8. ~list.updating /\ list.watch # "recovering" => Ordered(list.rows)
  BY <1>6 DEF IInv, InOrder
<1>9. Taken(list, Start(list), st[0], level[0], 0) /\ ~Start(list).stop
  <2>1. list.phase = "loading" /\ ~list.updating => \A i \in 1 .. Len(list.rows) : list.rows[i].name <= level[0]
    BY <1>1, <1>4 DEF Ascending
  <2> QED  BY <1>3, <1>4, <1>6, <1>7, <1>8, <2>1, StartIs
<1>10. /\ Taken(list, u, st[n], level[n], n)
       /\ u.stop => st[n] = "over" \/ j # 0
  <2>1. \A i \in 1 .. n : Moves(st[i - 1], results[i], st[i])
    BY <1>1 DEF Follows
  <2>2. \A i \in 1 .. n : results[i].change = "none" =>
           level[i - 1] <= level[i] /\ AscendsFrom(results[i].rows, level[i - 1], level[i])
    BY <1>1 DEF Ascending
  <2> QED  BY <1>4, <1>7, <1>9, <2>1, <2>2, AllConsumedIs
<1> HIDE DEF u, n
<1>11. u.append => Ordered(list.rows)
  BY <1>8, <1>10 DEF Taken, Behind
<1>12. /\ x \in ListState
       /\ x.phase = u.phase /\ x.watch = u.watch /\ x.updating = u.updating /\ x.seen = u.seen /\ x.device = u.device
       /\ Shuffled(x.rows, u.rows)
       /\ x.selected \subseteq 1 .. Len(x.rows)
       /\ ~u.stop /\ ~u.updating /\ st[n] \in {"listing", "listed", "following"} => Ordered(x.rows)
  BY <1>4, <1>10, <1>11, FinishedIs
<1> HIDE DEF x
<1>13. /\ x.rows \in Seq(Row) /\ Len(x.rows) = Len(u.rows) /\ Distinct(x.rows) /\ DOMAIN x.rows = 1 .. Len(x.rows)
       /\ \A i \in 1 .. Len(x.rows) : \E k \in 1 .. Len(u.rows) : x.rows[i] = u.rows[k]
  BY <1>12 DEF Shuffled
<1>14. /\ Coherent(u) /\ u \in Screen /\ u.cancelled = u.stop /\ (~u.stop => ShownStage(u) = st[n])
  BY <1>10 DEF Taken, Coherent
<1>15. ListFits(x)
  BY <1>12, <1>13, <1>14 DEF ListFits, Coherent
<1>16. ShownStage(x) = ShownStage(u)
  BY <1>12 DEF ShownStage
<1>17. list' = IF u.lost THEN [x EXCEPT !.phase = "left", !.watch = "failed", !.seen = {},
                                       !.updating = FALSE, !.device = FALSE]
                      ELSE x
  BY <1>2 DEF u, x
<1>18. IF u.cancelled THEN Silenced ELSE results' = <<>> /\ UNCHANGED <<worker, kernel>>
  BY <1>2 DEF u
<1>19. faults' = IF j = 0 THEN faults ELSE faults + 1
  BY <1>2
<1>20. ListFits(list') /\ list'.rows = x.rows /\ Distinct(list'.rows)
  <2>1. CASE u.lost
    <3> DEFINE y == [x EXCEPT !.phase = "left", !.watch = "failed", !.seen = {}, !.updating = FALSE, !.device = FALSE]
    <3>1. /\ y \in ListState /\ y.phase = "left" /\ y.watch = "failed" /\ y.seen = {} /\ y.updating = FALSE
          /\ y.rows = x.rows /\ y.selected = x.selected
      BY <1>12 DEF ListState
    <3>2. list' = y
      BY <1>17, <2>1
    <3> HIDE DEF y
    <3> QED  BY <1>12, <1>13, <3>1, <3>2 DEF ListFits
  <2>2. CASE ~u.lost
    BY <1>13, <1>15, <1>17, <2>2
  <2> QED  BY <2>1, <2>2
<1>21. CASE u.stop
  <2>1. Silenced
    BY <1>14, <1>18, <1>21
  <2>2. ShownStage(list') = "ended"
    <3>1. CASE u.lost
      <4>1. list'.watch = "failed"
        BY <1>12, <1>17, <3>1 DEF ListState
      <4> QED  BY <4>1 DEF ShownStage
    <3>2. CASE ~u.lost
      <4>1. Over(u)
        BY <1>14, <1>21, <3>2 DEF Coherent
      <4>2. list' = x
        BY <1>17, <3>2
      <4> QED  BY <1>16, <4>1, <4>2 DEF ShownStage, Over
    <3> QED  BY <3>1, <3>2
  <2>3. faults' \in Nat
    BY <1>4, <1>19
  <2>4. NotWhileGivingUp /\ faults' = 0 => there # "there"
    <3>1. SUFFICES ASSUME NotWhileGivingUp, faults' = 0
                   PROVE  there # "there"
      OBVIOUS
    <3>2. faults = 0 /\ j = 0
      BY <1>4, <1>19, <3>1
    <3>3. st[n] = "over"
      BY <1>10, <1>21, <3>2
    <3>4. worker.at = "ended"
      BY <1>1, <3>2, <3>3 DEF Follows, n, WorkerStage
    <3> QED  BY <3>1, <3>2, <3>4 DEF IInv, Reasons
  <2> QED  BY <1>3, <1>20, <2>1, <2>2, <2>3, <2>4, SilencedIs DEF IInv
<1>22. CASE ~u.stop
  <2>1. results' = <<>> /\ UNCHANGED <<worker, kernel>>
    BY <1>14, <1>18, <1>22
  <2>2. ~u.lost /\ list' = x
    <3>1. ~u.lost
      BY <1>10, <1>22 DEF Taken, Coherent
    <3> QED  BY <1>17, <3>1
  <2>3. faults' \in Nat /\ faults' >= faults
    BY <1>4, <1>19
  <2>4. TypeInv'
    <3>1. KernelOK'
      BY <1>3, <2>1 DEF IInv, TypeInv, KernelOK
    <3>2. WorkerOK' /\ ListOK'
      BY <1>20, <2>1 DEF IInv, TypeInv, WorkerOK, ListOK
    <3>3. results' \in Seq(Batch) /\ Len(results') <= QueuedBatches /\ DOMAIN results' = {}
      BY <2>1, SizesAssumption
    <3> QED  BY <1>3, <2>3, <3>1, <3>2, <3>3 DEF IInv, TypeInv
  <2>5. ShownStage(list') = st[n]
    BY <1>14, <1>16, <1>22, <2>2
  <2>6. Path'
    <3>1. st[n] # "over"
      BY <1>14, <1>22, StageIs
    <3>2. st[n] = WorkerStage(worker')
      BY <1>1, <2>1, <3>1 DEF Follows, n
    <3>3. list'.phase = "loading" /\ ~list'.updating => \A i \in DOMAIN list'.rows : list'.rows[i].name <= level[n]
      <4>1. u.phase = "loading" /\ ~u.updating => \A i \in 1 .. Len(u.rows) : u.rows[i].name <= level[n]
        BY <1>10, <1>22 DEF Taken, Low
      <4> QED  BY <1>12, <1>13, <2>2, <4>1
    <3>4. Reading(worker') => Passed(worker', level[n])
      BY <1>1, <2>1 DEF Ascending, n
    <3> QED  BY <1>7, <2>1, <2>5, <3>2, <3>3, <3>4, PathAlone
  <2>7. Reasons'
    <3>1. worker' = worker /\ kernel' = kernel /\ there' = there /\ (faults' = 0 => faults = 0)
      BY <1>3, <1>4, <2>1, <2>3
    <3> QED  BY <3>1 DEF IInv, Reasons
  <2>8. InOrder'
    <3>1. SUFFICES ASSUME ~x.updating, x.watch # "recovering", ~Over(x)
                   PROVE  Ordered(x.rows)
      BY <1>20, <2>2 DEF InOrder, SaysSo, Over
    <3>2. st[n] \in {"listing", "listed", "following"}
      BY <1>14, <1>16, <1>22, <3>1 DEF ShownStage, Over
    <3> QED  BY <1>12, <1>22, <3>1, <3>2
  <2> QED  BY <2>4, <2>6, <2>7, <2>8 DEF IInv
<1> QED  BY <1>21, <1>22

\* The window gives the list up.
LEMMA DispatchInactiveKeeps ==
  ASSUME NamesAssumption, SizesAssumption, IInv, DispatchInactive
  PROVE  IInv'
<1> DEFINE phase == IF list.phase = "loading" THEN "error" ELSE list.phase
<1>1. ListFits(list) /\ Distinct(list.rows) /\ list \in ListState /\ faults \in Nat
  BY DEF IInv, TypeInv, ListOK, InOrder, ListFits
<1>2. list' = [list EXCEPT !.watch = "failed", !.seen = {}, !.updating = FALSE, !.device = FALSE, !.phase = phase]
  BY DEF DispatchInactive
<1>3. phase \in Phases \cup {"left"} /\ phase # "loading"
  BY <1>1 DEF ListState, Phases
<1> HIDE DEF phase
<1>4. /\ list' \in ListState /\ list'.watch = "failed" /\ list'.seen = {} /\ list'.updating = FALSE
      /\ list'.phase # "loading" /\ list'.rows = list.rows /\ list'.selected = list.selected
  BY <1>1, <1>2, <1>3 DEF ListState
<1>5. ListFits(list') /\ Distinct(list'.rows) /\ ShownStage(list') = "ended"
  BY <1>1, <1>4 DEF ListFits, ShownStage
<1>6. faults' \in Nat /\ faults' # 0 /\ Silenced /\ UNCHANGED <<folder, there, kind, changes>>
  BY <1>1 DEF DispatchInactive
<1> QED  BY <1>5, <1>6, SilencedIs DEF IInv

\* The device of the folder is asked away.
LEMMA QueryRemoveKeeps ==
  ASSUME NamesAssumption, SizesAssumption, IInv, QueryRemove
  PROVE  IInv'
<1>1. ListFits(list) /\ Distinct(list.rows) /\ list \in ListState /\ faults \in Nat
  BY DEF IInv, TypeInv, ListOK, InOrder, ListFits
<1>2. list.device /\ list' = [list EXCEPT !.watch = "failed", !.seen = {}, !.device = FALSE]
  BY DEF QueryRemove
<1>3. list.phase # "loading" /\ ~list.updating
  BY <1>1, <1>2 DEF ListFits
<1>4. /\ list' \in ListState /\ list'.watch = "failed" /\ list'.seen = {} /\ list'.updating = list.updating
      /\ list'.phase = list.phase /\ list'.rows = list.rows /\ list'.selected = list.selected
  BY <1>1, <1>2 DEF ListState
<1>5. ListFits(list') /\ Distinct(list'.rows) /\ ShownStage(list') = "ended"
  BY <1>1, <1>3, <1>4 DEF ListFits, ShownStage
<1>6. faults' \in Nat /\ faults' # 0 /\ Silenced /\ UNCHANGED <<folder, there, kind, changes>>
  BY <1>1 DEF QueryRemove
<1> QED  BY <1>5, <1>6, SilencedIs DEF IInv

\* The listing starts anew.
LEMMA RefreshKeeps ==
  ASSUME NamesAssumption, SizesAssumption, IInv, Refresh
  PROVE  IInv'
<1> DEFINE cached == ~list.updating /\ list.phase \in {"complete", "empty"}
           rows == IF cached THEN list.rows ELSE <<>>
           selected == IF cached THEN list.selected ELSE {}
<1>1. ListFits(list) /\ Distinct(list.rows) /\ list \in ListState /\ faults \in Nat
  BY DEF IInv, TypeInv, ListOK, InOrder, ListFits
<1>2. PICK fault \in BOOLEAN, unindexed \in BOOLEAN :
        /\ unindexed => fault
        /\ faults' = IF fault THEN faults + 1 ELSE faults
        /\ list' = [list EXCEPT !.phase = IF fault THEN "error" ELSE "loading",
             !.watch = IF ~cached THEN "inactive" ELSE IF unindexed THEN "failed" ELSE "recovering",
             !.updating = cached /\ ~fault, !.rows = rows, !.seen = {},
             !.selected = selected, !.device = FALSE]
        /\ worker' = IF fault THEN [Asked EXCEPT !.at = "ended"] ELSE Asked
        /\ kernel' = NoKernel
  BY DEF Refresh
<1>3. results' = <<>> /\ UNCHANGED <<folder, there, kind, changes>>
  BY DEF Refresh
<1>4. /\ rows \in Seq(Row) /\ Distinct(rows) /\ selected \subseteq DOMAIN rows /\ selected \in SUBSET Nat
      /\ ~cached => rows = <<>> /\ DOMAIN rows = {} /\ Len(rows) = 0
  <2>1. CASE cached
    BY <1>1, <2>1 DEF ListFits, ListState
  <2>2. CASE ~cached
    <3>1. rows = <<>> /\ selected = {}
      BY <2>2
    <3>2. <<>> \in Seq(Row) /\ Len(<<>>) = 0 /\ DOMAIN <<>> = {}
      BY EmptySeq
    <3> HIDE DEF rows, selected
    <3> QED  BY <3>1, <3>2 DEF Distinct
  <2> QED  BY <2>1, <2>2
<1>5. cached \in BOOLEAN
  OBVIOUS
<1> HIDE DEF rows, selected, cached
<1>6. CASE fault
  <2>1. list' = [list EXCEPT !.phase = "error",
             !.watch = IF ~cached THEN "inactive" ELSE IF unindexed THEN "failed" ELSE "recovering",
             !.updating = FALSE, !.rows = rows, !.seen = {}, !.selected = selected, !.device = FALSE]
    BY <1>2, <1>6
  <2>2. /\ list' \in ListState /\ list'.phase = "error" /\ list'.updating = FALSE /\ list'.rows = rows /\ list'.seen = {}
        /\ list'.selected = selected
    BY <1>1, <1>4, <2>1 DEF ListState, Phases
  <2>3. ListFits(list') /\ Distinct(list'.rows) /\ ShownStage(list') = "ended"
    BY <1>4, <2>2 DEF ListFits, ShownStage
  <2>4. Silenced /\ faults' \in Nat /\ faults' # 0
    BY <1>1, <1>2, <1>3, <1>6 DEF Silenced
  <2> QED  BY <1>3, <2>3, <2>4, SilencedIs DEF IInv
<1>7. CASE ~fault
  <2>1. list' = [list EXCEPT !.phase = "loading", !.watch = IF ~cached THEN "inactive" ELSE "recovering",
             !.updating = cached, !.rows = rows, !.seen = {}, !.selected = selected, !.device = FALSE]
    <3>1. (cached /\ ~fault) = cached
      BY <1>5, <1>7
    <3> QED  BY <1>2, <1>7, <3>1
  <2>2. /\ list' \in ListState /\ list'.phase = "loading" /\ list'.updating = cached /\ list'.rows = rows /\ list'.seen = {}
        /\ list'.selected = selected /\ list'.device = FALSE
        /\ list'.watch = IF ~cached THEN "inactive" ELSE "recovering"
    BY <1>1, <1>4, <1>5, <2>1 DEF ListState, Phases
  <2>3. ListFits(list') /\ Distinct(list'.rows)
    BY <1>4, <2>2 DEF ListFits
  <2>4. ShownStage(list') = "listing"
    BY <2>2 DEF ShownStage
  <2>5. worker' = Asked /\ kernel' = NoKernel /\ faults' = faults
    BY <1>2, <1>7
  <2>6. WorkerFits(Asked) /\ WorkerStage(Asked) = "listing" /\ Asked.at = "open" /\ Asked.next = 1
        /\ Asked.batch.rows = <<>>
    BY AskedIs DEF Asked
  <2>7. TypeInv'
    <3>1. KernelOK'
      BY <2>5, AskedIs, SizesAssumption DEF KernelOK
    <3>2. WorkerOK' /\ ListOK'
      BY <2>3, <2>5, <2>6 DEF WorkerOK, ListOK
    <3>3. results' \in Seq(Batch) /\ Len(results') <= QueuedBatches /\ DOMAIN results' = {}
      BY <1>3, SizesAssumption
    <3> QED  BY <1>3, <2>5, <3>1, <3>2, <3>3 DEF IInv, TypeInv
  <2>8. Path'
    <3>1. "listing" \in Stages /\ 0 \in 0 .. LastName
      BY NamesAssumption DEF Stages
    <3>2. list'.phase = "loading" /\ ~list'.updating => \A i \in DOMAIN list'.rows : list'.rows[i].name <= 0
      BY <1>4, <2>2
    <3>3. Reading(worker') => Passed(worker', 0)
      <4>1. DOMAIN <<>> = {}
        BY EmptySeq
      <4>2. AscendsFrom(<<>>, 0, worker'.next - 1)
        BY <4>1 DEF AscendsFrom
      <4>3. 0 <= 1 - 1
        OBVIOUS
      <4> QED  BY <2>5, <2>6, <4>2, <4>3 DEF Passed
    <3> QED  BY <1>3, <2>4, <2>5, <2>6, <3>1, <3>2, <3>3, PathAlone
  <2>9. Reasons'
    BY <2>5, <2>6 DEF Reasons
  <2>10. InOrder'
    <3>1. CASE cached
      BY <2>2, <2>3, <3>1 DEF InOrder
    <3>2. CASE ~cached
      <4>1. Len(list'.rows) - 1 = -1
        BY <1>4, <2>2, <3>2
      <4>2. 1 .. Len(list'.rows) - 1 = {}
        BY <4>1
      <4>3. Ordered(list'.rows)
        BY <4>2 DEF Ordered
      <4> QED  BY <2>3, <4>3 DEF InOrder
    <3> QED  BY <3>1, <3>2
  <2> QED  BY <2>7, <2>8, <2>9, <2>10 DEF IInv
<1> QED  BY <1>6, <1>7

\* What the path depends on.
LEMMA PathKept ==
  ASSUME TypeInv, Path, results' = results, ShownStage(list') = ShownStage(list),
         list'.phase = list.phase, list'.updating = list.updating, list'.rows = list.rows,
         WorkerStage(worker') = WorkerStage(worker), worker.at = "ended" => worker'.at = "ended",
         faults \in Nat, faults' \in Nat, faults <= faults',
         Reading(worker') =>
           Reading(worker) /\ \A low \in 0 .. LastName : Passed(worker, low) => Passed(worker', low)
  PROVE  Path'
<1>1. PICK st \in [0 .. Len(results) -> Stages], level \in [0 .. Len(results) -> 0 .. LastName] :
        Follows(st) /\ Ascending(level)
  BY DEF Path
<1>2. Follows(st)'
  <2>1. faults > 0 => faults' > 0
    OBVIOUS
  <2> QED  BY <1>1, <2>1 DEF Follows
<1>3. Ascending(level)'
  <2>1. results \in Seq(Batch)
    BY DEF TypeInv
  <2>2. level[Len(results)] \in 0 .. LastName
    BY <1>1, <2>1
  <2> QED  BY <1>1, <2>2 DEF Ascending
<1> QED  BY <1>1, <1>2, <1>3 DEF Path

\* The user selects.
LEMMA SelectKeeps ==
  ASSUME IInv, NEW i, Select(i)
  PROVE  IInv'
<1>1. /\ UNCHANGED <<folder, there, kind, kernel, worker, results, changes, faults>>
      /\ list' = [list EXCEPT !.selected = {i}] /\ i \in DOMAIN list.rows
  BY DEF Select, bounds
<1>2. ListFits(list) /\ list \in ListState /\ faults \in Nat
  BY DEF IInv, TypeInv, ListOK, ListFits
<1>3. /\ list' \in ListState /\ list'.phase = list.phase /\ list'.watch = list.watch /\ list'.updating = list.updating
      /\ list'.rows = list.rows /\ list'.seen = list.seen /\ list'.device = list.device /\ list'.selected = {i}
  BY <1>1, <1>2 DEF ListState
<1>4. ListFits(list') /\ ShownStage(list') = ShownStage(list)
  BY <1>1, <1>2, <1>3 DEF ListFits, ShownStage
<1>5. TypeInv'
  BY <1>1, <1>4 DEF IInv, TypeInv, KernelOK, WorkerOK, ListOK
<1>6. Path'
  <2>1. faults <= faults' /\ faults' \in Nat
    BY <1>1, <1>2
  <2> QED  BY <1>1, <1>2, <1>3, <1>4, <2>1, PathKept DEF IInv
<1>7. Reasons' /\ InOrder'
  BY <1>1, <1>3 DEF IInv, Reasons, InOrder, SaysSo
<1> QED  BY <1>5, <1>6, <1>7 DEF IInv

-----------------------------------------------------------------------------
(* The folder's side. *)

\* What the kernel reports keeps its buffer within bounds.
LEMMA ReportedIs ==
  ASSUME SizesAssumption, KernelOK, NEW records \in Seq(Record)
  PROVE  LET h == Reported(records) IN
         /\ h \in KernelState /\ Len(h.records) <= KernelRecords
         /\ h.open = kernel.open /\ h.parent = kernel.parent /\ h.away = kernel.away /\ h.broken = kernel.broken
<1> DEFINE h == Reported(records)
           both == kernel.records \o records
<1>1. kernel \in KernelState /\ kernel.records \in Seq(Record) /\ Len(kernel.records) <= KernelRecords
  BY DEF KernelOK, KernelState
<1>2. both \in Seq(Record) /\ Len(both) = Len(kernel.records) + Len(records)
  BY <1>1
<1> HIDE DEF both
<1>3. CASE ~kernel.open \/ kernel.over
  BY <1>1, <1>3 DEF Reported
<1>4. CASE ~(~kernel.open \/ kernel.over) /\ Len(kernel.records) + Len(records) > KernelRecords
  <2>1. h = [kernel EXCEPT !.records = <<>>, !.over = TRUE]
    BY <1>4 DEF Reported
  <2>2. <<>> \in Seq(Record) /\ Len(<<>>) = 0 /\ 0 <= KernelRecords
    BY EmptySeq, SizesAssumption
  <2> HIDE DEF h
  <2>3. h \in KernelState /\ h.records = <<>> /\ h.open = kernel.open /\ h.parent = kernel.parent
        /\ h.away = kernel.away /\ h.broken = kernel.broken
    BY <1>1, <2>1, <2>2 DEF KernelState
  <2> QED  BY <2>2, <2>3 DEF h
<1>5. CASE ~(~kernel.open \/ kernel.over) /\ ~(Len(kernel.records) + Len(records) > KernelRecords)
  <2>1. h = [kernel EXCEPT !.records = both]
    BY <1>5 DEF Reported, both
  <2>2. Len(both) <= KernelRecords
    <3>1. Len(kernel.records) \in Nat /\ Len(records) \in Nat
      BY <1>1
    <3> QED  BY <1>2, <1>5, <3>1, SizesAssumption
  <2> HIDE DEF h
  <2>3. h \in KernelState /\ h.records = both /\ h.open = kernel.open /\ h.parent = kernel.parent
        /\ h.away = kernel.away /\ h.broken = kernel.broken
    BY <1>1, <1>2, <2>1 DEF KernelState
  <2> QED  BY <2>2, <2>3 DEF h
<1> QED  BY <1>3, <1>4, <1>5

\* What happens to the folder happens to nobody else.
LEMMA OutsideKeeps ==
  ASSUME IInv, UNCHANGED <<list, worker, results, faults>>, TypeInv',
         kernel'.open = kernel.open,
         NotWhileGivingUp /\ worker.at \in {"scan", "lose", "ended"} /\ there # "there" => there' # "there"
  PROVE  IInv'
<1>1. Path'
  <2>1. faults \in Nat /\ faults' \in Nat /\ faults <= faults'
    BY DEF IInv, TypeInv
  <2> QED  BY <2>1, PathKept DEF IInv
<1>2. Reasons'
  BY DEF IInv, Reasons
<1>3. InOrder'
  BY DEF IInv, InOrder, SaysSo
<1> QED  BY <1>1, <1>2, <1>3 DEF IInv

\* An item of the folder changes.
LEMMA ChangeKeeps ==
  ASSUME SizesAssumption, CountsAssumption, IInv, NEW n \in Names, NEW v \in {0, changes + 2}, Change(n, v)
  PROVE  IInv'
<1>1. /\ UNCHANGED <<there, kind, worker, results, list, faults>>
      /\ changes < MaxChanges /\ changes' = changes + 1 /\ folder' = [folder EXCEPT ![n] = v]
      /\ kernel' = Reported(<<[action |-> "changed", name |-> n]>>)
  BY DEF Change, bounds
<1>2. <<[action |-> "changed", name |-> n]>> \in Seq(Record)
  BY DEF Record
<1>3. KernelOK /\ folder \in [Names -> 0 .. MaxChanges + 1] /\ changes \in 0 .. MaxChanges
  BY DEF IInv, TypeInv
<1>4. KernelOK' /\ kernel'.open = kernel.open
  <2>1. /\ kernel' \in KernelState /\ Len(kernel'.records) <= KernelRecords
        /\ kernel'.open = kernel.open /\ kernel'.parent = kernel.parent /\ kernel'.away = kernel.away
        /\ kernel'.broken = kernel.broken
    BY <1>1, <1>2, <1>3, ReportedIs
  <2> QED  BY <1>1, <1>3, <2>1 DEF KernelOK
<1>5. changes' \in 0 .. MaxChanges /\ folder' \in [Names -> 0 .. MaxChanges + 1]
  <2>1. v \in 0 .. MaxChanges + 1
    BY <1>1, <1>3, CountsAssumption
  <2> QED  BY <1>1, <1>3, <2>1, CountsAssumption
<1>6. TypeInv'
  BY <1>1, <1>4, <1>5 DEF IInv, TypeInv, WorkerOK, ListOK
<1> QED  BY <1>1, <1>4, <1>6, OutsideKeeps

\* An item of the folder is renamed.
LEMMA RenameKeeps ==
  ASSUME SizesAssumption, CountsAssumption, IInv, NEW a \in Names, NEW b \in Names, Rename(a, b)
  PROVE  IInv'
<1> DEFINE records == <<[action |-> "old", name |-> a], [action |-> "new", name |-> b]>>
<1>1. /\ UNCHANGED <<there, kind, worker, results, list, faults>>
      /\ changes < MaxChanges /\ changes' = changes + 1 /\ folder' = [folder EXCEPT ![b] = folder[a], ![a] = 0]
      /\ kernel' = Reported(records)
  BY DEF Rename, bounds
<1>2. records \in Seq(Record)
  BY DEF Record
<1>3. KernelOK /\ folder \in [Names -> 0 .. MaxChanges + 1] /\ changes \in 0 .. MaxChanges
  BY DEF IInv, TypeInv
<1> HIDE DEF records
<1>4. KernelOK' /\ kernel'.open = kernel.open
  <2>1. /\ kernel' \in KernelState /\ Len(kernel'.records) <= KernelRecords
        /\ kernel'.open = kernel.open /\ kernel'.parent = kernel.parent /\ kernel'.away = kernel.away
        /\ kernel'.broken = kernel.broken
    BY <1>1, <1>2, <1>3, ReportedIs
  <2> QED  BY <1>1, <1>3, <2>1 DEF KernelOK
<1>5. changes' \in 0 .. MaxChanges /\ folder' \in [Names -> 0 .. MaxChanges + 1]
  <2>1. 0 \in 0 .. MaxChanges + 1 /\ folder[a] \in 0 .. MaxChanges + 1
    BY <1>3, CountsAssumption
  <2> QED  BY <1>1, <1>3, <2>1, CountsAssumption
<1>6. TypeInv'
  BY <1>1, <1>4, <1>5 DEF IInv, TypeInv, WorkerOK, ListOK
<1> QED  BY <1>1, <1>4, <1>6, OutsideKeeps

\* The folder itself goes.
LEMMA GoKeeps ==
  ASSUME CountsAssumption, IInv, NEW how \in {"moved", "deleted"}, Go(how)
  PROVE  IInv'
<1>1. /\ UNCHANGED <<folder, kind, worker, results, list, faults>> /\ kind = "directory" /\ there = "there"
      /\ changes < MaxChanges /\ changes' = changes + 1
      /\ there' = IF how = "moved" /\ ~kernel.parent THEN "slipped" ELSE how
      /\ kernel' = [kernel EXCEPT !.broken = @ \/ (how = "deleted" /\ kernel.open), !.away = kernel.parent]
  BY DEF Go, bounds
<1>2. KernelOK /\ changes \in 0 .. MaxChanges /\ kernel \in KernelState /\ ~kernel.broken
  BY <1>1 DEF IInv, TypeInv, KernelOK
<1>3. KernelOK' /\ kernel'.open = kernel.open
  <2> DEFINE broken == kernel.broken \/ (how = "deleted" /\ kernel.open)
  <2>1. broken \in BOOLEAN /\ (broken => there' = "deleted")
    BY <1>1, <1>2
  <2>2. kernel' = [kernel EXCEPT !.broken = broken, !.away = kernel.parent]
    BY <1>1
  <2> HIDE DEF broken
  <2>3. /\ kernel' \in KernelState /\ kernel'.records = kernel.records /\ kernel'.open = kernel.open
        /\ kernel'.parent = kernel.parent /\ kernel'.away = kernel.parent /\ kernel'.broken = broken
    BY <1>2, <2>1, <2>2 DEF KernelState
  <2>4. kind' = "directory"
    BY <1>1
  <2>5. Len(kernel'.records) <= KernelRecords /\ (kernel'.broken => there' = "deleted")
    BY <1>2, <2>1, <2>3 DEF KernelOK
  <2> QED  BY <2>3, <2>4, <2>5 DEF KernelOK
<1>4. changes' \in 0 .. MaxChanges /\ there' \in {"moved", "deleted", "slipped"}
  BY <1>1, <1>2, CountsAssumption
<1>5. TypeInv'
  BY <1>1, <1>3, <1>4 DEF IInv, TypeInv, WorkerOK, ListOK
<1> QED  BY <1>1, <1>3, <1>5, OutsideKeeps

\* A folder comes back only while the worker is not about to give up on it.
LEMMA ReturnKeeps ==
  ASSUME IInv, Return
  PROVE  IInv'
<1>1. /\ UNCHANGED <<folder, kind, kernel, worker, results, list, faults, changes>>
      /\ worker.at \in ReturnsAt /\ there \in {"moved", "slipped"} /\ there' = "there"
  BY DEF Return, bounds
<1>2. TypeInv'
  BY <1>1 DEF IInv, TypeInv, KernelOK, WorkerOK, ListOK
<1>3. NotWhileGivingUp => worker.at \notin {"scan", "lose", "ended"}
  BY <1>1 DEF NotWhileGivingUp
<1> QED  BY <1>1, <1>2, <1>3, OutsideKeeps

-----------------------------------------------------------------------------
(* The worker's side. *)

\* A step of the worker that publishes nothing.
LEMMA QuietKeeps ==
  ASSUME IInv, UNCHANGED <<folder, there, kind, list, results, changes>>,
         KernelOK', WorkerFits(worker'), faults' \in Nat, faults <= faults', Reasons',
         worker.at # "ended", WorkerStage(worker') = WorkerStage(worker),
         Reading(worker') =>
           Reading(worker) /\ \A low \in 0 .. LastName : Passed(worker, low) => Passed(worker', low)
  PROVE  IInv'
<1>1. TypeInv'
  BY DEF IInv, TypeInv, WorkerOK, ListOK
<1>2. Path'
  <2>1. faults \in Nat
    BY DEF IInv, TypeInv
  <2> QED  BY <2>1, PathKept DEF IInv
<1>3. InOrder'
  BY DEF IInv, InOrder, SaysSo
<1> QED  BY <1>1, <1>2, <1>3 DEF IInv

\* A step of the worker that publishes a batch.
LEMMA PublishKeeps ==
  ASSUME IInv, UNCHANGED <<folder, there, kind, list, changes>>,
         KernelOK', WorkerFits(worker'), faults' \in Nat, faults <= faults', Reasons',
         worker.at # "ended",
         NEW b, BatchOK(b), Publish(b), NEW t \in Stages, NEW high \in 0 .. LastName,
         Moves(WorkerStage(worker), b, t),
         t = WorkerStage(worker') \/ (t = "over" /\ (faults' > 0 \/ worker'.at = "ended")),
         b.change = "none" =>
           /\ Reading(worker)
           /\ \A low \in 0 .. LastName : Passed(worker, low) => low <= high /\ AscendsFrom(b.rows, low, high),
         Reading(worker') => b.change = "none" /\ Passed(worker', high)
  PROVE  IInv'
<1> DEFINE n == Len(results)
           m == n + 1
<1>1. PICK st \in [0 .. n -> Stages], level \in [0 .. n -> 0 .. LastName] : Follows(st) /\ Ascending(level)
  BY DEF IInv, Path
<1>2. /\ results \in Seq(Batch) /\ n \in Nat /\ results' = Append(results, b) /\ n < QueuedBatches /\ b \in Batch
      /\ \A i \in DOMAIN results : BatchOK(results[i])
  BY DEF IInv, TypeInv, Publish, Room, BatchOK
<1>3. /\ results' \in Seq(Batch) /\ Len(results') = m /\ m \in Nat /\ results'[m] = b
      /\ \A i \in 1 .. n : results'[i] = results[i]
      /\ DOMAIN results' = 1 .. m
  BY <1>2
<1>4. \A i \in 1 .. m : i \in 1 .. n \/ i = m
  BY <1>2
<1>5. TypeInv'
  <2>1. Len(results') <= QueuedBatches
    BY <1>2, <1>3, SizesAssumption DEF IInv, TypeInv
  <2>2. \A i \in DOMAIN results' : BatchOK(results'[i])
    BY <1>2, <1>3, <1>4
  <2>3. (\A i \in DOMAIN results : BatchOK(results[i]))'
    BY <2>2 DEF BatchOK
  <2> QED  BY <1>3, <2>1, <2>3 DEF IInv, TypeInv, WorkerOK, ListOK
<1>6. Path'
  <2> DEFINE to == IF st[n] = "over" THEN "over" ELSE t
  <2>1. to \in Stages
    BY DEF Stages
  <2>2. \A k \in 0 .. m : k # m => k \in 0 .. n
    BY <1>2
  <2>3. PICK st2, level2 :
          /\ st2 \in [0 .. m -> Stages] /\ level2 \in [0 .. m -> 0 .. LastName]
          /\ st2[m] = to /\ level2[m] = high
          /\ \A k \in 0 .. n : st2[k] = st[k] /\ level2[k] = level[k]
    <3> DEFINE x == [k \in 0 .. m |-> IF k = m THEN to ELSE st[k]]
               y == [k \in 0 .. m |-> IF k = m THEN high ELSE level[k]]
    <3>1. \A k \in 0 .. n : k \in 0 .. m /\ k # m
      BY <1>2
    <3>2. m \in 0 .. m
      BY <1>2
    <3>3. /\ x \in [0 .. m -> Stages] /\ y \in [0 .. m -> 0 .. LastName]
          /\ x[m] = to /\ y[m] = high
          /\ \A k \in 0 .. n : x[k] = st[k] /\ y[k] = level[k]
      BY <1>1, <2>1, <2>2, <3>1, <3>2
    <3> HIDE DEF x, y, to, m, n
    <3> QED  BY <3>3, Zenon
  <2>4. 0 \in 0 .. n /\ n \in 0 .. n /\ m - 1 = n /\ \A i \in 1 .. n : i \in 0 .. n /\ i - 1 \in 0 .. n
    BY <1>2
  <2>5. st[n] = WorkerStage(worker) \/ (st[n] = "over" /\ faults > 0)
    BY <1>1 DEF Follows
  <2>6. Moves(st[n], b, to)
    BY <2>5 DEF Moves
  <2>7. to = WorkerStage(worker') \/ (to = "over" /\ (faults' > 0 \/ worker'.at = "ended"))
    <3>1. faults > 0 => faults' > 0
      BY DEF IInv, TypeInv
    <3>2. st[n] # "over" => to = t
      OBVIOUS
    <3>3. WorkerStage(worker) # "over"
      BY DEF WorkerStage
    <3> QED  BY <2>5, <3>1, <3>2, <3>3
  <2> HIDE DEF to
  <2>8. \A i \in 1 .. m : Moves(st2[i - 1], results'[i], st2[i])
    <3>1. \A i \in 1 .. n : Moves(st2[i - 1], results'[i], st2[i])
      BY <1>1, <1>3, <2>3, <2>4 DEF Follows
    <3>2. Moves(st2[m - 1], results'[m], st2[m])
      BY <1>3, <2>3, <2>4, <2>6
    <3> QED  BY <1>4, <3>1, <3>2
  <2>9. Follows(st2)'
    <3>1. st2[0] = ShownStage(list')
      BY <1>1, <2>3, <2>4 DEF Follows
    <3> QED  BY <1>3, <2>3, <2>7, <2>8, <3>1 DEF Follows
  <2>10. \A i \in 1 .. m : results'[i].change = "none" =>
           level2[i - 1] <= level2[i] /\ AscendsFrom(results'[i].rows, level2[i - 1], level2[i])
    <3>1. \A i \in 1 .. n : results'[i].change = "none" =>
           level2[i - 1] <= level2[i] /\ AscendsFrom(results'[i].rows, level2[i - 1], level2[i])
      BY <1>1, <1>3, <2>3, <2>4 DEF Ascending
    <3>2. results'[m].change = "none" =>
           level2[m - 1] <= level2[m] /\ AscendsFrom(results'[m].rows, level2[m - 1], level2[m])
      <4>1. level[n] \in 0 .. LastName
        BY <1>1, <2>4
      <4>2. Reading(worker) => Passed(worker, level[n])
        BY <1>1 DEF Ascending
      <4>3. b.change = "none" => level[n] <= high /\ AscendsFrom(b.rows, level[n], high)
        BY <4>1, <4>2
      <4> QED  BY <1>3, <2>3, <2>4, <4>3
    <3> QED  BY <1>4, <3>1, <3>2
  <2>11. Ascending(level2)'
    <3>1. list'.phase = "loading" /\ ~list'.updating =>
             \A i \in DOMAIN list'.rows : list'.rows[i].name <= level2[0]
      BY <1>1, <2>3, <2>4 DEF Ascending
    <3> QED  BY <1>3, <2>3, <2>10, <3>1 DEF Ascending
  <2> QED  BY <1>3, <2>3, <2>9, <2>11 DEF Path
<1>7. InOrder'
  BY DEF IInv, InOrder, SaysSo
<1> QED  BY <1>5, <1>6, <1>7 DEF IInv

\* What decode_changes gathers from the records of a read.
Details == [names : Seq(Names), renamed : Seq(Names \X Names), old : 0 .. LastName, rescan : BOOLEAN]

\* One record.
LEMMA NoticedIs ==
  ASSUME NamesAssumption, NEW d \in Details, NEW r \in Record
  PROVE  Noticed(d, r) \in Details
<1> DEFINE With(names, n) == IF n \in ToSet(names) THEN names ELSE Append(names, n)
<1>1. \A names \in Seq(Names), n \in Names : With(names, n) \in Seq(Names)
  OBVIOUS
<1>2. /\ d.names \in Seq(Names) /\ d.renamed \in Seq(Names \X Names) /\ d.old \in 0 .. LastName
      /\ d.rescan \in BOOLEAN /\ r.name \in Names /\ r.name \in 0 .. LastName /\ 0 \in 0 .. LastName
  BY NamesAssumption DEF Details, Record, Names
<1>3. d.old # 0 => d.old \in Names
  BY <1>2 DEF Names
<1> DEFINE rescan == d.rescan \/ d.old # 0
<1>4. rescan \in BOOLEAN
  BY <1>2
<1>5. CASE r.action = "old"
  <2>1. Noticed(d, r) = [d EXCEPT !.rescan = rescan, !.old = r.name]
    BY <1>5 DEF Noticed
  <2> HIDE DEF rescan
  <2> QED  BY <1>2, <1>4, <2>1 DEF Details
<1>6. CASE r.action = "new" /\ d.old # 0
  <2> DEFINE names == With(With(d.names, d.old), r.name)
             renamed == Append(d.renamed, <<d.old, r.name>>)
  <2>1. Noticed(d, r) = [d EXCEPT !.renamed = renamed, !.old = 0, !.names = names]
    BY <1>6 DEF Noticed
  <2>2. renamed \in Seq(Names \X Names)
    BY <1>2, <1>3, <1>6
  <2> HIDE DEF With
  <2>3. names \in Seq(Names)
    BY <1>1, <1>2, <1>3, <1>6
  <2> HIDE DEF names, renamed
  <2> QED  BY <1>2, <2>1, <2>2, <2>3 DEF Details
<1>7. CASE ~(r.action = "old") /\ ~(r.action = "new" /\ d.old # 0)
  <2> DEFINE names == With(d.names, r.name)
  <2>1. Noticed(d, r) = [d EXCEPT !.rescan = rescan, !.names = names]
    BY <1>7 DEF Noticed
  <2> HIDE DEF With
  <2>2. names \in Seq(Names)
    BY <1>1, <1>2
  <2> HIDE DEF names, rescan
  <2> QED  BY <1>2, <1>4, <2>1, <2>2 DEF Details
<1> QED  BY <1>5, <1>6, <1>7

\* All records of a read, one after the other.
LEMMA DecodedIs ==
  ASSUME NamesAssumption, NEW records \in Seq(Record), NEW old \in 0 .. LastName
  PROVE  Decoded(records, old) \in Details
<1> DEFINE n == Len(records)
           start == [names |-> <<>>, renamed |-> <<>>, old |-> old, rescan |-> FALSE]
           Upto[k \in 0 .. n] == IF k = 0 THEN start ELSE Noticed(Upto[k - 1], records[k])
           T == [k \in 0 .. n |-> Details]
           F == [ks \in (1 .. n) \X Details |-> Noticed(ks[2], records[ks[1]])]
<1>1. n \in Nat /\ \A i \in 1 .. n : records[i] \in Record
  OBVIOUS
<1>2. start \in T[0]
  <2>1. 0 \in 0 .. n
    BY <1>1
  <2>2. <<>> \in Seq(Names) /\ <<>> \in Seq(Names \X Names)
    BY EmptySeq
  <2>3. start \in Details
    BY <2>2 DEF Details
  <2> HIDE DEF start
  <2> QED  BY <2>1, <2>3
<1> HIDE DEF start
<1>3. \A k \in 1 .. n : \A s \in Details : Noticed(s, records[k]) \in Details
  BY <1>1, NoticedIs
<1>4. \A k \in 1 .. n : \A s \in T[k - 1] : /\ s \in Details /\ Noticed(s, records[k]) \in T[k]
                                           /\ F[<<k, s>>] = Noticed(s, records[k])
  <2> TAKE k \in 1 .. n
  <2>1. k - 1 \in 0 .. n /\ k \in 0 .. n
    BY <1>1
  <2>2. T[k - 1] = Details /\ T[k] = Details
    BY <2>1
  <2> QED  BY <1>3, <2>2
<1> HIDE DEF T, F, n
<1>5. PICK f : /\ \A k \in 0 .. n : f[k] \in T[k]
               /\ Steps(f, start, n, F)
  <2>1. \A k \in 1 .. n : \A s \in T[k - 1] : F[<<k, s>>] \in T[k]
    BY <1>4
  <2> QED  BY <1>1, <1>2, <2>1, Recursed
<1>6. f = [k \in 0 .. n |-> IF k = 0 THEN start ELSE Noticed(f[k - 1], records[k])]
  <2>1. \A k \in 0 .. n : k # 0 => k \in 1 .. n /\ k - 1 \in 0 .. n
    BY <1>1
  <2>2. \A k \in 0 .. n : k # 0 => F[<<k, f[k - 1]>>] = Noticed(f[k - 1], records[k])
    BY <1>4, <1>5, <2>1
  <2> QED  BY <1>5, <2>2, Zenon DEF Steps
<1>7. Upto = [k \in 0 .. n |-> IF k = 0 THEN start ELSE Noticed(Upto[k - 1], records[k])]
  BY <1>6, Zenon
<1> HIDE DEF Upto
<1>8. Upto[0] = start /\ \A k \in 1 .. n : Upto[k] = Noticed(Upto[k - 1], records[k])
  <2>1. 0 \in 0 .. n /\ \A k \in 1 .. n : k \in 0 .. n /\ k # 0
    BY <1>1
  <2>2. \A k \in 0 .. n : Upto[k] = IF k = 0 THEN start ELSE Noticed(Upto[k - 1], records[k])
    BY <1>7, Zenon
  <2> QED  BY <2>1, <2>2
<1>9. \A k \in 0 .. n : Upto[k] \in T[k]
  <2>1. Upto[0] \in T[0]
    BY <1>2, <1>8
  <2>2. \A k \in 1 .. n : Upto[k - 1] \in T[k - 1] => Upto[k] \in T[k]
    <3> TAKE k \in 1 .. n
    <3> HAVE Upto[k - 1] \in T[k - 1]
    <3>1. Noticed(Upto[k - 1], records[k]) \in T[k]
      BY <1>4
    <3> QED  BY <1>8, <3>1
  <2> QED  BY <1>1, <2>1, <2>2, AllAlong
<1>10. Upto[n] \in Details
  <2>1. n \in 0 .. n /\ T[n] = Details
    BY <1>1 DEF T
  <2> QED  BY <1>9, <2>1
<1> QED  BY <1>10 DEF Decoded, Upto, n, start

\* A read takes the first records.
LEMMA DrainedIs ==
  ASSUME SizesAssumption, KernelOK, NEW k \in Completions
  PROVE  LET h == Drained(k) IN
         /\ h \in KernelState /\ Len(h.records) <= KernelRecords
         /\ h.open = kernel.open /\ h.parent = kernel.parent /\ h.away = kernel.away /\ h.broken = kernel.broken
         /\ SubSeq(kernel.records, 1, k) \in Seq(Record)
<1> DEFINE h == Drained(k)
           rest == SubSeq(kernel.records, k + 1, Len(kernel.records))
<1>1. kernel \in KernelState /\ kernel.records \in Seq(Record) /\ Len(kernel.records) <= KernelRecords
      /\ Len(kernel.records) \in Nat
  BY DEF KernelOK, KernelState
<1>2. k \in 0 .. Len(kernel.records)
  BY <1>1 DEF Completions
<1>3. rest \in Seq(Record) /\ Len(rest) = Len(kernel.records) - k /\ SubSeq(kernel.records, 1, k) \in Seq(Record)
  BY <1>1, <1>2, Halves
<1>4. Len(rest) <= KernelRecords
  BY <1>1, <1>2, <1>3, SizesAssumption
<1>5. h = [kernel EXCEPT !.over = FALSE, !.records = rest]
  BY DEF Drained
<1> HIDE DEF h, rest
<1>6. /\ h \in KernelState /\ h.records = rest
      /\ h.open = kernel.open /\ h.parent = kernel.parent /\ h.away = kernel.away /\ h.broken = kernel.broken
  BY <1>1, <1>3, <1>5 DEF KernelState
<1> QED  BY <1>3, <1>4, <1>6 DEF h

\* Back at the idle wait.
LEMMA ResumedIs ==
  ASSUME SizesAssumption, NamesAssumption, WorkerFits(worker), NEW recovery \in BOOLEAN
  PROVE  LET w == Resumed(recovery) IN
         /\ WorkerFits(w) /\ w.at = "idle" /\ w.count = worker.count /\ ~Reading(w)
<1> DEFINE w == Resumed(recovery)
           settle == worker.settle \/ recovery
           old == IF recovery THEN 0 ELSE worker.old
<1>1. worker \in WorkerState
  BY DEF WorkerFits
<1>2. settle \in BOOLEAN /\ old \in 0 .. LastName
  BY <1>1, NamesAssumption DEF WorkerState
<1>3. w = [worker EXCEPT !.at = "idle", !.batch = NewBatch, !.names = <<>>, !.settle = settle, !.old = old]
  BY DEF Resumed
<1>4. NewBatch \in Batch /\ NewBatch.rows = <<>> /\ NewBatch.removed = {} /\ <<>> \in Seq(Names)
      /\ Len(<<>>) = 0 /\ Cardinality({}) = 0 /\ 0 + 0 <= BatchRows
  BY AskedIs, EmptySeq, SizesAssumption
<1> HIDE DEF w, settle, old
<1>5. w \in WorkerState /\ w.at = "idle" /\ w.batch = NewBatch /\ w.count = worker.count
  BY <1>1, <1>2, <1>3, <1>4 DEF WorkerState, Places
<1> QED  BY <1>4, <1>5 DEF WorkerFits, Reading, w

LEMMA OpenWatchKeeps ==
  ASSUME NamesAssumption, SizesAssumption, IInv, OpenWatch \/ OpenNamespaceWatches
  PROVE  IInv'
<1>1. worker.at = "open" /\ worker' = [worker EXCEPT !.at = "scan"]
      /\ UNCHANGED <<folder, there, kind, list, results, changes>>
  BY DEF OpenWatch, OpenNamespaceWatches
<1>2. PICK open \in BOOLEAN :
        /\ kernel' \in KernelState /\ kernel'.open = open /\ kernel'.records = <<>>
        /\ ~kernel'.away /\ ~kernel'.broken /\ ~kernel'.parent
        /\ faults' \in Nat /\ faults <= faults'
        /\ faults' = 0 /\ ~open => there # "there"
  <2>1. faults \in Nat /\ (kind = "namespace" => there = "there")
    BY DEF IInv, TypeInv
  <2>2. NoKernel \in KernelState /\ NoKernel.records = <<>> /\ ~NoKernel.away /\ ~NoKernel.broken /\ ~NoKernel.parent
        /\ ~NoKernel.open
    BY AskedIs
  <2>3. \A open \in BOOLEAN : LET h == [NoKernel EXCEPT !.open = open] IN
          h \in KernelState /\ h.open = open /\ h.records = <<>> /\ ~h.away /\ ~h.broken /\ ~h.parent
    BY <2>2 DEF KernelState
  <2>4. CASE OpenWatch
    <3>1. PICK open \in {there = "there"} \cup (IF MayFail THEN {FALSE} ELSE {}) :
            /\ kernel' = [NoKernel EXCEPT !.open = open]
            /\ faults' = IF there = "there" /\ ~open THEN faults + 1 ELSE faults
      BY <2>4 DEF OpenWatch
    <3>2. open \in BOOLEAN
      OBVIOUS
    <3>3. kernel' \in KernelState /\ kernel'.open = open /\ kernel'.records = <<>>
          /\ ~kernel'.away /\ ~kernel'.broken /\ ~kernel'.parent
      BY <2>3, <3>1, <3>2
    <3>4. faults' \in Nat /\ faults <= faults' /\ (faults' = 0 /\ ~open => there # "there")
      BY <2>1, <3>1
    <3> QED  BY <3>2, <3>3, <3>4
  <2>5. CASE OpenNamespaceWatches
    <3>1. CASE kernel' = [NoKernel EXCEPT !.open = TRUE] /\ UNCHANGED faults
      <4>1. kernel' \in KernelState /\ kernel'.open = TRUE /\ kernel'.records = <<>>
          /\ ~kernel'.away /\ ~kernel'.broken /\ ~kernel'.parent
        BY <2>3, <3>1
      <4>2. faults' \in Nat /\ faults <= faults'
        BY <2>1, <3>1
      <4> QED  BY <4>1, <4>2
    <3>2. CASE kernel' = NoKernel /\ faults' = faults + 1
      <4>1. faults' \in Nat /\ faults <= faults' /\ faults' # 0
        BY <2>1, <3>2
      <4>2. kernel'.open = FALSE
        BY <2>2, <3>2 DEF KernelState
      <4> QED  BY <2>2, <3>2, <4>1, <4>2
    <3> QED  BY <2>5, <3>1, <3>2 DEF OpenNamespaceWatches, ArmNamespaceWatches
  <2> QED  BY <2>4, <2>5
<1>3. KernelOK' /\ kernel'.open = open
  <2>1. Len(<<>>) <= KernelRecords
    BY SizesAssumption, EmptySeq
  <2> QED  BY <1>2, <2>1 DEF KernelOK
<1>4. WorkerFits(worker) /\ worker \in WorkerState
  BY DEF IInv, TypeInv, WorkerOK, WorkerFits
<1>5. /\ worker' \in WorkerState /\ worker'.at = "scan" /\ worker'.batch = worker.batch /\ worker'.next = worker.next
      /\ worker'.change = worker.change /\ worker'.count = worker.count
  BY <1>1, <1>4 DEF WorkerState, Places
<1>6. worker.batch = NewBatch /\ worker.count = 0 /\ worker.change = "none"
  BY <1>1, <1>4 DEF WorkerFits
<1>7. WorkerFits(worker')
  <2>1. NewBatch.rows = <<>> /\ NewBatch.removed = {} /\ Len(<<>>) = 0 /\ Cardinality({}) = 0
    BY AskedIs
  <2>2. 0 < BatchRows /\ 0 + 0 <= BatchRows
    BY SizesAssumption
  <2> QED  BY <1>5, <1>6, <2>1, <2>2 DEF WorkerFits
<1>8. Reasons'
  BY <1>1, <1>2, <1>3, <1>5, <1>6 DEF Reasons
<1>9. WorkerStage(worker) = "listing" /\ WorkerStage(worker') = "listing"
  BY <1>1, <1>5, <1>6 DEF WorkerStage
<1>10. Reading(worker) /\ \A low \in 0 .. LastName : Passed(worker, low) => Passed(worker', low)
  BY <1>1, <1>5, <1>6 DEF Reading, Passed
<1> QED  BY <1>1, <1>2, <1>3, <1>7, <1>8, <1>9, <1>10, QuietKeeps

\* An entry that is read goes behind those before it.
LEMMA ReadEntryKeeps ==
  ASSUME NamesAssumption, SizesAssumption, IInv, ReadEntry
  PROVE  IInv'
<1> DEFINE n == Min(Ahead)
           row == [name |-> n, version |-> folder[n]]
           rows == Append(worker.batch.rows, row)
           read == [worker EXCEPT !.next = n + 1, !.count = @ + 1]
           b == [NewBatch EXCEPT !.change = worker.change, !.rows = rows]
<1>1. /\ worker.at = "scan" /\ Ahead # {} /\ (worker.count > 0 \/ there = "there")
      /\ UNCHANGED <<folder, there, kind, kernel, list, changes, faults>>
      /\ IF Len(rows) < BatchRows
         THEN worker' = [read EXCEPT !.batch.rows = rows] /\ UNCHANGED results
         ELSE Publish(b) /\ worker' = [read EXCEPT !.batch.rows = <<>>]
  BY DEF ReadEntry, bounds
<1>2. n \in Names /\ n >= worker.next /\ folder[n] # 0
  <2>1. Ahead \in SUBSET Nat
    BY DEF Ahead, Names
  <2>2. PICK x \in Ahead : \A y \in Ahead : x <= y
    BY <1>1, <2>1, Least
  <2>3. n \in Ahead
    BY <2>2 DEF Min
  <2> HIDE DEF n
  <2> QED  BY <2>3 DEF Ahead
<1>3. /\ WorkerFits(worker) /\ worker \in WorkerState /\ faults \in Nat /\ KernelOK
      /\ folder \in [Names -> 0 .. MaxChanges + 1]
  BY DEF IInv, TypeInv, WorkerOK, WorkerFits
<1> HIDE DEF n
<1>4. row \in Row
  <2>1. folder[n] \in 0 .. MaxChanges + 1 /\ folder[n] # 0
    BY <1>2, <1>3
  <2>2. folder[n] \in Version
    BY <2>1 DEF Version
  <2> QED  BY <1>2, <2>2 DEF Row
<1>5. /\ worker.batch \in Batch /\ worker.batch.rows \in Seq(Row) /\ worker.change \in {"none", "rescan"}
      /\ worker.next \in 1 .. LastName + 1 /\ worker.count \in Nat
  BY <1>3 DEF WorkerState, Batch
<1>6. /\ rows \in Seq(Row) /\ Len(rows) = Len(worker.batch.rows) + 1
      /\ \A i \in 1 .. Len(worker.batch.rows) : rows[i] = worker.batch.rows[i]
      /\ rows[Len(rows)] = row /\ DOMAIN rows = 1 .. Len(rows)
      /\ DOMAIN worker.batch.rows = 1 .. Len(worker.batch.rows) /\ Len(worker.batch.rows) \in Nat
  <2> DEFINE old == worker.batch.rows
  <2> HIDE DEF old, row
  <2>1. old \in Seq(Row)
    BY <1>5 DEF old
  <2>2. /\ Append(old, row) \in Seq(Row) /\ Len(Append(old, row)) = Len(old) + 1
        /\ \A i \in 1 .. Len(old) : Append(old, row)[i] = old[i]
        /\ Append(old, row)[Len(old) + 1] = row /\ DOMAIN Append(old, row) = 1 .. Len(old) + 1
        /\ DOMAIN old = 1 .. Len(old) /\ Len(old) \in Nat
    BY <1>4, <2>1
  <2> QED  BY <2>2 DEF old
<1>7. Len(worker.batch.rows) < BatchRows /\ worker.batch.removed = {} /\ Cardinality({}) = 0
  BY <1>1, <1>3, FS_EmptySet DEF WorkerFits
<1>8. n \in 1 .. LastName /\ n \in 0 .. LastName /\ n + 1 \in 1 .. LastName + 1 /\ (n + 1) - 1 = n /\ worker.next - 1 < n
  BY <1>2, <1>5, NamesAssumption DEF Names
<1>9. \A low \in 0 .. LastName : Passed(worker, low) => low <= n /\ AscendsFrom(rows, low, n)
  <2> SUFFICES ASSUME NEW low \in 0 .. LastName, Passed(worker, low)
               PROVE  low <= n /\ AscendsFrom(rows, low, n)
    OBVIOUS
  <2> DEFINE old == worker.batch.rows
             last == worker.next - 1
             k == Len(old)
  <2>1. low <= last /\ AscendsFrom(old, low, last) /\ last \in Int /\ last < n
    BY <1>5, <1>8 DEF Passed
  <2>2. low < n /\ low <= n
    BY <1>8, <2>1
  <2>3. \A i \in 1 .. k : low < old[i].name /\ old[i].name <= last /\ old[i].name \in Int
    <3>1. \A i \in 1 .. k : old[i] \in Row
      BY <1>5
    <3>2. \A i \in 1 .. k : old[i].name \in Int
      BY <3>1 DEF Row, Names
    <3> QED  BY <1>6, <2>1, <3>2 DEF AscendsFrom
  <2>4. \A i, j \in 1 .. k : i < j => old[i].name < old[j].name
    BY <1>6, <2>1 DEF AscendsFrom
  <2>5. k \in Nat /\ Len(rows) = k + 1 /\ rows[k + 1].name = n /\ \A i \in 1 .. k : rows[i] = old[i]
    BY <1>6
  <2> HIDE DEF old, k, last, row, rows
  <2>6. \A i \in 1 .. k + 1 : i \in 1 .. k \/ i = k + 1
    BY <2>5
  <2>7. \A i \in 1 .. k : low < rows[i].name /\ rows[i].name <= n /\ rows[i].name < n
    BY <1>8, <2>1, <2>3, <2>5
  <2>8. \A i \in 1 .. k + 1 : low < rows[i].name /\ rows[i].name <= n
    BY <1>8, <2>2, <2>5, <2>6, <2>7
  <2>9. \A i, j \in 1 .. k + 1 : i < j => rows[i].name < rows[j].name
    <3> TAKE i, j \in 1 .. k + 1
    <3> HAVE i < j
    <3>1. i \in 1 .. k
      BY <2>5
    <3>2. CASE j \in 1 .. k
      BY <2>4, <2>5, <3>1, <3>2
    <3>3. CASE j = k + 1
      BY <2>5, <2>7, <3>1, <3>3
    <3> QED  BY <2>6, <3>2, <3>3
  <2> QED  BY <1>6, <2>2, <2>5, <2>8, <2>9 DEF AscendsFrom
<1> HIDE DEF row, rows
<1>10. /\ read \in WorkerState /\ read.at = "scan" /\ read.change = worker.change /\ read.batch = worker.batch
       /\ read.next = n + 1
  <2> DEFINE next == n + 1
             count == worker.count + 1
  <2>1. next \in 1 .. LastName + 1 /\ count \in Nat
    BY <1>5, <1>8
  <2>2. read = [worker EXCEPT !.next = next, !.count = count]
    OBVIOUS
  <2> HIDE DEF next, count, read
  <2>3. /\ read \in WorkerState /\ read.at = "scan" /\ read.change = worker.change /\ read.batch = worker.batch
        /\ read.next = next
    BY <1>1, <1>3, <2>1, <2>2 DEF WorkerState
  <2> QED  BY <2>3 DEF next
<1> HIDE DEF read
<1>11. \A s \in Seq(Row) : LET w == [read EXCEPT !.batch.rows = s] IN
         /\ w \in WorkerState /\ w.at = "scan" /\ w.change = worker.change /\ w.batch.rows = s
         /\ w.batch.removed = {} /\ w.next = n + 1
  BY <1>5, <1>7, <1>10 DEF WorkerState, Batch
<1>12. Reasons'
  <2>1. worker'.at = "scan"
    <3>1. <<>> \in Seq(Row)
      BY EmptySeq
    <3>2. PICK s \in Seq(Row) : worker' = [read EXCEPT !.batch.rows = s]
      BY <1>1, <1>6, <3>1
    <3> QED  BY <1>11, <3>2
  <2>2. NotWhileGivingUp => ~(faults = 0 /\ ~kernel.open)
    BY <1>1, <1>5 DEF IInv, Reasons
  <2> QED  BY <1>1, <2>1, <2>2 DEF IInv, Reasons
<1>13. KernelOK' /\ faults' \in Nat /\ faults <= faults'
  BY <1>1, <1>3 DEF KernelOK
<1>14. CASE Len(rows) < BatchRows
  <2>1. /\ worker' \in WorkerState /\ worker'.at = "scan" /\ worker'.change = worker.change /\ worker'.batch.rows = rows
        /\ worker'.batch.removed = {} /\ worker'.next = n + 1 /\ results' = results
    <3>1. worker' = [read EXCEPT !.batch.rows = rows] /\ results' = results
      BY <1>1, <1>14
    <3> QED  BY <1>6, <1>11, <3>1
  <2>2. WorkerFits(worker')
    <3>1. Len(rows) + 0 <= BatchRows
      BY <1>6, <1>14, SizesAssumption
    <3> QED  BY <1>7, <1>14, <2>1, <3>1 DEF WorkerFits
  <2>3. WorkerStage(worker') = WorkerStage(worker)
    BY <1>1, <2>1 DEF WorkerStage
  <2>4. Reading(worker') =>
           Reading(worker) /\ \A low \in 0 .. LastName : Passed(worker, low) => Passed(worker', low)
    BY <1>1, <1>8, <1>9, <2>1 DEF Reading, Passed
  <2> QED  BY <1>1, <1>12, <1>13, <2>1, <2>2, <2>3, <2>4, QuietKeeps
<1>15. CASE ~(Len(rows) < BatchRows)
  <2>1. /\ <<>> \in Seq(Row) /\ Len(<<>>) = 0 /\ DOMAIN <<>> = {}
    BY EmptySeq
  <2>2. /\ worker' \in WorkerState /\ worker'.at = "scan" /\ worker'.change = worker.change /\ worker'.batch.rows = <<>>
        /\ worker'.batch.removed = {} /\ worker'.next = n + 1 /\ Publish(b)
    <3>1. worker' = [read EXCEPT !.batch.rows = <<>>] /\ Publish(b)
      BY <1>1, <1>15
    <3> QED  BY <1>11, <2>1, <3>1
  <2>3. WorkerFits(worker')
    <3>1. 0 + 0 <= BatchRows /\ 0 < BatchRows
      BY SizesAssumption
    <3> QED  BY <1>7, <2>1, <2>2, <3>1 DEF WorkerFits
  <2>4. /\ b \in Batch /\ b.change = worker.change /\ b.rows = rows /\ b.phase = "loading" /\ b.removed = {}
    <3>1. NewBatch \in Batch /\ NewBatch.removed = {} /\ NewBatch.phase = "loading"
      BY AskedIs DEF NewBatch
    <3> QED  BY <1>5, <1>6, <3>1 DEF Batch, Changes
  <2> HIDE DEF b
  <2>5. BatchOK(b)
    <3>1. Len(rows) <= BatchRows /\ 0 <= BatchRows
      BY <1>6, <1>7, SizesAssumption
    <3> QED  BY <1>7, <2>4, <3>1 DEF BatchOK
  <2> DEFINE t == WorkerStage(worker')
  <2>6. t \in Stages /\ Moves(WorkerStage(worker), b, t)
    <3>1. CASE worker.change = "none"
      <4>1. WorkerStage(worker) = "listing" /\ t = "listing"
        BY <1>1, <2>2, <3>1 DEF WorkerStage
      <4> QED  BY <2>4, <3>1, <4>1 DEF Stages, Moves
    <3>2. CASE worker.change = "rescan"
      <4>1. WorkerStage(worker) = "rescanning" /\ t = "rescanning"
        BY <1>1, <2>2, <3>2 DEF WorkerStage
      <4> QED  BY <2>4, <3>2, <4>1 DEF Stages, Moves
    <3> QED  BY <1>5, <3>1, <3>2
  <2>7. b.change = "none" =>
           /\ Reading(worker)
           /\ \A low \in 0 .. LastName : Passed(worker, low) => low <= n /\ AscendsFrom(b.rows, low, n)
    BY <1>1, <1>9, <2>4 DEF Reading
  <2>8. Reading(worker') => b.change = "none" /\ Passed(worker', n)
    <3>1. AscendsFrom(<<>>, n, n)
      BY <2>1 DEF AscendsFrom
    <3> QED  BY <1>8, <2>2, <2>4, <3>1 DEF Reading, Passed
  <2> HIDE DEF t
  <2>9. t = WorkerStage(worker') /\ worker.at # "ended"
    BY <1>1 DEF t
  <2> QED  BY <1>1, <1>8, <1>12, <1>13, <2>2, <2>3, <2>5, <2>6, <2>7, <2>8, <2>9, PublishKeeps
<1> QED  BY <1>14, <1>15

\* What a batch without rows is.
LEMMA NoteIs ==
  ASSUME SizesAssumption, NamesAssumption, NEW change \in Changes, NEW phase \in Phases \ {"limited"}
  PROVE  LET b == [NewBatch EXCEPT !.change = change, !.phase = phase] IN
         BatchOK(b) /\ b.change = change /\ b.phase = phase
<1> DEFINE b == [NewBatch EXCEPT !.change = change, !.phase = phase]
<1>1. /\ NewBatch \in Batch /\ NewBatch.rows = <<>> /\ NewBatch.removed = {}
      /\ Len(<<>>) = 0 /\ Cardinality({}) = 0
  BY AskedIs
<1>2. b \in Batch /\ b.change = change /\ b.phase = phase /\ b.rows = <<>> /\ b.removed = {}
  BY <1>1 DEF Batch
<1> HIDE DEF b
<1>3. 0 <= BatchRows
  BY SizesAssumption
<1> QED  BY <1>1, <1>2, <1>3 DEF BatchOK, b

\* The enumeration ends, for whatever reason.
LEMMA EndReadKeeps ==
  ASSUME NamesAssumption, SizesAssumption, IInv, EndRead
  PROVE  IInv'
<1>1. /\ worker.at = "scan"
      /\ UNCHANGED <<folder, there, kind, kernel, list, changes>>
  BY DEF EndRead
<1>2. PICK failed \in {~(worker.count > 0 \/ there = "there")} \cup (IF MayFail THEN {TRUE} ELSE {}) :
       LET phase == IF failed THEN "error" ELSE IF worker.count > 0 THEN "complete" ELSE "empty"
       IN /\ ~failed => Ahead = {}
          /\ Publish([NewBatch EXCEPT !.change = worker.change, !.rows = worker.batch.rows, !.phase = phase])
          /\ worker' = [worker EXCEPT !.at = After(phase), !.batch = NewBatch]
          /\ faults' = IF failed /\ there = "there" THEN faults + 1 ELSE faults
  BY DEF EndRead
<1> DEFINE phase == IF failed THEN "error" ELSE IF worker.count > 0 THEN "complete" ELSE "empty"
           b == [NewBatch EXCEPT !.change = worker.change, !.rows = worker.batch.rows, !.phase = phase]
           at == After(phase)
<1>3. Publish(b) /\ worker' = [worker EXCEPT !.at = at, !.batch = NewBatch]
  BY <1>2
<1>4. /\ WorkerFits(worker) /\ worker \in WorkerState /\ faults \in Nat /\ KernelOK
      /\ kind \in {"directory", "namespace"} /\ (kind = "namespace" => there = "there")
  BY DEF IInv, TypeInv, WorkerOK, WorkerFits
<1>5. failed \in BOOLEAN /\ (~failed => worker.count > 0 \/ there = "there")
  BY <1>2
<1>6. /\ phase \in {"error", "complete", "empty"} /\ (phase = "error" <=> failed)
  OBVIOUS
<1>7. /\ worker.batch \in Batch /\ worker.batch.rows \in Seq(Row) /\ worker.change \in {"none", "rescan"}
      /\ worker.next \in 1 .. LastName + 1 /\ worker.count \in Nat
      /\ Len(worker.batch.rows) < BatchRows /\ worker.batch.removed = {} /\ Cardinality({}) = 0
  BY <1>1, <1>4, FS_EmptySet DEF WorkerFits, WorkerState, Batch
<1>8. /\ at \in {"ended", "idle", "listed"}
      /\ at = "ended" => failed /\ kind = "directory"
      /\ at = "idle" => worker.change = "rescan"
      /\ at = "listed" => worker.change = "none"
      /\ failed => at = "ended" \/ kind = "namespace"
      /\ ~failed => at = IF worker.change = "rescan" THEN "idle" ELSE "listed"
  BY <1>4, <1>6, <1>7 DEF After
<1>9. faults' \in Nat /\ faults <= faults' /\ (failed /\ there = "there" => faults' > 0)
  BY <1>2, <1>4
<1>10. b \in Batch /\ b.change = worker.change /\ b.phase = phase /\ b.rows = worker.batch.rows /\ b.removed = {}
  <2>1. NewBatch \in Batch /\ NewBatch.removed = {}
    BY AskedIs
  <2> HIDE DEF phase
  <2> QED  BY <1>6, <1>7, <2>1 DEF Batch, Changes, Phases
<1> HIDE DEF phase, b, at
<1>11. BatchOK(b)
  <2>1. Len(worker.batch.rows) <= BatchRows /\ 0 <= BatchRows
    BY <1>7, SizesAssumption
  <2> QED  BY <1>7, <1>10, <2>1 DEF BatchOK
<1>12. /\ worker' \in WorkerState /\ worker'.at = at /\ worker'.batch = NewBatch /\ worker'.change = worker.change
  <2>1. at \in Places /\ NewBatch \in Batch
    BY <1>8, AskedIs DEF Places
  <2> QED  BY <1>3, <1>4, <2>1 DEF WorkerState
<1>13. WorkerFits(worker')
  <2>1. NewBatch.rows = <<>> /\ NewBatch.removed = {} /\ Len(<<>>) = 0
    BY AskedIs
  <2>2. 0 + 0 <= BatchRows
    BY SizesAssumption
  <2> QED  BY <1>7, <1>8, <1>12, <2>1, <2>2 DEF WorkerFits
<1>14. KernelOK'
  BY <1>1, <1>4 DEF KernelOK
<1>15. Reasons'
  <2>1. worker'.at = "ended" /\ faults' = 0 => there # "there"
    BY <1>8, <1>9, <1>12
  <2>2. NotWhileGivingUp /\ faults' = 0 /\ ~kernel.open => worker'.at = "ended"
    <3>1. SUFFICES ASSUME NotWhileGivingUp, faults' = 0, ~kernel.open
                   PROVE  at = "ended"
      BY <1>12
    <3>2. there # "there" /\ worker.count = 0
      BY <1>1, <1>4, <1>9, <3>1 DEF IInv, Reasons
    <3>3. failed
      BY <1>5, <3>2
    <3> QED  BY <1>4, <1>8, <3>2, <3>3
  <2>3. worker'.at \notin {"lose", "scan", "look", "probe"}
    BY <1>8, <1>12
  <2> QED  BY <1>1, <2>1, <2>2, <2>3 DEF Reasons
<1> DEFINE t == IF failed THEN "over" ELSE WorkerStage(worker')
<1>16. /\ t \in Stages /\ Moves(WorkerStage(worker), b, t)
       /\ t = WorkerStage(worker') \/ (t = "over" /\ (faults' > 0 \/ worker'.at = "ended"))
  <2>1. WorkerStage(worker) = IF worker.change = "none" THEN "listing" ELSE "rescanning"
    BY <1>1 DEF WorkerStage
  <2>2. CASE failed
    <3>1. b.phase = "error"
      BY <1>6, <1>10, <2>2
    <3>2. faults' > 0 \/ worker'.at = "ended"
      BY <1>4, <1>8, <1>9, <1>12, <2>2
    <3>3. t = "over"
      BY <2>2
    <3>4. Moves(WorkerStage(worker), b, "over")
      BY <1>7, <1>10, <2>1, <3>1 DEF Moves
    <3> QED  BY <3>2, <3>3, <3>4 DEF Stages
  <2>3. CASE ~failed
    <3>1. b.phase \in {"complete", "empty"}
      BY <1>6, <1>10, <2>3
    <3>2. t = IF worker.change = "none" THEN "listed" ELSE "following"
      BY <1>7, <1>8, <1>12, <2>3 DEF WorkerStage
    <3>3. Moves(WorkerStage(worker), b, t)
      BY <1>7, <1>10, <2>1, <3>1, <3>2 DEF Moves
    <3> QED  BY <2>3, <3>2, <3>3 DEF Stages
  <2> QED  BY <2>2, <2>3
<1> DEFINE high == worker.next - 1
<1>17. high \in 0 .. LastName
  BY <1>7, NamesAssumption
<1>18. b.change = "none" =>
         /\ Reading(worker)
         /\ \A low \in 0 .. LastName : Passed(worker, low) => low <= high /\ AscendsFrom(b.rows, low, high)
  BY <1>1, <1>10 DEF Reading, Passed
<1>19. ~Reading(worker')
  BY <1>8, <1>12 DEF Reading
<1> HIDE DEF t, high
<1> QED  BY <1>1, <1>3, <1>9, <1>11, <1>13, <1>14, <1>15, <1>16, <1>17, <1>18, <1>19, PublishKeeps

\* A listing that is over is followed by a watch, or by its absence.
LEMMA ListedKeeps ==
  ASSUME NamesAssumption, SizesAssumption, IInv, Listed
  PROVE  IInv'
<1>1. /\ worker.at = "listed" /\ UNCHANGED <<folder, there, kind, list, changes, faults>>
  BY DEF Listed, bounds
<1>2. /\ WorkerFits(worker) /\ worker \in WorkerState /\ faults \in Nat /\ KernelOK /\ kernel \in KernelState
      /\ kind \in {"directory", "namespace"}
  BY DEF IInv, TypeInv, WorkerOK, WorkerFits, KernelOK
<1>3. \A at \in {"idle", "ended"} : LET w == [worker EXCEPT !.at = at] IN
        WorkerFits(w) /\ w.at = at /\ ~Reading(w)
        /\ WorkerStage(w) = IF at = "idle" THEN "following" ELSE "ended"
  <2> SUFFICES ASSUME NEW at \in {"idle", "ended"}
               PROVE  LET w == [worker EXCEPT !.at = at] IN
                      WorkerFits(w) /\ w.at = at /\ ~Reading(w)
                      /\ WorkerStage(w) = IF at = "idle" THEN "following" ELSE "ended"
    OBVIOUS
  <2> DEFINE w == [worker EXCEPT !.at = at]
  <2>1. w \in WorkerState /\ w.at = at /\ w.batch = worker.batch
    BY <1>2 DEF WorkerState, Places
  <2> HIDE DEF w
  <2>2. worker.batch = NewBatch
    BY <1>1, <1>2 DEF WorkerFits
  <2>3. NewBatch.rows = <<>> /\ NewBatch.removed = {} /\ Len(<<>>) = 0 /\ Cardinality({}) = 0
    BY AskedIs
  <2>4. 0 + 0 <= BatchRows
    BY SizesAssumption
  <2>5. WorkerFits(w)
    BY <2>1, <2>2, <2>3, <2>4 DEF WorkerFits
  <2>6. ~Reading(w) /\ WorkerStage(w) = IF at = "idle" THEN "following" ELSE "ended"
    BY <2>1 DEF Reading, WorkerStage
  <2> QED  BY <2>1, <2>5, <2>6 DEF w
<1>4. WorkerStage(worker) = "listed"
  BY <1>1 DEF WorkerStage
<1>5. faults' \in Nat /\ faults <= faults'
  BY <1>1, <1>2
<1>6. 0 \in 0 .. LastName
  BY NamesAssumption
<1>7. CASE kernel.open
  <2> DEFINE b == [NewBatch EXCEPT !.change = "watching", !.phase = "complete"]
  <2>1. Publish(b) /\ worker' = [worker EXCEPT !.at = "idle"] /\ kernel' = [kernel EXCEPT !.parent = (kind = "directory")]
    BY <1>7 DEF Listed
  <2>2. BatchOK(b) /\ b.change = "watching"
    <3>1. "watching" \in Changes /\ "complete" \in Phases \ {"limited"}
      BY DEF Changes, Phases
    <3> QED  BY <3>1, NoteIs
  <2> HIDE DEF b
  <2>3. WorkerFits(worker') /\ worker'.at = "idle" /\ ~Reading(worker') /\ WorkerStage(worker') = "following"
    BY <1>3, <2>1
  <2>4. KernelOK' /\ kernel'.open
    <3> DEFINE parent == kind = "directory"
    <3>1. parent \in BOOLEAN
      OBVIOUS
    <3>2. kernel' = [kernel EXCEPT !.parent = parent]
      BY <2>1
    <3> HIDE DEF parent
    <3>3. /\ kernel' \in KernelState /\ kernel'.parent = parent /\ kernel'.records = kernel.records
          /\ kernel'.open = kernel.open /\ kernel'.away = kernel.away /\ kernel'.broken = kernel.broken
      BY <1>2, <3>1, <3>2 DEF KernelState
    <3>4. kernel.away => parent
      BY <1>2 DEF KernelOK, parent
    <3>5. parent => kind' = "directory"
      BY <1>1 DEF parent
    <3>6. there' = there
      BY <1>1
    <3> QED  BY <1>2, <1>7, <3>3, <3>4, <3>5, <3>6 DEF KernelOK
  <2>5. Reasons'
    BY <2>3, <2>4 DEF Reasons
  <2>6. "following" \in Stages /\ Moves(WorkerStage(worker), b, "following")
    BY <1>4, <2>2 DEF Stages, Moves
  <2> QED  BY <1>1, <1>5, <1>6, <2>1, <2>2, <2>3, <2>4, <2>5, <2>6, PublishKeeps
<1>8. CASE ~kernel.open
  <2> DEFINE b == [NewBatch EXCEPT !.change = "watch_error", !.phase = "complete"]
  <2>1. Publish(b) /\ worker' = [worker EXCEPT !.at = "ended"] /\ kernel' = kernel
    BY <1>8 DEF Listed
  <2>2. BatchOK(b) /\ b.change = "watch_error"
    <3>1. "watch_error" \in Changes /\ "complete" \in Phases \ {"limited"}
      BY DEF Changes, Phases
    <3> QED  BY <3>1, NoteIs
  <2> HIDE DEF b
  <2>3. WorkerFits(worker') /\ worker'.at = "ended" /\ ~Reading(worker') /\ WorkerStage(worker') = "ended"
    BY <1>3, <2>1
  <2>4. KernelOK'
    BY <1>1, <1>2, <2>1 DEF KernelOK
  <2>5. Reasons'
    <3>1. NotWhileGivingUp => faults' # 0
      BY <1>1, <1>8 DEF IInv, Reasons
    <3> QED  BY <2>3, <3>1 DEF Reasons
  <2>6. "ended" \in Stages /\ Moves(WorkerStage(worker), b, "ended")
    BY <1>4, <2>2 DEF Stages, Moves
  <2> QED  BY <1>1, <1>5, <1>6, <2>1, <2>2, <2>3, <2>4, <2>5, <2>6, PublishKeeps
<1> QED  BY <1>7, <1>8

\* A step of the watching worker that publishes nothing.
LEMMA RoundKeeps ==
  ASSUME IInv, UNCHANGED <<folder, there, kind, list, results, changes>>,
         worker.at \in {"idle", "look", "probe"}, worker'.at \in {"idle", "look", "probe", "lose"},
         worker'.at = "lose" => there # "there",
         WorkerFits(worker'), KernelOK', kernel'.open = kernel.open, faults' \in Nat, faults <= faults'
  PROVE  IInv'
<1>1. WorkerStage(worker) = "following" /\ WorkerStage(worker') = "following"
  BY DEF WorkerStage
<1>2. ~Reading(worker') /\ worker.at # "ended"
  BY DEF Reading
<1>3. Reasons'
  <2>1. faults' = 0 => faults = 0
    BY DEF IInv, TypeInv
  <2>2. NotWhileGivingUp /\ faults' = 0 => kernel'.open
    BY <2>1 DEF IInv, Reasons
  <2> QED  BY <2>2 DEF Reasons
<1> QED  BY <1>1, <1>2, <1>3, QuietKeeps

\* What the worker is while it watches.
LEMMA WatcherIs ==
  ASSUME IInv
  PROVE  /\ WorkerFits(worker) /\ worker \in WorkerState /\ faults \in Nat /\ KernelOK
         /\ worker.batch \in Batch /\ worker.names \in Seq(Names) /\ worker.old \in 0 .. LastName
         /\ worker.batch.rows \in Seq(Row) /\ worker.batch.removed \in SUBSET Names
         /\ worker.settle \in BOOLEAN
         /\ folder \in [Names -> 0 .. MaxChanges + 1]
BY DEF IInv, TypeInv, WorkerOK, WorkerFits, WorkerState, Batch

\* The place changes, and nothing else.
LEMMA MovedIs ==
  ASSUME WorkerFits(worker), NEW at \in {"probe", "lose", "ended"}
  PROVE  LET w == [worker EXCEPT !.at = at] IN WorkerFits(w) /\ w.at = at
<1> DEFINE w == [worker EXCEPT !.at = at]
<1>1. w \in WorkerState /\ w.at = at /\ w.batch = worker.batch
  BY DEF WorkerFits, WorkerState, Places
<1> HIDE DEF w
<1>2. WorkerFits(w)
  BY <1>1 DEF WorkerFits
<1> QED  BY <1>1, <1>2 DEF w

\* The idle wait of enumerate_and_watch ends.
LEMMA WakeKeeps ==
  ASSUME NamesAssumption, SizesAssumption, IInv, Wake
  PROVE  IInv'
<1>1. /\ worker.at = "idle" /\ UNCHANGED <<folder, there, kind, list, results, changes, faults>>
  BY DEF Wake, bounds
<1>2. PICK k \in Completions :
       LET d == Decoded(SubSeq(kernel.records, 1, k), worker.old)
           detail == ~worker.settle /\ ~kernel.over /\ ~d.rescan /\ ~TooMany(d)
       IN /\ kernel' = Drained(k)
          /\ worker' = IF detail
               THEN [worker EXCEPT !.at = "look", !.names = d.names, !.old = d.old,
                                   !.batch = [NewBatch EXCEPT !.change = "delta", !.phase = "complete",
                                                              !.renamed = d.renamed]]
               ELSE [worker EXCEPT !.settle = TRUE, !.old = 0]
  BY DEF Wake
<1>3. /\ WorkerFits(worker) /\ worker \in WorkerState /\ faults \in Nat /\ KernelOK /\ worker.old \in 0 .. LastName
  BY WatcherIs
<1>4. /\ kernel' \in KernelState /\ Len(kernel'.records) <= KernelRecords
      /\ kernel'.open = kernel.open /\ kernel'.parent = kernel.parent /\ kernel'.away = kernel.away
      /\ kernel'.broken = kernel.broken
      /\ SubSeq(kernel.records, 1, k) \in Seq(Record)
  <2>1. kernel' = Drained(k)
    BY <1>2
  <2> QED  BY <1>3, <2>1, DrainedIs
<1>5. KernelOK'
  BY <1>1, <1>3, <1>4 DEF KernelOK
<1> DEFINE d == Decoded(SubSeq(kernel.records, 1, k), worker.old)
           b == [NewBatch EXCEPT !.change = "delta", !.phase = "complete", !.renamed = d.renamed]
<1>6. d \in Details
  BY <1>3, <1>4, DecodedIs
<1>7. \/ ~TooMany(d) /\ worker' = [worker EXCEPT !.at = "look", !.names = d.names, !.old = d.old, !.batch = b]
      \/ worker' = [worker EXCEPT !.settle = TRUE, !.old = 0]
  BY <1>2
<1> HIDE DEF d
<1>8. /\ d.names \in Seq(Names) /\ d.renamed \in Seq(Names \X Names) /\ d.old \in 0 .. LastName /\ Len(d.names) \in Nat
  BY <1>6 DEF Details
<1>9. NewBatch \in Batch /\ NewBatch.rows = <<>> /\ NewBatch.removed = {} /\ Len(<<>>) = 0 /\ Cardinality({}) = 0
  BY AskedIs
<1>10. CASE ~TooMany(d) /\ worker' = [worker EXCEPT !.at = "look", !.names = d.names, !.old = d.old, !.batch = b]
  <2>1. b \in Batch /\ b.change = "delta" /\ b.rows = <<>> /\ b.removed = {}
    BY <1>8, <1>9 DEF Batch, Changes, Phases
  <2> HIDE DEF b
  <2>2. worker' \in WorkerState /\ worker'.at = "look" /\ worker'.names = d.names /\ worker'.batch = b
    BY <1>3, <1>8, <1>10, <2>1 DEF WorkerState, Places
  <2>3. 0 + 0 + Len(d.names) <= BatchRows /\ 0 + 0 <= BatchRows
    BY <1>8, <1>10, SizesAssumption DEF TooMany
  <2>4. WorkerFits(worker')
    BY <1>9, <2>1, <2>2, <2>3 DEF WorkerFits
  <2>5. faults' \in Nat /\ faults <= faults'
    BY <1>1, <1>3
  <2> QED  BY <1>1, <1>4, <1>5, <2>2, <2>4, <2>5, RoundKeeps
<1>11. CASE worker' = [worker EXCEPT !.settle = TRUE, !.old = 0]
  <2>1. 0 \in 0 .. LastName
    BY NamesAssumption
  <2>2. worker' \in WorkerState /\ worker'.at = "idle" /\ worker'.batch = worker.batch
    BY <1>1, <1>3, <1>11, <2>1 DEF WorkerState
  <2>3. WorkerFits(worker')
    BY <1>1, <1>3, <2>2 DEF WorkerFits
  <2>4. faults' \in Nat /\ faults <= faults'
    BY <1>1, <1>3
  <2> QED  BY <1>1, <1>4, <1>5, <2>2, <2>3, <2>4, RoundKeeps
<1> QED  BY <1>7, <1>10, <1>11

\* The idle wait of watch_shell_namespace ends.
LEMMA WakeNamespaceKeeps ==
  ASSUME SizesAssumption, IInv, WakeNamespace
  PROVE  IInv'
<1>1. /\ worker.at = "idle" /\ UNCHANGED <<folder, there, kind, list, results, changes, faults>>
      /\ worker' = [worker EXCEPT !.settle = TRUE]
  BY DEF WakeNamespace, bounds
<1>2. PICK k \in Completions : kernel' = Drained(k)
  BY DEF WakeNamespace
<1>3. /\ WorkerFits(worker) /\ worker \in WorkerState /\ faults \in Nat /\ KernelOK
  BY WatcherIs
<1>4. /\ kernel' \in KernelState /\ Len(kernel'.records) <= KernelRecords
      /\ kernel'.open = kernel.open /\ kernel'.parent = kernel.parent /\ kernel'.away = kernel.away
      /\ kernel'.broken = kernel.broken
  BY <1>2, <1>3, DrainedIs
<1>5. KernelOK'
  BY <1>1, <1>3, <1>4 DEF KernelOK
<1>6. worker' \in WorkerState /\ worker'.at = "idle" /\ worker'.batch = worker.batch
  BY <1>1, <1>3 DEF WorkerState
<1>7. WorkerFits(worker')
  BY <1>1, <1>3, <1>6 DEF WorkerFits
<1>8. faults' \in Nat /\ faults <= faults'
  BY <1>1, <1>3
<1> QED  BY <1>1, <1>4, <1>5, <1>6, <1>7, <1>8, RoundKeeps

\* A name less to look up is a row or a removal more.
LEMMA NotMore ==
  ASSUME NEW m \in Nat, NEW a \in Nat, NEW b \in Nat, NEW c \in Nat, NEW x \in Nat, NEW y \in Nat,
         a + b + c <= m, c > 0, x + y <= a + b + 1
  PROVE  x + y + (c - 1) <= m /\ x + y <= m
OBVIOUS

\* A name of a record is looked up.
LEMMA LookUpKeeps ==
  ASSUME NamesAssumption, SizesAssumption, IInv, LookUp
  PROVE  IInv'
<1> DEFINE n == Head(worker.names)
           tail == Tail(worker.names)
           rest == [worker EXCEPT !.names = Tail(@)]
           row == [name |-> n, version |-> folder[n]]
<1>1. /\ worker.at = "look" /\ worker.names # <<>>
      /\ UNCHANGED <<folder, there, kind, kernel, list, results, changes>>
      /\ \/ worker' = [worker EXCEPT !.at = "probe"] /\ faults' = faults
         \/ /\ folder[n] = 0 /\ worker' = [rest EXCEPT !.batch.removed = @ \cup {n}] /\ faults' = faults
         \/ /\ folder[n] # 0 /\ worker' = [rest EXCEPT !.batch.rows = Append(@, row)] /\ faults' = faults
         \/ faults' = faults + 1 /\ worker' = Resumed(TRUE)
  BY DEF LookUp
<1>2. /\ WorkerFits(worker) /\ worker \in WorkerState /\ faults \in Nat /\ KernelOK
      /\ worker.batch \in Batch /\ worker.names \in Seq(Names)
      /\ worker.batch.rows \in Seq(Row) /\ worker.batch.removed \in SUBSET Names
      /\ folder \in [Names -> 0 .. MaxChanges + 1]
  BY WatcherIs
<1>3. KernelOK' /\ kernel'.open = kernel.open
  BY <1>1, <1>2 DEF KernelOK
<1>4. /\ n \in Names /\ tail \in Seq(Names) /\ Len(tail) = Len(worker.names) - 1 /\ Len(worker.names) \in Nat
      /\ Len(worker.names) > 0
  BY <1>1, <1>2
<1> HIDE DEF n, tail, row
<1>5. rest \in WorkerState /\ rest.at = "look" /\ rest.batch = worker.batch /\ rest.names = tail
  BY <1>1, <1>2, <1>4 DEF WorkerState, tail
<1> HIDE DEF rest
<1> DEFINE rows == worker.batch.rows
           removed == worker.batch.removed
<1>6. /\ Len(rows) + Cardinality(removed) + Len(worker.names) <= BatchRows /\ worker.batch.change = "delta"
      /\ Len(rows) \in Nat /\ Cardinality(removed) \in Nat /\ IsFiniteSet(removed)
  <2>1. IsFiniteSet(removed)
    <3>1. IsFiniteSet(Names)
      BY NamesAssumption, FS_Interval DEF Names
    <3> QED  BY <1>2, <3>1, FS_Subset
  <2>2. Cardinality(removed) \in Nat
    BY <2>1, FS_CardinalityType
  <2>3. Len(rows) \in Nat
    BY <1>2
  <2> QED  BY <1>1, <1>2, <2>1, <2>2, <2>3 DEF WorkerFits
<1>7. CASE worker' = [worker EXCEPT !.at = "probe"] /\ faults' = faults
  <2>1. WorkerFits(worker') /\ worker'.at = "probe"
    BY <1>2, <1>7, MovedIs
  <2>2. faults' \in Nat /\ faults <= faults'
    BY <1>2, <1>7
  <2> QED  BY <1>1, <1>3, <2>1, <2>2, RoundKeeps
<1>8. CASE worker' = [rest EXCEPT !.batch.removed = @ \cup {n}] /\ faults' = faults
  <2> DEFINE more == removed \cup {n}
  <2>1. more \in SUBSET Names /\ Cardinality(more) \in Nat /\ Cardinality(more) <= Cardinality(removed) + 1
    <3>1. IsFiniteSet(more) /\ Cardinality(more) = IF n \in removed THEN Cardinality(removed) ELSE Cardinality(removed) + 1
      BY <1>6, FS_AddElement
    <3>2. more \in SUBSET Names
      BY <1>2, <1>4
    <3> QED  BY <1>6, <3>1, <3>2
  <2>2. worker' = [rest EXCEPT !.batch = [worker.batch EXCEPT !.removed = more]]
    BY <1>5, <1>8
  <2> HIDE DEF more
  <2>3. /\ worker' \in WorkerState /\ worker'.at = "look" /\ worker'.names = tail /\ worker'.batch.rows = rows
        /\ worker'.batch.removed = more /\ worker'.batch.change = worker.batch.change
    <3> DEFINE c == [worker.batch EXCEPT !.removed = more]
    <3>1. c \in Batch /\ c.rows = rows /\ c.removed = more /\ c.change = worker.batch.change
      BY <1>2, <2>1 DEF Batch
    <3>2. worker' = [rest EXCEPT !.batch = c]
      BY <2>2
    <3> HIDE DEF c
    <3>3. worker' \in WorkerState /\ worker'.at = "look" /\ worker'.names = tail /\ worker'.batch = c
      BY <1>5, <3>1, <3>2 DEF WorkerState
    <3> QED  BY <3>1, <3>3
  <2>4. WorkerFits(worker')
    <3>1. Len(rows) + Cardinality(more) + Len(tail) <= BatchRows /\ Len(rows) + Cardinality(more) <= BatchRows
      <4> DEFINE a == Len(rows)
                 b == Cardinality(removed)
                 c == Len(worker.names)
                 x == Len(rows)
                 y == Cardinality(more)
      <4>1. a \in Nat /\ b \in Nat /\ c \in Nat /\ x \in Nat /\ y \in Nat /\ BatchRows \in Nat
            /\ a + b + c <= BatchRows /\ c > 0 /\ Len(tail) = c - 1
        BY <1>4, <1>6, <2>1, SizesAssumption
      <4>2. y <= b + 1 /\ x = a
        BY <2>1
      <4> HIDE DEF a, b, c, x, y
      <4>3. x + y <= a + b + 1
        BY <4>1, <4>2
      <4>4. x + y + (c - 1) <= BatchRows /\ x + y <= BatchRows
        BY <4>1, <4>3, NotMore
      <4> QED  BY <4>1, <4>4 DEF x, y
    <3> HIDE DEF rows, removed
    <3> QED  BY <1>6, <2>3, <3>1 DEF WorkerFits
  <2>5. faults' \in Nat /\ faults <= faults'
    BY <1>2, <1>8
  <2> QED  BY <1>1, <1>3, <2>3, <2>4, <2>5, RoundKeeps
<1>9. CASE folder[n] # 0 /\ worker' = [rest EXCEPT !.batch.rows = Append(@, row)] /\ faults' = faults
  <2> DEFINE more == Append(rows, row)
  <2>1. row \in Row
    <3>1. folder[n] \in 0 .. MaxChanges + 1 /\ folder[n] # 0
      BY <1>2, <1>4, <1>9
    <3>2. folder[n] \in Version
      BY <3>1 DEF Version
    <3> QED  BY <1>4, <3>2 DEF Row, row
  <2>2. more \in Seq(Row) /\ Len(more) = Len(rows) + 1
    <3> HIDE DEF rows
    <3>1. rows \in Seq(Row)
      BY <1>2 DEF rows
    <3> QED  BY <2>1, <3>1
  <2>3. worker' = [rest EXCEPT !.batch = [worker.batch EXCEPT !.rows = more]]
    BY <1>5, <1>9
  <2> HIDE DEF more
  <2>4. /\ worker' \in WorkerState /\ worker'.at = "look" /\ worker'.names = tail /\ worker'.batch.rows = more
        /\ worker'.batch.removed = removed /\ worker'.batch.change = worker.batch.change
    <3> DEFINE c == [worker.batch EXCEPT !.rows = more]
    <3>1. c \in Batch /\ c.rows = more /\ c.removed = removed /\ c.change = worker.batch.change
      BY <1>2, <2>2 DEF Batch
    <3>2. worker' = [rest EXCEPT !.batch = c]
      BY <2>3
    <3> HIDE DEF c
    <3>3. worker' \in WorkerState /\ worker'.at = "look" /\ worker'.names = tail /\ worker'.batch = c
      BY <1>5, <3>1, <3>2 DEF WorkerState
    <3> QED  BY <3>1, <3>3
  <2>5. WorkerFits(worker')
    <3>1. Len(more) + Cardinality(removed) + Len(tail) <= BatchRows /\ Len(more) + Cardinality(removed) <= BatchRows
      <4> DEFINE a == Len(rows)
                 b == Cardinality(removed)
                 c == Len(worker.names)
                 x == Len(more)
                 y == Cardinality(removed)
      <4>1. a \in Nat /\ b \in Nat /\ c \in Nat /\ x \in Nat /\ y \in Nat /\ BatchRows \in Nat
            /\ a + b + c <= BatchRows /\ c > 0 /\ Len(tail) = c - 1
        BY <1>4, <1>6, <2>2, SizesAssumption
      <4>2. x = a + 1 /\ y = b
        BY <2>2
      <4> HIDE DEF a, b, c, x, y
      <4>3. x + y <= a + b + 1
        BY <4>1, <4>2
      <4>4. x + y + (c - 1) <= BatchRows /\ x + y <= BatchRows
        BY <4>1, <4>3, NotMore
      <4> QED  BY <4>1, <4>4 DEF x, y
    <3> HIDE DEF rows, removed
    <3> QED  BY <1>6, <2>4, <3>1 DEF WorkerFits
  <2>6. faults' \in Nat /\ faults <= faults'
    BY <1>2, <1>9
  <2> QED  BY <1>1, <1>3, <2>4, <2>5, <2>6, RoundKeeps
<1>10. CASE faults' = faults + 1 /\ worker' = Resumed(TRUE)
  <2>1. WorkerFits(worker') /\ worker'.at = "idle"
    BY <1>2, <1>10, ResumedIs
  <2>2. faults' \in Nat /\ faults <= faults'
    BY <1>2, <1>10
  <2> QED  BY <1>1, <1>3, <2>1, <2>2, RoundKeeps
<1> QED  BY <1>1, <1>7, <1>8, <1>9, <1>10

\* A delta is published.
LEMMA DeliverKeeps ==
  ASSUME NamesAssumption, SizesAssumption, IInv, Deliver
  PROVE  IInv'
<1>1. /\ worker.at = "look" /\ UNCHANGED <<folder, there, kind, kernel, list, changes, faults>>
      /\ worker' = Resumed(FALSE) /\ (Publish(worker.batch) \/ results' = results)
  BY DEF Deliver, bounds
<1>2. /\ WorkerFits(worker) /\ faults \in Nat /\ KernelOK /\ worker.batch \in Batch
      /\ worker.batch.removed \in SUBSET Names /\ worker.batch.rows \in Seq(Row)
  BY WatcherIs
<1>3. WorkerFits(worker') /\ worker'.at = "idle" /\ ~Reading(worker')
  BY <1>1, <1>2, ResumedIs
<1>4. KernelOK' /\ kernel'.open = kernel.open /\ faults' \in Nat /\ faults <= faults'
  BY <1>1, <1>2 DEF KernelOK
<1>5. CASE results' = results
  BY <1>1, <1>3, <1>4, <1>5, RoundKeeps
<1>6. CASE Publish(worker.batch)
  <2> DEFINE b == worker.batch
  <2>1. BatchOK(b) /\ b.change = "delta"
    <3>1. IsFiniteSet(b.removed)
      <4>1. IsFiniteSet(Names)
        BY NamesAssumption, FS_Interval DEF Names
      <4> QED  BY <1>2, <4>1, FS_Subset
    <3>2. Cardinality(b.removed) \in Nat /\ Len(b.rows) \in Nat
      BY <1>2, <3>1, FS_CardinalityType
    <3>3. Len(b.rows) + Cardinality(b.removed) <= BatchRows /\ b.change = "delta"
      BY <1>1, <1>2 DEF WorkerFits
    <3> DEFINE x == Len(b.rows)
               y == Cardinality(b.removed)
    <3>4. x \in Nat /\ y \in Nat /\ x + y <= BatchRows /\ BatchRows \in Nat
      BY <3>2, <3>3, SizesAssumption
    <3> HIDE DEF x, y
    <3>5. x <= BatchRows /\ y <= BatchRows
      BY <3>4
    <3> QED  BY <1>2, <3>3, <3>5 DEF BatchOK, x, y
  <2>2. WorkerStage(worker) = "following" /\ WorkerStage(worker') = "following"
    BY <1>1, <1>3 DEF WorkerStage
  <2> HIDE DEF b
  <2>3. "following" \in Stages /\ Moves(WorkerStage(worker), b, "following") /\ 0 \in 0 .. LastName
    BY <2>1, <2>2, NamesAssumption DEF Stages, Moves
  <2>4. Reasons'
    BY <1>1, <1>3 DEF IInv, Reasons
  <2>5. Publish(b)
    BY <1>6 DEF b
  <2> QED  BY <1>1, <1>3, <1>4, <2>1, <2>2, <2>3, <2>4, <2>5, PublishKeeps
<1> QED  BY <1>1, <1>5, <1>6

\* The watch of the parent reports the folder.
LEMMA ParentReportsKeeps ==
  ASSUME IInv, ParentReports
  PROVE  IInv'
<1>1. /\ worker.at \in {"idle", "look"} /\ UNCHANGED <<folder, there, kind, list, results, changes, faults>>
      /\ worker' = [worker EXCEPT !.at = "probe"] /\ kernel' = [kernel EXCEPT !.away = FALSE]
  BY DEF ParentReports, bounds
<1>2. WorkerFits(worker) /\ faults \in Nat /\ KernelOK /\ kernel \in KernelState
  BY WatcherIs DEF KernelOK
<1>3. WorkerFits(worker') /\ worker'.at = "probe"
  BY <1>1, <1>2, MovedIs
<1>4. KernelOK' /\ kernel'.open = kernel.open
  <2>1. /\ kernel' \in KernelState /\ kernel'.records = kernel.records /\ kernel'.open = kernel.open
        /\ kernel'.away = FALSE /\ kernel'.parent = kernel.parent /\ kernel'.broken = kernel.broken
    BY <1>1, <1>2 DEF KernelState
  <2> QED  BY <1>1, <1>2, <2>1 DEF KernelOK
<1>5. faults' \in Nat /\ faults <= faults'
  BY <1>1, <1>2
<1> QED  BY <1>1, <1>3, <1>4, <1>5, RoundKeeps

\* A folder that may be gone is probed.
LEMMA ProbeKeeps ==
  ASSUME NamesAssumption, SizesAssumption, IInv, Probe
  PROVE  IInv'
<1> DEFINE recovery == worker.batch.rows # <<>> \/ worker.batch.removed # {} \/ worker.batch.renamed # <<>>
<1>1. /\ worker.at = "probe" /\ UNCHANGED <<folder, there, kind, kernel, list, results, changes, faults>>
      /\ worker' = IF there # "there" THEN [worker EXCEPT !.at = "lose"] ELSE Resumed(recovery)
  BY DEF Probe, bounds
<1>2. recovery \in BOOLEAN
  OBVIOUS
<1> HIDE DEF recovery
<1>3. WorkerFits(worker) /\ faults \in Nat /\ KernelOK
  BY WatcherIs
<1>4. KernelOK' /\ kernel'.open = kernel.open /\ faults' \in Nat /\ faults <= faults'
  BY <1>1, <1>3 DEF KernelOK
<1>5. CASE there # "there"
  <2>1. WorkerFits(worker') /\ worker'.at = "lose"
    BY <1>1, <1>3, <1>5, MovedIs
  <2> QED  BY <1>1, <1>4, <1>5, <2>1, RoundKeeps
<1>6. CASE there = "there"
  <2>1. WorkerFits(worker') /\ worker'.at = "idle"
    BY <1>1, <1>2, <1>3, <1>6, ResumedIs
  <2> QED  BY <1>1, <1>4, <2>1, RoundKeeps
<1> QED  BY <1>5, <1>6

\* A rescan is announced and begins.
LEMMA RescanKeeps ==
  ASSUME NamesAssumption, SizesAssumption, IInv, worker.at = "idle", Rescan,
         UNCHANGED <<folder, there, kind, kernel, list, changes, faults>>
  PROVE  IInv'
<1> DEFINE b == [NewBatch EXCEPT !.change = "rescan_begin"]
<1>1. Publish(b) /\ worker' = [worker EXCEPT !.at = "scan", !.settle = FALSE, !.change = "rescan",
                              !.next = 1, !.count = 0, !.batch = NewBatch]
  BY DEF Rescan
<1>2. WorkerFits(worker) /\ worker \in WorkerState /\ faults \in Nat /\ KernelOK
  BY WatcherIs
<1>3. NewBatch \in Batch /\ NewBatch.rows = <<>> /\ NewBatch.removed = {} /\ Len(<<>>) = 0 /\ Cardinality({}) = 0
  BY AskedIs
<1>4. BatchOK(b) /\ b.change = "rescan_begin"
  <2>1. b \in Batch /\ b.change = "rescan_begin" /\ b.rows = <<>> /\ b.removed = {}
    BY <1>3 DEF Batch, Changes
  <2> HIDE DEF b
  <2>2. 0 <= BatchRows
    BY SizesAssumption
  <2> QED  BY <1>3, <2>1, <2>2 DEF BatchOK
<1> HIDE DEF b
<1>5. /\ worker' \in WorkerState /\ worker'.at = "scan" /\ worker'.change = "rescan" /\ worker'.batch = NewBatch
  <2>1. 1 \in 1 .. LastName + 1
    BY NamesAssumption
  <2> QED  BY <1>1, <1>2, <1>3, <2>1 DEF WorkerState, Places
<1>6. WorkerFits(worker')
  <2>1. 0 + 0 <= BatchRows /\ 0 < BatchRows
    BY SizesAssumption
  <2> QED  BY <1>3, <1>5, <2>1 DEF WorkerFits
<1>7. ~Reading(worker') /\ WorkerStage(worker) = "following" /\ WorkerStage(worker') = "rescanning"
  BY <1>5 DEF Reading, WorkerStage
<1>8. "rescanning" \in Stages /\ Moves(WorkerStage(worker), b, "rescanning") /\ 0 \in 0 .. LastName
  BY <1>4, <1>7, NamesAssumption DEF Stages, Moves
<1>9. Reasons'
  <2>1. NotWhileGivingUp => ~(faults = 0 /\ ~kernel.open)
    BY DEF IInv, Reasons
  <2> QED  BY <1>5, <2>1 DEF Reasons
<1>10. KernelOK' /\ faults' \in Nat /\ faults <= faults'
  BY <1>2 DEF KernelOK
<1> QED  BY <1>1, <1>4, <1>6, <1>7, <1>8, <1>9, <1>10, PublishKeeps

\* A rescan is announced, of a folder and of a namespace.
LEMMA BeginRescanKeeps ==
  ASSUME NamesAssumption, SizesAssumption, IInv, BeginRescan \/ BeginNamespaceRescan
  PROVE  IInv'
<1>1. /\ worker.at = "idle" /\ UNCHANGED <<folder, there, kind, kernel, list, changes, faults>>
      /\ Rescan \/ (there # "there" /\ worker' = [worker EXCEPT !.at = "lose"] /\ results' = results)
  BY DEF BeginRescan, BeginNamespaceRescan, Due, bounds
<1>2. CASE Rescan
  BY <1>1, <1>2, RescanKeeps
<1>3. CASE there # "there" /\ worker' = [worker EXCEPT !.at = "lose"] /\ results' = results
  <2>1. WorkerFits(worker) /\ faults \in Nat /\ KernelOK
    BY WatcherIs
  <2>2. WorkerFits(worker') /\ worker'.at = "lose"
    BY <1>3, <2>1, MovedIs
  <2>3. KernelOK' /\ kernel'.open = kernel.open /\ faults' \in Nat /\ faults <= faults'
    BY <1>1, <2>1 DEF KernelOK
  <2> QED  BY <1>1, <1>3, <2>2, <2>3, RoundKeeps
<1> QED  BY <1>1, <1>2, <1>3

\* A read of the watch fails.
LEMMA ReadFailsKeeps ==
  ASSUME IInv, ReadFails
  PROVE  IInv'
<1>1. /\ worker.at = "idle" /\ kernel.broken /\ worker' = [worker EXCEPT !.at = "lose"]
      /\ UNCHANGED <<folder, there, kind, kernel, list, results, changes, faults>>
  BY DEF ReadFails, bounds
<1>2. WorkerFits(worker) /\ faults \in Nat /\ KernelOK
  BY WatcherIs
<1>3. WorkerFits(worker') /\ worker'.at = "lose"
  BY <1>1, <1>2, MovedIs
<1>4. KernelOK' /\ kernel'.open = kernel.open /\ faults' \in Nat /\ faults <= faults'
  BY <1>1, <1>2 DEF KernelOK
<1>5. there # "there"
  BY <1>1, <1>2 DEF KernelOK
<1> QED  BY <1>1, <1>3, <1>4, <1>5, RoundKeeps

\* The worker gives up, and says so.
LEMMA GivesUp ==
  ASSUME NamesAssumption, SizesAssumption, IInv, worker.at \in {"lose", "idle"},
         worker' = [worker EXCEPT !.at = "ended"],
         NEW change \in {"watch_error", "location_lost"},
         Publish([NewBatch EXCEPT !.change = change, !.phase = "complete"]),
         UNCHANGED <<folder, there, kind, kernel, list, changes>>,
         faults' \in Nat, faults <= faults',
         NotWhileGivingUp /\ faults' = 0 => there # "there"
  PROVE  IInv'
<1> DEFINE b == [NewBatch EXCEPT !.change = change, !.phase = "complete"]
           t == IF change = "watch_error" THEN "ended" ELSE "over"
<1>1. BatchOK(b) /\ b.change = change
  <2>1. change \in Changes /\ "complete" \in Phases \ {"limited"}
    BY DEF Changes, Phases
  <2> QED  BY <2>1, NoteIs
<1>2. Publish(b)
  OBVIOUS
<1> HIDE DEF b
<1>3. WorkerFits(worker') /\ worker'.at = "ended" /\ KernelOK'
  <2>1. WorkerFits(worker) /\ KernelOK
    BY WatcherIs
  <2> QED  BY <2>1, MovedIs DEF KernelOK
<1>4. WorkerStage(worker) = "following" /\ WorkerStage(worker') = "ended" /\ ~Reading(worker')
  BY <1>3 DEF WorkerStage, Reading
<1>5. /\ t \in Stages /\ Moves(WorkerStage(worker), b, t) /\ 0 \in 0 .. LastName
      /\ t = WorkerStage(worker') \/ (t = "over" /\ (faults' > 0 \/ worker'.at = "ended"))
  BY <1>1, <1>3, <1>4, NamesAssumption DEF Stages, Moves
<1> HIDE DEF t
<1>6. Reasons'
  BY <1>3 DEF Reasons
<1>7. worker.at # "ended" /\ b.change # "none"
  BY <1>1
<1> QED  BY <1>1, <1>2, <1>3, <1>4, <1>5, <1>6, <1>7, PublishKeeps

\* The worker looks where a lost folder went.
LEMMA LoseKeeps ==
  ASSUME NamesAssumption, SizesAssumption, IInv, Lose
  PROVE  IInv'
<1>1. /\ worker.at = "lose" /\ worker' = [worker EXCEPT !.at = "ended"]
      /\ UNCHANGED <<folder, there, kind, kernel, list, changes, faults>>
  BY DEF Lose, bounds
<1>2. PICK change \in {"watch_error", "location_lost"} :
        Publish([NewBatch EXCEPT !.change = change, !.phase = "complete"])
  BY DEF Lose
<1>3. faults \in Nat /\ (NotWhileGivingUp => there # "there")
  BY <1>1 DEF IInv, Reasons, TypeInv
<1>4. faults' \in Nat /\ faults <= faults'
  BY <1>1, <1>3
<1> QED  BY <1>1, <1>2, <1>3, <1>4, GivesUp

\* The wait fails.
LEMMA WatchFailsKeeps ==
  ASSUME NamesAssumption, SizesAssumption, IInv, WatchFails
  PROVE  IInv'
<1>1. /\ worker.at = "idle" /\ worker' = [worker EXCEPT !.at = "ended"] /\ faults' = faults + 1
      /\ Publish([NewBatch EXCEPT !.change = "watch_error", !.phase = "complete"])
      /\ UNCHANGED <<folder, there, kind, kernel, list, changes>>
  BY DEF WatchFails
<1>2. faults' \in Nat /\ faults <= faults' /\ faults' # 0
  BY <1>1 DEF IInv, TypeInv
<1>3. "watch_error" \in {"watch_error", "location_lost"}
  OBVIOUS
<1> QED  BY <1>1, <1>2, <1>3, GivesUp

-----------------------------------------------------------------------------
(* The induction. *)

\* The first state.
LEMMA Starts ==
  ASSUME NamesAssumption, SizesAssumption, CountsAssumption, KindsAssumption, Init
  PROVE  IInv
<1>1. /\ folder \in [Names -> {0, 1}] /\ there = "there" /\ kind \in Kinds /\ kernel = NoKernel
      /\ worker = Asked /\ results = <<>> /\ changes = 0 /\ faults = 0
      /\ list = [phase |-> "loading", watch |-> "inactive", updating |-> FALSE, rows |-> <<>>,
                 seen |-> {}, selected |-> {}, device |-> FALSE]
  BY DEF Init
<1>2. <<>> \in Seq(Row) /\ Len(<<>>) = 0 /\ DOMAIN <<>> = {} /\ <<>> \in Seq(Batch)
  BY EmptySeq
<1>3. list \in ListState /\ list.rows = <<>> /\ list.seen = {} /\ list.selected = {} /\ list.phase = "loading"
      /\ list.watch = "inactive" /\ list.updating = FALSE /\ list.device = FALSE
  BY <1>1, <1>2 DEF ListState, Phases
<1>4. ListFits(list)
  BY <1>3 DEF ListFits
<1>5. WorkerFits(worker) /\ WorkerStage(worker) = "listing" /\ worker.at = "open" /\ worker.next = 1
      /\ worker.batch.rows = <<>> /\ worker.change = "none"
  BY <1>1, AskedIs DEF Asked
<1>6. KernelOK
  <2>1. NoKernel \in KernelState /\ NoKernel.records = <<>> /\ ~NoKernel.away /\ ~NoKernel.broken /\ ~NoKernel.parent
    BY AskedIs
  <2> QED  BY <1>1, <1>2, <2>1, SizesAssumption DEF KernelOK
<1>7. TypeInv
  <2>1. folder \in [Names -> 0 .. MaxChanges + 1] /\ changes \in 0 .. MaxChanges
    BY <1>1, CountsAssumption
  <2>2. Len(results) <= QueuedBatches /\ DOMAIN results = {}
    BY <1>1, <1>2, SizesAssumption
  <2> QED  BY <1>1, <1>2, <1>4, <1>5, <1>6, <2>1, <2>2, KindsAssumption DEF TypeInv, WorkerOK, ListOK
<1>8. Path
  <2> DEFINE st == [k \in 0 .. 0 |-> "listing"]
             level == [k \in 0 .. 0 |-> 0]
  <2>1. Len(results) = 0 /\ 0 \in 0 .. LastName /\ "listing" \in Stages
    BY <1>1, <1>2, NamesAssumption DEF Stages
  <2>2. /\ st \in [0 .. Len(results) -> Stages] /\ level \in [0 .. Len(results) -> 0 .. LastName]
        /\ st[0] = "listing" /\ level[0] = 0
    BY <2>1
  <2> HIDE DEF st, level
  <2>3. Follows(st)
    BY <1>3, <1>5, <2>1, <2>2 DEF Follows, ShownStage
  <2>4. Passed(worker, 0)
    <3>1. 0 <= 1 - 1
      OBVIOUS
    <3> QED  BY <1>2, <1>5, <3>1 DEF Passed, AscendsFrom
  <2>5. Ascending(level)
    BY <1>2, <1>3, <2>1, <2>2, <2>4 DEF Ascending
  <2> QED  BY <2>2, <2>3, <2>5 DEF Path
<1>9. Reasons
  BY <1>5 DEF Reasons
<1>10. InOrder
  <2>1. 1 .. Len(list.rows) - 1 = {}
    BY <1>2, <1>3
  <2> QED  BY <1>2, <1>3, <2>1 DEF InOrder, Distinct, Ordered
<1> QED  BY <1>7, <1>8, <1>9, <1>10 DEF IInv

\* What the theorems suppose of the sizes (kQueuedBatches): at most two batches
\* wait for the window.
TwoBatches == QueuedBatches <= 2

\* A step that changes nothing.
LEMMA Stutters ==
  ASSUME IInv, UNCHANGED vars
  PROVE  IInv'
<1>1. UNCHANGED <<folder, there, kind, kernel, worker, results, list, changes, faults>>
  BY DEF vars
<1>2. TypeInv'
  BY <1>1 DEF IInv, TypeInv, KernelOK, WorkerOK, ListOK
<1> QED  BY <1>1, <1>2, OutsideKeeps

\* Every step.
LEMMA Preserved ==
  ASSUME NamesAssumption, SizesAssumption, CountsAssumption, TwoBatches,
         IInv, [Next]_vars
  PROVE  IInv'
<1>1. CASE Environment
  <2>1. ASSUME NEW n \in Names, Change(n, 0) \/ Change(n, changes + 2)
        PROVE  IInv'
    BY <2>1, ChangeKeeps
  <2>2. ASSUME NEW a \in Names, NEW b \in Names, Rename(a, b)
        PROVE  IInv'
    BY <2>2, RenameKeeps
  <2>3. ASSUME Go("moved") \/ Go("deleted")
        PROVE  IInv'
    BY <2>3, GoKeeps
  <2>4. ASSUME Return
        PROVE  IInv'
    BY <2>4, ReturnKeeps
  <2> QED  BY <1>1, <2>1, <2>2, <2>3, <2>4 DEF Environment
<1>2. CASE Watching
  <2>1. ASSUME OpenWatch \/ OpenNamespaceWatches
        PROVE  IInv'
    BY <2>1, OpenWatchKeeps
  <2>2. ASSUME ReadEntry
        PROVE  IInv'
    BY <2>2, ReadEntryKeeps
  <2>3. ASSUME EndRead
        PROVE  IInv'
    BY <2>3, EndReadKeeps
  <2>4. ASSUME Listed
        PROVE  IInv'
    BY <2>4, ListedKeeps
  <2>5. ASSUME Wake
        PROVE  IInv'
    BY <2>5, WakeKeeps
  <2>6. ASSUME WakeNamespace
        PROVE  IInv'
    BY <2>6, WakeNamespaceKeeps
  <2>7. ASSUME LookUp
        PROVE  IInv'
    BY <2>7, LookUpKeeps
  <2>8. ASSUME Deliver
        PROVE  IInv'
    BY <2>8, DeliverKeeps
  <2>9. ASSUME ParentReports
        PROVE  IInv'
    BY <2>9, ParentReportsKeeps
  <2>10. ASSUME Probe
         PROVE  IInv'
    BY <2>10, ProbeKeeps
  <2>11. ASSUME BeginRescan \/ BeginNamespaceRescan
         PROVE  IInv'
    BY <2>11, BeginRescanKeeps
  <2>12. ASSUME ReadFails
         PROVE  IInv'
    BY <2>12, ReadFailsKeeps
  <2>13. ASSUME Lose
         PROVE  IInv'
    BY <2>13, LoseKeeps
  <2> QED  BY <1>2, <2>1, <2>2, <2>3, <2>4, <2>5, <2>6, <2>7, <2>8, <2>9, <2>10, <2>11, <2>12, <2>13 DEF Watching
<1>3. CASE WatchFails
  BY <1>3, WatchFailsKeeps
<1>4. CASE Dispatch
  BY <1>4, DispatchKeeps DEF TwoBatches
<1>5. CASE User
  <2>1. ASSUME DispatchInactive
        PROVE  IInv'
    BY <2>1, DispatchInactiveKeeps
  <2>2. ASSUME QueryRemove
        PROVE  IInv'
    BY <2>2, QueryRemoveKeeps
  <2>3. ASSUME Refresh
        PROVE  IInv'
    BY <2>3, RefreshKeeps
  <2>4. ASSUME NEW i \in Names, Select(i)
        PROVE  IInv'
    BY <2>4, SelectKeeps
  <2> QED  BY <1>5, <2>1, <2>2, <2>3, <2>4 DEF User
<1>6. CASE UNCHANGED vars
  BY <1>6, Stutters
<1> QED  BY <1>1, <1>2, <1>3, <1>4, <1>5, <1>6 DEF Next

\* What the invariant says of each part is what TypeOK says.
LEMMA TypesFollow ==
  ASSUME NamesAssumption, SizesAssumption, TypeInv
  PROVE  TypeOK
<1>1. Row = [name : Names, version : 1 .. MaxChanges + 1] /\ Rows = Seq(Row)
  BY DEF Row, Version, Rows
<1>2. /\ KernelOK /\ WorkerFits(worker) /\ worker \in WorkerState /\ ListFits(list) /\ list \in ListState
      /\ results \in Seq(Batch) /\ Len(results) <= QueuedBatches
      /\ \A i \in DOMAIN results : BatchOK(results[i])
  BY DEF TypeInv, WorkerOK, WorkerFits, ListOK, ListFits
<1>3. \A b \in ToSet(results) : BatchOK(b)
  BY <1>2 DEF ToSet
<1>4. \A b \in ToSet(results) : /\ b.change \in Changes /\ b.phase \in Phases
                               /\ b.rows \in Rows /\ Len(b.rows) <= BatchRows
                               /\ Cardinality(b.removed) <= BatchRows
  BY <1>1, <1>3 DEF BatchOK, Batch
<1>5. worker.at \in Places /\ worker.batch \in Batch /\ worker.batch.rows \in Rows
  BY <1>1, <1>2 DEF WorkerState, Batch
<1>6. Len(worker.batch.rows) <= BatchRows
  <2>1. IsFiniteSet(Names)
    BY NamesAssumption, FS_Interval DEF Names
  <2>2. worker.batch.removed \in SUBSET Names /\ Len(worker.batch.rows) \in Nat
    BY <1>1, <1>5 DEF Batch
  <2>3. Cardinality(worker.batch.removed) \in Nat
    BY <2>1, <2>2, FS_Subset, FS_CardinalityType
  <2>4. Len(worker.batch.rows) + Cardinality(worker.batch.removed) <= BatchRows
    BY <1>2 DEF WorkerFits
  <2> DEFINE x == Len(worker.batch.rows)
             y == Cardinality(worker.batch.removed)
  <2>5. x \in Nat /\ y \in Nat /\ BatchRows \in Nat /\ x + y <= BatchRows
    BY <2>2, <2>3, <2>4, SizesAssumption
  <2> HIDE DEF x, y
  <2>6. x <= BatchRows
    BY <2>5
  <2> QED  BY <2>6 DEF x
<1>7. /\ list.phase \in Phases \cup {"left"} /\ list.watch \in {"inactive", "watching", "recovering", "failed"}
      /\ list.rows \in Rows
  BY <1>1, <1>2 DEF ListState
<1>8. /\ list.seen \subseteq DOMAIN list.rows /\ list.selected \subseteq DOMAIN list.rows
      /\ list.watch # "recovering" => list.seen = {}
  BY <1>2 DEF ListFits
<1>9. /\ kernel.records \in Seq(Record) /\ Len(kernel.records) <= KernelRecords /\ (kernel.away => kernel.parent)
  BY <1>2 DEF KernelOK, KernelState
<1>10. folder \in [Names -> 0 .. MaxChanges + 1] /\ there \in {"there", "moved", "deleted", "slipped"}
  BY DEF TypeInv
<1> QED  BY <1>2, <1>4, <1>5, <1>6, <1>7, <1>8, <1>9, <1>10 DEF TypeOK

\* A list that says its watch is over has a worker that ended it, for a reason.
LEMMA ReasonsFollow ==
  ASSUME NotWhileGivingUp, IInv
  PROVE  OnlyFaultsEndTheWatch
<1>1. SUFFICES ASSUME SaysSo
               PROVE  faults > 0 \/ there # "there"
  BY DEF OnlyFaultsEndTheWatch
<1>2. ShownStage(list) = "ended"
  BY <1>1 DEF ShownStage, SaysSo
<1>3. worker.at = "ended"
  BY <1>2, EndedIs DEF IInv
<1>4. faults \in Nat /\ (faults = 0 => there # "there")
  BY <1>3 DEF IInv, TypeInv, Reasons
<1> QED  BY <1>4

\* The inductive invariant: every state the window, the worker and the folder
\* can reach has a path of stages that its batches lead along.
THEOREM InvHolds ==
  ASSUME TwoBatches
  PROVE  Spec => []IInv
<1>1. Init => IInv
  BY Starts, NamesAssumption, SizesAssumption, CountsAssumption, KindsAssumption
<1>2. IInv /\ [Next]_vars => IInv'
  BY Preserved, NamesAssumption, SizesAssumption, CountsAssumption
<1> QED  BY <1>1, <1>2, PTL DEF Spec

\* fail_list_watch and the error phases are reached for a reason only: a list
\* that has stopped following its folder had a failing call or a folder that went.
THEOREM OnlyFaultsEnd ==
  ASSUME TwoBatches, NotWhileGivingUp
  PROVE  Spec => []OnlyFaultsEndTheWatch
<1>1. IInv => OnlyFaultsEndTheWatch
  BY ReasonsFollow
<1> QED  BY <1>1, InvHolds, PTL

\* Whatever batches a dispatch merges (RowStore::apply, sort_managed_list_rows),
\* the rows of a list are in the order of the sort, unless the list says that
\* they are being put together again or that it has given up.
THEOREM RowsStayInOrder ==
  ASSUME TwoBatches
  PROVE  Spec => []RowsInOrder
<1>1. IInv => RowsInOrder
  BY TypesFollow, NamesAssumption, SizesAssumption DEF IInv, InOrder, RowsInOrder
<1> QED  BY <1>1, InvHolds, PTL

=============================================================================
