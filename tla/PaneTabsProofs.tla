-------------------------- MODULE PaneTabsProofs --------------------------
(***************************************************************************)
(* A pane and its tabs, proved for every value of the constants.  First    *)
(* TabsReachable and DropMovesOneTab of PaneTabs, for any number of panes  *)
(* and tabs.  Then what PaneNavigation promises, for every number of       *)
(* Groups, tabs, folders and navigations: what a pane shows, waits for and *)
(* meant to do stays together, and a tab's history is what the user did.   *)
(***************************************************************************)
EXTENDS PaneTabs, PaneNavigation, TLAPS, FiniteSetTheorems, FunctionTheorems, SequenceTheorems, WellFoundedInduction

-----------------------------------------------------------------------------
(* Sequences of tabs.  *)

\* r is s without its i-th entry, or with e before it.
Lacks(r, s, i) ==
  Len(r) = Len(s) - 1 /\ \A k \in 1 .. Len(r) : r[k] = IF k < i THEN s[k] ELSE s[k + 1]

Gains(r, s, i, e) ==
  /\ Len(r) = Len(s) + 1
  /\ \A k \in 1 .. Len(r) : r[k] = IF k < i THEN s[k] ELSE IF k = i THEN e ELSE s[k - 1]

\* What RemoveAt leaves.
LEMMA Removed ==
  ASSUME NEW S, NEW s \in Seq(S), NEW i \in DOMAIN s, NEW r, r = RemoveAt(s, i)
  PROVE  r \in Seq(S) /\ Lacks(r, s, i)
<1> DEFINE a == SubSeq(s, 1, i - 1)
           b == SubSeq(s, i + 1, Len(s))
<1>1. /\ Len(s) \in Nat /\ DOMAIN s = 1 .. Len(s) /\ i \in 1 .. Len(s)
      /\ \A k \in 1 .. Len(s) : s[k] \in S
  OBVIOUS
<1>2. /\ a \in Seq(S) /\ Len(a) = i - 1
      /\ \A k \in 1 .. i - 1 : a[k] = s[k]
  BY <1>1, SubSeqProperties
<1>3. /\ b \in Seq(S) /\ Len(b) = Len(s) - i
      /\ \A k \in 1 .. Len(s) - i : b[k] = s[i + k]
  BY <1>1, SubSeqProperties
<1>4. r = a \o b
  BY DEF RemoveAt
<1> HIDE DEF a, b
<1>5. /\ r \in Seq(S) /\ Len(r) = Len(a) + Len(b)
      /\ \A k \in 1 .. Len(a) + Len(b) : r[k] = IF k <= Len(a) THEN a[k] ELSE b[k - Len(a)]
  <2>1. /\ a \o b \in Seq(S) /\ Len(a \o b) = Len(a) + Len(b)
        /\ \A k \in 1 .. Len(a) + Len(b) :
             (a \o b)[k] = IF k <= Len(a) THEN a[k] ELSE b[k - Len(a)]
    BY <1>2, <1>3, ConcatProperties
  <2> QED  BY <1>4, <2>1, Zenon
<1>6. Len(r) = Len(s) - 1
  BY <1>1, <1>2, <1>3, <1>5
<1>7. ASSUME NEW k \in 1 .. Len(r)
      PROVE  r[k] = IF k < i THEN s[k] ELSE s[k + 1]
  <2>1. /\ k \in Nat /\ k >= 1 /\ k <= Len(a) + Len(b) /\ k <= Len(s) - 1
        /\ Len(a) \in Nat /\ Len(b) \in Nat
    BY <1>1, <1>2, <1>3, <1>5, <1>6
  <2>2. r[k] = IF k <= Len(a) THEN a[k] ELSE b[k - Len(a)]
    BY <1>5, <2>1
  <2>3. CASE k < i
    BY <1>1, <1>2, <2>1, <2>2, <2>3
  <2>4. CASE ~(k < i)
    <3>1. k - Len(a) \in 1 .. Len(s) - i /\ i + (k - Len(a)) = k + 1
      BY <1>1, <1>2, <2>1, <2>4
    <3>2. b[k - Len(a)] = s[k + 1]
      BY <1>3, <3>1
    <3> QED  BY <1>1, <1>2, <2>1, <2>2, <2>4, <3>2
  <2> QED  BY <2>3, <2>4
<1> QED  BY <1>5, <1>6, <1>7 DEF Lacks

\* What InsertAt makes.
LEMMA Inserted ==
  ASSUME NEW S, NEW s \in Seq(S), NEW i \in 1 .. Len(s) + 1, NEW e \in S,
         NEW r, r = InsertAt(s, i, e)
  PROVE  r \in Seq(S) /\ Gains(r, s, i, e)
<1> DEFINE a == SubSeq(s, 1, i - 1)
           b == SubSeq(s, i, Len(s))
           m == a \o <<e>>
<1>1. /\ Len(s) \in Nat /\ DOMAIN s = 1 .. Len(s) /\ i \in 1 .. Len(s) + 1
      /\ \A k \in 1 .. Len(s) : s[k] \in S
  OBVIOUS
<1>2. /\ a \in Seq(S) /\ Len(a) = i - 1
      /\ \A k \in 1 .. i - 1 : a[k] = s[k]
  BY <1>1, SubSeqProperties
<1>3. /\ b \in Seq(S) /\ Len(b) = Len(s) - i + 1
      /\ \A k \in 1 .. Len(s) - i + 1 : b[k] = s[i + k - 1]
  BY <1>1, SubSeqProperties
<1>4. r = m \o b
  BY DEF InsertAt
<1>5. <<e>> \in Seq(S) /\ Len(<<e>>) = 1 /\ <<e>>[1] = e
  OBVIOUS
<1>6. /\ m \in Seq(S) /\ Len(m) = i
      /\ \A k \in 1 .. i : m[k] = IF k <= i - 1 THEN a[k] ELSE e
  <2> DEFINE one == <<e>>
  <2> HIDE DEF a, b, one
  <2>1. one \in Seq(S) /\ Len(one) = 1 /\ one[1] = e
    BY <1>5 DEF one
  <2>2. /\ a \o one \in Seq(S) /\ Len(a \o one) = Len(a) + Len(one)
        /\ \A k \in 1 .. Len(a) + Len(one) :
             (a \o one)[k] = IF k <= Len(a) THEN a[k] ELSE one[k - Len(a)]
    BY <1>2, <2>1, ConcatProperties
  <2>3. m = a \o one
    BY DEF one
  <2> HIDE DEF m
  <2> QED  BY <1>1, <1>2, <2>1, <2>2, <2>3
<1> HIDE DEF a, b, m
<1>7. /\ r \in Seq(S) /\ Len(r) = Len(m) + Len(b)
      /\ \A k \in 1 .. Len(m) + Len(b) : r[k] = IF k <= Len(m) THEN m[k] ELSE b[k - Len(m)]
  <2>1. /\ m \o b \in Seq(S) /\ Len(m \o b) = Len(m) + Len(b)
        /\ \A k \in 1 .. Len(m) + Len(b) :
             (m \o b)[k] = IF k <= Len(m) THEN m[k] ELSE b[k - Len(m)]
    BY <1>3, <1>6, ConcatProperties
  <2> QED  BY <1>4, <2>1, Zenon
<1>8. Len(r) = Len(s) + 1
  BY <1>1, <1>3, <1>6, <1>7
<1>9. ASSUME NEW k \in 1 .. Len(r)
      PROVE  r[k] = IF k < i THEN s[k] ELSE IF k = i THEN e ELSE s[k - 1]
  <2>1. /\ k \in Nat /\ k >= 1 /\ k <= Len(m) + Len(b) /\ k <= Len(s) + 1
        /\ Len(m) \in Nat /\ Len(b) \in Nat
    BY <1>1, <1>3, <1>6, <1>7, <1>8
  <2>2. r[k] = IF k <= Len(m) THEN m[k] ELSE b[k - Len(m)]
    BY <1>7, <2>1
  <2>3. CASE k <= i
    BY <1>1, <1>2, <1>6, <2>1, <2>2, <2>3
  <2>4. CASE ~(k <= i)
    <3>1. k - Len(m) \in 1 .. Len(s) - i + 1 /\ i + (k - Len(m)) - 1 = k - 1
      BY <1>1, <1>6, <2>1, <2>4
    <3>2. b[k - Len(m)] = s[k - 1]
      BY <1>3, <3>1
    <3> QED  BY <1>1, <1>6, <2>1, <2>2, <2>4, <3>2
  <2> QED  BY <2>3, <2>4
<1> QED  BY <1>7, <1>8, <1>9 DEF Gains

\* A set of numbers that is not empty has a least one.
LEMMA Least ==
  ASSUME NEW T \in SUBSET Nat, T # {}
  PROVE  \E x \in T : \A y \in T : x <= y
<1>1. PICK x \in T : \A y \in T : ~ (<<y, x>> \in OpToRel(<, Nat))
  BY WFMin, NatLessThanWellFounded, Zenon
<1>2. \A y \in T : ~(y < x)
  BY <1>1 DEF OpToRel
<1> QED  BY <1>2

\* A tab in a pane that can be used is there once.
ValidPane(pane) ==
  /\ pane \in PaneRecord
  /\ pane.tabs # <<>>
  /\ pane.active \in IdsOf(pane.tabs)
  /\ \A i, j \in DOMAIN pane.tabs : pane.tabs[i].id = pane.tabs[j].id => i = j

\* The tabs of a pane that can be used.
LEMMA PaneHas ==
  ASSUME NEW pane, ValidPane(pane)
  PROVE  /\ pane.tabs \in Seq(TabRecord) /\ pane.active \in TabIds
         /\ Len(pane.tabs) \in Nat \ {0}
         /\ DOMAIN pane.tabs = 1 .. Len(pane.tabs)
         /\ \A i \in DOMAIN pane.tabs : pane.tabs[i] \in TabRecord /\ pane.tabs[i].id \in TabIds
         /\ pane = [tabs |-> pane.tabs, active |-> pane.active]
<1>1. /\ pane.tabs \in Seq(TabRecord) /\ pane.active \in TabIds
      /\ pane = [tabs |-> pane.tabs, active |-> pane.active] /\ pane.tabs # <<>>
  BY DEF ValidPane, PaneRecord
<1> DEFINE s == pane.tabs
<1>2. s \in Seq(TabRecord) /\ s # <<>>
  BY <1>1
<1> HIDE DEF s
<1>3. /\ Len(s) \in Nat \ {0} /\ DOMAIN s = 1 .. Len(s)
      /\ \A i \in DOMAIN s : s[i] \in TabRecord
  BY <1>2, EmptySeq
<1>4. \A i \in DOMAIN s : s[i].id \in TabIds
  BY <1>3 DEF TabRecord
<1> QED  BY <1>1, <1>3, <1>4 DEF s

\* Where At finds a tab.
LEMMA Found ==
  ASSUME NEW strip, NEW id \in IdsOf(strip)
  PROVE  At(strip, id) \in DOMAIN strip /\ strip[At(strip, id)].id = id
BY DEF IdsOf, At

\* A pane made from these parts.
LEMMA MakesPane ==
  ASSUME NEW strip \in Seq(TabRecord), NEW active \in IdsOf(strip), strip # <<>>,
         \A i, j \in DOMAIN strip : strip[i].id = strip[j].id => i = j,
         NEW pane, pane = [tabs |-> strip, active |-> active]
  PROVE  ValidPane(pane)
<1>1. active \in TabIds
  <2>1. PICK i \in DOMAIN strip : active = strip[i].id
    BY DEF IdsOf
  <2>2. strip[i] \in TabRecord
    BY <2>1
  <2> QED  BY <2>1, <2>2 DEF TabRecord
<1> QED  BY <1>1 DEF ValidPane, PaneRecord

\* A pane with one tab.
LEMMA OneTab ==
  ASSUME NEW id \in TabIds, NEW content \in 0 .. MaxTab + 1,
         NEW strip, strip = << [id |-> id, content |-> content] >>
  PROVE  /\ ValidPane([tabs |-> strip, active |-> id])
         /\ IdsOf(strip) = {id}
         /\ strip \in Seq(TabRecord)
<1> DEFINE tab == [id |-> id, content |-> content]
<1>1. tab \in TabRecord /\ tab.id = id
  BY DEF TabRecord
<1> HIDE DEF tab
<1>2. strip \in Seq(TabRecord) /\ Len(strip) = 1 /\ DOMAIN strip = {1} /\ strip[1] = tab /\ strip # <<>>
  BY <1>1 DEF tab
<1>3. IdsOf(strip) = {id}
  BY <1>1, <1>2 DEF IdsOf
<1> QED  BY <1>1, <1>2, <1>3, MakesPane

\* A tab without contents is a tab.
LEMMA FreshTab ==
  ASSUME NEW id \in TabIds
  PROVE  Fresh(id) \in TabRecord /\ Fresh(id).id = id /\ Fresh(id).content = 0
BY MaxTabAssumption DEF Fresh, TabRecord

-----------------------------------------------------------------------------
(* The operations on a pane keep it usable, and say which ids it has.  *)

\* An id of a pane is that of one of its tabs.
LEMMA IdIsOfTab ==
  ASSUME NEW strip
  PROVE  /\ \A i \in DOMAIN strip : strip[i].id \in IdsOf(strip)
         /\ \A id \in IdsOf(strip) : \E i \in DOMAIN strip : strip[i].id = id
BY DEF IdsOf

TabsIn(strip) == {strip[i] : i \in DOMAIN strip}

\* Tabs that ids tell apart.
Distinct(strip) ==
  /\ strip \in Seq(TabRecord)
  /\ \A i, j \in DOMAIN strip : strip[i].id = strip[j].id => i = j

\* The others stay when one tab is taken out.
LEMMA RemovedTab ==
  ASSUME NEW s, Distinct(s), NEW i \in DOMAIN s, NEW r, r = RemoveAt(s, i)
  PROVE  /\ Distinct(r)
         /\ Len(r) = Len(s) - 1
         /\ \A k \in 1 .. Len(r) : r[k] = IF k < i THEN s[k] ELSE s[k + 1]
         /\ IdsOf(r) = IdsOf(s) \ {s[i].id}
         /\ TabsIn(r) = TabsIn(s) \ {s[i]}
<1>1. /\ s \in Seq(TabRecord) /\ Len(s) \in Nat /\ DOMAIN s = 1 .. Len(s)
      /\ i \in 1 .. Len(s)
      /\ \A j, k \in 1 .. Len(s) : s[j].id = s[k].id => j = k
  BY DEF Distinct
<1>3. /\ r \in Seq(TabRecord) /\ Len(r) = Len(s) - 1
      /\ \A k \in 1 .. Len(r) : r[k] = IF k < i THEN s[k] ELSE s[k + 1]
  <2>1. r \in Seq(TabRecord) /\ Lacks(r, s, i)
    BY <1>1, Removed
  <2> QED  BY <2>1 DEF Lacks
<1>4. DOMAIN r = 1 .. Len(r) /\ Len(r) \in Nat
  BY <1>1, <1>3
<1>5. \A j, k \in DOMAIN r : r[j].id = r[k].id => j = k
  BY <1>1, <1>3, <1>4
<1>6. IdsOf(r) = IdsOf(s) \ {s[i].id}
  <2>1. ASSUME NEW id \in IdsOf(r)
        PROVE  id \in IdsOf(s) \ {s[i].id}
    <3>1. PICK k \in 1 .. Len(r) : r[k].id = id
      BY <1>4, IdIsOfTab
    <3>2. PICK l \in 1 .. Len(s) : l # i /\ s[l].id = id
      <4>1. CASE k < i
        BY <1>1, <1>3, <3>1, <4>1
      <4>2. CASE ~(k < i)
        <5>1. r[k] = s[k + 1] /\ k + 1 \in 1 .. Len(s) /\ k + 1 # i
          BY <1>1, <1>3, <3>1, <4>2
        <5> QED  BY <3>1, <5>1
      <4> QED  BY <4>1, <4>2
    <3> QED  BY <1>1, <3>2, IdIsOfTab
  <2>2. ASSUME NEW id \in IdsOf(s) \ {s[i].id}
        PROVE  id \in IdsOf(r)
    <3>1. PICK l \in 1 .. Len(s) : l # i /\ s[l].id = id
      BY <1>1, IdIsOfTab
    <3>2. PICK k \in 1 .. Len(r) : r[k] = s[l]
      <4>1. CASE l < i
        BY <1>1, <1>3, <1>4, <3>1, <4>1
      <4>2. CASE ~(l < i)
        <5>1. l - 1 \in 1 .. Len(r) /\ ~(l - 1 < i) /\ (l - 1) + 1 = l
          BY <1>1, <1>3, <1>4, <3>1, <4>2
        <5> QED  BY <1>3, <5>1
      <4> QED  BY <4>1, <4>2
    <3> QED  BY <1>4, <3>1, <3>2, IdIsOfTab
  <2> QED  BY <2>1, <2>2
<1>7. TabsIn(r) = TabsIn(s) \ {s[i]}
  <2>1. ASSUME NEW t \in TabsIn(r)
        PROVE  t \in TabsIn(s) \ {s[i]}
    <3>1. PICK k \in 1 .. Len(r) : r[k] = t
      BY <1>4 DEF TabsIn
    <3>2. t.id \in IdsOf(r)
      BY <1>4, <3>1, IdIsOfTab
    <3>3. t.id # s[i].id
      BY <1>6, <3>2
    <3>4. k \in 1 .. Len(s) /\ k + 1 \in 1 .. Len(s)
      BY <1>1, <1>3, <3>1
    <3>5. t \in TabsIn(s)
      BY <1>1, <1>3, <3>1, <3>4 DEF TabsIn
    <3> QED  BY <3>3, <3>5
  <2>2. ASSUME NEW l \in 1 .. Len(s), s[l] # s[i]
        PROVE  s[l] \in TabsIn(r)
    <3>1. CASE l < i
      <4>1. l \in 1 .. Len(r) /\ r[l] = s[l]
        BY <1>1, <1>3, <1>4, <3>1
      <4> QED  BY <1>4, <4>1 DEF TabsIn
    <3>2. CASE l > i
      <4>1. l - 1 \in 1 .. Len(r) /\ ~(l - 1 < i) /\ (l - 1) + 1 = l
        BY <1>1, <1>3, <1>4, <3>2
      <4>2. r[l - 1] = s[l]
        BY <1>3, <4>1
      <4> QED  BY <1>4, <4>1, <4>2 DEF TabsIn
    <3> QED  BY <1>1, <2>2, <3>1, <3>2
  <2>3. \A t \in TabsIn(s) : \E l \in 1 .. Len(s) : s[l] = t
    BY <1>1 DEF TabsIn
  <2> QED  BY <2>1, <2>2, <2>3
<1> QED  BY <1>3, <1>5, <1>6, <1>7 DEF Distinct

\* A tab with a new id fits in at any place.
LEMMA InsertedTab ==
  ASSUME NEW s, Distinct(s), NEW e \in TabRecord, e.id \notin IdsOf(s),
         NEW i \in 1 .. Len(s) + 1, NEW r, r = InsertAt(s, i, e)
  PROVE  /\ Distinct(r)
         /\ Len(r) = Len(s) + 1 /\ r # <<>>
         /\ \A k \in 1 .. Len(r) : r[k] = IF k < i THEN s[k]
                                          ELSE IF k = i THEN e ELSE s[k - 1]
         /\ r[i] = e
         /\ IdsOf(r) = IdsOf(s) \cup {e.id}
         /\ TabsIn(r) = TabsIn(s) \cup {e}
<1>1. /\ s \in Seq(TabRecord) /\ Len(s) \in Nat /\ DOMAIN s = 1 .. Len(s)
      /\ \A j, k \in 1 .. Len(s) : s[j].id = s[k].id => j = k
      /\ \A k \in 1 .. Len(s) : s[k].id # e.id
  BY IdIsOfTab DEF Distinct
<1>3. /\ r \in Seq(TabRecord) /\ Len(r) = Len(s) + 1
      /\ \A k \in 1 .. Len(r) : r[k] = IF k < i THEN s[k]
                                       ELSE IF k = i THEN e ELSE s[k - 1]
  <2>1. r \in Seq(TabRecord) /\ Gains(r, s, i, e)
    BY <1>1, Inserted
  <2> QED  BY <2>1 DEF Gains
<1>4. DOMAIN r = 1 .. Len(r) /\ Len(r) \in Nat \ {0} /\ r # <<>> /\ i \in 1 .. Len(r) /\ r[i] = e
  BY <1>1, <1>3
<1>5. ASSUME NEW k \in 1 .. Len(r), k # i
      PROVE  \E l \in 1 .. Len(s) : r[k] = s[l] /\ l = IF k < i THEN k ELSE k - 1
  <2>1. CASE k < i
    BY <1>1, <1>3, <1>4, <2>1
  <2>2. CASE k > i
    <3>1. k - 1 \in 1 .. Len(s) /\ r[k] = s[k - 1] /\ ~(k < i)
      BY <1>1, <1>3, <1>4, <2>2
    <3> QED  BY <3>1
  <2> QED  BY <1>4, <1>5, <2>1, <2>2
<1>6. \A j, k \in DOMAIN r : r[j].id = r[k].id => j = k
  <2> SUFFICES ASSUME NEW j \in 1 .. Len(r), NEW k \in 1 .. Len(r), r[j].id = r[k].id
               PROVE  j = k
    BY <1>4
  <2>1. CASE j = i \/ k = i
    BY <1>1, <1>4, <1>5, <2>1
  <2>2. CASE j # i /\ k # i
    <3>1. PICK l \in 1 .. Len(s) : r[j] = s[l] /\ l = IF j < i THEN j ELSE j - 1
      BY <1>5, <2>2
    <3>2. PICK m \in 1 .. Len(s) : r[k] = s[m] /\ m = IF k < i THEN k ELSE k - 1
      BY <1>5, <2>2
    <3>3. l = m
      BY <1>1, <3>1, <3>2
    <3> QED  BY <2>2, <3>1, <3>2, <3>3
  <2> QED  BY <2>1, <2>2
<1>7. IdsOf(r) = IdsOf(s) \cup {e.id}
  <2>1. ASSUME NEW id \in IdsOf(r)
        PROVE  id \in IdsOf(s) \cup {e.id}
    <3>1. PICK k \in 1 .. Len(r) : r[k].id = id
      BY <1>4, IdIsOfTab
    <3>2. CASE k = i
      BY <1>4, <3>1, <3>2
    <3>3. CASE k # i
      BY <1>1, <1>5, <3>1, <3>3, IdIsOfTab
    <3> QED  BY <3>2, <3>3
  <2>2. ASSUME NEW l \in 1 .. Len(s)
        PROVE  s[l].id \in IdsOf(r)
    <3>1. CASE l < i
      <4>1. l \in 1 .. Len(r) /\ r[l] = s[l]
        BY <1>1, <1>3, <1>4, <3>1
      <4> QED  BY <1>4, <4>1, IdIsOfTab
    <3>2. CASE ~(l < i)
      <4>1. l + 1 \in 1 .. Len(r) /\ ~(l + 1 < i) /\ l + 1 # i /\ (l + 1) - 1 = l
        BY <1>1, <1>3, <1>4, <3>2
      <4>2. r[l + 1] = s[l]
        BY <1>3, <4>1
      <4> QED  BY <1>4, <4>1, <4>2, IdIsOfTab
    <3> QED  BY <3>1, <3>2
  <2>3. e.id \in IdsOf(r)
    BY <1>4, IdIsOfTab
  <2> QED  BY <1>1, <2>1, <2>2, <2>3, IdIsOfTab
<1>8. TabsIn(r) = TabsIn(s) \cup {e}
  <2>1. ASSUME NEW k \in 1 .. Len(r)
        PROVE  r[k] \in TabsIn(s) \cup {e}
    BY <1>1, <1>4, <1>5 DEF TabsIn
  <2>2. ASSUME NEW l \in 1 .. Len(s)
        PROVE  s[l] \in TabsIn(r)
    <3>1. CASE l < i
      <4>1. l \in 1 .. Len(r) /\ r[l] = s[l]
        BY <1>1, <1>3, <1>4, <3>1
      <4> QED  BY <1>4, <4>1 DEF TabsIn
    <3>2. CASE ~(l < i)
      <4>1. l + 1 \in 1 .. Len(r) /\ ~(l + 1 < i) /\ l + 1 # i /\ (l + 1) - 1 = l
        BY <1>1, <1>3, <1>4, <3>2
      <4>2. r[l + 1] = s[l]
        BY <1>3, <4>1
      <4> QED  BY <1>4, <4>1, <4>2 DEF TabsIn
    <3> QED  BY <3>1, <3>2
  <2>3. e \in TabsIn(r)
    BY <1>4 DEF TabsIn
  <2>4. /\ \A t \in TabsIn(r) : \E k \in 1 .. Len(r) : r[k] = t
        /\ \A t \in TabsIn(s) : \E k \in 1 .. Len(s) : s[k] = t
    BY <1>1, <1>4 DEF TabsIn
  <2> QED  BY <2>1, <2>2, <2>3, <2>4
<1> QED  BY <1>3, <1>4, <1>6, <1>7, <1>8 DEF Distinct

\* A pane that loses one of several tabs keeps the others.
LEMMA WithoutKeeps ==
  ASSUME NEW pane, ValidPane(pane), NEW i \in DOMAIN pane.tabs, Len(pane.tabs) # 1
  PROVE  /\ ValidPane(Without(pane, i))
         /\ IdsOf(Without(pane, i).tabs) = IdsOf(pane.tabs) \ {pane.tabs[i].id}
         /\ TabsIn(Without(pane, i).tabs) = TabsIn(pane.tabs) \ {pane.tabs[i]}
<1> DEFINE s == pane.tabs
           r == RemoveAt(s, i)
           a == IF pane.active = s[i].id THEN Heir(s, i) ELSE pane.active
<1>1. /\ Distinct(s) /\ Len(s) \in Nat \ {0} /\ DOMAIN s = 1 .. Len(s) /\ Len(s) # 1
      /\ i \in DOMAIN s
      /\ \A j, k \in 1 .. Len(s) : s[j].id = s[k].id => j = k
      /\ pane.active \in IdsOf(s)
  BY PaneHas DEF ValidPane, Distinct
<1>2. Without(pane, i) = [tabs |-> r, active |-> a] /\ r = RemoveAt(s, i)
  BY DEF Without
<1> HIDE DEF s, r
<1>3. /\ Distinct(r) /\ Len(r) = Len(s) - 1 /\ IdsOf(r) = IdsOf(s) \ {s[i].id}
      /\ TabsIn(r) = TabsIn(s) \ {s[i]}
  <2>1. Distinct(s) /\ i \in DOMAIN s /\ r = RemoveAt(s, i)
    BY <1>1, <1>2
  <2> QED  BY <2>1, RemovedTab
<1>4. r # <<>>
  BY <1>1, <1>3
<1>7. a \in IdsOf(r)
  <2>1. CASE pane.active # s[i].id
    BY <1>1, <1>3, <2>1
  <2>2. CASE pane.active = s[i].id
    <3>1. PICK l \in 1 .. Len(s) : l # i /\ s[l].id = a
      <4>1. CASE i < Len(s)
        <5>1. a = s[i + 1].id /\ i + 1 \in 1 .. Len(s)
          BY <1>1, <2>2, <4>1 DEF Heir
        <5> QED  BY <1>1, <5>1
      <4>2. CASE ~(i < Len(s))
        <5>1. a = s[i - 1].id /\ i - 1 \in 1 .. Len(s)
          BY <1>1, <2>2, <4>2 DEF Heir
        <5> QED  BY <1>1, <5>1
      <4> QED  BY <4>1, <4>2
    <3> QED  BY <1>1, <1>3, <3>1, IdIsOfTab
  <2> QED  BY <2>1, <2>2
<1> HIDE DEF a
<1>8. ValidPane(Without(pane, i))
  BY <1>2, <1>3, <1>4, <1>7, MakesPane DEF Distinct
<1>9. Without(pane, i).tabs = r
  BY <1>2
<1> QED  BY <1>3, <1>8, <1>9 DEF s

\* close_tab leaves a pane with a tab.
LEMMA CloseKeeps ==
  ASSUME NEW pane, ValidPane(pane), NEW id
  PROVE  /\ ValidPane(close_tab(pane, id))
         /\ IdsOf(close_tab(pane, id).tabs) \subseteq IdsOf(pane.tabs)
<1> DEFINE s == pane.tabs
<1>1. CASE id \notin IdsOf(s)
  BY <1>1 DEF close_tab
<1>2. CASE id \in IdsOf(s) /\ Len(s) = 1
  <2>1. close_tab(pane, id) = [pane EXCEPT !.tabs = << Fresh(id) >>]
    BY <1>2 DEF close_tab
  <2>2. DOMAIN s = {1} /\ pane.active \in IdsOf(s) /\ s[1].id \in TabIds
    BY <1>2, PaneHas DEF ValidPane
  <2>3. id = pane.active /\ id \in TabIds
    BY <1>2, <2>2, IdIsOfTab
  <2>4. pane = [tabs |-> s, active |-> id]
    BY <2>3, PaneHas
  <2>5. close_tab(pane, id) = [tabs |-> << [id |-> id, content |-> 0] >>, active |-> id]
    BY <2>1, <2>4 DEF Fresh
  <2>6. 0 \in 0 .. MaxTab + 1
    BY MaxTabAssumption
  <2> QED  BY <1>2, <2>3, <2>5, <2>6, OneTab
<1>3. CASE id \in IdsOf(s) /\ Len(s) # 1
  <2>1. close_tab(pane, id) = Without(pane, At(s, id))
    BY <1>3 DEF close_tab
  <2>2. At(s, id) \in DOMAIN s
    BY <1>3, Found
  <2> QED  BY <1>3, <2>1, <2>2, WithoutKeeps
<1> QED  BY <1>1, <1>2, <1>3

\* add_tab puts a tab with a new id at the end.
LEMMA AddKeeps ==
  ASSUME NEW pane, ValidPane(pane), NEW id \in TabIds, id \notin IdsOf(pane.tabs)
  PROVE  /\ ValidPane(add_tab(pane, id))
         /\ IdsOf(add_tab(pane, id).tabs) = IdsOf(pane.tabs) \cup {id}
<1> DEFINE s == pane.tabs
           r == Append(s, Fresh(id))
<1>1. /\ s \in Seq(TabRecord) /\ Len(s) \in Nat \ {0} /\ DOMAIN s = 1 .. Len(s)
      /\ \A j, k \in 1 .. Len(s) : s[j].id = s[k].id => j = k
  BY PaneHas DEF ValidPane
<1>2. add_tab(pane, id) = [tabs |-> r, active |-> id] /\ add_tab(pane, id).tabs = r
  BY DEF add_tab
<1>3. Fresh(id) \in TabRecord /\ Fresh(id).id = id
  BY FreshTab
<1>4. \A k \in 1 .. Len(s) : s[k].id # id
  BY <1>1, IdIsOfTab
<1>5. s = pane.tabs
  OBVIOUS
<1> HIDE DEF s
<1>6. /\ r \in Seq(TabRecord) /\ Len(r) = Len(s) + 1 /\ DOMAIN r = 1 .. Len(s) + 1 /\ r # <<>>
      /\ \A k \in 1 .. Len(s) : r[k] = s[k]
      /\ r[Len(s) + 1] = Fresh(id)
  BY <1>1, <1>3, AppendProperties
<1> HIDE DEF r
<1>7. \A j, k \in DOMAIN r : r[j].id = r[k].id => j = k
  BY <1>1, <1>3, <1>4, <1>6
<1>8. IdsOf(r) = IdsOf(s) \cup {id}
  <2>1. ASSUME NEW x \in IdsOf(r)
        PROVE  x \in IdsOf(s) \cup {id}
    <3>1. PICK k \in DOMAIN r : r[k].id = x
      BY IdIsOfTab
    <3> QED  BY <1>1, <1>3, <1>6, <3>1, IdIsOfTab
  <2>2. IdsOf(s) \subseteq IdsOf(r)
    <3> SUFFICES ASSUME NEW k \in 1 .. Len(s)
                 PROVE  s[k].id \in IdsOf(r)
      BY <1>1, IdIsOfTab
    <3> QED  BY <1>1, <1>6, IdIsOfTab
  <2>3. id \in IdsOf(r)
    BY <1>1, <1>3, <1>6, IdIsOfTab
  <2> QED  BY <2>1, <2>2, <2>3
<1> QED  BY <1>2, <1>5, <1>6, <1>7, <1>8, MakesPane

\* reorder_tab changes the order only.
LEMMA ReorderKeeps ==
  ASSUME NEW pane, ValidPane(pane), NEW id \in IdsOf(pane.tabs), NEW to \in 1 .. Len(pane.tabs)
  PROVE  /\ ValidPane(reorder_tab(pane, id, to))
         /\ IdsOf(reorder_tab(pane, id, to).tabs) = IdsOf(pane.tabs)
         /\ TabsIn(reorder_tab(pane, id, to).tabs) = TabsIn(pane.tabs)
         /\ reorder_tab(pane, id, to).tabs[to] = pane.tabs[At(pane.tabs, id)]
<1> DEFINE s == pane.tabs
           from == At(s, id)
           r == RemoveAt(s, from)
           e == s[from]
           t == InsertAt(r, to, e)
<1>1. /\ Distinct(s) /\ Len(s) \in Nat \ {0} /\ pane = [tabs |-> s, active |-> pane.active]
      /\ pane.active \in IdsOf(s) /\ \A i \in DOMAIN s : s[i] \in TabRecord
  BY PaneHas DEF ValidPane, Distinct
<1>2. from \in DOMAIN s /\ e.id = id
  BY Found
<1>3. reorder_tab(pane, id, to) = [pane EXCEPT !.tabs = t]
  BY DEF reorder_tab
<1>4. r = RemoveAt(s, from) /\ t = InsertAt(r, to, e) /\ s = pane.tabs /\ e = s[from]
  OBVIOUS
<1> HIDE DEF from, r, e, t, s
<1>5. reorder_tab(pane, id, to) = [tabs |-> t, active |-> pane.active]
  BY <1>1, <1>3
<1>6. /\ Distinct(r) /\ Len(r) = Len(s) - 1 /\ IdsOf(r) = IdsOf(s) \ {e.id}
      /\ TabsIn(r) = TabsIn(s) \ {e}
  <2>1. Distinct(s) /\ from \in DOMAIN s /\ r = RemoveAt(s, from)
    BY <1>1, <1>2, <1>4
  <2>2. /\ Distinct(r) /\ Len(r) = Len(s) - 1 /\ IdsOf(r) = IdsOf(s) \ {s[from].id}
        /\ TabsIn(r) = TabsIn(s) \ {s[from]}
    BY <2>1, RemovedTab
  <2> QED  BY <1>4, <2>2
<1>7. /\ e \in TabRecord /\ e.id \notin IdsOf(r) /\ to \in 1 .. Len(r) + 1
  BY <1>1, <1>2, <1>4, <1>6
<1>8. /\ Distinct(t) /\ t # <<>> /\ IdsOf(t) = IdsOf(r) \cup {e.id}
      /\ TabsIn(t) = TabsIn(r) \cup {e} /\ t[to] = e
  BY <1>4, <1>6, <1>7, InsertedTab
<1>9. IdsOf(t) = IdsOf(s)
  <2>1. e.id \in IdsOf(s)
    BY <1>2, <1>4
  <2> QED  BY <1>6, <1>8, <2>1
<1>10. ValidPane(reorder_tab(pane, id, to))
  BY <1>1, <1>5, <1>8, <1>9, MakesPane DEF Distinct
<1>11. reorder_tab(pane, id, to).tabs = t
  BY <1>5
<1>12. TabsIn(t) = TabsIn(s)
  <2>1. e \in TabsIn(s)
    BY <1>2, <1>4 DEF TabsIn
  <2> QED  BY <1>6, <1>8, <2>1
<1>13. /\ ValidPane(reorder_tab(pane, id, to)) /\ IdsOf(reorder_tab(pane, id, to).tabs) = IdsOf(s)
       /\ TabsIn(reorder_tab(pane, id, to).tabs) = TabsIn(s)
       /\ reorder_tab(pane, id, to).tabs[to] = s[from]
  BY <1>4, <1>8, <1>9, <1>10, <1>11, <1>12
<1> QED  BY <1>13 DEF s, from

\* What a tab leaves behind that moves to another pane.
LEMMA SourceKeeps ==
  ASSUME NEW pane, ValidPane(pane), NEW id \in IdsOf(pane.tabs),
         NEW retained \in TabIds, retained \notin IdsOf(pane.tabs)
  PROVE  /\ ValidPane(move_source(pane, id, retained))
         /\ id \notin IdsOf(move_source(pane, id, retained).tabs)
         /\ IdsOf(move_source(pane, id, retained).tabs) \subseteq IdsOf(pane.tabs) \cup {retained}
         /\ \A tab : tab \in TabsIn(move_source(pane, id, retained).tabs) /\ tab.content # 0
                    => tab \in TabsIn(pane.tabs)
         /\ \A tab : tab \in TabsIn(pane.tabs) /\ tab # pane.tabs[At(pane.tabs, id)]
                    => tab \in TabsIn(move_source(pane, id, retained).tabs)
<1>1. CASE Len(pane.tabs) = 1
  <2>1. move_source(pane, id, retained)
          = [tabs |-> << [id |-> retained, content |-> 0] >>, active |-> retained]
    BY <1>1 DEF move_source, Fresh
  <2>2. 0 \in 0 .. MaxTab + 1
    BY MaxTabAssumption
  <2> DEFINE strip == << [id |-> retained, content |-> 0] >>
  <2>3. ValidPane([tabs |-> strip, active |-> retained]) /\ IdsOf(strip) = {retained}
    BY <2>2, OneTab
  <2>4. move_source(pane, id, retained).tabs = strip
    BY <2>1
  <2>5. TabsIn(strip) = {[id |-> retained, content |-> 0]}
    BY DEF TabsIn
  <2>6. TabsIn(pane.tabs) = {pane.tabs[At(pane.tabs, id)]}
    <3>1. DOMAIN pane.tabs = {1}
      BY <1>1, PaneHas
    <3>2. At(pane.tabs, id) = 1
      BY <3>1, Found
    <3> QED  BY <3>1, <3>2 DEF TabsIn
  <2>7. \A tab \in TabsIn(strip) : tab.content = 0
    BY <2>5
  <2> HIDE DEF strip
  <2> QED  BY <2>1, <2>3, <2>4, <2>6, <2>7
<1>2. CASE Len(pane.tabs) # 1
  <2>1. move_source(pane, id, retained) = Without(pane, At(pane.tabs, id))
    BY <1>2 DEF move_source
  <2>2. At(pane.tabs, id) \in DOMAIN pane.tabs /\ pane.tabs[At(pane.tabs, id)].id = id
    BY Found
  <2> QED  BY <1>2, <2>1, <2>2, WithoutKeeps
<1> QED  BY <1>1, <1>2

\* Where it arrives it has a place, and is shown.
LEMMA TargetKeeps ==
  ASSUME NEW pane, ValidPane(pane), NEW tab \in TabRecord, tab.id \notin IdsOf(pane.tabs),
         NEW to \in Nat \ {0}
  PROVE  /\ ValidPane(move_target(pane, tab, to))
         /\ IdsOf(move_target(pane, tab, to).tabs) = IdsOf(pane.tabs) \cup {tab.id}
         /\ TabsIn(move_target(pane, tab, to).tabs) = TabsIn(pane.tabs) \cup {tab}
         /\ move_target(pane, tab, to).tabs[Clamped(to, pane.tabs)] = tab
         /\ move_target(pane, tab, to).active = tab.id
<1> DEFINE s == pane.tabs
           i == Clamped(to, s)
           t == InsertAt(s, i, tab)
<1>1. Distinct(s) /\ Len(s) \in Nat
  BY PaneHas DEF ValidPane, Distinct
<1>2. i \in 1 .. Len(s) + 1
  BY <1>1 DEF Clamped
<1>3. move_target(pane, tab, to) = [tabs |-> t, active |-> tab.id] /\ t = InsertAt(s, i, tab)
  BY DEF move_target
<1>4. move_target(pane, tab, to).tabs = t /\ move_target(pane, tab, to).active = tab.id
  BY <1>3
<1>5. s = pane.tabs /\ i = Clamped(to, s)
  OBVIOUS
<1> HIDE DEF s, i, t
<1>6. /\ Distinct(t) /\ t # <<>> /\ IdsOf(t) = IdsOf(s) \cup {tab.id}
      /\ TabsIn(t) = TabsIn(s) \cup {tab} /\ t[i] = tab
  BY <1>1, <1>2, <1>3, <1>5, InsertedTab
<1>7. ValidPane(move_target(pane, tab, to))
  BY <1>3, <1>6, MakesPane DEF Distinct
<1> QED  BY <1>2, <1>3, <1>4, <1>5, <1>6, <1>7

\* What a loop over the tabs to close has made of a pane after k of them.
ClosedAt(pane, closing, n, after) ==
  after = [k \in 0 .. n |-> IF k = 0 THEN pane ELSE close_tab(after[k - 1], closing[k].id)]

\* The loop of close_tabs is defined: it goes from one close to the next.
LEMMA ClosesExist ==
  ASSUME NEW pane, NEW closing, NEW n \in Nat
  PROVE  \E after : ClosedAt(pane, closing, n, after)
<1> DEFINE T == {m \in Nat : ~ \E after : ClosedAt(pane, closing, m, after)}
<1>1. SUFFICES ASSUME T # {}
               PROVE  FALSE
  OBVIOUS
<1>2. PICK m \in T : \A y \in T : m <= y
  BY <1>1, Least
<1>3. CASE m = 0
  <2> DEFINE after == [k \in 0 .. 0 |-> pane]
  <2>1. after = [k \in 0 .. 0 |-> IF k = 0 THEN pane ELSE close_tab(after[k - 1], closing[k].id)]
    OBVIOUS
  <2> QED  BY <1>2, <1>3, <2>1 DEF ClosedAt
<1>4. CASE m # 0
  <2>1. m - 1 \in Nat /\ m - 1 \notin T
    BY <1>2, <1>4
  <2>2. PICK f : ClosedAt(pane, closing, m - 1, f)
    BY <2>1
  <2> DEFINE after == [k \in 0 .. m |-> IF k = 0 THEN pane ELSE close_tab(f[k - 1], closing[k].id)]
  <2>3. f = [k \in 0 .. m - 1 |-> IF k = 0 THEN pane ELSE close_tab(f[k - 1], closing[k].id)]
    BY <2>2 DEF ClosedAt
  <2>4. \A k \in 0 .. m - 1 : after[k] = f[k]
    BY <2>1, <2>3
  <2>5. \A k \in 0 .. m : k = 0 \/ k - 1 \in 0 .. m - 1
    BY <2>1
  <2>6. \A k \in 0 .. m : after[k] = IF k = 0 THEN pane ELSE close_tab(after[k - 1], closing[k].id)
    BY <2>4, <2>5
  <2>7. ClosedAt(pane, closing, m, after)
    BY <2>6 DEF ClosedAt
  <2> QED  BY <1>2, <2>7
<1> QED  BY <1>3, <1>4

\* Closing any of its tabs one after the other leaves a pane with a tab.
LEMMA ClosesKeep ==
  ASSUME NEW pane, ValidPane(pane), NEW closing, NEW n \in Nat
  PROVE  /\ ValidPane(ClosedFirst(pane, closing, n))
         /\ IdsOf(ClosedFirst(pane, closing, n).tabs) \subseteq IdsOf(pane.tabs)
<1> DEFINE After[k \in 0 .. n] ==
             IF k = 0 THEN pane ELSE close_tab(After[k - 1], closing[k].id)
           Good(k) == ValidPane(After[k]) /\ IdsOf(After[k].tabs) \subseteq IdsOf(pane.tabs)
           T == {m \in 0 .. n : ~Good(m)}
<1>1. ClosedFirst(pane, closing, n) = After[n]
  BY DEF ClosedFirst
<1>2. After = [k \in 0 .. n |-> IF k = 0 THEN pane ELSE close_tab(After[k - 1], closing[k].id)]
  <2>1. PICK f : f = [k \in 0 .. n |-> IF k = 0 THEN pane ELSE close_tab(f[k - 1], closing[k].id)]
    <3>1. PICK f : ClosedAt(pane, closing, n, f)
      BY ClosesExist
    <3> QED  BY <3>1 DEF ClosedAt
  <2> QED  BY <2>1
<1> HIDE DEF After
<1>3. SUFFICES ASSUME T # {}
               PROVE  FALSE
  BY <1>1
<1>4. PICK m \in T : \A y \in T : m <= y
  <2>1. T \in SUBSET Nat
    OBVIOUS
  <2> HIDE DEF T
  <2> QED  BY <1>3, <2>1, Least
<1>5. CASE m = 0
  BY <1>2, <1>4, <1>5
<1>6. CASE m # 0
  <2>1. m - 1 \in 0 .. n /\ m - 1 \notin T
    BY <1>4, <1>6
  <2>2. Good(m - 1)
    BY <2>1
  <2>3. After[m] = close_tab(After[m - 1], closing[m].id)
    BY <1>2, <1>4, <1>6
  <2>4. Good(m)
    BY <2>2, <2>3, CloseKeeps
  <2> QED  BY <1>4, <2>4
<1> QED  BY <1>5, <1>6

-----------------------------------------------------------------------------
(* The panes of a Group.  *)

\* Panes that can be used, and no id in two of them.
PanesOK(panes) ==
  /\ panes \in Seq(PaneRecord)
  /\ Len(panes) \in 1 .. PaneSlots
  /\ \A p \in DOMAIN panes : ValidPane(panes[p])
  /\ \A p, q \in DOMAIN panes :
       p # q => IdsOf(panes[p].tabs) \cap IdsOf(panes[q].tabs) = {}

ValidGroup(g) ==
  /\ g = [visible |-> g.visible, active_pane |-> g.active_pane, panes |-> g.panes]
  /\ g.visible \in Slots /\ g.visible <= Len(g.panes)
  /\ g.active_pane \in 1 .. g.visible
  /\ PanesOK(g.panes)

OthersOK ==
  /\ drag \in [source_pane : 0 .. PaneSlots, source_index : Nat, tab_id : TabIds,
               dragging : BOOLEAN, target_pane : 0 .. PaneSlots, target_index : Nat]
  /\ armed \in [pane : 0 .. PaneSlots, index : Nat, tab_id : TabIds]
  /\ grabbed \in TabRecord
  /\ touched \in BOOLEAN

\* TabsReachable says this of the Group.
LEMMA ReachableIs == TabsReachable <=> ValidGroup(group) /\ OthersOK
<1>1. ASSUME TabsReachable
      PROVE  ValidGroup(group) /\ OthersOK
  <2>1. /\ group \in GroupRecord /\ is_valid(group) /\ OthersOK
        /\ group.active_pane \in 1 .. group.visible
        /\ \A p, q \in DOMAIN group.panes :
             p # q => IdsOf(group.panes[p].tabs) \cap IdsOf(group.panes[q].tabs) = {}
    BY <1>1 DEF TabsReachable, TabIdsUnique, TypeOK, OthersOK, ActivePaneVisible, ActivePane,
                Visible, Panes
  <2>2. /\ group = [visible |-> group.visible, active_pane |-> group.active_pane,
                    panes |-> group.panes]
        /\ group.visible \in Slots /\ group.panes \in Seq(PaneRecord)
    BY <2>1 DEF GroupRecord
  <2>3. /\ group.visible <= Len(group.panes) /\ Len(group.panes) <= PaneSlots
        /\ \A p \in DOMAIN group.panes :
             LET pane == group.panes[p] IN
             /\ pane.tabs # <<>>
             /\ pane.active \in IdsOf(pane.tabs)
             /\ \A i, j \in DOMAIN pane.tabs : pane.tabs[i].id = pane.tabs[j].id => i = j
    BY <2>1 DEF is_valid
  <2>4. \A p \in DOMAIN group.panes : group.panes[p] \in PaneRecord
    BY <2>2
  <2>5. \A p \in DOMAIN group.panes : ValidPane(group.panes[p])
    BY <2>3, <2>4 DEF ValidPane
  <2>6. Len(group.panes) \in 1 .. PaneSlots
    BY <2>2, <2>3, PaneSlotsAssumption DEF Slots
  <2> QED  BY <2>1, <2>2, <2>3, <2>5, <2>6 DEF ValidGroup, PanesOK
<1>2. ASSUME ValidGroup(group), OthersOK
      PROVE  TabsReachable
  <2>1. /\ group = [visible |-> group.visible, active_pane |-> group.active_pane,
                    panes |-> group.panes]
        /\ group.visible \in Slots /\ group.panes \in Seq(PaneRecord)
        /\ group.visible <= Len(group.panes) /\ Len(group.panes) \in 1 .. PaneSlots
        /\ group.active_pane \in 1 .. group.visible
    BY <1>2 DEF ValidGroup, PanesOK
  <2>2. group.active_pane \in Slots /\ group.active_pane \in DOMAIN group.panes
    BY <2>1, PaneSlotsAssumption DEF Slots
  <2>3. group \in GroupRecord
    BY <2>1, <2>2 DEF GroupRecord
  <2>4. \A p \in DOMAIN group.panes : ValidPane(group.panes[p])
    BY <1>2 DEF ValidGroup, PanesOK
  <2>5. is_valid(group)
    BY <2>1, <2>2, <2>4 DEF is_valid, ValidPane
  <2>6. \A p, q \in DOMAIN group.panes :
          p # q => IdsOf(group.panes[p].tabs) \cap IdsOf(group.panes[q].tabs) = {}
    BY <1>2 DEF ValidGroup, PanesOK
  <2> QED  BY <1>2, <2>1, <2>3, <2>5, <2>6 DEF TabsReachable, TabIdsUnique, TypeOK, OthersOK,
                ActivePaneVisible, ActivePane, Visible, Panes
<1> QED  BY <1>1, <1>2

\* The ids of a Group are those of its panes.
LEMMA IdIsOfPane ==
  ASSUME NEW panes, NEW id
  PROVE  id \in GroupIds(panes) <=> \E p \in DOMAIN panes : id \in IdsOf(panes[p].tabs)
BY DEF GroupIds

\* A pane has, of its Group's ids, only those that were in its place.
Fits(pane, panes, p) ==
  /\ p \in DOMAIN panes /\ ValidPane(pane)
  /\ \A id \in IdsOf(pane.tabs) : id \in IdsOf(panes[p].tabs) \/ id \notin GroupIds(panes)

Replaced(panes, p, pane) == [panes EXCEPT ![p] = pane]

\* One pane may be replaced by one with its ids, and new ones.
LEMMA ChangedPane ==
  ASSUME NEW panes, PanesOK(panes), NEW p, NEW pane, Fits(pane, panes, p),
         NEW after, after = Replaced(panes, p, pane)
  PROVE  /\ PanesOK(after) /\ Len(after) = Len(panes) /\ DOMAIN after = DOMAIN panes
         /\ after[p] = pane
         /\ \A q \in DOMAIN panes : q # p => after[q] = panes[q]
<1>1. /\ panes \in Seq(PaneRecord) /\ Len(panes) \in 1 .. PaneSlots /\ pane \in PaneRecord
      /\ ValidPane(pane) /\ p \in DOMAIN panes
      /\ \A q \in DOMAIN panes : ValidPane(panes[q])
  BY DEF PanesOK, ValidPane, Fits
<1>2. /\ after \in Seq(PaneRecord) /\ Len(after) = Len(panes) /\ DOMAIN after = DOMAIN panes
      /\ after[p] = pane
      /\ \A q \in DOMAIN panes : q # p => after[q] = panes[q]
  BY <1>1 DEF Replaced
<1>3. \A q \in DOMAIN after : ValidPane(after[q])
  BY <1>1, <1>2
<1>4. ASSUME NEW q \in DOMAIN panes, q # p
      PROVE  IdsOf(panes[q].tabs) \cap IdsOf(pane.tabs) = {}
  <2>1. IdsOf(panes[q].tabs) \cap IdsOf(panes[p].tabs) = {}
    BY <1>1, <1>4 DEF PanesOK
  <2>2. \A id \in IdsOf(panes[q].tabs) : id \in GroupIds(panes)
    BY IdIsOfPane
  <2> QED  BY <2>1, <2>2 DEF Fits
<1>6. \A q, r \in DOMAIN after : q # r => IdsOf(after[q].tabs) \cap IdsOf(after[r].tabs) = {}
  <2> SUFFICES ASSUME NEW q \in DOMAIN panes, NEW r \in DOMAIN panes, q # r
               PROVE  IdsOf(after[q].tabs) \cap IdsOf(after[r].tabs) = {}
    BY <1>2
  <2>1. CASE q # p /\ r # p
    BY <1>2, <2>1 DEF PanesOK
  <2>2. CASE q = p
    BY <1>2, <1>4, <2>2
  <2>3. CASE r = p
    BY <1>2, <1>4, <2>3
  <2> QED  BY <2>1, <2>2, <2>3
<1> QED  BY <1>1, <1>2, <1>3, <1>6 DEF PanesOK

\* The Group after such a replacement.
LEMMA ChangedGroup ==
  ASSUME ValidGroup(group), NEW p, NEW pane, Fits(pane, Panes, p),
         NEW g, g = Changed(p, pane)
  PROVE  /\ ValidGroup(g)
         /\ g.visible = group.visible /\ g.active_pane = group.active_pane
         /\ g.panes = Replaced(Panes, p, pane)
<1> DEFINE after == Replaced(Panes, p, pane)
<1>1. /\ group = [visible |-> group.visible, active_pane |-> group.active_pane, panes |-> Panes]
      /\ PanesOK(Panes) /\ p \in DOMAIN Panes
  BY DEF ValidGroup, Panes, Fits
<1>3. g = [visible |-> group.visible, active_pane |-> group.active_pane, panes |-> after]
  BY <1>1 DEF Changed, Replaced, Panes
<1>4. after = Replaced(Panes, p, pane)
  OBVIOUS
<1> HIDE DEF after
<1>5. PanesOK(after) /\ Len(after) = Len(Panes)
  BY <1>1, <1>4, ChangedPane
<1>6. g.visible = group.visible /\ g.active_pane = group.active_pane /\ g.panes = after
  BY <1>3
<1>7. ValidGroup(g)
  BY <1>3, <1>5, <1>6 DEF ValidGroup, Panes
<1> QED  BY <1>4, <1>6, <1>7

\* A number that is free names no tab yet.
LEMMA NextIsFree ==
  ASSUME NEW panes, NEW id, AreNextIds(panes, <<id>>)
  PROVE  id \notin GroupIds(panes)
BY DEF AreNextIds

-----------------------------------------------------------------------------
(* The inductive invariant.  *)

\* The mouse does one thing at a time.
OneGesture == drag = NoDrag \/ armed = NotArmed

\* As long as no command has run under a drag, it holds the tab it took hold of
\* and the place it would drop it in.
HoldsItsTab ==
  drag # NoDrag /\ ~touched =>
    /\ drag.source_pane \in DOMAIN Panes
    /\ drag.source_index \in DOMAIN Panes[drag.source_pane].tabs
    /\ Panes[drag.source_pane].tabs[drag.source_index] = grabbed
    /\ drag.tab_id = grabbed.id
    /\ drag.target_pane # 0 =>
         /\ drag.target_pane \in DOMAIN Panes
         /\ drag.target_pane # drag.source_pane
         /\ drag.target_index <= Len(Panes[drag.target_pane].tabs) + 1

\* TabsReachable, with what a gesture relies on between press and release.
IInv == ValidGroup(group) /\ OthersOK /\ OneGesture /\ HoldsItsTab

\* What a valid Group gives each of its panes.
LEMMA PaneOfGroup ==
  ASSUME ValidGroup(group), NEW p \in DOMAIN Panes
  PROVE  /\ ValidPane(Panes[p])
         /\ p \in 1 .. PaneSlots /\ p \in Nat \ {0}
         /\ \A q \in DOMAIN Panes : q # p => IdsOf(Panes[q].tabs) \cap IdsOf(Panes[p].tabs) = {}
         /\ IdsOf(Panes[p].tabs) \subseteq GroupIds(Panes)
<1>1. PanesOK(Panes)
  BY DEF ValidGroup, Panes
<1>2. DOMAIN Panes = 1 .. Len(Panes) /\ Len(Panes) \in 1 .. PaneSlots
  BY <1>1 DEF PanesOK
<1>3. IdsOf(Panes[p].tabs) \subseteq GroupIds(Panes)
  BY IdIsOfPane
<1>4. p \in 1 .. PaneSlots /\ p \in Nat \ {0}
  BY <1>2, PaneSlotsAssumption
<1>5. ValidPane(Panes[p])
  BY <1>1 DEF PanesOK
<1>6. \A q \in DOMAIN Panes : q # p => IdsOf(Panes[q].tabs) \cap IdsOf(Panes[p].tabs) = {}
  BY <1>1 DEF PanesOK
<1> QED  BY <1>3, <1>4, <1>5, <1>6

\* A pane that is shown exists.
LEMMA ShownExists ==
  ASSUME ValidGroup(group), NEW p \in Visible
  PROVE  p \in DOMAIN Panes
BY PaneSlotsAssumption DEF ValidGroup, Visible, Panes, PanesOK, Slots

Activated(p, i) == [group EXCEPT !.panes[p].active = Panes[p].tabs[i].id]

\* Another tab of a pane can be shown.
LEMMA ActivateKeeps ==
  ASSUME ValidGroup(group), NEW p \in DOMAIN Panes, NEW i \in DOMAIN Panes[p].tabs,
         NEW g, g = Activated(p, i)
  PROVE  /\ ValidGroup(g)
         /\ g.visible = group.visible /\ Len(g.panes) = Len(Panes)
         /\ \A q \in DOMAIN Panes : g.panes[q].tabs = Panes[q].tabs
<1> DEFINE pane == Panes[p]
           new == [tabs |-> pane.tabs, active |-> pane.tabs[i].id]
<1>1. /\ pane = [tabs |-> pane.tabs, active |-> pane.active] /\ pane.tabs[i].id \in IdsOf(pane.tabs)
      /\ ValidPane(pane)
  BY PaneOfGroup, PaneHas, IdIsOfTab
<1>2. ValidPane(new)
  <2>1. pane.tabs \in Seq(TabRecord)
    BY <1>1, PaneHas
  <2> QED  BY <1>1, <2>1, MakesPane DEF ValidPane
<1>3. new.tabs = pane.tabs
  OBVIOUS
<1>4. new = [pane EXCEPT !.active = pane.tabs[i].id]
  BY <1>1
<1>5. g = Changed(p, new)
  BY <1>4 DEF Activated, Changed, ValidGroup, Panes
<1> HIDE DEF new
<1>6. Fits(new, Panes, p)
  BY <1>2, <1>3 DEF Fits
<1>7. ValidGroup(g) /\ g.visible = group.visible /\ g.panes = Replaced(Panes, p, new)
  <2>1. PICK h : h = g
    OBVIOUS
  <2>2. h = Changed(p, new)
    BY <1>5, <2>1
  <2>3. ValidGroup(group)
    OBVIOUS
  <2>4. ValidGroup(h) /\ h.visible = group.visible /\ h.panes = Replaced(Panes, p, new)
    BY ONLY <2>2, <2>3, <1>6, ChangedGroup
  <2> QED  BY <2>1, <2>4
<1>8. \A q \in DOMAIN Panes : g.panes[q] = IF q = p THEN new ELSE Panes[q]
  BY <1>7 DEF Replaced
<1>9. Len(g.panes) = Len(Panes)
  <2>1. Panes \in Seq(PaneRecord) /\ new \in PaneRecord
    BY <1>2 DEF ValidGroup, PanesOK, Panes, ValidPane
  <2> QED  BY <1>7, <2>1 DEF Replaced
<1> QED  BY <1>3, <1>7, <1>8, <1>9

\* A pane that is shown can be the active one.
LEMMA FocusKeeps ==
  ASSUME NEW g, ValidGroup(g), NEW q \in 1 .. g.visible, NEW h, h = [g EXCEPT !.active_pane = q]
  PROVE  ValidGroup(h) /\ h.panes = g.panes /\ h.visible = g.visible
<1>1. /\ g = [visible |-> g.visible, active_pane |-> g.active_pane, panes |-> g.panes]
      /\ g.visible \in Slots /\ g.visible <= Len(g.panes) /\ PanesOK(g.panes)
  BY DEF ValidGroup
<1>2. h = [visible |-> g.visible, active_pane |-> q, panes |-> g.panes]
  BY <1>1
<1> QED  BY <1>1, <1>2 DEF ValidGroup

\* A command under a gesture only has to leave a valid Group.
LEMMA UnderKeeps ==
  ASSUME IInv, Under, ValidGroup(group')
  PROVE  IInv'
<1>1. OthersOK' /\ OneGesture'
  BY DEF IInv, Under, OthersOK, OneGesture
<1>2. HoldsItsTab'
  BY DEF Under, Idle, HoldsItsTab
<1> QED  BY <1>1, <1>2 DEF IInv

\* Add.
LEMMA NewTabKeeps ==
  ASSUME IInv, NEW p \in DOMAIN Panes, NEW id \in TabIds, NewTab(p, id)
  PROVE  IInv'
<1>1. /\ id \notin GroupIds(Panes) /\ group' = Changed(p, add_tab(Panes[p], id)) /\ Under
      /\ ValidGroup(group)
  BY NextIsFree DEF NewTab, IInv
<1>2. ValidPane(Panes[p]) /\ id \notin IdsOf(Panes[p].tabs)
  BY <1>1, PaneOfGroup
<1>3. /\ ValidPane(add_tab(Panes[p], id))
      /\ IdsOf(add_tab(Panes[p], id).tabs) = IdsOf(Panes[p].tabs) \cup {id}
  BY <1>2, AddKeeps
<1>4. Fits(add_tab(Panes[p], id), Panes, p)
  BY <1>1, <1>3 DEF Fits
<1>5. ValidGroup(group')
  BY <1>1, <1>4, ChangedGroup
<1> QED  BY <1>1, <1>5, UnderKeeps

\* A pane that has lost tabs fits in its place.
LEMMA FewerFit ==
  ASSUME NEW pane, ValidPane(pane), NEW p \in DOMAIN Panes,
         IdsOf(pane.tabs) \subseteq IdsOf(Panes[p].tabs)
  PROVE  Fits(pane, Panes, p)
BY DEF Fits

\* Close.
LEMMA CloseTabKeeps ==
  ASSUME IInv, NEW p \in DOMAIN Panes, NEW i, CloseTab(p, i)
  PROVE  IInv'
<1> DEFINE pane == close_tab(Panes[p], Panes[p].tabs[i].id)
<1>1. group' = Changed(p, pane) /\ Under /\ ValidGroup(group)
  BY DEF CloseTab, IInv
<1>2. ValidPane(Panes[p])
  BY <1>1, PaneOfGroup
<1>3. ValidPane(pane) /\ IdsOf(pane.tabs) \subseteq IdsOf(Panes[p].tabs)
  BY <1>2, CloseKeeps
<1> HIDE DEF pane
<1>4. ValidGroup(group')
  BY <1>1, <1>3, FewerFit, ChangedGroup
<1> QED  BY <1>1, <1>4, UnderKeeps

\* Close several.
LEMMA CloseTabsKeeps ==
  ASSUME IInv, NEW p \in DOMAIN Panes, NEW i, NEW command, NEW closed \in Nat,
         CloseTabs(p, i, command, closed)
  PROVE  IInv'
<1> DEFINE pane == ClosedFirst(Panes[p], Closing(Panes[p].tabs, i, command), closed)
<1>1. group' = Changed(p, pane) /\ Under /\ ValidGroup(group)
  BY DEF CloseTabs, IInv
<1>2. ValidPane(Panes[p])
  BY <1>1, PaneOfGroup
<1>3. ValidPane(pane) /\ IdsOf(pane.tabs) \subseteq IdsOf(Panes[p].tabs)
  BY <1>2, ClosesKeep
<1> HIDE DEF pane
<1>4. ValidGroup(group')
  BY <1>1, <1>3, FewerFit, ChangedGroup
<1> QED  BY <1>1, <1>4, UnderKeeps

\* Show another tab.
LEMMA ActivateTabKeeps ==
  ASSUME IInv, NEW p \in DOMAIN Panes, NEW i \in DOMAIN Panes[p].tabs, ActivateTab(p, i)
  PROVE  IInv'
<1>1. ValidGroup(group')
  BY ActivateKeeps DEF IInv, ActivateTab, Activated
<1> QED  BY <1>1, UnderKeeps DEF ActivateTab

\* The next tab, or the one before.
LEMMA CycleTabKeeps ==
  ASSUME IInv, NEW reverse \in BOOLEAN, CycleTab(reverse)
  PROVE  IInv'
<1> DEFINE strip == Panes[ActivePane].tabs
           i == At(strip, Panes[ActivePane].active)
           j == IF reverse THEN (IF i = 1 THEN Len(strip) ELSE i - 1)
                           ELSE (IF i = Len(strip) THEN 1 ELSE i + 1)
<1>1. ActivePane \in DOMAIN Panes
  BY ShownExists DEF IInv, ValidGroup, ActivePane, Visible
<1>2. ValidPane(Panes[ActivePane])
  BY <1>1, PaneOfGroup DEF IInv
<1>3. /\ i \in DOMAIN strip /\ DOMAIN strip = 1 .. Len(strip) /\ Len(strip) \in Nat \ {0}
  BY <1>2, PaneHas, Found DEF ValidPane
<1>4. ActivateTab(ActivePane, j)
  BY DEF CycleTab
<1>5. j \in DOMAIN strip
  <2> HIDE DEF i, strip
  <2> QED  BY <1>3
<1> HIDE DEF j
<1> QED  BY <1>1, <1>4, <1>5, ActivateTabKeeps

\* Another pane.
LEMMA FocusPaneKeeps ==
  ASSUME IInv, NEW p \in Visible, FocusPane(p)
  PROVE  IInv'
<1>1. ValidGroup(group')
  BY FocusKeeps DEF IInv, FocusPane, Visible
<1> QED  BY <1>1, UnderKeeps DEF FocusPane

\* The panes of a valid Group, and one step of typing for the drag.
LEMMA DragTyped ==
  ASSUME OthersOK
  PROVE  /\ drag.source_pane \in 0 .. PaneSlots /\ drag.source_index \in Nat
         /\ drag.tab_id \in TabIds /\ drag.dragging \in BOOLEAN
         /\ drag.target_pane \in 0 .. PaneSlots /\ drag.target_index \in Nat
BY DEF OthersOK

\* A press on a tab.
LEMMA PressTabKeeps ==
  ASSUME IInv, NEW p \in DOMAIN Panes, NEW q \in Visible, NEW i \in DOMAIN Panes[p].tabs,
         PressTab(p, i, q)
  PROVE  IInv'
<1> DEFINE tab == Panes[p].tabs[i]
           g == [group EXCEPT !.panes[p].active = tab.id]
<1>1. /\ ValidGroup(group) /\ OthersOK /\ armed = NotArmed /\ armed' = armed
      /\ grabbed' = tab /\ touched' = FALSE
      /\ drag' = [NoDrag EXCEPT !.source_pane = p, !.source_index = i, !.tab_id = tab.id]
      /\ group' = [group EXCEPT !.active_pane = q, !.panes[p].active = tab.id]
  BY DEF IInv, PressTab
<1>2. /\ ValidPane(Panes[p]) /\ p \in 1 .. PaneSlots
  BY <1>1, PaneOfGroup
<1>3. tab \in TabRecord /\ tab.id \in TabIds /\ i \in Nat
  BY <1>2, PaneHas
<1>0. g = Activated(p, i)
  BY DEF Activated
<1>5. group' = [g EXCEPT !.active_pane = q]
  BY <1>1 DEF ValidGroup
<1> HIDE DEF g, tab
<1>4. ValidGroup(g) /\ g.visible = group.visible /\ Len(g.panes) = Len(Panes)
      /\ \A r \in DOMAIN Panes : g.panes[r].tabs = Panes[r].tabs
  BY <1>0, <1>1, ActivateKeeps
<1>6. q \in 1 .. g.visible
  BY <1>4 DEF Visible
<1>7. ValidGroup(group') /\ group'.panes = g.panes
  BY <1>4, <1>5, <1>6, FocusKeeps
<1>8. drag' = [source_pane |-> p, source_index |-> i, tab_id |-> tab.id, dragging |-> FALSE,
               target_pane |-> 0, target_index |-> 0]
  BY <1>1 DEF NoDrag
<1>9. OthersOK'
  <2>1. p \in 0 .. PaneSlots /\ 0 \in 0 .. PaneSlots /\ 0 \in Nat
    BY <1>2, PaneSlotsAssumption
  <2>2. drag' \in [source_pane : 0 .. PaneSlots, source_index : Nat, tab_id : TabIds,
                   dragging : BOOLEAN, target_pane : 0 .. PaneSlots, target_index : Nat]
    BY <1>3, <1>8, <2>1
  <2> QED  BY <1>1, <1>3, <2>2 DEF OthersOK
<1>10. OneGesture'
  BY <1>1 DEF OneGesture
<1>11. HoldsItsTab'
  <2>1. DOMAIN Panes' = DOMAIN Panes
    <3>1. PanesOK(g.panes) /\ PanesOK(Panes)
      BY <1>1, <1>4 DEF ValidGroup, Panes
    <3> QED  BY <1>4, <1>7, <3>1 DEF Panes, PanesOK
  <2>2. Panes'[p].tabs = Panes[p].tabs
    BY <1>4, <1>7 DEF Panes
  <2>3. Panes'[p].tabs[i] = tab
    BY <2>2 DEF tab
  <2>4. /\ drag'.source_pane = p /\ drag'.source_index = i /\ drag'.tab_id = tab.id
        /\ drag'.target_pane = 0
    BY <1>8
  <2> QED  BY <1>1, <2>1, <2>2, <2>3, <2>4 DEF HoldsItsTab
<1> QED  BY <1>7, <1>9, <1>10, <1>11 DEF IInv

\* The cursor moves.
LEMMA DragKeeps ==
  ASSUME IInv, NEW hit, NEW slot \in Nat, NEW in_viewport, Drag(hit, slot, in_viewport),
         hit = 0 \/ (hit \in Visible /\ slot <= Len(Panes[hit].tabs))
  PROVE  IInv'
<1> DEFINE other == hit # 0 /\ hit # drag.source_pane
           pane == IF other THEN hit ELSE 0
           index == IF slot # 0 THEN slot
                    ELSE IF other /\ in_viewport THEN Len(Panes[hit].tabs) + 1
                    ELSE 0
<1>1. /\ ValidGroup(group) /\ OthersOK /\ OneGesture /\ HoldsItsTab
      /\ drag # NoDrag /\ UNCHANGED <<group, armed, grabbed, touched>>
      /\ drag' = [drag EXCEPT !.dragging = TRUE, !.target_pane = pane, !.target_index = index]
  BY DEF IInv, Drag
<1>2. hit # 0 => hit \in DOMAIN Panes /\ hit \in 1 .. PaneSlots /\ ValidPane(Panes[hit])
  BY <1>1, ShownExists, PaneOfGroup
<1>3. hit # 0 => Len(Panes[hit].tabs) \in Nat
  BY <1>2, PaneHas
<1>4. pane \in 0 .. PaneSlots /\ index \in Nat
  BY <1>2, <1>3, PaneSlotsAssumption
<1>5. pane # 0 => /\ pane \in DOMAIN Panes /\ pane # drag.source_pane
                  /\ index <= Len(Panes[pane].tabs) + 1
  BY <1>2, <1>3
<1> HIDE DEF other, pane, index
<1>6. /\ drag'.source_pane = drag.source_pane /\ drag'.source_index = drag.source_index
      /\ drag'.tab_id = drag.tab_id /\ drag'.target_pane = pane /\ drag'.target_index = index
  BY <1>1 DEF OthersOK
<1>7. OthersOK'
  BY <1>1, <1>4 DEF OthersOK
<1>8. armed = NotArmed
  BY <1>1 DEF OneGesture
<1>9. HoldsItsTab'
  BY <1>1, <1>5, <1>6 DEF HoldsItsTab, Panes
<1> QED  BY <1>1, <1>7, <1>8, <1>9 DEF IInv, OneGesture

\* No gesture and nothing armed.
LEMMA RestTyped ==
  /\ NoDrag \in [source_pane : 0 .. PaneSlots, source_index : Nat, tab_id : TabIds,
                 dragging : BOOLEAN, target_pane : 0 .. PaneSlots, target_index : Nat]
  /\ NotArmed \in [pane : 0 .. PaneSlots, index : Nat, tab_id : TabIds]
BY PaneSlotsAssumption, MaxTabAssumption DEF NoDrag, NotArmed, TabIds

\* The gesture ends.
LEMMA CancelKeeps ==
  ASSUME IInv, CancelGesture
  PROVE  IInv'
<1>1. /\ ValidGroup(group) /\ OthersOK /\ UNCHANGED <<group, grabbed, touched>>
      /\ drag' = NoDrag /\ armed' = NotArmed
  BY DEF IInv, CancelGesture
<1>2. OthersOK'
  BY <1>1, RestTyped DEF OthersOK
<1> QED  BY <1>1, <1>2 DEF IInv, OneGesture, HoldsItsTab

\* A press on a close button.
LEMMA PressCloseKeeps ==
  ASSUME IInv, NEW p \in DOMAIN Panes, NEW q \in Visible, NEW i \in DOMAIN Panes[p].tabs,
         PressClose(p, i, q)
  PROVE  IInv'
<1>1. /\ ValidGroup(group) /\ OthersOK /\ group' = [group EXCEPT !.active_pane = q]
      /\ drag' = NoDrag /\ armed' = [pane |-> p, index |-> i, tab_id |-> Panes[p].tabs[i].id]
      /\ grabbed' = Panes[p].tabs[i] /\ touched' = FALSE
  BY DEF IInv, PressClose
<1>2. ValidPane(Panes[p]) /\ p \in 1 .. PaneSlots
  BY <1>1, PaneOfGroup
<1>3. Panes[p].tabs[i] \in TabRecord /\ Panes[p].tabs[i].id \in TabIds /\ i \in Nat
  BY <1>2, PaneHas
<1>4. OthersOK'
  <2>1. p \in 0 .. PaneSlots
    BY <1>2, PaneSlotsAssumption
  <2>2. armed' \in [pane : 0 .. PaneSlots, index : Nat, tab_id : TabIds]
    BY <1>1, <1>3, <2>1
  <2>3. grabbed' \in TabRecord /\ touched' \in BOOLEAN
    BY <1>1, <1>3
  <2> QED  BY <1>1, <2>2, <2>3, RestTyped DEF OthersOK
<1>5. ValidGroup(group')
  BY <1>1, FocusKeeps DEF Visible
<1> QED  BY <1>1, <1>4, <1>5 DEF IInv, OneGesture, HoldsItsTab

\* The button is released over its tab.
LEMMA ReleaseCloseKeeps ==
  ASSUME IInv, ReleaseClose
  PROVE  IInv'
<1> DEFINE p == armed.pane
           pane == close_tab(Panes[p], armed.tab_id)
<1>1. /\ ValidGroup(group) /\ OthersOK /\ OneGesture /\ armed # NotArmed /\ armed' = NotArmed
      /\ p \in DOMAIN Panes /\ group' = Changed(p, pane) /\ UNCHANGED <<drag, grabbed, touched>>
  BY DEF IInv, ReleaseClose
<1>2. drag = NoDrag
  BY <1>1 DEF OneGesture
<1>3. ValidPane(pane) /\ IdsOf(pane.tabs) \subseteq IdsOf(Panes[p].tabs)
  BY <1>1, PaneOfGroup, CloseKeeps
<1> HIDE DEF p, pane
<1>4. ValidGroup(group')
  BY <1>1, <1>3, FewerFit, ChangedGroup
<1>5. OthersOK'
  BY <1>1, RestTyped DEF OthersOK
<1> QED  BY <1>1, <1>2, <1>4, <1>5 DEF IInv, OneGesture, HoldsItsTab

\* What a reordering makes of the Group.
LEMMA ReorderMade ==
  ASSUME ValidGroup(group), OthersOK, Reorder
  PROVE  /\ ValidGroup(group')
         /\ DropPane = drag.source_pane /\ DropPane \in DOMAIN Panes
         /\ drag.tab_id \in IdsOf(Panes[DropPane].tabs)
         /\ drag.target_index \in 1 .. Len(Panes[DropPane].tabs)
         /\ Panes' = Replaced(Panes, DropPane,
                       reorder_tab(Panes[DropPane], drag.tab_id, drag.target_index))
<1> DEFINE p == DropPane
           pane == reorder_tab(Panes[p], drag.tab_id, drag.target_index)
<1>1. /\ p = drag.source_pane /\ p \in DOMAIN Panes /\ drag.tab_id \in IdsOf(Panes[p].tabs)
      /\ drag.target_index # 0 /\ drag.target_index <= Len(Panes[p].tabs)
      /\ group' = Changed(p, pane)
  BY DEF Reorder, Reorders, Drops
<1>2. ValidPane(Panes[p])
  BY <1>1, PaneOfGroup
<1>3. drag.target_index \in 1 .. Len(Panes[p].tabs)
  BY <1>1, <1>2, PaneHas, DragTyped
<1>4. ValidPane(pane) /\ IdsOf(pane.tabs) = IdsOf(Panes[p].tabs)
  BY <1>1, <1>2, <1>3, ReorderKeeps
<1>5. pane = reorder_tab(Panes[p], drag.tab_id, drag.target_index) /\ p = DropPane
  OBVIOUS
<1> HIDE DEF p, pane
<1>6. Fits(pane, Panes, p)
  BY <1>1, <1>4, FewerFit
<1>7. ValidGroup(group') /\ group'.panes = Replaced(Panes, p, pane)
  BY <1>1, <1>6, ChangedGroup
<1> QED  BY <1>1, <1>3, <1>5, <1>7 DEF Panes

\* What a move makes of it.
LEMMA MoveMade ==
  ASSUME ValidGroup(group), OthersOK, NEW retained \in TabIds, MoveTo(retained),
         NEW s, s = drag.source_pane, NEW d, d = DropPane,
         NEW tab, tab = Panes[s].tabs[At(Panes[s].tabs, drag.tab_id)]
  PROVE  /\ ValidGroup(group')
         /\ s \in DOMAIN Panes /\ d \in DOMAIN Panes /\ s # d
         /\ drag.tab_id \in IdsOf(Panes[s].tabs) /\ drag.tab_id \notin IdsOf(Panes[d].tabs)
         /\ tab \in TabRecord /\ tab.id = drag.tab_id /\ drag.target_index \in Nat \ {0}
         /\ DOMAIN Panes' = DOMAIN Panes
         /\ Panes'[s] = move_source(Panes[s], drag.tab_id, retained)
         /\ Panes'[d] = move_target(Panes[d], tab, drag.target_index)
         /\ \A p \in DOMAIN Panes : p # s /\ p # d => Panes'[p] = Panes[p]
<1> DEFINE left == move_source(Panes[s], drag.tab_id, retained)
           given == move_target(Panes[d], tab, drag.target_index)
<1>1. /\ {s, d} \subseteq DOMAIN Panes /\ drag.tab_id \in IdsOf(Panes[s].tabs)
      /\ drag.target_index # 0 /\ d # s /\ drag.tab_id \notin IdsOf(Panes[d].tabs)
      /\ AreNextIds(Panes, <<retained>>)
  BY DEF MoveTo, Moves, Drops
<1>2. s \in DOMAIN Panes /\ d \in DOMAIN Panes /\ retained \notin GroupIds(Panes)
  BY <1>1, NextIsFree
<1>3. /\ ValidPane(Panes[s]) /\ ValidPane(Panes[d]) /\ drag.target_index \in Nat \ {0}
      /\ retained \notin IdsOf(Panes[s].tabs)
  BY <1>1, <1>2, PaneOfGroup, DragTyped
<1>4. tab \in TabRecord /\ tab.id = drag.tab_id
  <2>1. At(Panes[s].tabs, drag.tab_id) \in DOMAIN Panes[s].tabs
    BY <1>1, Found
  <2> QED  BY <1>1, <1>3, <2>1, PaneHas, Found
<1>5. /\ ValidPane(left) /\ drag.tab_id \notin IdsOf(left.tabs)
      /\ IdsOf(left.tabs) \subseteq IdsOf(Panes[s].tabs) \cup {retained}
  BY <1>1, <1>3, SourceKeeps
<1>6. /\ ValidPane(given) /\ IdsOf(given.tabs) = IdsOf(Panes[d].tabs) \cup {drag.tab_id}
  <2>1. /\ ValidPane(Panes[d]) /\ tab \in TabRecord /\ tab.id \notin IdsOf(Panes[d].tabs)
        /\ drag.target_index \in Nat \ {0}
    BY <1>1, <1>3, <1>4
  <2>2. /\ ValidPane(given) /\ IdsOf(given.tabs) = IdsOf(Panes[d].tabs) \cup {tab.id}
    BY ONLY <2>1, TargetKeeps
  <2> QED  BY <1>4, <2>2
<1>7. group' = [group EXCEPT !.panes[s] = left, !.panes[d] = given]
  <2>1. group' = [group EXCEPT
          !.panes[drag.source_pane] = move_source(@, drag.tab_id, retained),
          !.panes[DropPane] = move_target(@, tab, drag.target_index)]
    BY DEF MoveTo
  <2>2. group.panes[s] = Panes[s] /\ group.panes[d] = Panes[d]
    BY DEF Panes
  <2> QED  BY <1>1, <1>2, <2>1, <2>2 DEF ValidGroup, Panes
<1> HIDE DEF left, given
<1> DEFINE first == Replaced(Panes, s, left)
           second == Replaced(first, d, given)
<1>8. group' = [visible |-> group.visible, active_pane |-> group.active_pane, panes |-> second]
  BY <1>7 DEF ValidGroup, Replaced, Panes
<1>9. /\ first = Replaced(Panes, s, left) /\ second = Replaced(first, d, given)
      /\ PanesOK(Panes)
  BY DEF ValidGroup, Panes
<1> HIDE DEF first, second
<1>10. Fits(left, Panes, s)
  BY <1>2, <1>5 DEF Fits
<1>11. /\ PanesOK(first) /\ Len(first) = Len(Panes) /\ DOMAIN first = DOMAIN Panes
       /\ first[s] = left
       /\ \A q \in DOMAIN Panes : q # s => first[q] = Panes[q]
  BY <1>9, <1>10, ChangedPane
<1>12. drag.tab_id \notin GroupIds(first)
  <2> SUFFICES ASSUME NEW q \in DOMAIN Panes
               PROVE  drag.tab_id \notin IdsOf(first[q].tabs)
    BY <1>11, IdIsOfPane
  <2>1. CASE q = s
    BY <1>5, <1>11, <2>1
  <2>2. CASE q # s
    BY <1>1, <1>2, <1>11, <2>2, PaneOfGroup
  <2> QED  BY <2>1, <2>2
<1>13. Fits(given, first, d)
  BY <1>1, <1>2, <1>6, <1>11, <1>12 DEF Fits
<1>14. /\ PanesOK(second) /\ Len(second) = Len(first) /\ DOMAIN second = DOMAIN first
       /\ second[d] = given
       /\ \A q \in DOMAIN first : q # d => second[q] = first[q]
  BY <1>9, <1>11, <1>13, ChangedPane
<1>15. ValidGroup(group')
  BY <1>8, <1>11, <1>14 DEF ValidGroup, Panes
<1>16. Panes' = second
  BY <1>8 DEF Panes
<1> QED  BY <1>1, <1>2, <1>3, <1>4, <1>11, <1>14, <1>15, <1>16 DEF left, given

\* The button is released: the drop is made or is none.
LEMMA ReleaseTabKeeps ==
  ASSUME IInv, ReleaseTab
  PROVE  IInv'
<1>1. /\ ValidGroup(group) /\ OthersOK /\ drag' = NoDrag /\ UNCHANGED <<armed, grabbed, touched>>
      /\ OneGesture /\ drag # NoDrag
  BY DEF IInv, ReleaseTab
<1>2. ValidGroup(group')
  <2>1. CASE Reorder
    BY <1>1, <2>1, ReorderMade
  <2>2. ASSUME NEW retained \in TabIds, MoveTo(retained)
        PROVE  ValidGroup(group')
    BY <1>1, <2>2, MoveMade
  <2>3. CASE UNCHANGED group
    BY <1>1, <2>3
  <2> QED  BY <2>1, <2>2, <2>3 DEF ReleaseTab
<1>3. OthersOK'
  BY <1>1, RestTyped DEF OthersOK
<1> QED  BY <1>1, <1>2, <1>3 DEF IInv, OneGesture, HoldsItsTab

\* A pane with a new tab, as a new layout has it.
NewPane(id) == [tabs |-> << Fresh(id) >>, active |-> id]

\* The panes a new layout appends are usable and share no id.
LEMMA GrownKeeps ==
  ASSUME NEW panes, PanesOK(panes), NEW ids \in Seq(TabIds), AreNextIds(panes, ids),
         Len(panes) + Len(ids) <= PaneSlots, NEW r, r = Grown(panes, ids)
  PROVE  /\ PanesOK(r) /\ Len(r) = Len(panes) + Len(ids)
         /\ \A p \in DOMAIN panes : r[p] = panes[p]
         /\ \A p \in DOMAIN r : p > Len(panes) =>
              p - Len(panes) \in DOMAIN ids /\ r[p] = NewPane(ids[p - Len(panes)])
<1> DEFINE new == [k \in DOMAIN ids |-> NewPane(ids[k])]
<1>1. /\ panes \in Seq(PaneRecord) /\ Len(panes) \in 1 .. PaneSlots /\ DOMAIN panes = 1 .. Len(panes)
      /\ Len(ids) \in Nat /\ DOMAIN ids = 1 .. Len(ids)
      /\ \A p \in DOMAIN panes : ValidPane(panes[p])
  BY DEF PanesOK
<1>2. \A id \in TabIds : ValidPane(NewPane(id)) /\ IdsOf(NewPane(id).tabs) = {id}
  <2> SUFFICES ASSUME NEW id \in TabIds
               PROVE  ValidPane(NewPane(id)) /\ IdsOf(NewPane(id).tabs) = {id}
    OBVIOUS
  <2> DEFINE strip == << [id |-> id, content |-> 0] >>
  <2>1. 0 \in 0 .. MaxTab + 1
    BY MaxTabAssumption
  <2>2. ValidPane([tabs |-> strip, active |-> id]) /\ IdsOf(strip) = {id}
    BY <2>1, OneTab
  <2>3. NewPane(id) = [tabs |-> strip, active |-> id]
    BY DEF NewPane, Fresh
  <2>4. NewPane(id).tabs = strip
    BY <2>3
  <2> QED  BY <2>2, <2>3, <2>4
<1>3. \A k \in DOMAIN ids : ids[k] \in TabIds
  BY <1>1
<1>4. \A k \in DOMAIN ids : ValidPane(NewPane(ids[k])) /\ NewPane(ids[k]) \in PaneRecord
  BY <1>2, <1>3 DEF ValidPane
<1>5. /\ new \in Seq(PaneRecord) /\ Len(new) = Len(ids)
      /\ \A k \in DOMAIN ids : new[k] = NewPane(ids[k])
  BY <1>1, <1>4
<1>6. r = panes \o new
  BY DEF Grown, NewPane
<1> HIDE DEF new
<1>7. /\ r \in Seq(PaneRecord) /\ Len(r) = Len(panes) + Len(ids)
      /\ \A p \in 1 .. Len(panes) + Len(ids) :
           r[p] = IF p <= Len(panes) THEN panes[p] ELSE new[p - Len(panes)]
  <2>1. /\ panes \o new \in Seq(PaneRecord) /\ Len(panes \o new) = Len(panes) + Len(new)
        /\ \A p \in 1 .. Len(panes) + Len(new) :
             (panes \o new)[p] = IF p <= Len(panes) THEN panes[p] ELSE new[p - Len(panes)]
    BY <1>1, <1>5, ConcatProperties
  <2> QED  BY <1>5, <1>6, <2>1, Zenon
<1>8. DOMAIN r = 1 .. Len(panes) + Len(ids)
  BY <1>7
<1>9. \A p \in DOMAIN panes : r[p] = panes[p]
  BY <1>1, <1>7
<1>10. ASSUME NEW p \in DOMAIN r, p > Len(panes)
       PROVE  p - Len(panes) \in DOMAIN ids /\ r[p] = NewPane(ids[p - Len(panes)])
  <2>1. p - Len(panes) \in DOMAIN ids /\ p \in 1 .. Len(panes) + Len(ids) /\ ~(p <= Len(panes))
    BY <1>1, <1>8, <1>10
  <2>2. r[p] = new[p - Len(panes)]
    BY <1>7, <2>1
  <2> QED  BY <1>5, <2>1, <2>2
<1>11. ASSUME NEW p \in DOMAIN r
       PROVE  p \in DOMAIN panes \/ p > Len(panes)
  BY <1>1, <1>8
<1>12. \A p \in DOMAIN r : ValidPane(r[p])
  BY <1>1, <1>4, <1>9, <1>10, <1>11
<1>13. ASSUME NEW k \in DOMAIN ids, NEW l \in DOMAIN ids, k # l
       PROVE  ids[k] # ids[l] /\ ids[k] \notin GroupIds(panes)
  <2>1. k < l \/ l < k
    BY <1>1, <1>13
  <2>2. k < l => ids[k] < ids[l]
    BY DEF AreNextIds
  <2>3. l < k => ids[l] < ids[k]
    BY DEF AreNextIds
  <2>4. ids[k] \in Int /\ ids[l] \in Int
    BY <1>3, MaxTabAssumption DEF TabIds
  <2> QED  BY <2>1, <2>2, <2>3, <2>4 DEF AreNextIds
<1>14. \A k \in DOMAIN ids : ids[k] \notin GroupIds(panes)
  BY DEF AreNextIds
<1>15. ASSUME NEW p \in DOMAIN r, NEW q \in DOMAIN r, p # q, p > Len(panes)
       PROVE  IdsOf(r[p].tabs) \cap IdsOf(r[q].tabs) = {}
  <2> DEFINE k == p - Len(panes)
  <2>1. k \in DOMAIN ids /\ r[p] = NewPane(ids[k])
    BY <1>10, <1>15
  <2>2. IdsOf(r[p].tabs) = {ids[k]}
    BY <1>2, <1>3, <2>1
  <2>3. CASE q \in DOMAIN panes
    <3>1. IdsOf(r[q].tabs) \subseteq GroupIds(panes)
      BY <1>9, <2>3, IdIsOfPane
    <3> QED  BY <1>14, <2>1, <2>2, <3>1
  <2>4. CASE q > Len(panes)
    <3> DEFINE l == q - Len(panes)
    <3>1. l \in DOMAIN ids /\ r[q] = NewPane(ids[l])
      BY <1>10, <2>4
    <3>2. IdsOf(r[q].tabs) = {ids[l]}
      BY <1>2, <1>3, <3>1
    <3>3. k # l
      BY <1>1, <1>8, <1>15
    <3> QED  BY <1>13, <2>1, <2>2, <3>1, <3>2, <3>3
  <2> QED  BY <1>11, <2>3, <2>4
<1>16. \A p, q \in DOMAIN r : p # q => IdsOf(r[p].tabs) \cap IdsOf(r[q].tabs) = {}
  <2> SUFFICES ASSUME NEW p \in DOMAIN r, NEW q \in DOMAIN r, p # q
               PROVE  IdsOf(r[p].tabs) \cap IdsOf(r[q].tabs) = {}
    OBVIOUS
  <2>1. CASE p > Len(panes) \/ q > Len(panes)
    BY <1>15, <2>1
  <2>2. CASE p \in DOMAIN panes /\ q \in DOMAIN panes
    BY <1>9, <2>2 DEF PanesOK
  <2> QED  BY <1>11, <2>1, <2>2
<1>17. Len(r) \in 1 .. PaneSlots
  BY <1>1, <1>7, PaneSlotsAssumption
<1> QED  BY <1>7, <1>9, <1>10, <1>12, <1>16, <1>17 DEF PanesOK

\* What a new layout makes of the Group.
LEMMA LayoutMade ==
  ASSUME ValidGroup(group), NEW visible \in Slots, NEW n \in 0 .. PaneSlots,
         NEW ids \in [1 .. n -> TabIds], SetLayout(visible, ids)
  PROVE  /\ ValidGroup(group')
         /\ Len(Panes') = Len(Panes) + Len(ids)
         /\ \A p \in DOMAIN Panes : Panes'[p] = Panes[p]
         /\ \A p \in DOMAIN Panes' : p \notin DOMAIN Panes => \E id \in TabIds : Panes'[p] = NewPane(id)
<1> DEFINE r == Grown(Panes, ids)
<1>1. /\ group.visible \in Slots /\ group.visible <= Len(Panes) /\ Len(Panes) \in Nat \ {0}
      /\ PanesOK(Panes) /\ DOMAIN Panes = 1 .. Len(Panes) /\ Len(Panes) <= PaneSlots
      /\ group.active_pane \in 1 .. group.visible
  <2>1. /\ group.visible \in Slots /\ group.visible <= Len(Panes)
        /\ group.active_pane \in 1 .. group.visible /\ PanesOK(Panes)
    BY DEF ValidGroup, Panes
  <2>2. Panes \in Seq(PaneRecord) /\ Len(Panes) \in 1 .. PaneSlots
    BY <2>1 DEF PanesOK
  <2> QED  BY <2>1, <2>2, PaneSlotsAssumption
<1>2. ids \in Seq(TabIds) /\ Len(ids) \in Nat
  BY PaneSlotsAssumption
<1>3. /\ Len(ids) = IF visible > Len(Panes) THEN visible - Len(Panes) ELSE 0
      /\ AreNextIds(Panes, ids) /\ group' = switch_layout(group, visible, ids)
  BY DEF SetLayout
<1>4. /\ Len(Panes) + Len(ids) <= PaneSlots /\ visible <= Len(Panes) + Len(ids)
      /\ visible \in Nat \ {0} /\ group.active_pane \in Nat \ {0}
  BY <1>1, <1>3, PaneSlotsAssumption DEF Slots
<1>5. r = Grown(Panes, ids)
  OBVIOUS
<1> HIDE DEF r
<1>6. /\ PanesOK(r) /\ Len(r) = Len(Panes) + Len(ids)
      /\ \A p \in DOMAIN Panes : r[p] = Panes[p]
      /\ \A p \in DOMAIN r : p > Len(Panes) =>
           p - Len(Panes) \in DOMAIN ids /\ r[p] = NewPane(ids[p - Len(Panes)])
  BY <1>1, <1>2, <1>3, <1>4, <1>5, GrownKeeps
<1>7. group' = [visible |-> visible, active_pane |-> StillVisible(group.active_pane, visible),
                panes |-> r]
  BY <1>3, <1>5 DEF switch_layout, Panes
<1>8. StillVisible(group.active_pane, visible) \in 1 .. visible
  BY <1>4 DEF StillVisible
<1>9. ValidGroup(group')
  BY <1>4, <1>6, <1>7, <1>8 DEF ValidGroup
<1>10. Panes' = r
  BY <1>7 DEF Panes
<1>11. ASSUME NEW p \in DOMAIN r, p \notin DOMAIN Panes
       PROVE  \E id \in TabIds : r[p] = NewPane(id)
  <2>1. DOMAIN r = 1 .. Len(r)
    BY <1>6 DEF PanesOK
  <2>2. p > Len(Panes)
    BY <1>1, <1>11, <2>1, <1>6
  <2>3. p - Len(Panes) \in DOMAIN ids /\ r[p] = NewPane(ids[p - Len(Panes)])
    BY <1>6, <2>2
  <2> QED  BY <1>2, <2>3
<1> QED  BY <1>6, <1>9, <1>10, <1>11

\* Another layout.
LEMMA RelayoutKeeps ==
  ASSUME IInv, Relayout
  PROVE  IInv'
<1>0. PICK visible \in Slots, n \in 0 .. PaneSlots :
        \E ids \in [1 .. n -> TabIds] : SetLayout(visible, ids)
  BY DEF Relayout
<1>1. PICK ids \in [1 .. n -> TabIds] : SetLayout(visible, ids)
  BY <1>0
<1>2. ValidGroup(group')
  BY <1>1, LayoutMade DEF IInv
<1> QED  BY <1>1, <1>2, UnderKeeps DEF SetLayout

\* The Groups a session may have in the place of the active one can be used.
LEMMA OpenedValid ==
  ASSUME NEW g \in Opened
  PROVE  ValidGroup(g)
<1>1. PICK n \in Slots, first \in 1 .. 2 :
        /\ n + first <= MaxTab + 2
        /\ g = [visible |-> n, active_pane |-> 1, panes |-> Panels(n, first)]
  <2>1. PICK t \in {u \in Slots \X (1 .. 2) : u[1] + u[2] <= MaxTab + 2} :
          g = [visible |-> t[1], active_pane |-> 1, panes |-> Panels(t[1], t[2])]
    BY DEF Opened
  <2> QED  BY <2>1
<1> DEFINE head == [tabs |-> [i \in 1 .. first |-> [id |-> i - 1, content |-> i]], active |-> 0]
           One(p) == [tabs |-> << [id |-> p + first - 1, content |-> p + first] >>,
                      active |-> p + first - 1]
           tail == [p \in 1 .. n - 1 |-> One(p)]
           r == Panels(n, first)
<1>2. n \in Nat \ {0} /\ n <= PaneSlots /\ first \in Nat \ {0} /\ MaxTab \in Nat /\ first <= 2
  BY PaneSlotsAssumption, MaxTabAssumption DEF Slots
<1>3. ValidPane(head) /\ IdsOf(head.tabs) = 0 .. first - 1
  <2> DEFINE s == [i \in 1 .. first |-> [id |-> i - 1, content |-> i]]
  <2>1. \A i \in 1 .. first : [id |-> i - 1, content |-> i] \in TabRecord
    BY <1>1, <1>2 DEF TabRecord, TabIds
  <2>2. /\ s \in Seq(TabRecord) /\ Len(s) = first /\ DOMAIN s = 1 .. first
        /\ \A i \in 1 .. first : s[i].id = i - 1
    BY <1>2, <2>1
  <2> HIDE DEF s
  <2>3. s # <<>> /\ \A i, j \in DOMAIN s : s[i].id = s[j].id => i = j
    BY <1>2, <2>2
  <2>4. IdsOf(s) = 0 .. first - 1
    <3>1. ASSUME NEW id \in IdsOf(s)
          PROVE  id \in 0 .. first - 1
      <4>1. PICK i \in DOMAIN s : s[i].id = id
        BY IdIsOfTab
      <4> QED  BY <1>2, <2>2, <4>1
    <3>2. ASSUME NEW id \in 0 .. first - 1
          PROVE  id \in IdsOf(s)
      <4>1. id + 1 \in DOMAIN s /\ s[id + 1].id = id
        BY <1>2, <2>2
      <4> QED  BY <4>1, IdIsOfTab
    <3> QED  BY <3>1, <3>2
  <2>5. 0 \in IdsOf(s)
    BY <1>2, <2>4
  <2>6. head = [tabs |-> s, active |-> 0]
    BY DEF s
  <2>7. ValidPane(head)
    BY <2>2, <2>3, <2>5, <2>6, MakesPane
  <2> QED  BY <2>4, <2>6, <2>7
<1>4. ASSUME NEW p \in 1 .. n - 1
      PROVE  ValidPane(One(p)) /\ IdsOf(One(p).tabs) = {p + first - 1}
  <2> DEFINE s == << [id |-> p + first - 1, content |-> p + first] >>
  <2>1. p + first - 1 \in TabIds /\ p + first \in 0 .. MaxTab + 1
    BY <1>1, <1>2 DEF TabIds
  <2>2. ValidPane([tabs |-> s, active |-> p + first - 1]) /\ IdsOf(s) = {p + first - 1}
    BY <2>1, OneTab
  <2> QED  BY <2>2
<1>5. r = << head >> \o tail
  BY DEF Panels
<1>6. head \in PaneRecord /\ \A p \in 1 .. n - 1 : One(p) \in PaneRecord
  BY <1>3, <1>4 DEF ValidPane
<1> HIDE DEF head, One
<1>7. /\ tail \in Seq(PaneRecord) /\ Len(tail) = n - 1
      /\ \A p \in 1 .. n - 1 : tail[p] = One(p)
  BY <1>2, <1>6
<1> HIDE DEF tail, r
<1>8. /\ r \in Seq(PaneRecord) /\ Len(r) = n /\ DOMAIN r = 1 .. n
      /\ r[1] = head
      /\ \A p \in 1 .. n : p # 1 => p - 1 \in 1 .. n - 1 /\ r[p] = One(p - 1)
  <2> DEFINE one == << head >>
  <2>1. one \in Seq(PaneRecord) /\ Len(one) = 1 /\ one[1] = head
    BY <1>6
  <2> HIDE DEF one
  <2>2. /\ one \o tail \in Seq(PaneRecord) /\ Len(one \o tail) = Len(one) + Len(tail)
        /\ \A p \in 1 .. Len(one) + Len(tail) :
             (one \o tail)[p] = IF p <= Len(one) THEN one[p] ELSE tail[p - Len(one)]
    BY <1>7, <2>1, ConcatProperties
  <2>3. r = one \o tail
    BY <1>5 DEF one
  <2>4. /\ r \in Seq(PaneRecord) /\ Len(r) = n
        /\ \A p \in 1 .. n : r[p] = IF p <= 1 THEN one[p] ELSE tail[p - 1]
    BY <1>2, <1>7, <2>1, <2>2, <2>3
  <2> QED  BY <1>2, <1>7, <2>1, <2>4
<1>9. \A p \in DOMAIN r : ValidPane(r[p])
  BY <1>3, <1>4, <1>8
<1>10. ASSUME NEW p \in DOMAIN r, NEW q \in DOMAIN r, p # q, p # 1
       PROVE  IdsOf(r[p].tabs) \cap IdsOf(r[q].tabs) = {}
  <2>1. p - 1 \in 1 .. n - 1 /\ r[p] = One(p - 1)
    BY <1>8, <1>10
  <2>2. IdsOf(r[p].tabs) = {(p - 1) + first - 1}
    BY <1>4, <2>1
  <2>3. CASE q = 1
    <3>1. IdsOf(r[q].tabs) = 0 .. first - 1
      BY <1>3, <1>8, <2>3
    <3>2. (p - 1) + first - 1 \notin 0 .. first - 1
      BY <1>2, <2>1
    <3> QED  BY <2>2, <3>1, <3>2
  <2>4. CASE q # 1
    <3>1. q - 1 \in 1 .. n - 1 /\ r[q] = One(q - 1)
      BY <1>8, <2>4
    <3>2. IdsOf(r[q].tabs) = {(q - 1) + first - 1}
      BY <1>4, <3>1
    <3>3. (p - 1) + first - 1 # (q - 1) + first - 1
      BY <1>2, <1>8, <1>10
    <3> QED  BY <2>2, <3>2, <3>3
  <2> QED  BY <2>3, <2>4
<1>11. \A p, q \in DOMAIN r : p # q => IdsOf(r[p].tabs) \cap IdsOf(r[q].tabs) = {}
  BY <1>10
<1>12. PanesOK(r)
  <2>1. Len(r) \in 1 .. PaneSlots
    BY <1>2, <1>8
  <2> QED  BY <1>8, <1>9, <1>11, <2>1 DEF PanesOK
<1>13. g = [visible |-> n, active_pane |-> 1, panes |-> r]
  BY <1>1 DEF r
<1> QED  BY <1>2, <1>8, <1>12, <1>13 DEF ValidGroup

\* The program starts with a Group that can be used and no gesture.
LEMMA InitOK == Init => IInv
<1> SUFFICES ASSUME Init
             PROVE  IInv
  OBVIOUS
<1>1. ValidGroup(group)
  BY OpenedValid DEF Init
<1>2. Fresh(0) \in TabRecord
  BY FreshTab, MaxTabAssumption DEF TabIds
<1>3. OthersOK
  BY <1>2, RestTyped DEF Init, OthersOK
<1> QED  BY <1>1, <1>3 DEF Init, IInv, OneGesture, HoldsItsTab

\* A gesture keeps the invariant.
LEMMA GestureKeeps ==
  ASSUME IInv, Gesture
  PROVE  IInv'
<1>0. ValidGroup(group)
  BY DEF IInv
<1>1. ASSUME NEW p \in DOMAIN Panes, NEW q \in Visible, NEW i \in DOMAIN Panes[p].tabs,
             PressTab(p, i, q) \/ PressClose(p, i, q)
      PROVE  IInv'
  BY <1>1, PressTabKeeps, PressCloseKeeps
<1>2. ASSUME NEW hit \in Visible, NEW in_viewport \in BOOLEAN, NEW slot \in 0 .. Len(Panes[hit].tabs),
             Drag(hit, slot, in_viewport)
      PROVE  IInv'
  <2>1. Len(Panes[hit].tabs) \in Nat
    BY <1>0, ShownExists, PaneOfGroup, PaneHas
  <2>2. slot \in Nat /\ slot <= Len(Panes[hit].tabs)
    BY <2>1
  <2> QED  BY <1>2, <2>2, DragKeeps
<1>3. CASE Drag(0, 0, FALSE)
  <2>1. PICK v : Drag(0, 0, v)
    BY <1>3
  <2> QED  BY <2>1, DragKeeps
<1>4. CASE CancelGesture
  BY <1>4, CancelKeeps
<1>5. CASE ReleaseTab
  BY <1>5, ReleaseTabKeeps
<1>6. CASE ReleaseClose
  BY <1>6, ReleaseCloseKeeps
<1> QED  BY <1>1, <1>2, <1>3, <1>4, <1>5, <1>6 DEF Gesture

\* So does a key command, also in the middle of one.
LEMMA KeyKeeps ==
  ASSUME IInv, Key
  PROVE  IInv'
<1>1. ActivePane \in DOMAIN Panes
  BY ShownExists DEF IInv, ValidGroup, ActivePane, Visible
<1>2. ASSUME NEW id \in TabIds, NewTab(ActivePane, id)
      PROVE  IInv'
  BY <1>1, <1>2, NewTabKeeps
<1>3. CASE CloseTab(ActivePane, At(Panes[ActivePane].tabs, Panes[ActivePane].active))
  BY <1>1, <1>3, CloseTabKeeps
<1>4. ASSUME NEW reverse \in BOOLEAN, CycleTab(reverse)
      PROVE  IInv'
  BY <1>4, CycleTabKeeps
<1>5. ASSUME NEW p \in Visible, FocusPane(p)
      PROVE  IInv'
  BY <1>5, FocusPaneKeeps
<1>6. ASSUME NEW p \in DOMAIN Panes, FolderContext(p)
      PROVE  IInv'
  BY <1>6, FocusPaneKeeps DEF FolderContext
<1>7. CASE Relayout
  BY <1>7, RelayoutKeeps
<1>8. CASE SelectGroup
  <2>1. ValidGroup(group') /\ Under
    BY <1>8, OpenedValid DEF SelectGroup
  <2> QED  BY <2>1, UnderKeeps
<1> QED  BY <1>2, <1>3, <1>4, <1>5, <1>6, <1>7, <1>8 DEF Key

\* And a button, a menu or a hover.
LEMMA MouseKeeps ==
  ASSUME IInv, Mouse
  PROVE  IInv'
<1>1. PICK p \in DOMAIN Panes :
       \/ \E id \in TabIds : NewTab(p, id)
       \/ \E i \in DOMAIN Panes[p].tabs :
            \/ CloseTab(p, i)
            \/ ActivateTab(p, i)
            \/ \E command \in {"all", "others", "to the right"}, closed \in 1 .. Len(Panes[p].tabs) :
                 CloseTabs(p, i, command, closed)
  BY DEF Mouse
<1>2. ASSUME NEW id \in TabIds, NewTab(p, id)
      PROVE  IInv'
  BY <1>2, NewTabKeeps
<1>3. ASSUME NEW i \in DOMAIN Panes[p].tabs, CloseTab(p, i)
      PROVE  IInv'
  BY <1>3, CloseTabKeeps
<1>4. ASSUME NEW i \in DOMAIN Panes[p].tabs, ActivateTab(p, i)
      PROVE  IInv'
  BY <1>4, ActivateTabKeeps
<1>5. ASSUME NEW i \in DOMAIN Panes[p].tabs, NEW command, NEW closed \in 1 .. Len(Panes[p].tabs),
             CloseTabs(p, i, command, closed)
      PROVE  IInv'
  <2>1. Len(Panes[p].tabs) \in Nat
    BY PaneOfGroup, PaneHas DEF IInv
  <2>2. closed \in Nat
    BY <2>1
  <2> QED  BY <1>5, <2>2, CloseTabsKeeps
<1> QED  BY <1>1, <1>2, <1>3, <1>4, <1>5

\* Every step keeps the invariant.
LEMMA StepKeeps == IInv /\ [Next]_vars => IInv'
<1> SUFFICES ASSUME IInv, [Next]_vars
             PROVE  IInv'
  OBVIOUS
<1>1. CASE UNCHANGED vars
  BY <1>1 DEF vars, IInv, ValidGroup, OthersOK, OneGesture, HoldsItsTab, Panes
<1>2. CASE Next
  BY <1>2, GestureKeeps, KeyKeeps, MouseKeeps DEF Next
<1> QED  BY <1>1, <1>2

\* The invariant holds in every state.
THEOREM InvHolds == Spec => []IInv
BY InitOK, StepKeeps, PTL DEF Spec

\* However panes and tabs come, go and are dragged, every pane has a tab to show,
\* the active pane is shown, and ids tell the tabs of a Group apart.
THEOREM TabsStayReachable == Spec => []TabsReachable
<1>1. IInv => TabsReachable
  BY ReachableIs DEF IInv
<1> QED  BY <1>1, InvHolds, PTL

-----------------------------------------------------------------------------
(* A drop moves one tab.  *)

\* Places, of any panes; and the tabs that are in them.
PlacesIn(panes, content) ==
  {place \in Slots \X (1 .. MaxTab + 1) :
     /\ place[1] \in DOMAIN panes /\ place[2] \in DOMAIN panes[place[1]].tabs
     /\ panes[place[1]].tabs[place[2]].content = content}

Held(panes, content) ==
  {tab \in TabRecord : tab.content = content /\ \E p \in DOMAIN panes : tab \in TabsIn(panes[p].tabs)}

\* Ids being different, a pane has at most as many tabs as there are ids.
LEMMA FewTabs ==
  ASSUME NEW pane, ValidPane(pane)
  PROVE  Len(pane.tabs) <= MaxTab + 1
<1> DEFINE s == pane.tabs
           S == 1 .. Len(s)
           f == [i \in S |-> s[i].id]
<1>1. /\ Len(s) \in Nat /\ DOMAIN s = S /\ \A i \in S : s[i].id \in TabIds
      /\ \A i, j \in S : s[i].id = s[j].id => i = j
  BY PaneHas DEF ValidPane
<1>2. /\ IsFiniteSet(S) /\ Cardinality(S) = Len(s)
      /\ IsFiniteSet(TabIds) /\ Cardinality(TabIds) = MaxTab + 1
  <2>1. 1 \in Int /\ Len(s) \in Int /\ 0 \in Int /\ MaxTab \in Int
    BY <1>1, MaxTabAssumption
  <2>2. IsFiniteSet(S) /\ Cardinality(S) = IF 1 > Len(s) THEN 0 ELSE Len(s) - 1 + 1
    BY <2>1, FS_Interval
  <2>3. IsFiniteSet(TabIds) /\ Cardinality(TabIds) = IF 0 > MaxTab THEN 0 ELSE MaxTab - 0 + 1
    BY <2>1, FS_Interval DEF TabIds
  <2> QED  BY <1>1, <2>2, <2>3, MaxTabAssumption
<1>3. f \in [S -> TabIds]
  BY <1>1
<1>4. ~ \E x, y \in S : x # y /\ f[x] = f[y]
  BY <1>1
<1> HIDE DEF f, S, s
<1>5. ~(Cardinality(TabIds) < Cardinality(S))
  BY <1>2, <1>3, <1>4, FS_PigeonHole
<1>6. Len(s) <= MaxTab + 1
  BY <1>1, <1>2, <1>5, MaxTabAssumption
<1> QED  BY <1>6 DEF s

\* Ids being different in all panes, there is a place for each tab.
LEMMA AsManyPlaces ==
  ASSUME NEW panes, PanesOK(panes), NEW content
  PROVE  Cardinality(PlacesIn(panes, content)) = Cardinality(Held(panes, content))
<1> DEFINE S == PlacesIn(panes, content)
           T == Held(panes, content)
           TabAt(place) == panes[place[1]].tabs[place[2]]
           f == [place \in S |-> TabAt(place)]
<1>1. /\ DOMAIN panes = 1 .. Len(panes) /\ Len(panes) \in 1 .. PaneSlots
      /\ \A p \in DOMAIN panes : ValidPane(panes[p])
  BY DEF PanesOK
<1>2. IsFiniteSet(S)
  <2>1. /\ IsFiniteSet(1 .. PaneSlots) /\ IsFiniteSet(1 .. MaxTab + 1)
    BY FS_Interval, PaneSlotsAssumption, MaxTabAssumption
  <2>2. IsFiniteSet(Slots \X (1 .. MaxTab + 1))
    BY <2>1, FS_Product DEF Slots
  <2>3. S \subseteq Slots \X (1 .. MaxTab + 1)
    BY DEF PlacesIn
  <2> QED  BY <2>2, <2>3, FS_Subset
<1>3. ASSUME NEW place \in S
      PROVE  /\ place[1] \in DOMAIN panes /\ place[2] \in DOMAIN panes[place[1]].tabs
             /\ place = <<place[1], place[2]>>
             /\ TabAt(place) \in T
  <2>1. /\ place[1] \in DOMAIN panes /\ place[2] \in DOMAIN panes[place[1]].tabs
        /\ TabAt(place).content = content /\ place = <<place[1], place[2]>>
    BY DEF PlacesIn
  <2>2. TabAt(place) \in TabRecord /\ TabAt(place) \in TabsIn(panes[place[1]].tabs)
    BY <1>1, <2>1, PaneHas DEF TabsIn
  <2> QED  BY <2>1, <2>2 DEF Held
<1>4. f \in [S -> T]
  BY <1>3
<1>5. ASSUME NEW a \in S, NEW b \in S, TabAt(a) = TabAt(b)
      PROVE  a = b
  <2>1. /\ TabAt(a).id \in IdsOf(panes[a[1]].tabs) /\ TabAt(b).id \in IdsOf(panes[b[1]].tabs)
    BY <1>3, IdIsOfTab
  <2>2. a[1] = b[1]
    BY <1>3, <1>5, <2>1 DEF PanesOK
  <2>3. a[2] = b[2]
    BY <1>1, <1>3, <1>5, <2>2 DEF ValidPane
  <2> QED  BY <1>3, <2>2, <2>3
<1>6. ASSUME NEW tab \in T
      PROVE  \E place \in S : TabAt(place) = tab
  <2>1. PICK p \in DOMAIN panes : tab.content = content /\ tab \in TabsIn(panes[p].tabs)
    BY DEF Held
  <2>2. PICK i \in DOMAIN panes[p].tabs : panes[p].tabs[i] = tab
    BY <2>1 DEF TabsIn
  <2>3. p \in Slots
    BY <1>1, PaneSlotsAssumption DEF Slots
  <2>4. i \in 1 .. MaxTab + 1
    BY <1>1, <2>2, FewTabs, PaneHas, MaxTabAssumption
  <2>5. <<p, i>> \in S
    BY <2>1, <2>2, <2>3, <2>4 DEF PlacesIn
  <2> QED  BY <2>2, <2>5
<1>7. \A a, b \in S : f[a] = f[b] => a = b
  BY <1>5
<1>8. \A tab \in T : \E place \in S : f[place] = tab
  BY <1>6
<1> HIDE DEF f, S, T
<1>9. f \in Bijection(S, T)
  BY <1>4, <1>7, <1>8, Fun_IsBij
<1>10. ExistsBijection(S, T)
  BY <1>9 DEF ExistsBijection
<1>11. Cardinality(T) = Cardinality(S)
  BY <1>2, <1>10, FS_Bijection
<1> QED  BY <1>11 DEF S, T

\* The same tabs are in as many places.
LEMMA SameTabs ==
  ASSUME ValidGroup(group), ValidGroup(group'), NEW content,
         Held(Panes', content) = Held(Panes, content)
  PROVE  Cardinality(Places(content)') = Cardinality(Places(content))
<1>1. PanesOK(Panes) /\ PanesOK(Panes')
  BY DEF ValidGroup, Panes
<1>2. Cardinality(PlacesIn(Panes', content)) = Cardinality(PlacesIn(Panes, content))
  BY <1>1, AsManyPlaces
<1>3. Places(content) = PlacesIn(Panes, content) /\ Places(content)' = PlacesIn(Panes', content)
  BY DEF Places, PlacesIn
<1> QED  BY <1>2, <1>3

\* A reordering keeps the tabs and puts the dragged one in its slot.
LEMMA ReorderIsTrue ==
  ASSUME IInv, Reorder, NEW content
  PROVE  /\ Len(Panes') = Len(Panes)
         /\ Held(Panes', content) = Held(Panes, content)
         /\ ~touched /\ drag # NoDrag => Panes'[DropPane].tabs[drag.target_index] = grabbed
<1> DEFINE p == DropPane
           pane == reorder_tab(Panes[p], drag.tab_id, drag.target_index)
<1>1. /\ ValidGroup(group) /\ ValidGroup(group')
      /\ p = drag.source_pane /\ p \in DOMAIN Panes /\ drag.tab_id \in IdsOf(Panes[p].tabs)
      /\ drag.target_index \in 1 .. Len(Panes[p].tabs)
      /\ Panes' = Replaced(Panes, p, pane)
  BY ReorderMade DEF IInv
<1>2. ValidPane(Panes[p])
  BY <1>1, PaneOfGroup
<1>3. /\ TabsIn(pane.tabs) = TabsIn(Panes[p].tabs)
      /\ pane.tabs[drag.target_index] = Panes[p].tabs[At(Panes[p].tabs, drag.tab_id)]
  BY <1>1, <1>2, ReorderKeeps
<1>4. p = DropPane
  OBVIOUS
<1> HIDE DEF p, pane
<1>5. /\ DOMAIN Panes' = DOMAIN Panes /\ Panes'[p] = pane
      /\ \A q \in DOMAIN Panes : TabsIn(Panes'[q].tabs) = TabsIn(Panes[q].tabs)
  BY <1>1, <1>3 DEF Replaced
<1>6. Len(Panes') = Len(Panes)
  <2>1. Panes \in Seq(PaneRecord) /\ Panes' \in Seq(PaneRecord)
    BY <1>1 DEF ValidGroup, PanesOK, Panes
  <2> QED  BY <1>5, <2>1
<1>7. Held(Panes', content) = Held(Panes, content)
  BY <1>5 DEF Held
<1>8. ASSUME ~touched, drag # NoDrag
      PROVE  Panes'[p].tabs[drag.target_index] = grabbed
  <2>1. /\ drag.source_index \in DOMAIN Panes[p].tabs
        /\ Panes[p].tabs[drag.source_index] = grabbed /\ drag.tab_id = grabbed.id
    BY <1>1, <1>8 DEF IInv, HoldsItsTab
  <2>2. At(Panes[p].tabs, drag.tab_id) = drag.source_index
    BY <1>1, <1>2, <2>1, Found DEF ValidPane
  <2> QED  BY <1>3, <1>5, <2>1, <2>2
<1> QED  BY <1>4, <1>6, <1>7, <1>8

\* A move keeps the tabs, puts the dragged one in its slot and shows it.
LEMMA MoveIsTrue ==
  ASSUME IInv, NEW retained \in TabIds, MoveTo(retained), NEW content \in 1 .. MaxTab + 1
  PROVE  /\ Len(Panes') = Len(Panes)
         /\ Held(Panes', content) = Held(Panes, content)
         /\ Panes'[DropPane].active = drag.tab_id
         /\ ~touched /\ drag # NoDrag => Panes'[DropPane].tabs[drag.target_index] = grabbed
<1>1. PICK s, d : s = drag.source_pane /\ d = DropPane
  OBVIOUS
<1>2. PICK tab : tab = Panes[s].tabs[At(Panes[s].tabs, drag.tab_id)]
  OBVIOUS
<1>3. ValidGroup(group) /\ OthersOK
  BY DEF IInv
<1>4. /\ ValidGroup(group')
      /\ s \in DOMAIN Panes /\ d \in DOMAIN Panes /\ s # d
      /\ drag.tab_id \in IdsOf(Panes[s].tabs) /\ drag.tab_id \notin IdsOf(Panes[d].tabs)
      /\ tab \in TabRecord /\ tab.id = drag.tab_id /\ drag.target_index \in Nat \ {0}
      /\ DOMAIN Panes' = DOMAIN Panes
      /\ Panes'[s] = move_source(Panes[s], drag.tab_id, retained)
      /\ Panes'[d] = move_target(Panes[d], tab, drag.target_index)
      /\ \A p \in DOMAIN Panes : p # s /\ p # d => Panes'[p] = Panes[p]
  BY <1>1, <1>2, <1>3, MoveMade
<1>5. Len(Panes') = Len(Panes)
  <2>1. Panes \in Seq(PaneRecord) /\ Panes' \in Seq(PaneRecord)
    BY <1>3, <1>4 DEF ValidGroup, PanesOK, Panes
  <2> QED  BY <1>4, <2>1
<1>6. ValidPane(Panes[s]) /\ ValidPane(Panes[d]) /\ retained \notin IdsOf(Panes[s].tabs)
  <2>1. retained \notin GroupIds(Panes)
    BY NextIsFree DEF MoveTo
  <2> QED  BY <1>3, <1>4, <2>1, PaneOfGroup
<1>7. tab \in TabsIn(Panes[s].tabs)
  BY <1>2, <1>4, Found DEF TabsIn
<1>8. /\ \A t : t \in TabsIn(Panes'[s].tabs) /\ t.content # 0 => t \in TabsIn(Panes[s].tabs)
      /\ \A t : t \in TabsIn(Panes[s].tabs) /\ t # tab => t \in TabsIn(Panes'[s].tabs)
  <2> DEFINE left == move_source(Panes[s], drag.tab_id, retained)
  <2>1. /\ \A t : t \in TabsIn(left.tabs) /\ t.content # 0 => t \in TabsIn(Panes[s].tabs)
        /\ \A t : t \in TabsIn(Panes[s].tabs) /\ t # Panes[s].tabs[At(Panes[s].tabs, drag.tab_id)]
                  => t \in TabsIn(left.tabs)
    <3>1. ValidPane(Panes[s]) /\ drag.tab_id \in IdsOf(Panes[s].tabs)
      BY <1>4, <1>6
    <3>2. retained \in TabIds /\ retained \notin IdsOf(Panes[s].tabs)
      BY <1>6
    <3> QED  BY ONLY <3>1, <3>2, SourceKeeps
  <2>2. Panes'[s] = left
    BY <1>4
  <2> HIDE DEF left
  <2> QED  BY <1>2, <2>1, <2>2
<1>9. /\ TabsIn(Panes'[d].tabs) = TabsIn(Panes[d].tabs) \cup {tab}
      /\ Panes'[d].tabs[Clamped(drag.target_index, Panes[d].tabs)] = tab
      /\ Panes'[d].active = tab.id
  <2> DEFINE given == move_target(Panes[d], tab, drag.target_index)
  <2>1. /\ TabsIn(given.tabs) = TabsIn(Panes[d].tabs) \cup {tab}
        /\ given.tabs[Clamped(drag.target_index, Panes[d].tabs)] = tab
        /\ given.active = tab.id
    <3>1. /\ ValidPane(Panes[d]) /\ tab \in TabRecord /\ tab.id \notin IdsOf(Panes[d].tabs)
          /\ drag.target_index \in Nat \ {0}
      BY <1>4, <1>6
    <3> QED  BY ONLY <3>1, TargetKeeps
  <2>2. Panes'[d] = given
    BY <1>4
  <2> HIDE DEF given
  <2> QED  BY <2>1, <2>2
<1>10. content # 0
  BY MaxTabAssumption
<1>11. Held(Panes', content) \subseteq Held(Panes, content)
  <2> SUFFICES ASSUME NEW p \in DOMAIN Panes, NEW t \in TabsIn(Panes'[p].tabs), t.content = content
               PROVE  \E q \in DOMAIN Panes : t \in TabsIn(Panes[q].tabs)
    BY <1>4 DEF Held
  <2>1. CASE p = s
    BY <1>4, <1>8, <1>10, <2>1
  <2>2. CASE p = d
    BY <1>4, <1>7, <1>9, <2>2
  <2>3. CASE p # s /\ p # d
    BY <1>4, <2>3
  <2> QED  BY <2>1, <2>2, <2>3
<1>12. Held(Panes, content) \subseteq Held(Panes', content)
  <2> SUFFICES ASSUME NEW p \in DOMAIN Panes, NEW t \in TabsIn(Panes[p].tabs), t.content = content
               PROVE  \E q \in DOMAIN Panes : t \in TabsIn(Panes'[q].tabs)
    BY <1>4 DEF Held
  <2>1. CASE p = s /\ t # tab
    BY <1>8, <2>1
  <2>2. CASE t = tab
    BY <1>4, <1>9, <2>2
  <2>3. CASE p = d
    BY <1>9, <2>3
  <2>4. CASE p # s /\ p # d
    BY <1>4, <2>4
  <2> QED  BY <2>1, <2>2, <2>3, <2>4
<1>13. ASSUME ~touched, drag # NoDrag
       PROVE  Panes'[d].tabs[drag.target_index] = grabbed
  <2>1. /\ drag.source_index \in DOMAIN Panes[s].tabs
        /\ Panes[s].tabs[drag.source_index] = grabbed /\ drag.tab_id = grabbed.id
        /\ drag.target_pane # 0 => /\ drag.target_pane \in DOMAIN Panes
                                   /\ drag.target_index <= Len(Panes[drag.target_pane].tabs) + 1
    BY <1>1, <1>13 DEF IInv, HoldsItsTab
  <2>2. drag.target_pane = d
    BY <1>1, <1>4 DEF DropPane
  <2>3. d # 0
    BY <1>3, <1>4, PaneOfGroup
  <2>4. At(Panes[s].tabs, drag.tab_id) = drag.source_index
    BY <1>4, <1>6, <2>1, Found DEF ValidPane
  <2>5. tab = grabbed
    BY <1>2, <2>1, <2>4
  <2>6. Len(Panes[d].tabs) \in Nat
    BY <1>6, PaneHas
  <2>7. Clamped(drag.target_index, Panes[d].tabs) = drag.target_index
    BY <1>4, <2>1, <2>2, <2>3, <2>6 DEF Clamped
  <2> QED  BY <1>9, <2>5, <2>7
<1> QED  BY <1>1, <1>4, <1>5, <1>9, <1>11, <1>12, <1>13

\* New panes have no tab that was there.
LEMMA RelayoutIsTrue ==
  ASSUME IInv, Relayout, NEW content \in 1 .. MaxTab + 1
  PROVE  /\ Len(Panes') >= Len(Panes)
         /\ ValidGroup(group')
         /\ Held(Panes', content) = Held(Panes, content)
<1>1. PICK visible \in Slots, n \in 0 .. PaneSlots :
        \E ids \in [1 .. n -> TabIds] : SetLayout(visible, ids)
  BY DEF Relayout
<1>2. PICK ids \in [1 .. n -> TabIds] : SetLayout(visible, ids)
  BY <1>1
<1>3. /\ ValidGroup(group')
      /\ Len(Panes') = Len(Panes) + Len(ids)
      /\ \A p \in DOMAIN Panes : Panes'[p] = Panes[p]
      /\ \A p \in DOMAIN Panes' : p \notin DOMAIN Panes => \E id \in TabIds : Panes'[p] = NewPane(id)
  BY <1>2, LayoutMade DEF IInv
<1>4. /\ DOMAIN Panes = 1 .. Len(Panes) /\ DOMAIN Panes' = 1 .. Len(Panes')
      /\ Len(Panes) \in Nat /\ Len(Panes') \in Nat
  <2>1. Panes \in Seq(PaneRecord) /\ Panes' \in Seq(PaneRecord)
    BY <1>3 DEF IInv, ValidGroup, PanesOK, Panes
  <2> QED  BY <2>1
<1>5. Len(ids) \in Nat
  BY PaneSlotsAssumption
<1>6. Len(Panes') >= Len(Panes) /\ DOMAIN Panes \subseteq DOMAIN Panes'
  BY <1>3, <1>4, <1>5
<1>7. \A p \in DOMAIN Panes' : p \notin DOMAIN Panes =>
        \A t \in TabsIn(Panes'[p].tabs) : t.content # content
  <2> SUFFICES ASSUME NEW p \in DOMAIN Panes', p \notin DOMAIN Panes, NEW t \in TabsIn(Panes'[p].tabs)
               PROVE  t.content # content
    OBVIOUS
  <2>1. PICK id \in TabIds : Panes'[p] = NewPane(id)
    BY <1>3
  <2>2. Panes'[p].tabs = << Fresh(id) >>
    BY <2>1 DEF NewPane
  <2>3. t = Fresh(id)
    BY <2>2 DEF TabsIn
  <2>4. t.content = 0
    BY <2>3, FreshTab
  <2> QED  BY <2>4, MaxTabAssumption
<1>8. Held(Panes', content) = Held(Panes, content)
  BY <1>3, <1>6, <1>7 DEF Held
<1> QED  BY <1>3, <1>6, <1>8

\* What TabsConserved says of a step.
LEMMA StepConserves ==
  ASSUME IInv, ReleaseTab \/ (group'.visible # group.visible /\ Relayout),
         NEW content \in 1 .. MaxTab + 1
  PROVE  Len(Panes') >= Len(Panes) /\ Cardinality(Places(content)') = Cardinality(Places(content))
<1>1. ValidGroup(group) /\ Len(Panes) \in Nat
  <2>1. ValidGroup(group)
    BY DEF IInv
  <2>2. Panes \in Seq(PaneRecord)
    BY <2>1 DEF ValidGroup, PanesOK, Panes
  <2> QED  BY <2>1, <2>2
<1>2. /\ ValidGroup(group') /\ Len(Panes') >= Len(Panes)
      /\ Held(Panes', content) = Held(Panes, content)
  <2>1. CASE Relayout
    BY <2>1, RelayoutIsTrue
  <2>2. CASE ReleaseTab
    <3>1. ValidGroup(group')
      BY <2>2, ReleaseTabKeeps DEF IInv
    <3>2. CASE Reorder
      BY <1>1, <3>1, <3>2, ReorderIsTrue
    <3>3. ASSUME NEW retained \in TabIds, MoveTo(retained)
          PROVE  Len(Panes') >= Len(Panes) /\ Held(Panes', content) = Held(Panes, content)
      BY <1>1, <3>3, MoveIsTrue
    <3>4. CASE UNCHANGED group
      BY <1>1, <3>4 DEF Panes
    <3> QED  BY <2>2, <3>1, <3>2, <3>3, <3>4 DEF ReleaseTab
  <2> QED  BY <2>1, <2>2
<1>3. Cardinality(Places(content)') = Cardinality(Places(content))
  BY <1>1, <1>2, SameTabs
<1> QED  BY <1>2, <1>3

\* What DropLandsInSlot says of a step.
LEMMA StepLands ==
  ASSUME IInv, ReleaseTab, group' # group, ~touched
  PROVE  /\ Panes'[DropPane].tabs[drag.target_index] = grabbed
         /\ DropPane # drag.source_pane => Panes'[DropPane].active = drag.tab_id
<1>1. drag # NoDrag
  BY DEF ReleaseTab
<1>2. CASE Reorder
  <2>1. DropPane = drag.source_pane
    BY <1>2 DEF Reorder, Reorders
  <2> QED  BY <1>1, <1>2, <2>1, ReorderIsTrue
<1>3. ASSUME NEW retained \in TabIds, MoveTo(retained)
      PROVE  /\ Panes'[DropPane].tabs[drag.target_index] = grabbed
             /\ Panes'[DropPane].active = drag.tab_id
  <2>1. 1 \in 1 .. MaxTab + 1
    BY MaxTabAssumption
  <2> QED  BY <1>1, <1>3, <2>1, MoveIsTrue
<1> QED  BY <1>2, <1>3 DEF ReleaseTab

\* A drop moves exactly one tab, to the slot it was shown over; no pane and no
\* tab is lost or doubled by it, nor by a change of layout.
THEOREM DropsMoveOneTab == Spec => DropMovesOneTab
<1>1. IInv /\ [Next]_vars =>
        [ReleaseTab \/ (group'.visible # group.visible /\ Relayout) =>
           /\ Len(Panes') >= Len(Panes)
           /\ \A content \in 1 .. MaxTab + 1 :
                Cardinality(Places(content)') = Cardinality(Places(content))]_vars
  <2> SUFFICES ASSUME IInv, ReleaseTab \/ (group'.visible # group.visible /\ Relayout)
               PROVE  /\ Len(Panes') >= Len(Panes)
                      /\ \A content \in 1 .. MaxTab + 1 :
                           Cardinality(Places(content)') = Cardinality(Places(content))
    OBVIOUS
  <2>1. 1 \in 1 .. MaxTab + 1
    BY MaxTabAssumption
  <2> QED  BY <2>1, StepConserves
<1>2. IInv /\ [Next]_vars =>
        [ReleaseTab /\ group' # group /\ ~touched =>
           LET pane == Panes'[DropPane] IN
           /\ pane.tabs[drag.target_index] = grabbed
           /\ DropPane # drag.source_pane => pane.active = drag.tab_id]_vars
  BY StepLands
<1>3. Spec => TabsConserved
  BY <1>1, InvHolds, PTL DEF Spec, TabsConserved
<1>4. Spec => DropLandsInSlot
  BY <1>2, InvHolds, PTL DEF Spec, DropLandsInSlot
<1> QED  BY <1>3, <1>4 DEF DropMovesOneTab

-----------------------------------------------------------------------------
(* The inductive invariant of PaneNavigation.  None of the four properties   *)
(* is inductive: what an answer may do depends on the call the UI thread is  *)
(* in and on what the Source still owes, and Refresh takes over what a       *)
(* failed request meant.                                                     *)

\* What the Source owes and how far the listing has come, at each place where
\* the thread can be.
PlaceAndSource ==
  /\ at = "chrome" => source = "none" /\ list.phase = "loading" /\ ~list.resolved /\ retry = 0
  /\ at = "strip" => source = "listing"
  /\ at = "strip, listed" => source = "over" /\ list.phase = "loading" /\ list.resolved
  /\ at = "rebind" => list.phase = "idle"
  /\ source \in {"asked", "listing"} => list.phase = "loading"
  /\ source = "asked" => ~list.resolved /\ retry = 0
  /\ source = "listing" => list.resolved

\* A list that is not empty is the one of the tab on display, and a navigation
\* that is resolved leaves nothing to aim at.
ListOfTab ==
  /\ list.phase # "idle" => Matches(list.binding)
  /\ list.phase = "idle" => ~list.resolved /\ target = 0 /\ retry = 0 /\ ~nav_pending
  /\ list.resolved => /\ Tab.location = Resolved(list.location)
                      /\ target = 0 /\ retry = 0 /\ ~nav_pending
  /\ ~nav_pending => target = 0

\* As long as a navigation is not resolved, the members say what it was for.
MeantStill ==
  list.phase # "idle" /\ ~list.resolved =>
    /\ intent.slot = RetryTarget
    /\ intent.slot = 0 => (intent.same <=> list.location = Tab.location)

NavigationInv ==
  /\ NavigationTypeOK
  /\ NavigationIsOwed
  /\ PlaceAndSource
  /\ ListOfTab
  /\ HistoryNamesLocation
  /\ IntentBelongsToNavigation
  /\ MeantStill

-----------------------------------------------------------------------------
(* Histories. *)

HistoryAt(tab) ==
  tab.history # <<>> =>
    tab.index \in DOMAIN tab.history /\ tab.history[tab.index] = tab.location

\* The Source resolves a name to a folder it knows.
LEMMA ResolvedType == ASSUME NEW l \in Locations PROVE Resolved(l) \in Locations
BY LocationsAssumption DEF LocationsAssumption, Locations, Resolved

\* What record_navigation keeps ends with the folder it leaves.
LEMMA KeptEnds ==
  ASSUME NEW tab \in TabState, HistoryAt(tab)
  PROVE  /\ Kept(tab) \in Seq(Locations) /\ Len(Kept(tab)) \in Nat \ {0}
         /\ Kept(tab)[Len(Kept(tab))] = tab.location
<1>1. tab.history \in Seq(Locations) /\ tab.location \in Locations /\ tab.index \in Nat
  BY DEF TabState
<1>2. CASE tab.history = <<>>
  <2>1. Kept(tab) = <<tab.location>>
    BY <1>2 DEF Kept
  <2> QED
    BY <1>1, <2>1
<1>3. CASE tab.history # <<>>
  <2>1. tab.index \in 1 .. Len(tab.history) /\ tab.history[tab.index] = tab.location
    BY <1>1, <1>3 DEF HistoryAt
  <2>2. Kept(tab) = SubSeq(tab.history, 1, tab.index)
    BY <1>3 DEF Kept
  <2>3. Len(Kept(tab)) = tab.index /\ Kept(tab)[tab.index] = tab.history[tab.index]
    BY <1>1, <2>1, <2>2
  <2>4. Kept(tab) \in Seq(Locations)
    BY <1>1, <2>1, <2>2
  <2> QED
    BY <1>1, <2>1, <2>3, <2>4
<1> QED
  BY <1>2, <1>3

\* Giving the entry a tab is on its canonical name keeps the two together.
LEMMA RenamedKeeps ==
  ASSUME NEW tab \in TabState, HistoryAt(tab), NEW l \in Locations
  PROVE  /\ Renamed(tab, l) \in TabState /\ HistoryAt(Renamed(tab, l))
         /\ Renamed(tab, l).location = l /\ Renamed(tab, l).index = tab.index
         /\ Len(Renamed(tab, l).history) = Len(tab.history)
         /\ \A i \in DOMAIN tab.history \ {tab.index} : Renamed(tab, l).history[i] = tab.history[i]
<1> DEFINE h == IF tab.index \in DOMAIN tab.history THEN [tab.history EXCEPT ![tab.index] = l]
                ELSE tab.history
<1>1. tab.history \in Seq(Locations) /\ tab.index \in Nat
  BY DEF TabState
<1>2. h \in Seq(Locations) /\ Len(h) = Len(tab.history)
  BY <1>1
<1>3. \A i \in DOMAIN tab.history \ {tab.index} : h[i] = tab.history[i]
  BY <1>1
<1>4. h # <<>> => tab.index \in DOMAIN h /\ h[tab.index] = l
  BY <1>1, <1>2 DEF HistoryAt
<1>5. Renamed(tab, l).location = l /\ Renamed(tab, l).history = h /\ Renamed(tab, l).index = tab.index
  BY DEF Renamed, TabState
<1>6. Renamed(tab, l) \in TabState
  BY <1>1, <1>2 DEF Renamed, TabState
<1> HIDE DEF h
<1> QED
  BY <1>1, <1>2, <1>3, <1>4, <1>5, <1>6 DEF HistoryAt

\* Back, Forward and their retries come down on an entry that exists.
LEMMA LandedKeeps ==
  ASSUME NEW tab \in TabState, NEW slot \in DOMAIN tab.history
  PROVE  /\ Landed(tab, slot) \in TabState /\ HistoryAt(Landed(tab, slot))
         /\ Landed(tab, slot).index = slot /\ Landed(tab, slot).history = tab.history
<1>1. tab.history \in Seq(Locations)
  BY DEF TabState
<1>2. slot \in Nat /\ tab.history[slot] \in Locations
  BY <1>1
<1>3. /\ Landed(tab, slot).location = tab.history[slot]
      /\ Landed(tab, slot).history = tab.history /\ Landed(tab, slot).index = slot
  BY DEF Landed, TabState
<1>4. Landed(tab, slot) \in TabState
  BY <1>1, <1>2 DEF Landed, TabState
<1> QED
  BY <1>1, <1>3, <1>4 DEF HistoryAt

\* A new folder goes to the end, after the one it was reached from.
LEMMA RecordedKeeps ==
  ASSUME NEW tab \in TabState, HistoryAt(tab), NEW l \in Locations
  PROVE  /\ record_navigation(tab, l) \in TabState /\ HistoryAt(record_navigation(tab, l))
         /\ record_navigation(tab, l).location = l
         /\ \/ record_navigation(tab, l) = tab
            \/ LET is == record_navigation(tab, l) IN
               is.index = Len(is.history) /\ is.history[is.index - 1] = tab.location
<1>1. CASE l = tab.location
  BY <1>1 DEF record_navigation
<1>2. CASE l # tab.location
  <2> DEFINE n == Len(Kept(tab))
             h == Append(Kept(tab), l)
  <2>1. Kept(tab) \in Seq(Locations) /\ n \in Nat \ {0} /\ Kept(tab)[n] = tab.location
    BY KeptEnds
  <2>2. h \in Seq(Locations) /\ Len(h) = n + 1 /\ h[n + 1] = l /\ h[n] = Kept(tab)[n]
    BY <2>1
  <2>3. record_navigation(tab, l) = [location |-> l, history |-> h, index |-> n + 1]
    BY <1>2 DEF record_navigation
  <2> HIDE DEF n, h
  <2> QED
    BY <2>1, <2>2, <2>3 DEF TabState, HistoryAt
<1> QED
  BY <1>1, <1>2

\* An answer leaves the tab on the folder that was listed, with a history that
\* says so, and with what the navigation was for.
LEMMA CompletedKeeps ==
  ASSUME NEW tab \in TabState, HistoryAt(tab), list.location \in Locations, target \in Nat,
         target # 0 => target \in DOMAIN tab.history
  PROVE  /\ Completed(tab) \in TabState /\ HistoryAt(Completed(tab))
         /\ Completed(tab).location = Resolved(list.location)
         /\ LET is == Completed(tab)
                slot == IF target # 0 THEN target ELSE tab.index
            IN IF target # 0 \/ list.location = tab.location
               THEN /\ is.index = slot /\ Len(is.history) = Len(tab.history)
                    /\ \A i \in DOMAIN tab.history \ {slot} : is.history[i] = tab.history[i]
               ELSE is = tab \/ ( /\ is.index = Len(is.history)
                                  /\ is.history[is.index - 1] = tab.location )
<1>1. Resolved(list.location) \in Locations
  BY ResolvedType
<1>2. CASE target # 0
  <2> DEFINE landed == Landed(tab, target)
  <2>1. landed \in TabState /\ HistoryAt(landed) /\ landed.index = target /\ landed.history = tab.history
    BY <1>2, LandedKeeps
  <2>2. Completed(tab) = Renamed(landed, Resolved(list.location))
    BY <1>2 DEF Completed
  <2> HIDE DEF landed
  <2> QED
    BY <1>1, <1>2, <2>1, <2>2, RenamedKeeps
<1>3. CASE target = 0 /\ tab.location = list.location
  <2>1. Completed(tab) = Renamed(tab, Resolved(list.location))
    BY <1>3 DEF Completed
  <2> QED
    BY <1>1, <1>3, <2>1, RenamedKeeps
<1>4. CASE target = 0 /\ tab.location # list.location
  <2>1. Completed(tab) = record_navigation(tab, Resolved(list.location))
    BY <1>4 DEF Completed
  <2> QED
    BY <1>1, <1>4, <2>1, RecordedKeeps
<1> QED
  BY <1>2, <1>3, <1>4

-----------------------------------------------------------------------------
(* The invariant is inductive. *)

\* A navigation that begins puts every member in its place.
LEMMA BeginKeeps ==
  ASSUME NavigationInv,
         NEW g \in Groups, NEW t \in Tabs, NEW l \in Locations, NEW slot \in Nat,
         NEW is_typed \in BOOLEAN,
         Begin(g, t, l, slot, is_typed),
         tabs' = tabs, active_group' = g, active_tab' \in [Groups -> Tabs], active_tab'[g] = t,
         failed' \in 0 .. MaxGeneration, shutting' \in BOOLEAN,
         slot # 0 => slot \in DOMAIN tabs[g][t].history /\ tabs[g][t].history[slot] = l,
         intent' \in [slot : Nat, same : BOOLEAN], intent'.slot = slot,
         slot = 0 => (intent'.same <=> l = tabs[g][t].location)
  PROVE  NavigationInv'
<1> DEFINE b == [generation |-> pending.generation + 1, group |-> g, tab |-> t]
<1>0. pending.generation + 1 \in 0 .. MaxGeneration /\ pending.generation + 1 # 0
  <2>1. pending.generation \in 0 .. MaxGeneration
    BY DEF NavigationInv, NavigationTypeOK, Binding
  <2>2. pending.generation < MaxGeneration
    BY DEF Begin
  <2> QED
    BY <2>1, <2>2, BoundsAssumption
<1>1. b \in Binding
  BY <1>0 DEF Binding
<1>2. /\ pending' = b /\ target' = slot /\ retry' = 0 /\ typed' = TypedBy(b.generation, is_typed)
      /\ list' = [binding |-> b, location |-> l, phase |-> "loading", resolved |-> FALSE]
      /\ nav_pending' = TRUE /\ source' = "none" /\ at' = "chrome" /\ cut' = FALSE
  BY DEF Begin, Aimed
<1>3. typed' \in {0, b.generation} /\ b.generation \in 0 .. MaxGeneration /\ b.generation # 0
  <2>1. b.generation \in 0 .. MaxGeneration /\ b.generation # 0
    BY <1>0
  <2> QED
    BY <1>2, <2>1 DEF TypedBy
<1> HIDE DEF b
<1>4. NavigationTypeOK'
  <2>1. list' \in [binding : Binding, location : Locations, phase : Phases, resolved : BOOLEAN]
    BY <1>1, <1>2 DEF Phases
  <2>2. tabs' \in [Groups -> [Tabs -> TabState]]
    BY DEF NavigationInv, NavigationTypeOK
  <2>3. typed' \in 0 .. MaxGeneration
    BY <1>3, BoundsAssumption DEF BoundsAssumption
  <2> QED
    BY <1>1, <1>2, <2>1, <2>2, <2>3 DEF NavigationTypeOK
<1>5. Matches(list.binding)'
  BY <1>2 DEF Matches, b
<1>6. NavigationIsOwed' /\ PlaceAndSource'
  BY <1>2 DEF NavigationIsOwed, PlaceAndSource
<1>7. ListOfTab'
  BY <1>2, <1>5 DEF ListOfTab
<1>8. HistoryNamesLocation'
  BY DEF NavigationInv, HistoryNamesLocation
<1>9. Tab' = tabs[g][t]
  BY DEF Tab
<1>10. IntentBelongsToNavigation'
  BY <1>2, <1>3, <1>9 DEF IntentBelongsToNavigation, b
<1>11. MeantStill'
  BY <1>2, <1>9 DEF MeantStill, RetryTarget
<1> QED
  BY <1>4, <1>6, <1>7, <1>8, <1>10, <1>11 DEF NavigationInv

\* What a plain navigation is for.
LEMMA PlainMeant ==
  ASSUME NEW l, NEW tab
  PROVE  /\ PlainTo(l, tab) \in [slot : Nat, same : BOOLEAN] /\ PlainTo(l, tab).slot = 0
         /\ PlainTo(l, tab).same <=> l = tab.location
BY DEF PlainTo

\* What the tab on display and the list hold.
LEMMA HereType ==
  ASSUME NavigationInv
  PROVE  /\ active_group \in Groups /\ active_tab[active_group] \in Tabs /\ active_tab \in [Groups -> Tabs]
         /\ tabs \in [Groups -> [Tabs -> TabState]]
         /\ Tab \in TabState /\ Tab.location \in Locations /\ HistoryAt(Tab)
         /\ list.location \in Locations /\ target \in Nat /\ retry \in Nat
         /\ failed \in 0 .. MaxGeneration /\ shutting \in BOOLEAN
         /\ intent \in [slot : Nat, same : BOOLEAN]
<1>1. /\ active_group \in Groups /\ active_tab \in [Groups -> Tabs] /\ active_tab[active_group] \in Tabs
      /\ tabs \in [Groups -> [Tabs -> TabState]]
  BY DEF NavigationInv, NavigationTypeOK
<1>2. Tab \in TabState
  <2> HIDE DEF TabState
  <2> QED
    BY <1>1 DEF Tab
<1>3. HistoryAt(Tab)
  <2>1. \A g \in Groups, t \in Tabs : HistoryAt(tabs[g][t])
    BY DEF NavigationInv, HistoryNamesLocation, HistoryAt
  <2> QED
    BY <1>1, <2>1 DEF Tab
<1>4. Tab.location \in Locations
  BY <1>2 DEF TabState
<1>5. /\ list.location \in Locations /\ target \in Nat /\ retry \in Nat
      /\ failed \in 0 .. MaxGeneration /\ shutting \in BOOLEAN
      /\ intent \in [slot : Nat, same : BOOLEAN]
  BY DEF NavigationInv, NavigationTypeOK
<1> QED
  BY <1>1, <1>2, <1>3, <1>4, <1>5

\* What the user starts, and the messages that follow it, keep the invariant.
LEMMA UserSteps ==
  ASSUME NavigationInv,
         \/ \E l \in Locations, is_typed \in BOOLEAN : NavigateTo(l, is_typed)
         \/ \E back \in BOOLEAN : NavigateHistory(back)
         \/ RefreshView
         \/ \E t \in Tabs : SwitchTab(t)
         \/ \E g \in Groups : SwitchGroup(g)
         \/ Rebind
         \/ \E l \in Folders : LocationLost(l)
         \/ AddressFailed
  PROVE  NavigationInv'
<1>1. CASE \E l \in Locations, is_typed \in BOOLEAN : NavigateTo(l, is_typed)
  <2>1. PICK l \in Locations, is_typed \in BOOLEAN : NavigateTo(l, is_typed)
    BY <1>1
  <2> QED
    BY <2>1, HereType, BeginKeeps, PlainMeant DEF NavigateTo, BeginHere, model, Tab
<1>2. CASE \E back \in BOOLEAN : NavigateHistory(back)
  <2>1. PICK back \in BOOLEAN : NavigateHistory(back)
    BY <1>2
  <2> DEFINE slot == history_step_target(Tab, target, back)
  <2>2. slot # 0 => slot \in DOMAIN Tab.history
    BY DEF history_step_target
  <2>3. Tab.history \in Seq(Locations)
    BY HereType DEF TabState
  <2>4. /\ slot # 0 /\ BeginHere(Tab.history[slot], slot, FALSE)
        /\ intent' = [slot |-> slot, same |-> FALSE]
        /\ UNCHANGED <<tabs, active_tab, active_group, failed, shutting>>
    BY <2>1 DEF NavigateHistory, model
  <2> HIDE DEF slot
  <2>5. slot \in Nat /\ Tab.history[slot] \in Locations
    BY <2>2, <2>3, <2>4
  <2>6. intent' \in [slot : Nat, same : BOOLEAN] /\ intent'.slot = slot
    BY <2>4, <2>5
  <2> QED
    BY <2>2, <2>4, <2>5, <2>6, HereType, BeginKeeps DEF BeginHere, Tab
<1>3. CASE RefreshView
  <2> DEFINE l == IF list.phase = "idle" THEN Tab.location ELSE Shown(list)
  <2>1. /\ BeginHere(l, RetryTarget, FALSE)
        /\ intent' = IF list.resolved \/ list.phase = "idle" THEN PlainTo(l, Tab) ELSE intent
        /\ UNCHANGED <<tabs, active_tab, active_group, failed, shutting>>
    BY <1>3 DEF RefreshView, model
  <2>2. l \in Locations
    BY HereType, ResolvedType DEF Shown
  <2>3. RetryTarget \in Nat
    BY HereType DEF RetryTarget
  <2>4. CASE list.resolved \/ list.phase = "idle"
    <3>1. RetryTarget = 0 /\ intent' = PlainTo(l, Tab)
      BY <2>1, <2>4 DEF NavigationInv, ListOfTab, RetryTarget
    <3> HIDE DEF l
    <3>2. Begin(active_group, active_tab[active_group], l, 0, FALSE)
      BY <2>1, <3>1 DEF BeginHere
    <3>3. /\ intent' \in [slot : Nat, same : BOOLEAN] /\ intent'.slot = 0
          /\ intent'.same <=> l = tabs[active_group][active_tab[active_group]].location
      BY <3>1, PlainMeant DEF Tab
    <3> QED
      BY <2>1, <2>2, <3>2, <3>3, HereType, BeginKeeps
  <2>5. CASE ~list.resolved /\ list.phase # "idle"
    <3>1. l = list.location /\ intent' = intent
      BY <2>1, <2>5 DEF Shown
    <3>2. intent.slot = RetryTarget /\ (RetryTarget = 0 => (intent.same <=> l = Tab.location))
      BY <2>5, <3>1 DEF NavigationInv, MeantStill
    <3>3. RetryTarget # 0 => RetryTarget \in DOMAIN Tab.history /\ Tab.history[RetryTarget] = l
      BY <3>1 DEF NavigationInv, IntentBelongsToNavigation, RetryTarget
    <3> HIDE DEF l
    <3> QED
      BY <2>1, <2>2, <2>3, <3>1, <3>2, <3>3, HereType, BeginKeeps DEF BeginHere, Tab
  <2> QED
    BY <2>4, <2>5
<1>4. CASE \E t \in Tabs : SwitchTab(t)
  <2>1. PICK t \in Tabs : SwitchTab(t)
    BY <1>4
  <2>2. /\ active_tab' = [active_tab EXCEPT ![active_group] = t]
        /\ Begin(active_group, t, tabs[active_group][t].location, 0, FALSE)
        /\ intent' = PlainTo(tabs[active_group][t].location, tabs[active_group][t])
        /\ UNCHANGED <<tabs, active_group, failed, shutting>>
    BY <2>1 DEF SwitchTab, Begin
  <2>3. tabs[active_group][t].location \in Locations
    <3>1. tabs[active_group][t] \in TabState
      BY HereType
    <3> QED
      BY <3>1 DEF TabState
  <2>4. active_tab' \in [Groups -> Tabs] /\ active_tab'[active_group] = t
    BY <2>2, HereType
  <2> QED
    BY <2>2, <2>3, <2>4, HereType, BeginKeeps, PlainMeant
<1>5. CASE \E g \in Groups : SwitchGroup(g)
  <2>1. PICK g \in Groups : SwitchGroup(g)
    BY <1>5
  <2>2. /\ active_group' = g /\ list' = NoList /\ nav_pending' = FALSE /\ target' = 0 /\ retry' = 0
        /\ source' = "none" /\ at' = "rebind" /\ cut' = FALSE
        /\ UNCHANGED <<tabs, active_tab, pending, typed, failed, shutting, intent>>
    BY <2>1 DEF SwitchGroup
  <2>3. NoList \in [binding : Binding, location : Locations, phase : Phases, resolved : BOOLEAN]
    <3>1. (CHOOSE x \in Groups : TRUE) \in Groups /\ (CHOOSE x \in Tabs : TRUE) \in Tabs
      BY BoundsAssumption DEF BoundsAssumption
    <3> QED
      BY <3>1, LocationsAssumption, BoundsAssumption
      DEF LocationsAssumption, BoundsAssumption, NoList, Binding, Locations, Phases
  <2>4. NavigationTypeOK'
    BY <2>2, <2>3 DEF NavigationInv, NavigationTypeOK
  <2>5. list'.phase = "idle" /\ ~list'.resolved
    BY <2>2 DEF NoList
  <2>6. NavigationIsOwed' /\ PlaceAndSource' /\ ListOfTab' /\ MeantStill'
    BY <2>2, <2>5 DEF NavigationIsOwed, PlaceAndSource, ListOfTab, MeantStill
  <2>7. HistoryNamesLocation' /\ IntentBelongsToNavigation'
    BY <2>2 DEF NavigationInv, HistoryNamesLocation, IntentBelongsToNavigation
  <2> QED
    BY <2>4, <2>6, <2>7 DEF NavigationInv
<1>6. CASE Rebind
  <2>1. CASE shutting
    <3>1. at = "rebind" /\ at' = "loop" /\ UNCHANGED <<tabs, active_tab, active_group, pending, list, nav_pending, target,
              retry, typed, source, intent, cut, failed, shutting>>
      BY <1>6, <2>1 DEF Rebind, members, model, BeginHere, Begin
    <3>2. list.phase = "idle"
      BY <3>1 DEF NavigationInv, PlaceAndSource
    <3> QED
      BY <3>1, <3>2 DEF NavigationInv, NavigationTypeOK, NavigationIsOwed, PlaceAndSource, ListOfTab, HistoryNamesLocation,
        IntentBelongsToNavigation, MeantStill, Matches, Tab, RetryTarget
  <2>2. CASE ~shutting
    <3>1. /\ Begin(active_group, active_tab[active_group], Tab.location, 0, FALSE)
          /\ intent' = PlainTo(Tab.location, Tab)
          /\ UNCHANGED <<tabs, active_tab, active_group, failed, shutting>>
      BY <1>6, <2>2 DEF Rebind, BeginHere, model
    <3>2. /\ intent' \in [slot : Nat, same : BOOLEAN] /\ intent'.slot = 0
          /\ intent'.same <=> Tab.location = tabs[active_group][active_tab[active_group]].location
      BY <3>1, PlainMeant DEF Tab
    <3> QED
      BY <3>1, <3>2, HereType, BeginKeeps
  <2> QED
    BY <2>1, <2>2, HereType
<1>7. CASE \E l \in Folders : LocationLost(l)
  <2>1. PICK l \in Folders : LocationLost(l)
    BY <1>7
  <2>2. l \in Locations
    BY DEF Locations
  <2> QED
    BY <2>1, <2>2, HereType, BeginKeeps, PlainMeant DEF LocationLost, BeginHere, model, Tab
<1>8. CASE AddressFailed
  <2>1. failed' = 0 /\ failed' \in 0 .. MaxGeneration
    BY <1>8, BoundsAssumption DEF BoundsAssumption, AddressFailed
  <2>2. CASE UNCHANGED <<members, source, at, intent, cut>>
    <3>1. UNCHANGED <<tabs, active_tab, active_group, pending, list, nav_pending, target,
              retry, typed, source, at, intent, cut, shutting>>
      BY <1>8, <2>2 DEF AddressFailed, members, model
    <3>2. NavigationTypeOK'
      BY <2>1, <3>1 DEF NavigationInv, NavigationTypeOK
    <3>3. NavigationIsOwed' /\ PlaceAndSource' /\ ListOfTab' /\ HistoryNamesLocation'
      BY <3>1 DEF NavigationInv, NavigationIsOwed, PlaceAndSource, ListOfTab, HistoryNamesLocation, Matches, Tab
    <3>4. IntentBelongsToNavigation' /\ MeantStill'
      BY <3>1 DEF NavigationInv, IntentBelongsToNavigation, MeantStill, Tab, RetryTarget
    <3> QED
      BY <3>2, <3>3, <3>4 DEF NavigationInv
  <2>3. CASE BeginHere(Tab.location, 0, FALSE) /\ intent' = PlainTo(Tab.location, Tab)
    BY <1>8, <2>1, <2>3, HereType, BeginKeeps, PlainMeant DEF AddressFailed, BeginHere, model, Tab
  <2> QED
    BY <1>8, <2>2, <2>3 DEF AddressFailed
<1> QED
  BY <1>1, <1>2, <1>3, <1>4, <1>5, <1>6, <1>7, <1>8

\* A navigation that fails keeps what it meant for a retry.
LEMMA FailedKeeps ==
  ASSUME NavigationInv, Failed, NEW phase \in {"error", "limited"}, list' = [list EXCEPT !.phase = phase],
         source' = "none", at' = "loop",
         UNCHANGED <<model, pending, shutting, intent, cut>>,
         list.phase = "loading", ~list.resolved, retry = 0
  PROVE  NavigationInv'
<1>1. list \in [binding : Binding, location : Locations, phase : Phases, resolved : BOOLEAN]
  BY DEF NavigationInv, NavigationTypeOK
<1>2. /\ list' \in [binding : Binding, location : Locations, phase : Phases, resolved : BOOLEAN]
      /\ list'.phase = phase /\ list'.binding = list.binding /\ list'.location = list.location
      /\ list'.resolved = list.resolved
  BY <1>1 DEF Phases
<1>3. /\ tabs' = tabs /\ active_tab' = active_tab /\ active_group' = active_group /\ pending' = pending /\ intent' = intent
  BY DEF model
<1>4. Tab' = Tab /\ Matches(list.binding)' = Matches(list.binding)
  BY <1>2, <1>3 DEF Tab, Matches
<1>5. NavigationTypeOK'
  <2>1. 0 \in 0 .. MaxGeneration
    BY BoundsAssumption
  <2>2. typed' \in 0 .. MaxGeneration /\ failed' \in 0 .. MaxGeneration
    BY <2>1 DEF NavigationInv, NavigationTypeOK, Failed
  <2> QED
    BY <1>2, <1>3, <2>2 DEF NavigationInv, NavigationTypeOK, Failed
<1>6. NavigationIsOwed' /\ PlaceAndSource'
  BY <1>2 DEF NavigationIsOwed, PlaceAndSource
<1>7. ListOfTab'
  BY <1>2, <1>4 DEF NavigationInv, ListOfTab, Failed
<1>8. HistoryNamesLocation'
  BY <1>3 DEF NavigationInv, HistoryNamesLocation
<1>9. IntentBelongsToNavigation'
  BY <1>2, <1>3, <1>4 DEF NavigationInv, IntentBelongsToNavigation, Failed
<1>10. MeantStill'
  BY <1>2, <1>3, <1>4 DEF NavigationInv, MeantStill, RetryTarget, Failed
<1> QED
  BY <1>5, <1>6, <1>7, <1>8, <1>9, <1>10 DEF NavigationInv

\* The phase of a list on display changes, or nothing of it.
LEMMA PhaseKeeps ==
  ASSUME NavigationInv, UNCHANGED <<model, pending, nav_pending, target, retry, typed, failed, intent>>,
         NEW phase \in {list.phase, "error", "limited", "shown"},
         list' = [list EXCEPT !.phase = phase],
         list.phase = "idle" => phase = "idle",
         source' \in {"none", "asked", "listing", "over"},
         at' \in {"loop", "chrome", "strip", "strip, listed", "rebind"},
         shutting' \in BOOLEAN, cut' \in BOOLEAN,
         NavigationIsOwed', PlaceAndSource',
         target # 0 /\ ~cut' => phase = "loading"
  PROVE  NavigationInv'
<1>1. list \in [binding : Binding, location : Locations, phase : Phases, resolved : BOOLEAN]
  BY DEF NavigationInv, NavigationTypeOK
<1>2. /\ list' \in [binding : Binding, location : Locations, phase : Phases, resolved : BOOLEAN]
      /\ list'.phase = phase /\ list'.binding = list.binding /\ list'.location = list.location
      /\ list'.resolved = list.resolved
  BY <1>1 DEF Phases
<1>3. /\ tabs' = tabs /\ active_tab' = active_tab /\ active_group' = active_group /\ pending' = pending /\ intent' = intent
  BY DEF model
<1>4. Tab' = Tab /\ Matches(list.binding)' = Matches(list.binding)
  BY <1>2, <1>3 DEF Tab, Matches
<1>5. NavigationTypeOK'
  BY <1>2, <1>3 DEF NavigationInv, NavigationTypeOK
<1>6. ListOfTab'
  BY <1>2, <1>4 DEF NavigationInv, ListOfTab
<1>7. HistoryNamesLocation'
  BY <1>3 DEF NavigationInv, HistoryNamesLocation
<1>8. IntentBelongsToNavigation'
  BY <1>2, <1>3, <1>4 DEF NavigationInv, IntentBelongsToNavigation, ListOfTab
<1>9. MeantStill'
  BY <1>2, <1>3, <1>4 DEF NavigationInv, MeantStill, RetryTarget
<1> QED
  BY <1>5, <1>6, <1>7, <1>8, <1>9 DEF NavigationInv

\* The list as it is, seen as a change of its phase.
LEMMA SamePhase ==
  ASSUME NavigationInv, list' = list
  PROVE  list' = [list EXCEPT !.phase = list.phase]
BY DEF NavigationInv, NavigationTypeOK

\* So do the answers that complete no navigation, and a close.
LEMMA AnswerSteps ==
  ASSUME NavigationInv,
         \/ Chrome
         \/ Strip
         \/ Listed
         \/ ListingFailed
         \/ AnswerWhileShutting
         \/ BeginShutdown
         \/ WithdrawShutdown
  PROVE  NavigationInv'
<1>0. /\ source \in {"none", "asked", "listing", "over"}
      /\ at \in {"loop", "chrome", "strip", "strip, listed", "rebind"}
      /\ shutting \in BOOLEAN /\ cut \in BOOLEAN
      /\ list.phase = "idle" => target = 0
      /\ list.resolved => target = 0
      /\ target # 0 /\ ~cut => list.phase = "loading"
  BY DEF NavigationInv, NavigationTypeOK, ListOfTab, IntentBelongsToNavigation
<1>1. CASE Chrome
  <2>1. list.phase = "loading" /\ ~list.resolved /\ retry = 0 /\ source = "none"
    BY <1>1 DEF Chrome, NavigationInv, PlaceAndSource
  <2>2. CASE list' = [list EXCEPT !.phase = "error"] /\ Failed /\ UNCHANGED <<pending, source, cut>>
    <3>1. at' = "loop" /\ UNCHANGED <<model, shutting, intent>>
      BY <1>1 DEF Chrome
    <3> QED
      BY <2>1, <2>2, <3>1, FailedKeeps
  <2>3. CASE /\ UNCHANGED <<pending, list, nav_pending, target, retry, typed, failed>>
             /\ (cut' = TRUE /\ source' = source) \/ (source' = "asked" /\ cut' = cut)
    <3>1. /\ UNCHANGED <<model, pending, nav_pending, target, retry, typed, failed, intent, shutting>>
          /\ at' = "loop" /\ list' = list
      BY <1>1, <2>3 DEF Chrome
    <3>2. NavigationIsOwed' /\ PlaceAndSource'
      BY <2>1, <2>3, <3>1 DEF NavigationIsOwed, PlaceAndSource
    <3> QED
      BY <1>0, <2>1, <2>3, <3>1, <3>2, PhaseKeeps, SamePhase
  <2>4. \/ cut' = TRUE /\ UNCHANGED <<members, failed, source>>
        \/ source' = "asked" /\ UNCHANGED <<members, failed, cut>>
        \/ list' = [list EXCEPT !.phase = "error"] /\ Failed /\ UNCHANGED <<pending, source, cut>>
    BY <1>1 DEF Chrome
  <2> QED
    BY <2>2, <2>3, <2>4 DEF members
<1>2. CASE Strip
  <2>1. /\ at \in {"strip", "strip, listed"} /\ at' = "loop"
        /\ UNCHANGED <<model, pending, nav_pending, target, retry, typed, failed, source, shutting, intent>>
    BY <1>2 DEF Strip
  <2>2. list.phase = "loading" /\ list.resolved /\ source = IF at = "strip" THEN "listing" ELSE "over"
    BY <2>1 DEF NavigationInv, PlaceAndSource
  <2>3. CASE Current(list.binding)
    <3> DEFINE phase == IF at = "strip, listed" THEN "shown" ELSE list.phase
    <3>1. list' = [list EXCEPT !.phase = phase] /\ cut' = cut
      BY <1>2, <2>3 DEF Strip
    <3>2. list'.phase = phase /\ list'.resolved = list.resolved
      BY <3>1 DEF NavigationInv, NavigationTypeOK
    <3>3. phase \in {list.phase, "error", "shown"} /\ phase # "idle" /\ (at = "strip, listed" => phase = "shown")
          /\ (at = "strip" => phase = "loading")
      BY <2>2
    <3> HIDE DEF phase
    <3>4. NavigationIsOwed' /\ PlaceAndSource'
      BY <2>1, <2>2, <3>2, <3>3 DEF NavigationIsOwed, PlaceAndSource
    <3> QED
      BY <1>0, <2>1, <2>2, <3>1, <3>3, <3>4, PhaseKeeps
  <2>4. CASE ~Current(list.binding)
    <3>1. list' = [list EXCEPT !.phase = list.phase] /\ cut' = TRUE /\ list' = list
      BY <1>2, <2>4, SamePhase DEF Strip
    <3>2. NavigationIsOwed' /\ PlaceAndSource'
      BY <2>1, <2>2, <3>1 DEF NavigationIsOwed, PlaceAndSource
    <3> QED
      BY <1>0, <2>1, <2>2, <3>1, <3>2, PhaseKeeps
  <2> QED
    BY <2>3, <2>4
<1>3. CASE Listed
  <2>1. /\ source = "listing" /\ source' = "over" /\ list' = [list EXCEPT !.phase = "shown"]
        /\ UNCHANGED <<model, pending, nav_pending, target, retry, typed, failed, at, shutting, intent, cut>>
        /\ at = "loop"
    BY <1>3 DEF Listed
  <2>2. list.resolved /\ list.phase = "loading"
    BY <2>1 DEF NavigationInv, PlaceAndSource
  <2>3. list'.phase = "shown"
    BY <2>1 DEF NavigationInv, NavigationTypeOK
  <2>4. NavigationIsOwed' /\ PlaceAndSource'
    BY <2>1, <2>3 DEF NavigationIsOwed, PlaceAndSource
  <2> QED
    BY <1>0, <2>1, <2>2, <2>4, PhaseKeeps
<1>4. CASE ListingFailed
  <2>1. PICK phase \in {"error", "limited"} :
        /\ at = "loop" /\ source \in {"asked", "listing"} /\ source' = "none"
        /\ list' = [list EXCEPT !.phase = phase]
        /\ UNCHANGED <<model, pending, at, shutting, intent, cut>>
    BY <1>4 DEF ListingFailed
  <2>2. list.phase = "loading" /\ (source = "asked" => retry = 0) /\ (source = "listing" => list.resolved)
    BY <2>1 DEF NavigationInv, PlaceAndSource
  <2>3. CASE nav_pending
    <3>1. ~list.resolved
      BY <2>3 DEF NavigationInv, ListOfTab
    <3> QED
      BY <1>4, <2>1, <2>2, <2>3, <3>1, FailedKeeps DEF ListingFailed
  <2>4. CASE ~nav_pending
    <3>1. UNCHANGED <<nav_pending, target, retry, typed, failed>> /\ target = 0
      BY <1>4, <2>4 DEF ListingFailed, NavigationInv, ListOfTab
    <3>2. list'.phase = phase
      BY <2>1 DEF NavigationInv, NavigationTypeOK
    <3>3. NavigationIsOwed' /\ PlaceAndSource'
      BY <2>1, <3>2 DEF NavigationIsOwed, PlaceAndSource
    <3> QED
      BY <1>0, <2>1, <2>2, <3>1, <3>3, PhaseKeeps
  <2> QED
    BY <2>3, <2>4
<1>5. CASE AnswerWhileShutting
  <2> DEFINE phase == IF list.phase = "loading" THEN "error" ELSE list.phase
  <2>1. /\ at = "loop" /\ source' = "none" /\ cut' = TRUE
        /\ UNCHANGED <<model, pending, nav_pending, target, retry, typed, failed, at, shutting, intent>>
        /\ list' = IF list.phase = "loading" THEN [list EXCEPT !.phase = "error"] ELSE list
    BY <1>5 DEF AnswerWhileShutting
  <2>2. list' = [list EXCEPT !.phase = phase]
    BY <2>1, SamePhase
  <2>3. list'.phase = phase
    BY <2>2 DEF NavigationInv, NavigationTypeOK
  <2>4. phase \in {list.phase, "error", "shown"} /\ phase # "loading" /\ (list.phase = "idle" => phase = "idle")
    OBVIOUS
  <2> HIDE DEF phase
  <2>5. NavigationIsOwed' /\ PlaceAndSource'
    BY <2>1, <2>3, <2>4 DEF NavigationIsOwed, PlaceAndSource
  <2> QED
    BY <1>0, <2>1, <2>2, <2>4, <2>5, PhaseKeeps
<1>6. CASE BeginShutdown \/ WithdrawShutdown
  <2>1. /\ shutting' \in BOOLEAN /\ list' = list
        /\ UNCHANGED <<model, pending, nav_pending, target, retry, typed, failed, source, at, intent, cut>>
    BY <1>6 DEF BeginShutdown, WithdrawShutdown, members
  <2>2. NavigationIsOwed' /\ PlaceAndSource'
    BY <2>1 DEF NavigationInv, NavigationIsOwed, PlaceAndSource
  <2> QED
    BY <1>0, <2>1, <2>2, PhaseKeeps, SamePhase
<1> QED
  BY <1>1, <1>2, <1>3, <1>4, <1>5, <1>6

\* The answer that completes a navigation moves the tab.
LEMMA CompletionStep ==
  ASSUME NavigationInv, NEW listed \in BOOLEAN, FirstRows(listed)
  PROVE  /\ NavigationInv'
         /\ nav_pending /\ list'.resolved /\ list.binding = list'.binding =>
              LET was == Tab
                  is == Tab'
                  slot == IF intent.slot # 0 THEN intent.slot ELSE was.index
              IN IF intent.slot # 0 \/ intent.same
                 THEN /\ is.index = slot /\ Len(is.history) = Len(was.history)
                      /\ \A i \in DOMAIN was.history \ {slot} : is.history[i] = was.history[i]
                 ELSE is = was \/ ( /\ is.index = Len(is.history)
                                    /\ is.history[is.index - 1] = was.location )
<1>1. /\ at = "loop" /\ source = "asked"
      /\ nav_pending' = FALSE /\ target' = 0 /\ typed' = 0
      /\ list' = [list EXCEPT !.resolved = TRUE]
      /\ tabs' = [tabs EXCEPT ![active_group][active_tab[active_group]] = Completed(@)]
      /\ source' = IF listed THEN "over" ELSE "listing"
      /\ at' = IF listed THEN "strip, listed" ELSE "strip"
      /\ UNCHANGED <<active_tab, active_group, pending, retry, failed, shutting, intent, cut>>
  BY DEF FirstRows
<1>2. list.phase = "loading" /\ ~list.resolved /\ retry = 0
  BY <1>1 DEF NavigationInv, PlaceAndSource
<1>3. target # 0 => target \in DOMAIN Tab.history
  BY DEF NavigationInv, IntentBelongsToNavigation
<1>4. /\ Completed(Tab) \in TabState /\ HistoryAt(Completed(Tab))
      /\ Completed(Tab).location = Resolved(list.location)
  BY <1>3, HereType, CompletedKeeps
<1>5. Tab' = Completed(Tab)
  BY <1>1, HereType DEF Tab
<1>6. \A g \in Groups, t \in Tabs :
        tabs'[g][t] = IF g = active_group /\ t = active_tab[active_group] THEN Completed(Tab) ELSE tabs[g][t]
  BY <1>1, HereType DEF Tab
<1>7. tabs' \in [Groups -> [Tabs -> TabState]]
  <2> HIDE DEF TabState
  <2> QED
    BY <1>1, <1>4, HereType DEF Tab
<1>8. /\ list' \in [binding : Binding, location : Locations, phase : Phases, resolved : BOOLEAN]
      /\ list'.resolved /\ list'.phase = "loading" /\ list'.location = list.location
      /\ list'.binding = list.binding
  BY <1>1, <1>2 DEF NavigationInv, NavigationTypeOK
<1>9. NavigationTypeOK'
  <2>1. 0 \in 0 .. MaxGeneration
    BY BoundsAssumption
  <2> QED
    BY <1>1, <1>7, <1>8, <2>1 DEF NavigationInv, NavigationTypeOK
<1>10. NavigationIsOwed' /\ PlaceAndSource'
  BY <1>1, <1>8 DEF NavigationIsOwed, PlaceAndSource
<1>11. Matches(list.binding)'
  BY <1>1, <1>2, <1>8 DEF NavigationInv, ListOfTab, Matches
<1>12. ListOfTab'
  BY <1>1, <1>2, <1>4, <1>5, <1>8, <1>11 DEF ListOfTab
<1>13. HistoryNamesLocation'
  <2>1. \A g \in Groups, t \in Tabs : HistoryAt(tabs[g][t])
    BY DEF NavigationInv, HistoryNamesLocation, HistoryAt
  <2>2. \A g \in Groups, t \in Tabs : HistoryAt(tabs'[g][t])
    BY <1>4, <1>6, <2>1
  <2> QED
    BY <2>2 DEF HistoryNamesLocation, HistoryAt
<1>14. IntentBelongsToNavigation'
  BY <1>1, <1>2 DEF IntentBelongsToNavigation
<1>15. MeantStill'
  BY <1>8 DEF MeantStill
<1>16. intent.slot = target /\ (target = 0 => (intent.same <=> list.location = Tab.location))
  BY <1>2 DEF NavigationInv, MeantStill, RetryTarget
<1>17. target # 0 => list.location = Tab.history[target]
  BY DEF NavigationInv, IntentBelongsToNavigation
<1> QED
  BY <1>3, <1>5, <1>9, <1>10, <1>12, <1>13, <1>14, <1>15, <1>16, HereType, CompletedKeeps DEF NavigationInv

\* No step breaks the invariant.
LEMMA InvStep == NavigationInv /\ [NavigationNext]_navigation_vars => NavigationInv'
<1> SUFFICES ASSUME NavigationInv, [NavigationNext]_navigation_vars PROVE NavigationInv'
  OBVIOUS
<1>1. CASE UNCHANGED navigation_vars
  <2>1. /\ UNCHANGED <<tabs, active_tab, active_group, pending, list, nav_pending, target, retry, typed>>
        /\ UNCHANGED <<failed, source, at, shutting, intent, cut>>
    BY <1>1 DEF navigation_vars, model, members
  <2>2. NavigationTypeOK'
    BY <2>1 DEF NavigationInv, NavigationTypeOK
  <2>3. NavigationIsOwed' /\ PlaceAndSource' /\ ListOfTab' /\ HistoryNamesLocation'
    BY <2>1 DEF NavigationInv, NavigationIsOwed, PlaceAndSource, ListOfTab, HistoryNamesLocation, Matches, Tab
  <2>4. IntentBelongsToNavigation' /\ MeantStill'
    BY <2>1 DEF NavigationInv, IntentBelongsToNavigation, MeantStill, Tab, RetryTarget
  <2> QED
    BY <2>2, <2>3, <2>4 DEF NavigationInv
<1>2. CASE \E listed \in BOOLEAN : FirstRows(listed)
  BY <1>2, CompletionStep
<1> QED
  BY <1>1, <1>2, UserSteps, AnswerSteps DEF NavigationNext

\* So every state of a behaviour has it.
LEMMA NavigationInvHolds == NavigationSpec => []NavigationInv
<1>1. NavigationInit => NavigationInv
  <2> SUFFICES ASSUME NavigationInit PROVE NavigationInv
    OBVIOUS
  <2>1. /\ NoList.binding \in Binding /\ NoList.location \in Locations /\ NoList.phase = "idle"
        /\ NoList.resolved = FALSE
        /\ NoList \in [binding : Binding, location : Locations, phase : Phases, resolved : BOOLEAN]
        /\ NoList.binding.tab \in Tabs /\ NoList.binding.group \in Groups
    <3>1. (CHOOSE x \in Groups : TRUE) \in Groups /\ (CHOOSE x \in Tabs : TRUE) \in Tabs
      BY BoundsAssumption
    <3> QED
      BY <3>1, LocationsAssumption, BoundsAssumption DEF NoList, Binding, Locations, Phases
  <2>2. \A l \in Locations : [location |-> l, history |-> <<>>, index |-> 0] \in TabState
    BY DEF TabState
  <2>3. tabs \in [Groups -> [Tabs -> TabState]] /\ \A g \in Groups, t \in Tabs : tabs[g][t].history = <<>>
    <3>1. PICK l \in {Home} \cup Aliases :
            tabs = [g \in Groups |-> [t \in Tabs |-> [location |-> l, history |-> <<>>, index |-> 0]]]
      BY DEF NavigationInit
    <3>2. l \in Locations
      BY LocationsAssumption DEF Locations
    <3> HIDE DEF TabState
    <3> QED
      BY <2>2, <3>1, <3>2
  <2>4. NavigationTypeOK
    <3>1. 0 \in 0 .. MaxGeneration
      BY BoundsAssumption
    <3> QED
      BY <2>1, <2>3, <3>1 DEF NavigationInit, NavigationTypeOK, Plain
  <2>5. NavigationIsOwed /\ PlaceAndSource /\ ListOfTab /\ MeantStill
    BY <2>1 DEF NavigationInit, NavigationIsOwed, PlaceAndSource, ListOfTab, MeantStill
  <2>6. HistoryNamesLocation /\ IntentBelongsToNavigation
    BY <2>3 DEF NavigationInit, HistoryNamesLocation, IntentBelongsToNavigation
  <2> QED
    BY <2>4, <2>5, <2>6 DEF NavigationInv
<1> QED
  BY <1>1, InvStep, PTL DEF NavigationSpec

-----------------------------------------------------------------------------
(* What follows from it. *)

\* Answers late, refused, cut by a close or for a tab left long ago never put
\* another folder under the tab that is shown.
THEOREM ShownTab == NavigationSpec => []ShownIsTab
<1>1. NavigationInv => ShownIsTab
  BY DEF NavigationInv, ListOfTab, PlaceAndSource, ShownIsTab
<1> QED
  BY <1>1, NavigationInvHolds, PTL

\* No way to supersede a navigation leaves its target, retry or typed address
\* to the next one.
THEOREM IntentBelongs == NavigationSpec => []IntentBelongsToNavigation
<1>1. NavigationInv => IntentBelongsToNavigation
  BY DEF NavigationInv
<1> QED
  BY <1>1, NavigationInvHolds, PTL

\* A pane that says it is loading has asked, unless a close broke in.
THEOREM LoadingOwed == NavigationSpec => []NavigationIsOwed
<1>1. NavigationInv => NavigationIsOwed
  BY DEF NavigationInv
<1> QED
  BY <1>1, NavigationInvHolds, PTL

\* Only the answer to the navigation in flight moves a tab, and then to where
\* the user meant to go, with nothing else in its history touched; and the
\* history's place always names the folder of the tab.
THEOREM HistoryIsKept == NavigationSpec => HistoryKept
<1>1. NavigationInv => HistoryNamesLocation
  BY DEF NavigationInv
<1>2. ASSUME NavigationInv, [NavigationNext]_navigation_vars, nav_pending, list'.resolved, list.binding = list'.binding
      PROVE  \E listed \in BOOLEAN : FirstRows(listed)
  <2>1. ~list.resolved
    BY <1>2 DEF NavigationInv, ListOfTab
  <2>2. CASE list' = list
    BY <1>2, <2>1, <2>2
  <2>3. CASE \E phase \in {"error", "limited", "shown", list.phase} : list' = [list EXCEPT !.phase = phase]
    BY <1>2, <2>1, <2>3 DEF NavigationInv, NavigationTypeOK
  <2>4. CASE \E g \in Groups, t \in Tabs : \E l, slot, is_typed : Begin(g, t, l, slot, is_typed)
    BY <1>2, <2>4 DEF Begin
  <2>5. CASE list' = NoList
    BY <1>2, <2>5 DEF NoList
  <2>6. CASE (\E back \in BOOLEAN : NavigateHistory(back)) \/ RefreshView \/ Rebind \/ AddressFailed
             \/ (\E l \in Locations, is_typed \in BOOLEAN : NavigateTo(l, is_typed))
             \/ (\E l \in Folders : LocationLost(l))
    BY <2>2, <2>4, <2>6, HereType, <1>2
    DEF NavigateHistory, RefreshView, Rebind, AddressFailed, NavigateTo, LocationLost, BeginHere, members
  <2>7. CASE (\E t \in Tabs : SwitchTab(t)) \/ (\E g \in Groups : SwitchGroup(g))
    BY <2>4, <2>5, <2>7, HereType, <1>2 DEF SwitchTab, SwitchGroup
  <2>8. CASE Chrome \/ Strip \/ Listed \/ ListingFailed \/ AnswerWhileShutting \/ BeginShutdown
             \/ WithdrawShutdown \/ UNCHANGED navigation_vars
    BY <2>2, <2>3, <2>8 DEF Chrome, Strip, Listed, ListingFailed, AnswerWhileShutting, BeginShutdown,
      WithdrawShutdown, members, navigation_vars
  <2> QED
    BY <1>2, <2>6, <2>7, <2>8 DEF NavigationNext
<1>3. NavigationInv /\ [NavigationNext]_navigation_vars =>
        LET was == Tab
            is == Tab'
            slot == IF intent.slot # 0 THEN intent.slot ELSE was.index
        IN nav_pending /\ list'.resolved /\ list.binding = list'.binding =>
             IF intent.slot # 0 \/ intent.same
             THEN /\ is.index = slot /\ Len(is.history) = Len(was.history)
                  /\ \A i \in DOMAIN was.history \ {slot} : is.history[i] = was.history[i]
             ELSE is = was \/ ( /\ is.index = Len(is.history)
                                /\ is.history[is.index - 1] = was.location )
  BY <1>2, CompletionStep
<1> QED
  BY <1>1, <1>3, NavigationInvHolds, PTL DEF NavigationSpec, HistoryKept, CompletionKeepsIntent
=============================================================================
