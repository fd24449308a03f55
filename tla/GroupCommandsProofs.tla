------------------------- MODULE GroupCommandsProofs -------------------------
(***************************************************************************)
(* What GroupCommands promises for any number of panes, Groups, messages   *)
(* and nested calls.  The inductive invariant says how the UI thread's     *)
(* stack can be built, and who on it still owes a pane its binding, its    *)
(* navigation or its place on the screen.                                  *)
(***************************************************************************)
EXTENDS GroupCommands, SequenceTheorems, WellFoundedInduction, TLAPS

-----------------------------------------------------------------------------
(* The stack.  *)

AllBoxes(st) == \A i \in DOMAIN st : st[i].kind = "box"

\* Commands start outside Shell calls, where only boxes can be waiting; a loop
\* that is not on top waits for a call of its own; layout passes never nest.
StackInOrder(st) ==
    /\ \A i, j \in DOMAIN st :
          i < j /\ st[j].kind \in {"menu", "box", "transition"} => st[i].kind = "box"
    /\ \A i \in DOMAIN st :
          st[i].kind \in {"navigate", "layout"} /\ i < Len(st) =>
             st[i + 1].kind = "scope"
    /\ \A i \in DOMAIN st :
          st[i].kind = "transition" /\ i < Len(st) =>
             st[i + 1].kind \in {"scope", "navigate", "layout"}
    /\ \A i \in DOMAIN st :
          st[i].kind = "navigate" => i > 1 /\ st[i - 1].kind = "transition"
    /\ \A i, j \in DOMAIN st :
          st[i].kind = "layout" /\ st[j].kind = "layout" => i = j

Has(f, step) == \E k \in DOMAIN f.steps : f.steps[k] = step

\* A step is ahead: a transition on the stack has yet to take it.
Ahead(st, step) == \E i \in DOMAIN st : Has(st[i], step)

\* A loop on the stack has yet to deal with the pane.
OnTodo(st, kind, p) == \E i \in DOMAIN st : st[i].kind = kind /\ p \in st[i].todo

\* Only transitions have steps, and binding the panes is the first of them.
FrameSteps(f) ==
    /\ f.steps # <<>> => f.kind = "transition"
    /\ \A k \in DOMAIN f.steps : f.steps[k] = "rebind_panes" => k = 1

\* Nothing runs on top of a transition before it has bound the panes.
StepsInOrder(st) ==
    /\ \A i \in DOMAIN st : FrameSteps(st[i])
    /\ \A i \in DOMAIN st : Has(st[i], "rebind_panes") => i = Len(st)

\* What the loops hold a reference to.
LoopsBorn(st, born) ==
    \A i \in DOMAIN st : st[i].kind \in {"layout", "navigate"} => st[i].born = born

\* A menu or a box that knows a Group by its id means that Group, as long as
\* the Group is there.
FrameKnows(f, gs, n) ==
    f.kind \in {"menu", "box"} =>
       /\ f.born <= n
       /\ \A i \in DOMAIN gs : gs[i].born = f.born => gs[i].id = f.id
Knows(st, gs, n) == \A k \in DOMAIN st : FrameKnows(st[k], gs, n)

\* A layout pass has on its list only panes that are on the wrong side.
FrameWork(f, vis, re) ==
    f.kind = "layout" => \A p \in f.todo : re[p] # (p \in vis)
PassWork(st, vis, re) == \A i \in DOMAIN st : FrameWork(st[i], vis, re)

-----------------------------------------------------------------------------
(* The inductive invariant.  *)

RebindAhead == Ahead(stack, "rebind_panes")
NavigateAhead == Ahead(stack, "navigate_realized_panes")
LayoutAhead == Ahead(stack, "apply_layout")

GroupsOK ==
    /\ groups \in Seq(Group)
    /\ \A i, j \in DOMAIN groups : groups[i].id = groups[j].id => i = j
    /\ IF groups = <<>> THEN active = 0 ELSE active \in GroupIds(groups)
    /\ created \in Nat

\* born is a name that is never given twice, and a Group shows no more panes
\* than it has.
GroupsTold ==
    /\ \A i \in DOMAIN groups : groups[i].visible <= groups[i].size
    /\ \A i \in DOMAIN groups : groups[i].born <= created
    /\ \A i, j \in DOMAIN groups : groups[i].born = groups[j].born => i = j

BoundLive ==
    \A p \in Panes : bound[p] # 0 => \E i \in DOMAIN groups : groups[i].born = bound[p]

\* Until a transition has bound the panes again they borrow from Groups that
\* are still there, and no close can have begun.
BoundAsPlanned ==
    IF RebindAhead THEN BoundLive /\ ~ShuttingDown
                   ELSE bound = BoundTo(groups, active)

\* A transition that navigates nothing binds the visible panes to what they
\* are bound to already.
KeptAcrossRebind ==
    ~interrupted /\ RebindAhead /\ ~NavigateAhead =>
       \A p \in Visible(groups, active) : realized[p] => bound[p] = ActiveBorn

\* A live list on a hidden pane is on the list of a pass, or a pass is ahead.
HiddenIsAhead ==
    ~interrupted =>
       \A p \in Panes : realized[p] /\ p \notin Visible(groups, active) =>
          LayoutAhead \/ OnTodo(stack, "layout", p)

\* A live list that shows something else is about to be navigated.
NavigationIsAhead ==
    ~interrupted =>
       \A p \in Visible(groups, active) : realized[p] /\ loaded[p] # ActiveBorn =>
          NavigateAhead \/ OnTodo(stack, "navigate", p)

StackOK ==
    /\ StackInOrder(stack)
    /\ StepsInOrder(stack)
    /\ Knows(stack, groups, created)
    /\ LoopsBorn(stack, ActiveBorn)
    /\ groups # <<>> => PassWork(stack, Visible(groups, active), realized)
    /\ layout.in_progress <=> OnStack(stack, {"layout"})

PanesOK ==
    BoundAsPlanned /\ KeptAcrossRebind /\ HiddenIsAhead /\ NavigationIsAhead

IInv ==
    /\ TypeOK /\ GroupsTold /\ StackOK /\ PanesOK
    /\ HeldOnlyInShell /\ NestedLayoutPosted

-----------------------------------------------------------------------------
(* A stack is what lies below, and its top.  *)

\* A stack that is not empty splits into its top and the rest.
LEMMA TopSplit ==
  ASSUME NEW st \in Seq(Frame), st # <<>>
  PROVE  /\ Front(st) \in Seq(Frame) /\ Last(st) \in Frame
         /\ st = Append(Front(st), Last(st))
BY DEF Front, Last

\* A push leaves the frames below as they are.
LEMMA Pushed ==
  ASSUME NEW st \in Seq(Frame), NEW f \in Frame, NEW t, t = Append(st, f)
  PROVE  /\ DOMAIN t = DOMAIN st \cup {Len(st) + 1} /\ Len(st) + 1 \notin DOMAIN st
         /\ \A i \in DOMAIN st : t[i] = st[i]
         /\ t[Len(st) + 1] = f /\ Len(t) = Len(st) + 1
OBVIOUS

\* And what was put on top is the top.
LEMMA TopOf ==
  ASSUME NEW st \in Seq(Frame), NEW f \in Frame
  PROVE  /\ Append(st, f) \in Seq(Frame) /\ Append(st, f) # <<>>
         /\ Front(Append(st, f)) = st /\ Last(Append(st, f)) = f
BY DEF Front, Last

\* A pushed frame adds its own steps to those that are ahead.
LEMMA AheadPush ==
  ASSUME NEW st \in Seq(Frame), NEW f \in Frame, NEW step
  PROVE  Ahead(Append(st, f), step) <=> Ahead(st, step) \/ Has(f, step)
<1> DEFINE t == Append(st, f)
           n == Len(st) + 1
<1>1. /\ DOMAIN t = DOMAIN st \cup {n} /\ n \notin DOMAIN st
      /\ \A i \in DOMAIN st : t[i] = st[i]
      /\ t[n] = f
  BY Pushed
<1> HIDE DEF t, n
<1>2. Ahead(t, step) <=> Ahead(st, step) \/ Has(f, step)
  BY <1>1 DEF Ahead
<1> QED
  BY <1>2 DEF t

\* Nothing is ahead on an empty stack.
LEMMA EmptyStack ==
  ASSUME NEW step, NEW kind, NEW kinds, NEW p
  PROVE  /\ ~Ahead(<<>>, step) /\ ~OnTodo(<<>>, kind, p) /\ ~OnStack(<<>>, kinds)
         /\ AllBoxes(<<>>)
BY DEF Ahead, OnTodo, OnStack, AllBoxes

\* A pushed frame adds its own panes to those a loop has to deal with.
LEMMA TodoPush ==
  ASSUME NEW st \in Seq(Frame), NEW f \in Frame, NEW kind, NEW p
  PROVE  OnTodo(Append(st, f), kind, p) <=>
            OnTodo(st, kind, p) \/ (f.kind = kind /\ p \in f.todo)
<1> DEFINE t == Append(st, f)
           n == Len(st) + 1
<1>1. /\ DOMAIN t = DOMAIN st \cup {n} /\ n \notin DOMAIN st
      /\ \A i \in DOMAIN st : t[i] = st[i]
      /\ t[n] = f
  BY Pushed
<1> HIDE DEF t, n
<1>2. OnTodo(t, kind, p) <=> OnTodo(st, kind, p) \/ (f.kind = kind /\ p \in f.todo)
  BY <1>1 DEF OnTodo
<1> QED
  BY <1>2 DEF t

\* A pushed frame adds its own kind.
LEMMA KindPush ==
  ASSUME NEW st \in Seq(Frame), NEW f \in Frame, NEW kinds
  PROVE  OnStack(Append(st, f), kinds) <=> OnStack(st, kinds) \/ f.kind \in kinds
<1> DEFINE t == Append(st, f)
           n == Len(st) + 1
<1>1. /\ DOMAIN t = DOMAIN st \cup {n} /\ n \notin DOMAIN st
      /\ \A i \in DOMAIN st : t[i] = st[i]
      /\ t[n] = f
  BY Pushed
<1> HIDE DEF t, n
<1>2. OnStack(t, kinds) <=> OnStack(st, kinds) \/ f.kind \in kinds
  BY <1>1 DEF OnStack
<1> QED
  BY <1>2 DEF t

\* Stacks of boxes are built of boxes.
LEMMA BoxesPush ==
  ASSUME NEW st \in Seq(Frame), NEW f \in Frame
  PROVE  AllBoxes(Append(st, f)) <=> AllBoxes(st) /\ f.kind = "box"
<1> DEFINE t == Append(st, f)
           n == Len(st) + 1
<1>1. /\ DOMAIN t = DOMAIN st \cup {n} /\ n \notin DOMAIN st
      /\ \A i \in DOMAIN st : t[i] = st[i]
      /\ t[n] = f
  BY Pushed
<1> HIDE DEF t, n
<1>2. AllBoxes(t) <=> AllBoxes(st) /\ f.kind = "box"
  BY <1>1 DEF AllBoxes
<1> QED
  BY <1>2 DEF t

\* The steps of a pushed frame: what is below has bound the panes.
LEMMA StepsPush ==
  ASSUME NEW st \in Seq(Frame), NEW f \in Frame
  PROVE  StepsInOrder(Append(st, f)) <=>
            StepsInOrder(st) /\ ~Ahead(st, "rebind_panes") /\ FrameSteps(f)
<1> DEFINE t == Append(st, f)
           n == Len(st) + 1
<1>1. /\ DOMAIN t = DOMAIN st \cup {n} /\ n \notin DOMAIN st
      /\ \A i \in DOMAIN st : t[i] = st[i]
      /\ t[n] = f /\ Len(t) = n
  BY Pushed
<1> HIDE DEF t, n
<1>2. StepsInOrder(t) <=>
         StepsInOrder(st) /\ ~Ahead(st, "rebind_panes") /\ FrameSteps(f)
  BY <1>1 DEF StepsInOrder, Ahead
<1> QED
  BY <1>2 DEF t

\* What the loops refer to, frame by frame.
LEMMA BornPush ==
  ASSUME NEW st \in Seq(Frame), NEW f \in Frame, NEW born
  PROVE  LoopsBorn(Append(st, f), born) <=>
            LoopsBorn(st, born) /\ (f.kind \in {"layout", "navigate"} => f.born = born)
<1> DEFINE t == Append(st, f)
           n == Len(st) + 1
<1>1. /\ DOMAIN t = DOMAIN st \cup {n} /\ n \notin DOMAIN st
      /\ \A i \in DOMAIN st : t[i] = st[i]
      /\ t[n] = f
  BY Pushed
<1> HIDE DEF t, n
<1>2. LoopsBorn(t, born) <=>
         LoopsBorn(st, born) /\ (f.kind \in {"layout", "navigate"} => f.born = born)
  BY <1>1 DEF LoopsBorn
<1> QED
  BY <1>2 DEF t

\* What the menus and boxes mean, frame by frame.
LEMMA KnowsPush ==
  ASSUME NEW st \in Seq(Frame), NEW f \in Frame, NEW gs, NEW c
  PROVE  Knows(Append(st, f), gs, c) <=> Knows(st, gs, c) /\ FrameKnows(f, gs, c)
<1> DEFINE t == Append(st, f)
           n == Len(st) + 1
<1>1. /\ DOMAIN t = DOMAIN st \cup {n} /\ n \notin DOMAIN st
      /\ \A i \in DOMAIN st : t[i] = st[i]
      /\ t[n] = f
  BY Pushed
<1> HIDE DEF t, n
<1>2. Knows(t, gs, c) <=> Knows(st, gs, c) /\ FrameKnows(f, gs, c)
  BY <1>1 DEF Knows
<1> QED
  BY <1>2 DEF t

\* The work of the layout passes, frame by frame.
LEMMA WorkPush ==
  ASSUME NEW st \in Seq(Frame), NEW f \in Frame, NEW vis, NEW re
  PROVE  PassWork(Append(st, f), vis, re) <=> PassWork(st, vis, re) /\ FrameWork(f, vis, re)
<1> DEFINE t == Append(st, f)
           n == Len(st) + 1
<1>1. /\ DOMAIN t = DOMAIN st \cup {n} /\ n \notin DOMAIN st
      /\ \A i \in DOMAIN st : t[i] = st[i]
      /\ t[n] = f
  BY Pushed
<1> HIDE DEF t, n
<1>2. PassWork(t, vis, re) <=> PassWork(st, vis, re) /\ FrameWork(f, vis, re)
  BY <1>1 DEF PassWork
<1> QED
  BY <1>2 DEF t

\* Where a frame may be pushed.
FitsOn(st, f) ==
    /\ f.kind \in {"menu", "box", "transition"} => AllBoxes(st)
    /\ st # <<>> /\ Last(st).kind \in {"navigate", "layout"} => f.kind = "scope"
    /\ st # <<>> /\ Last(st).kind = "transition" =>
          f.kind \in {"scope", "navigate", "layout"}
    /\ f.kind = "navigate" => st # <<>> /\ Last(st).kind = "transition"
    /\ f.kind = "layout" => ~OnStack(st, {"layout"})

\* The order of the stack, frame by frame.
LEMMA OrderPush ==
  ASSUME NEW st \in Seq(Frame), NEW f \in Frame
  PROVE  StackInOrder(Append(st, f)) <=> StackInOrder(st) /\ FitsOn(st, f)
<1> DEFINE t == Append(st, f)
           n == Len(st) + 1
<1>1. /\ DOMAIN t = DOMAIN st \cup {n} /\ n \notin DOMAIN st
      /\ \A i \in DOMAIN st : t[i] = st[i]
      /\ t[n] = f /\ Len(t) = n
  BY Pushed
<1>2. /\ n = Len(st) + 1 /\ Len(st) \in Nat /\ DOMAIN st = 1 .. Len(st)
      /\ st # <<>> <=> Len(st) # 0
  OBVIOUS
<1> HIDE DEF t, n
<1>a. \A i \in DOMAIN t : i < Len(t) <=> i \in DOMAIN st
  BY <1>1, <1>2
<1>b. \A i \in DOMAIN st : i < Len(st) => t[i + 1] = st[i + 1]
  BY <1>1, <1>2
<1>c. \A i \in DOMAIN st : i < Len(st) \/ (i = Len(st) /\ st[i] = Last(st) /\ t[i + 1] = f)
  BY <1>1, <1>2 DEF Last
<1>d. st # <<>> => Len(st) \in DOMAIN st /\ ~(Len(st) < Len(st))
  BY <1>2
<1>3. (\A i, j \in DOMAIN t :
          i < j /\ t[j].kind \in {"menu", "box", "transition"} => t[i].kind = "box")
      <=> /\ \A i, j \in DOMAIN st :
                i < j /\ st[j].kind \in {"menu", "box", "transition"} => st[i].kind = "box"
          /\ f.kind \in {"menu", "box", "transition"} => AllBoxes(st)
  BY <1>1, <1>2 DEF AllBoxes
<1>4. (\A i \in DOMAIN t :
          t[i].kind \in {"navigate", "layout"} /\ i < Len(t) => t[i + 1].kind = "scope")
      <=> /\ \A i \in DOMAIN st :
                st[i].kind \in {"navigate", "layout"} /\ i < Len(st) => st[i + 1].kind = "scope"
          /\ st # <<>> /\ Last(st).kind \in {"navigate", "layout"} => f.kind = "scope"
  BY <1>1, <1>a, <1>b, <1>c, <1>d
<1>5. (\A i \in DOMAIN t :
          t[i].kind = "transition" /\ i < Len(t) =>
             t[i + 1].kind \in {"scope", "navigate", "layout"})
      <=> /\ \A i \in DOMAIN st :
                st[i].kind = "transition" /\ i < Len(st) =>
                   st[i + 1].kind \in {"scope", "navigate", "layout"}
          /\ st # <<>> /\ Last(st).kind = "transition" =>
                f.kind \in {"scope", "navigate", "layout"}
  BY <1>1, <1>a, <1>b, <1>c, <1>d
<1>e. \A i \in DOMAIN st : i > 1 => t[i - 1] = st[i - 1]
  BY <1>1, <1>2
<1>f. (n > 1 <=> st # <<>>) /\ (st # <<>> => t[n - 1] = Last(st))
  <2>1. n - 1 = Len(st) /\ (n > 1 <=> st # <<>>)
    BY <1>2
  <2> QED
    BY <1>1, <1>d, <2>1 DEF Last
<1>6. (\A i \in DOMAIN t : t[i].kind = "navigate" => i > 1 /\ t[i - 1].kind = "transition")
      <=> /\ \A i \in DOMAIN st :
                st[i].kind = "navigate" => i > 1 /\ st[i - 1].kind = "transition"
          /\ f.kind = "navigate" => st # <<>> /\ Last(st).kind = "transition"
  BY <1>1, <1>e, <1>f
<1>7. (\A i, j \in DOMAIN t : t[i].kind = "layout" /\ t[j].kind = "layout" => i = j)
      <=> /\ \A i, j \in DOMAIN st : st[i].kind = "layout" /\ st[j].kind = "layout" => i = j
          /\ f.kind = "layout" => ~OnStack(st, {"layout"})
  BY <1>1, <1>2 DEF OnStack
<1>8. StackInOrder(t) <=> StackInOrder(st) /\ FitsOn(st, f)
  BY <1>3, <1>4, <1>5, <1>6, <1>7 DEF StackInOrder, FitsOn
<1> QED
  BY <1>8 DEF t

\* Where the message loop is pumped outside Shell calls, only boxes wait.
LEMMA PumpsOnBoxes ==
  ASSUME NEW st \in Seq(Frame), StackInOrder(st), ~InShell(st),
         st = <<>> \/ Last(st).kind \in {"scope", "menu", "box"}
  PROVE  AllBoxes(st)
<1>1. CASE st = <<>>
  BY <1>1, EmptyStack
<1>2. CASE st # <<>>
  <2>1. /\ Front(st) \in Seq(Frame) /\ Last(st) \in Frame
        /\ st = Append(Front(st), Last(st))
    BY <1>2, TopSplit
  <2>2. Last(st).kind \notin {"scope", "menu"}
    BY <2>1, KindPush DEF InShell
  <2>3. FitsOn(Front(st), Last(st))
    BY <2>1, OrderPush
  <2>4. AllBoxes(Front(st))
    BY <1>2, <2>2, <2>3 DEF FitsOn
  <2> QED
    BY <1>2, <2>1, <2>2, <2>4, BoxesPush
<1> QED
  BY <1>1, <1>2

\* Boxes owe nothing.
LEMMA BoxesOwe ==
  ASSUME NEW st \in Seq(Frame), AllBoxes(st), StepsInOrder(st)
  PROVE  /\ \A step : ~Ahead(st, step)
         /\ \A p : ~OnTodo(st, "layout", p) /\ ~OnTodo(st, "navigate", p)
         /\ ~InShell(st) /\ ~OnStack(st, {"layout"})
         /\ ~OnStack(st, {"transition", "navigate", "layout"})
         /\ \A born : LoopsBorn(st, born)
         /\ \A vis, re : PassWork(st, vis, re)
<1>1. \A i \in DOMAIN st : st[i] \in Frame /\ st[i].kind = "box" /\ FrameSteps(st[i])
  BY DEF AllBoxes, StepsInOrder
<1>2. \A i \in DOMAIN st : st[i].steps = <<>>
  BY <1>1 DEF FrameSteps
<1>3. \A step : ~Ahead(st, step)
  BY <1>2 DEF Ahead, Has
<1>4. \A p : ~OnTodo(st, "layout", p) /\ ~OnTodo(st, "navigate", p)
  BY <1>1 DEF OnTodo
<1>5. /\ ~InShell(st) /\ ~OnStack(st, {"layout"})
      /\ ~OnStack(st, {"transition", "navigate", "layout"})
  BY <1>1 DEF InShell, OnStack
<1>6. \A born : LoopsBorn(st, born)
  BY <1>1 DEF LoopsBorn
<1>7. \A vis, re : PassWork(st, vis, re)
  BY <1>1 DEF PassWork, FrameWork
<1> QED
  BY <1>3, <1>4, <1>5, <1>6, <1>7

\* Boxes below a menu or a box are in order.
LEMMA BoxesInOrder ==
  ASSUME NEW st \in Seq(Frame), AllBoxes(st)
  PROVE  StackInOrder(st)
BY DEF AllBoxes, StackInOrder

-----------------------------------------------------------------------------
(* The Groups.  *)

IdsUnique(gs) == \A i, j \in DOMAIN gs : gs[i].id = gs[j].id => i = j

\* group_index_by_id finds the Group that has the id.
LEMMA FindKnown ==
  ASSUME NEW gs \in Seq(Group), NEW id \in GroupIds(gs)
  PROVE  /\ IndexOf(gs, id) \in DOMAIN gs /\ gs[IndexOf(gs, id)].id = id
         /\ Find(gs, id) \in Group /\ Find(gs, id).id = id
         /\ gs # <<>>
<1>1. \E i \in DOMAIN gs : gs[i].id = id
  BY DEF GroupIds
<1>2. IndexOf(gs, id) \in DOMAIN gs /\ gs[IndexOf(gs, id)].id = id
  BY <1>1 DEF IndexOf
<1>3. \A i \in DOMAIN gs : gs[i] \in Group
  OBVIOUS
<1>4. gs # <<>>
  BY <1>1
<1> QED
  BY <1>2, <1>3, <1>4 DEF Find

\* As no two Groups share an id, it finds that one.
LEMMA FindIs ==
  ASSUME NEW gs \in Seq(Group), IdsUnique(gs), NEW i \in DOMAIN gs
  PROVE  /\ gs[i].id \in GroupIds(gs) /\ IndexOf(gs, gs[i].id) = i
         /\ Find(gs, gs[i].id) = gs[i] /\ gs[i] \in Group
<1>1. gs[i].id \in GroupIds(gs)
  BY DEF GroupIds
<1>2. IndexOf(gs, gs[i].id) \in DOMAIN gs /\ gs[IndexOf(gs, gs[i].id)].id = gs[i].id
  BY <1>1, FindKnown
<1>3. IndexOf(gs, gs[i].id) = i
  BY <1>2 DEF IdsUnique
<1> QED
  BY <1>1, <1>3 DEF Find

\* A set of numbers that is not empty has a smallest one.
LEMMA SmallestIn ==
  ASSUME NEW S, S \subseteq Nat, S # {}
  PROVE  \E m \in S : \A n \in S : m <= n
<1>1. IsWellFoundedOn({ss \in Nat \X Nat : ss[1] < ss[2]}, Nat)
  BY NatLessThanWellFounded DEF OpToRel
<1>2. PICK m \in S : \A n \in S : ~ (<<n, m>> \in {ss \in Nat \X Nat : ss[1] < ss[2]})
  BY <1>1, WFMin
<1>3. ASSUME NEW n \in S PROVE m <= n
  <2>1. n \in Nat /\ m \in Nat
    OBVIOUS
  <2>2. n < m => <<n, m>> \in {ss \in Nat \X Nat : ss[1] < ss[2]}
    BY <2>1
  <2>3. ~ (n < m)
    BY <1>2, <2>2
  <2> QED
    BY <2>1, <2>3
<1> QED
  BY <1>3

\* The ids of finitely many Groups have a bound.
LEMMA IdsBounded ==
  ASSUME NEW gs \in Seq(Group)
  PROVE  \E b \in Nat : \A i \in DOMAIN gs : gs[i].id <= b
<1>0. /\ DOMAIN gs = 1 .. Len(gs) /\ Len(gs) \in Nat
      /\ \A i \in DOMAIN gs : gs[i].id \in Nat
  <2>1. \A i \in DOMAIN gs : gs[i] \in Group
    OBVIOUS
  <2>2. DOMAIN gs = 1 .. Len(gs) /\ Len(gs) \in Nat
    OBVIOUS
  <2>3. \A g \in Group : g.id \in Nat
    BY DEF Group
  <2> QED
    BY <2>1, <2>2, <2>3
<1> DEFINE D == DOMAIN gs
           id(i) == gs[i].id
           n == Len(gs)
           Below(k, b) == \A i \in D : i <= k => id(i) <= b
           S == {k \in 0 .. n : \A b \in Nat : ~Below(k, b)}
<1>a. D = 1 .. n /\ n \in Nat /\ \A i \in D : id(i) \in Nat
  BY <1>0
<1> HIDE DEF D, id, n
<1>1. S = {}
  <2> SUFFICES ASSUME S # {} PROVE FALSE
    OBVIOUS
  <2>1. PICK k \in S : \A m \in S : k <= m
    <3>1. S \subseteq Nat
      BY <1>a
    <3> HIDE DEF S
    <3> QED
      BY <3>1, SmallestIn
  <2>2. k \in Nat /\ k <= n /\ \A b \in Nat : ~Below(k, b)
    BY <1>a
  <2>a. \A j \in 0 .. n : j \notin S => \E b \in Nat : Below(j, b)
    OBVIOUS
  <2>b. k \in S
    OBVIOUS
  <2> HIDE DEF S
  <2>3. CASE k = 0
    <3>1. Below(0, 0)
      BY <1>a
    <3> QED
      BY <2>2, <2>3, <3>1
  <2>4. CASE k # 0
    <3>1. k - 1 \in 0 .. n /\ ~(k <= k - 1)
      BY <1>a, <2>2, <2>4
    <3>2. k - 1 \notin S
      BY <2>1, <3>1
    <3>3. PICK b \in Nat : Below(k - 1, b)
      BY <2>a, <3>1, <3>2
    <3>4. k \in D /\ id(k) \in Nat
      BY <1>a, <2>2, <2>4
    <3>5. CASE id(k) <= b
      <4>1. Below(k, b)
        BY <1>a, <2>2, <3>3, <3>5
      <4> QED
        BY <2>2, <4>1
    <3>6. CASE ~(id(k) <= b)
      <4>1. Below(k, id(k))
        <5> SUFFICES ASSUME NEW i \in D, i <= k PROVE id(i) <= id(k)
          OBVIOUS
        <5>1. CASE i = k
          BY <3>4, <5>1
        <5>2. CASE i # k
          <6>1. i <= k - 1
            BY <1>a, <2>2, <5>2
          <6>2. id(i) <= b /\ id(i) \in Nat
            BY <1>a, <3>3, <6>1
          <6> QED
            BY <3>4, <3>6, <6>2
        <5> QED
          BY <5>1, <5>2
      <4> QED
        BY <2>2, <3>4, <4>1
    <3> QED
      BY <3>5, <3>6
  <2> QED
    BY <2>3, <2>4
<1>2. n \in 0 .. n
  BY <1>a
<1>3. PICK b \in Nat : Below(n, b)
  BY <1>1, <1>2
<1>4. \A i \in D : i <= n
  BY <1>a
<1>5. \A i \in D : id(i) <= b
  BY <1>3, <1>4
<1> QED
  BY <1>5 DEF D, id

\* next_group_id is an id no Group has.
LEMMA NextIsNew ==
  ASSUME groups \in Seq(Group)
  PROVE  next_group_id \in Nat \ {0} /\ next_group_id \notin GroupIds(groups)
<1> DEFINE G == GroupIds(groups) \cup {0}
           U == {b \in Nat : \A n \in G : n <= b}
           c == CHOOSE m \in G : \A n \in GroupIds(groups) : n <= m
<1>6. next_group_id = 1 + c
  BY DEF next_group_id
<1>1. G \subseteq Nat
  <2>1. \A i \in DOMAIN groups : groups[i] \in Group
    OBVIOUS
  <2>2. \A g \in Group : g.id \in Nat
    BY DEF Group
  <2> QED
    BY <2>1, <2>2 DEF GroupIds
<1>2. U # {}
  <2>1. PICK b \in Nat : \A i \in DOMAIN groups : groups[i].id <= b
    BY IdsBounded
  <2>2. \A n \in G : n <= b
    BY <2>1 DEF GroupIds
  <2> QED
    BY <2>2
<1>3. PICK m \in U : \A n \in U : m <= n
  <2>1. U \subseteq Nat
    OBVIOUS
  <2> HIDE DEF U
  <2> QED
    BY <1>2, <2>1, SmallestIn
<1>4. m \in G
  <2> SUFFICES ASSUME m \notin G PROVE FALSE
    OBVIOUS
  <2>1. m \in Nat /\ \A n \in G : n <= m /\ n # m
    OBVIOUS
  <2>2. m # 0
    OBVIOUS
  <2>3. m - 1 \in Nat /\ ~(m <= m - 1)
    BY <2>1, <2>2
  <2>4. \A n \in G : n <= m - 1
    BY <1>1, <2>1, <2>3
  <2>5. m - 1 \in U
    BY <2>3, <2>4
  <2> QED
    BY <1>3, <2>3, <2>5
<1>5. c \in G /\ \A n \in GroupIds(groups) : n <= c
  <2>1. \E x \in G : \A n \in GroupIds(groups) : n <= x
    BY <1>3, <1>4
  <2> HIDE DEF G
  <2> QED
    BY <2>1
<1> HIDE DEF c
<1>7. 1 + c \in Nat \ {0} /\ ~(1 + c <= c)
  BY <1>1, <1>5
<1> QED
  BY <1>5, <1>6, <1>7

\* ActiveBorn, of any list of Groups.
BornOf(gs, act) == IF gs = <<>> THEN 0 ELSE Find(gs, act).born

ActiveIn(gs, act) == IF gs = <<>> THEN act = 0 ELSE act \in GroupIds(gs)

\* With no Group, nothing is visible or bound.
LEMMA NoGroup ==
  ASSUME NEW act
  PROVE  /\ GroupIds(<<>>) = {} /\ BornOf(<<>>, act) = 0 /\ Visible(<<>>, act) = {}
         /\ BoundTo(<<>>, act) = [p \in Panes |-> 0]
<1>1. GroupIds(<<>>) = {}
  BY DEF GroupIds
<1> QED
  BY <1>1 DEF BornOf, Visible, BoundTo

\* Otherwise the active Group says what is visible and what the panes borrow.
LEMMA ActiveIs ==
  ASSUME NEW gs \in Seq(Group), IdsUnique(gs), NEW act, gs # <<>>, ActiveIn(gs, act)
  PROVE  \E i \in DOMAIN gs :
            /\ gs[i].id = act /\ Find(gs, act) = gs[i] /\ gs[i] \in Group
            /\ IndexOf(gs, act) = i
            /\ BornOf(gs, act) = gs[i].born /\ gs[i].born # 0
            /\ Visible(gs, act) = 1 .. gs[i].visible /\ Visible(gs, act) \subseteq Panes
            /\ BoundTo(gs, act) =
                  [p \in Panes |-> IF p <= gs[i].size THEN gs[i].born ELSE 0]
<1>1. act \in GroupIds(gs)
  BY DEF ActiveIn
<1>2. PICK i \in DOMAIN gs : gs[i].id = act
  BY <1>1 DEF GroupIds
<1>3. Find(gs, act) = gs[i] /\ gs[i] \in Group /\ IndexOf(gs, act) = i
  BY <1>2, FindIs
<1>4. gs[i].born \in Nat \ {0} /\ gs[i].visible \in Panes
  BY <1>3 DEF Group
<1>5. Visible(gs, act) = 1 .. gs[i].visible
  BY <1>1, <1>3 DEF Visible
<1>6. 1 .. gs[i].visible \subseteq Panes
  BY <1>4, CommandBounds DEF Panes
<1>7. BoundTo(gs, act) = [p \in Panes |-> IF p <= gs[i].size THEN gs[i].born ELSE 0]
  BY <1>1, <1>3 DEF BoundTo
<1>8. BornOf(gs, act) = gs[i].born
  BY <1>3 DEF BornOf
<1> QED
  BY <1>2, <1>3, <1>4, <1>5, <1>6, <1>7, <1>8

\* What the panes borrow from the active Group.
LEMMA BoundIs ==
  ASSUME NEW gs \in Seq(Group), IdsUnique(gs), NEW act, ActiveIn(gs, act)
  PROVE  /\ BoundTo(gs, act) \in [Panes -> Nat] /\ BornOf(gs, act) \in Nat
         /\ Visible(gs, act) \subseteq Panes
         /\ \A p \in Panes : BoundTo(gs, act)[p] # 0 =>
               \E i \in DOMAIN gs : gs[i].born = BoundTo(gs, act)[p]
         /\ (\A i \in DOMAIN gs : gs[i].visible <= gs[i].size) =>
               \A p \in Visible(gs, act) : BoundTo(gs, act)[p] = BornOf(gs, act)
<1>1. CASE gs = <<>>
  BY <1>1, NoGroup
<1>2. CASE gs # <<>>
  <2>1. PICK i \in DOMAIN gs :
            /\ gs[i] \in Group
            /\ BornOf(gs, act) = gs[i].born
            /\ Visible(gs, act) = 1 .. gs[i].visible /\ Visible(gs, act) \subseteq Panes
            /\ BoundTo(gs, act) =
                  [p \in Panes |-> IF p <= gs[i].size THEN gs[i].born ELSE 0]
    BY <1>2, ActiveIs
  <2>2. gs[i].born \in Nat /\ gs[i].visible \in Panes /\ gs[i].size \in Panes
    BY <2>1 DEF Group
  <2>3. BoundTo(gs, act) \in [Panes -> Nat] /\ BornOf(gs, act) \in Nat
    BY <2>1, <2>2
  <2>4. \A p \in Panes : BoundTo(gs, act)[p] # 0 => gs[i].born = BoundTo(gs, act)[p]
    BY <2>1
  <2>5. ASSUME gs[i].visible <= gs[i].size, NEW p \in Visible(gs, act)
        PROVE  BoundTo(gs, act)[p] = BornOf(gs, act)
    <3>1. p \in Panes /\ p <= gs[i].visible
      BY <2>1
    <3>2. p <= gs[i].size
      BY <2>2, <2>5, <3>1 DEF Panes
    <3> QED
      BY <2>1, <3>1, <3>2
  <2> QED
    BY <2>1, <2>3, <2>4, <2>5
<1> QED
  BY <1>1, <1>2

-----------------------------------------------------------------------------
(* What a command finds, and what it must leave.  *)

\* A command runs on boxes, or in place of the menu or the box that asked.
Quiet(base) ==
    /\ base \in Seq(Frame) /\ AllBoxes(base)
    /\ \/ stack = base
       \/ \E f \in Frame : stack = Append(base, f) /\ f.kind \in {"menu", "box"}

\* Groups may go, and those that come are born later than any known one.
GroupsGrow ==
    /\ created' \in Nat /\ created <= created'
    /\ \A i \in DOMAIN groups' :
          \/ groups'[i].born > created
          \/ \E j \in DOMAIN groups :
                groups[j].id = groups'[i].id /\ groups[j].born = groups'[i].born

\* The frames that a call, a loop and a transition put on the stack.
LEMMA Frames ==
  /\ Scope \in Frame /\ Scope.kind = "scope" /\ Scope.steps = <<>> /\ Scope.todo = {}
  /\ \A kind \in Kinds, id \in Nat, born \in Nat :
        /\ Call(kind, id, born) \in Frame /\ Call(kind, id, born).kind = kind
        /\ Call(kind, id, born).id = id /\ Call(kind, id, born).born = born
        /\ Call(kind, id, born).steps = <<>> /\ Call(kind, id, born).todo = {}
<1>1. <<>> \in Seq(Steps) /\ {} \in SUBSET Panes /\ "scope" \in Kinds /\ 0 \in Nat
  BY DEF Kinds
<1> QED
  BY <1>1 DEF Scope, Call, Frame

\* The plan has the step.
InPlan(plan, x) == \E k \in DOMAIN plan : plan[k] = x

\* The plan t is the first one, and then more.
Joins(t, plan, more) ==
    /\ t \in Seq(Steps)
    /\ \A x : InPlan(t, x) <=> InPlan(plan, x) \/ InPlan(more, x)
    /\ \A k \in DOMAIN t : InPlan(more, t[k]) \/ (k \in DOMAIN plan /\ t[k] = plan[k])

\* A plan that is put together has the steps of both parts, in this order.
LEMMA PlanGrows ==
  ASSUME NEW plan \in Seq(Steps), NEW more \in Seq(Steps), NEW t, t = plan \o more
  PROVE  Joins(t, plan, more)
<1> DEFINE n == Len(plan)
           m == Len(more)
<1>1. /\ t \in Seq(Steps) /\ Len(t) = n + m
      /\ \A k \in 1 .. n + m : t[k] = IF k <= n THEN plan[k] ELSE more[k - n]
  BY ConcatProperties
<1>2. /\ n \in Nat /\ m \in Nat /\ DOMAIN plan = 1 .. n /\ DOMAIN more = 1 .. m
  OBVIOUS
<1>3. DOMAIN t = 1 .. n + m
  BY <1>1
<1> HIDE DEF n, m
<1>4. ASSUME NEW k \in DOMAIN plan PROVE k \in DOMAIN t /\ t[k] = plan[k]
  BY <1>1, <1>2, <1>3
<1>5. ASSUME NEW k \in DOMAIN more PROVE k + n \in DOMAIN t /\ t[k + n] = more[k]
  <2>1. k + n \in 1 .. n + m /\ ~(k + n <= n) /\ (k + n) - n = k
    BY <1>2
  <2> QED
    BY <1>1, <1>3, <2>1
<1>6. ASSUME NEW k \in DOMAIN t
      PROVE  \/ k \in DOMAIN plan /\ t[k] = plan[k]
             \/ k - n \in DOMAIN more /\ t[k] = more[k - n]
  <2>1. CASE k <= n
    BY <1>1, <1>2, <1>3, <2>1
  <2>2. CASE ~(k <= n)
    <3>1. k - n \in 1 .. m
      BY <1>2, <1>3, <2>2
    <3> QED
      BY <1>1, <1>2, <1>3, <2>2, <3>1
  <2> QED
    BY <2>1, <2>2
<1>7. ASSUME NEW x, InPlan(t, x) PROVE InPlan(plan, x) \/ InPlan(more, x)
  BY <1>6, <1>7 DEF InPlan
<1>8. ASSUME NEW x, InPlan(plan, x) \/ InPlan(more, x) PROVE InPlan(t, x)
  BY <1>4, <1>5, <1>8 DEF InPlan
<1>9. ASSUME NEW k \in DOMAIN t
      PROVE  InPlan(more, t[k]) \/ (k \in DOMAIN plan /\ t[k] = plan[k])
  BY <1>6 DEF InPlan
<1> QED
  BY <1>1, <1>7, <1>8, <1>9 DEF Joins

\* One more step, or none.
LEMMA StepOrNone ==
  ASSUME NEW step \in Steps, NEW b
  PROVE  LET s == IF b THEN <<step>> ELSE <<>> IN
         /\ s \in Seq(Steps)
         /\ \A x : InPlan(s, x) => b /\ x = step
         /\ b => InPlan(s, step)
BY DEF InPlan

\* What a transition has ahead of it.
LEMMA TransitionFrame ==
  ASSUME NEW h \in BOOLEAN, NEW moved \in BOOLEAN
  PROVE  LET f == Transition(h, moved) IN
         /\ f \in Frame /\ f.kind = "transition" /\ f.todo = {} /\ FrameSteps(f)
         /\ Has(f, "rebind_panes") /\ Has(f, "apply_layout")
         /\ Has(f, "navigate_realized_panes") <=> h /\ moved
<1> DEFINE c == Call("transition", 0, 0)
           f == Transition(h, moved)
           bind == <<"rebind_panes">>
           navigate == IF h /\ moved THEN <<"navigate_realized_panes">> ELSE <<>>
           lay == <<"apply_layout">>
           focus == IF h THEN <<"focus_active_pane">> ELSE <<>>
           plan2 == bind \o navigate
           plan3 == plan2 \o lay
           plan4 == plan3 \o focus
<1>1. c \in Frame /\ c.kind = "transition" /\ c.todo = {}
  BY Frames DEF Kinds
<1>2. f = [c EXCEPT !.steps = plan4]
  BY DEF Transition, plan_group_transition
<1>3. /\ "rebind_panes" \in Steps /\ "navigate_realized_panes" \in Steps
      /\ "apply_layout" \in Steps /\ "focus_active_pane" \in Steps
  BY DEF Steps
<1>4. /\ bind \in Seq(Steps) /\ \A x : InPlan(bind, x) <=> x = "rebind_panes"
      /\ \A k \in DOMAIN bind : k = 1
  BY <1>3 DEF InPlan
<1>5. lay \in Seq(Steps) /\ \A x : InPlan(lay, x) <=> x = "apply_layout"
  BY <1>3 DEF InPlan
<1>6. /\ navigate \in Seq(Steps)
      /\ \A x : InPlan(navigate, x) => h /\ moved /\ x = "navigate_realized_panes"
      /\ h /\ moved => InPlan(navigate, "navigate_realized_panes")
  BY <1>3, StepOrNone
<1>7. focus \in Seq(Steps) /\ \A x : InPlan(focus, x) => x = "focus_active_pane"
  BY <1>3, StepOrNone
<1>a. plan2 = bind \o navigate
  OBVIOUS
<1>b. plan3 = plan2 \o lay
  OBVIOUS
<1>c. plan4 = plan3 \o focus
  OBVIOUS
<1> HIDE DEF bind, navigate, lay, focus, plan2, plan3, plan4, c
<1>8. Joins(plan2, bind, navigate)
  <2>1. bind \in Seq(Steps) /\ navigate \in Seq(Steps)
    BY <1>4, <1>6
  <2> QED
    BY <1>a, <2>1, PlanGrows
<1>9. Joins(plan3, plan2, lay)
  <2>1. plan2 \in Seq(Steps) /\ lay \in Seq(Steps)
    BY <1>5, <1>8 DEF Joins
  <2> QED
    BY <1>b, <2>1, PlanGrows
<1>10. Joins(plan4, plan3, focus)
  <2>1. plan3 \in Seq(Steps) /\ focus \in Seq(Steps)
    BY <1>7, <1>9 DEF Joins
  <2> QED
    BY <1>c, <2>1, PlanGrows
<1>11. f \in Frame /\ f.kind = "transition" /\ f.todo = {} /\ f.steps = plan4
  BY <1>1, <1>2, <1>10 DEF Frame, Joins
<1> HIDE DEF f
<1>12. FrameSteps(f)
  <2>1. ASSUME NEW k \in DOMAIN plan4, plan4[k] = "rebind_panes" PROVE k = 1
    <3>1. k \in DOMAIN plan3 /\ plan3[k] = "rebind_panes"
      BY <1>7, <1>10, <2>1 DEF Joins
    <3>2. k \in DOMAIN plan2 /\ plan2[k] = "rebind_panes"
      BY <1>5, <1>9, <3>1 DEF Joins
    <3>3. k \in DOMAIN bind
      BY <1>6, <1>8, <3>2 DEF Joins
    <3> QED
      BY <1>4, <3>3
  <2> QED
    BY <1>11, <2>1 DEF FrameSteps
<1>13. \A x : Has(f, x) <=> InPlan(plan4, x)
  BY <1>11 DEF Has, InPlan
<1>14. Has(f, "rebind_panes") /\ Has(f, "apply_layout")
  BY <1>4, <1>5, <1>8, <1>9, <1>10, <1>13 DEF Joins
<1>15. Has(f, "navigate_realized_panes") <=> h /\ moved
  BY <1>4, <1>5, <1>6, <1>7, <1>8, <1>9, <1>10, <1>13 DEF Joins
<1> QED
  BY <1>11, <1>12, <1>14, <1>15 DEF f

\* What a menu or a box knows stays true.
LEMMA KnowsKept ==
  ASSUME GroupsGrow, created \in Nat, NEW f \in Frame, FrameKnows(f, groups, created)
  PROVE  FrameKnows(f, groups', created')
<1>1. f.born \in Nat
  BY DEF Frame
<1> SUFFICES ASSUME f.kind \in {"menu", "box"} PROVE FrameKnows(f, groups', created')
  BY DEF FrameKnows
<1>2. f.born <= created /\ \A j \in DOMAIN groups : groups[j].born = f.born => groups[j].id = f.id
  BY DEF FrameKnows
<1>3. f.born <= created'
  BY <1>1, <1>2 DEF GroupsGrow
<1>4. ASSUME NEW i \in DOMAIN groups', groups'[i].born = f.born
      PROVE  groups'[i].id = f.id
  <2>1. ~(groups'[i].born > created)
    BY <1>1, <1>2, <1>4
  <2> QED
    BY <1>2, <1>4, <2>1 DEF GroupsGrow
<1> QED
  BY <1>3, <1>4 DEF FrameKnows

\* The same of all of them.
LEMMA AllKnowsKept ==
  ASSUME GroupsGrow, created \in Nat, NEW st \in Seq(Frame), Knows(st, groups, created)
  PROVE  Knows(st, groups', created')
<1>1. \A k \in DOMAIN st : st[k] \in Frame
  OBVIOUS
<1> QED
  BY <1>1, KnowsKept DEF Knows

\* Where a command runs, the panes show the active Group.
LEMMA QuietFacts ==
  ASSUME IInv, NEW base, Quiet(base)
  PROVE  /\ base \in Seq(Frame) /\ StackInOrder(base) /\ StepsInOrder(base)
         /\ Knows(base, groups, created) /\ ~InShell(base)
         /\ \A step : ~Ahead(base, step)
         /\ bound = BoundTo(groups, active) /\ ~layout.in_progress
         /\ ~interrupted =>
               \A p \in Panes : realized[p] =>
                  /\ p \in Visible(groups, active)
                  /\ loaded[p] = ActiveBorn /\ bound[p] = ActiveBorn
<1>1. base \in Seq(Frame) /\ AllBoxes(base)
  BY DEF Quiet
<1>2. StackInOrder(base)
  BY <1>1, BoxesInOrder
<1>3. /\ StepsInOrder(stack) /\ Knows(stack, groups, created)
      /\ layout.in_progress <=> OnStack(stack, {"layout"})
  BY DEF IInv, StackOK
<1>4. StepsInOrder(base) /\ Knows(base, groups, created)
  BY <1>1, <1>3, StepsPush, KnowsPush DEF Quiet
<1>5. /\ \A step : ~Ahead(base, step)
      /\ \A p : ~OnTodo(base, "layout", p) /\ ~OnTodo(base, "navigate", p)
      /\ ~InShell(base) /\ ~OnStack(base, {"layout"})
  BY <1>1, <1>4, BoxesOwe
<1>6. /\ \A step : ~Ahead(stack, step)
      /\ \A p : ~OnTodo(stack, "layout", p) /\ ~OnTodo(stack, "navigate", p)
      /\ ~OnStack(stack, {"layout"})
  <2>1. CASE stack = base
    BY <1>5, <2>1
  <2>2. ASSUME NEW f \in Frame, stack = Append(base, f), f.kind \in {"menu", "box"}
        PROVE  <1>6
    <3>1. FrameSteps(f)
      BY <1>1, <1>3, <2>2, StepsPush
    <3>2. \A step : ~Has(f, step)
      BY <2>2, <3>1 DEF FrameSteps, Has
    <3> QED
      BY <1>1, <1>5, <2>2, <3>2, AheadPush, TodoPush, KindPush
  <2> QED
    BY <2>1, <2>2 DEF Quiet
<1>7. bound = BoundTo(groups, active)
  BY <1>6 DEF IInv, PanesOK, BoundAsPlanned, RebindAhead
<1>8. ASSUME ~interrupted, NEW p \in Panes, realized[p]
      PROVE  /\ p \in Visible(groups, active)
             /\ loaded[p] = ActiveBorn /\ bound[p] = ActiveBorn
  <2>1. p \in Visible(groups, active)
    BY <1>6, <1>8 DEF IInv, PanesOK, HiddenIsAhead, LayoutAhead
  <2>2. loaded[p] = ActiveBorn
    BY <1>6, <1>8, <2>1 DEF IInv, PanesOK, NavigationIsAhead, NavigateAhead
  <2>3. /\ groups \in Seq(Group) /\ IdsUnique(groups) /\ ActiveIn(groups, active)
        /\ \A i \in DOMAIN groups : groups[i].visible <= groups[i].size
    BY DEF IInv, TypeOK, IdsUnique, ActiveIn, GroupsTold
  <2>4. BoundTo(groups, active)[p] = BornOf(groups, active)
    BY <2>1, <2>3, BoundIs
  <2>5. bound[p] = ActiveBorn
    BY <1>7, <2>4 DEF BornOf, ActiveBorn
  <2> QED
    BY <2>1, <2>2, <2>5
<1> QED
  BY <1>1, <1>2, <1>3, <1>4, <1>5, <1>6, <1>7, <1>8

\* After a command that leaves at most a menu or a box behind.
LEMMA Stays ==
  ASSUME IInv, NEW base, Quiet(base),
         GroupsOK', GroupsTold', GroupsGrow,
         bound' = BoundTo(groups', active'), UNCHANGED <<realized, interrupted, layout>>,
         ~interrupted =>
            \A p \in Panes : realized[p] =>
               p \in Visible(groups', active') /\ loaded'[p] = BornOf(groups', active'),
         \/ stack' = base
         \/ \E f \in Frame : /\ stack' = Append(base, f) /\ f.kind \in {"menu", "box"}
                             /\ f.steps = <<>> /\ FrameKnows(f, groups', created')
  PROVE  stack' \in Seq(Frame) /\ bound' \in [Panes -> Nat] /\ StackOK' /\ PanesOK'
<1>1. /\ base \in Seq(Frame) /\ AllBoxes(base)
      /\ StackInOrder(base) /\ StepsInOrder(base) /\ Knows(base, groups, created)
      /\ \A step : ~Ahead(base, step)
      /\ ~layout.in_progress /\ created \in Nat
  BY QuietFacts DEF Quiet, IInv, TypeOK
<1>2. Knows(base, groups', created')
  BY <1>1, AllKnowsKept
<1>3. /\ ~OnStack(base, {"layout"}) /\ \A b : LoopsBorn(base, b)
      /\ \A vis, re : PassWork(base, vis, re)
  BY <1>1, BoxesOwe
<1>4. /\ stack' \in Seq(Frame) /\ StackInOrder(stack') /\ StepsInOrder(stack')
      /\ Knows(stack', groups', created') /\ \A b : LoopsBorn(stack', b)
      /\ \A vis, re : PassWork(stack', vis, re)
      /\ ~OnStack(stack', {"layout"}) /\ \A step : ~Ahead(stack', step)
  <2>1. CASE stack' = base
    BY <1>1, <1>2, <1>3, <2>1
  <2>2. ASSUME NEW f \in Frame, stack' = Append(base, f), f.kind \in {"menu", "box"},
               f.steps = <<>>, FrameKnows(f, groups', created')
        PROVE  <1>4
    <3>1. stack' \in Seq(Frame)
      BY <1>1, <2>2
    <3>2. StackInOrder(stack')
      <4>1. FitsOn(base, f)
        <5>1. base # <<>> => Last(base).kind = "box"
          BY <1>1 DEF AllBoxes, Last
        <5> QED
          BY <1>1, <2>2, <5>1 DEF FitsOn
      <4> QED
        BY <1>1, <2>2, <4>1, OrderPush
    <3>3. StepsInOrder(stack')
      BY <1>1, <2>2, StepsPush DEF FrameSteps
    <3>4. Knows(stack', groups', created')
      BY <1>1, <1>2, <2>2, KnowsPush
    <3>5. \A b : LoopsBorn(stack', b)
      BY <1>1, <1>3, <2>2, BornPush
    <3>6. \A vis, re : PassWork(stack', vis, re)
      BY <1>1, <1>3, <2>2, WorkPush DEF FrameWork
    <3>7. ~OnStack(stack', {"layout"})
      BY <1>1, <1>3, <2>2, KindPush
    <3>8. \A step : ~Ahead(stack', step)
      BY <1>1, <2>2, AheadPush DEF Has
    <3> QED
      BY <3>1, <3>2, <3>3, <3>4, <3>5, <3>6, <3>7, <3>8
  <2> QED
    BY <2>1, <2>2
<1>5. StackOK'
  BY <1>1, <1>4 DEF StackOK
<1>6. /\ groups' \in Seq(Group) /\ IdsUnique(groups') /\ ActiveIn(groups', active')
      /\ ActiveBorn' = BornOf(groups', active')
  BY DEF GroupsOK, IdsUnique, ActiveIn, ActiveBorn, BornOf
<1>7. bound' \in [Panes -> Nat] /\ Visible(groups', active') \subseteq Panes
  BY <1>6, BoundIs
<1>8. BoundAsPlanned' /\ KeptAcrossRebind'
  BY <1>4 DEF BoundAsPlanned, KeptAcrossRebind, RebindAhead
<1>9. HiddenIsAhead' /\ NavigationIsAhead'
  BY <1>6, <1>7 DEF HiddenIsAhead, NavigationIsAhead
<1> QED
  BY <1>4, <1>5, <1>7, <1>8, <1>9 DEF PanesOK

\* After a command that starts a transition.
LEMMA Starts ==
  ASSUME IInv, NEW base, Quiet(base),
         GroupsOK', GroupsTold', GroupsGrow, BoundLive', ~ShuttingDown',
         UNCHANGED <<realized, interrupted, layout>>,
         NEW h \in BOOLEAN, NEW moved \in BOOLEAN,
         stack' = Append(base, Transition(h, moved)),
         \/ h /\ moved
         \/ ~interrupted =>
               \A p \in Visible(groups', active') : realized[p] =>
                  /\ bound'[p] = BornOf(groups', active')
                  /\ loaded'[p] = BornOf(groups', active')
  PROVE  stack' \in Seq(Frame) /\ StackOK' /\ PanesOK'
<1> DEFINE f == Transition(h, moved)
<1>1. /\ base \in Seq(Frame) /\ AllBoxes(base)
      /\ StackInOrder(base) /\ StepsInOrder(base) /\ Knows(base, groups, created)
      /\ \A step : ~Ahead(base, step)
      /\ ~layout.in_progress /\ created \in Nat
  BY QuietFacts DEF Quiet, IInv, TypeOK
<1>2. Knows(base, groups', created')
  BY <1>1, AllKnowsKept
<1>3. /\ ~OnStack(base, {"layout"}) /\ \A b : LoopsBorn(base, b)
      /\ \A vis, re : PassWork(base, vis, re)
  BY <1>1, BoxesOwe
<1>4. /\ f \in Frame /\ f.kind = "transition" /\ f.todo = {} /\ FrameSteps(f)
      /\ Has(f, "rebind_panes") /\ Has(f, "apply_layout")
      /\ Has(f, "navigate_realized_panes") <=> h /\ moved
  BY TransitionFrame
<1>5. stack' = Append(base, f)
  OBVIOUS
<1> HIDE DEF f
<1>6. stack' \in Seq(Frame)
  BY <1>1, <1>4, <1>5
<1>7. StackInOrder(stack')
  <2>1. FitsOn(base, f)
    <3>1. base # <<>> => Last(base).kind = "box"
      BY <1>1 DEF AllBoxes, Last
    <3> QED
      BY <1>1, <1>4, <3>1 DEF FitsOn
  <2> QED
    BY <1>1, <1>4, <1>5, <2>1, OrderPush
<1>8. StepsInOrder(stack')
  BY <1>1, <1>4, <1>5, StepsPush
<1>9. Knows(stack', groups', created')
  BY <1>1, <1>2, <1>4, <1>5, KnowsPush DEF FrameKnows
<1>10. \A b : LoopsBorn(stack', b)
  BY <1>1, <1>3, <1>4, <1>5, BornPush
<1>11. \A vis, re : PassWork(stack', vis, re)
  BY <1>1, <1>3, <1>4, <1>5, WorkPush DEF FrameWork
<1>12. ~OnStack(stack', {"layout"})
  BY <1>1, <1>3, <1>4, <1>5, KindPush
<1>13. \A step : Ahead(stack', step) <=> Has(f, step)
  BY <1>1, <1>4, <1>5, AheadPush
<1>14. StackOK'
  BY <1>1, <1>7, <1>8, <1>9, <1>10, <1>11, <1>12 DEF StackOK
<1>15. /\ RebindAhead' /\ LayoutAhead'
       /\ NavigateAhead' <=> h /\ moved
  BY <1>4, <1>13 DEF RebindAhead, LayoutAhead, NavigateAhead
<1>16. ActiveBorn' = BornOf(groups', active')
  BY DEF ActiveBorn, BornOf
<1>17. BoundAsPlanned'
  BY <1>15 DEF BoundAsPlanned
<1>18. KeptAcrossRebind'
  BY <1>15, <1>16 DEF KeptAcrossRebind
<1>19. HiddenIsAhead'
  BY <1>15 DEF HiddenIsAhead
<1>20. NavigationIsAhead'
  BY <1>15, <1>16 DEF NavigationIsAhead
<1> QED
  BY <1>6, <1>14, <1>17, <1>18, <1>19, <1>20 DEF PanesOK

-----------------------------------------------------------------------------
(* The commands.  *)

\* What every command leaves.
CommandOK ==
    /\ GroupsOK' /\ GroupsTold' /\ stack' \in Seq(Frame)
    /\ bound' \in [Panes -> Nat] /\ loaded' \in [Panes -> Nat]
    /\ StackOK' /\ PanesOK' /\ layout' = layout

\* No Group disappears.
Survive ==
    \A i \in DOMAIN groups : \E j \in DOMAIN groups' : groups'[j].born = groups[i].born

\* The facts about the present state, one by one.
LEMMA Present ==
  ASSUME IInv
  PROVE  /\ groups \in Seq(Group) /\ IdsUnique(groups) /\ ActiveIn(groups, active)
         /\ created \in Nat /\ GroupsOK /\ GroupsTold
         /\ bound \in [Panes -> Nat] /\ loaded \in [Panes -> Nat]
         /\ realized \in [Panes -> BOOLEAN] /\ stack \in Seq(Frame)
         /\ ActiveBorn = BornOf(groups, active)
BY DEF IInv, TypeOK, IdsUnique, ActiveIn, GroupsOK, ActiveBorn, BornOf

\* A command that the guards refuse.
LEMMA NoCommandKeeps ==
  ASSUME IInv, NEW base, Quiet(base), NoCommand(base), UNCHANGED <<realized, interrupted>>
  PROVE  CommandOK /\ Survive
<1>1. UNCHANGED <<groups, active, created, bound, loaded, layout>> /\ stack' = base
  BY DEF NoCommand, model
<1>2. GroupsOK' /\ GroupsTold'
  BY <1>1, Present DEF GroupsOK, GroupsTold
<1>3. GroupsGrow /\ Survive
  BY <1>1, Present DEF GroupsGrow, Survive
<1>4. bound' = BoundTo(groups', active')
  BY <1>1, QuietFacts
<1>5. ~interrupted =>
         \A p \in Panes : realized[p] =>
            p \in Visible(groups', active') /\ loaded'[p] = BornOf(groups', active')
  BY <1>1, QuietFacts, Present
<1>6. stack' \in Seq(Frame) /\ bound' \in [Panes -> Nat] /\ StackOK' /\ PanesOK'
  BY <1>1, <1>2, <1>3, <1>4, <1>5, Stays
<1> QED
  BY <1>1, <1>2, <1>3, <1>6, Present DEF CommandOK

\* A menu or a box that is opened for a Group knows that Group.
LEMMA AskKeeps ==
  ASSUME IInv, NEW base, Quiet(base), NEW kind \in {"menu", "box"}, NEW i \in DOMAIN groups,
         stack' = Append(base, Call(kind, groups[i].id, groups[i].born)),
         UNCHANGED <<model, bound, loaded, layout, realized, interrupted>>
  PROVE  CommandOK /\ Survive
<1>1. UNCHANGED <<groups, active, created, bound, loaded, layout>>
  BY DEF model
<1>2. GroupsOK' /\ GroupsTold'
  BY <1>1, Present DEF GroupsOK, GroupsTold
<1>3. GroupsGrow /\ Survive
  BY <1>1, Present DEF GroupsGrow, Survive
<1>4. bound' = BoundTo(groups', active')
  BY <1>1, QuietFacts
<1>5. ~interrupted =>
         \A p \in Panes : realized[p] =>
            p \in Visible(groups', active') /\ loaded'[p] = BornOf(groups', active')
  BY <1>1, QuietFacts, Present
<1> DEFINE f == Call(kind, groups[i].id, groups[i].born)
<1>6. /\ f \in Frame /\ f.kind = kind /\ f.steps = <<>>
      /\ f.id = groups[i].id /\ f.born = groups[i].born
  <2>1. groups[i] \in Group
    BY Present
  <2>2. groups[i].id \in Nat /\ groups[i].born \in Nat
    BY <2>1 DEF Group
  <2> QED
    BY <2>2, Frames DEF Kinds
<1>7. stack' = Append(base, f)
  OBVIOUS
<1> HIDE DEF f
<1>8. FrameKnows(f, groups', created')
  BY <1>1, <1>6, Present DEF FrameKnows, GroupsTold
<1>9. stack' \in Seq(Frame) /\ bound' \in [Panes -> Nat] /\ StackOK' /\ PanesOK'
  BY <1>1, <1>2, <1>3, <1>4, <1>5, <1>6, <1>7, <1>8, Stays
<1> QED
  BY <1>1, <1>2, <1>3, <1>9, Present DEF CommandOK

\* delete_group asks about the Group whose row was clicked.
LEMMA AskDeleteKeeps ==
  ASSUME IInv, NEW base, Quiet(base), NEW id \in GroupIds(groups), ask_delete(id, base),
         UNCHANGED <<realized, interrupted>>
  PROVE  CommandOK /\ Survive
<1>1. /\ IndexOf(groups, id) \in DOMAIN groups /\ groups[IndexOf(groups, id)].id = id
      /\ Find(groups, id) = groups[IndexOf(groups, id)]
  BY Present, FindKnown DEF Find
<1> QED
  BY <1>1, AskKeeps DEF ask_delete

\* Binding the panes to other PaneStates.
LEMMA RebindTypes ==
  ASSUME NEW to \in [Panes -> Nat], Rebind(to), loaded \in [Panes -> Nat]
  PROVE  /\ bound' = to /\ loaded' \in [Panes -> Nat]
         /\ \A p \in Panes :
               loaded'[p] = IF bound[p] = to[p] /\ to[p] # 0 THEN loaded[p] ELSE 0
BY DEF Rebind

\* activate_group binds the panes again, or starts a transition that will.
LEMMA ActivateKeeps ==
  ASSUME IInv, NEW base, Quiet(base), NEW gs, NEW id, activate_group(gs, id, base),
         GroupsOK', GroupsTold', GroupsGrow, Survive, id = active => gs = groups,
         groups # <<>> \/ id # active,
         ~ShuttingDown', UNCHANGED <<realized, interrupted>>
  PROVE  CommandOK
<1>1. groups' = gs /\ active' = id /\ layout' = layout
  BY DEF activate_group
<1>2. CASE id = active
  <2>1. groups' = groups /\ active' = active /\ groups # <<>>
    BY <1>1, <1>2
  <2>2. Rebind(BoundTo(groups, active)) /\ stack' = base
    BY <1>1, <1>2, <2>1 DEF activate_group
  <2>3. BoundTo(groups, active) \in [Panes -> Nat]
    BY Present, BoundIs
  <2>4. /\ bound' = BoundTo(groups, active) /\ loaded' \in [Panes -> Nat]
        /\ \A p \in Panes : loaded'[p] = IF bound[p] = BoundTo(groups, active)[p]
                                            /\ BoundTo(groups, active)[p] # 0
                                         THEN loaded[p] ELSE 0
    BY <2>2, <2>3, Present, RebindTypes
  <2>5. BornOf(groups, active) # 0
    BY <2>1, Present, ActiveIs
  <2>6. ~interrupted =>
           \A p \in Panes : realized[p] =>
              p \in Visible(groups', active') /\ loaded'[p] = BornOf(groups', active')
    BY <2>1, <2>4, <2>5, QuietFacts, Present
  <2>7. stack' \in Seq(Frame) /\ bound' \in [Panes -> Nat] /\ StackOK' /\ PanesOK'
    BY <1>1, <2>1, <2>2, <2>4, <2>6, Stays
  <2> QED
    BY <1>1, <2>4, <2>7 DEF CommandOK
<1>3. CASE id # active
  <2>1. /\ stack' = Append(base, Transition(TRUE, TRUE))
        /\ UNCHANGED <<bound, loaded, layout>>
    BY <1>3 DEF activate_group
  <2>2. BoundLive'
    <3>1. bound = BoundTo(groups, active)
      BY QuietFacts
    <3>2. \A p \in Panes : bound[p] # 0 => \E i \in DOMAIN groups : groups[i].born = bound[p]
      BY <3>1, Present, BoundIs
    <3> QED
      BY <2>1, <3>2 DEF BoundLive, Survive
  <2>3. stack' \in Seq(Frame) /\ StackOK' /\ PanesOK'
    BY <2>1, <2>2, Starts
  <2> QED
    BY <2>1, <2>3, Present DEF CommandOK
<1> QED
  BY <1>2, <1>3

\* A Group that is new gets an id and a name of its own.
LEMMA GroupAdded ==
  ASSUME IInv, NEW g \in Group, g.id \notin GroupIds(groups), g.born = created + 1,
         g.visible <= g.size, groups' = Append(groups, g), active' = g.id,
         created' = created + 1
  PROVE  GroupsOK' /\ GroupsTold' /\ GroupsGrow /\ Survive
<1> DEFINE n == Len(groups) + 1
<1>1. /\ DOMAIN groups' = DOMAIN groups \cup {n} /\ n \notin DOMAIN groups
      /\ \A i \in DOMAIN groups : groups'[i] = groups[i]
      /\ groups'[n] = g /\ groups' # <<>> /\ groups' \in Seq(Group)
  BY Present
<1> HIDE DEF n
<1>2. /\ \A i \in DOMAIN groups : groups[i].id # g.id
      /\ \A i, j \in DOMAIN groups : groups[i].id = groups[j].id => i = j
  BY Present DEF GroupIds, IdsUnique
<1>3. \A i, j \in DOMAIN groups' : groups'[i].id = groups'[j].id => i = j
  BY <1>1, <1>2
<1>4. active' \in GroupIds(groups')
  BY <1>1 DEF GroupIds
<1>5. created \in Nat /\ created' \in Nat
  BY Present
<1>6. GroupsOK'
  BY <1>1, <1>3, <1>4, <1>5 DEF GroupsOK
<1>7. \A i \in DOMAIN groups : groups[i].born \in Nat /\ groups[i].born <= created
  <2>1. \A i \in DOMAIN groups : groups[i] \in Group
    BY Present
  <2>2. \A x \in Group : x.born \in Nat
    BY DEF Group
  <2> QED
    BY <2>1, <2>2, Present DEF GroupsTold
<1>8. \A i \in DOMAIN groups : groups[i].born # g.born /\ groups[i].born <= created'
  BY <1>5, <1>7
<1>9. GroupsTold'
  <2>1. /\ \A i \in DOMAIN groups : groups[i].visible <= groups[i].size
        /\ \A i, j \in DOMAIN groups : groups[i].born = groups[j].born => i = j
    BY Present DEF GroupsTold
  <2>2. \A i \in DOMAIN groups' : groups'[i].visible <= groups'[i].size
    BY <1>1, <2>1
  <2>3. \A i \in DOMAIN groups' : groups'[i].born <= created'
    BY <1>1, <1>5, <1>8
  <2>4. \A i, j \in DOMAIN groups' : groups'[i].born = groups'[j].born => i = j
    BY <1>1, <1>8, <2>1
  <2> QED
    BY <2>2, <2>3, <2>4 DEF GroupsTold
<1>10. GroupsGrow
  BY <1>1, <1>5 DEF GroupsGrow
<1>11. Survive
  BY <1>1 DEF Survive
<1> QED
  BY <1>6, <1>9, <1>10, <1>11

\* An id that is new is not the active one.
LEMMA NextNotActive ==
  ASSUME IInv
  PROVE  next_group_id # active
BY Present, NextIsNew DEF ActiveIn

\* add_group.
LEMMA AddKeeps ==
  ASSUME IInv, NEW base, Quiet(base), add_group(base),
         ~ShuttingDown', UNCHANGED <<realized, interrupted>>
  PROVE  CommandOK /\ Survive
<1> DEFINE v == IF groups = <<>> THEN 1 ELSE Find(groups, active).visible
           g == [id |-> next_group_id, born |-> created + 1, visible |-> v, size |-> v]
<1>1. created' = created + 1 /\ activate_group(Append(groups, g), g.id, base)
  BY DEF add_group
<1>2. v \in Panes
  <2>1. CASE groups = <<>>
    BY <2>1, CommandBounds DEF Panes
  <2>2. CASE groups # <<>>
    <3>1. Find(groups, active) \in Group
      BY <2>2, Present, ActiveIs
    <3>2. \A x \in Group : x.visible \in Panes
      BY DEF Group
    <3> QED
      BY <2>2, <3>1, <3>2
  <2> QED
    BY <2>1, <2>2
<1> HIDE DEF v
<1>3. /\ g \in Group /\ g.id = next_group_id /\ g.born = created + 1
      /\ g.visible <= g.size
  <2>1. created + 1 \in Nat \ {0} /\ next_group_id \in Nat \ {0}
    BY Present, NextIsNew
  <2>2. v <= v
    BY <1>2 DEF Panes
  <2> QED
    BY <1>2, <2>1, <2>2 DEF Group
<1> HIDE DEF g
<1>4. g.id \notin GroupIds(groups) /\ g.id # active
  BY <1>3, Present, NextIsNew, NextNotActive
<1>5. groups' = Append(groups, g) /\ active' = g.id
  BY <1>1 DEF activate_group
<1>6. GroupsOK' /\ GroupsTold' /\ GroupsGrow /\ Survive
  BY <1>1, <1>3, <1>4, <1>5, GroupAdded
<1>7. CommandOK
  BY <1>1, <1>4, <1>6, ActivateKeeps
<1> QED
  BY <1>6, <1>7

\* duplicate_group.
LEMMA DuplicateKeeps ==
  ASSUME IInv, NEW base, Quiet(base), NEW id \in GroupIds(groups),
         duplicate_group(id, base), ~ShuttingDown', UNCHANGED <<realized, interrupted>>
  PROVE  CommandOK /\ Survive
<1> DEFINE x == Find(groups, id)
           g == [x EXCEPT !.id = next_group_id, !.born = created + 1]
<1>1. created' = created + 1 /\ activate_group(Append(groups, g), next_group_id, base)
  BY DEF duplicate_group
<1>2. x \in Group /\ x.visible <= x.size
  <2>1. /\ x \in Group /\ IndexOf(groups, id) \in DOMAIN groups
        /\ x = groups[IndexOf(groups, id)]
    BY Present, FindKnown DEF Find
  <2> HIDE DEF x
  <2> QED
    BY <2>1, Present DEF GroupsTold
<1> HIDE DEF x
<1>3. /\ g \in Group /\ g.id = next_group_id /\ g.born = created + 1
      /\ g.visible <= g.size
  <2>1. created + 1 \in Nat \ {0} /\ next_group_id \in Nat \ {0}
    BY Present, NextIsNew
  <2> QED
    BY <1>2, <2>1 DEF Group
<1> HIDE DEF g
<1>4. g.id \notin GroupIds(groups) /\ g.id # active
  BY <1>3, Present, NextIsNew, NextNotActive
<1>5. groups' = Append(groups, g) /\ active' = g.id
  BY <1>1, <1>3 DEF activate_group
<1>6. GroupsOK' /\ GroupsTold' /\ GroupsGrow /\ Survive
  BY <1>1, <1>3, <1>4, <1>5, GroupAdded
<1>7. CommandOK
  BY <1>1, <1>3, <1>4, <1>6, ActivateKeeps
<1> QED
  BY <1>6, <1>7

\* activate_group of a Group there is.
LEMMA SelectKeeps ==
  ASSUME IInv, NEW base, Quiet(base), NEW i \in DOMAIN groups,
         activate_group(groups, groups[i].id, base), created' = created,
         ~ShuttingDown', UNCHANGED <<realized, interrupted>>
  PROVE  CommandOK /\ Survive
<1>1. groups' = groups /\ active' = groups[i].id /\ groups # <<>>
  BY DEF activate_group
<1>2. active' \in GroupIds(groups')
  BY <1>1 DEF GroupIds
<1>3. GroupsOK' /\ GroupsTold'
  BY <1>1, <1>2, Present DEF GroupsOK, GroupsTold
<1>4. GroupsGrow /\ Survive
  BY <1>1, Present DEF GroupsGrow, Survive
<1>5. CommandOK
  BY <1>1, <1>3, <1>4, ActivateKeeps
<1> QED
  BY <1>4, <1>5

\* Groups that only change places: the active one is found all the same.
LEMMA GroupsMoved ==
  ASSUME IInv, NEW i \in DOMAIN groups, NEW j \in DOMAIN groups,
         groups' = [groups EXCEPT ![i] = groups[j], ![j] = groups[i]],
         active' = active, created' = created
  PROVE  /\ GroupsOK' /\ GroupsTold' /\ GroupsGrow /\ Survive
         /\ BoundTo(groups', active') = BoundTo(groups, active)
         /\ Visible(groups', active') = Visible(groups, active)
         /\ BornOf(groups', active') = BornOf(groups, active)
<1> DEFINE o(k) == IF k = i THEN j ELSE IF k = j THEN i ELSE k
<1>1. /\ DOMAIN groups' = DOMAIN groups /\ groups' \in Seq(Group)
      /\ \A k \in DOMAIN groups : groups'[k] = groups[o(k)]
  BY Present
<1>2. \A k \in DOMAIN groups : o(k) \in DOMAIN groups /\ o(o(k)) = k
  OBVIOUS
<1> HIDE DEF o
<1>3. /\ \A k, l \in DOMAIN groups : groups[k].id = groups[l].id => k = l
      /\ \A k, l \in DOMAIN groups : groups[k].born = groups[l].born => k = l
      /\ \A k \in DOMAIN groups : groups[k].visible <= groups[k].size
      /\ \A k \in DOMAIN groups : groups[k].born <= created
  BY Present DEF IdsUnique, GroupsTold
<1>4. IdsUnique(groups')
  BY <1>1, <1>2, <1>3 DEF IdsUnique
<1>5. groups # <<>> /\ groups' # <<>>
  BY <1>1
<1>6. PICK k \in DOMAIN groups : groups[k].id = active
  BY <1>5, Present, ActiveIs
<1>7. groups'[o(k)] = groups[k] /\ o(k) \in DOMAIN groups'
  BY <1>1, <1>2
<1>8. active \in GroupIds(groups) /\ active' \in GroupIds(groups')
  BY <1>6, <1>7 DEF GroupIds
<1>9. Find(groups, active) = groups[k]
  BY <1>6, Present, FindIs
<1>10. Find(groups', active') = groups[k]
  <2>1. Find(groups', groups'[o(k)].id) = groups'[o(k)]
    BY <1>1, <1>4, <1>7, FindIs
  <2> QED
    BY <1>6, <1>7, <2>1
<1>11. GroupsOK'
  BY <1>1, <1>4, <1>5, <1>8, Present DEF GroupsOK, IdsUnique
<1>12. GroupsTold'
  <2>1. \A l \in DOMAIN groups' : groups'[l].visible <= groups'[l].size
    BY <1>1, <1>2, <1>3
  <2>2. \A l \in DOMAIN groups' : groups'[l].born <= created'
    BY <1>1, <1>2, <1>3
  <2>3. \A l, m \in DOMAIN groups' : groups'[l].born = groups'[m].born => l = m
    BY <1>1, <1>2, <1>3
  <2> QED
    BY <2>1, <2>2, <2>3 DEF GroupsTold
<1>13. GroupsGrow
  <2>1. created' \in Nat /\ created <= created'
    BY Present
  <2>2. \A l \in DOMAIN groups' : \E m \in DOMAIN groups :
           groups[m].id = groups'[l].id /\ groups[m].born = groups'[l].born
    BY <1>1, <1>2
  <2> QED
    BY <2>1, <2>2 DEF GroupsGrow
<1>14. Survive
  BY <1>1, <1>2 DEF Survive
<1>15. /\ BoundTo(groups', active') = BoundTo(groups, active)
       /\ Visible(groups', active') = Visible(groups, active)
       /\ BornOf(groups', active') = BornOf(groups, active)
  BY <1>5, <1>8, <1>9, <1>10 DEF BoundTo, Visible, BornOf
<1> QED
  BY <1>11, <1>12, <1>13, <1>14, <1>15

\* move_group.
LEMMA MoveKeeps ==
  ASSUME IInv, NEW base, Quiet(base), NEW id \in GroupIds(groups), NEW down \in BOOLEAN,
         move_group(id, down, base), UNCHANGED <<realized, interrupted>>
  PROVE  CommandOK /\ Survive
<1> DEFINE i == IndexOf(groups, id)
           j == IF down THEN i + 1 ELSE i - 1
<1>1. /\ groups' = IF j \in DOMAIN groups
                   THEN [groups EXCEPT ![i] = groups[j], ![j] = groups[i]] ELSE groups
      /\ stack' = base /\ UNCHANGED <<active, created, bound, loaded, layout>>
  BY DEF move_group
<1>2. i \in DOMAIN groups
  BY Present, FindKnown
<1> HIDE DEF i, j
<1>3. /\ GroupsOK' /\ GroupsTold' /\ GroupsGrow /\ Survive
      /\ BoundTo(groups', active') = BoundTo(groups, active)
      /\ Visible(groups', active') = Visible(groups, active)
      /\ BornOf(groups', active') = BornOf(groups, active)
  <2>1. CASE j \in DOMAIN groups
    BY <1>1, <1>2, <2>1, GroupsMoved
  <2>2. CASE j \notin DOMAIN groups
    <3>1. groups' = groups /\ active' = active /\ created' = created
      BY <1>1, <2>2
    <3>2. GroupsOK' /\ GroupsTold'
      BY <3>1, Present DEF GroupsOK, GroupsTold
    <3>3. GroupsGrow /\ Survive
      BY <3>1, Present DEF GroupsGrow, Survive
    <3> QED
      BY <3>1, <3>2, <3>3
  <2> QED
    BY <2>1, <2>2
<1>4. bound' = BoundTo(groups', active')
  BY <1>1, <1>3, QuietFacts
<1>5. ~interrupted =>
         \A p \in Panes : realized[p] =>
            p \in Visible(groups', active') /\ loaded'[p] = BornOf(groups', active')
  BY <1>1, <1>3, QuietFacts, Present
<1>6. stack' \in Seq(Frame) /\ bound' \in [Panes -> Nat] /\ StackOK' /\ PanesOK'
  BY <1>1, <1>3, <1>4, <1>5, Stays
<1> QED
  BY <1>1, <1>3, <1>6, Present DEF CommandOK

\* set_layout.
LEMMA LayoutKeeps ==
  ASSUME IInv, NEW base, Quiet(base), NEW v \in Panes, set_layout(v, base),
         ~ShuttingDown', UNCHANGED <<realized, interrupted>>
  PROVE  CommandOK /\ Survive
<1> DEFINE i == IndexOf(groups, active)
<1>1. CASE groups = <<>> \/ groups[i].visible = v
  BY <1>1, NoCommandKeeps DEF set_layout, NoCommand
<1>2. CASE ~(groups = <<>> \/ groups[i].visible = v)
  <2> DEFINE g == [groups[i] EXCEPT !.visible = v, !.size = IF v > @ THEN v ELSE @]
  <2>1. /\ groups' = [groups EXCEPT ![i].visible = v, ![i].size = IF v > @ THEN v ELSE @]
        /\ stack' = Append(base, Transition(TRUE, FALSE))
        /\ UNCHANGED <<active, created, bound, loaded, layout>>
    BY <1>2 DEF set_layout
  <2>2. /\ i \in DOMAIN groups /\ groups[i].id = active /\ groups[i] \in Group
        /\ Find(groups, active) = groups[i]
    BY <1>2, Present, ActiveIs
  <2> HIDE DEF i
  <2>3. /\ DOMAIN groups' = DOMAIN groups
        /\ groups'[i] = g /\ \A k \in DOMAIN groups : k # i => groups'[k] = groups[k]
    BY <2>1, <2>2, Present
  <2>4. /\ g \in Group /\ g.id = groups[i].id /\ g.born = groups[i].born
        /\ g.visible <= g.size
    <3> DEFINE x == groups[i]
               z == IF v > x.size THEN v ELSE x.size
    <3>1. /\ x \in [id : Nat \ {0}, born : Nat \ {0}, visible : Panes, size : Panes]
          /\ x.size \in Panes
      BY <2>2 DEF Group
    <3>2. v \in Nat /\ x.size \in Nat
      BY <3>1, CommandBounds DEF Panes
    <3>3. z \in Panes /\ v <= z
      BY <3>1, <3>2
    <3>4. g = [x EXCEPT !.visible = v, !.size = z]
      OBVIOUS
    <3> HIDE DEF x, z, g
    <3>5. /\ g \in [id : Nat \ {0}, born : Nat \ {0}, visible : Panes, size : Panes]
          /\ g.id = x.id /\ g.born = x.born /\ g.visible = v /\ g.size = z
      BY <3>1, <3>3, <3>4
    <3> QED
      BY <3>3, <3>5 DEF x, Group
  <2> HIDE DEF g
  <2>5. groups' \in Seq(Group)
    <3>1. groups' = [groups EXCEPT ![i] = g]
      BY <2>1, <2>2, Present DEF g
    <3> QED
      BY <2>2, <2>4, <3>1, Present
  <2>6. \A k \in DOMAIN groups : /\ groups'[k].id = groups[k].id
                                 /\ groups'[k].born = groups[k].born
    BY <2>2, <2>3, <2>4
  <2>7. IdsUnique(groups') /\ active' \in GroupIds(groups') /\ groups' # <<>>
    BY <2>1, <2>2, <2>3, <2>6, Present DEF IdsUnique, GroupIds
  <2>8. GroupsOK'
    BY <2>1, <2>5, <2>7, Present DEF GroupsOK, IdsUnique
  <2>9. GroupsTold'
    <3>1. /\ \A k \in DOMAIN groups : groups[k].visible <= groups[k].size
          /\ \A k \in DOMAIN groups : groups[k].born <= created
          /\ \A k, l \in DOMAIN groups : groups[k].born = groups[l].born => k = l
      BY Present DEF GroupsTold
    <3>2. \A k \in DOMAIN groups' : groups'[k].visible <= groups'[k].size
      BY <2>2, <2>3, <2>4, <3>1
    <3>3. \A k \in DOMAIN groups' : groups'[k].born <= created'
      BY <2>1, <2>3, <2>6, <3>1
    <3>4. \A k, l \in DOMAIN groups' : groups'[k].born = groups'[l].born => k = l
      BY <2>3, <2>6, <3>1
    <3> QED
      BY <3>2, <3>3, <3>4 DEF GroupsTold
  <2>10. GroupsGrow /\ Survive
    <3>1. created' \in Nat /\ created <= created'
      BY <2>1, Present
    <3>2. \A k \in DOMAIN groups' : \E l \in DOMAIN groups :
             groups[l].id = groups'[k].id /\ groups[l].born = groups'[k].born
      BY <2>3, <2>6
    <3>3. \A k \in DOMAIN groups : \E l \in DOMAIN groups' :
             groups'[l].born = groups[k].born
      BY <2>3, <2>6
    <3> QED
      BY <3>1, <3>2, <3>3 DEF GroupsGrow, Survive
  <2>11. BornOf(groups', active') = BornOf(groups, active)
    <3>1. Find(groups', groups'[i].id) = groups'[i]
      BY <2>2, <2>3, <2>5, <2>7, FindIs
    <3>2. groups'[i].id = active'
      BY <2>1, <2>2, <2>6
    <3> QED
      BY <1>2, <2>2, <2>6, <2>7, <3>1, <3>2 DEF BornOf
  <2>12. Visible(groups', active') \subseteq Panes
    BY <2>5, <2>7, BoundIs DEF ActiveIn
  <2>13. BoundLive'
    <3>1. bound = BoundTo(groups, active)
      BY QuietFacts
    <3>2. \A p \in Panes : bound[p] # 0 => \E k \in DOMAIN groups : groups[k].born = bound[p]
      BY <3>1, Present, BoundIs
    <3> QED
      BY <2>1, <2>10, <3>2 DEF BoundLive, Survive
  <2>14. ~interrupted =>
            \A p \in Visible(groups', active') : realized[p] =>
               /\ bound'[p] = BornOf(groups', active')
               /\ loaded'[p] = BornOf(groups', active')
    BY <2>1, <2>11, <2>12, QuietFacts, Present
  <2>15. stack' \in Seq(Frame) /\ StackOK' /\ PanesOK'
    BY <2>1, <2>8, <2>9, <2>10, <2>13, <2>14, Starts
  <2> QED
    BY <2>1, <2>8, <2>9, <2>10, <2>15, Present DEF CommandOK
<1> QED
  BY <1>1, <1>2

\* What is left when one Group is taken out.
LEMMA Removed ==
  ASSUME NEW gs \in Seq(Group), NEW i \in DOMAIN gs, NEW left, left = RemoveAt(gs, i)
  PROVE  /\ left \in Seq(Group) /\ Len(left) = Len(gs) - 1
         /\ \A k \in DOMAIN left : \E m \in DOMAIN gs :
               m # i /\ m = (IF k < i THEN k ELSE k + 1) /\ left[k] = gs[m]
         /\ \A m \in DOMAIN gs : m # i => \E k \in DOMAIN left : left[k] = gs[m]
<1>1. i \in 1 .. Len(gs) /\ Len(gs) \in Nat
  OBVIOUS
<1> DEFINE a == SubSeq(gs, 1, i - 1)
           b == SubSeq(gs, i + 1, Len(gs))
<1>2. /\ a \in Seq(Group) /\ Len(a) = i - 1
      /\ \A k \in 1 .. i - 1 : a[k] = gs[k]
  BY <1>1
<1>3. /\ b \in Seq(Group) /\ Len(b) = Len(gs) - i
      /\ \A k \in 1 .. Len(gs) - i : b[k] = gs[i + k]
  BY <1>1
<1>4. left = a \o b
  BY DEF RemoveAt
<1> HIDE DEF a, b
<1>5. /\ left \in Seq(Group) /\ Len(left) = Len(gs) - 1
      /\ \A k \in 1 .. Len(gs) - 1 :
            left[k] = IF k <= i - 1 THEN a[k] ELSE b[k - (i - 1)]
  <2>1. /\ left \in Seq(Group) /\ Len(left) = Len(a) + Len(b)
        /\ \A k \in 1 .. Len(a) + Len(b) :
              left[k] = IF k <= Len(a) THEN a[k] ELSE b[k - Len(a)]
    <3>1. a \in Seq(Group) /\ b \in Seq(Group)
      BY <1>2, <1>3
    <3>2. a \o b \in Seq(Group) /\ Len(a \o b) = Len(a) + Len(b)
      BY <3>1, ConcatProperties
    <3>3. \A k \in 1 .. Len(a) + Len(b) :
             (a \o b)[k] = IF k <= Len(a) THEN a[k] ELSE b[k - Len(a)]
      BY <3>1, ConcatProperties
    <3> QED
      BY <1>4, <3>2, <3>3
  <2>2. Len(a) + Len(b) = Len(gs) - 1 /\ Len(a) = i - 1
    BY <1>1, <1>2, <1>3
  <2> QED
    BY <2>1, <2>2
<1>6. \A k \in 1 .. Len(gs) - 1 :
         left[k] = gs[IF k < i THEN k ELSE k + 1]
  <2> SUFFICES ASSUME NEW k \in 1 .. Len(gs) - 1
               PROVE  left[k] = gs[IF k < i THEN k ELSE k + 1]
    OBVIOUS
  <2>1. CASE k < i
    <3>1. k \in 1 .. i - 1 /\ k <= i - 1
      BY <1>1, <2>1
    <3> QED
      BY <1>2, <1>5, <2>1, <3>1
  <2>2. CASE ~(k < i)
    <3>1. /\ k - (i - 1) \in 1 .. Len(gs) - i /\ ~(k <= i - 1)
          /\ i + (k - (i - 1)) = k + 1
      BY <1>1, <2>2
    <3> QED
      BY <1>3, <1>5, <2>2, <3>1
  <2> QED
    BY <2>1, <2>2
<1>7. DOMAIN left = 1 .. Len(gs) - 1
  BY <1>5
<1>8. ASSUME NEW k \in DOMAIN left
      PROVE  \E m \in DOMAIN gs :
                m # i /\ m = (IF k < i THEN k ELSE k + 1) /\ left[k] = gs[m]
  <2> DEFINE m == IF k < i THEN k ELSE k + 1
  <2>1. m \in 1 .. Len(gs) /\ m # i
    BY <1>1, <1>7
  <2>2. left[k] = gs[m]
    BY <1>6, <1>7
  <2> QED
    BY <2>1, <2>2
<1>9. ASSUME NEW m \in DOMAIN gs, m # i
      PROVE  \E k \in DOMAIN left : left[k] = gs[m]
  <2>1. CASE m < i
    <3>1. m \in DOMAIN left
      BY <1>1, <1>7, <2>1
    <3> QED
      BY <1>6, <1>7, <2>1, <3>1
  <2>2. CASE ~(m < i)
    <3>1. m - 1 \in 1 .. Len(gs) - 1 /\ ~(m - 1 < i) /\ (m - 1) + 1 = m
      BY <1>1, <1>9, <2>2
    <3> QED
      BY <1>6, <1>7, <3>1
  <2> QED
    BY <2>1, <2>2
<1> QED
  BY <1>5, <1>8, <1>9

\* delete_group takes out the Group that has the id, and no other.
LEMMA DeleteKeeps ==
  ASSUME IInv, NEW base, Quiet(base), NEW id \in GroupIds(groups), delete_group(id, base),
         ~ShuttingDown', UNCHANGED <<realized, interrupted>>
  PROVE  /\ CommandOK
         /\ \A k \in DOMAIN groups : groups[k].id # id =>
               \E j \in DOMAIN groups' : groups'[j].born = groups[k].born
<1> DEFINE i == IndexOf(groups, id)
           left == RemoveAt(groups, i)
           next == IF left = <<>> THEN 0
                   ELSE IF id # active THEN active
                   ELSE left[IF i <= Len(left) THEN i ELSE Len(left)].id
<1>1. /\ groups' = left /\ active' = next
      /\ IF id = active THEN Rebind([p \in Panes |-> 0]) ELSE UNCHANGED <<bound, loaded>>
      /\ stack' = Append(base, Transition(left # <<>>, next # active))
      /\ UNCHANGED <<created, layout>>
  BY DEF delete_group
<1>2. i \in DOMAIN groups /\ groups[i].id = id /\ groups # <<>>
  BY Present, FindKnown
<1>3. next = IF left = <<>> THEN 0
             ELSE IF id # active THEN active
             ELSE left[IF i <= Len(left) THEN i ELSE Len(left)].id
  OBVIOUS
<1>4. left = RemoveAt(groups, i)
  OBVIOUS
<1> HIDE DEF i, left, next
<1> DEFINE o(k) == IF k < i THEN k ELSE k + 1
<1>5. /\ left \in Seq(Group) /\ Len(left) = Len(groups) - 1
      /\ \A k \in DOMAIN left :
            o(k) \in DOMAIN groups /\ o(k) # i /\ left[k] = groups[o(k)]
      /\ \A m \in DOMAIN groups : m # i => \E k \in DOMAIN left : left[k] = groups[m]
  <2>1. /\ left \in Seq(Group) /\ Len(left) = Len(groups) - 1
        /\ \A k \in DOMAIN left : \E m \in DOMAIN groups :
              m # i /\ m = (IF k < i THEN k ELSE k + 1) /\ left[k] = groups[m]
        /\ \A m \in DOMAIN groups : m # i => \E k \in DOMAIN left : left[k] = groups[m]
    BY <1>2, <1>4, Present, Removed
  <2>2. \A k \in DOMAIN left : o(k) = IF k < i THEN k ELSE k + 1
    OBVIOUS
  <2> HIDE DEF o
  <2>3. ASSUME NEW k \in DOMAIN left
        PROVE  o(k) \in DOMAIN groups /\ o(k) # i /\ left[k] = groups[o(k)]
    <3>1. PICK m \in DOMAIN groups :
             m # i /\ m = (IF k < i THEN k ELSE k + 1) /\ left[k] = groups[m]
      BY <2>1
    <3>2. m = o(k)
      BY <2>2, <3>1
    <3> QED
      BY <3>1, <3>2
  <2> QED
    BY <2>1, <2>3
<1>6. \A k, l \in DOMAIN left : o(k) = o(l) => k = l
  <2>1. i \in Nat /\ \A k \in DOMAIN left : k \in Nat
    BY <1>2, <1>5, Present
  <2> QED
    BY <2>1
<1> HIDE DEF o
<1>7. /\ \A k, l \in DOMAIN groups : groups[k].id = groups[l].id => k = l
      /\ \A k, l \in DOMAIN groups : groups[k].born = groups[l].born => k = l
      /\ \A k \in DOMAIN groups : groups[k].visible <= groups[k].size
      /\ \A k \in DOMAIN groups : groups[k].born <= created
  BY Present DEF IdsUnique, GroupsTold
<1>8. /\ \A k, l \in DOMAIN left : left[k].id = left[l].id => k = l
      /\ \A k, l \in DOMAIN left : left[k].born = left[l].born => k = l
      /\ \A k \in DOMAIN left : left[k].visible <= left[k].size
      /\ \A k \in DOMAIN left : left[k].born <= created
      /\ \A k \in DOMAIN left : left[k].id # id
  <2>1. \A k, l \in DOMAIN left : left[k].id = left[l].id => k = l
    BY <1>5, <1>6, <1>7
  <2>2. \A k, l \in DOMAIN left : left[k].born = left[l].born => k = l
    BY <1>5, <1>6, <1>7
  <2>3. \A k \in DOMAIN left : left[k].visible <= left[k].size
    BY <1>5, <1>7
  <2>4. \A k \in DOMAIN left : left[k].born <= created
    BY <1>5, <1>7
  <2>5. \A k \in DOMAIN left : left[k].id # id
    BY <1>2, <1>5, <1>7
  <2> QED
    BY <2>1, <2>2, <2>3, <2>4, <2>5
<1>9. GroupsTold'
  BY <1>1, <1>8 DEF GroupsTold
<1>10. GroupsGrow
  <2>1. created' \in Nat /\ created <= created'
    BY <1>1, Present
  <2>2. \A k \in DOMAIN groups' : \E m \in DOMAIN groups :
           groups[m].id = groups'[k].id /\ groups[m].born = groups'[k].born
    BY <1>1, <1>5
  <2> QED
    BY <2>1, <2>2 DEF GroupsGrow
<1>11. PICK a \in DOMAIN groups :
          /\ groups[a].id = active /\ Find(groups, active) = groups[a]
          /\ groups[a] \in Group /\ IndexOf(groups, active) = a
          /\ BornOf(groups, active) = groups[a].born /\ groups[a].born # 0
          /\ BoundTo(groups, active) =
                [p \in Panes |-> IF p <= groups[a].size THEN groups[a].born ELSE 0]
  <2>1. /\ groups \in Seq(Group) /\ IdsUnique(groups) /\ ActiveIn(groups, active)
        /\ groups # <<>>
    BY <1>2, Present
  <2> QED
    BY <2>1, ActiveIs
<1>12. id # active => \E k \in DOMAIN left : left[k] = groups[a]
  BY <1>2, <1>5, <1>11
<1>13. left # <<>> => \E k \in DOMAIN left : left[k].id = next
  <2>1. CASE id # active
    BY <1>3, <1>11, <1>12, <2>1
  <2>2. CASE id = active
    <3> DEFINE k == IF i <= Len(left) THEN i ELSE Len(left)
    <3>1. left # <<>> => k \in DOMAIN left
      <4>1. i \in 1 .. Len(groups) /\ Len(groups) \in Nat
        BY <1>2, Present
      <4>2. /\ DOMAIN left = 1 .. Len(left) /\ Len(left) \in Nat
            /\ left # <<>> => Len(left) # 0
        BY <1>5
      <4> QED
        BY <4>1, <4>2
    <3> QED
      BY <1>3, <2>2, <3>1
  <2> QED
    BY <2>1, <2>2
<1>14. GroupsOK'
  <2>1. left # <<>> => active' \in GroupIds(left)
    BY <1>1, <1>13 DEF GroupIds
  <2>2. left = <<>> => active' = 0
    BY <1>1, <1>3
  <2> QED
    BY <1>1, <1>5, <1>8, <2>1, <2>2, Present DEF GroupsOK
<1>15. bound' \in [Panes -> Nat] /\ loaded' \in [Panes -> Nat] /\ BoundLive'
  <2>1. CASE id = active
    <3> DEFINE z == [p \in Panes |-> 0]
    <3>1. Rebind(z)
      BY <1>1, <2>1
    <3>2. z \in [Panes -> Nat] /\ \A p \in Panes : z[p] = 0
      OBVIOUS
    <3> HIDE DEF z
    <3>3. bound' = z /\ loaded' \in [Panes -> Nat]
      BY <3>1, <3>2, Present, RebindTypes
    <3> QED
      BY <3>2, <3>3 DEF BoundLive
  <2>2. CASE id # active
    <3>1. bound' = bound /\ loaded' = loaded
      BY <1>1, <2>2
    <3>2. bound = BoundTo(groups, active)
      BY QuietFacts
    <3>3. \A p \in Panes : bound[p] # 0 => bound[p] = groups[a].born
      BY <1>11, <3>2
    <3> QED
      BY <1>1, <1>12, <2>2, <3>1, <3>3, Present DEF BoundLive
  <2> QED
    BY <2>1, <2>2
<1>16. \/ left # <<>> /\ next # active
       \/ ~interrupted =>
             \A p \in Visible(groups', active') : realized[p] =>
                /\ bound'[p] = BornOf(groups', active')
                /\ loaded'[p] = BornOf(groups', active')
  <2>1. CASE left = <<>>
    BY <1>1, <2>1, NoGroup
  <2>2. CASE left # <<>> /\ id = active
    BY <1>8, <1>13, <2>2
  <2>3. CASE left # <<>> /\ id # active
    <3>1. PICK k \in DOMAIN left : left[k] = groups[a]
      BY <1>12, <2>3
    <3>2. active' = active /\ groups' = left /\ bound' = bound /\ loaded' = loaded
      BY <1>1, <1>3, <2>3
    <3>3. Find(left, active) = groups[a]
      <4>1. Find(left, left[k].id) = left[k]
        BY <1>5, <1>8, FindIs DEF IdsUnique
      <4> QED
        BY <1>11, <3>1, <4>1
    <3>4. BornOf(left, active) = BornOf(groups, active)
      BY <1>11, <2>3, <3>3 DEF BornOf
    <3>5. Visible(left, active) \subseteq Panes
      BY <1>1, <1>5, <1>8, <1>14, <3>2, BoundIs DEF GroupsOK, IdsUnique, ActiveIn
    <3> QED
      BY <3>2, <3>4, <3>5, QuietFacts, Present
  <2> QED
    BY <2>1, <2>2, <2>3
<1>17. stack' \in Seq(Frame) /\ StackOK' /\ PanesOK'
  <2> DEFINE h == left # <<>>
             moved == next # active
  <2>1. /\ h \in BOOLEAN /\ moved \in BOOLEAN /\ stack' = Append(base, Transition(h, moved))
        /\ \/ h /\ moved
           \/ ~interrupted =>
                 \A p \in Visible(groups', active') : realized[p] =>
                    /\ bound'[p] = BornOf(groups', active')
                    /\ loaded'[p] = BornOf(groups', active')
    BY <1>1, <1>16
  <2>2. UNCHANGED <<realized, interrupted, layout>>
    BY <1>1
  <2> HIDE DEF h, moved
  <2> QED
    BY <1>9, <1>10, <1>14, <1>15, <2>1, <2>2, Starts
<1>18. \A k \in DOMAIN groups : groups[k].id # id =>
          \E j \in DOMAIN groups' : groups'[j].born = groups[k].born
  BY <1>1, <1>2, <1>5
<1> QED
  BY <1>1, <1>9, <1>14, <1>15, <1>17, <1>18 DEF CommandOK

\* A message's command, run outside Shell calls.
LEMMA RunKeeps ==
  ASSUME IInv, AllBoxes(stack), NEW m \in Commands, Run(m, stack), ~ShuttingDown,
         UNCHANGED <<realized, shutting, interrupted>>
  PROVE  CommandOK /\ Survive
<1>1. Quiet(stack)
  BY Present DEF Quiet
<1>2. ~ShuttingDown' /\ UNCHANGED <<realized, interrupted>>
  BY DEF ShuttingDown
<1>3. \/ m[1] = "new" \/ m[1] = "select" \/ m[1] = "menu"
      \/ m[1] = "set_layout" /\ m[2] \in Panes
  BY DEF Commands, LayoutCommands
<1>4. CASE m[1] = "new"
  <2>1. IF created < MaxCreated THEN add_group(stack) ELSE NoCommand(stack)
    BY <1>4 DEF Run
  <2> QED
    BY <1>1, <1>2, <2>1, AddKeeps, NoCommandKeeps
<1>5. CASE m[1] = "set_layout"
  <2>1. set_layout(m[2], stack) /\ m[2] \in Panes
    BY <1>3, <1>5 DEF Run
  <2> QED
    BY <1>1, <1>2, <2>1, LayoutKeeps
<1>6. CASE m[1] = "select"
  <2>1. IF groups = <<>> THEN NoCommand(stack)
        ELSE /\ \E i \in DOMAIN groups : activate_group(groups, groups[i].id, stack)
             /\ UNCHANGED created
    BY <1>6 DEF Run
  <2> QED
    BY <1>1, <1>2, <2>1, SelectKeeps, NoCommandKeeps
<1>7. CASE m[1] = "menu"
  <2>1. IF groups = <<>> THEN NoCommand(stack)
        ELSE /\ \E i \in DOMAIN groups :
                   stack' = Append(stack, Call("menu", groups[i].id, groups[i].born))
             /\ UNCHANGED <<model, bound, loaded, layout>>
    BY <1>7 DEF Run
  <2>2. CASE groups = <<>>
    BY <1>1, <1>2, <2>1, <2>2, NoCommandKeeps
  <2>3. CASE groups # <<>>
    <3>1. PICK i \in DOMAIN groups :
             stack' = Append(stack, Call("menu", groups[i].id, groups[i].born))
      BY <2>1, <2>3
    <3>2. UNCHANGED <<model, bound, loaded, layout, realized, interrupted>>
      BY <1>2, <2>1, <2>3
    <3> QED
      BY <1>1, <3>1, <3>2, AskKeeps
  <2> QED
    BY <2>2, <2>3
<1> QED
  BY <1>3, <1>4, <1>5, <1>6, <1>7

-----------------------------------------------------------------------------
(* The queues, and what the actions share.  *)

LayoutMessage == <<"layout", 0>>

\* A message is held or posted when it is in one half or the other.
LEMMA ContainsConcat ==
  ASSUME NEW S, NEW s \in Seq(S), NEW t \in Seq(S), NEW e
  PROVE  s \o t \in Seq(S) /\ (Contains(s, e) => Contains(s \o t, e))
<1>1. /\ s \o t \in Seq(S) /\ Len(s \o t) = Len(s) + Len(t)
      /\ \A i \in 1 .. Len(s) + Len(t) :
            (s \o t)[i] = IF i <= Len(s) THEN s[i] ELSE t[i - Len(s)]
  BY ConcatProperties
<1>2. Len(s) \in Nat /\ Len(t) \in Nat
  OBVIOUS
<1> DEFINE c == s \o t
<1> HIDE DEF c
<1>3. ASSUME NEW i \in 1 .. Len(s) PROVE i \in 1 .. Len(s) + Len(t) /\ (s \o t)[i] = s[i]
  <2>1. i \in 1 .. Len(s) + Len(t) /\ i <= Len(s)
    BY <1>2
  <2> QED
    BY <1>1, <2>1
<1> QED
  BY <1>1, <1>3 DEF Contains

\* What is behind the head of a queue stays in it.
LEMMA ContainsTail ==
  ASSUME NEW S, NEW s \in Seq(S), s # <<>>, NEW e, Head(s) # e, Contains(s, e)
  PROVE  Contains(Tail(s), e)
<1>1. PICK i \in 1 .. Len(s) : s[i] = e
  BY DEF Contains
<1>2. i # 1
  BY <1>1
<1>3. i - 1 \in 1 .. Len(Tail(s)) /\ Tail(s)[i - 1] = s[i]
  BY <1>1, <1>2
<1> QED
  BY <1>1, <1>3 DEF Contains

\* A queue contains what was put into it.
LEMMA ContainsAppend ==
  ASSUME NEW S, NEW s \in Seq(S), NEW e \in S
  PROVE  Append(s, e) \in Seq(S) /\ Contains(Append(s, e), e)
<1>1. /\ Append(s, e) \in Seq(S) /\ Len(Append(s, e)) = Len(s) + 1
      /\ Append(s, e)[Len(s) + 1] = e /\ Len(s) \in Nat
  OBVIOUS
<1>2. Len(s) + 1 \in 1 .. Len(Append(s, e))
  BY <1>1
<1> QED
  BY <1>1, <1>2 DEF Contains

\* Holding a message.
LEMMA HoldKeeps ==
  ASSUME held \in Seq(Commands), NEW m \in Commands, Hold(m)
  PROVE  held' \in Seq(Commands)
BY DEF Hold

\* What a step that only touches the queues leaves as it was.
LEMMA Idle ==
  ASSUME IInv, UNCHANGED <<groups, active, created, bound, loaded, realized, stack,
                           layout, shutting, interrupted>>
  PROVE  GroupsTold' /\ StackOK' /\ PanesOK'
<1>1. GroupsTold'
  BY Present DEF GroupsTold
<1>2. StackOK'
  BY DEF IInv, StackOK, ActiveBorn
<1>3. /\ ActiveBorn' = ActiveBorn /\ RebindAhead' = RebindAhead
      /\ NavigateAhead' = NavigateAhead /\ LayoutAhead' = LayoutAhead
      /\ ShuttingDown' = ShuttingDown
  BY DEF ActiveBorn, RebindAhead, NavigateAhead, LayoutAhead, ShuttingDown
<1>4. BoundAsPlanned'
  BY <1>3 DEF IInv, PanesOK, BoundAsPlanned, BoundLive
<1>5. KeptAcrossRebind'
  BY <1>3 DEF IInv, PanesOK, KeptAcrossRebind
<1>6. HiddenIsAhead'
  BY <1>3 DEF IInv, PanesOK, HiddenIsAhead
<1>7. NavigationIsAhead'
  BY <1>3 DEF IInv, PanesOK, NavigationIsAhead
<1> QED
  BY <1>1, <1>2, <1>4, <1>5, <1>6, <1>7 DEF PanesOK

\* After a command, with what it did to the queues.
LEMMA AfterCommand ==
  ASSUME IInv, CommandOK, UNCHANGED <<realized, shutting, interrupted>>,
         held' \in Seq(Commands), posted' \in Seq(Messages),
         held' # <<>> => InShell(stack'),
         Contains(posted, LayoutMessage) => Contains(posted', LayoutMessage)
  PROVE  IInv'
<1>1. TypeOK'
  BY DEF IInv, TypeOK, CommandOK, GroupsOK
<1>2. GroupsTold' /\ StackOK' /\ PanesOK'
  BY DEF CommandOK
<1>3. HeldOnlyInShell'
  BY DEF HeldOnlyInShell
<1>4. NestedLayoutPosted'
  BY DEF IInv, NestedLayoutPosted, CommandOK, LayoutMessage
<1> QED
  BY <1>1, <1>2, <1>3, <1>4 DEF IInv

\* A command message: run, held back, or swallowed.
LEMMA DeliverKeeps ==
  ASSUME IInv, Pumping, NEW m \in Commands, Deliver(m), posted' \in Seq(Messages),
         Contains(posted, LayoutMessage) => Contains(posted', LayoutMessage),
         UNCHANGED <<realized, shutting, interrupted>>
  PROVE  IInv' /\ Survive
<1>0. held \in Seq(Commands)
  BY DEF IInv, TypeOK
<1>1. CASE ShuttingDown \/ InShell(stack)
  <2>1. UNCHANGED <<groups, active, created, bound, loaded, stack, layout>>
    BY <1>1 DEF Deliver, NoCommand, model
  <2>2. GroupsTold' /\ StackOK' /\ PanesOK'
    BY <2>1, Idle
  <2>3. held' \in Seq(Commands) /\ (held' # <<>> => InShell(stack'))
    <3>1. CASE ~ShuttingDown /\ InShell(stack)
      BY <1>0, <2>1, <3>1, HoldKeeps DEF Deliver
    <3>2. CASE ~(~ShuttingDown /\ InShell(stack))
      <4>1. held' = held
        BY <3>2 DEF Deliver
      <4> QED
        BY <1>0, <2>1, <4>1 DEF IInv, HeldOnlyInShell
    <3> QED
      BY <3>1, <3>2
  <2>4. TypeOK'
    BY <2>1, <2>3 DEF IInv, TypeOK
  <2>5. HeldOnlyInShell' /\ NestedLayoutPosted'
    BY <2>1, <2>3 DEF IInv, HeldOnlyInShell, NestedLayoutPosted, LayoutMessage
  <2>6. Survive
    BY <2>1 DEF Survive
  <2> QED
    BY <2>2, <2>4, <2>5, <2>6 DEF IInv
<1>2. CASE ~(ShuttingDown \/ InShell(stack))
  <2>1. Run(m, stack) /\ held' = held
    BY <1>2 DEF Deliver
  <2>2. AllBoxes(stack)
    <3>1. stack = <<>> \/ Last(stack).kind \in {"scope", "menu", "box"}
      BY DEF Pumping, TopIs, Top
    <3> QED
      BY <1>2, <3>1, Present, PumpsOnBoxes DEF IInv, StackOK
  <2>3. CommandOK /\ Survive
    BY <1>2, <2>1, <2>2, RunKeeps
  <2>4. held' = <<>>
    BY <1>2, <2>1 DEF IInv, HeldOnlyInShell
  <2> QED
    BY <1>0, <2>1, <2>3, <2>4, AfterCommand
<1> QED
  BY <1>1, <1>2

\* UserInput.
LEMMA UserInputKeeps ==
  ASSUME IInv, NEW m \in Commands, UserInput(m)
  PROVE  IInv' /\ Survive
<1>1. Pumping /\ Deliver(m) /\ UNCHANGED <<realized, posted, shutting, interrupted>>
  BY DEF UserInput
<1>2. posted' \in Seq(Messages)
  BY <1>1 DEF IInv, TypeOK
<1> QED
  BY <1>1, <1>2, DeliverKeeps

-----------------------------------------------------------------------------
(* Pushing and popping.  *)

\* What StackOK says of a stack that is no longer, or not yet, the whole one.
BaseOK(b) ==
    /\ b \in Seq(Frame) /\ StackInOrder(b) /\ StepsInOrder(b)
    /\ Knows(b, groups, created) /\ LoopsBorn(b, ActiveBorn)
    /\ groups # <<>> => PassWork(b, Visible(groups, active), realized)

\* The stack itself.
LEMMA StackIsBase ==
  ASSUME IInv
  PROVE  /\ BaseOK(stack)
         /\ layout.in_progress <=> OnStack(stack, {"layout"})
BY Present DEF IInv, StackOK, BaseOK

\* The stack without its top.
LEMMA Popped ==
  ASSUME IInv, stack # <<>>
  PROVE  /\ BaseOK(Caller) /\ ~Ahead(Caller, "rebind_panes")
         /\ Top \in Frame /\ stack = Append(Caller, Top) /\ FitsOn(Caller, Top)
         /\ FrameSteps(Top) /\ FrameKnows(Top, groups, created)
         /\ Top.kind \in {"layout", "navigate"} => Top.born = ActiveBorn
         /\ groups # <<>> => FrameWork(Top, Visible(groups, active), realized)
         /\ \A step : Ahead(stack, step) <=> Ahead(Caller, step) \/ Has(Top, step)
         /\ \A kind, p : OnTodo(stack, kind, p) <=>
                           OnTodo(Caller, kind, p) \/ (Top.kind = kind /\ p \in Top.todo)
         /\ \A kinds : OnStack(stack, kinds) <=> OnStack(Caller, kinds) \/ Top.kind \in kinds
<1>1. /\ Caller \in Seq(Frame) /\ Top \in Frame /\ stack = Append(Caller, Top)
  BY Present, TopSplit DEF Caller, Top
<1> DEFINE b == Caller
           f == Top
<1>2. b \in Seq(Frame) /\ f \in Frame /\ stack = Append(b, f)
  BY <1>1
<1> HIDE DEF b, f
<1>3. /\ StackInOrder(stack) /\ StepsInOrder(stack) /\ Knows(stack, groups, created)
      /\ LoopsBorn(stack, ActiveBorn)
      /\ groups # <<>> => PassWork(stack, Visible(groups, active), realized)
  BY StackIsBase DEF BaseOK
<1>4. StackInOrder(b) /\ FitsOn(b, f)
  BY <1>2, <1>3, OrderPush
<1>5. StepsInOrder(b) /\ ~Ahead(b, "rebind_panes") /\ FrameSteps(f)
  BY <1>2, <1>3, StepsPush
<1>6. Knows(b, groups, created) /\ FrameKnows(f, groups, created)
  BY <1>2, <1>3, KnowsPush
<1>7. LoopsBorn(b, ActiveBorn) /\ (f.kind \in {"layout", "navigate"} => f.born = ActiveBorn)
  BY <1>2, <1>3, BornPush
<1>8. groups # <<>> =>
         /\ PassWork(b, Visible(groups, active), realized)
         /\ FrameWork(f, Visible(groups, active), realized)
  BY <1>2, <1>3, WorkPush
<1>9. /\ \A step : Ahead(stack, step) <=> Ahead(b, step) \/ Has(f, step)
      /\ \A kind, p : OnTodo(stack, kind, p) <=>
                        OnTodo(b, kind, p) \/ (f.kind = kind /\ p \in f.todo)
      /\ \A kinds : OnStack(stack, kinds) <=> OnStack(b, kinds) \/ f.kind \in kinds
  BY <1>2, AheadPush, TodoPush, KindPush
<1> QED
  BY <1>2, <1>4, <1>5, <1>6, <1>7, <1>8, <1>9 DEF BaseOK, b, f

\* The same of any base that something is pushed on.
LEMMA OnTop ==
  ASSUME NEW b, BaseOK(b), ~Ahead(b, "rebind_panes"), NEW f \in Frame, FitsOn(b, f),
         FrameSteps(f), FrameKnows(f, groups, created),
         f.kind \in {"layout", "navigate"} => f.born = ActiveBorn,
         groups # <<>> => FrameWork(f, Visible(groups, active), realized)
  PROVE  /\ BaseOK(Append(b, f))
         /\ \A step : Ahead(Append(b, f), step) <=> Ahead(b, step) \/ Has(f, step)
         /\ \A kind, p : OnTodo(Append(b, f), kind, p) <=>
                           OnTodo(b, kind, p) \/ (f.kind = kind /\ p \in f.todo)
         /\ \A kinds : OnStack(Append(b, f), kinds) <=> OnStack(b, kinds) \/ f.kind \in kinds
<1>1. /\ b \in Seq(Frame) /\ StackInOrder(b) /\ StepsInOrder(b)
      /\ Knows(b, groups, created) /\ LoopsBorn(b, ActiveBorn)
      /\ groups # <<>> => PassWork(b, Visible(groups, active), realized)
  BY DEF BaseOK
<1> DEFINE t == Append(b, f)
<1>2. /\ t \in Seq(Frame) /\ StackInOrder(t) /\ StepsInOrder(t)
      /\ Knows(t, groups, created) /\ LoopsBorn(t, ActiveBorn)
  BY <1>1, OrderPush, StepsPush, KnowsPush, BornPush
<1>3. groups # <<>> => PassWork(t, Visible(groups, active), realized)
  BY <1>1, WorkPush
<1>4. /\ \A step : Ahead(t, step) <=> Ahead(b, step) \/ Has(f, step)
      /\ \A kind, p : OnTodo(t, kind, p) <=>
                        OnTodo(b, kind, p) \/ (f.kind = kind /\ p \in f.todo)
      /\ \A kinds : OnStack(t, kinds) <=> OnStack(b, kinds) \/ f.kind \in kinds
  BY <1>1, AheadPush, TodoPush, KindPush
<1> QED
  BY <1>2, <1>3, <1>4 DEF BaseOK

\* A Shell call may be made anywhere, once the panes are bound.
LEMMA ScopeOnTop ==
  ASSUME NEW b, BaseOK(b), ~Ahead(b, "rebind_panes")
  PROVE  /\ BaseOK(Append(b, Scope)) /\ InShell(Append(b, Scope))
         /\ \A step : Ahead(Append(b, Scope), step) <=> Ahead(b, step)
         /\ \A kind \in {"navigate", "layout"} : \A p :
               OnTodo(Append(b, Scope), kind, p) <=> OnTodo(b, kind, p)
         /\ OnStack(Append(b, Scope), {"layout"}) <=> OnStack(b, {"layout"})
<1>1. Scope \in Frame /\ Scope.kind = "scope" /\ Scope.steps = <<>> /\ Scope.todo = {}
  BY Frames
<1>2. FitsOn(b, Scope)
  BY <1>1 DEF FitsOn
<1>3. FrameSteps(Scope) /\ FrameKnows(Scope, groups, created) /\ \A step : ~Has(Scope, step)
  BY <1>1 DEF FrameSteps, FrameKnows, Has
<1>4. groups # <<>> => FrameWork(Scope, Visible(groups, active), realized)
  BY <1>1 DEF FrameWork
<1>5. /\ BaseOK(Append(b, Scope))
      /\ \A step : Ahead(Append(b, Scope), step) <=> Ahead(b, step) \/ Has(Scope, step)
      /\ \A kind, p : OnTodo(Append(b, Scope), kind, p) <=>
                        OnTodo(b, kind, p) \/ (Scope.kind = kind /\ p \in Scope.todo)
      /\ \A kinds : OnStack(Append(b, Scope), kinds) <=>
                        OnStack(b, kinds) \/ Scope.kind \in kinds
  BY <1>1, <1>2, <1>3, <1>4, OnTop
<1>6. InShell(Append(b, Scope))
  BY <1>1, <1>5 DEF InShell
<1> QED
  BY <1>1, <1>3, <1>5, <1>6

\* A pass or a navigation, as it starts.
LEMMA LoopFrame ==
  ASSUME IInv, NEW kind \in {"navigate", "layout"}, NEW todo \in SUBSET Panes
  PROVE  LET f == Loop(kind, todo) IN
         /\ f \in Frame /\ f.kind = kind /\ f.born = ActiveBorn
         /\ f.steps = <<>> /\ f.todo = todo
<1>1. ActiveBorn \in Nat
  BY Present, BoundIs
<1> DEFINE c == Call(kind, 0, ActiveBorn)
<1>2. /\ c \in Frame /\ c.kind = kind /\ c.born = ActiveBorn /\ c.steps = <<>>
  BY <1>1, Frames DEF Kinds
<1>3. Loop(kind, todo) = [c EXCEPT !.todo = todo]
  BY DEF Loop
<1> HIDE DEF c
<1> QED
  BY <1>2, <1>3 DEF Frame

\* Where the message loop is pumped the panes are bound.
LEMMA PumpsBound ==
  ASSUME IInv, Pumping
  PROVE  ~Ahead(stack, "rebind_panes")
<1>1. CASE stack = <<>>
  BY <1>1, EmptyStack
<1>2. CASE stack # <<>>
  <2>1. Top.kind \in {"scope", "menu", "box"}
    BY <1>2 DEF Pumping, TopIs
  <2>2. Top.steps = <<>>
    BY <1>2, <2>1, Popped DEF FrameSteps
  <2>3. ~Has(Top, "rebind_panes")
    BY <2>2 DEF Has
  <2> QED
    BY <1>2, <2>3, Popped
<1> QED
  BY <1>1, <1>2

\* A pass starts with every pane that is on the wrong side.
LEMMA PassStarts ==
  ASSUME IInv, NEW b, BaseOK(b), ~Ahead(b, "rebind_panes"), ~OnStack(b, {"layout"}),
         b = <<>> \/ Last(b).kind \in {"scope", "menu", "box", "transition"},
         NEW t, t = Append(b, Loop("layout", plan_realization))
  PROVE  /\ BaseOK(t) /\ OnStack(t, {"layout"})
         /\ \A step : Ahead(t, step) <=> Ahead(b, step)
         /\ \A p : OnTodo(t, "navigate", p) <=> OnTodo(b, "navigate", p)
         /\ \A p \in Panes : realized[p] /\ p \notin Visible(groups, active) =>
               OnTodo(t, "layout", p)
         /\ InShell(t) <=> InShell(b)
<1> DEFINE f == Loop("layout", plan_realization)
<1>1. plan_realization \in SUBSET Panes
  BY DEF plan_realization
<1>2. /\ f \in Frame /\ f.kind = "layout" /\ f.born = ActiveBorn
      /\ f.steps = <<>> /\ f.todo = plan_realization
  BY <1>1, LoopFrame
<1>3. t = Append(b, f)
  OBVIOUS
<1> HIDE DEF f
<1>4. FitsOn(b, f)
  BY <1>2 DEF FitsOn
<1>5. FrameSteps(f) /\ FrameKnows(f, groups, created) /\ \A step : ~Has(f, step)
  BY <1>2 DEF FrameSteps, FrameKnows, Has
<1>6. groups # <<>> => FrameWork(f, Visible(groups, active), realized)
  BY <1>2 DEF FrameWork, plan_realization
<1>7. /\ BaseOK(t)
      /\ \A step : Ahead(t, step) <=> Ahead(b, step) \/ Has(f, step)
      /\ \A kind, p : OnTodo(t, kind, p) <=>
                        OnTodo(b, kind, p) \/ (f.kind = kind /\ p \in f.todo)
      /\ \A kinds : OnStack(t, kinds) <=> OnStack(b, kinds) \/ f.kind \in kinds
  BY <1>2, <1>3, <1>4, <1>5, <1>6, OnTop
<1>8. \A p \in Panes : realized[p] /\ p \notin Visible(groups, active) => p \in f.todo
  BY <1>2 DEF plan_realization
<1>9. InShell(t) <=> InShell(b)
  BY <1>2, <1>7 DEF InShell
<1> QED
  BY <1>2, <1>5, <1>7, <1>8, <1>9

LayoutFlags == [in_progress : BOOLEAN, pending : BOOLEAN, queued : BOOLEAN]

\* apply_layout starts a pass, or asks the one in progress for another.
LEMMA ApplyLayout ==
  ASSUME IInv, NEW b, BaseOK(b), ~Ahead(b, "rebind_panes"),
         NEW lay \in LayoutFlags, lay.in_progress <=> OnStack(b, {"layout"}),
         b = <<>> \/ Last(b).kind \in {"scope", "menu", "box", "transition"},
         apply_layout(lay, b)
  PROVE  /\ BaseOK(stack') /\ layout' \in LayoutFlags
         /\ layout'.in_progress <=> OnStack(stack', {"layout"})
         /\ layout'.queued = lay.queued
         /\ layout'.pending => lay.pending \/ layout'.in_progress
         /\ \A step : Ahead(stack', step) <=> Ahead(b, step)
         /\ \A p : OnTodo(stack', "navigate", p) <=> OnTodo(b, "navigate", p)
         /\ IF lay.in_progress THEN stack' = b
            ELSE \A p \in Panes : realized[p] /\ p \notin Visible(groups, active) =>
                    OnTodo(stack', "layout", p)
         /\ InShell(stack') <=> InShell(b)
<1>1. CASE lay.in_progress
  <2>1. layout' = [lay EXCEPT !.pending = TRUE] /\ stack' = b
    BY <1>1 DEF apply_layout
  <2>2. /\ layout' \in LayoutFlags /\ layout'.in_progress = lay.in_progress
        /\ layout'.queued = lay.queued
    BY <2>1 DEF LayoutFlags
  <2> QED
    BY <1>1, <2>1, <2>2
<1>2. CASE ~lay.in_progress
  <2>1. /\ layout' = [lay EXCEPT !.in_progress = TRUE]
        /\ stack' = Append(b, Loop("layout", plan_realization))
    BY <1>2 DEF apply_layout
  <2>2. /\ layout' \in LayoutFlags /\ layout'.in_progress
        /\ layout'.queued = lay.queued
    BY <2>1 DEF LayoutFlags
  <2>3. /\ BaseOK(stack') /\ OnStack(stack', {"layout"})
        /\ \A step : Ahead(stack', step) <=> Ahead(b, step)
        /\ \A p : OnTodo(stack', "navigate", p) <=> OnTodo(b, "navigate", p)
        /\ \A p \in Panes : realized[p] /\ p \notin Visible(groups, active) =>
               OnTodo(stack', "layout", p)
        /\ InShell(stack') <=> InShell(b)
    BY <1>2, <2>1, PassStarts
  <2> QED
    BY <1>2, <2>2, <2>3
<1> QED
  BY <1>1, <1>2

\* A stack that is in order with the Groups and the panes it was built for.
LEMMA StackKept ==
  ASSUME BaseOK(stack'), UNCHANGED <<groups, active, created, realized>>,
         layout'.in_progress <=> OnStack(stack', {"layout"})
  PROVE  stack' \in Seq(Frame) /\ StackOK'
<1>1. ActiveBorn' = ActiveBorn
  BY DEF ActiveBorn
<1> QED
  BY <1>1 DEF BaseOK, StackOK

\* Panes that nothing was done to are owed what they were owed.
LEMMA PanesKept ==
  ASSUME IInv, UNCHANGED <<groups, active, bound, loaded, realized>>,
         ~Ahead(stack, "rebind_panes"), ~Ahead(stack', "rebind_panes"),
         ~interrupted' => ~interrupted,
         ~interrupted' =>
            \A p \in Panes : realized[p] =>
               /\ p \notin Visible(groups, active)
                     /\ (Ahead(stack, "apply_layout") \/ OnTodo(stack, "layout", p)) =>
                  Ahead(stack', "apply_layout") \/ OnTodo(stack', "layout", p)
               /\ p \in Visible(groups, active)
                     /\ (\/ Ahead(stack, "navigate_realized_panes")
                         \/ OnTodo(stack, "navigate", p)) =>
                  \/ Ahead(stack', "navigate_realized_panes")
                  \/ OnTodo(stack', "navigate", p)
  PROVE  PanesOK'
<1>1. ActiveBorn' = ActiveBorn
  BY DEF ActiveBorn
<1>2. BoundAsPlanned'
  BY DEF IInv, PanesOK, BoundAsPlanned, RebindAhead
<1>3. KeptAcrossRebind'
  BY DEF KeptAcrossRebind, RebindAhead
<1>4. HiddenIsAhead'
  BY DEF IInv, PanesOK, HiddenIsAhead, LayoutAhead
<1>5. Visible(groups, active) \subseteq Panes
  BY Present, BoundIs
<1>6. NavigationIsAhead'
  BY <1>1, <1>5 DEF IInv, PanesOK, NavigationIsAhead, NavigateAhead
<1> QED
  BY <1>2, <1>3, <1>4, <1>6 DEF PanesOK

\* Whatever pumps may be on top of a pass.
LEMMA PumpsTop ==
  ASSUME Pumping
  PROVE  stack = <<>> \/ Last(stack).kind \in {"scope", "menu", "box", "transition"}
BY DEF Pumping, TopIs, Top

\* Resize.
LEMMA ResizeKeeps ==
  ASSUME IInv, Resize
  PROVE  IInv' /\ Survive
<1>1. /\ Pumping /\ apply_layout(layout, stack)
      /\ UNCHANGED <<groups, active, created, bound, loaded, realized, held, posted,
                     shutting, interrupted>>
  BY DEF Resize, model, panes, queues
<1>2. layout \in LayoutFlags /\ BaseOK(stack) /\ ~Ahead(stack, "rebind_panes")
  BY <1>1, StackIsBase, PumpsBound DEF IInv, TypeOK, LayoutFlags
<1>3. /\ BaseOK(stack') /\ layout' \in LayoutFlags
      /\ layout'.in_progress <=> OnStack(stack', {"layout"})
      /\ layout'.queued = layout.queued
      /\ layout'.pending => layout.pending \/ layout'.in_progress
      /\ \A step : Ahead(stack', step) <=> Ahead(stack, step)
      /\ \A p : OnTodo(stack', "navigate", p) <=> OnTodo(stack, "navigate", p)
      /\ IF layout.in_progress THEN stack' = stack
         ELSE \A p \in Panes : realized[p] /\ p \notin Visible(groups, active) =>
                 OnTodo(stack', "layout", p)
      /\ InShell(stack') <=> InShell(stack)
  BY <1>1, <1>2, StackIsBase, PumpsTop, ApplyLayout
<1>4. stack' \in Seq(Frame) /\ StackOK'
  BY <1>1, <1>3, StackKept
<1>5. PanesOK'
  BY <1>1, <1>2, <1>3, PanesKept
<1>6. TypeOK'
  BY <1>1, <1>3, <1>4 DEF IInv, TypeOK, LayoutFlags
<1>7. GroupsTold' /\ HeldOnlyInShell'
  BY <1>1, <1>3 DEF IInv, GroupsTold, HeldOnlyInShell
<1>8. NestedLayoutPosted'
  <2>1. layout.in_progress => layout'.in_progress
    BY <1>2, <1>3, StackIsBase
  <2> QED
    BY <1>1, <1>3, <2>1 DEF IInv, NestedLayoutPosted
<1>9. Survive
  BY <1>1 DEF Survive
<1> QED
  BY <1>4, <1>5, <1>6, <1>7, <1>8, <1>9 DEF IInv

\* ShellCall.
LEMMA ShellCallKeeps ==
  ASSUME IInv, ShellCall
  PROVE  IInv' /\ Survive
<1>1. /\ Pumping /\ stack' = Append(stack, Scope)
      /\ UNCHANGED <<groups, active, created, bound, loaded, realized, held, posted,
                     layout, shutting, interrupted>>
  BY DEF ShellCall, model, panes, queues
<1>2. BaseOK(stack) /\ ~Ahead(stack, "rebind_panes")
  BY <1>1, StackIsBase, PumpsBound
<1>3. /\ BaseOK(stack') /\ InShell(stack')
      /\ \A step : Ahead(stack', step) <=> Ahead(stack, step)
      /\ \A kind \in {"navigate", "layout"} : \A p :
            OnTodo(stack', kind, p) <=> OnTodo(stack, kind, p)
      /\ OnStack(stack', {"layout"}) <=> OnStack(stack, {"layout"})
  BY <1>1, <1>2, ScopeOnTop
<1>4. stack' \in Seq(Frame) /\ StackOK'
  BY <1>1, <1>3, StackIsBase, StackKept
<1>5. PanesOK'
  BY <1>1, <1>2, <1>3, PanesKept
<1>6. TypeOK'
  BY <1>1, <1>4 DEF IInv, TypeOK
<1>7. GroupsTold' /\ HeldOnlyInShell' /\ NestedLayoutPosted'
  BY <1>1, <1>3 DEF IInv, GroupsTold, HeldOnlyInShell, NestedLayoutPosted
<1>8. Survive
  BY <1>1 DEF Survive
<1> QED
  BY <1>4, <1>5, <1>6, <1>7, <1>8 DEF IInv

\* A posted message arrives.
LEMMA PostedArrivesKeeps ==
  ASSUME IInv, PostedArrives
  PROVE  IInv' /\ Survive
<1>1. /\ Pumping /\ posted # <<>> /\ posted' = Tail(posted)
      /\ UNCHANGED <<realized, shutting>>
  BY DEF PostedArrives
<1>2. /\ posted \in Seq(Messages) /\ posted' \in Seq(Messages)
      /\ Head(posted) \in Messages
  BY <1>1 DEF IInv, TypeOK
<1>3. CASE Head(posted) # LayoutMessage
  <2>1. Head(posted) \in Commands
    BY <1>2, <1>3 DEF Messages, LayoutMessage
  <2>2. Contains(posted, LayoutMessage) => Contains(posted', LayoutMessage)
    BY <1>1, <1>2, <1>3, ContainsTail
  <2>3. Deliver(Head(posted)) /\ UNCHANGED interrupted
    BY <1>3 DEF PostedArrives, LayoutMessage
  <2> QED
    BY <1>1, <1>2, <2>1, <2>2, <2>3, DeliverKeeps
<1>4. CASE Head(posted) = LayoutMessage
  <2> DEFINE lay == [layout EXCEPT !.queued = FALSE, !.pending = FALSE]
  <2>1. /\ IF ShuttingDown THEN UNCHANGED <<layout, stack>> ELSE apply_layout(lay, stack)
        /\ interrupted' = (interrupted \/ ShuttingDown)
        /\ UNCHANGED <<groups, active, created, bound, loaded, held>>
    BY <1>4 DEF PostedArrives, LayoutMessage, model
  <2>2. layout \in LayoutFlags /\ BaseOK(stack) /\ ~Ahead(stack, "rebind_panes")
    BY <1>1, StackIsBase, PumpsBound DEF IInv, TypeOK, LayoutFlags
  <2>3. /\ lay \in LayoutFlags /\ lay.in_progress = layout.in_progress
        /\ ~lay.queued /\ ~lay.pending
    BY <2>2 DEF LayoutFlags
  <2> HIDE DEF lay
  <2>4. interrupted' \in BOOLEAN
    BY <2>1 DEF IInv, TypeOK, ShuttingDown
  <2>5. GroupsTold' /\ Survive
    BY <2>1 DEF IInv, GroupsTold, Survive
  <2>6. CASE ShuttingDown
    <3>1. UNCHANGED <<layout, stack>> /\ interrupted'
      BY <2>1, <2>6
    <3>2. stack' \in Seq(Frame) /\ StackOK'
      BY <1>1, <2>1, <2>2, <3>1, StackIsBase, StackKept
    <3>3. PanesOK'
      BY <1>1, <2>1, <2>2, <3>1, PanesKept
    <3>4. TypeOK'
      BY <1>1, <1>2, <2>1, <2>4, <3>1 DEF IInv, TypeOK
    <3>5. HeldOnlyInShell' /\ NestedLayoutPosted'
      BY <2>1, <3>1 DEF IInv, HeldOnlyInShell, NestedLayoutPosted
    <3> QED
      BY <2>5, <3>2, <3>3, <3>4, <3>5 DEF IInv
  <2>7. CASE ~ShuttingDown
    <3>1. /\ BaseOK(stack') /\ layout' \in LayoutFlags
          /\ layout'.in_progress <=> OnStack(stack', {"layout"})
          /\ layout'.queued = lay.queued
          /\ layout'.pending => lay.pending \/ layout'.in_progress
          /\ \A step : Ahead(stack', step) <=> Ahead(stack, step)
          /\ \A p : OnTodo(stack', "navigate", p) <=> OnTodo(stack, "navigate", p)
          /\ IF lay.in_progress THEN stack' = stack
             ELSE \A p \in Panes : realized[p] /\ p \notin Visible(groups, active) =>
                     OnTodo(stack', "layout", p)
          /\ InShell(stack') <=> InShell(stack)
      BY <1>1, <2>1, <2>2, <2>3, <2>7, StackIsBase, PumpsTop, ApplyLayout
    <3>2. stack' \in Seq(Frame) /\ StackOK'
      BY <1>1, <2>1, <3>1, StackKept
    <3>3. interrupted' = interrupted
      BY <2>1, <2>7 DEF IInv, TypeOK
    <3>4. PanesOK'
      BY <1>1, <2>1, <2>2, <2>3, <3>1, <3>3, PanesKept
    <3>5. TypeOK'
      BY <1>1, <1>2, <2>1, <2>4, <3>1, <3>2 DEF IInv, TypeOK, LayoutFlags
    <3>6. HeldOnlyInShell' /\ NestedLayoutPosted'
      BY <2>1, <2>3, <3>1 DEF IInv, HeldOnlyInShell, NestedLayoutPosted
    <3> QED
      BY <2>5, <3>2, <3>4, <3>5, <3>6 DEF IInv
  <2> QED
    BY <2>6, <2>7
<1> QED
  BY <1>3, <1>4

\* ShellReentryGuard::leave loses nothing.
LEMMA LeaveScopeKeeps ==
  ASSUME IInv, LeaveScope
  PROVE  /\ held' \in Seq(Commands) /\ posted' \in Seq(Messages)
         /\ held' # <<>> => InShell(Caller)
         /\ Contains(posted, LayoutMessage) => Contains(posted', LayoutMessage)
<1>1. held \in Seq(Commands) /\ held \in Seq(Messages) /\ posted \in Seq(Messages)
  <2>1. held \in Seq(Commands) /\ posted \in Seq(Messages)
    BY DEF IInv, TypeOK
  <2>2. Commands \subseteq Messages
    BY DEF Messages
  <2> QED
    BY <2>1, <2>2
<1>2. CASE InShell(Caller)
  BY <1>1, <1>2 DEF LeaveScope, queues
<1>3. CASE ~InShell(Caller)
  <2>1. held' = <<>> /\ posted' = IF ShuttingDown THEN posted ELSE posted \o held
    BY <1>3 DEF LeaveScope
  <2>2. held' \in Seq(Commands)
    BY <2>1
  <2> QED
    BY <1>1, <2>1, <2>2, ContainsConcat
<1> QED
  BY <1>2, <1>3

\* A Shell call returns.
LEMMA ScopeReturnsKeeps ==
  ASSUME IInv, ScopeReturns
  PROVE  IInv' /\ Survive
<1>1. /\ stack # <<>> /\ Top.kind = "scope" /\ stack' = Caller /\ LeaveScope
      /\ UNCHANGED <<groups, active, created, bound, loaded, realized, layout,
                     shutting, interrupted>>
  BY DEF ScopeReturns, TopIs, model, panes
<1>2. /\ BaseOK(Caller) /\ ~Ahead(Caller, "rebind_panes") /\ FrameSteps(Top)
      /\ \A step : Ahead(stack, step) <=> Ahead(Caller, step) \/ Has(Top, step)
      /\ \A kind, p : OnTodo(stack, kind, p) <=>
                        OnTodo(Caller, kind, p) \/ (Top.kind = kind /\ p \in Top.todo)
      /\ \A kinds : OnStack(stack, kinds) <=> OnStack(Caller, kinds) \/ Top.kind \in kinds
  BY <1>1, Popped
<1>3. \A step : ~Has(Top, step)
  BY <1>1, <1>2 DEF FrameSteps, Has
<1>4. layout.in_progress <=> OnStack(Caller, {"layout"})
  BY <1>1, <1>2, StackIsBase
<1>5. stack' \in Seq(Frame) /\ StackOK'
  BY <1>1, <1>2, <1>4, StackKept
<1>6. PanesOK'
  BY <1>1, <1>2, <1>3, PanesKept
<1>7. /\ held' \in Seq(Commands) /\ posted' \in Seq(Messages)
      /\ held' # <<>> => InShell(stack')
      /\ Contains(posted, LayoutMessage) => Contains(posted', LayoutMessage)
  BY <1>1, LeaveScopeKeeps
<1>8. TypeOK'
  BY <1>1, <1>5, <1>7 DEF IInv, TypeOK
<1>9. HeldOnlyInShell' /\ NestedLayoutPosted'
  BY <1>1, <1>7 DEF IInv, HeldOnlyInShell, NestedLayoutPosted, LayoutMessage
<1>10. GroupsTold' /\ Survive
  BY <1>1 DEF IInv, GroupsTold, Survive
<1> QED
  BY <1>5, <1>6, <1>8, <1>9, <1>10 DEF IInv

\* What a menu or a box leaves when it closes.
LEMMA AskedQuiet ==
  ASSUME IInv, stack # <<>>, Top.kind \in {"menu", "box"}
  PROVE  Quiet(Caller) /\ ~InShell(Caller)
<1>1. /\ Top \in Frame /\ stack = Append(Caller, Top) /\ FitsOn(Caller, Top)
      /\ Caller \in Seq(Frame)
  BY Popped DEF BaseOK
<1>2. AllBoxes(Caller)
  BY <1>1 DEF FitsOn
<1>3. Quiet(Caller)
  BY <1>1, <1>2 DEF Quiet
<1> QED
  BY <1>3, QuietFacts

\* The context menu's command.
LEMMA MenuReturnsKeeps ==
  ASSUME IInv, NEW c \in MenuCommands \cup {"cancelled"}, MenuReturns(c)
  PROVE  IInv' /\ Survive
<1>1. stack # <<>> /\ Top.kind = "menu" /\ LeaveScope
      /\ UNCHANGED <<realized, shutting, interrupted>>
  BY DEF MenuReturns, TopIs
<1>2. Quiet(Caller) /\ ~InShell(Caller)
  BY <1>1, AskedQuiet
<1>3. /\ held' = <<>> /\ held' \in Seq(Commands) /\ posted' \in Seq(Messages)
      /\ Contains(posted, LayoutMessage) => Contains(posted', LayoutMessage)
  BY <1>1, <1>2, LeaveScopeKeeps
<1>4. CASE c = "cancelled" \/ ShuttingDown \/ Top.id \notin GroupIds(groups)
  <2>1. NoCommand(Caller)
    BY <1>4 DEF MenuReturns
  <2>2. CommandOK /\ Survive
    BY <1>1, <1>2, <2>1, NoCommandKeeps
  <2> QED
    BY <1>1, <1>3, <2>2, AfterCommand
<1>5. CASE ~(c = "cancelled" \/ ShuttingDown \/ Top.id \notin GroupIds(groups))
  <2>1. Top.id \in GroupIds(groups) /\ ~ShuttingDown'
    BY <1>1, <1>5 DEF ShuttingDown
  <2>2. /\ c = "duplicate" /\ created < MaxCreated => duplicate_group(Top.id, Caller)
        /\ c = "duplicate" /\ ~(created < MaxCreated) => NoCommand(Caller)
        /\ c = "delete" => ask_delete(Top.id, Caller)
        /\ c = "move_up" => move_group(Top.id, FALSE, Caller)
        /\ c = "move_down" => move_group(Top.id, TRUE, Caller)
    BY <1>5 DEF MenuReturns
  <2>3. c \in {"duplicate", "delete", "move_up", "move_down"}
    BY <1>5 DEF MenuCommands
  <2>4. CommandOK /\ Survive
    <3>1. CASE c = "duplicate"
      BY <1>1, <1>2, <2>1, <2>2, <3>1, DuplicateKeeps, NoCommandKeeps
    <3>2. CASE c = "delete"
      BY <1>1, <1>2, <2>1, <2>2, <3>2, AskDeleteKeeps
    <3>3. CASE c = "move_up"
      BY <1>1, <1>2, <2>1, <2>2, <3>3, MoveKeeps
    <3>4. CASE c = "move_down"
      BY <1>1, <1>2, <2>1, <2>2, <3>4, MoveKeeps
    <3> QED
      BY <2>3, <3>1, <3>2, <3>3, <3>4
  <2> QED
    BY <1>1, <1>3, <2>4, AfterCommand
<1> QED
  BY <1>4, <1>5

\* delete_group's box is answered: the other Groups survive it.
LEMMA BoxAnsweredKeeps ==
  ASSUME IInv, NEW yes \in BOOLEAN, BoxAnswered(yes)
  PROVE  /\ IInv'
         /\ TopIs("box")
         /\ \A k \in DOMAIN groups : groups[k].id # Top.id =>
               \E j \in DOMAIN groups' : groups'[j].born = groups[k].born
<1>1. /\ stack # <<>> /\ Top.kind = "box" /\ TopIs("box")
      /\ UNCHANGED <<realized, held, posted, shutting, interrupted>>
  BY DEF BoxAnswered, TopIs, queues
<1>2. Quiet(Caller) /\ ~InShell(Caller)
  BY <1>1, AskedQuiet
<1>3. held' = <<>> /\ held' \in Seq(Commands) /\ posted' \in Seq(Messages)
  <2>1. ~InShell(stack)
    BY <1>1, <1>2, Popped DEF InShell
  <2> QED
    BY <1>1, <2>1 DEF IInv, TypeOK, HeldOnlyInShell
<1>4. CASE yes /\ ~ShuttingDown /\ Top.id \in GroupIds(groups)
  <2>1. delete_group(Top.id, Caller) /\ ~ShuttingDown'
    BY <1>1, <1>4 DEF BoxAnswered, ShuttingDown
  <2>2. /\ CommandOK
        /\ \A k \in DOMAIN groups : groups[k].id # Top.id =>
              \E j \in DOMAIN groups' : groups'[j].born = groups[k].born
    BY <1>1, <1>2, <1>4, <2>1, DeleteKeeps
  <2>3. IInv'
    BY <1>1, <1>3, <2>2, AfterCommand
  <2> QED
    BY <1>1, <2>2, <2>3
<1>5. CASE ~(yes /\ ~ShuttingDown /\ Top.id \in GroupIds(groups))
  <2>1. NoCommand(Caller)
    BY <1>5 DEF BoxAnswered
  <2>2. CommandOK /\ Survive
    BY <1>1, <1>2, <2>1, NoCommandKeeps
  <2>3. IInv'
    BY <1>1, <1>3, <2>2, AfterCommand
  <2> QED
    BY <1>1, <2>2, <2>3 DEF Survive
<1> QED
  BY <1>4, <1>5

\* A transition that has taken its next step.
LEMMA StepTaken ==
  ASSUME IInv, stack # <<>>, Top.kind = "transition", Top.steps # <<>>
  PROVE  /\ BaseOK(Advanced) /\ ~Ahead(Advanced, "rebind_panes")
         /\ Head(Top.steps) \in Steps
         /\ \A step : Ahead(stack, step) <=>
                         Ahead(Advanced, step) \/ step = Head(Top.steps)
         /\ \A kind \in {"navigate", "layout"} : \A p :
               OnTodo(Advanced, kind, p) <=> OnTodo(stack, kind, p)
         /\ ~OnStack(Advanced, {"layout"}) /\ ~OnStack(stack, {"layout"})
         /\ ~InShell(stack)
         /\ Advanced # <<>> /\ Last(Advanced).kind = "transition"
<1>1. /\ BaseOK(Caller) /\ ~Ahead(Caller, "rebind_panes")
      /\ Top \in Frame /\ FitsOn(Caller, Top) /\ FrameSteps(Top)
      /\ \A step : Ahead(stack, step) <=> Ahead(Caller, step) \/ Has(Top, step)
      /\ \A kind, p : OnTodo(stack, kind, p) <=>
                        OnTodo(Caller, kind, p) \/ (Top.kind = kind /\ p \in Top.todo)
      /\ \A kinds : OnStack(stack, kinds) <=> OnStack(Caller, kinds) \/ Top.kind \in kinds
  BY Popped
<1> DEFINE f == Top
           g == [f EXCEPT !.steps = Tail(@)]
<1>2. f \in Frame /\ f.steps \in Seq(Steps) /\ f.steps # <<>> /\ f.kind = "transition"
  BY <1>1 DEF Frame
<1>3. /\ g \in Frame /\ g.kind = f.kind /\ g.todo = f.todo /\ g.steps = Tail(f.steps)
  <2>1. Tail(f.steps) \in Seq(Steps)
    BY <1>2
  <2> HIDE DEF f
  <2> QED
    BY <1>2, <2>1 DEF Frame
<1>4. Advanced = Append(Caller, g)
  BY DEF Advanced
<1>5. /\ FitsOn(Caller, f) /\ FrameSteps(f)
      /\ \A step : Ahead(stack, step) <=> Ahead(Caller, step) \/ Has(f, step)
      /\ \A kind \in {"navigate", "layout"} : \A p :
            OnTodo(stack, kind, p) <=> OnTodo(Caller, kind, p)
      /\ \A kinds : OnStack(stack, kinds) <=> OnStack(Caller, kinds) \/ f.kind \in kinds
  BY <1>1, <1>2
<1>6. Head(f.steps) = Head(Top.steps)
  OBVIOUS
<1> HIDE DEF f, g
<1>7. /\ Head(f.steps) = f.steps[1] /\ Head(f.steps) \in Steps /\ 1 \in DOMAIN f.steps
      /\ \A k \in DOMAIN Tail(f.steps) :
            k + 1 \in DOMAIN f.steps /\ k + 1 # 1 /\ Tail(f.steps)[k] = f.steps[k + 1]
      /\ \A k \in DOMAIN f.steps : k # 1 =>
            k - 1 \in DOMAIN Tail(f.steps) /\ Tail(f.steps)[k - 1] = f.steps[k]
  BY <1>2
<1>8. \A step : Has(f, step) <=> Has(g, step) \/ step = Head(f.steps)
  <2>1. ASSUME NEW step, Has(g, step) PROVE Has(f, step)
    <3>1. PICK k \in DOMAIN Tail(f.steps) : Tail(f.steps)[k] = step
      BY <1>3, <2>1 DEF Has
    <3>2. k + 1 \in DOMAIN f.steps /\ f.steps[k + 1] = step
      BY <1>7, <3>1
    <3> QED
      BY <3>2 DEF Has
  <2>2. ASSUME NEW step, Has(f, step), step # Head(f.steps) PROVE Has(g, step)
    <3>1. PICK k \in DOMAIN f.steps : f.steps[k] = step
      BY <2>2 DEF Has
    <3>2. k # 1
      BY <1>7, <2>2, <3>1
    <3>3. k - 1 \in DOMAIN Tail(f.steps) /\ Tail(f.steps)[k - 1] = step
      BY <1>7, <3>1, <3>2
    <3> QED
      BY <1>3, <3>3 DEF Has
  <2>3. Has(f, Head(f.steps))
    BY <1>7 DEF Has
  <2> QED
    BY <2>1, <2>2, <2>3
<1>9. \A k \in DOMAIN g.steps : g.steps[k] # "rebind_panes"
  BY <1>3, <1>5, <1>7 DEF FrameSteps
<1>10. ~Has(g, "rebind_panes")
  BY <1>9 DEF Has
<1>11. FitsOn(Caller, g)
  BY <1>3, <1>5 DEF FitsOn
<1>12. FrameSteps(g)
  BY <1>2, <1>3, <1>9 DEF FrameSteps
<1>13. FrameKnows(g, groups, created) /\ FrameWork(g, Visible(groups, active), realized)
  BY <1>2, <1>3 DEF FrameKnows, FrameWork
<1>14. /\ BaseOK(Advanced)
       /\ \A step : Ahead(Advanced, step) <=> Ahead(Caller, step) \/ Has(g, step)
       /\ \A kind, p : OnTodo(Advanced, kind, p) <=>
                         OnTodo(Caller, kind, p) \/ (g.kind = kind /\ p \in g.todo)
       /\ \A kinds : OnStack(Advanced, kinds) <=> OnStack(Caller, kinds) \/ g.kind \in kinds
  <2> HIDE DEF Caller, Advanced
  <2> QED
    BY <1>1, <1>2, <1>3, <1>4, <1>11, <1>12, <1>13, OnTop
<1>15. AllBoxes(Caller)
  BY <1>2, <1>5 DEF FitsOn
<1>16. ~OnStack(Caller, {"layout"}) /\ ~InShell(Caller)
  BY <1>1, <1>15, BoxesOwe DEF BaseOK
<1>17. ~OnStack(Advanced, {"layout"}) /\ ~OnStack(stack, {"layout"}) /\ ~InShell(stack)
  BY <1>2, <1>3, <1>5, <1>14, <1>16 DEF InShell
<1>18. Advanced # <<>> /\ Last(Advanced) = g
  <2>1. Caller \in Seq(Frame)
    BY <1>1 DEF BaseOK
  <2> QED
    BY <1>3, <1>4, <2>1, TopOf
<1>19. \A step : Ahead(stack, step) <=> Ahead(Advanced, step) \/ step = Head(f.steps)
  BY <1>5, <1>8, <1>14
<1>20. \A kind \in {"navigate", "layout"} : \A p :
          OnTodo(Advanced, kind, p) <=> OnTodo(stack, kind, p)
  BY <1>2, <1>3, <1>5, <1>14
<1>21. ~Ahead(Advanced, "rebind_panes")
  BY <1>1, <1>10, <1>14
<1> QED
  BY <1>2, <1>3, <1>6, <1>7, <1>14, <1>17, <1>18, <1>19, <1>20, <1>21

\* rebind_panes: what a transition without a navigation shows stays loaded.
LEMMA RebindKeeps ==
  ASSUME IInv, UNCHANGED <<groups, active, realized, interrupted>>,
         Rebind(BoundTo(groups, active)), RebindAhead, ~RebindAhead',
         NavigateAhead' = NavigateAhead, LayoutAhead' = LayoutAhead,
         \A kind \in {"navigate", "layout"} : \A p :
            OnTodo(stack', kind, p) <=> OnTodo(stack, kind, p)
  PROVE  bound' \in [Panes -> Nat] /\ loaded' \in [Panes -> Nat] /\ PanesOK'
<1>1. /\ BoundTo(groups, active) \in [Panes -> Nat]
      /\ Visible(groups, active) \subseteq Panes
      /\ \A p \in Visible(groups, active) : BoundTo(groups, active)[p] = ActiveBorn
  BY Present, BoundIs DEF GroupsTold
<1>2. /\ bound' = BoundTo(groups, active) /\ loaded' \in [Panes -> Nat]
      /\ \A p \in Panes : loaded'[p] = IF bound[p] = BoundTo(groups, active)[p]
                                          /\ BoundTo(groups, active)[p] # 0
                                       THEN loaded[p] ELSE 0
  BY <1>1, Present, RebindTypes
<1>3. ActiveBorn' = ActiveBorn
  BY DEF ActiveBorn
<1>4. BoundAsPlanned' /\ KeptAcrossRebind'
  BY <1>2 DEF BoundAsPlanned, KeptAcrossRebind
<1>5. HiddenIsAhead'
  BY DEF IInv, PanesOK, HiddenIsAhead
<1>6. NavigationIsAhead'
  <2> SUFFICES ASSUME ~interrupted, NEW p \in Visible(groups, active), realized[p],
                      loaded'[p] # ActiveBorn, ~NavigateAhead
               PROVE  OnTodo(stack, "navigate", p)
    BY <1>3 DEF NavigationIsAhead
  <2>1. p \in Panes /\ BoundTo(groups, active)[p] = ActiveBorn
    BY <1>1
  <2>2. bound[p] = ActiveBorn
    BY DEF IInv, PanesOK, KeptAcrossRebind
  <2>3. ActiveBorn # 0
    <3>1. groups # <<>>
      BY NoGroup
    <3> QED
      BY <3>1, Present, ActiveIs
  <2>4. loaded[p] # ActiveBorn
    BY <1>2, <2>1, <2>2, <2>3
  <2> QED
    BY <2>4 DEF IInv, PanesOK, NavigationIsAhead
<1> QED
  BY <1>1, <1>2, <1>4, <1>5, <1>6 DEF PanesOK

\* A step of run_group_transition.
LEMMA TransitionStepKeeps ==
  ASSUME IInv, TransitionStep
  PROVE  IInv' /\ Survive
<1>1. /\ stack # <<>> /\ Top.kind = "transition"
      /\ UNCHANGED <<groups, active, created, realized, held, posted, shutting>>
  BY DEF TransitionStep, TopIs, model, queues
<1>2. GroupsTold' /\ Survive
  BY <1>1 DEF IInv, GroupsTold, Survive
<1>3. /\ BaseOK(Caller) /\ ~Ahead(Caller, "rebind_panes") /\ FitsOn(Caller, Top)
      /\ FrameSteps(Top) /\ Caller \in Seq(Frame)
      /\ \A step : Ahead(stack, step) <=> Ahead(Caller, step) \/ Has(Top, step)
      /\ \A kind, p : OnTodo(stack, kind, p) <=>
                        OnTodo(Caller, kind, p) \/ (Top.kind = kind /\ p \in Top.todo)
      /\ \A kinds : OnStack(stack, kinds) <=> OnStack(Caller, kinds) \/ Top.kind \in kinds
  BY <1>1, Popped DEF BaseOK
<1>4. CASE ShuttingDown \/ Top.steps = <<>>
  <2>1. /\ stack' = Caller /\ UNCHANGED <<bound, loaded, layout>>
        /\ interrupted' = (interrupted \/ Top.steps # <<>>)
    BY <1>4 DEF TransitionStep
  <2>2. Top.steps = <<>> => \A step : ~Has(Top, step)
    BY DEF Has
  <2>3. ~Ahead(stack, "rebind_panes")
    <3>1. CASE ShuttingDown
      BY <3>1 DEF IInv, PanesOK, BoundAsPlanned, RebindAhead
    <3>2. CASE Top.steps = <<>>
      BY <1>3, <2>2, <3>2
    <3> QED
      BY <1>4, <3>1, <3>2
  <2>4. stack' \in Seq(Frame) /\ StackOK'
    <3>1. layout.in_progress <=> OnStack(Caller, {"layout"})
      BY <1>1, <1>3, StackIsBase
    <3> QED
      BY <1>1, <1>3, <2>1, <3>1, StackKept
  <2>5. interrupted \in BOOLEAN /\ interrupted' \in BOOLEAN
    BY <2>1 DEF IInv, TypeOK
  <2>6. PanesOK'
    <3>1. ~interrupted' => ~interrupted /\ Top.steps = <<>>
      BY <2>1, <2>5
    <3> QED
      BY <1>1, <1>3, <2>1, <2>2, <2>3, <3>1, PanesKept
  <2>7. TypeOK'
    BY <1>1, <2>1, <2>4, <2>5 DEF IInv, TypeOK
  <2>8. HeldOnlyInShell' /\ NestedLayoutPosted'
    <3>1. InShell(stack') <=> InShell(stack)
      BY <1>1, <1>3, <2>1 DEF InShell
    <3>2. ~interrupted' => ~interrupted
      BY <2>1, <2>5
    <3> QED
      BY <1>1, <2>1, <3>1, <3>2 DEF IInv, HeldOnlyInShell, NestedLayoutPosted
  <2> QED
    BY <1>2, <2>4, <2>6, <2>7, <2>8 DEF IInv
<1>5. CASE ~(ShuttingDown \/ Top.steps = <<>>)
  <2> DEFINE step == Head(Top.steps)
  <2>1. /\ UNCHANGED interrupted
        /\ step = "rebind_panes" =>
              /\ Rebind(BoundTo(groups, active)) /\ stack' = Advanced
              /\ UNCHANGED layout
        /\ step = "apply_layout" =>
              apply_layout(layout, Advanced) /\ UNCHANGED <<bound, loaded>>
        /\ step = "navigate_realized_panes" /\ groups = <<>> =>
              stack' = Advanced /\ UNCHANGED <<bound, loaded, layout>>
        /\ step = "focus_active_pane" /\ groups = <<>> =>
              stack' = Advanced /\ UNCHANGED <<bound, loaded, layout>>
        /\ step = "navigate_realized_panes" /\ groups # <<>> =>
              /\ stack' = Append(Advanced, Loop("navigate",
                             {p \in Visible(groups, active) : realized[p]}))
              /\ UNCHANGED <<bound, loaded, layout>>
        /\ step = "focus_active_pane" /\ groups # <<>> =>
              stack' = Append(Advanced, Scope) /\ UNCHANGED <<bound, loaded, layout>>
    BY <1>5 DEF TransitionStep
  <2>2. /\ BaseOK(Advanced) /\ ~Ahead(Advanced, "rebind_panes")
        /\ step \in Steps
        /\ \A s : Ahead(stack, s) <=> Ahead(Advanced, s) \/ s = step
        /\ \A kind \in {"navigate", "layout"} : \A p :
              OnTodo(Advanced, kind, p) <=> OnTodo(stack, kind, p)
        /\ ~OnStack(Advanced, {"layout"}) /\ ~OnStack(stack, {"layout"})
        /\ ~InShell(stack)
        /\ Advanced # <<>> /\ Last(Advanced).kind = "transition"
    BY <1>1, <1>5, StepTaken
  <2>3. step # "rebind_panes" => ~Ahead(stack, "rebind_panes")
    BY <2>2
  <2>4. held = <<>> /\ ~layout.in_progress
    BY <2>2, StackIsBase DEF IInv, HeldOnlyInShell
  <2> HIDE DEF step
  <2>5. HeldOnlyInShell'
    BY <1>1, <2>4 DEF HeldOnlyInShell
  <2>6. layout' = layout => NestedLayoutPosted'
    BY <1>1, <2>1 DEF IInv, NestedLayoutPosted
  <2>7. CASE step = "rebind_panes"
    <3>1. Rebind(BoundTo(groups, active)) /\ stack' = Advanced /\ layout' = layout
      BY <2>1, <2>7
    <3>2. stack' \in Seq(Frame) /\ StackOK'
      BY <1>1, <2>2, <2>4, <3>1, StackKept
    <3>3. /\ RebindAhead /\ ~RebindAhead'
          /\ NavigateAhead' = NavigateAhead /\ LayoutAhead' = LayoutAhead
      <4>1. \A s : Ahead(stack', s) <=> Ahead(Advanced, s)
        BY <3>1
      <4>2. Ahead(stack, "rebind_panes") /\ ~Ahead(stack', "rebind_panes")
        BY <2>2, <2>7, <4>1
      <4>3. /\ Ahead(stack', "navigate_realized_panes") <=>
                  Ahead(stack, "navigate_realized_panes")
            /\ Ahead(stack', "apply_layout") <=> Ahead(stack, "apply_layout")
        BY <2>2, <2>7, <4>1
      <4>4. \A st, s : Ahead(st, s) \in BOOLEAN
        BY DEF Ahead
      <4> QED
        BY <4>2, <4>3, <4>4 DEF RebindAhead, NavigateAhead, LayoutAhead
    <3>4. bound' \in [Panes -> Nat] /\ loaded' \in [Panes -> Nat] /\ PanesOK'
      <4>1. \A kind \in {"navigate", "layout"} : \A p :
               OnTodo(stack', kind, p) <=> OnTodo(stack, kind, p)
        BY <2>2, <3>1
      <4> QED
        BY <1>1, <2>1, <3>1, <3>3, <4>1, RebindKeeps
    <3>5. TypeOK'
      BY <1>1, <2>1, <3>1, <3>2, <3>4 DEF IInv, TypeOK
    <3> QED
      BY <1>2, <2>5, <2>6, <3>1, <3>2, <3>4, <3>5 DEF IInv
  <2>8. CASE step = "apply_layout"
    <3>1. apply_layout(layout, Advanced) /\ UNCHANGED <<bound, loaded>>
      BY <2>1, <2>8
    <3>2. layout \in LayoutFlags
      BY DEF IInv, TypeOK, LayoutFlags
    <3>3. /\ BaseOK(stack') /\ layout' \in LayoutFlags
          /\ layout'.in_progress <=> OnStack(stack', {"layout"})
          /\ layout'.queued = layout.queued
          /\ layout'.pending => layout.pending \/ layout'.in_progress
          /\ \A s : Ahead(stack', s) <=> Ahead(Advanced, s)
          /\ \A p : OnTodo(stack', "navigate", p) <=> OnTodo(Advanced, "navigate", p)
          /\ IF layout.in_progress THEN stack' = Advanced
             ELSE \A p \in Panes : realized[p] /\ p \notin Visible(groups, active) =>
                     OnTodo(stack', "layout", p)
      <4>1. layout.in_progress <=> OnStack(Advanced, {"layout"})
        BY <2>2, <2>4
      <4>2. Advanced = <<>> \/ Last(Advanced).kind \in {"scope", "menu", "box", "transition"}
        BY <2>2
      <4> HIDE DEF Advanced
      <4> QED
        BY <2>2, <3>1, <3>2, <4>1, <4>2, ApplyLayout
    <3>4. stack' \in Seq(Frame) /\ StackOK'
      BY <1>1, <3>3, StackKept
    <3>5. PanesOK'
      <4>1. /\ ~Ahead(stack, "rebind_panes") /\ ~Ahead(stack', "rebind_panes")
            /\ Ahead(stack, "navigate_realized_panes") <=>
                  Ahead(stack', "navigate_realized_panes")
        BY <2>2, <2>3, <2>8, <3>3
      <4>2. /\ \A p : OnTodo(stack, "navigate", p) <=> OnTodo(stack', "navigate", p)
            /\ \A p \in Panes : realized[p] /\ p \notin Visible(groups, active) =>
                  OnTodo(stack', "layout", p)
        BY <2>2, <2>4, <3>3
      <4> QED
        BY <1>1, <2>1, <3>1, <4>1, <4>2, PanesKept
    <3>6. TypeOK'
      BY <1>1, <2>1, <3>1, <3>3, <3>4 DEF IInv, TypeOK, LayoutFlags
    <3>7. NestedLayoutPosted'
      BY <1>1, <2>1, <2>4, <3>3 DEF IInv, NestedLayoutPosted
    <3> QED
      BY <1>2, <2>5, <3>4, <3>5, <3>6, <3>7 DEF IInv
  <2>9. ASSUME UNCHANGED <<bound, loaded, layout>>, BaseOK(stack'),
               step # "rebind_panes", step # "apply_layout",
               ~OnStack(stack', {"layout"}),
               \A s : Ahead(stack', s) <=> Ahead(Advanced, s),
               \A p : OnTodo(stack', "layout", p) <=> OnTodo(Advanced, "layout", p),
               \A p \in Visible(groups, active) :
                  realized[p] /\ (\/ Ahead(stack, "navigate_realized_panes")
                                  \/ OnTodo(stack, "navigate", p)) =>
                     \/ Ahead(stack', "navigate_realized_panes")
                     \/ OnTodo(stack', "navigate", p)
        PROVE  IInv' /\ Survive
    <3>1. stack' \in Seq(Frame) /\ StackOK'
      BY <1>1, <2>4, <2>9, StackKept
    <3>2. /\ ~Ahead(stack, "rebind_panes") /\ ~Ahead(stack', "rebind_panes")
          /\ Ahead(stack, "apply_layout") <=> Ahead(stack', "apply_layout")
          /\ \A p : OnTodo(stack, "layout", p) <=> OnTodo(stack', "layout", p)
      BY <2>2, <2>3, <2>9
    <3>3. PanesOK'
      BY <1>1, <2>1, <2>9, <3>2, PanesKept
    <3>4. TypeOK'
      BY <1>1, <2>1, <2>9, <3>1 DEF IInv, TypeOK
    <3> QED
      BY <1>2, <2>5, <2>6, <2>9, <3>1, <3>3, <3>4 DEF IInv
  <2>10. CASE step = "navigate_realized_panes" /\ groups = <<>>
    <3>1. stack' = Advanced /\ UNCHANGED <<bound, loaded, layout>>
      BY <2>1, <2>10
    <3>2. Visible(groups, active) = {}
      BY <2>10, NoGroup
    <3> QED
      BY <2>2, <2>9, <2>10, <3>1, <3>2
  <2>11. CASE step = "focus_active_pane" /\ groups = <<>>
    <3>1. stack' = Advanced /\ UNCHANGED <<bound, loaded, layout>>
      BY <2>1, <2>11
    <3> QED
      BY <2>2, <2>9, <2>11, <3>1
  <2>12. CASE step = "navigate_realized_panes" /\ groups # <<>>
    <3> DEFINE todo == {p \in Visible(groups, active) : realized[p]}
               f == Loop("navigate", todo)
    <3>1. stack' = Append(Advanced, f) /\ UNCHANGED <<bound, loaded, layout>>
      BY <2>1, <2>12
    <3>2. todo \in SUBSET Panes
      BY Present, BoundIs
    <3>3. /\ f \in Frame /\ f.kind = "navigate" /\ f.born = ActiveBorn
          /\ f.steps = <<>> /\ f.todo = todo
      <4> HIDE DEF todo
      <4> QED
        BY <3>2, LoopFrame
    <3> HIDE DEF f
    <3>4. FitsOn(Advanced, f)
      BY <2>2, <3>3 DEF FitsOn
    <3>5. FrameSteps(f) /\ FrameKnows(f, groups, created) /\ \A s : ~Has(f, s)
      BY <3>3 DEF FrameSteps, FrameKnows, Has
    <3>6. FrameWork(f, Visible(groups, active), realized)
      BY <3>3 DEF FrameWork
    <3>7. /\ BaseOK(stack')
          /\ \A s : Ahead(stack', s) <=> Ahead(Advanced, s) \/ Has(f, s)
          /\ \A kind, p : OnTodo(stack', kind, p) <=>
                            OnTodo(Advanced, kind, p) \/ (f.kind = kind /\ p \in f.todo)
          /\ \A kinds : OnStack(stack', kinds) <=> OnStack(Advanced, kinds) \/ f.kind \in kinds
      BY <2>2, <3>1, <3>3, <3>4, <3>5, <3>6, OnTop
    <3>8. /\ ~OnStack(stack', {"layout"})
          /\ \A s : Ahead(stack', s) <=> Ahead(Advanced, s)
          /\ \A p : OnTodo(stack', "layout", p) <=> OnTodo(Advanced, "layout", p)
          /\ \A p \in Visible(groups, active) : realized[p] => OnTodo(stack', "navigate", p)
      BY <2>2, <3>3, <3>5, <3>7
    <3> QED
      BY <2>9, <2>12, <3>1, <3>7, <3>8
  <2>13. CASE step = "focus_active_pane" /\ groups # <<>>
    <3>1. stack' = Append(Advanced, Scope) /\ UNCHANGED <<bound, loaded, layout>>
      BY <2>1, <2>13
    <3>2. /\ BaseOK(stack')
          /\ \A s : Ahead(stack', s) <=> Ahead(Advanced, s)
          /\ \A kind \in {"navigate", "layout"} : \A p :
                OnTodo(stack', kind, p) <=> OnTodo(Advanced, kind, p)
          /\ OnStack(stack', {"layout"}) <=> OnStack(Advanced, {"layout"})
      BY <2>2, <3>1, ScopeOnTop
    <3> QED
      BY <2>2, <2>9, <2>13, <3>1, <3>2
  <2>14. \/ step = "rebind_panes" \/ step = "apply_layout"
         \/ step = "navigate_realized_panes" \/ step = "focus_active_pane"
    BY <2>2 DEF Steps
  <2> QED
    BY <2>7, <2>8, <2>10, <2>11, <2>12, <2>13, <2>14
<1> QED
  BY <1>4, <1>5

\* The transition below a navigation.
LEMMA Below ==
  ASSUME NEW b, BaseOK(b), b # <<>>
  PROVE  /\ BaseOK(Front(b)) /\ ~Ahead(Front(b), "rebind_panes")
         /\ FitsOn(Front(b), Last(b))
         /\ \A kinds : OnStack(b, kinds) <=> OnStack(Front(b), kinds) \/ Last(b).kind \in kinds
<1>1. /\ b \in Seq(Frame) /\ StackInOrder(b) /\ StepsInOrder(b)
      /\ Knows(b, groups, created) /\ LoopsBorn(b, ActiveBorn)
      /\ groups # <<>> => PassWork(b, Visible(groups, active), realized)
  BY DEF BaseOK
<1> DEFINE c == Front(b)
           f == Last(b)
<1>2. c \in Seq(Frame) /\ f \in Frame /\ b = Append(c, f)
  BY <1>1, TopSplit
<1> HIDE DEF c, f
<1>3. StackInOrder(c) /\ FitsOn(c, f)
  BY <1>1, <1>2, OrderPush
<1>4. StepsInOrder(c) /\ ~Ahead(c, "rebind_panes")
  BY <1>1, <1>2, StepsPush
<1>5. Knows(c, groups, created) /\ LoopsBorn(c, ActiveBorn)
  BY <1>1, <1>2, KnowsPush, BornPush
<1>6. groups # <<>> => PassWork(c, Visible(groups, active), realized)
  BY <1>1, <1>2, WorkPush
<1>7. \A kinds : OnStack(b, kinds) <=> OnStack(c, kinds) \/ f.kind \in kinds
  BY <1>2, KindPush
<1> QED
  BY <1>2, <1>3, <1>4, <1>5, <1>6, <1>7 DEF BaseOK, c, f

\* A loop that has dealt with a pane, inside the call it made for it.
LEMMA PaneTaken ==
  ASSUME IInv, NEW kind \in {"navigate", "layout"}, stack # <<>>, Top.kind = kind,
         NEW p \in Panes, NEW t, t = Append(Without(p), Scope)
  PROVE  /\ BaseOK(t) /\ InShell(t)
         /\ ~Ahead(stack, "rebind_panes") /\ ~Ahead(t, "rebind_panes")
         /\ \A step : Ahead(t, step) <=> Ahead(stack, step)
         /\ \A k \in {"navigate", "layout"}, q \in Panes \ {p} :
               OnTodo(stack, k, q) => OnTodo(t, k, q)
         /\ \A k \in {"navigate", "layout"}, q \in Panes :
               k # kind /\ OnTodo(stack, k, q) => OnTodo(t, k, q)
         /\ OnStack(t, {"layout"}) <=> OnStack(stack, {"layout"})
         /\ Top.born = ActiveBorn
         /\ groups # <<>> => FrameWork(Top, Visible(groups, active), realized)
         /\ kind = "layout" /\ groups # <<>> =>
               \A re : (\A q \in Panes \ {p} : re[q] = realized[q]) =>
                          PassWork(t, Visible(groups, active), re)
<1>1. /\ BaseOK(Caller) /\ ~Ahead(Caller, "rebind_panes") /\ Caller \in Seq(Frame)
      /\ Top \in Frame /\ FitsOn(Caller, Top) /\ FrameSteps(Top)
      /\ Top.kind \in {"layout", "navigate"} => Top.born = ActiveBorn
      /\ groups # <<>> => FrameWork(Top, Visible(groups, active), realized)
      /\ \A step : Ahead(stack, step) <=> Ahead(Caller, step) \/ Has(Top, step)
      /\ \A k, q : OnTodo(stack, k, q) <=>
                     OnTodo(Caller, k, q) \/ (Top.kind = k /\ q \in Top.todo)
      /\ \A kinds : OnStack(stack, kinds) <=> OnStack(Caller, kinds) \/ Top.kind \in kinds
  BY Popped DEF BaseOK
<1> DEFINE f == Top
           g == [f EXCEPT !.todo = @ \ {p}]
           c == Caller
           u == Append(c, g)
<1>2. /\ f \in Frame /\ f.kind = kind /\ f.todo \in SUBSET Panes /\ f.born = ActiveBorn
      /\ FitsOn(c, f) /\ FrameSteps(f) /\ c \in Seq(Frame) /\ BaseOK(c)
      /\ ~Ahead(c, "rebind_panes")
      /\ groups # <<>> => FrameWork(f, Visible(groups, active), realized)
      /\ \A step : Ahead(stack, step) <=> Ahead(c, step) \/ Has(f, step)
      /\ \A k, q : OnTodo(stack, k, q) <=> OnTodo(c, k, q) \/ (f.kind = k /\ q \in f.todo)
      /\ \A kinds : OnStack(stack, kinds) <=> OnStack(c, kinds) \/ f.kind \in kinds
  BY <1>1 DEF Frame
<1>3. t = Append(u, Scope)
  BY DEF Without
<1> HIDE DEF f, c
<1>4. /\ g \in Frame /\ g.kind = kind /\ g.born = f.born /\ g.steps = f.steps
      /\ g.todo = f.todo \ {p}
  BY <1>2 DEF Frame
<1> HIDE DEF g
<1>5. f.steps = <<>> /\ \A step : ~Has(f, step)
  BY <1>2 DEF FrameSteps, Has
<1>6. FitsOn(c, g) /\ FrameSteps(g) /\ FrameKnows(g, groups, created) /\ \A step : ~Has(g, step)
  <2>1. FitsOn(c, g)
    BY <1>2, <1>4 DEF FitsOn
  <2> QED
    BY <1>4, <1>5, <2>1 DEF FrameSteps, FrameKnows, Has
<1>7. groups # <<>> => FrameWork(g, Visible(groups, active), realized)
  BY <1>2, <1>4 DEF FrameWork
<1>8. /\ BaseOK(u)
      /\ \A step : Ahead(u, step) <=> Ahead(c, step) \/ Has(g, step)
      /\ \A k, q : OnTodo(u, k, q) <=> OnTodo(c, k, q) \/ (g.kind = k /\ q \in g.todo)
      /\ \A kinds : OnStack(u, kinds) <=> OnStack(c, kinds) \/ g.kind \in kinds
  BY <1>2, <1>4, <1>6, <1>7, OnTop
<1> HIDE DEF u
<1>9. ~Ahead(u, "rebind_panes") /\ \A step : Ahead(u, step) <=> Ahead(stack, step)
  BY <1>2, <1>5, <1>6, <1>8
<1>10. /\ BaseOK(t) /\ InShell(t)
       /\ \A step : Ahead(t, step) <=> Ahead(u, step)
       /\ \A k \in {"navigate", "layout"} : \A q : OnTodo(t, k, q) <=> OnTodo(u, k, q)
       /\ OnStack(t, {"layout"}) <=> OnStack(u, {"layout"})
  BY <1>3, <1>8, <1>9, ScopeOnTop
<1>11. \A k \in {"navigate", "layout"}, q \in Panes \ {p} :
          OnTodo(stack, k, q) => OnTodo(t, k, q)
  BY <1>2, <1>4, <1>8, <1>10
<1>12. \A k \in {"navigate", "layout"}, q \in Panes :
          k # kind /\ OnTodo(stack, k, q) => OnTodo(t, k, q)
  BY <1>2, <1>4, <1>8, <1>10
<1>13. OnStack(t, {"layout"}) <=> OnStack(stack, {"layout"})
  BY <1>2, <1>4, <1>8, <1>10
<1>14. ASSUME kind = "layout", groups # <<>>, NEW re,
              \A q \in Panes \ {p} : re[q] = realized[q]
       PROVE  PassWork(t, Visible(groups, active), re)
  <2> DEFINE vis == Visible(groups, active)
  <2>1. ~OnStack(c, {"layout"})
    BY <1>2, <1>14 DEF FitsOn
  <2>2. PassWork(c, vis, re)
    BY <2>1 DEF PassWork, FrameWork, OnStack
  <2>3. FrameWork(g, vis, re)
    BY <1>2, <1>4, <1>7, <1>14 DEF FrameWork
  <2>4. FrameWork(Scope, vis, re) /\ Scope \in Frame
    BY Frames DEF FrameWork
  <2>5. u \in Seq(Frame)
    BY <1>8 DEF BaseOK
  <2> HIDE DEF vis
  <2>6. PassWork(u, vis, re)
    BY <1>2, <1>4, <2>2, <2>3, WorkPush DEF u
  <2>7. PassWork(t, vis, re)
    BY <1>3, <2>4, <2>5, <2>6, WorkPush
  <2> QED
    BY <2>7 DEF vis
<1>15. ~Ahead(stack, "rebind_panes") /\ ~Ahead(t, "rebind_panes")
  BY <1>9, <1>10
<1>16. f.born = ActiveBorn /\ (groups # <<>> => FrameWork(f, Visible(groups, active), realized))
  BY <1>2
<1> QED
  BY <1>9, <1>10, <1>11, <1>12, <1>13, <1>14, <1>15, <1>16 DEF f

\* A step of navigate_realized_panes.
LEMMA NavigateStepKeeps ==
  ASSUME IInv, NavigateStep
  PROVE  IInv' /\ Survive
<1>1. /\ stack # <<>> /\ Top.kind = "navigate"
      /\ UNCHANGED <<groups, active, created, bound, realized, held, posted, layout,
                     shutting>>
  BY DEF NavigateStep, TopIs, model, queues
<1>2. GroupsTold' /\ Survive
  BY <1>1 DEF IInv, GroupsTold, Survive
<1>3. /\ BaseOK(Caller) /\ ~Ahead(Caller, "rebind_panes") /\ FitsOn(Caller, Top)
      /\ FrameSteps(Top) /\ Caller \in Seq(Frame)
      /\ \A step : Ahead(stack, step) <=> Ahead(Caller, step) \/ Has(Top, step)
      /\ \A kind, p : OnTodo(stack, kind, p) <=>
                        OnTodo(Caller, kind, p) \/ (Top.kind = kind /\ p \in Top.todo)
      /\ \A kinds : OnStack(stack, kinds) <=> OnStack(Caller, kinds) \/ Top.kind \in kinds
  BY <1>1, Popped DEF BaseOK
<1>4. \A step : ~Has(Top, step)
  BY <1>1, <1>3 DEF FrameSteps, Has
<1>5. ~Ahead(stack, "rebind_panes")
  BY <1>3, <1>4
<1>6. CASE ShuttingDown
  <2>1. /\ stack' = Front(Caller) /\ loaded' = loaded
        /\ interrupted' = (interrupted \/ ShuttingDown)
    BY <1>6 DEF NavigateStep
  <2>2. Caller # <<>> /\ Last(Caller).kind = "transition"
    BY <1>1, <1>3 DEF FitsOn
  <2>3. /\ BaseOK(stack') /\ ~Ahead(stack', "rebind_panes")
        /\ FitsOn(stack', Last(Caller))
        /\ \A kinds : OnStack(Caller, kinds) <=>
                         OnStack(stack', kinds) \/ Last(Caller).kind \in kinds
    <3> HIDE DEF Caller
    <3> QED
      BY <1>3, <2>1, <2>2, Below
  <2>4. layout.in_progress <=> OnStack(stack', {"layout"})
    BY <1>1, <1>3, <2>2, <2>3, StackIsBase
  <2>5. stack' \in Seq(Frame) /\ StackOK'
    BY <1>1, <2>3, <2>4, StackKept
  <2>6. interrupted'
    BY <1>6, <2>1
  <2>7. PanesOK'
    BY <1>1, <1>5, <2>1, <2>3, <2>6, PanesKept
  <2>8. interrupted' \in BOOLEAN
    BY <2>1 DEF IInv, TypeOK
  <2>9. TypeOK'
    BY <1>1, <2>1, <2>5, <2>8 DEF IInv, TypeOK
  <2>10. HeldOnlyInShell' /\ NestedLayoutPosted'
    <3>1. InShell(stack') <=> InShell(stack)
      BY <1>1, <1>3, <2>2, <2>3 DEF InShell
    <3> QED
      BY <1>1, <2>6, <3>1 DEF IInv, HeldOnlyInShell, NestedLayoutPosted
  <2> QED
    BY <1>2, <2>5, <2>7, <2>9, <2>10 DEF IInv
<1>7. CASE ~ShuttingDown /\ Top.todo = {}
  <2>1. /\ stack' = Caller /\ loaded' = loaded
        /\ interrupted' = (interrupted \/ ShuttingDown)
    BY <1>7 DEF NavigateStep
  <2>2. interrupted' = interrupted
    BY <1>7, <2>1 DEF IInv, TypeOK
  <2>3. stack' \in Seq(Frame) /\ StackOK'
    <3>1. layout.in_progress <=> OnStack(Caller, {"layout"})
      BY <1>1, <1>3, StackIsBase
    <3> QED
      BY <1>1, <1>3, <2>1, <3>1, StackKept
  <2>4. PanesOK'
    BY <1>1, <1>3, <1>4, <1>5, <1>7, <2>1, <2>2, PanesKept
  <2>5. TypeOK'
    BY <1>1, <2>1, <2>2, <2>3 DEF IInv, TypeOK
  <2>6. HeldOnlyInShell' /\ NestedLayoutPosted'
    <3>1. InShell(stack') <=> InShell(stack)
      BY <1>1, <1>3, <2>1 DEF InShell
    <3> QED
      BY <1>1, <2>2, <3>1 DEF IInv, HeldOnlyInShell, NestedLayoutPosted
  <2> QED
    BY <1>2, <2>3, <2>4, <2>5, <2>6 DEF IInv
<1>8. CASE ~ShuttingDown /\ Top.todo # {}
  <2>1. PICK p \in Panes :
           /\ stack' = Append(Without(p), Scope)
           /\ loaded' = [loaded EXCEPT ![p] = Top.born]
           /\ interrupted' = interrupted
    BY <1>8 DEF NavigateStep
  <2>2. /\ BaseOK(stack') /\ InShell(stack') /\ ~Ahead(stack', "rebind_panes")
        /\ \A step : Ahead(stack', step) <=> Ahead(stack, step)
        /\ \A q \in Panes \ {p} :
              OnTodo(stack, "navigate", q) => OnTodo(stack', "navigate", q)
        /\ \A q \in Panes : OnTodo(stack, "layout", q) => OnTodo(stack', "layout", q)
        /\ OnStack(stack', {"layout"}) <=> OnStack(stack, {"layout"})
        /\ Top.born = ActiveBorn
    <3>1. "navigate" \in {"navigate", "layout"} /\ "layout" # "navigate"
      OBVIOUS
    <3> QED
      BY <1>1, <2>1, <3>1, PaneTaken
  <2>3. ActiveBorn' = ActiveBorn /\ ActiveBorn \in Nat
    BY <1>1, Present, BoundIs DEF ActiveBorn
  <2>4. /\ loaded' \in [Panes -> Nat] /\ loaded'[p] = ActiveBorn
        /\ \A q \in Panes \ {p} : loaded'[q] = loaded[q]
    BY <2>1, <2>2, <2>3, Present
  <2>5. stack' \in Seq(Frame) /\ StackOK'
    BY <1>1, <2>2, StackIsBase, StackKept
  <2>6. BoundAsPlanned' /\ KeptAcrossRebind'
    BY <1>1, <1>5, <2>2 DEF IInv, PanesOK, BoundAsPlanned, KeptAcrossRebind, RebindAhead
  <2>7. HiddenIsAhead'
    BY <1>1, <2>1, <2>2 DEF IInv, PanesOK, HiddenIsAhead, LayoutAhead
  <2>8. NavigationIsAhead'
    <3>1. Visible(groups, active) \subseteq Panes
      BY Present, BoundIs
    <3> QED
      BY <1>1, <2>1, <2>2, <2>3, <2>4, <3>1
         DEF IInv, PanesOK, NavigationIsAhead, NavigateAhead
  <2>9. TypeOK'
    BY <1>1, <2>1, <2>4, <2>5 DEF IInv, TypeOK
  <2>10. HeldOnlyInShell' /\ NestedLayoutPosted'
    BY <1>1, <2>1, <2>2 DEF IInv, HeldOnlyInShell, NestedLayoutPosted
  <2> QED
    BY <1>2, <2>5, <2>6, <2>7, <2>8, <2>9, <2>10 DEF IInv, PanesOK
<1> QED
  BY <1>6, <1>7, <1>8

\* A step of a layout pass.
LEMMA LayoutStepKeeps ==
  ASSUME IInv, LayoutStep
  PROVE  IInv' /\ Survive
<1>1. /\ stack # <<>> /\ Top.kind = "layout"
      /\ UNCHANGED <<groups, active, created, bound, held, shutting>>
  BY DEF LayoutStep, TopIs, model
<1>2. GroupsTold' /\ Survive
  BY <1>1 DEF IInv, GroupsTold, Survive
<1>3. /\ BaseOK(Caller) /\ ~Ahead(Caller, "rebind_panes") /\ FitsOn(Caller, Top)
      /\ FrameSteps(Top) /\ Caller \in Seq(Frame)
      /\ \A step : Ahead(stack, step) <=> Ahead(Caller, step) \/ Has(Top, step)
      /\ \A kind, p : OnTodo(stack, kind, p) <=>
                        OnTodo(Caller, kind, p) \/ (Top.kind = kind /\ p \in Top.todo)
      /\ \A kinds : OnStack(stack, kinds) <=> OnStack(Caller, kinds) \/ Top.kind \in kinds
  BY <1>1, Popped DEF BaseOK
<1>4. \A step : ~Has(Top, step)
  BY <1>1, <1>3 DEF FrameSteps, Has
<1>5. ~Ahead(stack, "rebind_panes")
  BY <1>3, <1>4
<1>6. layout \in LayoutFlags /\ posted \in Seq(Messages)
  BY DEF IInv, TypeOK, LayoutFlags
<1>7. CASE ShuttingDown \/ Top.todo = {}
  <2>1. /\ stack' = Caller /\ UNCHANGED <<loaded, realized>>
        /\ layout' = [layout EXCEPT !.in_progress = FALSE, !.queued = @ \/ PostAgain]
        /\ posted' = IF PostAgain THEN Append(posted, LayoutMessage) ELSE posted
        /\ interrupted' = (interrupted \/ ShuttingDown)
    BY <1>7 DEF LayoutStep, LayoutMessage
  <2>2. /\ layout' \in LayoutFlags /\ ~layout'.in_progress
        /\ layout'.pending = layout.pending
        /\ layout'.queued <=> layout.queued \/ PostAgain
    BY <1>6, <2>1 DEF LayoutFlags
  <2>3. /\ posted' \in Seq(Messages)
        /\ PostAgain => Contains(posted', LayoutMessage)
    <3>1. LayoutMessage \in Messages
      BY DEF Messages, LayoutMessage
    <3> QED
      BY <1>6, <2>1, <3>1, ContainsAppend
  <2>4. interrupted \in BOOLEAN /\ interrupted' \in BOOLEAN
    BY <2>1 DEF IInv, TypeOK
  <2>5. ~interrupted' => ~interrupted /\ ~ShuttingDown
    BY <2>1, <2>4
  <2>6. stack' \in Seq(Frame) /\ StackOK'
    <3>1. ~OnStack(Caller, {"layout"})
      BY <1>1, <1>3 DEF FitsOn
    <3> QED
      BY <1>1, <1>3, <2>1, <2>2, <3>1, StackKept
  <2>7. PanesOK'
    BY <1>1, <1>3, <1>4, <1>5, <1>7, <2>1, <2>5, PanesKept
  <2>8. TypeOK'
    BY <1>1, <2>1, <2>2, <2>3, <2>4, <2>6 DEF IInv, TypeOK, LayoutFlags
  <2>9. HeldOnlyInShell'
    <3>1. InShell(stack') <=> InShell(stack)
      BY <1>1, <1>3, <2>1 DEF InShell
    <3> QED
      BY <1>1, <3>1 DEF IInv, HeldOnlyInShell
  <2>10. NestedLayoutPosted'
    <3>1. ~interrupted' => (layout'.pending => layout'.queued)
      BY <2>2, <2>5 DEF PostAgain
    <3>2. ~interrupted' => (layout'.queued => Contains(posted', LayoutMessage))
      <4>1. CASE PostAgain
        BY <2>3, <4>1
      <4>2. CASE ~PostAgain
        <5>1. posted' = posted /\ (layout'.queued <=> layout.queued)
          BY <2>1, <2>2, <4>2
        <5> QED
          BY <2>5, <5>1 DEF IInv, NestedLayoutPosted, LayoutMessage
      <4> QED
        BY <4>1, <4>2
    <3> QED
      BY <3>1, <3>2 DEF NestedLayoutPosted, LayoutMessage
  <2> QED
    BY <1>2, <2>6, <2>7, <2>8, <2>9, <2>10 DEF IInv
<1>8. CASE ~(ShuttingDown \/ Top.todo = {})
  <2>1. PICK p \in Panes :
           /\ NextPane(p) /\ stack' = Append(Without(p), Scope)
           /\ \/ /\ realized' = [realized EXCEPT ![p] = Shows(p)]
                 /\ loaded' = [loaded EXCEPT ![p] = IF Shows(p) THEN Top.born ELSE 0]
              \/ Shows(p) /\ UNCHANGED <<realized, loaded>>
           /\ UNCHANGED <<layout, posted, interrupted>>
    BY <1>8 DEF LayoutStep
  <2>2. /\ BaseOK(stack') /\ InShell(stack') /\ ~Ahead(stack', "rebind_panes")
        /\ \A step : Ahead(stack', step) <=> Ahead(stack, step)
        /\ \A q \in Panes \ {p} :
              OnTodo(stack, "layout", q) => OnTodo(stack', "layout", q)
        /\ \A q \in Panes : OnTodo(stack, "navigate", q) => OnTodo(stack', "navigate", q)
        /\ OnStack(stack', {"layout"}) <=> OnStack(stack, {"layout"})
        /\ Top.born = ActiveBorn
        /\ groups # <<>> => FrameWork(Top, Visible(groups, active), realized)
        /\ groups # <<>> =>
              \A re : (\A q \in Panes \ {p} : re[q] = realized[q]) =>
                         PassWork(stack', Visible(groups, active), re)
    <3>1. "layout" \in {"navigate", "layout"} /\ "layout" # "navigate"
      OBVIOUS
    <3> QED
      BY <1>1, <2>1, <3>1, PaneTaken
  <2>3. ActiveBorn' = ActiveBorn /\ ActiveBorn \in Nat
    BY <1>1, Present, BoundIs DEF ActiveBorn
  <2>4. Shows(p) \in BOOLEAN /\ (Shows(p) => ActiveBorn # 0 /\ ~realized[p])
    BY <2>2, Present DEF Shows
  <2>5. /\ realized' \in [Panes -> BOOLEAN]
        /\ \A q \in Panes \ {p} : realized'[q] = realized[q]
        /\ realized'[p] => Shows(p)
    <3>1. CASE realized' = [realized EXCEPT ![p] = Shows(p)]
      BY <2>4, <3>1, Present
    <3>2. CASE Shows(p) /\ realized' = realized
      BY <2>4, <3>2, Present
    <3> QED
      BY <2>1, <3>1, <3>2
  <2>6. /\ loaded' \in [Panes -> Nat]
        /\ \A q \in Panes \ {p} : loaded'[q] = loaded[q]
        /\ realized'[p] => loaded'[p] = ActiveBorn
    <3>1. CASE loaded' = [loaded EXCEPT ![p] = IF Shows(p) THEN Top.born ELSE 0]
      BY <2>2, <2>3, <2>5, <3>1, Present
    <3>2. CASE Shows(p) /\ realized' = realized /\ loaded' = loaded
      BY <2>4, <3>2, Present
    <3> QED
      BY <2>1, <3>1, <3>2
  <2>7. realized'[p] => p \in Visible(groups, active)
    <3> SUFFICES ASSUME realized'[p] PROVE p \in Visible(groups, active)
      OBVIOUS
    <3>1. ActiveBorn # 0 /\ ~realized[p]
      BY <2>4, <2>5
    <3>2. groups # <<>>
      BY <3>1 DEF ActiveBorn
    <3>3. p \in Top.todo
      BY <2>1 DEF NextPane
    <3>4. realized[p] # (p \in Visible(groups, active))
      BY <1>1, <2>2, <3>2, <3>3 DEF FrameWork
    <3>5. realized[p] \in BOOLEAN
      BY Present
    <3> QED
      BY <3>1, <3>4, <3>5
  <2>8. stack' \in Seq(Frame) /\ StackOK'
    <3>1. /\ StackInOrder(stack') /\ StepsInOrder(stack') /\ stack' \in Seq(Frame)
          /\ Knows(stack', groups, created) /\ LoopsBorn(stack', ActiveBorn)
      BY <2>2 DEF BaseOK
    <3>2. groups # <<>> => PassWork(stack', Visible(groups, active), realized')
      BY <2>2, <2>5
    <3>3. layout' = layout /\ (layout.in_progress <=> OnStack(stack', {"layout"}))
      BY <2>1, <2>2, StackIsBase
    <3> QED
      BY <1>1, <2>3, <3>1, <3>2, <3>3 DEF StackOK
  <2>9. BoundAsPlanned' /\ KeptAcrossRebind'
    BY <1>1, <1>5, <2>2 DEF IInv, PanesOK, BoundAsPlanned, KeptAcrossRebind, RebindAhead
  <2>10. HiddenIsAhead'
    <3> SUFFICES ASSUME ~interrupted, NEW q \in Panes, realized'[q],
                        q \notin Visible(groups, active), ~Ahead(stack', "apply_layout")
                 PROVE  OnTodo(stack', "layout", q)
      BY <1>1, <2>1 DEF HiddenIsAhead, LayoutAhead
    <3>1. q # p /\ realized[q]
      BY <2>5, <2>7
    <3>2. OnTodo(stack, "layout", q)
      BY <2>2, <3>1 DEF IInv, PanesOK, HiddenIsAhead, LayoutAhead
    <3> QED
      BY <2>2, <3>1, <3>2
  <2>11. NavigationIsAhead'
    <3>1. Visible(groups, active) \subseteq Panes
      BY Present, BoundIs
    <3> SUFFICES ASSUME ~interrupted, NEW q \in Visible(groups, active), realized'[q],
                        loaded'[q] # ActiveBorn, ~Ahead(stack', "navigate_realized_panes")
                 PROVE  OnTodo(stack', "navigate", q)
      BY <1>1, <2>1, <2>3 DEF NavigationIsAhead, NavigateAhead
    <3>2. q \in Panes /\ q # p
      BY <2>6, <3>1
    <3>3. realized[q] /\ loaded[q] # ActiveBorn
      BY <2>5, <2>6, <3>2
    <3>4. OnTodo(stack, "navigate", q)
      BY <2>2, <3>3 DEF IInv, PanesOK, NavigationIsAhead, NavigateAhead
    <3> QED
      BY <2>2, <3>2, <3>4
  <2>12. TypeOK'
    BY <1>1, <2>1, <2>5, <2>6, <2>8 DEF IInv, TypeOK
  <2>13. HeldOnlyInShell' /\ NestedLayoutPosted'
    BY <1>1, <2>1, <2>2 DEF IInv, HeldOnlyInShell, NestedLayoutPosted
  <2> QED
    BY <1>2, <2>8, <2>9, <2>10, <2>11, <2>12, <2>13 DEF IInv, PanesOK
<1> QED
  BY <1>7, <1>8

\* The close begins or is withdrawn while the message loop is pumped.
LEMMA CloseKeeps ==
  ASSUME IInv, CloseRequested \/ CloseWithdrawn
  PROVE  IInv' /\ Survive
<1>1. /\ Pumping /\ shutting' \in {"deferred", "no"}
      /\ UNCHANGED <<groups, active, created, bound, loaded, realized, stack, held, posted,
                     layout, interrupted>>
  BY DEF CloseRequested, CloseWithdrawn, model, panes, queues
<1>2. BaseOK(stack) /\ ~Ahead(stack, "rebind_panes")
  BY <1>1, StackIsBase, PumpsBound
<1>3. StackOK'
  BY <1>1, <1>2, StackIsBase, StackKept
<1>4. PanesOK'
  BY <1>1, <1>2, PanesKept
<1>5. TypeOK'
  BY <1>1 DEF IInv, TypeOK
<1>6. GroupsTold' /\ HeldOnlyInShell' /\ NestedLayoutPosted' /\ Survive
  BY <1>1 DEF IInv, GroupsTold, HeldOnlyInShell, NestedLayoutPosted, Survive
<1> QED
  BY <1>3, <1>4, <1>5, <1>6 DEF IInv

\* destroy_panes finds no loop on the stack.
LEMMA CloseCompletedKeeps ==
  ASSUME IInv, CloseCompleted
  PROVE  IInv' /\ Survive
<1>1. /\ Pumping /\ ~InShell(stack) /\ shutting' = "closed"
      /\ realized' = [p \in Panes |-> FALSE] /\ loaded' = [p \in Panes |-> 0]
      /\ UNCHANGED <<groups, active, created, bound, stack, held, posted, layout,
                     interrupted>>
  BY DEF CloseCompleted, model, queues
<1>2. BaseOK(stack) /\ ~Ahead(stack, "rebind_panes")
  BY <1>1, StackIsBase, PumpsBound
<1>3. /\ stack \in Seq(Frame) /\ StackInOrder(stack) /\ StepsInOrder(stack)
      /\ Knows(stack, groups, created) /\ LoopsBorn(stack, ActiveBorn)
  BY <1>2 DEF BaseOK
<1>4. \A vis, re : PassWork(stack, vis, re)
  <2>1. AllBoxes(stack)
    BY <1>1, <1>3, PumpsOnBoxes DEF Pumping, TopIs, Top
  <2> QED
    BY <1>3, <2>1, BoxesOwe
<1>5. ActiveBorn' = ActiveBorn
  BY <1>1 DEF ActiveBorn
<1>6. StackOK'
  BY <1>1, <1>3, <1>4, <1>5, StackIsBase DEF StackOK
<1>7. BoundAsPlanned'
  BY <1>1, <1>2 DEF IInv, PanesOK, BoundAsPlanned, RebindAhead
<1>8. Visible(groups, active) \subseteq Panes
  BY Present, BoundIs
<1>9. KeptAcrossRebind' /\ HiddenIsAhead' /\ NavigationIsAhead'
  BY <1>1, <1>8 DEF KeptAcrossRebind, HiddenIsAhead, NavigationIsAhead
<1>10. TypeOK'
  BY <1>1 DEF IInv, TypeOK
<1>11. GroupsTold' /\ HeldOnlyInShell' /\ NestedLayoutPosted' /\ Survive
  BY <1>1 DEF IInv, GroupsTold, HeldOnlyInShell, NestedLayoutPosted, Survive
<1> QED
  BY <1>6, <1>7, <1>9, <1>10, <1>11 DEF IInv, PanesOK

\* A step that changes nothing.
LEMMA StutterKeeps ==
  ASSUME IInv, UNCHANGED vars
  PROVE  IInv' /\ Survive
<1>1. UNCHANGED <<groups, active, created, bound, loaded, realized, stack, held, posted,
                  layout, shutting, interrupted>>
  BY DEF vars
<1>2. GroupsTold' /\ StackOK' /\ PanesOK'
  BY <1>1, Idle
<1>3. TypeOK'
  BY <1>1 DEF IInv, TypeOK
<1>4. HeldOnlyInShell' /\ NestedLayoutPosted' /\ Survive
  BY <1>1 DEF IInv, HeldOnlyInShell, NestedLayoutPosted, Survive
<1> QED
  BY <1>2, <1>3, <1>4 DEF IInv

\* A restored session shows its active Group.
LEMMA InitOK ==
  ASSUME Init
  PROVE  IInv
<1>1. PICK v \in [1..created -> Panes] :
         groups = [i \in 1..created |->
                     [id |-> i, born |-> i, visible |-> v[i], size |-> v[i]]]
  BY DEF Init
<1>2. /\ created \in Nat /\ active \in (IF created = 0 THEN {0} ELSE 1..created)
      /\ bound = BoundTo(groups, active) /\ loaded = bound
      /\ realized = [p \in Panes |-> p \in Visible(groups, active)]
      /\ stack = <<>> /\ held = <<>> /\ posted = <<>>
      /\ layout = [in_progress |-> FALSE, pending |-> FALSE, queued |-> FALSE]
      /\ shutting = "no" /\ interrupted = FALSE
  BY DEF Init
<1>3. /\ DOMAIN groups = 1 .. created
      /\ \A i \in 1 .. created : /\ groups[i].id = i /\ groups[i].born = i
                                 /\ groups[i].visible = v[i] /\ groups[i].size = v[i]
  BY <1>1
<1>4. groups \in Seq(Group)
  <2>1. \A i \in 1 .. created :
           [id |-> i, born |-> i, visible |-> v[i], size |-> v[i]] \in Group
    BY <1>2 DEF Group
  <2> QED
    BY <1>1, <1>2, <2>1
<1>5. groups = <<>> <=> created = 0
  BY <1>2, <1>3, <1>4
<1>6. IdsUnique(groups) /\ ActiveIn(groups, active)
  BY <1>2, <1>3, <1>5 DEF IdsUnique, ActiveIn, GroupIds
<1>7. GroupsTold
  <2>1. \A i \in 1 .. created : v[i] <= v[i] /\ i <= created
    BY <1>2 DEF Panes
  <2> QED
    BY <1>3, <2>1 DEF GroupsTold
<1>8. /\ BoundTo(groups, active) \in [Panes -> Nat]
      /\ Visible(groups, active) \subseteq Panes
      /\ \A p \in Visible(groups, active) : BoundTo(groups, active)[p] = BornOf(groups, active)
  BY <1>4, <1>6, <1>7, BoundIs DEF GroupsTold
<1>9. TypeOK
  <2>1. stack \in Seq(Frame) /\ held \in Seq(Commands) /\ posted \in Seq(Messages)
    BY <1>2
  <2>2. realized \in [Panes -> BOOLEAN]
    BY <1>2
  <2>3. \A i, j \in DOMAIN groups : groups[i].id = groups[j].id => i = j
    BY <1>6 DEF IdsUnique
  <2>4. IF groups = <<>> THEN active = 0 ELSE active \in GroupIds(groups)
    BY <1>6 DEF ActiveIn
  <2> QED
    BY <1>2, <1>4, <1>8, <2>1, <2>2, <2>3, <2>4 DEF TypeOK
<1>10. DOMAIN stack = {} /\ \A i : i \notin DOMAIN stack
  BY <1>2
<1>11. StackOK
  <2>1. StackInOrder(stack) /\ StepsInOrder(stack) /\ Knows(stack, groups, created)
    BY <1>10 DEF StackInOrder, StepsInOrder, Knows
  <2>2. LoopsBorn(stack, ActiveBorn) /\ PassWork(stack, Visible(groups, active), realized)
    BY <1>10 DEF LoopsBorn, PassWork
  <2>3. layout.in_progress <=> OnStack(stack, {"layout"})
    BY <1>2, <1>10 DEF OnStack
  <2> QED
    BY <2>1, <2>2, <2>3 DEF StackOK
<1>12. PanesOK
  <2>1. ~RebindAhead
    BY <1>10 DEF RebindAhead, Ahead
  <2>2. BoundAsPlanned /\ KeptAcrossRebind
    BY <1>2, <2>1 DEF BoundAsPlanned, KeptAcrossRebind
  <2>3. HiddenIsAhead
    BY <1>2 DEF HiddenIsAhead
  <2>4. NavigationIsAhead
    BY <1>2, <1>8 DEF NavigationIsAhead, ActiveBorn, BornOf
  <2> QED
    BY <2>2, <2>3, <2>4 DEF PanesOK
<1>13. HeldOnlyInShell /\ NestedLayoutPosted
  BY <1>2 DEF HeldOnlyInShell, NestedLayoutPosted
<1> QED
  BY <1>7, <1>9, <1>11, <1>12, <1>13 DEF IInv

\* Every step keeps the invariant, and none but the answer to a box makes a
\* Group disappear.
LEMMA StepKeeps ==
  ASSUME IInv, [Next]_vars
  PROVE  /\ IInv'
         /\ \/ Survive
            \/ /\ TopIs("box")
               /\ \A k \in DOMAIN groups : groups[k].id # Top.id =>
                     \E j \in DOMAIN groups' : groups'[j].born = groups[k].born
<1>1. CASE \E m \in Commands : UserInput(m)
  BY <1>1, UserInputKeeps
<1>2. CASE PostedArrives
  BY <1>2, PostedArrivesKeeps
<1>3. CASE Resize
  BY <1>3, ResizeKeeps
<1>4. CASE ShellCall
  BY <1>4, ShellCallKeeps
<1>5. CASE ScopeReturns
  BY <1>5, ScopeReturnsKeeps
<1>6. CASE \E c \in MenuCommands \cup {"cancelled"} : MenuReturns(c)
  BY <1>6, MenuReturnsKeeps
<1>7. CASE \E yes \in BOOLEAN : BoxAnswered(yes)
  BY <1>7, BoxAnsweredKeeps
<1>8. CASE TransitionStep
  BY <1>8, TransitionStepKeeps
<1>9. CASE NavigateStep
  BY <1>9, NavigateStepKeeps
<1>10. CASE LayoutStep
  BY <1>10, LayoutStepKeeps
<1>11. CASE CloseRequested \/ CloseWithdrawn
  BY <1>11, CloseKeeps
<1>12. CASE CloseCompleted
  BY <1>12, CloseCompletedKeeps
<1>13. CASE Closed \/ UNCHANGED vars
  BY <1>13, StutterKeeps DEF Closed
<1> QED
  BY <1>1, <1>2, <1>3, <1>4, <1>5, <1>6, <1>7, <1>8, <1>9, <1>10, <1>11, <1>12, <1>13
     DEF Next

-----------------------------------------------------------------------------
(* The theorems.  *)

\* The inductive invariant holds whatever is pumped, and wherever.
THEOREM InvHolds == Spec => []IInv
BY InitOK, StepKeeps, PTL DEF Spec

\* Whatever is deleted inside a pump, no pane is left with a reference into the
\* PaneState of a Group that is gone.
THEOREM BoundStaysLive == Spec => []BoundPanesLive
<1>1. ASSUME IInv PROVE BoundPanesLive
  <2>1. ASSUME NEW p \in Panes, bound[p] # 0
        PROVE  \E i \in DOMAIN groups : groups[i].born = bound[p]
    <3>1. CASE RebindAhead
      BY <1>1, <2>1, <3>1 DEF IInv, PanesOK, BoundAsPlanned, BoundLive
    <3>2. CASE ~RebindAhead
      <4>1. bound = BoundTo(groups, active)
        BY <1>1, <3>2 DEF IInv, PanesOK, BoundAsPlanned
      <4> QED
        BY <1>1, <2>1, <4>1, Present, BoundIs
    <3> QED
      BY <3>1, <3>2
  <2> QED
    BY <1>1, <2>1 DEF BoundPanesLive, IInv
<1> QED
  BY <1>1, InvHolds, PTL

\* Passes, navigations and panes stay with the active Group, what was held is
\* handed over, and what was asked for inside a pass is posted.
THEOREM PassAgrees == Spec => []PassAndPanesAgree
<1>1. ASSUME IInv PROVE PassAndPanesAgree
  <2>1. PassStaysOnActive
    BY <1>1 DEF IInv, StackOK, LoopsBorn, PassStaysOnActive
  <2>2. PanesFollowActive
    <3> SUFFICES ASSUME ~ShuttingDown, ~interrupted,
                        ~OnStack(stack, {"transition", "navigate", "layout"})
                 PROVE  /\ bound = BoundTo(groups, active)
                        /\ \A p \in Panes : realized[p] =>
                              p \in Visible(groups, active) /\ loaded[p] = ActiveBorn
      BY DEF PanesFollowActive
    <3>1. \A i \in DOMAIN stack :
             /\ stack[i].kind # "transition" /\ stack[i].kind # "navigate"
             /\ stack[i].kind # "layout" /\ FrameSteps(stack[i])
      BY <1>1 DEF OnStack, IInv, StackOK, StepsInOrder
    <3>2. \A i \in DOMAIN stack : stack[i].steps = <<>>
      BY <3>1 DEF FrameSteps
    <3>3. \A step : ~Ahead(stack, step)
      BY <3>2 DEF Ahead, Has
    <3>4. \A p : ~OnTodo(stack, "layout", p) /\ ~OnTodo(stack, "navigate", p)
      BY <3>1 DEF OnTodo
    <3>5. bound = BoundTo(groups, active)
      BY <1>1, <3>3 DEF IInv, PanesOK, BoundAsPlanned, RebindAhead
    <3>6. \A p \in Panes : realized[p] => p \in Visible(groups, active)
      BY <1>1, <3>3, <3>4 DEF IInv, PanesOK, HiddenIsAhead, LayoutAhead
    <3>7. \A p \in Visible(groups, active) : realized[p] => loaded[p] = ActiveBorn
      BY <1>1, <3>3, <3>4 DEF IInv, PanesOK, NavigationIsAhead, NavigateAhead
    <3> QED
      BY <3>5, <3>6, <3>7
  <2> QED
    BY <1>1, <2>1, <2>2 DEF IInv, PassAndPanesAgree
<1> QED
  BY <1>1, InvHolds, PTL

\* A Group disappears only by the answer to a box that was about it.
THEOREM DeletesTheChosen == Spec => DeletesChosenGroup
<1> DEFINE Chosen ==
       \A i \in DOMAIN groups :
          (\A j \in DOMAIN groups' : groups'[j].born # groups[i].born) =>
             /\ TopIs("box") /\ Top.id = groups[i].id
             /\ \A j \in DOMAIN groups : groups[j].born = Top.born => j = i
<1>1. IInv /\ [Next]_vars => Chosen
  <2> SUFFICES ASSUME IInv, [Next]_vars, NEW i \in DOMAIN groups,
                      \A j \in DOMAIN groups' : groups'[j].born # groups[i].born
               PROVE  /\ TopIs("box") /\ Top.id = groups[i].id
                      /\ \A j \in DOMAIN groups : groups[j].born = Top.born => j = i
    OBVIOUS
  <2>1. /\ TopIs("box")
        /\ \A k \in DOMAIN groups : groups[k].id # Top.id =>
              \E j \in DOMAIN groups' : groups'[j].born = groups[k].born
    BY StepKeeps DEF Survive
  <2>2. Top.id = groups[i].id
    BY <2>1
  <2>3. FrameKnows(Top, groups, created) /\ Top.kind = "box"
    BY <2>1, Popped DEF TopIs
  <2>4. \A j \in DOMAIN groups : groups[j].born = Top.born => groups[j].id = Top.id
    BY <2>3 DEF FrameKnows
  <2>5. \A j \in DOMAIN groups : groups[j].born = Top.born => j = i
    BY <2>2, <2>4, Present DEF IdsUnique
  <2> QED
    BY <2>1, <2>2, <2>5
<1>2. IInv /\ [Next]_vars => [Chosen]_vars
  BY <1>1
<1> QED
  BY <1>2, InvHolds, PTL DEF Spec, DeletesChosenGroup
===============================================================================
