------------------------------ MODULE PaneTabs ------------------------------
(***************************************************************************)
(* The panes and tabs of the active Group (src/src/core/model.cpp) and the *)
(* mouse gestures that change them (src/src/core/tab_drag.cpp, main.cpp,   *)
(* pane.cpp).                                                              *)
(*                                                                         *)
(* A gesture starts with a press and ends with a release much later.  It   *)
(* holds the mouse, not the keyboard: between the two the outermost        *)
(* message loop still runs key commands and whatever was held back during  *)
(* a Shell call.  Every operation changes the model before it calls the    *)
(* Shell, and input is held back until that call returns (GroupCommands),  *)
(* so an operation is one step here.  A close can break into one; all it   *)
(* does to the model is to end CloseTabs early.                            *)
(*                                                                         *)
(* Only the active Group is kept: another one takes its place as a session *)
(* may have it, with the same ids for other tabs.                          *)
(***************************************************************************)
EXTENDS Integers, FiniteSets, SequencesExt

CONSTANTS
  PaneSlots,    \* kMaxPaneCount
  MaxTab        \* the tab ids of a Group are 0 .. MaxTab

ASSUME PaneSlotsAssumption == PaneSlots \in Nat \ {0}
ASSUME MaxTabAssumption == MaxTab \in Nat

Slots == 1 .. PaneSlots
TabIds == 0 .. MaxTab

VARIABLES
  group,        \* the active GroupState
  drag,         \* AppState::tab_drag
  armed,        \* pressed_close_tab_id_ and the strip it belongs to
  grabbed,      \* the tab the gesture took hold of (history variable)
  touched       \* whether a command ran under the gesture (history variable)

vars == <<group, drag, armed, grabbed, touched>>

\* content tells the tabs of the session file apart, whatever becomes of their
\* ids; 0 is a tab at the default location.
TabRecord == [id : TabIds, content : 0 .. MaxTab + 1]
PaneRecord == [tabs : Seq(TabRecord), active : TabIds]

\* visible is pane_count(layout_template).  A pane is known by its place:
\* panes are only ever appended.
GroupRecord == [visible : Slots, active_pane : Slots, panes : Seq(PaneRecord)]

NoDrag == [source_pane |-> 0, source_index |-> 0, tab_id |-> 0, dragging |-> FALSE,
           target_pane |-> 0, target_index |-> 0]
NotArmed == [pane |-> 0, index |-> 0, tab_id |-> 0]

Panes == group.panes
Visible == 1 .. group.visible
ActivePane == group.active_pane

-----------------------------------------------------------------------------
(* Tabs and panes (model.cpp). *)

IdsOf(tabs) == {tabs[i].id : i \in DOMAIN tabs}
GroupIds(panes) == UNION {IdsOf(panes[p].tabs) : p \in DOMAIN panes}

\* find_id
At(tabs, id) == CHOOSE i \in DOMAIN tabs : tabs[i].id = id

\* is_valid, without the histories (PaneNavigation) and the divider ratios.
is_valid(g) ==
  /\ g.visible <= Len(g.panes)
  /\ Len(g.panes) <= PaneSlots
  /\ g.active_pane \in DOMAIN g.panes
  /\ \A p \in DOMAIN g.panes :
       LET pane == g.panes[p] IN
       /\ pane.tabs # <<>>
       /\ pane.active \in IdsOf(pane.tabs)
       /\ \A i, j \in DOMAIN pane.tabs : pane.tabs[i].id = pane.tabs[j].id => i = j

\* The program asserts is_valid of a Group before it is shown and before it is
\* saved; it holds after every operation, in the middle of every gesture.
TypeOK ==
  /\ group \in GroupRecord /\ is_valid(group)
  /\ drag \in [source_pane : 0 .. PaneSlots, source_index : Nat, tab_id : TabIds,
               dragging : BOOLEAN, target_pane : 0 .. PaneSlots, target_index : Nat]
  /\ armed \in [pane : 0 .. PaneSlots, index : Nat, tab_id : TabIds]
  /\ grabbed \in TabRecord
  /\ touched \in BOOLEAN

\* Mutant of AreNextIds: every new pane asks from the beginning.
AreFirstIds(panes, ids) ==
  \A k \in DOMAIN ids :
    /\ ids[k] \notin GroupIds(panes)
    /\ \A n \in 0 .. ids[k] - 1 : n \in GroupIds(panes)

\* The ids next_tab_id returns one after the other: always the next free number.
AreNextIds(panes, ids) ==
  \A k \in DOMAIN ids :
    /\ ids[k] \notin GroupIds(panes)
    /\ \A l \in DOMAIN ids : l < k => ids[l] < ids[k]
    /\ \A n \in 0 .. ids[k] - 1 :
         n \in GroupIds(panes) \/ \E l \in DOMAIN ids : l < k /\ ids[l] = n

Fresh(id) == [id |-> id, content |-> 0]

\* The active tab once the i-th is gone: its successor, or else the last.
Heir(tabs, i) == IF i < Len(tabs) THEN tabs[i + 1].id ELSE tabs[i - 1].id

Without(pane, i) ==
  [tabs |-> RemoveAt(pane.tabs, i),
   active |-> IF pane.active = pane.tabs[i].id THEN Heir(pane.tabs, i) ELSE pane.active]

close_tab(pane, id) ==
  IF id \notin IdsOf(pane.tabs) THEN pane
  ELSE IF Len(pane.tabs) = 1
       THEN [pane EXCEPT !.tabs = << Fresh(id) >>]
       ELSE Without(pane, At(pane.tabs, id))

add_tab(pane, id) == [tabs |-> Append(pane.tabs, Fresh(id)), active |-> id]

\* to is the place the tab ends in.
reorder_tab(pane, id, to) ==
  LET from == At(pane.tabs, id)
  IN [pane EXCEPT !.tabs = InsertAt(RemoveAt(@, from), to, @[from])]

\* move_tab: what stays behind, and what arrives.
move_source(pane, id, retained) ==
  IF Len(pane.tabs) = 1
  THEN [tabs |-> << Fresh(retained) >>, active |-> retained]
  ELSE Without(pane, At(pane.tabs, id))

Clamped(to, tabs) == IF to <= Len(tabs) THEN to ELSE Len(tabs) + 1

\* Mutant of move_target: always at the end.
move_target_at_end(pane, tab, to) ==
  [tabs |-> Append(pane.tabs, tab), active |-> tab.id]

move_target(pane, tab, to) ==
  [tabs |-> InsertAt(pane.tabs, Clamped(to, pane.tabs), tab), active |-> tab.id]

\* switch_layout
Grown(panes, ids) ==
  panes \o [k \in DOMAIN ids |-> [tabs |-> << Fresh(ids[k]) >>, active |-> ids[k]]]

StillVisible(active_pane, visible) == IF active_pane > visible THEN 1 ELSE active_pane

switch_layout(g, visible, ids) ==
  [visible |-> visible,
   active_pane |-> StillVisible(g.active_pane, visible),
   panes |-> Grown(g.panes, ids)]

-----------------------------------------------------------------------------

\* A Group with n panes, all shown: the first has two tabs or one.
Panels(n, first) ==
  << [tabs |-> [i \in 1 .. first |-> [id |-> i - 1, content |-> i]], active |-> 0] >>
  \o [p \in 1 .. n - 1 |-> [tabs |-> << [id |-> p + first - 1, content |-> p + first] >>,
                           active |-> p + first - 1]]

Opened ==
  {[visible |-> s[1], active_pane |-> 1, panes |-> Panels(s[1], s[2])] :
     s \in {t \in Slots \X (1 .. 2) : t[1] + t[2] <= MaxTab + 2}}

Init ==
  /\ group \in Opened
  /\ drag = NoDrag /\ armed = NotArmed
  /\ grabbed = Fresh(0) /\ touched = FALSE

Idle == drag = NoDrag /\ armed = NotArmed

Changed(p, pane) == [group EXCEPT !.panes[p] = pane]

\* A model change that the gesture in progress does not make.
Under == touched' = ~Idle /\ UNCHANGED <<drag, armed, grabbed>>

-----------------------------------------------------------------------------
(* Gestures. *)

\* The main window hears of the press first and activates the pane q that is
\* under the cursor by now; then the strip of pane p activates its i-th tab
\* and starts a drag.  A press that was held back may find its pane hidden.
PressTab(p, i, q) ==
  LET tab == Panes[p].tabs[i] IN
  /\ armed = NotArmed      \* an armed button has the mouse until the release
  /\ group' = [group EXCEPT !.active_pane = q, !.panes[p].active = tab.id]
  /\ drag' = [NoDrag EXCEPT !.source_pane = p, !.source_index = i, !.tab_id = tab.id]
  /\ grabbed' = tab
  /\ touched' = FALSE
  /\ UNCHANGED armed

\* begin_tab_drag and update_tab_drag: the cursor is over the given slot of
\* the strip of pane hit, over no slot of it (0), or over no strip (hit = 0).
Drag(hit, slot, in_viewport) ==
  LET other == hit # 0 /\ hit # drag.source_pane IN
  /\ drag # NoDrag
  /\ drag' = [drag EXCEPT
       !.dragging = TRUE,
       !.target_pane = IF other THEN hit ELSE 0,
       !.target_index = IF slot # 0 THEN slot
                        ELSE IF other /\ in_viewport THEN Len(Panes[hit].tabs) + 1
                        ELSE 0]
  /\ UNCHANGED <<group, armed, grabbed, touched>>

\* The capture goes elsewhere, or the button turns out to be up.
CancelGesture ==
  /\ ~Idle
  /\ drag' = NoDrag /\ armed' = NotArmed
  /\ UNCHANGED <<group, grabbed, touched>>

\* resolve_tab_drop
DropPane == IF drag.target_pane = 0 THEN drag.source_pane ELSE drag.target_pane
Drops ==
  /\ drag.dragging /\ drag.target_index # 0
  /\ {drag.source_pane, DropPane} \subseteq DOMAIN Panes
  /\ drag.tab_id \in IdsOf(Panes[drag.source_pane].tabs)

Reorders ==
  /\ Drops
  /\ DropPane = drag.source_pane
  /\ drag.target_index # drag.source_index
  /\ drag.target_index <= Len(Panes[DropPane].tabs)

Moves ==
  /\ Drops
  /\ DropPane # drag.source_pane
  /\ drag.tab_id \notin IdsOf(Panes[DropPane].tabs)

Reorder ==
  /\ Reorders
  /\ group' = Changed(DropPane, reorder_tab(Panes[DropPane], drag.tab_id, drag.target_index))

\* retained is the id for the tab a pane is left with that gave its last one.
MoveTo(retained) ==
  LET source == Panes[drag.source_pane]
      tab == source.tabs[At(source.tabs, drag.tab_id)]
  IN /\ Moves
     /\ AreNextIds(Panes, <<retained>>)
     /\ group' = [group EXCEPT
          !.panes[drag.source_pane] = move_source(@, drag.tab_id, retained),
          !.panes[DropPane] = move_target(@, tab, drag.target_index)]

\* finish_tab_drag
ReleaseTab ==
  /\ drag # NoDrag /\ drag' = NoDrag
  /\ \/ Reorder
     \/ \E retained \in TabIds : MoveTo(retained)
     \/ ~Reorders /\ ~Moves /\ UNCHANGED group
  /\ UNCHANGED <<armed, grabbed, touched>>

\* The close button of a tab is armed by the press and acts at the release.
PressClose(p, i, q) ==
  /\ group' = [group EXCEPT !.active_pane = q]
  /\ drag' = NoDrag
  /\ armed' = [pane |-> p, index |-> i, tab_id |-> Panes[p].tabs[i].id]
  /\ grabbed' = Panes[p].tabs[i]
  /\ touched' = FALSE

ReleaseClose ==
  /\ armed # NotArmed
  /\ armed' = NotArmed
  /\ armed.pane \in DOMAIN Panes /\ armed.index \in DOMAIN Panes[armed.pane].tabs
  /\ group' = Changed(armed.pane, close_tab(Panes[armed.pane], armed.tab_id))
  /\ UNCHANGED <<drag, grabbed, touched>>

-----------------------------------------------------------------------------
(* Commands, from the keyboard also in the middle of a gesture. *)

NewTab(p, id) ==
  /\ AreNextIds(Panes, <<id>>)
  /\ group' = Changed(p, add_tab(Panes[p], id))
  /\ Under

CloseTab(p, i) ==
  /\ group' = Changed(p, close_tab(Panes[p], Panes[p].tabs[i].id))
  /\ Under

ActivateTab(p, i) ==
  /\ group' = [group EXCEPT !.panes[p].active = Panes[p].tabs[i].id]
  /\ Under

CycleTab(reverse) ==
  LET tabs == Panes[ActivePane].tabs
      i == At(tabs, Panes[ActivePane].active)
  IN ActivateTab(ActivePane, IF reverse THEN (IF i = 1 THEN Len(tabs) ELSE i - 1)
                                        ELSE (IF i = Len(tabs) THEN 1 ELSE i + 1))

\* set_active_pane
FocusPane(p) ==
  /\ group' = [group EXCEPT !.active_pane = p]
  /\ Under

\* The folder button of pane p, maybe held back until its pane was hidden.
FolderContext(p) == p \in Visible /\ FocusPane(p)

\* close_tabs: one tab after the other.  A close leaves the rest open.
Closing(tabs, i, command) ==
  SelectSeq(tabs, LAMBDA tab : \/ command = "all"
                               \/ command = "others" /\ tab.id # tabs[i].id
                               \/ command = "to the right" /\ i < At(tabs, tab.id))

ClosedFirst(pane, closing, n) ==
  LET After[k \in 0 .. n] ==
        IF k = 0 THEN pane ELSE close_tab(After[k - 1], closing[k].id)
  IN After[n]

CloseTabs(p, i, command, cut) ==
  LET closing == Closing(Panes[p].tabs, i, command) IN
  /\ cut <= Len(closing)
  /\ group' = Changed(p, ClosedFirst(Panes[p], closing, cut))
  /\ Under

SetLayout(visible, ids) ==
  /\ visible # group.visible
  /\ Len(ids) = IF visible > Len(Panes) THEN visible - Len(Panes) ELSE 0
  /\ AreNextIds(Panes, ids)
  /\ group' = switch_layout(group, visible, ids)
  /\ Under

Relayout ==
  \E visible \in Slots : \E n \in 0 .. PaneSlots : \E ids \in [1 .. n -> TabIds] :
    SetLayout(visible, ids)

SelectGroup ==
  /\ group' \in Opened
  /\ Under

Gesture ==
  \/ \E p \in DOMAIN Panes, q \in Visible : \E i \in DOMAIN Panes[p].tabs :
       PressTab(p, i, q) \/ PressClose(p, i, q)
  \/ \E hit \in Visible, in_viewport \in BOOLEAN : \E slot \in 0 .. Len(Panes[hit].tabs) :
       Drag(hit, slot, in_viewport)
  \/ Drag(0, 0, FALSE)
  \/ CancelGesture
  \/ ReleaseTab
  \/ ReleaseClose

Key ==
  \/ \E id \in TabIds : NewTab(ActivePane, id)
  \/ CloseTab(ActivePane, At(Panes[ActivePane].tabs, Panes[ActivePane].active))
  \/ \E reverse \in BOOLEAN : CycleTab(reverse)
  \/ \E p \in Visible : FocusPane(p)
  \/ \E p \in DOMAIN Panes : FolderContext(p)
  \/ Relayout
  \/ SelectGroup

\* Buttons, menus and the hover of an OLE drag need the mouse for themselves.
Mouse ==
  /\ Idle
  /\ \E p \in DOMAIN Panes :
       \/ \E id \in TabIds : NewTab(p, id)
       \/ \E i \in DOMAIN Panes[p].tabs :
            \/ CloseTab(p, i)
            \/ ActivateTab(p, i)
            \/ \E command \in {"all", "others", "to the right"}, cut \in 1 .. Len(Panes[p].tabs) :
                 CloseTabs(p, i, command, cut)

Next == Gesture \/ Key \/ Mouse

Spec == Init /\ [][Next]_vars

-----------------------------------------------------------------------------

\* A tab id names one tab in all the panes of its Group, those a layout hides
\* included: a tab moves to another pane under its id.
TabIdsUnique ==
  /\ TypeOK
  /\ \A p, q \in DOMAIN Panes :
       p # q => IdsOf(Panes[p].tabs) \cap IdsOf(Panes[q].tabs) = {}

\* The pane that key commands go to can be seen.
ActivePaneVisible == ActivePane \in Visible

Places(content) ==
  {place \in Slots \X (1 .. MaxTab + 1) :
     /\ place[1] \in DOMAIN Panes /\ place[2] \in DOMAIN Panes[place[1]].tabs
     /\ Panes[place[1]].tabs[place[2]].content = content}

\* A drop and a change of layout lose no pane, and lose and double no tab.
TabsConserved ==
  [][ReleaseTab \/ (group'.visible # group.visible /\ Relayout) =>
       /\ Len(Panes') >= Len(Panes)
       /\ \A content \in 1 .. MaxTab + 1 :
            Cardinality(Places(content)') = Cardinality(Places(content))]_vars

\* Nothing having changed under it, a dragged tab ends exactly in the slot the
\* strip held open for it, and another pane shows it.
DropLandsInSlot ==
  [][ReleaseTab /\ group' # group /\ ~touched =>
       LET pane == Panes'[DropPane] IN
       /\ pane.tabs[drag.target_index] = grabbed
       /\ DropPane # drag.source_pane => pane.active = drag.tab_id]_vars

\* However panes and tabs come, go and are dragged, what is shown can be used
\* and ids tell tabs apart.
TabsReachable == TabIdsUnique /\ ActivePaneVisible

\* A drop does what the user saw it would, and no more.
DropMovesOneTab == TabsConserved /\ DropLandsInSlot

\* "a drag that outlived a layout switch resolves to `none`" (tab_drag.h): it
\* drops nothing into a pane that the new layout does not show.
DropStaysInSight ==
  [][ReleaseTab /\ group' # group => DropPane \in Visible]_vars

=============================================================================
