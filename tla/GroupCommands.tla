---------------------------- MODULE GroupCommands ----------------------------
(***************************************************************************)
(* Group commands on the UI thread (src/app_shell/main.cpp): the commands   *)
(* that change the Groups, the transition each of them runs                 *)
(* (src/core/group_transition.cpp), the layout pass, and what happens when  *)
(* a Shell call or a message box in the middle of one pumps the message     *)
(* loop (src/app_shell/shell_reentry_guard.h).  The close sequence is       *)
(* reduced to its gate; ShutdownCoordinator opens it up.                    *)
(***************************************************************************)
EXTENDS Naturals, Sequences, FiniteSets, SequencesExt

CONSTANTS
    PaneSlots,    \* kMaxPaneCount
    MaxCreated,   \* Groups ever created
    MaxPosted,    \* interactions held or posted at once
    MaxNested     \* calls that pump the message loop, one inside the other

ASSUME CommandBounds ==
    /\ PaneSlots \in Nat \ {0}
    /\ MaxCreated \in Nat
    /\ MaxPosted \in Nat
    /\ MaxNested \in Nat \ {0}

VARIABLES
    groups,      \* ApplicationState::groups
    active,      \* active_group_id, 0 for the empty string
    created,     \* Groups created so far
    bound,       \* per pane: the Group its PaneState belongs to, or 0
    loaded,      \* per pane: the Group whose active tab its list shows, or 0
    realized,    \* per pane: it has a live list
    stack,       \* the UI thread's call stack
    held,        \* ShellReentryGuard::held_
    posted,      \* the thread's queue of posted messages
    layout,      \* layout_in_progress, layout_pending, layout_message_queued
    shutting,    \* "no", "deferred" or "closed"
    interrupted  \* history: a close has cut short what it interrupted

vars == <<groups, active, created, bound, loaded, realized, stack, held, posted,
          layout, shutting, interrupted>>

model == <<groups, active, created>>
panes == <<bound, loaded, realized>>
queues == <<held, posted>>

Panes == 1..PaneSlots

-----------------------------------------------------------------------------
\* id is the Group's id; born tells it from a later Group that gets the same
\* id; visible is pane_count(layout_template) and size is panes.size().
Group == [id : Nat \ {0}, born : Nat \ {0}, visible : Panes, size : Panes]

Steps == {"rebind_panes", "navigate_realized_panes", "apply_layout",
          "focus_active_pane"}

\* "scope" is a ShellCallScope around a call that pumps; "menu" the sidebar's
\* context menu, inside a scope of its own; "box" delete_group's message box.
\* "transition", "navigate" and "layout" are the loops that make such calls.
Kinds == {"scope", "menu", "box", "transition", "navigate", "layout"}

Frame == [kind : Kinds, id : Nat, born : Nat, steps : Seq(Steps), todo : SUBSET Panes]

\* The commands a user can give at the main window; "menu" is WM_COMMAND's
\* neighbour WM_CONTEXTMENU, "layout" is kDeferredLayoutMessage.
LayoutCommands == {<<"set_layout", v>> : v \in Panes}
Commands == {<<"new", 0>>, <<"select", 0>>, <<"menu", 0>>} \cup LayoutCommands
Messages == Commands \cup {<<"layout", 0>>}
MenuCommands == {"duplicate", "delete", "move_up", "move_down"}

GroupIds(gs) == {gs[i].id : i \in DOMAIN gs}

\* The types, and is_valid(ApplicationState): Group ids are unique, and one of
\* them is active whenever there is a Group.
TypeOK ==
    /\ groups \in Seq(Group)
    /\ \A i, j \in DOMAIN groups : groups[i].id = groups[j].id => i = j
    /\ IF groups = <<>> THEN active = 0 ELSE active \in GroupIds(groups)
    /\ created \in Nat
    /\ bound \in [Panes -> Nat] /\ loaded \in [Panes -> Nat]
    /\ realized \in [Panes -> BOOLEAN]
    /\ stack \in Seq(Frame)
    /\ held \in Seq(Commands) /\ posted \in Seq(Messages)
    /\ layout \in [in_progress : BOOLEAN, pending : BOOLEAN, queued : BOOLEAN]
    /\ shutting \in {"no", "deferred", "closed"}
    /\ interrupted \in BOOLEAN

-----------------------------------------------------------------------------
IndexOf(gs, id) == CHOOSE i \in DOMAIN gs : gs[i].id = id
Find(gs, id) == gs[IndexOf(gs, id)]
ActiveBorn == IF groups = <<>> THEN 0 ELSE Find(groups, active).born

\* next_group_id; ids are group-<n>.
next_group_id == 1 + (CHOOSE m \in GroupIds(groups) \cup {0} :
                        \A n \in GroupIds(groups) : n <= m)

Call(kind, id, born) ==
    [kind |-> kind, id |-> id, born |-> born, steps |-> <<>>, todo |-> {}]
Loop(kind, todo) == [Call(kind, 0, ActiveBorn) EXCEPT !.todo = todo]
Scope == Call("scope", 0, 0)
Top == Last(stack)
TopIs(kind) == stack # <<>> /\ Top.kind = kind
Caller == Front(stack)
OnStack(st, kinds) == \E i \in DOMAIN st : st[i].kind \in kinds

\* The loop on top has taken its next step, or dealt with its next pane.
Advanced == Append(Caller, [Top EXCEPT !.steps = Tail(@)])
Without(p) == Append(Caller, [Top EXCEPT !.todo = @ \ {p}])
NextPane(p) == p \in Top.todo /\ \A q \in Top.todo : p <= q

\* in_shell_call().
InShell(st) == OnStack(st, {"scope", "menu"})
ShuttingDown == shutting # "no"
Pumping == stack = <<>> \/ TopIs("scope") \/ TopIs("menu") \/ TopIs("box")
RoomForWork ==
    Cardinality({i \in DOMAIN stack : stack[i].kind \in {"scope", "menu", "box"}})
        < MaxNested

\* rebind_panes; binding to another PaneState cancels what the list shows.
BoundTo(gs, id) ==
    [p \in Panes |-> IF id \in GroupIds(gs) /\ p <= Find(gs, id).size
                     THEN Find(gs, id).born ELSE 0]
Rebind(to) ==
    /\ bound' = to
    /\ loaded' = [p \in Panes |-> IF bound[p] = to[p] /\ to[p] # 0
                                  THEN loaded[p] ELSE 0]

\* plan_group_transition, without the steps that only repaint or save; what a
\* Shell call for a name on a tab strip lets in, the steps beside it let in too.
plan_group_transition(has_active_group, moved) ==
    <<"rebind_panes">>
    \o (IF has_active_group /\ moved THEN <<"navigate_realized_panes">> ELSE <<>>)
    \o <<"apply_layout">>
    \o (IF has_active_group THEN <<"focus_active_pane">> ELSE <<>>)

Transition(has_active_group, moved) ==
    [Call("transition", 0, 0) EXCEPT
        !.steps = plan_group_transition(has_active_group, moved)]

\* plan_realization, as the panes a pass has work for.
Visible(gs, id) == IF id \in GroupIds(gs) THEN 1..Find(gs, id).visible ELSE {}
plan_realization ==
    IF groups = <<>> THEN Panes
    ELSE {p \in Panes : realized[p] # (p \in Visible(groups, active))}

-----------------------------------------------------------------------------
\* Any two Groups, one pane template each, as a restored session shows them.
Init ==
    /\ \E n \in 0..2 : n <= MaxCreated /\ created = n
    /\ \E v \in [1..created -> Panes] :
          groups = [i \in 1..created |->
                      [id |-> i, born |-> i, visible |-> v[i], size |-> v[i]]]
    /\ active \in IF created = 0 THEN {0} ELSE 1..created
    /\ bound = BoundTo(groups, active)
    /\ realized = [p \in Panes |-> p \in Visible(groups, active)]
    /\ loaded = bound
    /\ stack = <<>>
    /\ held = <<>> /\ posted = <<>>
    /\ layout = [in_progress |-> FALSE, pending |-> FALSE, queued |-> FALSE]
    /\ shutting = "no"
    /\ interrupted = FALSE

-----------------------------------------------------------------------------
(* The command handlers.  base is the stack they are called on.  *)

\* Activating the Group that is active already only binds the panes again.
activate_group(gs, id, base) ==
    /\ groups' = gs
    /\ active' = id
    /\ IF id = active
       THEN Rebind(BoundTo(gs, id)) /\ stack' = base
       ELSE /\ stack' = Append(base, Transition(TRUE, TRUE))
            /\ UNCHANGED <<bound, loaded>>
    /\ UNCHANGED layout

\* add_group: the template is taken over from the active Group; with no Group
\* core makes the first one active itself.
add_group(base) ==
    LET v == IF groups = <<>> THEN 1 ELSE Find(groups, active).visible
        g == [id |-> next_group_id, born |-> created + 1, visible |-> v, size |-> v]
    IN  /\ created' = created + 1
        /\ activate_group(Append(groups, g), g.id, base)

duplicate_group(id, base) ==
    /\ created' = created + 1
    /\ activate_group(Append(groups, [Find(groups, id) EXCEPT !.id = next_group_id,
                                                              !.born = created + 1]),
                      next_group_id, base)

\* move_group through reorder_group.
move_group(id, down, base) ==
    LET i == IndexOf(groups, id)
        j == IF down THEN i + 1 ELSE i - 1
    IN  /\ groups' = IF j \in DOMAIN groups
                     THEN [groups EXCEPT ![i] = groups[j], ![j] = groups[i]]
                     ELSE groups
        /\ stack' = base
        /\ UNCHANGED <<active, created, bound, loaded, layout>>

\* set_layout: panes beyond the old ones are added, none is ever dropped.
set_layout(v, base) ==
    LET i == IndexOf(groups, active) IN
    IF groups = <<>> \/ groups[i].visible = v
    THEN stack' = base /\ UNCHANGED <<model, bound, loaded, layout>>
    ELSE /\ groups' = [groups EXCEPT ![i].visible = v,
                                     ![i].size = IF v > @ THEN v ELSE @]
         /\ stack' = Append(base, Transition(TRUE, FALSE))
         /\ UNCHANGED <<active, created, bound, loaded, layout>>

\* Mutant: the box remembers the selection, which mirrors the active Group.
ask_delete_selection(id, base) ==
    /\ stack' = Append(base, Call("box", active, Find(groups, id).born))
    /\ UNCHANGED <<model, bound, loaded, layout>>

\* A box is up: delete_group asks before it does anything.
ask_delete(id, base) ==
    /\ stack' = Append(base, Call("box", id, Find(groups, id).born))
    /\ UNCHANGED <<model, bound, loaded, layout>>

\* Mutant: the panes stay bound until the transition binds them again.
delete_group_bound(id, base) ==
    LET i    == IndexOf(groups, id)
        left == RemoveAt(groups, i)
        next == IF left = <<>> THEN 0
                ELSE IF id # active THEN active
                ELSE left[IF i <= Len(left) THEN i ELSE Len(left)].id
    IN  /\ groups' = left
        /\ active' = next
        /\ stack' = Append(base, Transition(left # <<>>, next # active))
        /\ UNCHANGED <<bound, loaded, created, layout>>

\* The rest of delete_group.  The Group after it, or the last, becomes active,
\* and the panes let go of a Group that is about to disappear.
delete_group(id, base) ==
    LET i    == IndexOf(groups, id)
        left == RemoveAt(groups, i)
        next == IF left = <<>> THEN 0
                ELSE IF id # active THEN active
                ELSE left[IF i <= Len(left) THEN i ELSE Len(left)].id
    IN  /\ groups' = left
        /\ active' = next
        /\ IF id = active THEN Rebind([p \in Panes |-> 0])
                          ELSE UNCHANGED <<bound, loaded>>
        /\ stack' = Append(base, Transition(left # <<>>, next # active))
        /\ UNCHANGED <<created, layout>>

\* apply_layout: a pass inside a pass is put off until the outer one is over.
apply_layout(lay, base) ==
    IF lay.in_progress
    THEN layout' = [lay EXCEPT !.pending = TRUE] /\ stack' = base
    ELSE /\ layout' = [lay EXCEPT !.in_progress = TRUE]
         /\ stack' = Append(base, Loop("layout", plan_realization))

-----------------------------------------------------------------------------
(* Messages.  *)

NoCommand(base) == stack' = base /\ UNCHANGED <<model, bound, loaded, layout>>

Run(m, base) ==
    CASE m[1] = "new" -> IF created < MaxCreated THEN add_group(base)
                                                 ELSE NoCommand(base)
      [] m[1] = "set_layout" -> set_layout(m[2], base)
      [] m[1] = "select" ->
            IF groups = <<>> THEN NoCommand(base)
            ELSE /\ \E i \in DOMAIN groups : activate_group(groups, groups[i].id, base)
                 /\ UNCHANGED created
      [] m[1] = "menu" ->
            IF groups = <<>> THEN NoCommand(base)
            ELSE /\ \E i \in DOMAIN groups :
                      stack' = Append(base, Call("menu", groups[i].id,
                                                 groups[i].born))
                 /\ UNCHANGED <<model, bound, loaded, layout>>

\* hold_deferred_message: a message that is held already is not held twice.
Hold(m) == held' = IF Contains(held, m) THEN held ELSE Append(held, m)

\* Mutant: commands are run inside Shell calls.
DeliverAtOnce(m) ==
    /\ IF ShuttingDown THEN NoCommand(stack) ELSE Run(m, stack)
    /\ UNCHANGED held

\* The gates of window_proc and group_list_proc: nothing is handled while the
\* window is closing, and commands wait for the outermost Shell call.
Deliver(m) ==
    /\ IF ShuttingDown \/ InShell(stack) THEN NoCommand(stack) ELSE Run(m, stack)
    /\ IF ~ShuttingDown /\ InShell(stack) THEN Hold(m) ELSE UNCHANGED held

\* The user reaches the main window unless a box disables it or a menu has the
\* input.
UserInput(m) ==
    /\ Pumping /\ RoomForWork
    /\ ~OnStack(stack, {"box", "menu"})
    /\ Len(held) + Len(posted) < MaxPosted
    /\ Deliver(m)
    /\ UNCHANGED <<realized, posted, shutting, interrupted>>

\* A posted message.  The gate also swallows a kDeferredLayoutMessage.
PostedArrives ==
    /\ Pumping /\ RoomForWork
    /\ posted # <<>>
    /\ posted' = Tail(posted)
    /\ IF Head(posted) # <<"layout", 0>>
       THEN Deliver(Head(posted)) /\ UNCHANGED interrupted
       ELSE /\ IF ShuttingDown
               THEN UNCHANGED <<layout, stack>>
               ELSE apply_layout([layout EXCEPT !.queued = FALSE,
                                                !.pending = FALSE], stack)
            /\ interrupted' = (interrupted \/ ShuttingDown)
            /\ UNCHANGED <<model, bound, loaded, held>>
    /\ UNCHANGED <<realized, shutting>>

\* WM_SIZE.
Resize ==
    /\ Pumping /\ RoomForWork
    /\ ~ShuttingDown
    /\ apply_layout(layout, stack)
    /\ UNCHANGED <<model, panes, queues, shutting, interrupted>>

\* Any other Shell call: a Pane's navigation, a file operation, a menu.  Inside
\* a Shell call another one changes nothing that is modelled here.
ShellCall ==
    /\ Pumping /\ RoomForWork
    /\ ~ShuttingDown
    /\ ~InShell(stack)
    /\ stack' = Append(stack, Scope)
    /\ UNCHANGED <<model, panes, queues, layout, shutting, interrupted>>

\* ShellReentryGuard::leave: the outermost call hands over what was held.
LeaveScope ==
    IF InShell(Caller)
    THEN UNCHANGED queues
    ELSE /\ held' = <<>>
         /\ posted' = IF ShuttingDown THEN posted ELSE posted \o held

ScopeReturns ==
    /\ TopIs("scope")
    /\ stack' = Caller
    /\ LeaveScope
    /\ UNCHANGED <<model, panes, layout, shutting, interrupted>>

\* The context menu closes.  Its command is sent, not posted, and the menu is
\* only ever opened outside Shell calls, so that it runs at once.
MenuReturns(c) ==
    /\ TopIs("menu")
    /\ LeaveScope
    /\ IF c = "cancelled" \/ ShuttingDown \/ Top.id \notin GroupIds(groups)
       THEN NoCommand(Caller)
       ELSE CASE c = "duplicate" -> IF created < MaxCreated
                                    THEN duplicate_group(Top.id, Caller)
                                    ELSE NoCommand(Caller)
              [] c = "delete" -> ask_delete(Top.id, Caller)
              [] c = "move_up" -> move_group(Top.id, FALSE, Caller)
              [] c = "move_down" -> move_group(Top.id, TRUE, Caller)
    /\ UNCHANGED <<realized, shutting, interrupted>>

BoxAnswered(yes) ==
    /\ TopIs("box")
    /\ IF yes /\ ~ShuttingDown /\ Top.id \in GroupIds(groups)
       THEN delete_group(Top.id, Caller)
       ELSE NoCommand(Caller)
    /\ UNCHANGED <<realized, queues, shutting, interrupted>>

-----------------------------------------------------------------------------
(* The loops.  Each asks the shutdown gate before it goes on.  *)

\* run_group_transition: one step.
TransitionStep ==
    /\ TopIs("transition")
    /\ IF ShuttingDown \/ Top.steps = <<>>
       THEN /\ stack' = Caller
            /\ interrupted' = (interrupted \/ Top.steps # <<>>)
            /\ UNCHANGED <<bound, loaded, layout>>
       ELSE LET step == Head(Top.steps)
                skip == groups = <<>> /\ step \in {"navigate_realized_panes",
                                                   "focus_active_pane"}
            IN  /\ CASE step = "rebind_panes" ->
                          /\ Rebind(BoundTo(groups, active))
                          /\ stack' = Advanced
                          /\ UNCHANGED layout
                     [] step = "apply_layout" ->
                          /\ apply_layout(layout, Advanced)
                          /\ UNCHANGED <<bound, loaded>>
                     [] skip ->
                          /\ stack' = Advanced
                          /\ UNCHANGED <<bound, loaded, layout>>
                     [] step = "navigate_realized_panes" /\ ~skip ->
                          /\ stack' = Append(Advanced, Loop("navigate",
                                {p \in Visible(groups, active) : realized[p]}))
                          /\ UNCHANGED <<bound, loaded, layout>>
                     [] step = "focus_active_pane" /\ ~skip ->
                          /\ stack' = Append(Advanced, Scope)
                          /\ UNCHANGED <<bound, loaded, layout>>
                /\ UNCHANGED interrupted
    /\ UNCHANGED <<model, realized, queues, shutting>>

\* navigate_realized_panes: a close that arrives inside a call ends the loop,
\* and with it the transition.
NavigateStep ==
    /\ TopIs("navigate")
    /\ IF ShuttingDown \/ Top.todo = {}
       THEN /\ stack' = IF ShuttingDown THEN Front(Caller) ELSE Caller
            /\ interrupted' = (interrupted \/ ShuttingDown)
            /\ UNCHANGED loaded
       ELSE /\ \E p \in Panes :
                  /\ NextPane(p)
                  /\ stack' = Append(Without(p), Scope)
                  /\ loaded' = [loaded EXCEPT ![p] = Top.born]
            /\ UNCHANGED interrupted
    /\ UNCHANGED <<model, bound, realized, queues, layout, shutting>>

\* ~LayoutPassScope.
PostAgain == layout.pending /\ ~layout.queued /\ ~ShuttingDown

Shows(p) == Top.born # 0 /\ ~realized[p]

\* apply_layout: realize or derealize the next pane; realizing may fail.  The
\* end of the pass posts what was put off.
LayoutStep ==
    /\ TopIs("layout")
    /\ IF ShuttingDown \/ Top.todo = {}
       THEN /\ stack' = Caller
            /\ layout' = [layout EXCEPT !.in_progress = FALSE,
                                        !.queued = @ \/ PostAgain]
            /\ posted' = IF PostAgain THEN Append(posted, <<"layout", 0>>) ELSE posted
            /\ interrupted' = (interrupted \/ ShuttingDown)
            /\ UNCHANGED <<loaded, realized>>
       ELSE /\ \E p \in Panes :
                  /\ NextPane(p)
                  /\ stack' = Append(Without(p), Scope)
                  /\ \/ /\ realized' = [realized EXCEPT ![p] = Shows(p)]
                        /\ loaded' = [loaded EXCEPT ![p] = IF Shows(p) THEN Top.born
                                                                       ELSE 0]
                     \/ Shows(p) /\ UNCHANGED <<realized, loaded>>
            /\ UNCHANGED <<layout, posted, interrupted>>
    /\ UNCHANGED <<model, bound, held, shutting>>

-----------------------------------------------------------------------------
(* The close sequence, as its gate.  *)

CloseRequested ==
    /\ Pumping
    /\ ~ShuttingDown
    /\ shutting' = "deferred"
    /\ UNCHANGED <<model, panes, stack, queues, layout, interrupted>>

\* The user keeps PaneDock open after a failed save, or Windows cancels the
\* session end.
CloseWithdrawn ==
    /\ Pumping
    /\ shutting = "deferred"
    /\ shutting' = "no"
    /\ UNCHANGED <<model, panes, stack, queues, layout, interrupted>>

\* destroy_panes, outside any Shell call.
CloseCompleted ==
    /\ Pumping
    /\ shutting = "deferred"
    /\ ~InShell(stack)
    /\ shutting' = "closed"
    /\ realized' = [p \in Panes |-> FALSE]
    /\ loaded' = [p \in Panes |-> 0]
    /\ UNCHANGED <<model, bound, stack, queues, layout, interrupted>>

Closed == shutting = "closed" /\ stack = <<>> /\ UNCHANGED vars

Next ==
    \/ \E m \in Commands : UserInput(m)
    \/ PostedArrives \/ Resize \/ ShellCall \/ ScopeReturns
    \/ \E c \in MenuCommands \cup {"cancelled"} : MenuReturns(c)
    \/ \E yes \in BOOLEAN : BoxAnswered(yes)
    \/ TransitionStep \/ NavigateStep \/ LayoutStep
    \/ CloseRequested \/ CloseWithdrawn \/ CloseCompleted \/ Closed

Spec == Init /\ [][Next]_vars

-----------------------------------------------------------------------------
(* Properties.  *)

\* The panes never borrow the PaneState of a Group that is gone.
BoundPanesLive ==
  /\ TypeOK
  /\ \A p \in Panes : bound[p] # 0 =>
        \E i \in DOMAIN groups : groups[i].born = bound[p]

\* "Nothing can grow or shrink the groups vector inside this pass": whatever is
\* pumped by the calls of a layout pass or of a navigation, the Group they
\* hold a reference to stays the active one.
PassStaysOnActive ==
    \A i \in DOMAIN stack :
        stack[i].kind \in {"layout", "navigate"} => stack[i].born = ActiveBorn

\* Between commands, every pane is bound to the active Group, shows its active
\* tab if it shows anything, and no hidden pane keeps a live list; unless a
\* close that was withdrawn has cut a transition or a pass short.
PanesFollowActive ==
    ~ShuttingDown /\ ~interrupted
      /\ ~OnStack(stack, {"transition", "navigate", "layout"}) =>
        /\ bound = BoundTo(groups, active)
        /\ \A p \in Panes : realized[p] =>
              p \in Visible(groups, active) /\ loaded[p] = ActiveBorn

\* A Group is deleted only by the answer to a box that asked about its id, and
\* as long as the Group whose row was clicked is there, whatever the box has
\* replayed meanwhile, it is that one.  (A Group created inside the box can get
\* the id of a chosen Group that was deleted inside the box.)
DeletesChosenGroup ==
    [][\A i \in DOMAIN groups :
         (\A j \in DOMAIN groups' : groups'[j].born # groups[i].born) =>
            /\ TopIs("box") /\ Top.id = groups[i].id
            /\ \A j \in DOMAIN groups : groups[j].born = Top.born => j = i]_vars

\* Interactions are held only as long as a Shell call pumps: the outermost one
\* never leaves without handing them over.
HeldOnlyInShell == held # <<>> => InShell(stack)

\* A nested layout request is posted by the end of the pass it arrived in and
\* is in the queue then; unless a close was in the way.
NestedLayoutPosted ==
    /\ ~interrupted =>
         (layout.pending => layout.in_progress \/ layout.queued)
    /\ ~interrupted =>
         (layout.queued => Contains(posted, <<"layout", 0>>))

\* Whatever is pumped by a transition, a navigation or a layout pass, they and
\* the panes stay with the active Group, and what is held back or asked for
\* inside is handed over at its end.
PassAndPanesAgree ==
    PassStaysOnActive /\ PanesFollowActive /\ HeldOnlyInShell /\ NestedLayoutPosted

\* "LayoutPassScope merges a nested geometry request into layout_pending; the
\* completed outer pass posts one kDeferredLayoutMessage" (PD-155): while
\* nothing is closing, a pass that ends with a pending request leaves that
\* message in the queue.
PassPostsPending ==
    [][TopIs("layout") /\ stack' = Caller /\ layout.pending /\ ~ShuttingDown
         => Contains(posted', <<"layout", 0>>)]_vars
=============================================================================
