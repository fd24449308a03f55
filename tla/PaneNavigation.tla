--------------------------- MODULE PaneNavigation ---------------------------
(***************************************************************************)
(* One pane on its way from folder to folder                               *)
(* (src/src/app_shell/pane.cpp, pane_managed_list.cpp; the tab histories   *)
(* of src/src/core/model.cpp).                                             *)
(*                                                                         *)
(* The pane shows the active tab of the active Group.  A navigation begins *)
(* with a fresh generation, puts the list into loading, asks the Source    *)
(* and is resolved by an answer much later; the tab's location and history *)
(* change only then.  What the pane meant to do meanwhile is spread over   *)
(* six members, which every way to supersede a navigation has to reset.    *)
(*                                                                         *)
(* The Source is the one of ResultSource, of which only the listing is     *)
(* kept: it answers the request asked last, and a queue of answers not     *)
(* taken yet is the same as answers not given yet.  Two calls pump         *)
(* messages in the middle of an operation: a folder's display name is      *)
(* asked of the Shell for the address bar ("chrome") and for the tab strip *)
(* ("strip").  Input is held back there (GroupCommands); a close, its      *)
(* withdrawal and the posted message of a failed address are not.          *)
(***************************************************************************)
EXTENDS Integers, Sequences

CONSTANTS
  Folders,      \* locations as the Source resolves them
  Aliases,      \* other names, all for Home
  Home,
  Groups,
  Tabs,       \* the tabs of the pane, the same ids in every Group
  MaxGeneration

ASSUME LocationsAssumption == Home \in Folders /\ Folders \cap Aliases = {}
ASSUME BoundsAssumption == MaxGeneration \in Nat /\ Groups # {} /\ Tabs # {}

Locations == Folders \cup Aliases

\* A listing reports the canonical name (resolved_location).
Resolved(l) == IF l \in Aliases THEN Home ELSE l

VARIABLES
  tabs,             \* tabs[g][t]: location, history, history_index of a tab
  active_tab,       \* active_tab[g]
  active_group,     \* the active Group, whose PaneState the pane borrows
  pending,          \* pending_navigation_: [generation, group, tab]
  list,             \* list_: its request and phase
  nav_pending,      \* list_navigation_pending_
  target,           \* list_history_target_, 0 for none
  retry,            \* list_retry_history_target_, 0 for none
  typed,            \* the generation in typed_address_, 0 for none
  failed,           \* the generation in failed_address_, 0 for none
  source,           \* what the Source still owes: "none", "asked", "listing", "over"
  at,               \* where the UI thread is
  shutting,         \* is_shutting_down
  intent,           \* what the navigation is for (history variable)
  cut               \* whether a close broke into the navigation (history variable)

model == <<tabs, active_tab, active_group>>
members == <<pending, list, nav_pending, target, retry, typed>>
navigation_vars == <<model, members, failed, source, at, shutting, intent, cut>>

\* complete, empty and limited are all "shown".
Phases == {"idle", "loading", "shown", "error", "limited"}

Binding == [generation : 0 .. MaxGeneration, group : Groups, tab : Tabs]

\* The entry a navigation is to end on, and whether it only shows again what
\* the tab names already.  A plain navigation has neither.
Plain == [slot |-> 0, same |-> FALSE]

NoList == [binding |-> [generation |-> 0, group |-> CHOOSE g \in Groups : TRUE,
                        tab |-> CHOOSE t \in Tabs : TRUE],
           location |-> Home, phase |-> "idle", resolved |-> FALSE]

TabState == [location : Locations, history : Seq(Locations), index : Nat]

NavigationTypeOK ==
  /\ tabs \in [Groups -> [Tabs -> TabState]]
  /\ active_tab \in [Groups -> Tabs] /\ active_group \in Groups
  /\ pending \in Binding
  /\ list \in [binding : Binding, location : Locations, phase : Phases, resolved : BOOLEAN]
  /\ nav_pending \in BOOLEAN /\ shutting \in BOOLEAN /\ cut \in BOOLEAN
  /\ target \in Nat /\ retry \in Nat
  /\ typed \in 0 .. MaxGeneration /\ failed \in 0 .. MaxGeneration
  /\ source \in {"none", "asked", "listing", "over"}
  /\ at \in {"loop", "chrome", "strip", "strip, listed", "rebind"}
  /\ intent \in [slot : Nat, same : BOOLEAN]

Tab == tabs[active_group][active_tab[active_group]]

NavigationInit ==
  /\ \E l \in {Home} \cup Aliases :
       tabs = [g \in Groups |-> [t \in Tabs |-> [location |-> l, history |-> <<>>, index |-> 0]]]
  /\ active_tab = [g \in Groups |-> NoList.binding.tab]
  /\ active_group = NoList.binding.group
  /\ pending = NoList.binding
  /\ list = NoList
  /\ nav_pending = FALSE /\ target = 0 /\ retry = 0
  /\ typed = 0 /\ failed = 0 /\ source = "none" /\ at = "loop"
  /\ shutting = FALSE /\ intent = Plain /\ cut = FALSE

-----------------------------------------------------------------------------
(* The tab's history (model.cpp).  history_index counts from 1 here. *)

\* Mutant of Kept: what lies ahead stays.
KeptAhead(tab) == IF tab.history = <<>> THEN <<tab.location>> ELSE tab.history

Kept(tab) ==
  IF tab.history = <<>> THEN <<tab.location>> ELSE SubSeq(tab.history, 1, tab.index)

record_navigation(tab, l) ==
  IF l = tab.location THEN tab
  ELSE [location |-> l, history |-> Append(Kept(tab), l), index |-> Len(Kept(tab)) + 1]

\* history_step_target: 0 when there is no such entry.
history_step_target(tab, from_target, back) ==
  LET from == IF from_target \in DOMAIN tab.history THEN from_target ELSE tab.index
      to == IF back THEN from - 1 ELSE from + 1
  IN IF {from, to} \subseteq DOMAIN tab.history THEN to ELSE 0

\* The entry the tab is on gets the canonical name.  The flag for it,
\* suppress_history_record_, is set and taken back inside one completion.
Renamed(tab, l) ==
  [tab EXCEPT !.location = l,
              !.history = IF tab.index \in DOMAIN @ THEN [@ EXCEPT ![tab.index] = l] ELSE @]

\* restore_tab_history_index
Landed(tab, slot) == [tab EXCEPT !.index = slot, !.location = tab.history[slot]]

-----------------------------------------------------------------------------

Matches(binding) ==
  binding = [generation |-> pending.generation, group |-> active_group, tab |-> active_tab[active_group]]

\* content_request_is_current
Current(binding) == ~shutting /\ Matches(binding)

\* Mutant of Aimed: the target of an older Back or Forward lives on.
AimedStill(slot) == IF slot # 0 THEN slot ELSE target

\* begin_navigation forgets it.
Aimed(slot) == slot

\* Whose typed address it is.
TypedBy(generation, is_typed) == IF is_typed THEN generation ELSE 0

\* begin_navigation, and start_managed_list up to its pump, in tab t of Group g.
Begin(g, t, l, slot, is_typed) ==
  LET b == [generation |-> pending.generation + 1, group |-> g, tab |-> t] IN
  /\ pending.generation < MaxGeneration
  /\ pending' = b
  /\ target' = Aimed(slot)
  /\ retry' = 0
  /\ typed' = TypedBy(b.generation, is_typed)
  /\ list' = [binding |-> b, location |-> l, phase |-> "loading", resolved |-> FALSE]
  /\ nav_pending' = TRUE
  /\ source' = "none"
  /\ at' = "chrome"
  /\ cut' = FALSE

BeginHere(l, slot, is_typed) == Begin(active_group, active_tab[active_group], l, slot, is_typed)

PlainTo(l, tab) == [slot |-> 0, same |-> l = tab.location]

Input == at = "loop" /\ ~shutting

-----------------------------------------------------------------------------
(* What the user does. *)

\* A folder is opened, or its address typed and submitted.
NavigateTo(l, is_typed) ==
  /\ Input
  /\ BeginHere(l, 0, is_typed)
  /\ intent' = PlainTo(l, Tab)
  /\ UNCHANGED <<model, failed, shutting>>

NavigateHistory(back) ==
  LET slot == history_step_target(Tab, target, back) IN
  /\ Input
  /\ slot # 0
  /\ BeginHere(Tab.history[slot], slot, FALSE)
  /\ intent' = [slot |-> slot, same |-> FALSE]
  /\ UNCHANGED <<model, failed, shutting>>

Shown(l) == IF l.resolved THEN Resolved(l.location) ELSE l.location

\* Mutant of RetryTarget: what a failed Back or Forward left is not used.
RetryTargetForgotten == target

RetryTarget == IF retry # 0 THEN retry ELSE target

\* Refresh asks again for what the list was to show, and means the same by it.
RefreshView ==
  LET l == IF list.phase = "idle" THEN Tab.location ELSE Shown(list) IN
  /\ Input
  /\ BeginHere(l, RetryTarget, FALSE)
  /\ intent' = IF list.resolved \/ list.phase = "idle" THEN PlainTo(l, Tab) ELSE intent
  /\ UNCHANGED <<model, failed, shutting>>

\* Mutant of SwitchTab: a tab on the folder shown already takes the list over.
SwitchTabInPlace(t) ==
  IF list.resolved /\ tabs[active_group][t].location = Tab.location
  THEN /\ Input
       /\ active_tab' = [active_tab EXCEPT ![active_group] = t]
       /\ UNCHANGED <<tabs, active_group, members, failed, source, at, shutting, intent, cut>>
  ELSE /\ Input
       /\ t # active_tab[active_group]
       /\ active_tab' = [active_tab EXCEPT ![active_group] = t]
       /\ Begin(active_group, t, tabs[active_group][t].location, 0, FALSE)
       /\ intent' = PlainTo(list'.location, tabs[active_group][t])
       /\ UNCHANGED <<tabs, active_group, failed, shutting>>

SwitchTab(t) ==
  /\ Input
  /\ t # active_tab[active_group]
  /\ active_tab' = [active_tab EXCEPT ![active_group] = t]
  /\ Begin(active_group, t, tabs[active_group][t].location, 0, FALSE)
  /\ intent' = PlainTo(list'.location, tabs[active_group][t])
  /\ UNCHANGED <<tabs, active_group, failed, shutting>>

\* bind() to the new Group's PaneState empties the list.  The navigation
\* follows, after whatever the other panes of the window pump.
SwitchGroup(g) ==
  /\ Input
  /\ g # active_group
  /\ active_group' = g
  /\ list' = NoList
  /\ nav_pending' = FALSE /\ target' = 0 /\ retry' = 0
  /\ source' = "none"
  /\ at' = "rebind"
  /\ cut' = FALSE
  /\ UNCHANGED <<tabs, active_tab, pending, typed, failed, shutting, intent>>

Rebind ==
  /\ at = "rebind"
  /\ \/ /\ shutting
        /\ at' = "loop"
        /\ UNCHANGED <<members, source, intent, cut>>
     \/ /\ ~shutting
        /\ BeginHere(Tab.location, 0, FALSE)
        /\ intent' = PlainTo(Tab.location, Tab)
  /\ UNCHANGED <<model, failed, shutting>>

-----------------------------------------------------------------------------
(* The rest of start_managed_list, and the answers. *)

\* resolve_list_navigation(false) and navigation_failed.
Failed ==
  /\ nav_pending' = FALSE
  /\ retry' = target
  /\ target' = 0
  /\ IF typed = list.binding.generation
     THEN failed' = typed /\ typed' = 0
     ELSE UNCHANGED <<failed, typed>>

\* Mutant of Chrome: a refused request is left as it is.
ChromeUnnoticed ==
  /\ at = "chrome"
  /\ at' = "loop"
  /\ source' \in {"none", "asked"}
  /\ cut' = ~Current(list.binding)
  /\ UNCHANGED <<model, members, failed, shutting, intent>>

\* The Source takes the request, or has no slot for it.
Chrome ==
  /\ at = "chrome"
  /\ at' = "loop"
  /\ \/ /\ ~Current(list.binding)
        /\ cut' = TRUE
        /\ UNCHANGED <<members, failed, source>>
     \/ /\ Current(list.binding)
        /\ source' = "asked"
        /\ UNCHANGED <<members, failed, cut>>
     \/ /\ Current(list.binding)
        /\ list' = [list EXCEPT !.phase = "error"]
        /\ Failed
        /\ UNCHANGED <<pending, source, cut>>
  /\ UNCHANGED <<model, shutting, intent>>

Completed(tab) ==
  IF target # 0 THEN Renamed(Landed(tab, target), Resolved(list.location))
  ELSE IF tab.location = list.location THEN Renamed(tab, Resolved(list.location))
  ELSE record_navigation(tab, Resolved(list.location))

\* Rows, or the end of an empty listing, for a navigation nobody has resolved:
\* resolve_list_navigation(true) and navigation_complete up to its pump.
FirstRows(listed) ==
  /\ at = "loop" /\ ~shutting
  /\ source = "asked"
  /\ nav_pending' = FALSE /\ target' = 0 /\ typed' = 0
  /\ list' = [list EXCEPT !.resolved = TRUE]
  /\ tabs' = [tabs EXCEPT ![active_group][active_tab[active_group]] = Completed(@)]
  /\ source' = IF listed THEN "over" ELSE "listing"
  /\ at' = IF listed THEN "strip, listed" ELSE "strip"
  /\ UNCHANGED <<active_tab, active_group, pending, retry, failed, shutting, intent, cut>>

\* Back from the tab strip the batch is applied, unless a close began there:
\* then it is gone.
Strip ==
  /\ at \in {"strip", "strip, listed"}
  /\ at' = "loop"
  /\ \/ /\ Current(list.binding)
        /\ list' = [list EXCEPT !.phase = IF at = "strip, listed" THEN "shown" ELSE @]
        /\ UNCHANGED cut
     \/ /\ ~Current(list.binding)
        /\ cut' = TRUE
        /\ UNCHANGED list
  /\ UNCHANGED <<model, pending, nav_pending, target, retry, typed, failed, source, shutting, intent>>

\* The end of a listing whose first rows are in.
Listed ==
  /\ at = "loop" /\ ~shutting
  /\ source = "listing"
  /\ source' = "over"
  /\ list' = [list EXCEPT !.phase = "shown"]
  /\ UNCHANGED <<model, pending, nav_pending, target, retry, typed, failed, at, shutting, intent, cut>>

\* An error, or too much to hold, before or after the first rows.
ListingFailed ==
  /\ at = "loop" /\ ~shutting
  /\ source \in {"asked", "listing"}
  /\ source' = "none"
  /\ \E phase \in {"error", "limited"} : list' = [list EXCEPT !.phase = phase]
  /\ IF nav_pending THEN Failed ELSE UNCHANGED <<nav_pending, target, retry, typed, failed>>
  /\ UNCHANGED <<model, pending, at, shutting, intent, cut>>

\* An answer while shutting down: the Source is cancelled and a list that was
\* still loading says so.
AnswerWhileShutting ==
  /\ at = "loop" /\ shutting
  /\ source # "none"
  /\ source' = "none"
  /\ list' = IF list.phase = "loading" THEN [list EXCEPT !.phase = "error"] ELSE list
  /\ cut' = TRUE
  /\ UNCHANGED <<model, pending, nav_pending, target, retry, typed, failed, at, shutting, intent>>

\* The watched folder is gone: on to its new name or its nearest parent.
LocationLost(l) ==
  /\ Input
  /\ source = "over"
  /\ BeginHere(l, 0, FALSE)
  /\ intent' = PlainTo(l, Tab)
  /\ UNCHANGED <<model, failed, shutting>>

\* kAddressFailedMessage: finish_failed_address goes back to the tab's folder,
\* if nothing newer has begun.  Dispatched by any pump.
AddressFailed ==
  /\ failed # 0
  /\ failed' = 0
  /\ IF /\ ~shutting
        /\ Matches([pending EXCEPT !.generation = failed])
        /\ list.binding.generation = failed /\ list.phase = "error"
        /\ Tab.location # list.location
     THEN BeginHere(Tab.location, 0, FALSE) /\ intent' = PlainTo(Tab.location, Tab)
     ELSE UNCHANGED <<members, source, at, intent, cut>>
  /\ UNCHANGED <<model, shutting>>

\* A close or a session end begins, and is called off: by the user, by a save
\* that failed, by the session (ShutdownCoordinator).
BeginShutdown ==
  /\ ~shutting
  /\ shutting' = TRUE
  /\ UNCHANGED <<model, members, failed, source, at, intent, cut>>

WithdrawShutdown ==
  /\ shutting
  /\ shutting' = FALSE
  /\ UNCHANGED <<model, members, failed, source, at, intent, cut>>

NavigationNext ==
  \/ \E l \in Locations, is_typed \in BOOLEAN : NavigateTo(l, is_typed)
  \/ \E back \in BOOLEAN : NavigateHistory(back)
  \/ RefreshView
  \/ \E t \in Tabs : SwitchTab(t)
  \/ \E g \in Groups : SwitchGroup(g)
  \/ Rebind
  \/ Chrome
  \/ \E listed \in BOOLEAN : FirstRows(listed)
  \/ Strip
  \/ Listed
  \/ ListingFailed
  \/ AnswerWhileShutting
  \/ \E l \in Folders : LocationLost(l)
  \/ AddressFailed
  \/ BeginShutdown
  \/ WithdrawShutdown

NavigationSpec == NavigationInit /\ [][NavigationNext]_navigation_vars

-----------------------------------------------------------------------------

\* A tab is where its history says it is, and a history that exists has a
\* place: Back and Forward read the one, the address bar and the session file
\* the other.
HistoryNamesLocation ==
  \A g \in Groups, t \in Tabs :
    LET tab == tabs[g][t] IN
    tab.history # <<>> =>
      /\ tab.index \in DOMAIN tab.history
      /\ tab.history[tab.index] = tab.location

\* Once the list has something to show, it is the folder of the active tab of
\* the active Group, under the request made for it.
ShownIsTab ==
  /\ NavigationTypeOK
  /\ list.resolved => Matches(list.binding) /\ Tab.location = Resolved(list.location)

\* What is kept for a navigation in flight belongs to that navigation.  The
\* entry aimed at exists, holds what was asked for and, unless a close broke
\* in, is still being loaded; a typed address is that of the newest request.
IntentBelongsToNavigation ==
  /\ \A slot \in {target, retry} \ {0} :
       /\ slot \in DOMAIN Tab.history
       /\ Tab.history[slot] = list.location
  /\ target # 0 /\ ~cut => list.phase = "loading" /\ nav_pending
  /\ typed # 0 => typed = pending.generation
  /\ ~(target # 0 /\ retry # 0)

\* A list that says it is loading is owed an answer, unless a close broke in.
NavigationIsOwed ==
  at = "loop" /\ list.phase = "loading" /\ ~cut => source \in {"asked", "listing"}

\* What the user meant survives the wait.  Back, Forward and their retries end
\* on the entry they aimed at; showing a folder again adds no entry; neither
\* touches another entry.  Anything else leaves the folder it came from one
\* step back and nothing ahead.
CompletionKeepsIntent ==
  [][LET was == Tab
         is == Tab'
         slot == IF intent.slot # 0 THEN intent.slot ELSE was.index
     IN nav_pending /\ list'.resolved /\ list.binding = list'.binding =>
          IF intent.slot # 0 \/ intent.same
          THEN /\ is.index = slot /\ Len(is.history) = Len(was.history)
               /\ \A i \in DOMAIN was.history \ {slot} : is.history[i] = was.history[i]
          ELSE is = was \/ ( /\ is.index = Len(is.history)
                             /\ is.history[is.index - 1] = was.location )]_navigation_vars

\* The history of a tab is what the user did, in the end and at every step.
HistoryKept == []HistoryNamesLocation /\ CompletionKeepsIntent

\* A shutdown can be called off, and then no list is left loading for ever:
\* it either gets its answer or says that it stopped.
LoadingNeverStranded ==
  at = "loop" /\ ~shutting /\ list.phase = "loading" => source \in {"asked", "listing"}

=============================================================================
