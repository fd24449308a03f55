----------------------------- MODULE ListRename ------------------------------
(***************************************************************************)
(* The edits and file commands of a list (pane_list_rename.cpp, the        *)
(* commands of file_operations.cpp and their bracket in main.cpp): an F2   *)
(* edit that stays on its row while notifications reorder the rows, that   *)
(* is committed by Enter or by a message posted when it loses the focus,   *)
(* and whose Shell operation pumps messages before and after it takes      *)
(* effect; folders created with Ctrl+Shift+N, which are marked, gathered   *)
(* at the end in the order of their creation and edited once their rows    *)
(* arrive; and what a command's result does to rows that its own change    *)
(* notification updates as well.                                           *)
(*                                                                         *)
(* A name stands for the item and for what is typed.  ListWatch has the    *)
(* watch in detail; here it reports in order, may report only that it lost *)
(* changes, and its worker looks the names up when it delivers.  Rows are  *)
(* sorted by name.  A close of the window and the restoring of the focus   *)
(* after a rename are left out.                                            *)
(***************************************************************************)
EXTENDS Integers, Sequences, SequencesExt, FiniteSetsExt

CONSTANTS
  LastName,        \* the names are 1 .. LastName
  Given,           \* the names the Shell gives to new folders
  Page,            \* the rows the list has room for
  SetupCalls,      \* the Shell calls before PerformOperations
  MaxPending,      \* kMaxPendingNewItems
  QueuedBatches,   \* kQueuedBatches
  MaxCommands,     \* the commands and edits that are begun
  MaxEvents        \* the changes, overflows, clicks, Refreshes, ...

ASSUME NamesAssumption == LastName \in Nat \ {0} /\ Given \subseteq 1 .. LastName
ASSUME LimitsAssumption == /\ {Page, SetupCalls, MaxPending, QueuedBatches} \subseteq Nat \ {0}
                           /\ {MaxCommands, MaxEvents} \subseteq Nat

VARIABLES
  disk,    \* the names in the folder
  watch,   \* what the kernel has recorded, whether the folder is being read, and the batches
  pane,    \* its rows, view, edit, new folders, and the number outdated by a click
  call,    \* the file operation that is running
  window,  \* whether this pane is the active one, and PaneDock the foreground application
  bounds   \* how many commands and other events there were

vars == <<disk, watch, pane, call, window, bounds>>

Names == 1 .. LastName

\* An edit of the row of an item, so many rows below the top, with the text in it.
NoEdit == [id |-> 0, offset |-> 0, text |-> 0]

\* A text that was typed for an item (list_rename_focus_commit_).
NoText == [for |-> 0, text |-> 0]

NoView == [selected |-> {}, anchor |-> 0, top |-> 1]

NoCall == [kind |-> "none", generation |-> 0, targets |-> {}, typed |-> NoText, mark |-> 0,
           view |-> NoView, step |-> 0, result |-> 0]

Ids(rows) == {rows[i].id : i \in DOMAIN rows}

IndexOf(rows, id) == IF id \in Ids(rows) THEN CHOOSE i \in DOMAIN rows : rows[i].id = id ELSE 0

\* new_folder_order first, the name among rows without one.
Before(a, b) == a.mark < b.mark \/ (a.mark = b.mark /\ a.id < b.id)

\* A set of rows in this order.
Sorted(rows) ==
  [i \in 1 .. Cardinality(rows) |->
     CHOOSE row \in rows : Cardinality({other \in rows : Before(other, row)}) = i - 1]

Unmarked(ids) == [id : ids, mark : {0}]

Init ==
  /\ disk = Names \ Given
  /\ watch = [records |-> <<>>, reading |-> FALSE, queue |-> <<>>]
  /\ pane = [rows |-> Sorted(Unmarked(disk)), mode |-> "complete", top |-> 1, selected |-> {1} \cap disk,
             edit |-> NoEdit, typed |-> NoText, posted |-> FALSE, busy |-> FALSE, focus |-> "list",
             pending |-> {}, sequence |-> 0, outdated |-> 0, generation |-> 0]
  /\ call = NoCall
  /\ window = [pane |-> TRUE, front |-> TRUE]
  /\ bounds = [commands |-> 0, events |-> 0]

Spend(what, most) == bounds[what] < most /\ bounds' = [bounds EXCEPT ![what] = @ + 1]

-----------------------------------------------------------------------------
(* The edit and the view. *)

\* Mutant of Forgotten: the text survives the edit it was typed in.
Remembered(p) == p

Forgotten(p) == [p EXCEPT !.typed = NoText]

\* cancel_list_rename
Cancelled(p) ==
  Forgotten([p EXCEPT !.edit = NoEdit, !.focus = IF @ = "edit" THEN "list" ELSE @])

\* capture_managed_list_interaction
View(p) ==
  [selected |-> p.selected, top |-> p.top,
   anchor |-> IF p.top \in DOMAIN p.rows THEN p.rows[p.top].id ELSE 0]

\* What a name has become after the k-th of some renames, each an old and a new name.
FinalName(name, renamed, k) ==
  LET Name[j \in 0 .. Len(renamed)] ==
        IF j = 0 THEN name
        ELSE IF j > k /\ renamed[j][1] = Name[j - 1] THEN renamed[j][2] ELSE Name[j - 1]
  IN Name[Len(renamed)]

\* Renames take the view along.
Renamed(view, renamed) ==
  [view EXCEPT !.selected = {FinalName(id, renamed, 0) : id \in @},
               !.anchor = FinalName(@, renamed, 0)]

LastTop(p) == Max({1, Len(p.rows) - Page + 1})

\* ListView_EnsureVisible
Visible(p, i) ==
  [p EXCEPT !.top = CASE i < @ -> i [] i >= @ + Page -> i - Page + 1 [] OTHER -> @]

\* restore_managed_list_interaction: the anchor is put back to the top of the
\* view.  LVM_SCROLL, which only a row further down needs, cancels an edit.
Restored(p, view) ==
  LET at == IndexOf(p.rows, view.anchor)
      row == IF view.anchor = 0 THEN 0 ELSE IF at # 0 THEN at ELSE Min({view.top, Len(p.rows)})
      shown == [p EXCEPT !.selected = view.selected \cap Ids(p.rows), !.top = Min({@, LastTop(p)})]
      put == [shown EXCEPT !.top = IF row = 0 THEN @ ELSE Min({row, LastTop(p)})]
      scrolled == row <= LastTop(p) /\ Visible(shown, row).top # row
  IN IF row # 0 /\ scrolled THEN Cancelled(put) ELSE put

\* Mutant of Kept: the edit follows its row out of view.
KeptOutOfView(p) ==
  LET i == IndexOf(p.rows, p.edit.id)
  IN IF p.edit = NoEdit THEN p
     ELSE IF i = 0 THEN Cancelled(p)
     ELSE [p EXCEPT !.edit.offset = i - p.top]

\* keep_list_rename_in_place
Kept(p) ==
  LET i == IndexOf(p.rows, p.edit.id)
  IN IF p.edit = NoEdit THEN p
     ELSE IF i = 0 \/ i < p.top \/ i >= p.top + Page THEN Cancelled(p)
     ELSE [p EXCEPT !.edit.offset = i - p.top]

\* A Refresh or the watch is replacing the rows, to which indices are held.
Frozen(p) == p.mode \in {"updating", "recovering"}

\* begin_list_rename
Begun(p) ==
  IF p.busy \/ p.edit # NoEdit \/ p.mode # "complete" \/ Cardinality(p.selected) # 1 THEN p
  ELSE LET id == CHOOSE s \in p.selected : TRUE
           i == IndexOf(p.rows, id)
           shown == Visible(p, i)
       IN Forgotten([shown EXCEPT !.edit = [id |-> id, offset |-> i - shown.top, text |-> id],
                                  !.focus = "edit"])

-----------------------------------------------------------------------------
(* New folders: their rows, when they arrive, are gathered at the end. *)

\* Mutant of Marked: it goes to the end, whatever is there.
MarkedLast(rows, item) ==
  LET i == IndexOf(rows, item.leaf)
  IN Append(RemoveAt(rows, i), [rows[i] EXCEPT !.mark = item.order])

\* The row moves in front of the first one created after it.
Marked(rows, item) ==
  LET i == IndexOf(rows, item.leaf)
      rest == RemoveAt(rows, i)
      later == {j \in DOMAIN rest : rest[j].mark > item.order}
  IN InsertAt(rest, IF later = {} THEN Len(rest) + 1 ELSE Min(later), [rows[i] EXCEPT !.mark = item.order])

\* Those that came, one after the other as they were created.
AllMarked(rows, came, last) ==
  LET After[k \in 0 .. last] ==
        IF k = 0 THEN rows
        ELSE LET created == {item \in came : item.order = k}
             IN IF created = {} THEN After[k - 1]
                ELSE Marked(After[k - 1], CHOOSE item \in created : TRUE)
  IN After[last]

\* rename_pending_new_item: the latest of them is selected and edited.
Gathered(p) ==
  LET came == {item \in p.pending : item.leaf \in Ids(p.rows)}
      rows == AllMarked(p.rows, came, p.sequence)
      put == Kept(Restored([p EXCEPT !.rows = rows, !.pending = @ \ came], View(p)))
      latest == {i \in DOMAIN rows : rows[i].mark = p.sequence}
  IN IF Frozen(p) \/ came = {} THEN p
     ELSE IF \A item \in came : item.order # p.sequence THEN put
     ELSE Begun(Visible([Cancelled(put) EXCEPT !.selected = {rows[Min(latest)].id}], Min(latest)))

-----------------------------------------------------------------------------
(* Batches. *)

\* The renames that hand a mark to a name: the first that takes the row away
\* gives its mark to the name the item ends with.
Handing(rows, renamed, name) ==
  {k \in DOMAIN renamed :
     /\ \E row \in rows : row.id = renamed[k][1] /\ row.mark # 0
     /\ \A j \in 1 .. k - 1 : renamed[j][1] # renamed[k][1]
     /\ FinalName(renamed[k][2], renamed, k) = name}

\* The last of them counts.
Handed(rows, renamed, name) ==
  LET from == Handing(rows, renamed, name)
  IN IF from = {} THEN 0 ELSE (CHOOSE row \in rows : row.id = renamed[Max(from)][1]).mark

\* The rows a delta leaves.
Remaining(rows, b) ==
  {row \in rows : row.id \notin b.removed /\ \A k \in DOMAIN b.renamed : row.id # b.renamed[k][1]}

\* What a delta puts beside them: an updated row keeps its mark, if it is higher.
Arrived(rows, left, b) ==
  {[id |-> name, mark |-> Max({Handed(rows, b.renamed, name)} \cup
                              {row.mark : row \in {r \in left : r.id = name}})] : name \in b.names}

\* Mutant of Delta: a rename leaves the row of the old name.
DeltaBesideOld(rows, b) ==
  LET left == {row \in Range(rows) : row.id \notin b.removed \/ \E k \in DOMAIN b.renamed : row.id = b.renamed[k][1]}
  IN Sorted({row \in left : row.id \notin b.names} \cup Arrived(Range(rows), left, b))

\* RowStore::apply of a delta, and the sort after it.
Delta(rows, b) ==
  LET left == Remaining(Range(rows), b)
  IN Sorted({row \in left : row.id \notin b.names} \cup Arrived(Range(rows), left, b))

\* A listing or a rescan: what was not seen goes, what is new is appended.
Reconciled(rows, names) ==
  Sorted({row \in Range(rows) : row.id \in names} \cup Unmarked(names \ Ids(rows)))

\* One batch of process_content_results, in apply_list_changes and before it.
Consumed(s, b) ==
  LET view == IF s.changed THEN s.view ELSE View(s.pane)
  IN CASE b.kind = "begin" -> [s EXCEPT !.pane.mode = "recovering"]
       [] b.kind = "delta" -> [pane |-> [s.pane EXCEPT !.rows = Delta(@, b)],
                               changed |-> TRUE, view |-> Renamed(view, b.renamed)]
       [] b.kind = "rows" -> [pane |-> [s.pane EXCEPT !.rows = Reconciled(@, b.names), !.mode = "complete"],
                              changed |-> TRUE, view |-> view]

AllConsumed(p, batches) ==
  LET After[k \in 0 .. Len(batches)] ==
        IF k = 0 THEN [pane |-> p, changed |-> FALSE, view |-> NoView]
        ELSE Consumed(After[k - 1], batches[k])
  IN After[Len(batches)]

\* process_content_results
Dispatched(p, batches) ==
  LET s == AllConsumed(p, batches)
  IN IF s.changed THEN Gathered(Kept(Restored(s.pane, s.view))) ELSE Kept(s.pane)

Dispatch ==
  /\ call = NoCall /\ watch.queue # <<>>
  /\ pane' = Dispatched(pane, watch.queue)
  /\ watch' = [watch EXCEPT !.queue = <<>>]
  /\ UNCHANGED <<disk, call, window, bounds>>

-----------------------------------------------------------------------------
(* The folder and its watch. *)

\* Another program creates, deletes, renames or touches an item.
Change(old, new) ==
  /\ Spend("events", MaxEvents)
  /\ old # 0 \/ new # 0
  /\ old # 0 => old \in disk
  /\ new \notin disk \ {old}
  /\ disk' = (disk \ {old}) \cup ({new} \ {0})
  /\ watch' = [watch EXCEPT !.records = Append(@, <<old, new>>)]
  /\ UNCHANGED <<pane, call, window>>

Room == Len(watch.queue) < QueuedBatches

Renames(records) ==
  LET First[k \in 0 .. Len(records)] ==
        IF k = 0 THEN <<>>
        ELSE IF records[k][1] # records[k][2] /\ records[k][1] # 0 /\ records[k][2] # 0
        THEN Append(First[k - 1], records[k])
        ELSE First[k - 1]
  IN First[Len(records)]

Notify ==
  /\ ~watch.reading /\ watch.records # <<>> /\ Room
  /\ LET touched == ({watch.records[i][1] : i \in DOMAIN watch.records} \cup
                     {watch.records[i][2] : i \in DOMAIN watch.records}) \ {0}
     IN watch' = [watch EXCEPT !.records = <<>>,
                    !.queue = Append(@, [kind |-> "delta", names |-> touched \cap disk,
                                         removed |-> touched \ disk, renamed |-> Renames(watch.records)])]
  /\ UNCHANGED <<disk, pane, call, window, bounds>>

\* The records were too many: the folder is read again.
Overflow ==
  /\ ~watch.reading /\ watch.records # <<>> /\ Room
  /\ Spend("events", MaxEvents)
  /\ watch' = [watch EXCEPT !.records = <<>>, !.reading = TRUE, !.queue = Append(@, [kind |-> "begin"])]
  /\ UNCHANGED <<disk, pane, call, window>>

Read ==
  /\ watch.reading /\ Room
  /\ watch' = [watch EXCEPT !.reading = FALSE, !.queue = Append(@, [kind |-> "rows", names |-> disk])]
  /\ UNCHANGED <<disk, pane, call, window, bounds>>

-----------------------------------------------------------------------------
(* The file operations: FileCommandContext and its bracket. *)

\* FileCommandContext::current
Current(p, c) == window.pane /\ window.front /\ p.generation = c.generation

\* The merge of a rename's result: the row of the new name takes the place of
\* the old one, and the view goes with it.
Merged(p, c) ==
  LET left == {row \in Range(p.rows) : row.id # c.typed.for}
      marks == {row.mark : row \in {r \in left : r.id = c.result}}
      own == [id |-> c.result, mark |-> Max({c.mark} \cup marks)]
  IN Restored([p EXCEPT !.rows = Sorted({row \in left : row.id # c.result} \cup {own})],
              Renamed(c.view, <<<<c.typed.for, c.result>>>>))

\* The second half of commit_list_rename.  While the rows are being recovered
\* the notification alone brings the new name.
RenameEnded(p, c) ==
  LET q == [p EXCEPT !.busy = FALSE]
  IN IF p.generation # c.generation \/ c.result = 0 \/ Frozen(p) THEN q ELSE Merged(q, c)

\* The second half of create_new_folder.
CreateEnded(p, c) ==
  LET q == [p EXCEPT !.busy = FALSE]
  IN IF p.generation # c.generation \/ c.result = 0 THEN q
     ELSE Gathered([q EXCEPT !.pending = @ \cup {[leaf |-> c.result, order |-> p.sequence + 1]},
                             !.sequence = @ + 1])

Ended(p, c) ==
  CASE c.kind = "rename" -> RenameEnded(p, c)
    [] c.kind = "create" -> CreateEnded(p, c)
    [] OTHER -> p

\* One of the Shell calls that prepare an operation returns.  It may have
\* failed, and whoever asked may have moved on while it pumped (stop,
\* setup_aborted).  After the last one PerformOperations is called.
SetupReturns ==
  /\ call # NoCall /\ call.step > 0
  /\ \/ /\ Current(pane, call)
        /\ call' = [call EXCEPT !.step = @ - 1] /\ UNCHANGED pane
     \/ call' = NoCall /\ pane' = Ended(pane, call)
  /\ UNCHANGED <<disk, watch, window, bounds>>

\* The items an operation takes away and the name it adds, 0 for none.
Effects(c) ==
  CASE c.kind = "rename" -> {<<c.targets, c.typed.text>>}
    [] c.kind = "create" -> IF Given \subseteq disk THEN {} ELSE {<<{}, Min(Given \ disk)>>}
    [] c.kind = "delete" -> {<<c.targets, 0>>}
    [] c.kind = "paste" -> {<<{}, n>> : n \in Names \ disk}

\* record_item: a rename and a creation report the new name, unless it cannot
\* be read (GetDisplayName fails).
Reported(c, new) == {0} \cup IF c.kind \in {"rename", "create"} THEN {new} ELSE {}

\* PerformOperations takes effect, item by item in one step, or is refused: a
\* target is gone, the name is taken, the user cancels.
Perform ==
  /\ call # NoCall /\ call.step = 0
  /\ \/ \E effect \in Effects(call) :
          LET gone == effect[1] new == effect[2]
              deleted == SetToSeq(gone)
              renames == call.kind = "rename"
          IN /\ gone \subseteq disk /\ new \notin disk
             /\ disk' = (disk \ gone) \cup ({new} \ {0})
             /\ watch' = [watch EXCEPT !.records = @ \o
                  IF renames THEN <<<<call.typed.for, new>>>>
                  ELSE IF new # 0 THEN <<<<0, new>>>> ELSE [i \in DOMAIN deleted |-> <<deleted[i], 0>>]]
             /\ \E result \in Reported(call, new) : call' = [call EXCEPT !.step = -1, !.result = result]
     \/ call' = [call EXCEPT !.step = -1] /\ UNCHANGED <<disk, watch>>
  /\ UNCHANGED <<pane, window, bounds>>

\* PerformOperations, which went on pumping, returns.
Returns ==
  /\ call # NoCall /\ call.step < 0
  /\ call' = NoCall /\ pane' = Ended(pane, call)
  /\ UNCHANGED <<disk, watch, window, bounds>>

-----------------------------------------------------------------------------
(* The user. *)

\* Posted messages are retrieved before input.
Input == ~pane.posted /\ window.front

Asking(p, kind) ==
  [NoCall EXCEPT !.kind = kind, !.generation = p.generation, !.step = SetupCalls]

\* commit_list_rename of an edit: an unchanged name ends it, another one is
\* for the Shell, if run_pane_item_operation lets it.
Commit(p, typed) ==
  LET q == Cancelled(p)
      i == IndexOf(q.rows, p.edit.id)
      asks == [Asking(q, "rename") EXCEPT !.targets = {p.edit.id}, !.typed = typed,
                                          !.mark = q.rows[i].mark, !.view = View(q)]
  IN IF call # NoCall \/ i = 0 \/ typed.text = p.edit.id \/ ~Current(q, asks)
     THEN pane' = q /\ UNCHANGED call
     ELSE pane' = [q EXCEPT !.busy = TRUE] /\ call' = asks

Typed == [for |-> pane.edit.id, text |-> pane.edit.text]

Enter ==
  /\ Input /\ pane.focus = "edit"
  /\ Commit(pane, Typed)
  /\ UNCHANGED <<disk, watch, window, bounds>>

\* commit_list_rename_after_focus_loss
CommitPosted ==
  /\ pane.posted
  /\ LET p == Forgotten([pane EXCEPT !.posted = FALSE])
     IN IF pane.typed = NoText \/ pane.edit = NoEdit \/ pane.busy
        THEN pane' = p /\ UNCHANGED call
        ELSE Commit(p, pane.typed)
  /\ UNCHANGED <<disk, watch, window, bounds>>

\* F2
BeginRename ==
  /\ Input /\ window.pane /\ call = NoCall /\ pane.focus = "list"
  /\ Begun(pane) # pane
  /\ Spend("commands", MaxCommands)
  /\ pane' = Begun(pane)
  /\ UNCHANGED <<disk, watch, call, window>>

Type(name) ==
  /\ Input /\ pane.focus = "edit" /\ pane.edit.text = pane.edit.id
  /\ pane' = [pane EXCEPT !.edit.text = name]
  /\ UNCHANGED <<disk, watch, call, window, bounds>>

Escape ==
  /\ Input /\ pane.focus = "edit"
  /\ pane' = Cancelled(pane)
  /\ UNCHANGED <<disk, watch, call, window, bounds>>

\* The focus goes somewhere else.  WM_KILLFOCUS of the edit posts its commit;
\* if it cannot be posted the edit ends.
Left(p, to) ==
  IF p.focus # "edit" THEN {[p EXCEPT !.focus = to]}
  ELSE {[p EXCEPT !.focus = to, !.typed = [for |-> p.edit.id, text |-> p.edit.text], !.posted = TRUE],
        [Cancelled(p) EXCEPT !.focus = to]}

\* To the address bar or the sidebar, to another pane, which becomes the
\* active one (a click is held during a Shell call), to another application.
Leave ==
  /\ Spend("events", MaxEvents)
  /\ pane' \in Left(pane, "elsewhere")
  /\ \/ Input /\ pane.focus # "elsewhere" /\ UNCHANGED window
     \/ Input /\ window.pane /\ call = NoCall /\ window' = [window EXCEPT !.pane = FALSE]
     \/ window.front /\ window' = [window EXCEPT !.front = FALSE]
  /\ UNCHANGED <<disk, watch, call>>

\* A click on a row of the list, perhaps from another pane or application.
Click(row) ==
  /\ ~pane.posted /\ (window.pane \/ call = NoCall)
  /\ Spend("events", MaxEvents)
  /\ window' = [pane |-> TRUE, front |-> TRUE]
  /\ pane' \in {[p EXCEPT !.selected = {p.rows[row].id}] : p \in Left(pane, "list")}
  /\ UNCHANGED <<disk, watch, call>>

\* WM_SETFOCUS of the edit, which may come before the posted commit.
Refocus ==
  /\ pane.edit # NoEdit /\ pane.focus # "edit" /\ window.pane
  /\ pane' = [Forgotten(pane) EXCEPT !.focus = "edit"]
  /\ window' = [window EXCEPT !.front = TRUE]
  /\ UNCHANGED <<disk, watch, call, bounds>>

Scroll(top) ==
  /\ Input /\ top # pane.top
  /\ Spend("events", MaxEvents)
  /\ pane' = [Cancelled(pane) EXCEPT !.top = top]
  /\ UNCHANGED <<disk, watch, call, window>>

\* The new folders are rows like others.
Cleared(rows) == [i \in DOMAIN rows |-> [rows[i] EXCEPT !.mark = 0]]

\* apply_managed_list_sort: a column is clicked, perhaps while a Shell operation
\* pumps.  sort_managed_list_rows leaves rows that are being replaced where they
\* are.  A rename that is running owns a copy of its row and will put back the
\* number in it: outdated is that number (history, the code does not keep it).
Sort ==
  /\ Input
  /\ Spend("events", MaxEvents)
  /\ LET again == call.kind = "rename" /\ call.generation = pane.generation
         p == [Cancelled(pane) EXCEPT !.pending = {}, !.sequence = 0, !.outdated = IF again THEN call.mark ELSE 0,
                 !.rows = IF Frozen(pane) THEN Cleared(@) ELSE Sorted(Unmarked(Ids(@)))]
     IN pane' = Restored(p, View(pane))
  /\ UNCHANGED <<disk, watch, call, window>>

\* start_managed_list: Refresh keeps the rows, unless an earlier one still does,
\* until they are reconciled, as does a return to the folder that finds its list
\* in the cache.
Refresh(kept) ==
  /\ Spend("events", MaxEvents)
  /\ kept => pane.mode \in {"complete", "recovering"}
  /\ LET p == [Cancelled(pane) EXCEPT !.pending = {}, !.sequence = 0, !.outdated = 0, !.generation = @ + 1]
     IN pane' = IF kept
                THEN [p EXCEPT !.mode = "updating", !.rows = Cleared(@)]
                ELSE [p EXCEPT !.mode = "loading", !.rows = <<>>, !.selected = {}, !.top = 1]
  /\ watch' = [records |-> <<>>, reading |-> TRUE, queue |-> <<>>]
  /\ UNCHANGED <<disk, call, window>>

\* create_new_folder
CreateFolder ==
  /\ Input /\ window.pane /\ pane.focus = "list" /\ call = NoCall
  /\ ~pane.busy /\ pane.mode # "loading" /\ Cardinality(pane.pending) < MaxPending
  /\ Spend("commands", MaxCommands)
  /\ pane' = [Cancelled(pane) EXCEPT !.busy = TRUE]
  /\ call' = Asking(pane, "create")
  /\ UNCHANGED <<disk, watch, window>>

\* perform_file_command: Delete of the selected rows, or Paste of one item.
FileCommand(kind) ==
  /\ Input /\ window.pane /\ pane.focus = "list" /\ call = NoCall
  /\ pane.mode # "loading"
  /\ kind = "delete" => pane.selected # {}
  /\ Spend("commands", MaxCommands)
  /\ call' = [Asking(pane, kind) EXCEPT !.targets = IF kind = "delete" THEN pane.selected ELSE {}]
  /\ UNCHANGED <<disk, watch, pane, window>>

Operation == SetupReturns \/ Perform \/ Returns

User ==
  \/ Enter \/ CommitPosted \/ BeginRename \/ Escape \/ Leave \/ Refocus \/ Sort \/ CreateFolder
  \/ \E name \in Names \ {pane.edit.id} : Type(name)
  \/ \E row \in DOMAIN pane.rows : Click(row)
  \/ \E top \in 1 .. LastTop(pane) : Scroll(top)
  \/ \E kept \in BOOLEAN : Refresh(kept)
  \/ \E kind \in {"delete", "paste"} : FileCommand(kind)

Next ==
  \/ Dispatch \/ Notify \/ Overflow \/ Read \/ Operation \/ User
  \/ \E old, new \in 0 .. LastName : Change(old, new)

Spec == Init /\ [][Next]_vars

\* What a dispatch and a step of a Shell call do to watch and call: stated
\* apart, as TLC would evaluate the whole action to see whether it is enabled.
Emptied == call = NoCall /\ watch.queue # <<>> /\ watch' = [watch EXCEPT !.queue = <<>>]

CallMoves ==
  /\ call # NoCall
  /\ call' \in {NoCall} \cup {[call EXCEPT !.step = @ - 1, !.result = r] : r \in 0 .. LastName}

\* The window's thread and the worker go on, and so does a Shell call.
Fairness == WF_watch(Notify) /\ WF_watch(Read) /\ WF_watch(Emptied) /\ WF_call(CallMoves)

FairSpec == Spec /\ Fairness

-----------------------------------------------------------------------------
(* Properties. *)

\* Whatever notifications, merges of a command's result and new folders did to
\* the rows, each item has one, those of the new folders are at the end in the
\* order of their creation, and the others are in the order of the sort, which
\* apply_list_changes' binary search relies on.  No two new folders have the
\* same place, but for the one number that a rename which was running when the
\* column was clicked gives to its row again: see ClickEndsOrder.
NewFoldersStayLast ==
  /\ \A i, j \in DOMAIN pane.rows : i # j => pane.rows[i].id # pane.rows[j].id
  /\ \A i \in DOMAIN pane.rows : pane.rows[i].mark \in 0 .. pane.sequence \cup {pane.outdated}
  /\ ~Frozen(pane) =>
       \A i, j \in DOMAIN pane.rows : i < j =>
         LET a == pane.rows[i] b == pane.rows[j]
         IN \/ a.mark < b.mark
            \/ a.mark = 0 /\ b.mark = 0 /\ a.id < b.id
            \/ a.mark # 0 /\ a.mark = b.mark /\ a.mark = pane.outdated

\* The user sees the row that an open edit is for, and the edit lies on it.
\* No edit is open while an operation that ends with a merge of its own runs.
EditOnItsRow ==
  pane.edit # NoEdit =>
    LET i == IndexOf(pane.rows, pane.edit.id)
    IN /\ ~pane.busy
       /\ i # 0
       /\ pane.edit.offset = i - pane.top
       /\ pane.edit.offset \in 0 .. Page - 1

\* A rename gives an item the name that was typed for that item, whatever was
\* cancelled, begun again or reordered since the commit was posted.
CommitNamesItsItem == call.kind = "rename" => call.targets = {call.typed.for}

\* When all is quiet the rows are the items of the folder: no command's result
\* brings back a row that a notification took away.
EndsAsTheFolder == <>[](Ids(pane.rows) = disk)

\* pane.h says that the loss of the focus commits an edit.  A commit that was
\* posted with a new name, and finds no other call running, asks the Shell.
FocusLossCommits ==
  [][pane.posted /\ ~pane'.posted /\ call = NoCall /\ pane.typed.for # pane.typed.text
       => call'.kind = "rename"]_vars

\* docs/testing.md says that the order of the new folders is cleared by an
\* explicit sort or Refresh: no row has a number that was not given since.
ClickEndsOrder == \A i \in DOMAIN pane.rows : pane.rows[i].mark <= pane.sequence

=============================================================================
