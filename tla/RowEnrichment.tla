---------------------------- MODULE RowEnrichment ----------------------------
(***************************************************************************)
(* What a list looks up about the rows it shows after they are there       *)
(* (src/src/app_shell/pane_list_icons.cpp, pane_list_properties.cpp, the   *)
(* second half of src/src/managed_list/list_worker.cpp): icons for the     *)
(* visible rows, shared icons for file types, and the properties a column  *)
(* or a sort needs.  One worker answers one bounded window of requests at  *)
(* a time while rows are replaced, removed and reordered under it; images  *)
(* live in a native list whose slots move when one is evicted; and a sort  *)
(* by a slow property first resolves every row, then merges in steps.      *)
(*                                                                         *)
(* An item on disk has a stamp (its size and time, which a key carries)    *)
(* and a look (what its icon and its properties are): every change gives   *)
(* a new look, an overlay change keeps the stamp.  A row remembers the     *)
(* look it was made from, which the code does not: the properties need it. *)
(*                                                                         *)
(* The serial number of the source is abstracted to whether the request    *)
(* the worker is busy with has the current one (`fresh`).  The viewport    *)
(* number is left out: a request of an older one is not outstanding.       *)
(* Byte budgets count as the refusal of a window of requests.              *)
(***************************************************************************)
EXTENDS Integers, Sequences, SequencesExt, FiniteSetsExt

CONSTANTS
  LastRow,      \* the rows are 1 .. LastRow, in the order of their names
  WindowRows,   \* the rows a window has room for
  Keys,         \* the sort keys: "name", "type", and others that share the last slot
  Interest,     \* kIconInterest
  IconResults,  \* kIconResults
  Capacity,     \* image_capacity
  MergeSteps,   \* the calls of BoundedOrder::step a sort takes
  MaxDisturbances \* how often the disk changes, the user acts, a rescan or a fault comes

ASSUME RowsAssumption == LastRow \in Nat \ {0} /\ WindowRows \in Nat \ {0}
ASSUME KeysAssumption == "name" \in Keys /\ "" \notin Keys
ASSUME LimitsAssumption == /\ Interest \in Nat \ {0} /\ IconResults \in Nat \ {0}
                           /\ Capacity \in Nat \ {0} /\ MergeSteps \in Nat \ {0}

VARIABLES
  disk,    \* disk[id]: the item, its look 0 when it is deleted
  pane,    \* the pane's list, its icon caches and its icon source
  worker,  \* the result the thread of the icon source is busy with, <<>> when none
  turn,    \* flips when the window's thread has handled a message or a batch
  disturbances

vars == <<disk, pane, worker, turn, disturbances>>

Ids == 1 .. LastRow

Turned == turn' = ~turn

Disturbed == disturbances < MaxDisturbances /\ disturbances' = disturbances + 1

Unresolved == [state |-> "unresolved", of |-> "name", look |-> 0]

\* The slot of a property: the type has its own, the others share the sort's.
Slot(property) == IF property = "type" THEN "type" ELSE "sort"

Incoming(id) == [id |-> id, stamp |-> disk[id].stamp, look |-> disk[id].look,
                 properties |-> [type |-> Unresolved, sort |-> Unresolved]]

NoOrder == [order |-> <<>>, steps |-> 0]

\* list_icon_key, and list_type_icon_key: rows of one type share a key.
IconKey(p, row) == [id |-> row.id, stamp |-> row.stamp, size |-> p.size]
TypeKey(p, row) == [id |-> 0 - (row.id % 2), stamp |-> -1, size |-> p.size]

ImageRequest(key) == [property |-> "", key |-> key, row |-> 0]

PropertyRequest(p, index, property) ==
  [property |-> property, key |-> IconKey(p, p.rows[index]), row |-> index]

Init ==
  /\ disk = [id \in Ids |-> [stamp |-> 1, look |-> 1]]
  /\ \E key \in Keys :
       pane = [rows |-> <<>>, phase |-> "loading", watch |-> "inactive", first |-> 1,
               key |-> key, pending |-> key # "name", cursor |-> 0, failed |-> FALSE, order |-> NoOrder,
               interest |-> <<>>, owed |-> {}, tried |-> {}, posted |-> FALSE,
               size |-> 1, wanted |-> 1, cache |-> <<>>, images |-> <<>>,
               queue |-> <<>>, results |-> <<>>, fresh |-> FALSE]
  /\ worker = <<>>
  /\ turn = FALSE /\ disturbances = 0

-----------------------------------------------------------------------------
(* The image cache: entries from the least to the most recently used, each *)
(* with the slot its image has in the native list.                         *)

Cached(cache, key) == \E i \in DOMAIN cache : cache[i].key = key

\* A hit makes an entry the most recently used one.
Used(cache, key) ==
  LET i == CHOOSE j \in DOMAIN cache : cache[j].key = key
  IN Append(RemoveAt(cache, i), cache[i])

\* Mutant of Evicted: the entries keep the slots they had.
EvictedUnrepaired(p, i) ==
  [p EXCEPT !.images = RemoveAt(@, p.cache[i].slot), !.cache = RemoveAt(@, i)]

\* ImageList_Remove moves the images behind it one slot forward; the entries
\* follow.
Evicted(p, i) ==
  LET slot == p.cache[i].slot
      Moved(e) == IF e.slot > slot THEN [e EXCEPT !.slot = @ - 1] ELSE e
      left == RemoveAt(p.cache, i)
  IN [p EXCEPT !.images = RemoveAt(@, slot), !.cache = [j \in DOMAIN left |-> Moved(left[j])]]

Stored(p, key, look) ==
  LET room == IF Len(p.cache) = Capacity THEN Evicted(p, 1) ELSE p
  IN [room EXCEPT !.images = Append(@, [key |-> key, look |-> look]),
                  !.cache = Append(@, [key |-> key, slot |-> Len(room.images) + 1])]

\* One image of the item less, when there is one.
OneForgotten(p, id) ==
  LET of == {i \in DOMAIN p.cache : p.cache[i].key.id = id}
  IN IF of = {} THEN p ELSE Evicted(p, Min(of))

\* forget_list_icons: every image of an item a batch touched is read again.
Forgotten(p, id) ==
  LET After[k \in 0 .. Len(p.cache)] == IF k = 0 THEN p ELSE OneForgotten(After[k - 1], id)
  IN After[Len(p.cache)]

\* ImageList_SetImageCount and icon_cache_.clear, as ensure_list_icon_images does.
Emptied(p) == [p EXCEPT !.cache = <<>>, !.images = <<>>]

-----------------------------------------------------------------------------
(* The pane. *)

\* IconSource::cancel and the first half of replace.
Quiet(p) == [p EXCEPT !.queue = <<>>, !.results = <<>>, !.fresh = FALSE]

\* Mutant of Cancelled: the rows the cursor has passed are not asked for again.
CancelledMidway(p) == [Quiet(p) EXCEPT !.interest = <<>>, !.owed = {}, !.tried = {}, !.order = NoOrder]

\* cancel_list_icons
Cancelled(p) ==
  [Quiet(p) EXCEPT !.interest = <<>>, !.owed = {}, !.tried = {}, !.cursor = 0, !.order = NoOrder]

Posted(p) == [p EXCEPT !.posted = TRUE]

\* 1 .. n with each place behind those that come before it.
Ranked(n, before) ==
  [k \in 1 .. n |-> CHOOSE i \in 1 .. n : Cardinality({j \in 1 .. n : <<j, i>> \in before}) = k - 1]

Reordered(rows, order) ==
  [i \in DOMAIN rows |-> IF i \in DOMAIN order THEN rows[order[i]] ELSE rows[i]]

Places(rows) == (DOMAIN rows) \X (DOMAIN rows)

ByName(rows) == {pair \in Places(rows) : rows[pair[1]].id < rows[pair[2]].id}

\* sort_managed_list_rows: only names are sorted at once.
Sorted(p) ==
  IF p.key = "name" /\ p.watch # "recovering"
  THEN [p EXCEPT !.rows = Reordered(@, Ranked(Len(@), ByName(@)))] ELSE p

\* property_row_less: rows without a value come last, then the name decides.
RowLess(key, a, b) ==
  LET x == a.properties[Slot(key)]
      y == b.properties[Slot(key)]
  IN IF (x.state = "value") # (y.state = "value") THEN x.state = "value"
     ELSE IF x.state = "value" /\ x.look # y.look THEN x.look > y.look
     ELSE a.id < b.id

ByProperty(p) == {pair \in Places(p.rows) : RowLess(p.key, p.rows[pair[1]], p.rows[pair[2]])}

\* BoundedOrder: what start .. the last step compute from the rows they see.
Order(p) == Ranked(Len(p.rows), ByProperty(p))

\* finish_property_batch: the merge goes on, and its last step commits it.
Finished(p) ==
  LET o == IF p.order = NoOrder THEN [order |-> Order(p), steps |-> 1]
           ELSE [p.order EXCEPT !.steps = @ + 1]
  IN IF \/ p.owed # {} \/ ~p.pending
        \/ p.watch = "recovering" \/ p.phase = "loading"
        \/ p.cursor < Len(p.rows) /\ ~p.failed
     THEN p
     ELSE IF Len(o.order) >= 2 /\ o.steps < MergeSteps
     THEN Posted([p EXCEPT !.order = o])
     ELSE Posted(Cancelled([p EXCEPT !.rows = Reordered(@, o.order), !.pending = FALSE]))

\* append_property_requests: a row is asked for once; a full window stops.
Asking(p, property, w, index) ==
  LET request == PropertyRequest(p, index, property)
  IN IF \/ p.rows[index].properties[Slot(property)].state # "unresolved"
        \/ Contains(w.requests, request)
     THEN w
     ELSE IF Len(w.requests) = Interest THEN [w EXCEPT !.full = TRUE]
     ELSE [w EXCEPT !.requests = Append(@, request)]

\* The cursor passes a row once it is asked for, as long as there is room.
AskingNext(p, w, index) ==
  LET asked == Asking(p, p.key, w, index)
  IN IF w.full \/ Len(w.requests) = Interest THEN w
     ELSE IF asked.full THEN asked ELSE [asked EXCEPT !.cursor = index]

AskingType(w, key) ==
  IF Cached(w.cache, key) THEN [w EXCEPT !.cache = Used(@, key)]
  ELSE IF key \in w.tried THEN w
  ELSE IF Len(w.requests) = Interest THEN [w EXCEPT !.full = TRUE]
  ELSE [w EXCEPT !.requests = Append(@, ImageRequest(key)), !.tried = @ \cup {key}]

\* The icon of a visible row is tried once per viewport.
AskingImage(w, key) ==
  IF key \in w.tried THEN w
  ELSE IF Cached(w.cache, key) THEN [w EXCEPT !.cache = Used(@, key)]
  ELSE IF Len(w.requests) = Interest THEN w
  ELSE [w EXCEPT !.requests = Append(@, ImageRequest(key)), !.tried = @ \cup {key}]

\* What one loop asks about one row.
AskingAbout(what, p, w, index) ==
  CASE what = "visible" -> IF w.full THEN w ELSE Asking(p, p.key, w, index)
    [] what = "next" -> AskingNext(p, w, index)
    [] what = "column" -> Asking(p, "type", w, index)
    [] what = "type" -> IF w.full THEN w ELSE AskingType(w, TypeKey(p, p.rows[index]))
    [] what = "image" -> AskingImage(w, IconKey(p, p.rows[index]))

\* One loop over rows; the next one tries again.
Asked(what, p, w, indices) ==
  LET After[k \in 0 .. Len(indices)] ==
        IF k = 0 THEN w ELSE AskingAbout(what, p, After[k - 1], indices[k])
  IN [After[Len(indices)] EXCEPT !.full = FALSE]

\* A sort needs every row: the visible ones first, then a cursor over all.
SortDemand(p, visible, w) ==
  Asked("next", p, Asked("visible", p, w, visible), [i \in 1 .. Len(p.rows) - w.cursor |-> w.cursor + i])

\* append_type_icon_requests: the visible types, then those of the whole folder.
TypeDemand(p, visible, w) == Asked("type", p, w, visible \o [i \in DOMAIN p.rows |-> i])

\* Mutant of ImageDemand: what was tried is asked for again.
ImageDemandAgain(p, visible, w) ==
  FoldLeft(LAMBDA v, i : IF Cached(v.cache, IconKey(p, p.rows[i])) \/ Len(v.requests) = Interest THEN v
                         ELSE [v EXCEPT !.requests = Append(@, ImageRequest(IconKey(p, p.rows[i])))],
           w, visible)

\* The icons of the visible rows themselves.
ImageDemand(p, visible, w) == Asked("image", p, w, visible)

\* The column of the type is shown, so visible rows are asked for theirs.
ColumnDemand(p, visible, w) == IF p.failed THEN w ELSE Asked("column", p, w, visible)

Demand(p, visible) ==
  LET none == [requests |-> <<>>, full |-> FALSE, cursor |-> p.cursor, tried |-> p.tried, cache |-> p.cache]
  IN IF p.pending
     THEN IF p.failed THEN none ELSE SortDemand(p, visible, none)
     ELSE ImageDemand(p, visible, ColumnDemand(p, visible, TypeDemand(p, visible, none)))

\* ensure_list_icon_images and the check of the DPI and the thumbnails before it.
Resized(p) == IF p.size = p.wanted THEN p ELSE [Emptied(Cancelled(p)) EXCEPT !.size = p.wanted]

\* Mutant of Interested: what the old viewport waited for still counts.
InterestedStill(p, visible) ==
  LET interest == [i \in DOMAIN visible |-> IconKey(p, p.rows[visible[i]])]
  IN IF interest = p.interest THEN p
     ELSE [p EXCEPT !.interest = interest, !.tried = {}, !.cursor = 0, !.order = NoOrder]

\* An interest that is not the last one starts over.
Interested(p, visible) ==
  LET interest == [i \in DOMAIN visible |-> IconKey(p, p.rows[visible[i]])]
  IN IF interest = p.interest THEN p
     ELSE [p EXCEPT !.interest = interest, !.owed = {}, !.tried = {}, !.cursor = 0, !.order = NoOrder]

\* request_list_images; `refused` when no worker or no byte budget takes it.
Requested(p, visible, refused) ==
  LET sized == Resized(p)
      q == Interested(sized, visible)
      w == Demand(q, visible)
      r == [q EXCEPT !.cursor = w.cursor, !.tried = w.tried, !.cache = w.cache]
  IN IF q = sized /\ q.owed # {} THEN q
     ELSE IF w.requests = <<>>
     THEN IF r.pending /\ r.phase # "loading" /\ r.cursor >= Len(r.rows) THEN Finished(r)
          ELSE Finished(Quiet(r))
     ELSE IF refused THEN Finished([Quiet(r) EXCEPT !.owed = {}, !.failed = TRUE])
     ELSE [Quiet(r) EXCEPT !.owed = ToSet(w.requests), !.queue = w.requests]

\* refresh_list_icon_viewport: the rows that intersect the client area.
Visible(p) ==
  LET shown == Min({WindowRows, Interest, Len(p.rows) - p.first + 1})
  IN IF shown <= 0 THEN <<>> ELSE [i \in 1 .. shown |-> p.first + i - 1]

\* accept_property_result: the index is a hint, identity and stamp decide.
PropertyAccepted(p, r) ==
  LET slot == Slot(r.request.property)
      row == p.rows[r.request.row]
  IN IF \/ r.request.row > Len(p.rows) \/ r.request.key # IconKey(p, row)
        \/ slot = "sort" /\ r.request.property # p.key
        \/ row.properties[slot].state # "unresolved"
     THEN p
     ELSE [p EXCEPT !.rows[r.request.row].properties[slot] =
             [state |-> IF r.look = 0 THEN "failed" ELSE "value", of |-> r.request.property, look |-> r.look]]

\* An image that could not be read is not tried again until the interest changes.
ImageAccepted(p, r) ==
  IF \/ r.request.key.stamp # -1 /\ ~Contains(p.interest, r.request.key)
     \/ r.look = 0 \/ Cached(p.cache, r.request.key)
  THEN p ELSE Stored(p, r.request.key, r.look)

Accepted(p, r) ==
  LET q == [p EXCEPT !.owed = @ \ {r.request}]
  IN IF r.request \notin p.owed THEN p
     ELSE IF r.request.property # "" THEN PropertyAccepted(q, r) ELSE ImageAccepted(q, r)

AllAccepted(p, answers) ==
  LET After[k \in 0 .. Len(answers)] == IF k = 0 THEN p ELSE Accepted(After[k - 1], answers[k])
  IN After[Len(answers)]

\* process_icon_results
Processed(p) ==
  LET n == Min({IconResults, Len(p.results)})
      q == AllAccepted([p EXCEPT !.results = SubSeq(@, n + 1, Len(@))], SubSeq(p.results, 1, n))
  IN IF q.owed = {} THEN Posted(Finished(q)) ELSE q

-----------------------------------------------------------------------------
(* The worker: an answer is what the item is when it is read. *)

WorkerRead ==
  /\ worker = <<>> /\ pane.queue # <<>>
  /\ \E failing \in BOOLEAN :
       LET request == Head(pane.queue)
           look == IF request.key.stamp = -1 THEN 1 ELSE disk[request.key.id].look
       IN /\ worker' = <<[request |-> request, look |-> IF failing THEN 0 ELSE look]>>
          /\ IF failing THEN Disturbed ELSE UNCHANGED disturbances
  /\ pane' = [pane EXCEPT !.queue = Tail(@), !.fresh = TRUE]
  /\ UNCHANGED <<disk, turn>>

\* An answer of an older serial is dropped; one of this serial waits for room.
WorkerAnswer ==
  /\ worker # <<>>
  /\ pane.fresh => Len(pane.results) < IconResults
  /\ pane' = IF pane.fresh THEN [pane EXCEPT !.results = Append(@, worker[1]), !.fresh = FALSE] ELSE pane
  /\ worker' = <<>>
  /\ UNCHANGED <<disk, turn, disturbances>>

-----------------------------------------------------------------------------
(* The messages of the icon source and of the list window. *)

ViewportMessage ==
  /\ pane.posted
  /\ \E refused \in BOOLEAN :
       /\ pane' = Requested([pane EXCEPT !.posted = FALSE], Visible(pane), refused)
       /\ IF refused THEN Disturbed ELSE UNCHANGED disturbances
  /\ Turned /\ UNCHANGED <<disk, worker>>

ProcessResults ==
  /\ pane.results # <<>>
  /\ pane' = Processed(pane)
  /\ Turned /\ UNCHANGED <<disk, worker, disturbances>>

-----------------------------------------------------------------------------
(* The rows: the end of process_content_results for each kind of batch. *)

RowIds == {pane.rows[i].id : i \in DOMAIN pane.rows}

Present == {id \in Ids : disk[id].look # 0}

\* The rows that stay when those of some items go.
Staying(rows, ids, row) == IF row.id \in ids THEN rows ELSE Append(rows, row)

Without(rows, ids) ==
  LET Left[k \in 0 .. Len(rows)] == IF k = 0 THEN <<>> ELSE Staying(Left[k - 1], ids, rows[k])
  IN Left[Len(rows)]

\* Mutant of Merged: lookups of the old rows go on.
MergedOver(p) == Posted(Finished(Sorted(p)))

\* Changed rows cancel what is looked up about the old ones.
Merged(p) == Posted(Finished(Sorted(Cancelled(p))))

\* The next batch of the first reading, which may be the last one.
AppendRow ==
  /\ pane.phase = "loading" /\ Len(pane.rows) < LastRow
  /\ \E phase \in {"loading", "complete"} :
       pane' = Merged([pane EXCEPT !.rows = Append(@, Incoming(Len(@) + 1)), !.phase = phase])
  /\ Turned /\ UNCHANGED <<disk, worker, disturbances>>

\* A last batch without rows changes no row, so nothing is cancelled.
LastBatch ==
  /\ pane.phase = "loading"
  /\ pane' = Posted(Finished([pane EXCEPT !.phase = "complete"]))
  /\ Turned /\ UNCHANGED <<disk, worker, disturbances>>

\* A change notification: the row goes, and comes back when the item is there.
Delta(id) ==
  /\ pane.phase = "complete" /\ pane.watch # "recovering"
  /\ id \in RowIds /\ \E i \in DOMAIN pane.rows : pane.rows[i].id = id /\ pane.rows[i].look # disk[id].look
  /\ LET left == Without(pane.rows, {id})
         rows == IF id \in Present THEN Append(left, Incoming(id)) ELSE left
     IN pane' = Merged(Forgotten([pane EXCEPT !.rows = rows, !.pending = pane.key # "name"], id))
  /\ Turned /\ UNCHANGED <<disk, worker, disturbances>>

\* A rescan replaces rows in place and cancels nothing until it ends.
BeginRescan ==
  /\ pane.phase = "complete" /\ pane.watch # "recovering" /\ Disturbed
  /\ pane' = Posted(Finished([pane EXCEPT !.watch = "recovering"]))
  /\ Turned /\ UNCHANGED <<disk, worker>>

Rescanned(i) ==
  LET row == pane.rows[i]
      replaced == [pane EXCEPT !.rows[i] = Incoming(row.id)]
  IN IF row.stamp = disk[row.id].stamp THEN pane ELSE Forgotten(replaced, row.id)

RescanRow ==
  /\ pane.watch = "recovering"
  /\ \E i \in DOMAIN pane.rows :
       /\ pane.rows[i].id \in Present /\ pane.rows[i].stamp # disk[pane.rows[i].id].stamp
       /\ pane' = Posted(Finished([Rescanned(i) EXCEPT !.pending = pane.key # "name"]))
  /\ Turned /\ UNCHANGED <<disk, worker, disturbances>>

\* The rows the scan did not meet go.
EndRescan ==
  /\ pane.watch = "recovering"
  /\ LET rows == Without(pane.rows, Ids \ Present)
     IN pane' = Merged([pane EXCEPT !.rows = rows, !.watch = "watching", !.pending = pane.key # "name"])
  /\ Turned /\ UNCHANGED <<disk, worker, disturbances>>

-----------------------------------------------------------------------------
(* The user and the file system. *)

\* A change of content, one of the overlay alone, or a deletion.
Change(id, what) ==
  /\ id \in Present /\ Disturbed
  /\ disk' = [disk EXCEPT ![id] = [stamp |-> IF what = "content" THEN @.stamp + 1 ELSE @.stamp,
                                   look |-> IF what = "deleted" THEN 0 ELSE @.look + 1]]
  /\ UNCHANGED <<pane, worker, turn>>

Commanded(p) ==
  /\ Disturbed
  /\ pane' = p
  /\ UNCHANGED <<disk, worker, turn>>

Scroll(first) == first # pane.first /\ Commanded(Posted([pane EXCEPT !.first = first]))

\* apply_managed_list_sort: another key forgets the values of the last slot.
SortBy(key) ==
  LET Blank(row) == [row EXCEPT !.properties.sort = Unresolved]
      keyed == IF key = pane.key THEN pane
               ELSE [Cancelled(pane) EXCEPT !.key = key, !.failed = FALSE,
                                            !.rows = [i \in DOMAIN @ |-> Blank(@[i])]]
  IN Commanded(Posted(Finished(Sorted([keyed EXCEPT !.pending = key # "name", !.cursor = 0, !.order = NoOrder]))))

\* Another view or another monitor; the images follow with the next viewport.
Resize(size) == size # pane.wanted /\ Commanded(Posted([pane EXCEPT !.wanted = size]))

Content == AppendRow \/ LastBatch \/ (\E id \in Ids : Delta(id)) \/ BeginRescan \/ RescanRow \/ EndRescan

User == \/ \E first \in 1 .. LastRow : Scroll(first)
        \/ \E key \in Keys : SortBy(key)
        \/ \E size \in {1, 2} : Resize(size)

Next ==
  \/ WorkerRead \/ WorkerAnswer \/ ViewportMessage \/ ProcessResults
  \/ Content \/ User
  \/ \E id \in Ids, what \in {"content", "overlay", "deleted"} : Change(id, what)

Spec == Init /\ [][Next]_vars

(***************************************************************************)
(* Fairness: the worker's thread runs and its calls return, and the        *)
(* window's thread does not stop while a message is posted, results wait   *)
(* or a reading or a rescan has not ended.  That is less than fairness of  *)
(* each message; nothing makes a user act or the disk change.              *)
(***************************************************************************)
WorkerReads == worker = <<>> /\ pane.queue # <<>> /\ pane' = [pane EXCEPT !.queue = Tail(@), !.fresh = TRUE]

WorkerAnswers == worker # <<>> /\ (pane.fresh => Len(pane.results) < IconResults) /\ worker' = <<>>

WindowRuns ==
  /\ pane.posted \/ pane.results # <<>> \/ pane.phase = "loading" \/ pane.watch = "recovering"
  /\ Turned

Fairness == WF_pane(WorkerReads) /\ WF_worker(WorkerAnswers) /\ WF_turn(WindowRuns)

FairSpec == Spec /\ Fairness

-----------------------------------------------------------------------------
(* Properties. *)

Value == [state : {"unresolved", "failed", "value"}, of : Keys \cup {"type"}, look : Nat]

\* The bounded collections stay bounded and have the shape they are used in.
TypeOK ==
  /\ \A i \in DOMAIN pane.rows : /\ pane.rows[i].id \in Ids
                                 /\ \A slot \in {"type", "sort"} : pane.rows[i].properties[slot] \in Value
  /\ Len(pane.queue) <= Interest /\ Len(pane.results) <= IconResults
  /\ Len(pane.interest) <= WindowRows /\ Cardinality(pane.owed) <= Interest
  /\ Len(pane.cache) <= Capacity
  /\ pane.cursor \in 0 .. Len(pane.rows)
  /\ Len(worker) <= 1 /\ (pane.fresh => worker # <<>>)

\* Every slot a row is painted from holds the image of its key, whatever was
\* evicted or forgotten before (the slot repair after ImageList_Remove).
SlotsMatchKeys ==
  /\ TypeOK
  /\ Len(pane.images) = Len(pane.cache)
  /\ \A i \in DOMAIN pane.cache : /\ pane.cache[i].slot \in DOMAIN pane.images
                                  /\ pane.images[pane.cache[i].slot].key = pane.cache[i].key

\* No icon and no property on the screen is older than the row it stands
\* beside: what was read before a notification is never shown after it, not
\* even when size and time of the item, and so its key, are the same.
NothingOlderThanItsRow ==
  \A i \in DOMAIN pane.rows :
    LET row == pane.rows[i]
    IN /\ \A slot \in {"type", "sort"} :
            row.properties[slot].state = "value" => row.properties[slot].look >= row.look
       /\ \A e \in DOMAIN pane.cache :
            pane.cache[e].key = IconKey(pane, row) => pane.images[pane.cache[e].slot].look >= row.look

\* A sort that says it is done has seen the property of every row, of the key
\* that is asked for, and the rows are in its order: no batch, removal or key
\* change between the steps of the merge leaves it half done.
DoneMeansSorted ==
  (~pane.pending /\ ~pane.failed) =>
    /\ pane.key # "name" =>
         \A i \in DOMAIN pane.rows :
           LET value == pane.rows[i].properties[Slot(pane.key)]
           IN value.state # "unresolved" /\ (value.state = "value" => value.of = pane.key)
    /\ pane.watch # "recovering" =>
         \A i \in 1 .. Len(pane.rows) - 1 :
           IF pane.key = "name" THEN pane.rows[i].id < pane.rows[i + 1].id
           ELSE RowLess(pane.key, pane.rows[i], pane.rows[i + 1])

\* No request the window counts as outstanding is lost: it is queued, being read
\* or answered, so the batch it holds up can end.
OwedIsComing ==
  pane.owed \subseteq ToSet(pane.queue) \cup {pane.results[i].request : i \in DOMAIN pane.results}
                     \cup (IF pane.fresh THEN {worker[1].request} ELSE {})

\* When nothing happens any more the lookups come to rest, with the sort done:
\* no failed icon and no full cache keeps asking (PD-255: never an idle loop).
ComesToRest == <>[](~pane.pending /\ ~pane.posted /\ pane.owed = {} /\ worker = <<>>)
=============================================================================
