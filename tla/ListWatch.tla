------------------------------ MODULE ListWatch ------------------------------
(***************************************************************************)
(* How the rows of a pane follow the folder they show                      *)
(* (src/src/managed_list/list_worker.cpp, row_store.cpp and                *)
(* src/src/app_shell/pane_managed_list.cpp): the kernel's change records,  *)
(* the worker that reads and watches the folder, the two batches that may  *)
(* wait between it and the window, and the merge of a batch into rows      *)
(* whose order and selection the user is looking at.                       *)
(*                                                                         *)
(* One list and one folder.  What a name refers to is a version, 0 when    *)
(* the list does not show it (absent, or hidden by policy); versions grow  *)
(* with time, and rows are sorted by them, so a changed row has to move.   *)
(*                                                                         *)
(* Grain: the worker reads one directory entry per step and looks one      *)
(* changed name up per step, so changes fall between them; publishing      *)
(* belongs to the step that completes the batch and waits for room by      *)
(* being disabled.  One dispatch of the window is one step.  The threads   *)
(* and the locks are ListWorker's subject, the tab and its history         *)
(* PaneNavigation's.                                                       *)
(***************************************************************************)
EXTENDS Integers, Sequences, SequencesExt, FiniteSetsExt

CONSTANTS
  LastName,          \* the names are 1 .. LastName, in the order the folder is read
  Untouched,     \* the names nothing ever happens to
  Kinds,         \* "directory", "namespace": what the location may be
  ReturnsAt,     \* where the worker may be when a folder that was moved away comes back
  BatchRows,     \* kBatchRows
  QueuedBatches, \* kQueuedBatches
  KernelRecords, \* the change records the kernel keeps between two reads
  MaxChanges, MaxFaults, MaxRefreshes

ASSUME NamesAssumption == LastName \in Nat \ {0} /\ Untouched \subseteq 1 .. LastName
ASSUME SizesAssumption == BatchRows \in Nat \ {0} /\ QueuedBatches \in Nat \ {0} /\ KernelRecords \in Nat
ASSUME CountsAssumption == MaxChanges \in Nat /\ MaxFaults \in Nat /\ MaxRefreshes \in Nat
ASSUME KindsAssumption == Kinds \subseteq {"directory", "namespace"}

VARIABLES
  folder,   \* folder[n]: the version of n, 0 when the list does not show it
  there,    \* where the folder is
  kind,     \* what the location is
  kernel,   \* the watch handle: its records, and what its parent's watch reported
  worker,   \* the thread between two of its steps
  results,  \* the batches that wait for the window
  list,     \* the list of the pane: list_, row_store_ and the native selection
  picked,   \* the names the user selected
  moved,    \* the renames so far, transitively
  changes, faults, refreshes

vars == <<folder, there, kind, kernel, worker, results, list, picked, moved,
          changes, faults, refreshes>>

bounds == <<faults, refreshes>>

Names == 1 .. LastName

Record == [action : {"changed", "old", "new"}, name : Names]

Rows == Seq([name : Names, version : 1 .. MaxChanges + 1])

Changes == {"none", "watching", "watch_error", "rescan_begin", "rescan", "delta", "location_lost"}

Phases == {"loading", "complete", "empty", "error", "limited"}

NewBatch == [change |-> "none", phase |-> "loading", rows |-> <<>>, removed |-> {}, renamed |-> <<>>]

NoKernel == [open |-> FALSE, records |-> <<>>, over |-> FALSE, broken |-> FALSE,
             parent |-> FALSE, away |-> FALSE]

\* A worker that has just been given the request.
Asked == [at |-> "open", change |-> "none", next |-> 1, count |-> 0, batch |-> NewBatch,
          names |-> <<>>, old |-> 0, settle |-> FALSE]

Places == {"open", "scan", "listed", "idle", "look", "probe", "lose", "ended"}

TypeOK ==
  /\ folder \in [Names -> 0 .. MaxChanges + 1]
  /\ there \in {"there", "moved", "deleted", "slipped"}
  /\ kernel.records \in Seq(Record) /\ Len(kernel.records) <= KernelRecords
  /\ kernel.away => kernel.parent
  /\ worker.at \in Places
  /\ worker.batch.rows \in Rows /\ Len(worker.batch.rows) <= BatchRows
  /\ Len(results) <= QueuedBatches
  /\ \A b \in ToSet(results) : /\ b.change \in Changes /\ b.phase \in Phases
                               /\ b.rows \in Rows /\ Len(b.rows) <= BatchRows
                               /\ Cardinality(b.removed) <= BatchRows
  /\ list.phase \in Phases \cup {"left"}
  /\ list.watch \in {"inactive", "watching", "recovering", "failed"}
  /\ list.rows \in Rows
  /\ list.seen \subseteq DOMAIN list.rows /\ list.selected \subseteq DOMAIN list.rows
  /\ list.watch # "recovering" => list.seen = {}

Init ==
  /\ folder \in [Names -> {0, 1}] /\ \A n \in Untouched : folder[n] = 1
  /\ there = "there"
  /\ kind \in Kinds
  /\ kernel = NoKernel
  /\ worker = Asked
  /\ results = <<>>
  /\ list = [phase |-> "loading", watch |-> "inactive", updating |-> FALSE, rows |-> <<>>,
             seen |-> {}, selected |-> {}, device |-> FALSE]
  /\ picked = {} /\ moved = {}
  /\ changes = 0 /\ faults = 0 /\ refreshes = 0

Room == Len(results) < QueuedBatches

MayFail == faults < MaxFaults

-----------------------------------------------------------------------------
(* The folder and the kernel. *)

\* A handle keeps the records between two reads, or only that there were too many.
Reported(records) ==
  IF ~kernel.open \/ kernel.over THEN kernel
  ELSE IF Len(kernel.records) + Len(records) > KernelRecords
       THEN [kernel EXCEPT !.records = <<>>, !.over = TRUE]
       ELSE [kernel EXCEPT !.records = @ \o records]

Change(n, v) ==
  /\ changes < MaxChanges /\ there = "there" /\ n \notin Untouched
  /\ folder[n] # v
  /\ folder' = [folder EXCEPT ![n] = v]
  /\ kernel' = Reported(<<[action |-> "changed", name |-> n]>>)
  /\ changes' = changes + 1
  /\ UNCHANGED <<there, kind, worker, results, list, picked, moved, bounds>>

\* A rename, onto a name that exists or not.
Rename(a, b) ==
  /\ changes < MaxChanges /\ there = "there"
  /\ a # b /\ {a, b} \cap Untouched = {} /\ folder[a] # 0
  /\ folder' = [folder EXCEPT ![b] = folder[a], ![a] = 0]
  /\ kernel' = Reported(<<[action |-> "old", name |-> a], [action |-> "new", name |-> b]>>)
  /\ moved' = moved \cup {<<x, b>> : x \in {a} \cup {y \in Names : <<y, a>> \in moved}}
  /\ changes' = changes + 1
  /\ UNCHANGED <<there, kind, worker, results, list, picked, bounds>>

\* The folder goes.  A deletion breaks the reads of its handle; a move (the
\* Recycle Bin, a parent renamed) is reported by the parent's watch alone, and
\* before there is one it slips through.
Go(how) ==
  /\ changes < MaxChanges /\ there = "there" /\ kind = "directory"
  /\ there' = IF how = "moved" /\ ~kernel.parent THEN "slipped" ELSE how
  /\ kernel' = [kernel EXCEPT !.broken = @ \/ (how = "deleted" /\ kernel.open), !.away = kernel.parent]
  /\ changes' = changes + 1
  /\ UNCHANGED <<folder, kind, worker, results, list, picked, moved, bounds>>

\* It is moved back; nothing reports that.
Return ==
  /\ worker.at \in ReturnsAt /\ there \in {"moved", "slipped"}
  /\ there' = "there"
  /\ UNCHANGED <<folder, kind, kernel, worker, results, list, picked, moved, changes, bounds>>

-----------------------------------------------------------------------------
(* The worker: reading the folder. *)

Publish(b) == Room /\ results' = Append(results, b)

\* The handle of the directory is opened and armed before the first read.
OpenWatch ==
  /\ worker.at = "open" /\ kind = "directory"
  /\ \E open \in {there = "there"} \cup (IF MayFail THEN {FALSE} ELSE {}) :
       /\ kernel' = [NoKernel EXCEPT !.open = open]
       /\ faults' = IF there = "there" /\ ~open THEN faults + 1 ELSE faults
  /\ worker' = [worker EXCEPT !.at = "scan"]
  /\ UNCHANGED <<folder, there, kind, results, list, picked, moved, changes, refreshes>>

\* arm_namespace_watches: all the directories behind a namespace folder are
\* watched, or none is (an error ends the watch, whatever was armed before it).
ArmNamespaceWatches ==
  \/ kernel' = [NoKernel EXCEPT !.open = TRUE] /\ UNCHANGED faults
  \/ MayFail /\ kernel' = NoKernel /\ faults' = faults + 1

OpenNamespaceWatches ==
  /\ worker.at = "open" /\ kind = "namespace"
  /\ ArmNamespaceWatches
  /\ worker' = [worker EXCEPT !.at = "scan"]
  /\ UNCHANGED <<folder, there, kind, results, list, picked, moved, changes, refreshes>>

Ahead == {n \in Names : n >= worker.next /\ folder[n] # 0}

\* One entry of the enumeration; a full batch is published.
ReadEntry ==
  /\ worker.at = "scan" /\ Ahead # {}
  /\ worker.count > 0 \/ there = "there"
  /\ LET n == Min(Ahead)
         rows == Append(worker.batch.rows, [name |-> n, version |-> folder[n]])
         read == [worker EXCEPT !.next = n + 1, !.count = @ + 1]
     IN IF Len(rows) < BatchRows
        THEN worker' = [read EXCEPT !.batch.rows = rows] /\ UNCHANGED results
        ELSE /\ Publish([NewBatch EXCEPT !.change = worker.change, !.rows = rows])
             /\ worker' = [read EXCEPT !.batch.rows = <<>>]
  /\ UNCHANGED <<folder, there, kind, kernel, list, picked, moved, changes, bounds>>

\* Where a listing that ended in the phase goes on: only a directory's worker
\* gives up after a listing that failed.
After(phase) ==
  IF phase = "error" /\ kind = "directory" THEN "ended"
  ELSE IF worker.change = "rescan" THEN "idle" ELSE "listed"

\* The enumeration ends: after the last entry, or with an error.
EndRead ==
  /\ worker.at = "scan"
  /\ \E failed \in {~(worker.count > 0 \/ there = "there")} \cup (IF MayFail THEN {TRUE} ELSE {}) :
       LET phase == IF failed THEN "error" ELSE IF worker.count > 0 THEN "complete" ELSE "empty"
       IN /\ ~failed => Ahead = {}
          /\ Publish([NewBatch EXCEPT !.change = worker.change, !.rows = worker.batch.rows, !.phase = phase])
          /\ worker' = [worker EXCEPT !.at = After(phase), !.batch = NewBatch]
          /\ faults' = IF failed /\ there = "there" THEN faults + 1 ELSE faults
  /\ UNCHANGED <<folder, there, kind, kernel, list, picked, moved, changes, refreshes>>

\* After the first listing the window is told whether the folder is watched,
\* and the parent's watch is opened.
Listed ==
  /\ worker.at = "listed"
  /\ IF kernel.open
     THEN /\ Publish([NewBatch EXCEPT !.change = "watching", !.phase = "complete"])
          /\ worker' = [worker EXCEPT !.at = "idle"]
          /\ kernel' = [kernel EXCEPT !.parent = (kind = "directory")]
     ELSE /\ Publish([NewBatch EXCEPT !.change = "watch_error", !.phase = "complete"])
          /\ worker' = [worker EXCEPT !.at = "ended"]
          /\ UNCHANGED kernel
  /\ UNCHANGED <<folder, there, kind, list, picked, moved, changes, bounds>>

-----------------------------------------------------------------------------
(* The worker: watching. *)

\* decode_changes, up to the lookups: one record, which may be the second half
\* of a rename or leave a first half behind that nothing follows.
Noticed(d, r) ==
  LET With(names, n) == IF n \in ToSet(names) THEN names ELSE Append(names, n)
  IN CASE r.action = "old" -> [d EXCEPT !.rescan = @ \/ d.old # 0, !.old = r.name]
       [] r.action = "new" /\ d.old # 0 ->
            [d EXCEPT !.renamed = Append(@, <<d.old, r.name>>), !.old = 0,
                      !.names = With(With(@, d.old), r.name)]
       [] OTHER -> [d EXCEPT !.rescan = @ \/ d.old # 0, !.names = With(@, r.name)]

\* All records of a read, with the old half the last read ended in.
Decoded(records, old) ==
  LET Upto[k \in 0 .. Len(records)] ==
        IF k = 0 THEN [names |-> <<>>, renamed |-> <<>>, old |-> old, rescan |-> FALSE]
        ELSE Noticed(Upto[k - 1], records[k])
  IN Upto[Len(records)]

TooMany(d) == Len(d.names) > BatchRows \/ Len(d.renamed) > BatchRows

\* A read completes with some of the records, or says that there were too many.
Completions == 1 .. Len(kernel.records) \cup (IF kernel.over THEN {0} ELSE {})

Drained(k) == [kernel EXCEPT !.over = FALSE, !.records = SubSeq(@, k + 1, Len(@))]

\* Mutant: too many records are taken for a failed read.
WakeOrLose ==
  /\ worker.at = "idle" /\ ~kernel.broken
  /\ kernel.over
  /\ kernel' = Drained(0)
  /\ worker' = [worker EXCEPT !.at = "lose"]
  /\ UNCHANGED <<folder, there, kind, results, list, picked, moved, changes, bounds>>

\* A directory's changes are decoded, unless a rescan is due anyway.
Wake ==
  /\ worker.at = "idle" /\ kind = "directory" /\ ~kernel.broken
  /\ \E k \in Completions :
       LET d == Decoded(SubSeq(kernel.records, 1, k), worker.old)
           detail == ~worker.settle /\ ~kernel.over /\ ~d.rescan /\ ~TooMany(d)
       IN /\ kernel' = Drained(k)
          /\ worker' = IF detail
               THEN [worker EXCEPT !.at = "look", !.names = d.names, !.old = d.old,
                                   !.batch = [NewBatch EXCEPT !.change = "delta", !.phase = "complete",
                                                              !.renamed = d.renamed]]
               ELSE [worker EXCEPT !.settle = TRUE, !.old = 0]
  /\ UNCHANGED <<folder, there, kind, results, list, picked, moved, changes, bounds>>

\* The events of a namespace folder only say that it has to be read again.
WakeNamespace ==
  /\ worker.at = "idle" /\ kind = "namespace"
  /\ \E k \in Completions : kernel' = Drained(k)
  /\ worker' = [worker EXCEPT !.settle = TRUE]
  /\ UNCHANGED <<folder, there, kind, results, list, picked, moved, changes, bounds>>

\* Mutant: the reason to recover is forgotten.
ResumedAsIs(recovery) ==
  [worker EXCEPT !.at = "idle", !.batch = NewBatch, !.names = <<>>]

\* Back to the idle wait; recovery asks for a rescan and drops the detail.
Resumed(recovery) ==
  [worker EXCEPT !.at = "idle", !.batch = NewBatch, !.names = <<>>,
                 !.settle = @ \/ recovery, !.old = IF recovery THEN 0 ELSE @]

\* One lookup.  No such path means the folder itself is not where it was; any
\* other failure asks for a rescan.
LookUp ==
  /\ worker.at = "look" /\ worker.names # <<>>
  /\ LET n == Head(worker.names)
         rest == [worker EXCEPT !.names = Tail(@)]
     IN IF there # "there" THEN worker' = [worker EXCEPT !.at = "probe"] /\ UNCHANGED faults
        ELSE \/ /\ worker' = IF folder[n] = 0
                     THEN [rest EXCEPT !.batch.removed = @ \cup {n}]
                     ELSE [rest EXCEPT !.batch.rows = Append(@, [name |-> n, version |-> folder[n]])]
                /\ UNCHANGED faults
             \/ MayFail /\ faults' = faults + 1 /\ worker' = Resumed(TRUE)
  /\ UNCHANGED <<folder, there, kind, kernel, results, list, picked, moved, changes, refreshes>>

\* The changes are published; half a rename has none yet.
Deliver ==
  /\ worker.at = "look" /\ worker.names = <<>>
  /\ IF worker.batch.rows # <<>> \/ worker.batch.removed # {} THEN Publish(worker.batch) ELSE UNCHANGED results
  /\ worker' = Resumed(FALSE)
  /\ UNCHANGED <<folder, there, kind, kernel, list, picked, moved, changes, bounds>>

\* The parent's watch names the folder, while nothing or a delta is at hand.
ParentReports ==
  /\ kernel.away /\ ~kernel.broken
  /\ worker.at = "idle" \/ (worker.at = "look" /\ worker.names = <<>>)
  /\ kernel' = [kernel EXCEPT !.away = FALSE]
  /\ worker' = [worker EXCEPT !.at = "probe"]
  /\ UNCHANGED <<folder, there, kind, results, list, picked, moved, changes, bounds>>

\* Whether the folder is still there.
Probe ==
  /\ worker.at = "probe"
  /\ worker' = IF there # "there" THEN [worker EXCEPT !.at = "lose"]
               ELSE Resumed(worker.batch.rows # <<>> \/ worker.batch.removed # {} \/ worker.batch.renamed # <<>>)
  /\ UNCHANGED <<folder, there, kind, kernel, results, list, picked, moved, changes, bounds>>

\* Mutant: the reason to rescan outlives the rescan.
RescanAgain ==
  /\ Publish([NewBatch EXCEPT !.change = "rescan_begin"])
  /\ worker' = [worker EXCEPT !.at = "scan", !.change = "rescan", !.next = 1, !.count = 0, !.batch = NewBatch]

Rescan ==
  /\ Publish([NewBatch EXCEPT !.change = "rescan_begin"])
  /\ worker' = [worker EXCEPT !.at = "scan", !.settle = FALSE, !.change = "rescan",
                              !.next = 1, !.count = 0, !.batch = NewBatch]

\* RescanSettle::due, without its clock: a pending rescan comes when the directory
\* has been quiet, or busy for too long, so any number of events may precede it.
Due == worker.at = "idle" /\ worker.settle

\* If the directory is still there, it is read again.
BeginRescan ==
  /\ Due /\ kind = "directory" /\ ~kernel.broken
  /\ IF there = "there" THEN Rescan
     ELSE worker' = [worker EXCEPT !.at = "lose"] /\ UNCHANGED results
  /\ UNCHANGED <<folder, there, kind, kernel, list, picked, moved, changes, bounds>>

BeginNamespaceRescan ==
  /\ Due /\ kind = "namespace"
  /\ Rescan
  /\ UNCHANGED <<folder, there, kind, kernel, list, picked, moved, changes, bounds>>

\* The handle's read fails: the folder, its volume or its share is gone.
ReadFails ==
  /\ worker.at = "idle" /\ kernel.broken
  /\ worker' = [worker EXCEPT !.at = "lose"]
  /\ UNCHANGED <<folder, there, kind, kernel, results, list, picked, moved, changes, bounds>>

\* lost_location_target: a folder that is gone has a replacement, or only its
\* share is out of reach; one that is back stays, unwatched.
Lose ==
  /\ worker.at = "lose"
  /\ \E change \in {"watch_error"} \cup (IF there # "there" THEN {"location_lost"} ELSE {}) :
       Publish([NewBatch EXCEPT !.change = change, !.phase = "complete"])
  /\ worker' = [worker EXCEPT !.at = "ended"]
  /\ UNCHANGED <<folder, there, kind, kernel, list, picked, moved, changes, bounds>>

\* The wait or the re-arming fails, or an error is injected.
WatchFails ==
  /\ MayFail /\ worker.at = "idle"
  /\ Publish([NewBatch EXCEPT !.change = "watch_error", !.phase = "complete"])
  /\ worker' = [worker EXCEPT !.at = "ended"]
  /\ faults' = faults + 1
  /\ UNCHANGED <<folder, there, kind, kernel, list, picked, moved, changes, refreshes>>

-----------------------------------------------------------------------------
(* RowStore: the merge of a batch into the rows. *)

Earlier(r, s) == r.version < s.version \/ (r.version = s.version /\ r.name < s.name)

Ordered(rows) == \A i \in 1 .. Len(rows) - 1 : Earlier(rows[i], rows[i + 1])

\* The rows at some of their places, in their order.
Kept(rows, indices) ==
  LET Upto[k \in 0 .. Len(rows)] ==
        IF k = 0 THEN <<>> ELSE IF k \in indices THEN Append(Upto[k - 1], rows[k]) ELSE Upto[k - 1]
  IN Upto[Len(rows)]

Without(rows, names) == Kept(rows, {i \in DOMAIN rows : rows[i].name \notin names})

\* 1 .. n with each place behind those that come before it.
Ranked(n, before) ==
  [k \in 1 .. n |-> CHOOSE i \in 1 .. n : Cardinality({j \in 1 .. n : <<j, i>> \in before}) = k - 1]

Preceding(rows) ==
  {pair \in (DOMAIN rows) \X (DOMAIN rows) :
     LET r == rows[pair[1]]
         s == rows[pair[2]]
     IN Earlier(r, s) \/ (~Earlier(s, r) /\ pair[1] < pair[2])}

Arranged(rows) ==
  LET places == Ranked(Len(rows), Preceding(rows)) IN [k \in DOMAIN rows |-> rows[places[k]]]

\* sort_managed_list_rows: sorts what follows the prefix and merges the two
\* runs, which only a prefix in order lets it do.
Sorted(rows, prefix) ==
  IF Ordered(SubSeq(rows, 1, prefix)) THEN Arranged(rows)
  ELSE SubSeq(rows, 1, prefix) \o Arranged(SubSeq(rows, prefix + 1, Len(rows)))

Named(rows, n) == {i \in DOMAIN rows : rows[i].name = n}

\* A row replaces the one of its identity, or is appended.
Upserted(m, r) ==
  LET at == Named(m.rows, r.name) IN
  IF at = {}
  THEN [m EXCEPT !.rows = Append(@, r), !.seen = @ \cup {Len(m.rows) + 1}]
  ELSE [m EXCEPT !.rows[Min(at)] = r, !.seen = @ \cup at, !.updated = @ \cup at]

AllUpserted(m, rows) ==
  LET Upto[k \in 0 .. Len(rows)] == IF k = 0 THEN m ELSE Upserted(Upto[k - 1], rows[k])
  IN Upto[Len(rows)]

\* Mutant: a changed row is left in the run that is taken to be in order.
DeltaInPlace(rows, b) ==
  LET base == Without(rows, b.removed \cup {b.renamed[i][1] : i \in DOMAIN b.renamed})
      m == AllUpserted([rows |-> base, seen |-> {}, updated |-> {}], b.rows)
  IN Sorted(m.rows, Len(base))

\* apply(): a delta's renames and removals take their rows out, its rows are
\* put in, and what it touched goes behind the untouched run and is sorted in.
Delta(rows, b) ==
  LET base == Without(rows, b.removed \cup {b.renamed[i][1] : i \in DOMAIN b.renamed})
      m == AllUpserted([rows |-> base, seen |-> {}, updated |-> {}], b.rows)
      touched == DOMAIN base \cap m.updated
      still == Kept(m.rows, DOMAIN base \ touched)
      added == Kept(m.rows, DOMAIN m.rows \ DOMAIN base)
  IN Sorted(still \o added \o Kept(m.rows, touched), Len(still))

-----------------------------------------------------------------------------
(* The window: one dispatch, from what it starts with to what it leaves. *)

\* Interest ends; nothing published for it is taken any more.
Cancelled(u) == [u EXCEPT !.stop = TRUE, !.cancelled = TRUE]

Failed(u) == Cancelled([u EXCEPT !.watch = "failed", !.seen = {}])

\* Mutant: the selection stays at its indices.
NotCaptured(u) == u

\* Rows are about to shift: the selection is remembered by identity.
Captured(u) ==
  IF u.kept THEN u
  ELSE [u EXCEPT !.kept = TRUE, !.names = {u.rows[i].name : i \in u.selected}]

\* A rename is the only change that hands a selection on, pair by pair.
HandedOn(names, pair) == IF pair[1] \in names THEN (names \ {pair[1]}) \cup {pair[2]} ELSE names

Followed(names, b) ==
  LET Upto[k \in 0 .. Len(b.renamed)] ==
        IF k = 0 THEN names ELSE HandedOn(Upto[k - 1], b.renamed[k])
  IN Upto[Len(b.renamed)]

\* Mutant: an incomplete rescan purges what it has not seen.
RecoveredPartly(u, phase) ==
  IF phase = "loading" THEN u
  ELSE [u EXCEPT !.rows = Kept(u.rows, u.seen), !.seen = {},
                 !.watch = IF phase = "error" THEN "failed" ELSE "watching"]

\* The end of a rescan: rows it has not seen are gone, unless it failed.
Recovered(u, phase) ==
  IF phase = "loading" THEN u
  ELSE IF phase = "error" THEN Failed(u)
  ELSE [u EXCEPT !.rows = Kept(u.rows, u.seen), !.seen = {}, !.watch = "watching"]

\* apply_list_changes for a delta or a batch of a rescan; it is refused when it
\* does not belong to the state of the list, or there is no room; what it had come
\* to by then is not kept here, and the list has failed either way.
Applied(u, b, abort) ==
  LET v == [u EXCEPT !.names = IF u.kept THEN Followed(@, b) ELSE @]
      m == AllUpserted([rows |-> v.rows, seen |-> v.seen, updated |-> {}], b.rows)
      done == IF b.change = "delta" THEN [v EXCEPT !.rows = Delta(v.rows, b)]
              ELSE Recovered([v EXCEPT !.rows = m.rows, !.seen = m.seen], b.phase)
  IN IF abort \/ (b.change = "delta" /\ u.watch = "recovering") THEN Failed(v)
     ELSE [done EXCEPT !.phase = IF done.rows = <<>> THEN "empty" ELSE "complete"]

\* A change batch.
Noted(u, b, abort) ==
  LET ends == b.change = "delta" \/ (b.change = "rescan" /\ b.phase # "loading")
                \/ (b.change = "watch_error" /\ u.watch = "recovering")
      v == [(IF ends THEN Captured(u) ELSE u) EXCEPT
              !.changed = @ \/ ends, !.full = @ \/ (ends /\ b.change # "delta"),
              !.append = @ /\ b.change = "watching"]
  IN IF u.watch = "failed" /\ b.change # "watch_error" THEN [u EXCEPT !.append = @ /\ b.change = "watching"]
     ELSE CASE b.change = "watching" -> [v EXCEPT !.watch = "watching", !.device = TRUE]
            [] b.change = "watch_error" -> [v EXCEPT !.watch = "failed", !.seen = {}, !.device = FALSE]
            [] b.change = "rescan_begin" ->
                 IF abort THEN Failed(v) ELSE [v EXCEPT !.watch = "recovering", !.seen = {}]
            [] OTHER -> Applied(v, b, abort)

\* A batch of the listing over rows kept from before: it is merged like a rescan.
Updated(u, b, abort) ==
  LET ends == b.phase # "loading"
      v == Applied([(IF ends THEN Captured(u) ELSE u) EXCEPT !.append = FALSE],
                   [b EXCEPT !.change = "rescan"], abort)
      w == IF v.watch = "failed" THEN Cancelled([v EXCEPT !.phase = "error", !.updating = FALSE, !.seen = {}])
           ELSE [v EXCEPT !.phase = b.phase]
  IN [w EXCEPT !.updating = @ /\ ~ends, !.watch = IF ends /\ @ = "watching" THEN "inactive" ELSE @,
               !.changed = @ \/ ends, !.full = @ \/ ends]

\* A batch of the first listing: appended as far as there is room.
Appended(u, b, abort) ==
  LET phase == IF abort THEN "limited" ELSE b.phase
      v == [(IF b.rows # <<>> THEN Captured(u) ELSE u) EXCEPT
              !.rows = IF abort THEN @ ELSE @ \o b.rows, !.phase = phase,
              !.changed = @ \/ (b.rows # <<>> /\ ~abort), !.full = @ \/ (b.rows # <<>> /\ ~abort /\ ~u.append)]
  IN IF phase \in {"error", "limited"} THEN Cancelled(v) ELSE v

Consumed(u, b, abort) ==
  IF u.stop THEN u
  ELSE IF b.change = "location_lost" THEN [Cancelled(u) EXCEPT !.lost = TRUE]
  ELSE IF b.change # "none" THEN Noted(u, b, abort)
  ELSE IF u.phase # "loading" THEN u
  ELSE IF u.updating THEN Updated(u, b, abort)
  ELSE Appended(u, b, abort)

\* The batch number `failing` finds no room.
AllConsumed(u, batches, failing) ==
  LET Upto[k \in 0 .. Len(batches)] ==
        IF k = 0 THEN u ELSE Consumed(Upto[k - 1], batches[k], k = failing)
  IN Upto[Len(batches)]

Start(l) ==
  [phase |-> l.phase, watch |-> l.watch, updating |-> l.updating, rows |-> l.rows,
   seen |-> l.seen, selected |-> l.selected, device |-> l.device,
   kept |-> FALSE, names |-> {}, changed |-> FALSE, full |-> FALSE, stop |-> FALSE,
   cancelled |-> FALSE, lost |-> FALSE, append |-> l.watch # "recovering" /\ ~l.updating]

\* After the batches: rows that have not found their place are sorted, then the
\* selection is put back where its names are now.
Finished(u) ==
  LET rows == IF u.changed /\ u.watch # "recovering" /\ (u.full \/ u.append)
              THEN Sorted(u.rows, IF u.full THEN 0 ELSE Len(list.rows)) ELSE u.rows
  IN [list EXCEPT !.phase = u.phase, !.watch = u.watch, !.updating = u.updating, !.rows = rows,
        !.seen = u.seen, !.device = u.device,
        !.selected = IF u.changed /\ u.kept THEN {i \in DOMAIN rows : rows[i].name \in u.names} ELSE u.selected]

\* The source's cancel: no answer is left, and none will come.
Silenced == worker' = [Asked EXCEPT !.at = "ended"] /\ results' = <<>> /\ kernel' = NoKernel

\* process_content_results: at most two batches.  One of them may find no room
\* for its rows or for the index of a rescan.
Dispatch ==
  /\ results # <<>> /\ list.phase # "left"
  /\ \E j \in {0} \cup (IF MayFail THEN {i \in DOMAIN results : results[i].change \notin
                             {"watching", "watch_error", "location_lost"}} ELSE {}) :
       LET u == AllConsumed(Start(list), results, j)
       IN /\ list' = IF u.lost THEN [Finished(u) EXCEPT !.phase = "left", !.watch = "failed", !.seen = {},
                                       !.updating = FALSE, !.device = FALSE]
                     ELSE Finished(u)
          /\ IF u.cancelled THEN Silenced ELSE results' = <<>> /\ UNCHANGED <<worker, kernel>>
          /\ faults' = IF j = 0 THEN faults ELSE faults + 1
  /\ UNCHANGED <<folder, there, kind, picked, moved, changes, refreshes>>

\* A dispatch after the window began to close; the close may yet be called off.
DispatchInactive ==
  /\ MayFail /\ list.phase # "left"
  /\ Silenced
  /\ list' = [list EXCEPT !.watch = "failed", !.seen = {}, !.updating = FALSE, !.device = FALSE,
                          !.phase = IF @ = "loading" THEN "error" ELSE @]
  /\ faults' = faults + 1
  /\ UNCHANGED <<folder, there, kind, picked, moved, changes, refreshes>>

\* The volume is about to be removed: every handle on it is let go.
QueryRemove ==
  /\ MayFail /\ list.device
  /\ Silenced
  /\ list' = [list EXCEPT !.watch = "failed", !.seen = {}, !.device = FALSE]
  /\ faults' = faults + 1
  /\ UNCHANGED <<folder, there, kind, picked, moved, changes, refreshes>>

\* start_managed_list for the location that is shown.  A finished listing stays
\* on the screen and is merged into; the selection of any other is cleared.  It
\* can fail at the index of the rows that stay, or at the Source.
Refresh ==
  /\ refreshes < MaxRefreshes /\ list.phase # "left"
  /\ refreshes' = refreshes + 1
  /\ results' = <<>>
  /\ LET cached == ~list.updating /\ list.phase \in {"complete", "empty"} IN
     \E fault, unindexed \in BOOLEAN :
       /\ fault => MayFail
       /\ unindexed => fault /\ cached
       /\ faults' = IF fault THEN faults + 1 ELSE faults
       /\ list' = [list EXCEPT !.phase = IF fault THEN "error" ELSE "loading",
             !.watch = IF ~cached THEN "inactive" ELSE IF unindexed THEN "failed" ELSE "recovering",
             !.updating = cached /\ ~fault, !.rows = IF cached THEN @ ELSE <<>>, !.seen = {},
             !.selected = IF cached THEN @ ELSE {}, !.device = FALSE]
       /\ worker' = IF fault THEN [Asked EXCEPT !.at = "ended"] ELSE Asked
       /\ picked' = IF cached THEN picked ELSE {}
       /\ kernel' = NoKernel
  /\ UNCHANGED <<folder, there, kind, moved, changes>>

\* The user selects one row.
Select(i) ==
  /\ picked = {} /\ list.phase # "left" /\ i \in DOMAIN list.rows
  /\ picked' = {list.rows[i].name}
  /\ list' = [list EXCEPT !.selected = {i}]
  /\ UNCHANGED <<folder, there, kind, kernel, worker, results, moved, changes, bounds>>

-----------------------------------------------------------------------------
Environment ==
  \/ \E n \in Names : Change(n, 0) \/ Change(n, changes + 2)
  \/ \E a, b \in Names : Rename(a, b)
  \/ Go("moved") \/ Go("deleted")
  \/ Return

Watching ==
  \/ OpenWatch \/ ReadEntry \/ EndRead \/ Listed
  \/ Wake \/ LookUp \/ Deliver \/ ParentReports \/ Probe
  \/ BeginRescan \/ ReadFails \/ Lose
  \/ OpenNamespaceWatches \/ WakeNamespace \/ BeginNamespaceRescan

User == DispatchInactive \/ QueryRemove \/ Refresh \/ \E i \in Names : Select(i)

Next == Environment \/ Watching \/ WatchFails \/ Dispatch \/ User

Spec == Init /\ [][Next]_vars

\* What every dispatch does, whatever the batches say.
Emptied == results # <<>> /\ results' = <<>>

\* The scheduler runs the thread, and the window dispatches a signalled event.
FairSpec == Spec /\ WF_vars(Watching) /\ WF_results(Emptied)

-----------------------------------------------------------------------------
(* What is shown. *)

\* Nothing is on its way from the folder to the rows.
Settled ==
  /\ results = <<>>
  /\ \/ worker.at = "ended"
     \/ /\ worker.at = "idle" /\ ~worker.settle
        /\ kernel.records = <<>> /\ ~kernel.over /\ ~kernel.broken /\ ~kernel.away

SaysSo == list.watch = "failed" \/ list.phase \in {"error", "limited", "left"}

Current == ToSet(list.rows) = {[name |-> n, version |-> folder[n]] : n \in {m \in Names : folder[m] # 0}}

\* Once nothing is on its way, the rows are what the folder holds, or the list
\* says that it is not refreshed (or has left): a list is never silently stale,
\* whatever changed during a listing, a rescan, a lookup or a wait for room.
NeverSilentlyStale ==
  Settled => \/ SaysSo
             \/ there = "there" /\ Current /\ list.phase # "loading" /\ list.watch = "watching"
             \/ there = "slipped"

\* Rows the user can act on are in the order of the sort, which also says that no
\* identity is shown twice; only a rescan or a failure leaves them as they came.
RowsInOrder ==
  /\ TypeOK
  /\ ~list.updating /\ list.watch # "recovering" /\ ~SaysSo => Ordered(list.rows)

\* What is selected is what the user selected, or what that was renamed to; and
\* an untouched selected row stays selected, wherever the merges put it.
SelectionIsTheUsers ==
  list.phase # "left" =>
    /\ \A i \in list.selected : LET n == list.rows[i].name IN
         n \in picked \/ \E p \in picked : <<p, n>> \in moved
    /\ \A i \in DOMAIN list.rows : list.rows[i].name \in picked \cap Untouched => i \in list.selected

\* The watch ends for a reason: the worker and the window never make each other
\* give up by the order of what they send.
OnlyFaultsEndTheWatch ==
  SaysSo => faults > 0 \/ there # "there"

\* A row of an untouched name stays until the user asks for a new listing: no
\* incomplete rescan and no overflow takes it away.
UntouchedRowsStay ==
  [][refreshes' = refreshes =>
      \A n \in Untouched : Named(list.rows, n) # {} => Named(list'.rows, n) # {}]_vars

\* Changes stop, and so does the work they cause.
SettlesAtLast == <>[]Settled
=============================================================================
