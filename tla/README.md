# PaneDock in TLA+

PaneDock is a Windows file manager: one window shows up to four *panes*, each
with tabs, and the user switches between saved *Groups* of panes.  This
directory is a verification development of its core: TLA+ modules translated
from the sources under `src/src/`, TLC configurations that check them on small
instances, and proofs TLAPS checks for every instance.

## The system

Everything that matters runs on **one UI thread**, but not one handler after the
other: Shell calls, OLE drags, message boxes and menus pump the message loop, so
that a second handler starts while the first is still on the stack.  That is the
program's real concurrency, and most of its code comments are about it.  The
other sources of trouble are Windows ending the session, files that fail half
way, worker threads that list and watch folders and look up what their rows need,
and answers that arrive for a folder, a row or a sort the user has already left.

| Part | State it keeps | Operations | Talks to |
| --- | --- | --- | --- |
| Shutdown reducer (`core/shutdown`) | 18 flags and counters | 27 events | called by everything below |
| Shutdown coordinator (`core/shutdown_coordinator`, `transfer_close_dialog`, the `WM_*` handlers of `main.cpp`) | the reducer, the prompt | close, session end, transfer answers, teardown | posts itself messages, writes the session |
| Shell re-entry guard (`shell_reentry_guard.h`, `deferred_messages.h`) | call depth, held interactions | enter, leave, hold, replay | the reducer, the window procedures |
| Session file (`core/session`) | `session.json`, `.bak`, `.tmp`; the document it was loaded from | `write_session`, `read_session`, serialize, parse | the file system |
| Session writer (`session_writer`) | dirty flag, debounce timer | schedule, save now, timer | the session file |
| Group model (`core/model`) | Groups, panes, tabs, histories | add, duplicate, delete, reorder; layout; tabs | changed by commands only |
| Group transitions (`core/group_transition`, `main.cpp`) | the layout pass's flags | commands, layout pass | panes, Shell calls |
| Pane (`pane.cpp`) | the request in flight, history | navigate, back, forward, refresh; answers | the list's Source |
| List worker (`managed_list/list_worker`) | threads, slots, boxes of results; the watch | list, watch, rescan, cancel | Shell namespaces, the kernel's change records |
| Managed list (`pane_managed_list.cpp`, `managed_list/row_store`) | rows, selection, sort | merge batches, select, sort, refresh | the worker's batches |
| Icons and properties (`pane_list_icons.cpp`, `pane_list_properties.cpp`) | image cache, requests, a sort in steps | ask for what is visible, merge answers | a second worker |
| Rename and file commands (`pane_list_rename.cpp`, `file_operations.cpp`) | the edit, new folders, the running command | rename, new folder, delete, paste | Shell operations that pump |
| Sidebar, tab strip, drag and drop, menus, dialogs | UI state | user input | the parts above |

What makes each part correct:

* *closing*: a close the user asked for is never forgotten, stranded or done
  twice; views are never destroyed underneath a call that will return into them;
  the session is saved before the teardown or the user has said otherwise; the
  clean marker on disk tells the truth;
* *session file*: no stop at any instant loses a session that was reported as
  saved, no fallback is silent, what is written reads back, and the fields of
  another build survive;
* *Groups*: the panes always borrow the active Group's state, whatever was
  pumped; a message box's answer applies to the Group it was about;
* *panes*: an answer for an old request changes nothing, and the history's
  position is that of the folder on display;
* *lists*: once nothing is on its way the rows are the folder's, or the list says
  that it is stale; they are in order, and the selection stays on its items;
* *icons and properties*: nothing shown beside a row is older than the row, a
  sort that says it is done is, and the lookups come to rest;
* *rename*: the edit stays on its row, and what is typed names the item it was
  typed for.

## The modules

| Module | Models | Its actions |
| --- | --- | --- |
| `ShutdownSequence` | the reducer as operators from a state to a state and an action, without variables | one operator per event |
| `ShutdownCoordinator` | the whole close sequence | one action per message handler or return of a call |
| `SessionStore` | `write_session` and `read_session` | one action per file-system call, plus `Stop` and `Damage` |
| `SessionDocument` | what the session file says, composed with `SessionStore` | its steps, one action per edit of tabs, and a visit of another build |
| `SessionWriter` | the debounced save | one action per method of the class and per timer message |
| `GroupCommands` | Group commands, transitions and layout passes with what is pumped inside them | one action per message and per step of each loop |
| `PaneTabs` | panes and tabs of the Groups, and the mouse gestures on tab strips | one action per gesture message, key command and menu choice |
| `PaneNavigation` | one pane's navigations and its tabs' histories | one action per request, answer and posted message |
| `ResultSource` | what a pane may rely on when it asks for a folder: the abstract specification | ask, drop, answer, last word, take |
| `ListWorker` | the threads, slots, locks and events that keep that promise | one action per hold of a `State`'s mutex and per wait |
| `ListWatch` | how the rows follow the folder: change records, the watching worker, its batches, the merge | one action per entry read, name looked up, batch published; one per dispatch |
| `RowEnrichment` | icons, type icons, properties and the sort by a slow property | one action per answer, per message of the window and per change |
| `ListRename` | the rename edit, new folders and the file commands of a list | one action per message and per return of a Shell call |
| `SessionDocumentProofs` (also about `SessionStore` and `SessionWriter`), `ListWorkerProofs`, `ShutdownCoordinatorProofs`, `GroupCommandsProofs`, `PaneTabsProofs` (also about `PaneNavigation`), `ListWatchProofs`, `ListRenameProofs`, `RowEnrichmentProofs` | theorems about the module each is named for | |

### How the call stack is modelled

`ShutdownCoordinator` and `GroupCommands` hold a variable `stack`, the calls of
the UI thread that have not returned.  A handler may start whenever the top
frame pumps messages (`Pumping`) and only the top frame can return.  An action
is the stretch of code between two points where messages can be pumped.  This
is exactly the atomicity of the program: between two such points the thread
runs undisturbed.

In `ShutdownCoordinator` the frames are Shell calls, the phases of a file
operation, `DoDragDrop`, drag targets in their leave, modal loops without a
gate, the save-failure box and the teardown.  `seq` is the reducer's state,
`disk` what the next start would read (`clean`: the marker, `current`: no edit
is missing, `ours`: written by this execution), `intent` a history of what the
user and Windows have asked for.  The action for a handler applies the operator
of `ShutdownSequence` the handler calls and then performs the effects in the
order of `ShutdownCoordinator::run`.

In `GroupCommands` the frames are Shell calls, the sidebar's menu, the delete
box and the three loops (`transition`, `navigate`, `layout`) which make Shell
calls on their way; a loop frame carries what it still has to do, and the Group
it holds a reference to.  The close sequence is reduced to its gate.  A Group
has an `id`, which the code may hand out again, and a `born` number, which it
may not, so that the properties can tell two Groups with one id apart.

### Tabs and gestures

In `PaneTabs` an operation is one step, since it changes the model before it
calls the Shell and input is held back until that returns.  What interleaves are
gestures: `drag` and `armed` keep what the press found, key commands run before
the release, and the release is applied to whatever the model has become.  A
pane is known by its place in the Group, since panes are only ever appended; a
tab has the `id` the code gives it and, for the properties, a `content` that
follows it wherever it is moved.  Only the active Group is kept: switching puts
a Group in its place as a session may have it, whose ids name other tabs.
`grabbed` and `touched` are history variables: what the gesture took hold of and
whether the model has changed since.

### Navigation

`PaneNavigation` keeps the six members of a pane that say what it meant to do:
the request in flight with its generation, the history target of Back, Forward
and Refresh, the address typed, the failed address, and the phase of the list.
The call frames are two, because two calls pump messages in the middle of an
operation (`chrome`, the address bar's display name, and `strip`, the tab
strip's).  A location is a model value; an alias stands for any name the Source
resolves to a canonical one.  The Source is `ResultSource` cut down to its
listings.

`ListWorker` instantiates `ResultSource` as `Abstract` and checks
`Abstract!SourceSpec`, with the request, the answers given and the box read off
the `State` the pane's Source holds.  `slots` is the process-wide table of weak
pointers, `state[w]` the `State` of a worker with the place its thread has
reached, `ui` what the UI thread is in the middle of: `submit` lets go of the
lock between its two halves.

### The list and its folder

`ListWatch` has one list and one folder.  `folder` says which version of each
name is there; a change gives a name a new version, and rows are sorted by
version, so that a changed row has to move.  `kernel` is the change handle: the
records between two reads, or only that there were too many (`over`), that the
handle is `broken`, and what the watch on the parent has reported (`away`).
`worker.at` is the place its thread has reached (`enumerate_and_watch` for
directories, `watch_shell_namespace` for namespace folders), `results` the box
of at most `kQueuedBatches` batches, and `list` the pane's `list_`, row store and
native selection.  `Dispatch` is one `process_content_results`, an operator that
folds `Consumed` over the batches (`Appended`, `Updated`, `Noted` for the three
ways the code has to take one) and then `Finished`, which sorts and restores
the selection.  `Delta` and `Sorted` are `RowStore::apply` and
`sort_managed_list_rows`, with the run of rows that is taken to be in order.

In `RowEnrichment` `pane` holds the rows with their property slots, the window
of requests (`interest`, `owed`, `tried`, `queue`), the image cache and the
native image list it indexes, and the merge sort under way; `worker` is the one
request the thread is busy with.  Each item has a `stamp`, which its icon key
carries, and a `look`, which it does not: an overlay change keeps the first and
changes the second.  A batch that touches an item forgets every image of it
(`Forgotten`), of whatever stamp and size.  The loops of the code over rows,
results and cache entries are functions defined step by step (`Asked`,
`AllAccepted`, `Without`), one step per element.  `turn` flips with every message
the window handles, so that fairness can say that it goes on.

In `ListRename` `call` is the Shell operation that is running: what is asked for,
the Shell calls before it takes effect (`step`), and its result; messages run
meanwhile.  `pane.edit` is the edit control with the item it is for and the
place it lies on, `pane.typed` the text that a posted commit will take, and
`pane.pending` the new folders that wait for their rows.  The watch is
`ListWatch` reduced to what reorders and repeats: records in order, an overflow,
a reading of the folder.  A pane's rows are the set of its items put in order
(`Sorted`), except while a list is being recovered: then they stay where they
are until its end, also under a click on a column.  A column can be clicked at
any time, a running Shell call included.  `pane.outdated` exists for the
properties only: a click while a rename of this list runs leaves there the number
that the copy of its row still has (`commit_list_rename` took it before the
call), the one number of an earlier order that can come back.

### Sessions

In `SessionStore` a document is the number of the save that wrote it.  Every
call of `write_session` may fail, the process may stop between any two, and a
temporary file that has not been flushed may lose its contents.  `committed` is
the last save that reported success: what the user may rely on.  `SessionWriter`
counts time in ticks and lets `SetTimer` fail.

`SessionDocument` EXTENDS `SessionStore` and gives each number its contents,
`saved[v]`: the entry of each tab, with the fields this build knows and whether
there are others.  `encode` is `serialize_session` over `preserved`, the document
the state was loaded from, and `decode` is `parse_session`, which takes a
default for some values it cannot read and refuses the document for others.
`Edit` are the tab operations of `core/model` as far as they move, close and
renumber tabs; `VisitDocument` leaves a document as another build or an editor
would, while the program is down.

## What is checked

| Run | Module | Bounds | Shows |
| --- | --- | --- | --- |
| `shutdown` | ShutdownCoordinator | 2 nested calls, 2 posted messages, 1 drag, 1 failed post | gates, teardown and disk agree with what was asked for, and a user's close ends the process |
| `session_store` | SessionDocument | 3 saves, 2 panes, 3 tab ids, 2 edits | recovery over every failure and stop; documents read back and keep foreign fields |
| `session_writer` | SessionWriter | delay 2, ceiling 5 | a dirty session is owed a write, and written |
| `group_commands` | GroupCommands | 2 pane slots, 2 Groups created, 2 posted or held messages, 2 nested calls | the panes follow the active Group; the delete box deletes its Group |
| `list_worker` | ListWorker | 1 pane, 3 requests, box of 2, 1 live and 1 reserve slot | it implements `ResultSource`; slots and threads agree; no wait outlasts its reason |
| `list_watch` | ListWatch | 3 names (one untouched), batches of 2, box of 2, 2 kernel records, 2 changes, 1 fault, 1 Refresh | the rows converge on the folder, in order, with the user's selection |
| `row_enrichment` | RowEnrichment | 2 rows, both visible, 3 sort keys, interest 2, box of 1, cache of 2, 2 disturbances | icons and properties are of their row; the sort is done; lookups end |
| `list_rename` | ListRename | 3 names (two given by the Shell), page of 2, 1 call before the operation, 2 new folders, 2 commands, 2 events | the edit, the commit and the merges of results |
| `pane_navigation` | PaneNavigation | 2 Groups of 2 tabs, 2 folders and an alias, 5 navigations | answers meet the tab they were asked for; histories |
| `pane_tabs` | PaneTabs | 3 pane slots, 3 tab ids | tabs survive gestures, and a drop moves one tab |
| `shutdown_unrequested` | ShutdownCoordinator | 3 nested calls, 3 posted messages | a disagreement (below) |
| `group_layout_lost` | GroupCommands | as `group_commands` | a disagreement (below) |

Some properties join conditions that only make sense together: `CloseKept` (a
close is neither stranded, forgotten nor shown wrongly), `DiskTellsTheEnd`
(saved before the teardown; the marker after it), `PassAndPanesAgree` (a layout
pass stays on the active Group, the panes follow it, held input is replayed, a
nested request is posted), `ThreadsAccounted` (the slot table, the queue behind a
busy thread and the events agree with the threads) and `HistoryKept` (the place
in a history and what a completed navigation may do to it).

Why the bounds are enough.  A close meets an outer Shell call or drag, a box or
a transfer inside it, and the handler that arrives last: two nested calls
under the handler; the reducer's counters are only ever compared with zero.  The
queue holds one continuation and one transfer notification, the two messages
that can be in it.  Three saves give a backup, a primary and an interrupted
write after them, and two edits move a tab away and close or move another; the
proofs cover every number.  Two panes let one be shown and one hidden; two
nested calls let a held message be replayed inside another call; two created
Groups let one be deleted and its id handed out again while a box still waits.
Ticks 2 and 5 let the debounce be reset more than once before the ceiling is
reached.  Three panes let a layout grow by two, which is when two new ids are
asked for at once; three tabs let a drop land before, between and after others,
and leave a pane with its last tab.  Five navigations over two tabs and two
Groups let an answer arrive after the tab, the Group and the tab again have
changed, and build a history of three entries, go back, fail and retry.  One
live and one reserve slot make both the full table and the hand-over to the
reserve happen within three requests.  Two kernel records overflow with a
rename and one more change; two changes are a change during a lookup, a rescan
or a wait, and one after it.  A cache of two pictures under two rows and their
types has to evict, and the removal of the first row moves the second under
lookups that name its place; the proofs cover every number of rows; one result in the box makes the worker wait.  Two commands
and two events let a posted commit meet a cancelled edit, another edit and a
reordering.

Fairness.  `ShutdownCoordinator!Fairness` says that every call returns, at each
depth of the stack (strong fairness, because other calls may nest above it over
and over), that posted messages are served while no gate is held, and that a drag
ends.  Windows' message loop serves posted messages in order; a Shell extension
that never returns is outside the program's promise.  `SessionWriter!WriterSpec` says
that time passes, that a timer which is due is served, and that storage does not
fail for ever.  `ListWorker!Fairness` says that a thread which has been
signalled wakes, one that was told to stop ends, one with room in its box speaks,
and that the UI thread finishes the call it is in; it says nothing of the
operating system's calls, which may block a thread for ever.  `ListWatch` and
`RowEnrichment` let the worker's thread run, its calls return, and the window
dispatch what was signalled or posted; `ListRename` adds that a Shell operation
goes on to its end.  Where a whole dispatch would be too large for TLC to find
out whether it is enabled, the fairness is stated for what it does to one
variable (`Emptied`, `CallMoves`, `WindowRuns`).  No fairness makes a user act, a
folder change or a fault happen.  `GroupCommands`, `PaneTabs`, `PaneNavigation`,
`ResultSource` and `SessionStore` state safety only and assume none.

Deadlock is checked except in `ListWorker`, `ListWatch`, `RowEnrichment` and
`ListRename`, where the system really rests: every pane has closed its Source
and every thread has ended, or the rows are up to date and nobody acts any more.
Elsewhere the explicit steps `Terminated`, `StayDown` and `Closed` are where the
process may really stay.

Every property of a passing run has a mutant: an operator beside the definition
it changes, written the way a plausible slip in that code would look, under
which TLC finds the property violated.

## Disagreements found

Each of these is a run that TLC ends with a counterexample:

* `shutdown_unrequested` (`core/shutdown.cpp:39`).  Close during a file
  transfer sets `close_after_file_operation`; when the save of that close then
  fails and the user keeps PaneDock open, the flag stays.  A later session end
  that is cancelled again does not own its deferral because of the flag, and
  PaneDock closes unasked.
* `group_layout_lost` (`main.cpp:3527`, `main.cpp:1546`).  The shutdown gate
  swallows `kDeferredLayoutMessage` while `layout_message_queued` stays set.
  `shell_settings_refresh_queued` (`main.cpp:3585`) has the same shape.

These are stated as properties of their modules and kept out of the runs; put
into the cfg of the module, each gives a counterexample:

* `CheckpointSurvives` (`core/shutdown_coordinator.cpp:119`).  A close that is
  queued when Windows confirms the session end saves once more, with the marker
  false, over the checkpoint that was to outlive a kill.
* `MarkerFalseWhileRunning` (`core/shutdown_coordinator.cpp:75`).  A cancelled
  session end leaves the marker of its checkpoint true until the next save.
* `InterruptedWriteKept` (`core/session.cpp:670`).  The start that accepts an
  interrupted write removes it before the document is saved again.
* `NothingInherited` (`core/session.cpp:477`), with `MaxEdits` 3.  A new tab that
  is given a closed tab's id takes over its unknown fields at the next save.
* `LoadingNeverStranded` (`pane_managed_list.cpp:629`).  A close that begins
  while `start_managed_list` asks for the address bar's display name makes it
  return with the list in phase loading and nothing submitted; if the close is
  called off, no answer ever ends the loading.
* `LoadingNeverLost` (`list_worker.cpp:1121`).  A worker that runs out of memory
  replaces the batches not taken yet by one emergency batch.  After the listing
  is complete that batch is a watch error, which the pane takes for the end of
  the watch only: the replaced end of the listing never reaches it.
* `RefusedOnlyWhenFull` (`list_worker.cpp:1184`), with 4 requests and a box of 1.
  A thread that retires while the reserve is full keeps its live slot and is
  never moved later, so a retry is refused while the reserve is empty.
* `NeverSilentlyStale` of `ListWatch`, with `ReturnsAt = {"probe"}`
  (`list_worker.cpp:1045`).  A folder that is gone at a lookup and back at the
  probe keeps its watch; if nothing was decoded yet, no rescan is asked for and
  the change whose lookup failed is dropped.
* `ClickEndsOrder` (`pane_list_rename.cpp:335`, `pane_managed_list.cpp:506`).  A
  rename copies its row, with the number that keeps a new folder at the end,
  before the Shell call that pumps.  A column clicked meanwhile sorts the rows and
  clears their numbers, which `docs/testing.md:40` says an explicit sort does;
  the merge of the copy brings the old number back.  The row is at the end again,
  and a folder created later may get the same number.  `NewFoldersStayLast` of
  the run `list_rename` allows for that one number and no other.
* `FocusLossCommits` (`pane_list_rename.cpp:272`, `pane.h:271`).  The loss of
  focus posts the commit of an edit; when a click into another pane took the
  focus, that pane is active by the time the message runs, which refuses it, and
  the text is dropped.
* `DropStaysInSight` (`main.cpp:2374`).  A drag that outlives a change of layout
  drops its tab into a hidden pane; `tab_drag.h` says it comes to nothing.

Also seen while modelling: the comment at `main.cpp:3341` says the sidebar's
menu can open during an outer Shell call, but `group_list_proc` holds
`WM_CONTEXTMENU` then; the id a pressed close button remembers (`main.cpp:2528`)
may name another tab at the release, since a freed id is given out again;
`pane.h:501` says an edit survives unrelated batches, but putting the view back
scrolls the list, and the notification of the scroll cancels it
(`pane_list_icons.cpp:510`); a commit that runs during another Shell call drops
its text; a Group created while the delete box is open can get the id of the
chosen Group, when that one was deleted inside the box, and is then deleted by the
answer (`main.cpp:1958`, `main.cpp:1987`; `DeletesChosenGroup` promises the
chosen Group only while it is there, and 3 posted messages are needed to see
more); and a session of a newer schema is refused (`session.cpp:440`) and,
after a warning, overwritten by the first save.

## What is proved

TLAPS checks the theorems for every value of the constants.

* `SessionDocumentProofs`, its first part, about `SessionStore`.  `IInv` strengthens the properties to an inductive
  invariant: while a save runs, the temporary file holds the document it is
  writing once it has been filled (`TemporaryWritten`); after the rotation the
  backup is the old primary and a parsing temporary stands beside it
  (`RotationSound`); nothing on disk is newer than the newest save
  (`NothingNewer`), the backup never newer than what is to be recovered
  (`BackupOldest`), and whichever file would be read is at least as new as
  `committed` (`CommittedKept`).  `CommittedSurvives` alone is not inductive: it
  says nothing of which file holds the document between two calls.  The two
  action properties follow from the same invariant.
* `SessionDocumentProofs`, the rest.  `StoreImplemented`: each step of the composition is
  one of `SessionStore` or leaves the files alone, so the theorems above hold of
  documents with contents, edits and other builds.  The pure part is three
  lemmas: what `encode` writes decodes to what it was given (`RoundTrip`), a valid
  state is never written as a document a start refuses (`Readable`), and every
  edit keeps a state valid (`EditValid`).  `DInv` adds that every version in a
  file, or in the save that runs, has a document that can be read, and that the
  fields `kept` records are still in `preserved`; `ReadsBack` is not inductive
  because a save takes several steps before its document is in a file it names.
* `SessionDocumentProofs`, its last part, about `SessionWriter`.  `DirtyIsOwed` with
  the type invariant is inductive; the lemmas are about `ArmTimer` and `Write`,
  which every action uses.
* `ListWorkerProofs`.  The three safety properties of the run `list_worker`, for
  any number of panes, slots and requests and any size of the box, among them the
  refinement: `SourceImplemented` maps every step to one of `ResultSource` or to
  a stutter.  The invariant is built from one worker up.  `WorkerOK` says what a
  `State` may look like by itself: where the thread is decides whether it counts
  as busy and what it has open (`PlaceOK`), nothing is in the box for a request
  nobody waits for and an emergency stands there alone (`BoxOK`), and as long as
  somebody waits the last answer is one after which the thread may be where it is
  (`SaidOK`), which is why the next answer is in order.  `TableOK` counts the
  threads in the slots; that a name is left for a new thread is the pigeonhole
  principle (`NameLeft`).  `SourcesOK`, `CallOK` and `OwedOK` tie the panes to
  their workers: `LoadingIsOwed` alone is not inductive because a batch may leave
  the box before the one that ends the loading is in it (`Owed`).  `Kept` is what
  every step of a thread guarantees to the others, one lemma for each action, and
  `Untouched` what a call of the UI thread for one pane leaves to the other panes.
* `ShutdownCoordinatorProofs`.  The four safety properties of the run `shutdown`,
  for stacks and queues of any size.  `Calls` ties the reducer to the call stack:
  each of its gates is the number of frames that hold it (`CountsMatch`; the count
  of drag targets may be ahead of the frames, since a target counts before it is
  entered), a busy phase of a file operation has nothing above it (`BusyOnTop`),
  the save box stands above no gate and what is retried waits outside of Shell
  calls, a close under way leaves nothing to return into, and a close that
  continues is queued or has a frame that will.  The rest says whom a close
  belongs to: a deferral is held by somebody (`DeferralHeld`), a session end owns
  it only while Windows waits (`OwnedBySession`), the user's is carried until the
  user withdraws it (`UserCloseCarried`), and the caption and the transfer prompt
  are about something that is still there (`CaptionTrue`, `PromptAboutTransfer`).
  Each of the reducer's events has its lemma, and each action follows from the
  events it sends in the order in which it sends them.  The properties are not
  inductive by themselves: they compare flags that different frames will clear.
* `GroupCommandsProofs`.  The three properties of the run `group_commands`.
  `StackOK` is the shape of the call stack: commands begin on boxes only, a loop
  that waits has its own Shell call right above it, passes never nest, nothing
  stands on a transition that has not bound its Group yet (`StackInOrder`,
  `StepsInOrder`), and a menu or box that remembers an id means the Group it was
  opened for as long as that Group is there (`Knows`).  `PanesOK` is a debt: a pane that
  is not what the active Group wants it to be has a step ahead of it on the stack
  that will make it so (`BoundAsPlanned`, `KeptAcrossRebind`, `HiddenIsAhead`,
  `NavigationIsAhead`), which is why `PassAndPanesAgree`, which speaks of an empty
  stack, holds when the last frame returns.  The lemmas are what pushing and popping
  do to each part, what each command keeps (`CommandOK`), and which Groups
  survive it (`Survive`).
* `PaneTabsProofs`.  Both properties of the run `pane_tabs`, for any number of
  panes and tabs.  `IInv` adds to `TabsReachable` that one gesture holds the mouse
  (`OneGesture`) and that, while no command has run, the place a drag came from
  still holds the tab that was grabbed and its slot exists (`HoldsItsTab`).  There
  is one lemma for each operation of the model (`close_tab`, `add_tab`,
  `reorder_tab`, the two halves of `move_tab`, `ClosedFirst`).  For
  `DropMovesOneTab`: since ids are unique a Group has as many places as tabs
  (`AsManyPlaces`), and a drop leaves the set of tabs as it was.  `close_tabs` is
  followed for every number of closings through the first one that would go
  wrong (`Least`), because the library's induction theorem takes an operator.
* `PaneTabsProofs`, its last part, about `PaneNavigation`.  All four properties of
  the run `pane_navigation`.  `NavigationInv` adds what the Source still owes at each place the UI thread can be in
  (`PlaceAndSource`), that a list that is not empty is the active tab's
  (`ListOfTab`), and that the members say what an unfinished navigation was for
  (`MeantStill`), which a Refresh after a failure takes over.  The lemmas follow
  the helpers of the code: a record keeps the place in the history
  (`RecordedKeeps`), a canonical name is put in both places (`RenamedKeeps`), a
  step lands on an entry that exists (`LandedKeeps`).
* `ListWatchProofs`.  `OnlyFaultsEndTheWatch` and `RowsInOrder` of the run
  `list_watch`, for any folder, any size of a batch and of the kernel's buffer, and
  any number of changes, faults and refreshes.  What the list shows lags behind
  what the worker has said, so `IInv` says that the two are joined by a path
  (`Path`): each batch under way takes the list from the stage it will be at when
  the batches before it are taken (first reading, listed, following, rescanning)
  to the next one, and the last of them is the stage of the worker, unless the
  reading or the folder is over (`Moves`, `Follows`).  Along the path a first
  reading hands out ascending names (`Ascending`), which is what makes its rows
  distinct, since they are appended without a look at the index.  `Reasons` keeps
  why the worker gave up and why a watch is closed, and `InOrder` that the rows
  are distinct at all times and in order unless the list is being put together
  again.  A dispatch takes its batches in turn (`AllConsumed`): `Taken` says what
  the list with the locals of `process_content_results` has become after k of
  them, `Finished` sorts what is left out of order.  The pure part: `Arranged` is a
  sorted permutation for any rows of different names, by the same counting as in
  `RowEnrichment`; `Upserted` keeps the rows distinct and the untouched ones in
  their places; what `Delta` leaves in front is a sorted run, so that sorting the
  rest and merging is sorting.  Two hypotheses stand before the theorems.
  `TwoBatches`: `kQueuedBatches` is at most 2, as it is
  (`list_worker.h:33`; a dispatch takes no more either, `pane_managed_list.cpp:689`).
  A dispatch of three could take the end of a first reading, the report of its
  watch and a delta, which is merged into rows not sorted yet, and TLC finds
  `RowsInOrder` violated with `QueuedBatches = 3`: the order of the rows rests on
  that constant.  `NotWhileGivingUp`, for `OnlyFaultsEnd` only: a folder that was moved away does not come back while the
  worker reads it again, has found it gone or has said so; then `there` no longer
  holds the reason, and TLC finds `OnlyFaultsEndTheWatch` violated.
* `ListRenameProofs`.  The three safety properties of the run `list_rename`, for any
  folder, page, box of batches and number of commands and other events.  `IInv`
  says of the pane that typed text is for the open edit, that only an open edit
  has the focus and that no edit is open while an operation of the pane runs
  (`OneEdit`), that the edit lies on its item's row, in view (`OnRow`), and that
  what is selected is there (`Chosen`); of the running call that its pane is
  marked busy (`Busy`), that a rename works on the item the text was typed for
  (`OwnTarget`), and that no call is from a later list than the pane's.
  `NewFoldersStayLast` needs more: a number that stands for a new folder is on
  one row, or owed to one that is still to come, and none is beyond the last
  number given out (`RowsOK`), and the row being renamed stands there with its
  number as long as the list has not been started again (`OldRow`), so that the
  merge hands on a number nobody else has.  A click on a column during the rename
  clears the numbers under the copy of the row that the rename works with, and
  then `RowsOK` and `OldRow` hold for every number but the outdated one
  (`pane.outdated`): a row may have it although it is beyond the last number
  given out, and several rows may, which stand side by side and in no promised
  order among themselves (`Precedes`).  Nothing more is promised, since nothing
  more is true; that a number comes back at all is why `ClickEndsOrder` fails.  The
  pure lemmas follow the list through `Delta`, `Merged` and `Gathered`: a number
  has one origin (`AfterDeltaHas`, `AfterMergeHas`, `MarkedKeeps`).  Batches and
  rows are taken in turn by recursive functions (`AllConsumed`, `AllMarked`), whose
  every step keeps what the first state had; a first step that does not is
  contradicted as in `PaneTabs`.
* `RowEnrichmentProofs`.  The four safety properties of the run `row_enrichment`,
  for any number of rows, window, keys, interest, capacity, merge steps and
  disturbances.  None is inductive.  `SlotsMatchKeys` lets two entries share a
  slot, and the removal of one would take the other's image: `CacheOK` gives each
  its own.  `NothingOlderThanItsRow` speaks of rows, images and properties, while
  what will be shown is still in the results or in the worker's hands: `KeyOK` says
  that no row is older than a key that is under way or cached, and `ReadOK` that
  what was read for a key is as new as a row with that key (`AnswersOK`,
  `ImagesOK`); a change of a row keeps both only because it forgets the images of the
  item and drops the lookups, or, during a rescan, because the stamp differs
  (`RowOK` keeps the rows behind the disk).  For `DoneMeansSorted` a sort that is
  pending owes something for each row its cursor has passed (`CursorOK`), and a merge
  under way is about the rows as they are, with nothing outstanding that could
  change them (`OrderOK`): so the step that commits it finds what it computed at
  the first.  `SortOK` says what is in order when no sort is pending.  `Coming` is
  `OwedIsComing` as the invariant carries it.  The pure part: an order of n places has
  exactly one place with k others before it, by counting (`Ranked` is a
  permutation in that order), an eviction keeps every other entry with its image,
  each loop that collects requests stays within `Interest` and asks for what the
  cursor passes, and a loop's last state has what each of its steps keeps.

`TypeCorrect` and `WriterTypeCorrect` of `SessionDocumentProofs` prove the type
invariants of `SessionStore` and `SessionWriter`; the other invariants take type correctness in as their first
conjunct.

Assumptions: the named `ASSUME`s about the constants, and the two hypotheses of
`ListWatchProofs`.  Sizes are naturals,
marker values such as `Closed` and `None` are none of the values they stand
beside (`DocumentAssumption`, `OutsideAssumption`), every pane has room for a tab
of its own, and an alias resolves to a folder (`LocationsAssumption`).

The inductive invariants were model-checked before they were proved, on the
bounds of the runs and beyond: `ShutdownCoordinator` with 3 nested calls and 3
posted messages (1,019,287 states), `GroupCommands` with the run's bounds
(2,925,301) and with 1 pane slot and 3 Groups and messages (5,918,111 states),
`PaneTabs` with the run's bounds (235,011), `ListRename` with the run's bounds
(800,619), `RowEnrichment` with 2 rows, a cache of 3 and 3 disturbances
(4,549,978), `ListWatch` with the run's bounds (610,708).

Model-checked only: `NeverSilentlyStale`, `SelectionIsTheUsers` and
`UntouchedRowsStay` of `ListWatch`, and all liveness (`UserCloseResolves`,
`DirtyIsSaved`, `NoWakeUpMissed`, `ComesToRest`, `SettlesAtLast`,
`EndsAsTheFolder`): fairness and `ENABLED` are beyond the prover. What a fold
computes for every input is beyond it too, so `PaneTabs`, `ListRename`,
`RowEnrichment` and `ListWatch` have recursive functions in place of folds. The
first three are not beyond it but left: they relate the rows and the selection
to the folder's versions through every record, lookup and batch under way, which
`Path` says nothing of.

## What is left out, and why

* `ShutdownCoordinator`: the main loop's exit on a failed wait; `WM_ENDSESSION`
  with FALSE and no session end before it, which changes nothing; the contents of the
  session; posts fail at most `MaxPostFailures` times and the queue is bounded
  by `QueueRoom`.  A drag never enters a window that a message box disables.
* `SessionStore`, `SessionDocument`: the JSON and UTF-8 text, pinned locations,
  the fields of Groups and panes, which are preserved like those of tabs, and
  the order of tabs.  Directory creation fails with the removal of the temporary
  file.  A file that cannot be opened reads like a torn one.
* `GroupCommands`: renaming, reordering by drag, hovering (the same as
  selecting), the start-up's deferred realization, a failed post of the layout
  message, and ids that are not `group-<n>`. A transition also asks the Shell
  for the names on the tab strips (`group_transition.cpp:13`, `:46`,
  `main.cpp:652`) between the steps that are kept; what such a call lets in
  arrives as well at the pumping step before or after it. Histories
  `interrupted` and `born` exist for the properties only.
* `PaneTabs`: histories and locations (`PaneNavigation`), divider ratios, the
  labels of the strips.  Gestures begin only where a mouse can: buttons, menus
  and the hover of a file drag wait until no gesture holds the mouse.
* `PaneNavigation`: rows and the snapshot cache; Up, which is a navigation to a
  computed folder; a pane that has not been realized; the restoration of
  histories from a session.
* `ListWorker`: the contents of batches (`ListWatch`), injected test errors,
  `CancelSynchronousIo`, which is best effort; icon threads.
* `ListWatch`: which folder replaces a lost one, the exact delays of a rescan,
  filters. A batch that is given up midway, for want of room, leaves the rows it
  had come to in the code (`row_store.cpp:98-188`) and none here; the list has
  failed in both, and no property asks anything of its order. A folder that was
  moved away comes back only where `ReturnsAt` lets it, because of the
  disagreement above.
* `RowEnrichment`: a hidden list, a failing native image list, the Duration
  column, the scan for types in slices, the pool of slots and threads, and the
  number of the viewport.  Byte budgets count as a refused window of requests.
* `ListRename`: a close of the window, the restoration of focus after an
  operation, hidden extensions, cut marks, the geometry of the edit, names that
  differ in case only, and clipboard formats.
* Not modelled: the address text and columns, context menus, the start-up
  notification, the dialog of pinned locations, window placement, palette and
  diagnostics, which are stateless or keep state nobody else reads; painting,
  geometry, text and COM plumbing.

## Plan

Done: closing (`ShutdownSequence`, `ShutdownCoordinator`), sessions
(`SessionStore`, `SessionDocument`, `SessionWriter`), Group
commands (`GroupCommands`), navigation (`PaneNavigation`), the list's threads
(`ResultSource`, `ListWorker`), panes and tabs (`PaneTabs`), the rename edit (`ListRename`), row icons and
properties (`RowEnrichment`), the rows themselves (`ListWatch`), all with their
proofs.

Left, in order:

1. `SnapshotCache` (`pane_managed_list.cpp` 176-252, `bounded_lru.h`): the cache
   of lists by Group and tab, whose ids are handed out again.
2. `DragHover` (`main.cpp` 202-372): timers and generations of the hover target.
   `StartUp` (`main.cpp` 4221-4275): deferred realization against a close.
3. The drop targets of a list (`pane_list_drag_drop.cpp`) and the restoration of
   focus after an operation.
4. Pure functions against a reference: `layout.cpp` (rectangles cover the window
   and do not overlap, for every ratio and size), `key_routing.cpp`.
5. Proofs: `NeverSilentlyStale`, `SelectionIsTheUsers` and `UntouchedRowsStay`
   of `ListWatch`, with a version of `Path` that knows what each batch was read from.
