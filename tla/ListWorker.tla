----------------------------- MODULE ListWorker -----------------------------
(***************************************************************************)
(* The threads behind the Sources of the panes                             *)
(* (src/src/managed_list/list_worker.cpp): a process-wide table of slots,  *)
(* one State and one thread per worker, and the calls the UI thread makes  *)
(* on a Source (start_managed_list, process_content_results,               *)
(* cancel_managed_list).                                                   *)
(*                                                                         *)
(* Grain: a step is what happens under one hold of State::mutex, or one    *)
(* wait.  Between two steps a worker may be inside an operating-system     *)
(* call for ever.  The UI thread runs one Source call at a time; submit()  *)
(* is two steps because it lets go of the lock in between.                 *)
(*                                                                         *)
(* A State lives as long as its thread or its Source holds it.  A thread   *)
(* ends only when stop is set, which only its Source's last call does, so  *)
(* a slot is expired exactly when its thread is gone, and reads empty.     *)
(***************************************************************************)
EXTENDS Integers, Sequences

CONSTANTS
  Panes,        \* the panes, each with a Source of its own
  MaxRequests,  \* how often the panes ask
  Namespaces,   \* the requests for a namespace folder; the rest name a directory
  QueuedBatches,\* kQueuedBatches
  Live,         \* kMaxSubscriptions
  Reserve       \* kMaxRetiredWorkers

ASSUME RequestsAssumption == MaxRequests \in Nat \ {0} /\ Namespaces \subseteq 1 .. MaxRequests
ASSUME QueueAssumption == QueuedBatches \in Nat \ {0}
ASSUME PoolAssumption == Live \in Nat \ {0} /\ Reserve \in Nat

VARIABLES
  slots,        \* slots[n]: the weak pointers; the first Live entries are live, the rest the reserve
  state,        \* state[w]: the State of a worker and where its thread is
  source,       \* source[p]: the State the pane's Source holds
  list,         \* list[p]: the pane's list_.request and whether its phase is loading
  ui,           \* what the UI thread is in the middle of
  refused       \* refused[p]: why the pane's last submit was refused

vars == <<slots, state, source, list, ui, refused>>

\* One name more than there are slots: nothing but the code bounds the threads.
Workers == 1 .. Live + Reserve + 1

NoWorker == 0

NoSource == -1

Closed == -2

\* The abstract Source each pane sees.
Serving(p) == source[p] \in Workers

Asked == [p \in Panes |->
  IF ~Serving(p) THEN 0
  ELSE LET s == state[source[p]] IN
       IF s.pending # 0 THEN s.pending ELSE IF s.current THEN s.request ELSE 0]

Said == [p \in Panes |->
  IF ~Serving(p) \/ state[source[p]].pending # 0 \/ ~state[source[p]].current
  THEN "asked" ELSE state[source[p]].published]

Box == [p \in Panes |->
  IF ~Serving(p) THEN <<>> ELSE state[source[p]].emergency \o state[source[p]].results]

Abstract == INSTANCE ResultSource WITH asked <- Asked, said <- Said, box <- Box

Kinds == Abstract!Kinds

Answers == Abstract!Answers

Places == {"free", "wait", "read", "listed", "open", "opened", "idle", "look", "rescan", "publish", "done"}

Gone == [at |-> "free", asleep |-> FALSE, stop |-> FALSE, current |-> FALSE, running |-> FALSE,
         watch_open |-> FALSE, initial_complete |-> FALSE, pending |-> 0, request |-> 0,
         results |-> <<>>, emergency |-> <<>>, ready |-> FALSE, control |-> FALSE,
         published |-> "asked", saying |-> "asked"]

Idle == [op |-> "none"]

State == [at : Places, asleep : BOOLEAN, stop : BOOLEAN, current : BOOLEAN, running : BOOLEAN,
          watch_open : BOOLEAN, initial_complete : BOOLEAN, pending : 0 .. MaxRequests,
          request : 0 .. MaxRequests, results : Seq(Answers), emergency : Seq(Answers),
          ready : BOOLEAN, control : BOOLEAN,
          published : Kinds \cup {"asked"}, saying : Kinds \cup {"asked"}]

TypeOK ==
  /\ slots \in [1 .. Live + Reserve -> Workers \cup {NoWorker}]
  /\ state \in [Workers -> State]
  /\ \A w \in Workers : Len(state[w].results) <= QueuedBatches /\ Len(state[w].emergency) <= 1
  /\ source \in [Panes -> Workers \cup {NoWorker, NoSource, Closed}]
  /\ list \in [Panes -> [request : 0 .. MaxRequests, loading : BOOLEAN]]
  /\ ui \in {Idle} \cup [op : {"submit", "place", "cancel"}, pane : Panes]
  /\ refused \in [Panes -> {"no", "full", "reserve has room", "resources"}]

Init ==
  /\ slots = [n \in 1 .. Live + Reserve |-> NoWorker]
  /\ state = [w \in Workers |-> Gone]
  /\ source = [p \in Panes |-> NoSource]
  /\ list = [p \in Panes |-> [request |-> 0, loading |-> FALSE]]
  /\ ui = Idle
  /\ refused = [p \in Panes |-> "no"]

-----------------------------------------------------------------------------
(* The table of slots.  sl and st are the table and the states at hand. *)

FreeLive(sl) == {n \in 1 .. Live : sl[n] = NoWorker}

FreeReserve(sl) == {n \in Live + 1 .. Live + Reserve : sl[n] = NoWorker}

Smallest(S) == CHOOSE n \in S : \A m \in S : n <= m

\* Left behind by its Source in the middle of something.
Abandoned(s) == s.stop /\ (s.running \/ s.watch_open)

\* The outcomes of acquire(): a thread in the first free live slot; no slot; no
\* handles for one, before the thread exists or after, when it is told to stop.
Acquired(sl, st) ==
  LET free == FreeLive(sl)
      w == CHOOSE x \in Workers : st[x].at = "free"
      new == [Gone EXCEPT !.at = "wait"]
      In(s, got, why) == [slots |-> [sl EXCEPT ![Smallest(free)] = w],
                          state |-> [st EXCEPT ![w] = s], worker |-> got, why |-> why]
      Nothing(why) == [slots |-> sl, state |-> st, worker |-> NoWorker, why |-> why]
  IN IF free = {}
     THEN {Nothing(IF FreeReserve(sl) # {} /\ \E n \in 1 .. Live : Abandoned(st[sl[n]])
                   THEN "reserve has room" ELSE "full")}
     ELSE {In(new, w, "no"), In([new EXCEPT !.stop = TRUE], NoWorker, "resources"),
           Nothing("resources")}

\* Mutant: the first entry of the reserve, taken or not.
RetiredAnywhere(sl, w) ==
  LET from == {n \in 1 .. Live : sl[n] = w} IN
  IF from = {} \/ Reserve = 0 THEN sl
  ELSE [sl EXCEPT ![Live + 1] = w, ![Smallest(from)] = NoWorker]

\* retire(): moves w out of its live slot if the reserve has room.
Retired(sl, w) ==
  LET from == {n \in 1 .. Live : sl[n] = w}
      to == FreeReserve(sl)
  IN IF from = {} \/ to = {} THEN sl
     ELSE [sl EXCEPT ![Smallest(to)] = w, ![Smallest(from)] = NoWorker]

\* Mutant: nobody is notified.
InvalidatedSilently(s, stop) ==
  [s EXCEPT !.control = TRUE, !.current = FALSE, !.stop = stop, !.pending = 0,
            !.results = <<>>, !.emergency = <<>>, !.ready = FALSE]

\* invalidate(), under the worker's lock: interest ends, the queues are emptied,
\* and both kinds of wait are woken.
Invalidated(s, stop) ==
  [s EXCEPT !.control = TRUE, !.current = FALSE, !.stop = stop, !.pending = 0,
            !.results = <<>>, !.emergency = <<>>, !.ready = FALSE, !.asleep = FALSE]

\* cancel().
Cancelled(st, w) == IF w \in Workers THEN [st EXCEPT ![w] = Invalidated(@, FALSE)] ELSE st

-----------------------------------------------------------------------------
(* The UI thread. *)

\* The requests of all panes are numbered through.
NextRequest(n) ==
  /\ \A p \in Panes : list[p].request < n
  /\ n = 1 \/ \E p \in Panes : list[p].request = n - 1

\* start_managed_list up to submit: a Source is opened when the pane has none,
\* its State cancelled, and the list put into loading.
Start(p) ==
  /\ ui = Idle
  /\ source[p] # Closed
  /\ \E a \in IF source[p] = NoSource THEN Acquired(slots, state)
              ELSE {[slots |-> slots, state |-> state, worker |-> source[p], why |-> "no"]} :
       /\ slots' = a.slots
       /\ state' = Cancelled(a.state, a.worker)
       /\ source' = [source EXCEPT ![p] = IF a.why = "no" THEN a.worker ELSE NoSource]
       /\ refused' = [refused EXCEPT ![p] = a.why]
  /\ \E n \in 1 .. MaxRequests :
       /\ NextRequest(n)
       /\ list' = [list EXCEPT ![p] = [request |-> n, loading |-> TRUE]]
  /\ ui' = [op |-> "submit", pane |-> p]

\* Mutant: a refusal is not told to the list.
SubmitRefusedSilently(p) ==
  LET w == source[p]
      busy == w \in Workers /\ (state[w].running \/ state[w].watch_open)
      st == IF busy THEN [state EXCEPT ![w] = Invalidated(@, TRUE)] ELSE state
      sl == IF busy THEN Retired(slots, w) ELSE slots
  IN /\ ui = [op |-> "submit", pane |-> p]
     /\ IF w = NoSource \/ (w \in Workers /\ ~busy)
        THEN UNCHANGED <<slots, state, source, refused>>
        ELSE \E a \in Acquired(sl, st) :
               /\ slots' = a.slots
               /\ state' = a.state
               /\ source' = [source EXCEPT ![p] = a.worker]
               /\ refused' = [refused EXCEPT ![p] = a.why]
     /\ ui' = IF source'[p] \in Workers THEN [op |-> "place", pane |-> p] ELSE Idle
     /\ UNCHANGED list

\* submit(), first hold of the lock: a State that is busy or watches is stopped
\* and left behind, and another one acquired.
Submit(p) ==
  LET w == source[p]
      busy == w \in Workers /\ (state[w].running \/ state[w].watch_open)
      st == IF busy THEN [state EXCEPT ![w] = Invalidated(@, TRUE)] ELSE state
      sl == IF busy THEN Retired(slots, w) ELSE slots
  IN /\ ui = [op |-> "submit", pane |-> p]
     /\ IF w = NoSource \/ (w \in Workers /\ ~busy)
        THEN UNCHANGED <<slots, state, source, refused>>
        ELSE \E a \in Acquired(sl, st) :
               /\ slots' = a.slots
               /\ state' = a.state
               /\ source' = [source EXCEPT ![p] = a.worker]
               /\ refused' = [refused EXCEPT ![p] = a.why]
     /\ IF source'[p] \in Workers
        THEN ui' = [op |-> "place", pane |-> p] /\ UNCHANGED list
        ELSE ui' = Idle /\ list' = [list EXCEPT ![p].loading = FALSE]

\* submit(), second hold: the request is handed over.
Place(p) ==
  /\ ui = [op |-> "place", pane |-> p]
  /\ state' = [state EXCEPT ![source[p]] =
       [@ EXCEPT !.control = TRUE, !.current = FALSE, !.results = <<>>, !.emergency = <<>>,
                 !.ready = FALSE, !.pending = list[p].request, !.asleep = FALSE]]
  /\ ui' = Idle
  /\ UNCHANGED <<slots, source, list, refused>>

\* process_content_results with one batch: take(), then what the pane makes of
\* it.  It loses interest after a read error, a lost folder, and whenever the
\* rows exceed its own budget.
Take(p) ==
  LET w == source[p] IN
  /\ ui = Idle
  /\ w \in Workers
  /\ state[w].ready
  /\ LET s == state[w]
         urgent == s.emergency # <<>>
         rest == IF urgent \/ s.results = <<>> THEN s.results ELSE Tail(s.results)
         batch == IF urgent THEN s.emergency ELSE SubSeq(s.results, 1, 1)
         mine == batch # <<>> /\ batch[1].request = list[p].request
         kind == IF mine THEN batch[1].kind ELSE "none"
         gives_up == kind \in {"failed", "refailed", "lost"}
     IN /\ state' = [state EXCEPT ![w] =
             [s EXCEPT !.emergency = <<>>, !.results = rest, !.ready = ~urgent /\ rest # <<>>,
                       !.asleep = @ /\ (urgent \/ s.results = <<>>)]]
        /\ \E over_budget \in IF mine THEN BOOLEAN ELSE {FALSE} :
             /\ list' = IF over_budget \/ kind \in {"listed", "failed", "lost"}
                        THEN [list EXCEPT ![p].loading = FALSE] ELSE list
             /\ ui' = IF over_budget \/ gives_up THEN [op |-> "cancel", pane |-> p] ELSE Idle
  /\ UNCHANGED <<slots, source, refused>>

Cancel(p) ==
  /\ ui = [op |-> "cancel", pane |-> p]
  /\ state' = Cancelled(state, source[p])
  /\ ui' = Idle
  /\ UNCHANGED <<slots, source, list, refused>>

\* cancel_managed_list: the pane shows another Group or is hidden.
Leave(p) ==
  /\ ui = Idle
  /\ state' = Cancelled(state, source[p])
  /\ list' = [list EXCEPT ![p].loading = FALSE]
  /\ UNCHANGED <<slots, source, ui, refused>>

\* ~LocalSource, when the pane is destroyed: the pane asks no more.
Close(p) ==
  LET w == source[p]
      busy == state[w].running \/ state[w].watch_open
      st == [state EXCEPT ![w] = Invalidated(@, TRUE)]
  IN /\ ui = Idle
     /\ w \in Workers
     /\ state' = st
     /\ slots' = IF busy THEN Retired(slots, w) ELSE slots
     /\ source' = [source EXCEPT ![p] = Closed]
     /\ list' = [list EXCEPT ![p].loading = FALSE]
     /\ UNCHANGED <<ui, refused>>

-----------------------------------------------------------------------------
(* A worker thread. *)

\* Mutant: the serial is not compared.
InterestedUnlessStopped(s) == ~s.stop

Interested(s) == ~s.stop /\ s.current

\* Where the thread goes once batch k is in the box, or was not wanted.
After(k, r) ==
  CASE k = "rows" -> "read"
    [] k \in {"listed", "failed"} -> "listed"
    [] k \in {"begin", "rerows"} -> "rescan"
    [] k \in {"watching", "delta", "relisted"} -> "idle"
    [] k = "refailed" -> IF r \in Namespaces THEN "idle" ELSE "done"
    [] OTHER -> "done"

GivesUp(at, r) == IF at = "rescan" /\ r \in Namespaces THEN "idle" ELSE "done"

\* Waiting for the control event or the kernel is not running: UI thread's busy
\* test sees no difference, the watch is open.
GoesTo(s, at) == [s EXCEPT !.at = at, !.asleep = FALSE, !.running = @ /\ at # "idle"]

\* publish(), from place at: refused without interest, else the batch goes into
\* the box, or the thread sleeps until there is room.
Published(s, at, k) ==
  IF ~Interested(s) THEN GoesTo([s EXCEPT !.saying = "asked"], GivesUp(at, s.request))
  ELSE IF Len(s.results) < QueuedBatches
  THEN GoesTo([s EXCEPT !.results = Append(@, [request |-> s.request, kind |-> k]),
                        !.published = k, !.saying = "asked", !.ready = TRUE],
              After(k, s.request))
  ELSE [s EXCEPT !.at = "publish", !.saying = k, !.asleep = TRUE]

\* What the thread may have to say, an exception caught in run() included.
Says(at, r) ==
  CASE at = "read" -> {"rows", "listed", "failed"}
    [] at = "open" -> {"stopped"}
    [] at = "opened" -> {"watching", "stopped"}
    [] at = "look" -> {"begin", "stopped"} \cup IF r \in Namespaces THEN {} ELSE {"delta", "lost"}
    [] at = "rescan" -> {"rerows", "relisted", "refailed", "stopped"}
    [] OTHER -> {}

Worker(w, guard(_), next(_)) ==
  /\ guard(state[w])
  /\ state' = [state EXCEPT ![w] = next(@)]
  /\ UNCHANGED <<slots, source, list, ui, refused>>

\* The wait at the top of run(), and what follows it.
Wait(w) ==
  Worker(w, LAMBDA s : s.at = "wait" /\ ~s.asleep /\ ~s.stop,
    LAMBDA s :
      IF s.pending = 0 THEN [s EXCEPT !.asleep = TRUE]
      ELSE [s EXCEPT !.at = "read", !.request = s.pending, !.pending = 0, !.current = TRUE,
                     !.control = FALSE, !.initial_complete = FALSE, !.running = TRUE,
                     !.published = "asked"])

\* Told to stop, the thread ends and takes its State with it.
Exit(w) ==
  /\ state[w].at = "wait" /\ ~state[w].asleep /\ state[w].stop
  /\ state' = [state EXCEPT ![w] = Gone]
  /\ slots' = [n \in DOMAIN slots |-> IF slots[n] = w THEN NoWorker ELSE slots[n]]
  /\ UNCHANGED <<source, list, ui, refused>>

Say(w) ==
  \E k \in Says(state[w].at, state[w].request) :
    Worker(w, LAMBDA s : TRUE, LAMBDA s : Published(s, s.at, k))

\* Woken inside publish().
SayAgain(w) ==
  Worker(w, LAMBDA s : s.at = "publish" /\ ~s.asleep,
    LAMBDA s : Published(s, IF s.saying \in {"rerows", "relisted", "refailed"}
                            THEN "rescan" ELSE "look", s.saying))

GiveUp(w) ==
  Worker(w, LAMBDA s : s.at \in {"read", "open", "look", "rescan"} /\ ~Interested(s),
    LAMBDA s : GoesTo(s, GivesUp(s.at, s.request)))

\* The first listing has ended.  A directory that could not be read is not
\* watched; some locations cannot be.
Listed(w) ==
  \E watch \in BOOLEAN :
    Worker(w, LAMBDA s : s.at = "listed"
                 /\ ~(watch /\ s.published = "failed" /\ s.request \notin Namespaces),
      LAMBDA s : GoesTo([s EXCEPT !.initial_complete = TRUE], IF watch THEN "open" ELSE "done"))

Open(w) ==
  Worker(w, LAMBDA s : s.at = "open" /\ Interested(s),
    LAMBDA s : [s EXCEPT !.watch_open = TRUE, !.at = "opened"])

\* WaitForMultipleObjects returned: the control event, a change, a timeout.
Woken(s) ==
  IF ~Interested(s) THEN GoesTo(s, "done")
  ELSE [s EXCEPT !.running = TRUE, !.control = FALSE, !.at = "look"]

WakeByControl(w) == Worker(w, LAMBDA s : s.at = "idle" /\ s.control, Woken)

WakeByChange(w) == Worker(w, LAMBDA s : s.at = "idle" /\ ~s.control, Woken)

NothingNew(w) == Worker(w, LAMBDA s : s.at = "look", LAMBDA s : GoesTo(s, "idle"))

\* Out of memory, and again for the batch that would say so.
LastResort(w) ==
  Worker(w, LAMBDA s : s.at \in {"read", "open", "opened", "look", "rescan"},
    LAMBDA s :
      LET k == IF s.initial_complete THEN "stopped" ELSE "failed" IN
      IF ~Interested(s) THEN GoesTo(s, "done")
      ELSE GoesTo([s EXCEPT !.results = <<>>, !.emergency = <<[request |-> s.request, kind |-> k]>>,
                            !.ready = TRUE, !.published = k], "done"))

\* The watch is closed, which may take as long as a driver likes.
Done(w) ==
  Worker(w, LAMBDA s : s.at = "done",
    LAMBDA s : [s EXCEPT !.watch_open = FALSE, !.running = FALSE, !.at = "wait"])

-----------------------------------------------------------------------------

Ui(p) == Start(p) \/ Submit(p) \/ Place(p) \/ Take(p) \/ Cancel(p) \/ Leave(p) \/ Close(p)

Run(w) ==
  \/ Wait(w) \/ Exit(w) \/ Say(w) \/ SayAgain(w) \/ GiveUp(w) \/ Listed(w) \/ Open(w) \/ WakeByControl(w)
  \/ WakeByChange(w) \/ NothingNew(w) \/ LastResort(w) \/ Done(w)

Next == (\E p \in Panes : Ui(p)) \/ (\E w \in Workers : Run(w))

\* A thread that can go on does so, unless it is inside the operating system:
\* no fairness for Say, Done and the rest.  The UI thread serves its loop.
Fairness ==
  /\ \A w \in Workers : WF_vars(Wait(w)) /\ WF_vars(Exit(w)) /\ WF_vars(SayAgain(w)) /\ WF_vars(WakeByControl(w))
  /\ \A p \in Panes : WF_vars(Submit(p)) /\ WF_vars(Place(p)) /\ WF_vars(Take(p)) /\ WF_vars(Cancel(p))

Spec == Init /\ [][Next]_vars /\ Fairness

-----------------------------------------------------------------------------
(* Properties. *)

Alive(w) == state[w].at # "free"

\* list_worker.h: "At most 8 enumeration threads in total".  Every thread is in
\* exactly one slot, a pane's own thread in a live one, and no two panes share one.
SlotsMatchThreads ==
  /\ TypeOK
  /\ \A w \in Workers : Alive(w) => \E n \in DOMAIN slots : slots[n] = w
  /\ \A m, n \in DOMAIN slots : slots[m] = slots[n] /\ slots[m] # NoWorker => m = n
  /\ \A p \in Panes : source[p] \in Workers =>
       /\ Alive(source[p]) /\ ~state[source[p]].stop
       /\ \E n \in 1 .. Live : slots[n] = source[p]
       /\ \A q \in Panes : source[q] = source[p] => q = p

\* "Never queue a successor behind an obsolete OS call": a request is waiting
\* only at a thread with nothing else to do.
NeverQueuedBehind ==
  \A w \in Workers : state[w].pending # 0 =>
    state[w].at = "wait" /\ ~state[w].running /\ ~state[w].watch_open

\* The event the message loop waits on is set exactly while there is something
\* to take: set without, the loop would spin; unset with, the batch stays.
SignalledIffWaiting ==
  \A p \in Panes : source[p] \in Workers =>
    LET s == state[source[p]] IN s.ready <=> (s.results # <<>> \/ s.emergency # <<>>)

\* Threads, slots, panes and waits agree: no thread is out of sight, and both
\* ends know who waits, the thread for a request or the window for a batch.
ThreadsAccounted == SlotsMatchThreads /\ NeverQueuedBehind /\ SignalledIffWaiting

\* A pane in phase loading has an answer coming: its call is under way, its
\* request is waiting, the thread is at it, or the batch that ends the loading
\* is in the box.
AnswerComing(p) ==
  \/ ui # Idle /\ ui.pane = p
  \/ /\ source[p] \in Workers
     /\ LET s == state[source[p]] IN
        \/ s.pending = list[p].request
        \/ /\ Interested(s) /\ s.request = list[p].request
           /\ \/ s.at = "read"
              \/ s.at = "publish" /\ s.saying \in {"rows", "listed", "failed"}
              \/ \E n \in DOMAIN s.results : s.results[n].kind \in {"listed", "failed"}
              \/ s.emergency # <<>> /\ s.emergency[1].kind = "failed"

\* The one exception is the last word of a thread out of memory, LoadingNeverLost.
LoadingIsOwed ==
  \A p \in Panes : list[p].loading =>
    \/ AnswerComing(p)
    \/ source[p] \in Workers /\ state[source[p]].published = "stopped"

\* list_worker.cpp:1117 exposes "a terminal failure" without allocation, so that
\* even a thread out of memory ends the loading of its pane.
LoadingNeverLost == \A p \in Panes : list[p].loading => AnswerComing(p)

\* list_worker.h:27-32: a successor is refused "with both full", the live slots
\* and the reserve.
RefusedOnlyWhenFull == \A p \in Panes : refused[p] # "reserve has room"

\* No wait of a thread outlasts its reason: a request, a stop, room in the box,
\* a loss of interest all get it going again.
MustGoOn(w) ==
  \/ state[w].at = "wait" /\ (state[w].stop \/ state[w].pending # 0)
  \/ state[w].at = "publish"
  \/ state[w].at = "idle" /\ ~Interested(state[w])

NoWakeUpMissed == \A w \in Workers : MustGoOn(w) ~> ~MustGoOn(w)

\* Implements ResultSource: only the current request is answered, at most
\* kQueuedBatches at a time, in an order the pane can apply.
AnswersInOrder == Abstract!SourceSpec
=============================================================================
