--------------------------- MODULE ListWorkerProofs ---------------------------
(***************************************************************************)
(* What ListWorker promises, proved for every number of panes, requests    *)
(* and slots and every size of the box: the table of threads is exact, no  *)
(* list is left loading, and every Source implements ResultSource.         *)
(***************************************************************************)
EXTENDS ListWorker, FiniteSetTheorems, SequenceTheorems, WellFoundedInduction, TLAPS

-----------------------------------------------------------------------------
(* The inductive invariant: first one worker by itself. *)

First == {"rows", "listed", "failed"}

\* Where the thread is says what it has open and whether it counts as busy.
PlaceOK(s) ==
  /\ s.at = "free" => s = Gone
  /\ s.at \in {"read", "listed", "open", "opened", "look", "rescan", "publish"} => s.running
  /\ s.at \in {"opened", "idle", "look", "rescan"} => s.watch_open
  /\ s.at = "publish" => s.saying # "asked" /\ (s.watch_open \/ s.saying \in First \cup {"stopped"})
  /\ s.at = "done" => s.running \/ s.watch_open
  /\ s.at = "wait" => ~s.running /\ ~s.watch_open
  /\ s.pending # 0 => s.at = "wait" /\ ~s.current

\* The box and its event; nothing is in it for a request nobody waits for.
BoxOK(s) ==
  /\ s.ready <=> (s.results # <<>> \/ s.emergency # <<>>)
  /\ s.emergency # <<>> => s.results = <<>> /\ s.at \in {"done", "wait"}
  /\ ~s.current => s.results = <<>> /\ s.emergency = <<>>
  /\ s.current => s.request # 0
  /\ \A n \in DOMAIN s.results : s.results[n].request = s.request
  /\ \A n \in DOMAIN s.emergency : s.emergency[n].request = s.request
  /\ Len(s.results) <= QueuedBatches /\ Len(s.emergency) <= 1

\* As long as somebody waits, the last answer is one after which the thread may
\* be where it is.
SaidOK(s) ==
  Interested(s) =>
    /\ s.at = "read" => s.published \in {"asked", "rows"} /\ ~s.initial_complete
    /\ s.at = "listed" => s.published \in {"listed", "failed"}
    /\ s.at \in {"open", "opened"} =>
         s.published = "listed" \/ (s.published = "failed" /\ s.request \in Namespaces)
    /\ s.at \in {"idle", "look"} =>
         \/ s.published \in {"watching", "delta", "relisted"}
         \/ s.published = "refailed" /\ s.request \in Namespaces
    /\ s.at = "rescan" => s.published \in {"begin", "rerows"}
    /\ s.at = "publish" => /\ s.saying \in Abstract!Follows(s.published, s.request)
                           /\ s.saying \in First <=> ~s.initial_complete
    /\ s.at \in {"open", "opened", "idle", "look", "rescan"} => s.initial_complete

WorkerOK(s) == s \in State /\ PlaceOK(s) /\ BoxOK(s) /\ SaidOK(s)

\* The end of the loading that request r began is still to come, or the thread
\* has said that it could not say it.
Owed(s, r) ==
  \/ s.pending = r
  \/ /\ s.current /\ s.request = r
     /\ \/ /\ s.published = "stopped" /\ s.results = <<>> /\ s.at \in {"done", "wait"}
           /\ \A n \in DOMAIN s.emergency : s.emergency[n].kind = "stopped"
        \/ s.emergency # <<>> /\ s.emergency[1].kind = "failed"
        \/ /\ \A n \in DOMAIN s.results : s.results[n].kind = "rows"
           /\ s.at = "read" \/ (s.at = "publish" /\ s.saying \in First)
        \/ \E n \in DOMAIN s.results :
             /\ s.results[n].kind \in {"listed", "failed"}
             /\ \A m \in 1 .. n - 1 : s.results[m].kind = "rows"

-----------------------------------------------------------------------------
(* Then the workers, the table and the panes together. *)

TableOK(sl, st) ==
  /\ sl \in [1 .. Live + Reserve -> Workers \cup {NoWorker}]
  /\ \A w \in Workers : st[w].at # "free" <=> \E n \in 1 .. Live + Reserve : sl[n] = w
  /\ \A m, n \in 1 .. Live + Reserve : sl[m] = sl[n] /\ sl[m] # NoWorker => m = n

SourcesOK ==
  \A p \in Panes : source[p] \in Workers =>
    /\ Alive(source[p]) /\ ~state[source[p]].stop
    /\ \E n \in 1 .. Live : slots[n] = source[p]
    /\ \A q \in Panes : source[q] = source[p] => q = p

\* What the UI thread has made sure of when it comes back to its call.
CallOK ==
  ui # Idle =>
    /\ ui.op \in {"submit", "place"} =>
         /\ list[ui.pane].request # 0
         /\ source[ui.pane] \in Workers => LET s == state[source[ui.pane]] IN s.pending = 0 /\ ~s.current
    /\ ui.op = "place" => source[ui.pane] \in Workers /\ state[source[ui.pane]].at = "wait"
    /\ ui.op = "cancel" => ~list[ui.pane].loading

Loading(p) == list[p].loading /\ ~(ui # Idle /\ ui.pane = p)

OwedOK ==
  \A p \in Panes : Loading(p) =>
    source[p] \in Workers /\ list[p].request # 0 /\ Owed(state[source[p]], list[p].request)

IInv ==
  /\ TypeOK
  /\ \A w \in Workers : WorkerOK(state[w])
  /\ TableOK(slots, state)
  /\ SourcesOK
  /\ CallOK
  /\ OwedOK

-----------------------------------------------------------------------------
(* One step of a thread. *)

AskedOf(s) == IF s.pending # 0 THEN s.pending ELSE IF s.current THEN s.request ELSE 0

SaidOf(s) == IF s.pending # 0 \/ ~s.current THEN "asked" ELSE s.published

BoxOf(s) == s.emergency \o s.results

\* What the pane can tell of a step from s to t: nothing, an answer, the last word.
Heard(s, t) ==
  /\ AskedOf(t) = AskedOf(s)
  /\ \/ SaidOf(t) = SaidOf(s) /\ BoxOf(t) = BoxOf(s)
     \/ /\ AskedOf(s) # 0
        /\ SaidOf(t) \in Kinds \cap Abstract!Follows(SaidOf(s), AskedOf(s))
        /\ \/ /\ Len(BoxOf(s)) < QueuedBatches
              /\ BoxOf(t) = Append(BoxOf(s), [request |-> AskedOf(s), kind |-> SaidOf(t)])
           \/ /\ SaidOf(t) \in {"failed", "stopped"}
              /\ BoxOf(t) = <<[request |-> AskedOf(s), kind |-> SaidOf(t)]>>

\* What a step of a thread leaves to the others.
Kept(s, t) ==
  /\ WorkerOK(t) /\ t.at # "free" /\ t.stop = s.stop
  /\ s.pending = 0 /\ ~s.current => t.pending = 0 /\ ~t.current
  /\ s.pending = 0 /\ s.at = "wait" => t.at = "wait"
  /\ ~s.stop => \A r \in 1 .. MaxRequests : Owed(s, r) => Owed(t, r)
  /\ ~s.stop => Heard(s, t)

\* Where the box is concerned an emergency and ordinary results exclude each other.
LEMMA BoxIs ==
  ASSUME NEW s \in State, s.emergency = <<>> \/ s.results = <<>>
  PROVE  /\ s.emergency = <<>> => BoxOf(s) = s.results
         /\ s.results = <<>> => BoxOf(s) = s.emergency
BY ConcatEmptySeq DEF BoxOf, State

\* A thread that moves on without a word.
LEMMA MovesOn ==
  ASSUME NEW s, WorkerOK(s), NEW t \in State,
         t.stop = s.stop, t.current = s.current, t.pending = s.pending, t.request = s.request,
         t.results = s.results, t.emergency = s.emergency, t.ready = s.ready,
         t.published = s.published,
         s.at # "free", t.at # "free", PlaceOK(t), SaidOK(t),
         s.at \in {"done", "wait"} => t.at \in {"done", "wait"},
         s.pending = 0 /\ s.at = "wait" => t.at = "wait",
         Interested(s) /\ (s.at = "read" \/ (s.at = "publish" /\ s.saying \in First)) =>
           t.at = "read" \/ (t.at = "publish" /\ t.saying \in First)
  PROVE  Kept(s, t)
<1>1. WorkerOK(t)
  BY DEF WorkerOK, BoxOK
<1>2. Heard(s, t)
  BY DEF Heard, AskedOf, SaidOf, BoxOf
<1>3. ASSUME NEW r \in 1 .. MaxRequests, ~s.stop, Owed(s, r) PROVE Owed(t, r)
  BY <1>3 DEF Owed, Interested
<1> QED
  BY <1>1, <1>2, <1>3 DEF Kept

\* Where GoesTo takes a thread, in the words of its members.
LEMMA GoesToIs ==
  ASSUME NEW s \in State, NEW at \in Places
  PROVE  LET t == GoesTo(s, at) IN
         /\ t \in State
         /\ t.at = at /\ t.running = (s.running /\ at # "idle")
         /\ t.stop = s.stop /\ t.current = s.current /\ t.pending = s.pending
         /\ t.request = s.request /\ t.results = s.results /\ t.emergency = s.emergency
         /\ t.ready = s.ready /\ t.published = s.published /\ t.saying = s.saying
         /\ t.watch_open = s.watch_open /\ t.initial_complete = s.initial_complete
BY DEF GoesTo, State

\* What a thread has to say, or has waited to say.
Speaks(s, at, k) ==
  \/ s.at = at /\ k \in Says(at, s.request)
  \/ /\ s.at = "publish" /\ k = s.saying
     /\ at = IF s.saying \in {"rerows", "relisted", "refailed"} THEN "rescan" ELSE "look"

\* It is something that may follow what was said last.
LEMMA SpeaksInOrder ==
  ASSUME NEW s, WorkerOK(s), NEW at, NEW k, Speaks(s, at, k)
  PROVE  /\ k \in Kinds
         /\ s.at \notin {"free", "wait", "done", "idle"} /\ s.running
         /\ s.watch_open \/ k \in First \cup {"stopped"}
         /\ at = "rescan" => s.watch_open
         /\ s.pending = 0 /\ s.emergency = <<>>
         /\ Interested(s) => /\ k \in Abstract!Follows(s.published, s.request)
                             /\ k \in First <=> ~s.initial_complete
<1>1. /\ s.at \in {"read", "open", "opened", "look", "rescan", "publish"}
      /\ s.at = "read" => k \in First
      /\ s.at = "open" => k = "stopped"
      /\ s.at = "opened" => k \in {"watching", "stopped"}
      /\ s.at = "look" => /\ k \in {"begin", "stopped", "delta", "lost"}
                          /\ s.request \in Namespaces => k \in {"begin", "stopped"}
      /\ s.at = "rescan" => k \in {"rerows", "relisted", "refailed", "stopped"}
      /\ s.at = "publish" => k = s.saying
      /\ s.at # "publish" => at = s.at
  BY DEF Speaks, Says, First
<1>2. k \in Kinds
  <2>1. CASE s.at = "publish"
    BY <1>1, <2>1 DEF WorkerOK, PlaceOK, State
  <2>2. CASE s.at # "publish"
    BY <1>1, <2>2 DEF First, Kinds, Abstract!Kinds
  <2> QED BY <2>1, <2>2
<1>3. s.running /\ (s.watch_open \/ k \in First \cup {"stopped"}) /\ s.pending = 0 /\ s.emergency = <<>>
  BY <1>1 DEF WorkerOK, PlaceOK, BoxOK, First
<1>4. at = "rescan" => s.watch_open
  BY <1>1 DEF WorkerOK, PlaceOK, First, Speaks
<1>5. ASSUME Interested(s) PROVE k \in Abstract!Follows(s.published, s.request) /\ (k \in First <=> ~s.initial_complete)
  <2>1. CASE s.at = "publish"
    BY <1>1, <1>5, <2>1 DEF WorkerOK, SaidOK
  <2>2. CASE s.at = "read"
    BY <1>1, <1>5, <2>2 DEF WorkerOK, SaidOK, First, Abstract!Follows
  <2>3. CASE s.at \in {"open", "opened"}
    BY <1>1, <1>5, <2>3 DEF WorkerOK, SaidOK, First, Abstract!Follows
  <2>4. CASE s.at = "look"
    BY <1>1, <1>5, <2>4 DEF WorkerOK, SaidOK, First, Abstract!Follows
  <2>5. CASE s.at = "rescan"
    BY <1>1, <1>5, <2>5 DEF WorkerOK, SaidOK, First, Abstract!Follows
  <2> QED
    BY <1>1, <2>1, <2>2, <2>3, <2>4, <2>5
<1> QED
  BY <1>1, <1>2, <1>3, <1>4, <1>5

\* After an answer the thread is where it may say what comes next.
LEMMA AfterIs ==
  ASSUME NEW k \in Kinds, NEW r
  PROVE  /\ After(k, r) \in {"read", "listed", "rescan", "idle", "done"}
         /\ After(k, r) = "read" <=> k = "rows"
         /\ After(k, r) = "listed" <=> k \in {"listed", "failed"}
         /\ After(k, r) = "rescan" <=> k \in {"begin", "rerows"}
         /\ After(k, r) = "idle" <=> \/ k \in {"watching", "delta", "relisted"}
                                     \/ k = "refailed" /\ r \in Namespaces
BY DEF After, Kinds, Abstract!Kinds

\* An answer put into the box.
LEMMA Answered ==
  ASSUME NEW s, WorkerOK(s), NEW at, NEW k, Speaks(s, at, k), Interested(s),
         Len(s.results) < QueuedBatches
  PROVE  Kept(s, GoesTo([s EXCEPT !.results = Append(@, [request |-> s.request, kind |-> k]),
                                  !.published = k, !.saying = "asked", !.ready = TRUE],
                        After(k, s.request)))
<1> DEFINE answer == [request |-> s.request, kind |-> k]
           u == [s EXCEPT !.results = Append(@, answer), !.published = k, !.saying = "asked",
                          !.ready = TRUE]
           t == GoesTo(u, After(k, s.request))
<1>1. /\ k \in Kinds
      /\ s.at \notin {"free", "wait", "done", "idle"} /\ s.running
      /\ s.watch_open \/ k \in First \cup {"stopped"}
      /\ s.pending = 0 /\ s.emergency = <<>>
      /\ k \in Abstract!Follows(s.published, s.request)
      /\ k \in First <=> ~s.initial_complete
  BY SpeaksInOrder
<1>2. s \in State /\ s.current /\ ~s.stop /\ s.request \in 1 .. MaxRequests
  BY RequestsAssumption DEF WorkerOK, BoxOK, Interested, State
<1>3. answer \in Answers
  BY <1>1, <1>2 DEF Answers, Abstract!Answers, Kinds
<1>4. /\ Append(s.results, answer) \in Seq(Answers)
      /\ Len(Append(s.results, answer)) = Len(s.results) + 1
      /\ Append(s.results, answer) # <<>>
      /\ \A n \in 1 .. Len(s.results) : Append(s.results, answer)[n] = s.results[n]
      /\ Append(s.results, answer)[Len(s.results) + 1] = answer
  <2>1. s.results \in Seq(Answers)
    BY <1>2 DEF State
  <2> HIDE DEF answer
  <2> QED
    BY <1>3, <2>1, AppendProperties
<1>5. u \in State
  BY <1>1, <1>2, <1>4 DEF State
<1>6. After(k, s.request) \in Places
  BY <1>1, AfterIs DEF Places
<1>7. /\ t \in State
      /\ t.at = After(k, s.request) /\ t.running = (s.running /\ t.at # "idle")
      /\ t.stop = s.stop /\ t.current = s.current /\ t.pending = s.pending
      /\ t.request = s.request /\ t.results = Append(s.results, answer) /\ t.emergency = s.emergency
      /\ t.ready = TRUE /\ t.published = k /\ t.saying = "asked"
      /\ t.watch_open = s.watch_open /\ t.initial_complete = s.initial_complete
  <2>1. /\ u.stop = s.stop /\ u.current = s.current /\ u.pending = s.pending /\ u.running = s.running
        /\ u.request = s.request /\ u.results = Append(s.results, answer) /\ u.emergency = s.emergency
        /\ u.ready = TRUE /\ u.published = k /\ u.saying = "asked"
        /\ u.watch_open = s.watch_open /\ u.initial_complete = s.initial_complete
    BY <1>2 DEF State
  <2> HIDE DEF u
  <2> QED
    BY <1>5, <1>6, <2>1, GoesToIs
<1> HIDE DEF t, u, answer
<1>a. /\ t.at \in {"read", "listed", "rescan", "idle", "done"}
      /\ t.at = "read" <=> k = "rows"
      /\ t.at = "listed" <=> k \in {"listed", "failed"}
      /\ t.at = "rescan" <=> k \in {"begin", "rerows"}
      /\ t.at = "idle" <=> \/ k \in {"watching", "delta", "relisted"}
                           \/ k = "refailed" /\ s.request \in Namespaces
  BY <1>1, <1>7, AfterIs
<1>8. PlaceOK(t)
  BY <1>1, <1>7, <1>a DEF PlaceOK, First
<1>9. BoxOK(t)
  <2>1. \A n \in DOMAIN t.results : t.results[n].request = t.request
    <3>1. DOMAIN s.results = 1 .. Len(s.results) /\ DOMAIN t.results = 1 .. Len(s.results) + 1
      BY <1>2, <1>4, <1>7 DEF State
    <3>2. \A n \in 1 .. Len(s.results) : s.results[n].request = s.request
      BY <3>1 DEF WorkerOK, BoxOK
    <3>3. answer.request = s.request /\ Len(s.results) \in Nat
      BY <1>2 DEF answer, State
    <3> QED
      BY <1>4, <1>7, <3>1, <3>2, <3>3
  <2>2. Len(t.results) <= QueuedBatches
    BY <1>2, <1>4, <1>7, QueueAssumption DEF State
  <2>3. t.emergency = <<>> /\ DOMAIN t.emergency = {} /\ Len(t.emergency) = 0
    BY <1>1, <1>7
  <2>4. t.ready /\ t.current /\ t.request # 0 /\ t.results # <<>>
    BY <1>2, <1>4, <1>7
  <2> QED
    BY <2>1, <2>2, <2>3, <2>4 DEF BoxOK
<1>10. SaidOK(t)
  BY <1>1, <1>7, <1>a DEF SaidOK, First
<1>11. Heard(s, t)
  <2>1. BoxOf(s) = s.results /\ BoxOf(t) = t.results
    BY <1>1, <1>2, <1>7, BoxIs
  <2>2. AskedOf(s) = s.request /\ SaidOf(s) = s.published /\ AskedOf(t) = s.request /\ SaidOf(t) = k
    BY <1>1, <1>2, <1>7 DEF AskedOf, SaidOf
  <2> QED
    BY <1>1, <1>2, <1>7, <2>1, <2>2 DEF Heard, answer
<1>12. ASSUME NEW r \in 1 .. MaxRequests, Owed(s, r) PROVE Owed(t, r)
  <2>1. s.request = r
    BY <1>1, <1>12 DEF Owed
  <2>2. CASE \E n \in DOMAIN s.results : /\ s.results[n].kind \in {"listed", "failed"}
                                         /\ \A m \in 1 .. n - 1 : s.results[m].kind = "rows"
    BY <1>2, <1>4, <1>7, <2>1, <2>2 DEF Owed, State
  <2>3. CASE /\ \A n \in DOMAIN s.results : s.results[n].kind = "rows"
             /\ s.at = "read" \/ (s.at = "publish" /\ s.saying \in First)
    <3>1. k \in First
      BY <1>1, <1>2, <2>3 DEF WorkerOK, SaidOK, Interested
    <3>2. CASE k = "rows"
      BY <1>1, <1>2, <1>4, <1>7, <2>1, <2>3, <3>2, AfterIs DEF Owed, State, answer
    <3>3. CASE k \in {"listed", "failed"}
      <4>1. Len(s.results) + 1 \in DOMAIN t.results
        BY <1>2, <1>4, <1>7 DEF State
      <4>2. \A m \in 1 .. Len(s.results) + 1 - 1 : t.results[m].kind = "rows"
        BY <1>2, <1>4, <1>7, <2>3 DEF State
      <4>3. t.results[Len(s.results) + 1].kind = k
        BY <1>4, <1>7 DEF answer
      <4> QED
        BY <1>1, <1>2, <1>7, <2>1, <3>3, <4>1, <4>2, <4>3 DEF Owed
    <3> QED
      BY <3>1, <3>2, <3>3 DEF First
  <2> QED
    BY <1>1, <1>12, <2>2, <2>3 DEF Owed
<1> QED
  BY <1>1, <1>2, <1>7, <1>8, <1>9, <1>10, <1>11, <1>12, AfterIs DEF Kept, WorkerOK, t, u, answer

\* publish(), whatever it finds.
LEMMA PublishKeeps ==
  ASSUME NEW s, WorkerOK(s), NEW at, NEW k, Speaks(s, at, k)
  PROVE  Kept(s, Published(s, at, k))
<1>1. /\ s \in State /\ k \in Kinds
      /\ s.at \notin {"free", "wait", "done", "idle"} /\ s.running
      /\ s.watch_open \/ k \in First \cup {"stopped"}
      /\ at = "rescan" => s.watch_open
      /\ s.pending = 0
  BY SpeaksInOrder DEF WorkerOK
<1>2. CASE ~Interested(s)
  <2> DEFINE u == [s EXCEPT !.saying = "asked"]
             t == GoesTo(u, GivesUp(at, s.request))
  <2>1. GivesUp(at, s.request) \in {"idle", "done"} /\ (GivesUp(at, s.request) = "idle" => at = "rescan")
    BY DEF GivesUp
  <2>2. u \in State
    BY <1>1 DEF State
  <2>3. GivesUp(at, s.request) \in Places
    BY <2>1 DEF Places
  <2>4. /\ t \in State
        /\ t.at = GivesUp(at, s.request) /\ t.running = (s.running /\ t.at # "idle")
        /\ t.stop = s.stop /\ t.current = s.current /\ t.pending = s.pending
        /\ t.request = s.request /\ t.results = s.results /\ t.emergency = s.emergency
        /\ t.ready = s.ready /\ t.published = s.published
        /\ t.watch_open = s.watch_open
    <3>1. /\ u.stop = s.stop /\ u.current = s.current /\ u.pending = s.pending /\ u.running = s.running
          /\ u.request = s.request /\ u.results = s.results /\ u.emergency = s.emergency
          /\ u.ready = s.ready /\ u.published = s.published /\ u.watch_open = s.watch_open
      BY <1>1 DEF State
    <3> HIDE DEF u
    <3> QED
      BY <2>2, <2>3, <3>1, GoesToIs
  <2>5. Published(s, at, k) = t
    BY <1>2 DEF Published
  <2> HIDE DEF t, u
  <2>6. PlaceOK(t)
    BY <1>1, <2>1, <2>4 DEF PlaceOK
  <2>7. SaidOK(t)
    BY <1>2, <2>4 DEF SaidOK, Interested
  <2>8. Kept(s, t)
    BY <1>1, <1>2, <2>1, <2>4, <2>6, <2>7, MovesOn
  <2> QED
    BY <2>5, <2>8
<1>3. CASE Interested(s) /\ Len(s.results) < QueuedBatches
  BY <1>3, Answered DEF Published
<1>4. CASE Interested(s) /\ ~(Len(s.results) < QueuedBatches)
  <2> DEFINE t == [s EXCEPT !.at = "publish", !.saying = k, !.asleep = TRUE]
  <2>1. /\ t \in State
        /\ t.at = "publish" /\ t.running = s.running /\ t.saying = k
        /\ t.stop = s.stop /\ t.current = s.current /\ t.pending = s.pending
        /\ t.request = s.request /\ t.results = s.results /\ t.emergency = s.emergency
        /\ t.ready = s.ready /\ t.published = s.published
        /\ t.watch_open = s.watch_open /\ t.initial_complete = s.initial_complete
    BY <1>1 DEF State, Places
  <2>2. Published(s, at, k) = t
    BY <1>4 DEF Published
  <2> HIDE DEF t
  <2>3. k \in Abstract!Follows(s.published, s.request) /\ (k \in First <=> ~s.initial_complete)
    BY <1>4, SpeaksInOrder
  <2>4. PlaceOK(t)
    BY <1>1, <2>1 DEF PlaceOK, Kinds, Abstract!Kinds
  <2>5. SaidOK(t)
    BY <2>1, <2>3 DEF SaidOK
  <2>6. s.at = "read" \/ (s.at = "publish" /\ s.saying \in First) => k \in First
    BY <1>4, <2>3 DEF WorkerOK, SaidOK
  <2>7. Kept(s, t)
    BY <1>1, <2>1, <2>4, <2>5, <2>6, MovesOn
  <2> QED
    BY <2>2, <2>7
<1> QED
  BY <1>2, <1>3, <1>4

\* The wait for a request, and its start.
LEMMA WaitKeeps ==
  ASSUME NEW s, WorkerOK(s), s.at = "wait", ~s.stop
  PROVE  Kept(s, IF s.pending = 0 THEN [s EXCEPT !.asleep = TRUE]
                 ELSE [s EXCEPT !.at = "read", !.request = s.pending, !.pending = 0, !.current = TRUE,
                                !.control = FALSE, !.initial_complete = FALSE, !.running = TRUE,
                                !.published = "asked"])
<1>1. s \in State
  BY DEF WorkerOK
<1>2. CASE s.pending = 0
  <2> DEFINE t == [s EXCEPT !.asleep = TRUE]
  <2>1. /\ t \in State
        /\ t.at = s.at /\ t.running = s.running /\ t.saying = s.saying
        /\ t.stop = s.stop /\ t.current = s.current /\ t.pending = s.pending
        /\ t.request = s.request /\ t.results = s.results /\ t.emergency = s.emergency
        /\ t.ready = s.ready /\ t.published = s.published
        /\ t.watch_open = s.watch_open /\ t.initial_complete = s.initial_complete
    BY <1>1 DEF State
  <2> HIDE DEF t
  <2>2. PlaceOK(t) /\ SaidOK(t)
    BY <2>1 DEF WorkerOK, PlaceOK, SaidOK, Interested
  <2>3. Kept(s, t)
    BY <2>1, <2>2, MovesOn
  <2> QED
    BY <1>2, <2>3 DEF t
<1>3. CASE s.pending # 0
  <2> DEFINE t == [s EXCEPT !.at = "read", !.request = s.pending, !.pending = 0, !.current = TRUE,
                            !.control = FALSE, !.initial_complete = FALSE, !.running = TRUE,
                            !.published = "asked"]
  <2>1. /\ t \in State
        /\ t.at = "read" /\ t.running /\ t.stop = s.stop /\ t.current /\ t.pending = 0
        /\ t.request = s.pending /\ t.results = s.results /\ t.emergency = s.emergency
        /\ t.ready = s.ready /\ t.published = "asked" /\ ~t.initial_complete
    <3>1. s.pending \in 0 .. MaxRequests /\ 0 \in 0 .. MaxRequests
      BY <1>1, RequestsAssumption DEF State
    <3>2. "read" \in Places
      BY DEF Places
    <3> QED
      BY <1>1, <3>1, <3>2 DEF State
  <2>2. ~s.current /\ s.results = <<>> /\ s.emergency = <<>> /\ ~s.ready
    BY <1>3 DEF WorkerOK, PlaceOK, BoxOK
  <2> HIDE DEF t
  <2>3. PlaceOK(t) /\ SaidOK(t)
    BY <2>1 DEF PlaceOK, SaidOK
  <2>4. BoxOK(t)
    BY <1>3, <2>1, <2>2, QueueAssumption DEF BoxOK
  <2>5. Heard(s, t)
    BY <1>3, <2>1, <2>2 DEF Heard, AskedOf, SaidOf, BoxOf
  <2>6. \A r \in 1 .. MaxRequests : Owed(s, r) => Owed(t, r)
    BY <1>3, <2>1, <2>2 DEF Owed
  <2>7. Kept(s, t)
    BY <1>3, <2>1, <2>3, <2>4, <2>5, <2>6 DEF Kept, WorkerOK
  <2> QED
    BY <1>3, <2>7 DEF t
<1> QED
  BY <1>2, <1>3

\* A thread that goes to another place as GoesTo does.
LEMMA GoesKeeps ==
  ASSUME NEW s, WorkerOK(s), NEW at \in Places, s.at \notin {"free", "wait", "done"},
         at \notin {"free", "wait", "publish"},
         at # "done" /\ at # "idle" => s.running,
         at \in {"opened", "idle", "look", "rescan"} => s.watch_open,
         SaidOK(GoesTo(s, at)),
         Interested(s) => s.at # "read" /\ (s.at = "publish" => s.saying \notin First)
  PROVE  Kept(s, GoesTo(s, at))
<1> DEFINE t == GoesTo(s, at)
<1>1. /\ t \in State
      /\ t.at = at /\ t.running = (s.running /\ at # "idle")
      /\ t.stop = s.stop /\ t.current = s.current /\ t.pending = s.pending
      /\ t.request = s.request /\ t.results = s.results /\ t.emergency = s.emergency
      /\ t.ready = s.ready /\ t.published = s.published
      /\ t.watch_open = s.watch_open
  BY GoesToIs DEF WorkerOK
<1>2. SaidOK(t)
  OBVIOUS
<1> HIDE DEF t
<1>3. s.running \/ s.watch_open
  BY DEF WorkerOK, PlaceOK, State, Places
<1>4. PlaceOK(t)
  BY <1>1, <1>3 DEF PlaceOK, WorkerOK
<1>5. s.pending = 0
  BY DEF WorkerOK, PlaceOK
<1>6. Kept(s, t)
  BY <1>1, <1>2, <1>4, MovesOn
<1> QED
  BY <1>6 DEF t

\* Without interest a thread leaves its loop.
LEMMA GiveUpKeeps ==
  ASSUME NEW s, WorkerOK(s), s.at \in {"read", "open", "look", "rescan"}, ~Interested(s)
  PROVE  Kept(s, GoesTo(s, GivesUp(s.at, s.request)))
<1>1. /\ GivesUp(s.at, s.request) \in {"idle", "done"}
      /\ GivesUp(s.at, s.request) = "idle" => s.at = "rescan"
  BY DEF GivesUp
<1>2. GivesUp(s.at, s.request) \in Places
  BY <1>1 DEF Places
<1>3. SaidOK(GoesTo(s, GivesUp(s.at, s.request)))
  BY <1>2, GoesToIs DEF SaidOK, Interested, WorkerOK
<1>4. s.at = "rescan" => s.watch_open
  BY DEF WorkerOK, PlaceOK
<1> QED
  BY <1>1, <1>2, <1>3, <1>4, GoesKeeps

\* The first listing has ended.
LEMMA ListedKeeps ==
  ASSUME NEW s, WorkerOK(s), s.at = "listed", NEW watch \in BOOLEAN,
         ~(watch /\ s.published = "failed" /\ s.request \notin Namespaces)
  PROVE  Kept(s, GoesTo([s EXCEPT !.initial_complete = TRUE], IF watch THEN "open" ELSE "done"))
<1> DEFINE u == [s EXCEPT !.initial_complete = TRUE]
           at == IF watch THEN "open" ELSE "done"
           t == GoesTo(u, at)
<1>1. /\ u \in State
      /\ u.stop = s.stop /\ u.current = s.current /\ u.pending = s.pending /\ u.running = s.running
      /\ u.request = s.request /\ u.results = s.results /\ u.emergency = s.emergency
      /\ u.ready = s.ready /\ u.published = s.published /\ u.watch_open = s.watch_open
      /\ u.initial_complete
  BY DEF WorkerOK, State
<1>2. at \in Places
  BY DEF Places
<1> HIDE DEF u
<1>3. /\ t \in State
      /\ t.at = at /\ t.running = s.running
      /\ t.stop = s.stop /\ t.current = s.current /\ t.pending = s.pending
      /\ t.request = s.request /\ t.results = s.results /\ t.emergency = s.emergency
      /\ t.ready = s.ready /\ t.published = s.published
      /\ t.watch_open = s.watch_open /\ t.initial_complete
  BY <1>1, <1>2, GoesToIs DEF State, WorkerOK
<1> HIDE DEF t
<1>4. s.running
  BY DEF WorkerOK, PlaceOK
<1>5. PlaceOK(t)
  BY <1>3, <1>4 DEF PlaceOK, WorkerOK
<1>6. SaidOK(t)
  BY <1>3 DEF SaidOK, WorkerOK, Interested
<1>7. Kept(s, t)
  BY <1>3, <1>5, <1>6, MovesOn
<1> QED
  BY <1>7 DEF t, u

\* The watch is opened.
LEMMA OpenKeeps ==
  ASSUME NEW s, WorkerOK(s), s.at = "open", Interested(s)
  PROVE  Kept(s, [s EXCEPT !.watch_open = TRUE, !.at = "opened"])
<1> DEFINE t == [s EXCEPT !.watch_open = TRUE, !.at = "opened"]
<1>1. /\ t \in State
      /\ t.at = "opened" /\ t.running = s.running /\ t.watch_open
      /\ t.stop = s.stop /\ t.current = s.current /\ t.pending = s.pending
      /\ t.request = s.request /\ t.results = s.results /\ t.emergency = s.emergency
      /\ t.ready = s.ready /\ t.published = s.published
      /\ t.initial_complete = s.initial_complete
  BY DEF WorkerOK, State, Places
<1> HIDE DEF t
<1>2. PlaceOK(t) /\ SaidOK(t)
  BY <1>1 DEF WorkerOK, PlaceOK, SaidOK, Interested
<1>3. Kept(s, t)
  BY <1>1, <1>2, MovesOn
<1> QED
  BY <1>3 DEF t

\* The wait at the watch returns.
LEMMA WokenKeeps ==
  ASSUME NEW s, WorkerOK(s), s.at = "idle"
  PROVE  Kept(s, Woken(s))
<1>1. CASE ~Interested(s)
  <2>1. "done" \in Places
    BY DEF Places
  <2>2. SaidOK(GoesTo(s, "done"))
    BY <1>1, <2>1, GoesToIs DEF SaidOK, Interested, WorkerOK
  <2>3. Kept(s, GoesTo(s, "done"))
    BY <1>1, <2>1, <2>2, GoesKeeps
  <2> QED
    BY <1>1, <2>3 DEF Woken
<1>2. CASE Interested(s)
  <2> DEFINE t == [s EXCEPT !.running = TRUE, !.control = FALSE, !.at = "look"]
  <2>1. /\ t \in State
        /\ t.at = "look" /\ t.running /\ t.watch_open = s.watch_open
        /\ t.stop = s.stop /\ t.current = s.current /\ t.pending = s.pending
        /\ t.request = s.request /\ t.results = s.results /\ t.emergency = s.emergency
        /\ t.ready = s.ready /\ t.published = s.published
        /\ t.initial_complete = s.initial_complete
    BY DEF WorkerOK, State, Places
  <2>2. Woken(s) = t
    BY <1>2 DEF Woken
  <2> HIDE DEF t
  <2>3. PlaceOK(t) /\ SaidOK(t)
    BY <2>1 DEF WorkerOK, PlaceOK, SaidOK, Interested
  <2>4. Kept(s, t)
    BY <2>1, <2>3, MovesOn
  <2> QED
    BY <2>2, <2>4
<1> QED
  BY <1>1, <1>2

\* Nothing to say after a look at the folder.
LEMMA NothingNewKeeps ==
  ASSUME NEW s, WorkerOK(s), s.at = "look"
  PROVE  Kept(s, GoesTo(s, "idle"))
<1>1. "idle" \in Places
  BY DEF Places
<1>2. SaidOK(GoesTo(s, "idle"))
  BY <1>1, GoesToIs DEF SaidOK, Interested, WorkerOK
<1>3. s.watch_open
  BY DEF WorkerOK, PlaceOK
<1> QED
  BY <1>1, <1>2, <1>3, GoesKeeps

\* The watch is closed and the thread waits for the next request.
LEMMA DoneKeeps ==
  ASSUME NEW s, WorkerOK(s), s.at = "done"
  PROVE  Kept(s, [s EXCEPT !.watch_open = FALSE, !.running = FALSE, !.at = "wait"])
<1> DEFINE t == [s EXCEPT !.watch_open = FALSE, !.running = FALSE, !.at = "wait"]
<1>1. /\ t \in State
      /\ t.at = "wait" /\ ~t.running /\ ~t.watch_open
      /\ t.stop = s.stop /\ t.current = s.current /\ t.pending = s.pending
      /\ t.request = s.request /\ t.results = s.results /\ t.emergency = s.emergency
      /\ t.ready = s.ready /\ t.published = s.published
  BY DEF WorkerOK, State, Places
<1> HIDE DEF t
<1>2. PlaceOK(t) /\ SaidOK(t)
  BY <1>1 DEF WorkerOK, PlaceOK, SaidOK
<1>3. Kept(s, t)
  BY <1>1, <1>2, MovesOn
<1> QED
  BY <1>3 DEF t

\* The last word of a thread out of memory.
LEMMA LastResortKeeps ==
  ASSUME NEW s, WorkerOK(s), s.at \in {"read", "open", "opened", "look", "rescan"}
  PROVE  LET k == IF s.initial_complete THEN "stopped" ELSE "failed" IN
         Kept(s, IF ~Interested(s) THEN GoesTo(s, "done")
                 ELSE GoesTo([s EXCEPT !.results = <<>>,
                                       !.emergency = <<[request |-> s.request, kind |-> k]>>,
                                       !.ready = TRUE, !.published = k], "done"))
<1>1. "done" \in Places
  BY DEF Places
<1>2. CASE ~Interested(s)
  <2>1. SaidOK(GoesTo(s, "done"))
    BY <1>1, <1>2, GoesToIs DEF SaidOK, Interested, WorkerOK
  <2>2. Kept(s, GoesTo(s, "done"))
    BY <1>1, <1>2, <2>1, GoesKeeps
  <2> QED
    BY <1>2, <2>2
<1>3. CASE Interested(s)
  <2> DEFINE k == IF s.initial_complete THEN "stopped" ELSE "failed"
             word == [request |-> s.request, kind |-> k]
             u == [s EXCEPT !.results = <<>>, !.emergency = <<word>>, !.ready = TRUE, !.published = k]
             t == GoesTo(u, "done")
  <2>1. s \in State /\ s.current /\ ~s.stop /\ s.request \in 1 .. MaxRequests /\ s.pending = 0
    BY <1>3, RequestsAssumption DEF WorkerOK, PlaceOK, BoxOK, Interested, State
  <2>2. k \in Kinds /\ k \in {"failed", "stopped"}
    BY DEF Kinds, Abstract!Kinds
  <2>3. word \in Answers
    BY <2>1, <2>2 DEF Answers, Abstract!Answers, Kinds
  <2>4. <<word>> \in Seq(Answers) /\ Len(<<word>>) = 1 /\ <<word>> # <<>> /\ <<word>>[1] = word
        /\ <<>> \in Seq(Answers) /\ DOMAIN <<word>> = {1}
    <3> HIDE DEF word
    <3> QED BY <2>3
  <2>5. u \in State
    BY <2>1, <2>2, <2>4 DEF State
  <2>6. /\ u.stop = s.stop /\ u.current = s.current /\ u.pending = s.pending /\ u.running = s.running
        /\ u.request = s.request /\ u.results = <<>> /\ u.emergency = <<word>>
        /\ u.ready = TRUE /\ u.published = k /\ u.watch_open = s.watch_open
    BY <2>1 DEF State
  <2> HIDE DEF u
  <2>7. /\ t \in State
        /\ t.at = "done" /\ t.running = s.running
        /\ t.stop = s.stop /\ t.current = s.current /\ t.pending = s.pending
        /\ t.request = s.request /\ t.results = <<>> /\ t.emergency = <<word>>
        /\ t.ready = TRUE /\ t.published = k /\ t.watch_open = s.watch_open
    <3> HIDE DEF k, word
    <3>1. s.running \in BOOLEAN
      BY <2>1 DEF State
    <3> QED
      BY <1>1, <2>5, <2>6, <3>1, GoesToIs
  <2>8. word.request = s.request /\ word.kind = k
    OBVIOUS
  <2> HIDE DEF t, word
  <2>9. PlaceOK(t) /\ SaidOK(t)
    BY <2>1, <2>7 DEF WorkerOK, PlaceOK, SaidOK
  <2>10. BoxOK(t)
    BY <2>1, <2>4, <2>7, <2>8, QueueAssumption DEF BoxOK
  <2>11. k \in Abstract!Follows(s.published, s.request)
    BY <1>3 DEF WorkerOK, SaidOK, Abstract!Follows
  <2>12. Heard(s, t)
    <3>1. BoxOf(t) = <<word>>
      BY <2>7, BoxIs
    <3>2. AskedOf(s) = s.request /\ SaidOf(s) = s.published /\ AskedOf(t) = s.request /\ SaidOf(t) = k
      BY <2>1, <2>7 DEF AskedOf, SaidOf
    <3> HIDE DEF k
    <3> QED
      BY <2>1, <2>2, <2>11, <3>1, <3>2 DEF Heard, word
  <2>13. ASSUME NEW r \in 1 .. MaxRequests, Owed(s, r) PROVE Owed(t, r)
    <3>1. s.request = r
      BY <2>1, <2>13 DEF Owed
    <3>2. CASE k = "stopped"
      BY <2>1, <2>4, <2>7, <2>8, <3>1, <3>2 DEF Owed
    <3>3. CASE k = "failed"
      BY <2>1, <2>4, <2>7, <2>8, <3>1, <3>3 DEF Owed
    <3> QED
      BY <2>2, <3>2, <3>3
  <2>14. Kept(s, t)
    BY <2>1, <2>7, <2>9, <2>10, <2>12, <2>13 DEF Kept, WorkerOK
  <2> QED
    BY <1>3, <2>14 DEF t, u, word
<1> QED
  BY <1>2, <1>3

-----------------------------------------------------------------------------
(* A step of a thread, for the whole system. *)

Thread(w) ==
  \/ Wait(w) \/ Say(w) \/ SayAgain(w) \/ GiveUp(w) \/ Listed(w) \/ Open(w) \/ WakeByControl(w)
  \/ WakeByChange(w) \/ NothingNew(w) \/ LastResort(w) \/ Done(w)

\* Every step of a thread that does not end it.
LEMMA ThreadKeeps ==
  ASSUME NEW w \in Workers, state \in [Workers -> State], WorkerOK(state[w]), Thread(w)
  PROVE  /\ Kept(state[w], state'[w])
         /\ state' = [state EXCEPT ![w] = state'[w]]
         /\ state[w].at # "free"
         /\ UNCHANGED <<slots, source, list, ui, refused>>
<1> DEFINE s == state[w]
           Becomes(t) == state' = [state EXCEPT ![w] = t] /\ UNCHANGED <<slots, source, list, ui, refused>>
<1>1. ASSUME NEW t, Kept(s, t), Becomes(t), s.at # "free"
      PROVE  /\ Kept(s, state'[w])
             /\ state' = [state EXCEPT ![w] = state'[w]]
             /\ s.at # "free"
             /\ UNCHANGED <<slots, source, list, ui, refused>>
  BY <1>1
<1>2. CASE Wait(w)
  BY <1>1, <1>2, WaitKeeps DEF Wait, Worker
<1>3. CASE Say(w)
  <2>1. PICK k \in Says(s.at, s.request) : Becomes(Published(s, s.at, k))
    BY <1>3 DEF Say, Worker
  <2>2. Speaks(s, s.at, k)
    BY DEF Speaks
  <2>3. Kept(s, Published(s, s.at, k)) /\ s.at # "free"
    BY <2>2, PublishKeeps, SpeaksInOrder
  <2> QED
    BY <1>1, <2>1, <2>3
<1>4. CASE SayAgain(w)
  <2> DEFINE at == IF s.saying \in {"rerows", "relisted", "refailed"} THEN "rescan" ELSE "look"
  <2>1. s.at = "publish" /\ Becomes(Published(s, at, s.saying))
    BY <1>4 DEF SayAgain, Worker
  <2>2. Speaks(s, at, s.saying)
    BY <2>1 DEF Speaks
  <2>3. Kept(s, Published(s, at, s.saying))
    BY <2>2, PublishKeeps
  <2> QED
    BY <1>1, <2>1, <2>3
<1>5. CASE GiveUp(w)
  BY <1>1, <1>5, GiveUpKeeps DEF GiveUp, Worker
<1>6. CASE Listed(w)
  BY <1>1, <1>6, ListedKeeps DEF Listed, Worker
<1>7. CASE Open(w)
  BY <1>1, <1>7, OpenKeeps DEF Open, Worker
<1>8. CASE WakeByControl(w) \/ WakeByChange(w)
  BY <1>1, <1>8, WokenKeeps DEF WakeByControl, WakeByChange, Worker
<1>9. CASE NothingNew(w)
  BY <1>1, <1>9, NothingNewKeeps DEF NothingNew, Worker
<1>10. CASE LastResort(w)
  <2> DEFINE k == IF s.initial_complete THEN "stopped" ELSE "failed"
             t == IF ~Interested(s) THEN GoesTo(s, "done")
                  ELSE GoesTo([s EXCEPT !.results = <<>>,
                                        !.emergency = <<[request |-> s.request, kind |-> k]>>,
                                        !.ready = TRUE, !.published = k], "done")
  <2>1. s.at \in {"read", "open", "opened", "look", "rescan"} /\ Becomes(t)
    BY <1>10 DEF LastResort, Worker
  <2>2. Kept(s, t)
    BY <2>1, LastResortKeeps
  <2> HIDE DEF t
  <2> QED
    BY <1>1, <2>1, <2>2
<1>11. CASE Done(w)
  BY <1>1, <1>11, DoneKeeps DEF Done, Worker
<1> QED
  BY <1>2, <1>3, <1>4, <1>5, <1>6, <1>7, <1>8, <1>9, <1>10, <1>11 DEF Thread

-----------------------------------------------------------------------------
(* The table of slots. *)

\* Sets of slots have a first one.
LEMMA SmallestIs ==
  ASSUME NEW S, S \subseteq Nat, S # {}
  PROVE  Smallest(S) \in S
<1>1. IsWellFoundedOn({ss \in Nat \X Nat : ss[1] < ss[2]}, Nat)
  BY NatLessThanWellFounded DEF OpToRel
<1>2. PICK x \in S : \A y \in S : ~ (<<y, x>> \in {ss \in Nat \X Nat : ss[1] < ss[2]})
  BY <1>1, WFMin
<1>3. ASSUME NEW y \in S PROVE x <= y
  <2>1. y \in Nat /\ x \in Nat
    OBVIOUS
  <2>2. y < x => <<y, x>> \in {ss \in Nat \X Nat : ss[1] < ss[2]}
    BY <2>1
  <2>3. ~ (y < x)
    BY <1>2, <2>2
  <2> QED
    BY <2>1, <2>3
<1> QED
  BY <1>3 DEF Smallest

\* There are fewer slots than names, so that a name is always left.
LEMMA NameLeft ==
  ASSUME NEW sl, NEW st, TableOK(sl, st)
  PROVE  \E w \in Workers : st[w].at = "free"
<1> SUFFICES ASSUME \A w \in Workers : st[w].at # "free" PROVE FALSE
  OBVIOUS
<1> DEFINE T == 1 .. Live + Reserve
           f == [w \in Workers |-> CHOOSE n \in T : sl[n] = w]
<1>1. \A w \in Workers : \E n \in T : sl[n] = w
  BY DEF TableOK
<1>2. f \in [Workers -> T] /\ \A w \in Workers : sl[f[w]] = w
  BY <1>1
<1>3. /\ IsFiniteSet(Workers) /\ Cardinality(Workers) = Live + Reserve + 1
      /\ IsFiniteSet(T) /\ Cardinality(T) = Live + Reserve
  BY PoolAssumption, FS_Interval DEF Workers
<1>4. Cardinality(T) < Cardinality(Workers)
  BY <1>3, PoolAssumption
<1> HIDE DEF f, T
<1>5. PICK x, y \in Workers : x # y /\ f[x] = f[y]
  BY <1>2, <1>3, <1>4, FS_PigeonHole
<1> QED
  BY <1>2, <1>5

\* A thread that has just been created, or that was created and told to stop.
LEMMA NewOK ==
  ASSUME NEW s \in {[Gone EXCEPT !.at = "wait"], [[Gone EXCEPT !.at = "wait"] EXCEPT !.stop = TRUE]}
  PROVE  WorkerOK(s) /\ s.at = "wait" /\ s.pending = 0 /\ ~s.current
<1>1. Gone \in State
  BY RequestsAssumption DEF Gone, State, Places
<1>2. /\ ~Gone.current /\ ~Gone.running /\ ~Gone.watch_open /\ Gone.pending = 0 /\ Gone.request = 0
      /\ Gone.results = <<>> /\ Gone.emergency = <<>> /\ ~Gone.ready
  BY DEF Gone
<1>3. "wait" \in Places
  BY DEF Places
<1>4. /\ s \in State /\ s.at = "wait"
      /\ ~s.current /\ ~s.running /\ ~s.watch_open /\ s.pending = 0 /\ s.request = 0
      /\ s.results = <<>> /\ s.emergency = <<>> /\ ~s.ready
  <2> DEFINE g == Gone
  <2>1. /\ g \in State
        /\ ~g.current /\ ~g.running /\ ~g.watch_open /\ g.pending = 0 /\ g.request = 0
        /\ g.results = <<>> /\ g.emergency = <<>> /\ ~g.ready
    BY <1>1, <1>2
  <2>2. s = [g EXCEPT !.at = "wait"] \/ s = [[g EXCEPT !.at = "wait"] EXCEPT !.stop = TRUE]
    OBVIOUS
  <2> HIDE DEF g
  <2>3. CASE s = [g EXCEPT !.at = "wait"]
    BY <1>3, <2>1, <2>3 DEF State
  <2>4. CASE s = [[g EXCEPT !.at = "wait"] EXCEPT !.stop = TRUE]
    <3> DEFINE h == [g EXCEPT !.at = "wait"]
    <3>1. /\ h \in State /\ h.at = "wait"
          /\ ~h.current /\ ~h.running /\ ~h.watch_open /\ h.pending = 0 /\ h.request = 0
          /\ h.results = <<>> /\ h.emergency = <<>> /\ ~h.ready
      BY <1>3, <2>1 DEF State
    <3>2. s = [h EXCEPT !.stop = TRUE]
      BY <2>4
    <3> HIDE DEF h
    <3> QED
      BY <3>1, <3>2 DEF State
  <2> QED
    BY <2>2, <2>3, <2>4
<1>5. PlaceOK(s) /\ BoxOK(s) /\ SaidOK(s)
  BY <1>4, QueueAssumption DEF PlaceOK, BoxOK, SaidOK, Interested
<1> QED
  BY <1>4, <1>5 DEF WorkerOK

TableAndWorkersOK(sl, st) ==
  st \in [Workers -> State] /\ TableOK(sl, st) /\ \A w \in Workers : WorkerOK(st[w])

\* acquire() gives a new thread a slot of its own and changes no other.
LEMMA AcquiredKeeps ==
  ASSUME NEW sl, NEW st, TableAndWorkersOK(sl, st), NEW a \in Acquired(sl, st)
  PROVE  /\ TableAndWorkersOK(a.slots, a.state)
         /\ \A w \in Workers : st[w].at # "free" => a.state[w] = st[w]
         /\ \A n \in 1 .. Live + Reserve : sl[n] # NoWorker => a.slots[n] = sl[n]
         /\ a.why \in {"no", "full", "reserve has room", "resources"}
         /\ a.why # "no" => a.worker = NoWorker
         /\ a.why = "no" => /\ a.worker \in Workers /\ st[a.worker].at = "free"
                            /\ a.state[a.worker] = [Gone EXCEPT !.at = "wait"]
                            /\ \E n \in 1 .. Live : a.slots[n] = a.worker
<1> DEFINE free == FreeLive(sl)
           w == CHOOSE x \in Workers : st[x].at = "free"
           m == Smallest(free)
           new == [Gone EXCEPT !.at = "wait"]
           stopped == [new EXCEPT !.stop = TRUE]
           In(s, got, why) == [slots |-> [sl EXCEPT ![m] = w], state |-> [st EXCEPT ![w] = s],
                               worker |-> got, why |-> why]
           Nothing(why) == [slots |-> sl, state |-> st, worker |-> NoWorker, why |-> why]
<1>1. w \in Workers /\ st[w].at = "free"
  BY NameLeft DEF TableAndWorkersOK
<1>2. free # {} => m \in 1 .. Live /\ m \in 1 .. Live + Reserve /\ sl[m] = NoWorker
  BY SmallestIs, PoolAssumption DEF FreeLive
<1>4. /\ WorkerOK(new) /\ new.at = "wait"
      /\ WorkerOK(stopped) /\ stopped.at = "wait"
  BY NewOK
<1>5. \/ free # {} /\ a = In(new, w, "no")
      \/ free # {} /\ a = In(stopped, NoWorker, "resources")
      \/ \E why \in {"full", "reserve has room", "resources"} : a = Nothing(why)
  BY DEF Acquired
<1>6. ASSUME NEW s, WorkerOK(s), s.at = "wait", free # {}
      PROVE  /\ TableAndWorkersOK([sl EXCEPT ![m] = w], [st EXCEPT ![w] = s])
             /\ \A x \in Workers : st[x].at # "free" => [st EXCEPT ![w] = s][x] = st[x]
             /\ \A n \in 1 .. Live + Reserve : sl[n] # NoWorker => [sl EXCEPT ![m] = w][n] = sl[n]
             /\ [sl EXCEPT ![m] = w][m] = w
  <2>1. s \in State
    BY <1>6 DEF WorkerOK
  <2>2. sl \in [1 .. Live + Reserve -> Workers \cup {NoWorker}] /\ st \in [Workers -> State]
    BY DEF TableAndWorkersOK, TableOK
  <2> HIDE DEF w, m
  <2>3. NoWorker \notin Workers
    BY PoolAssumption DEF NoWorker, Workers
  <2>4. \A n \in 1 .. Live + Reserve : sl[n] # w
    BY <1>1 DEF TableAndWorkersOK, TableOK
  <2>5. TableOK([sl EXCEPT ![m] = w], [st EXCEPT ![w] = s])
    BY <1>1, <1>2, <1>6, <2>2, <2>3, <2>4 DEF TableAndWorkersOK, TableOK
  <2>6. \A x \in Workers : WorkerOK([st EXCEPT ![w] = s][x])
    BY <1>6, <2>2 DEF TableAndWorkersOK
  <2> QED
    BY <1>1, <1>2, <1>6, <2>1, <2>2, <2>5, <2>6 DEF TableAndWorkersOK
<1> HIDE DEF w, m, free
<1>7. CASE free # {} /\ a = In(new, w, "no")
  <2> HIDE DEF new
  <2>1. /\ a.slots = [sl EXCEPT ![m] = w] /\ a.state = [st EXCEPT ![w] = new] /\ a.worker = w /\ a.why = "no"
    BY <1>7
  <2>2. a.state[w] = new
    BY <1>1, <2>1 DEF TableAndWorkersOK
  <2>3. /\ TableAndWorkersOK(a.slots, a.state)
        /\ \A x \in Workers : st[x].at # "free" => a.state[x] = st[x]
        /\ \A n \in 1 .. Live + Reserve : sl[n] # NoWorker => a.slots[n] = sl[n]
        /\ a.slots[m] = w
    <3>1. WorkerOK(new) /\ new.at = "wait"
      BY <1>4
    <3>2. /\ TableAndWorkersOK([sl EXCEPT ![m] = w], [st EXCEPT ![w] = new])
          /\ \A x \in Workers : st[x].at # "free" => [st EXCEPT ![w] = new][x] = st[x]
          /\ \A n \in 1 .. Live + Reserve : sl[n] # NoWorker => [sl EXCEPT ![m] = w][n] = sl[n]
          /\ [sl EXCEPT ![m] = w][m] = w
      BY <1>6, <1>7, <3>1
    <3> QED
      BY <2>1, <3>2
  <2> QED
    BY <1>1, <1>2, <1>7, <2>1, <2>2, <2>3 DEF new
<1>8. CASE free # {} /\ a = In(stopped, NoWorker, "resources")
  <2> HIDE DEF stopped
  <2>1. /\ a.slots = [sl EXCEPT ![m] = w] /\ a.state = [st EXCEPT ![w] = stopped]
        /\ a.worker = NoWorker /\ a.why = "resources"
    BY <1>8
  <2>2. /\ TableAndWorkersOK(a.slots, a.state)
        /\ \A x \in Workers : st[x].at # "free" => a.state[x] = st[x]
        /\ \A n \in 1 .. Live + Reserve : sl[n] # NoWorker => a.slots[n] = sl[n]
    <3>1. WorkerOK(stopped) /\ stopped.at = "wait"
      BY <1>4
    <3>2. /\ TableAndWorkersOK([sl EXCEPT ![m] = w], [st EXCEPT ![w] = stopped])
          /\ \A x \in Workers : st[x].at # "free" => [st EXCEPT ![w] = stopped][x] = st[x]
          /\ \A n \in 1 .. Live + Reserve : sl[n] # NoWorker => [sl EXCEPT ![m] = w][n] = sl[n]
      BY <1>6, <1>8, <3>1
    <3> QED
      BY <2>1, <3>2
  <2> QED
    BY <2>1, <2>2
<1>9. CASE \E why \in {"full", "reserve has room", "resources"} : a = Nothing(why)
  <2>1. PICK why \in {"full", "reserve has room", "resources"} : a = Nothing(why)
    BY <1>9
  <2>2. a.slots = sl /\ a.state = st /\ a.worker = NoWorker /\ a.why = why
    BY <2>1
  <2> QED
    BY <2>1, <2>2
<1> QED
  BY <1>5, <1>7, <1>8, <1>9

\* retire() keeps the thread in the table and every other one where it was.
LEMMA RetiredKeeps ==
  ASSUME NEW sl, NEW st, TableAndWorkersOK(sl, st), NEW w \in Workers
  PROVE  /\ TableAndWorkersOK(Retired(sl, w), st)
         /\ \A n \in 1 .. Live : sl[n] # w => Retired(sl, w)[n] = sl[n] \/ sl[n] = NoWorker
<1> DEFINE from == {n \in 1 .. Live : sl[n] = w}
           to == FreeReserve(sl)
           i == Smallest(from)
           j == Smallest(to)
<1>1. CASE from = {} \/ to = {}
  BY <1>1 DEF Retired
<1>2. CASE ~(from = {} \/ to = {})
  <2>1. i \in 1 .. Live /\ i \in 1 .. Live + Reserve /\ sl[i] = w
    BY <1>2, SmallestIs, PoolAssumption
  <2>2. j \in Live + 1 .. Live + Reserve /\ sl[j] = NoWorker /\ j \in 1 .. Live + Reserve
    BY <1>2, SmallestIs, PoolAssumption DEF FreeReserve
  <2>3. Retired(sl, w) = [sl EXCEPT ![j] = w, ![i] = NoWorker]
    BY <1>2 DEF Retired
  <2> HIDE DEF i, j
  <2>4. i # j
    BY <2>1, <2>2, PoolAssumption
  <2>5. NoWorker \notin Workers
    BY PoolAssumption DEF NoWorker, Workers
  <2>6. TableOK([sl EXCEPT ![j] = w, ![i] = NoWorker], st)
    BY <2>1, <2>2, <2>4, <2>5 DEF TableAndWorkersOK, TableOK
  <2>7. \A n \in 1 .. Live : n # j
    BY <2>2, PoolAssumption
  <2>8. sl \in [1 .. Live + Reserve -> Workers \cup {NoWorker}] /\ 1 .. Live \subseteq 1 .. Live + Reserve
    BY PoolAssumption DEF TableAndWorkersOK, TableOK
  <2> QED
    BY <2>1, <2>3, <2>6, <2>7, <2>8 DEF TableAndWorkersOK
<1> QED
  BY <1>1, <1>2

-----------------------------------------------------------------------------
(* What the calls on a Source do to one worker. *)

\* cancel() and the end of a Source leave nothing waiting, whatever the thread is at.
LEMMA InvalidatedKeeps ==
  ASSUME NEW s, WorkerOK(s), s.at # "free", NEW stop \in BOOLEAN
  PROVE  LET t == Invalidated(s, stop) IN
         /\ WorkerOK(t) /\ t.at = s.at /\ t.stop = stop /\ t.pending = 0 /\ ~t.current
         /\ t.results = <<>> /\ t.emergency = <<>>
<1> DEFINE t == Invalidated(s, stop)
<1>1. s \in State
  BY DEF WorkerOK
<1>2. /\ t \in State
      /\ t.at = s.at /\ t.stop = stop /\ t.pending = 0 /\ ~t.current /\ ~t.ready
      /\ t.running = s.running /\ t.watch_open = s.watch_open /\ t.saying = s.saying
      /\ t.results = <<>> /\ t.emergency = <<>>
  <2>1. <<>> \in Seq(Answers) /\ 0 \in 0 .. MaxRequests
    BY RequestsAssumption
  <2> HIDE DEF Answers
  <2> QED
    BY <1>1, <2>1 DEF Invalidated, State
<1> HIDE DEF t
<1>3. PlaceOK(t)
  BY <1>2 DEF WorkerOK, PlaceOK
<1>4. BoxOK(t)
  BY <1>2, QueueAssumption DEF BoxOK
<1>5. SaidOK(t)
  BY <1>2 DEF SaidOK, Interested
<1>6. WorkerOK(t) /\ t.at = s.at /\ t.stop = stop /\ t.pending = 0 /\ ~t.current
      /\ t.results = <<>> /\ t.emergency = <<>>
  BY <1>2, <1>3, <1>4, <1>5 DEF WorkerOK
<1> QED
  BY <1>6 DEF t

\* A live worker that changes stays in its slot and leaves the others alone.
LEMMA OneKeeps ==
  ASSUME NEW sl, NEW st, TableAndWorkersOK(sl, st), NEW w \in Workers, st[w].at # "free",
         NEW t, WorkerOK(t), t.at # "free"
  PROVE  /\ TableAndWorkersOK(sl, [st EXCEPT ![w] = t])
         /\ [st EXCEPT ![w] = t][w] = t
         /\ \A x \in Workers : x # w => [st EXCEPT ![w] = t][x] = st[x]
<1>1. t \in State /\ st \in [Workers -> State]
  BY DEF WorkerOK, TableAndWorkersOK
<1>2. TableOK(sl, [st EXCEPT ![w] = t])
  BY <1>1 DEF TableAndWorkersOK, TableOK
<1> QED
  BY <1>1, <1>2 DEF TableAndWorkersOK

\* cancel() on a worker, or on none.
LEMMA CancelledKeeps ==
  ASSUME NEW sl, NEW st, TableAndWorkersOK(sl, st), NEW w, w \in Workers => st[w].at # "free"
  PROVE  /\ TableAndWorkersOK(sl, Cancelled(st, w))
         /\ \A x \in Workers : x # w => Cancelled(st, w)[x] = st[x]
         /\ w \in Workers => LET t == Cancelled(st, w)[w] IN
              /\ t.at = st[w].at /\ ~t.stop /\ t.pending = 0 /\ ~t.current
              /\ t.results = <<>> /\ t.emergency = <<>>
<1>1. CASE w \notin Workers
  BY <1>1 DEF Cancelled
<1>2. CASE w \in Workers
  <2> DEFINE t == Invalidated(st[w], FALSE)
  <2>1. /\ WorkerOK(t) /\ t.at = st[w].at /\ ~t.stop /\ t.pending = 0 /\ ~t.current
        /\ t.results = <<>> /\ t.emergency = <<>>
    BY <1>2, InvalidatedKeeps DEF TableAndWorkersOK
  <2>2. Cancelled(st, w) = [st EXCEPT ![w] = t]
    BY <1>2 DEF Cancelled
  <2> HIDE DEF t
  <2>3. /\ TableAndWorkersOK(sl, [st EXCEPT ![w] = t])
        /\ [st EXCEPT ![w] = t][w] = t
        /\ \A x \in Workers : x # w => [st EXCEPT ![w] = t][x] = st[x]
    BY <1>2, <2>1, OneKeeps
  <2> QED
    BY <2>1, <2>2, <2>3
<1> QED
  BY <1>1, <1>2

-----------------------------------------------------------------------------
(* A step of the UI thread for pane p, seen from the other panes. *)

Untouched(p) ==
  \A q \in Panes \ {p} :
    /\ source'[q] = source[q] /\ list'[q] = list[q]
    /\ source[q] \in Workers =>
         /\ state'[source[q]] = state[source[q]]
         /\ \E n \in 1 .. Live : slots'[n] = source[q]

\* What pane p has to see to by itself.
OwnOK(p) ==
  /\ source'[p] \in Workers =>
       /\ state'[source'[p]].at # "free" /\ ~state'[source'[p]].stop
       /\ \E n \in 1 .. Live : slots'[n] = source'[p]
       /\ \A q \in Panes \ {p} : source[q] # source'[p]
  /\ list'[p].loading /\ ui' = Idle =>
       /\ source'[p] \in Workers /\ list'[p].request # 0
       /\ Owed(state'[source'[p]], list'[p].request)

Types ==
  /\ source \in [Panes -> Workers \cup {NoWorker, NoSource, Closed}]
  /\ list \in [Panes -> [request : 0 .. MaxRequests, loading : BOOLEAN]]
  /\ ui \in {Idle} \cup [op : {"submit", "place", "cancel"}, pane : Panes]
  /\ refused \in [Panes -> {"no", "full", "reserve has room", "resources"}]

\* TypeOK without what the workers and the table say already.
LEMMA TypesOK ==
  ASSUME IInv
  PROVE  Types /\ TableAndWorkersOK(slots, state)
BY DEF IInv, TypeOK, Types, TableAndWorkersOK

\* The parts of the invariant after a step.
LEMMA IInvIs ==
  ASSUME Types', TableAndWorkersOK(slots, state)', SourcesOK', CallOK', OwedOK'
  PROVE  IInv'
<1>1. \A w \in Workers : Len(state'[w].results) <= QueuedBatches /\ Len(state'[w].emergency) <= 1
  BY DEF TableAndWorkersOK, WorkerOK, BoxOK
<1>2. TypeOK'
  BY <1>1 DEF TypeOK, Types, TableAndWorkersOK, TableOK
<1> QED
  BY <1>2 DEF IInv, TableAndWorkersOK

\* It is enough that the others are left alone.
LEMMA UiKeeps ==
  ASSUME IInv, NEW p \in Panes, Untouched(p), OwnOK(p), ui = Idle \/ ui.pane = p, ui' = Idle \/ ui'.pane = p,
         Types', TableAndWorkersOK(slots, state)', CallOK'
  PROVE  IInv'
<1>1. SourcesOK'
  <2> SUFFICES ASSUME NEW q \in Panes, source'[q] \in Workers
               PROVE  /\ state'[source'[q]].at # "free" /\ ~state'[source'[q]].stop
                      /\ \E n \in 1 .. Live : slots'[n] = source'[q]
                      /\ \A r \in Panes : source'[r] = source'[q] => r = q
    BY DEF SourcesOK, Alive
  <2>1. CASE q = p
    BY <2>1 DEF OwnOK, Untouched
  <2>2. CASE q # p
    <3>1. source'[q] = source[q] /\ state'[source[q]] = state[source[q]] /\ \E n \in 1 .. Live : slots'[n] = source[q]
      BY <2>2 DEF Untouched
    <3>2. /\ state[source[q]].at # "free" /\ ~state[source[q]].stop
          /\ \A r \in Panes : source[r] = source[q] => r = q
      BY <3>1 DEF IInv, SourcesOK, Alive
    <3>3. ASSUME NEW r \in Panes, source'[r] = source'[q] PROVE r = q
      BY <2>2, <3>1, <3>2, <3>3 DEF OwnOK, Untouched
    <3> QED
      BY <3>1, <3>2, <3>3
  <2> QED
    BY <2>1, <2>2
<1>2. OwedOK'
  <2> SUFFICES ASSUME NEW q \in Panes, Loading(q)'
               PROVE  /\ source'[q] \in Workers /\ list'[q].request # 0
                      /\ Owed(state'[source'[q]], list'[q].request)
    BY DEF OwedOK
  <2>1. CASE q = p
    BY <2>1 DEF OwnOK, Loading
  <2>2. CASE q # p
    <3>1. source'[q] = source[q] /\ list'[q] = list[q]
      BY <2>2 DEF Untouched
    <3>2. Loading(q)
      BY <2>2, <3>1 DEF Loading
    <3>3. source[q] \in Workers /\ list[q].request # 0 /\ Owed(state[source[q]], list[q].request)
      BY <3>2 DEF IInv, OwedOK
    <3> QED
      BY <2>2, <3>1, <3>3 DEF Untouched
  <2> QED
    BY <2>1, <2>2
<1> QED
  BY <1>1, <1>2, IInvIs

-----------------------------------------------------------------------------
(* The steps of the UI thread. *)

\* The threads of two panes are not the same, and none of them has ended.
LEMMA OthersAre ==
  ASSUME IInv, NEW q \in Panes, source[q] \in Workers
  PROVE  /\ state[source[q]].at # "free" /\ ~state[source[q]].stop
         /\ \E n \in 1 .. Live : slots[n] = source[q]
         /\ \A p \in Panes : source[p] = source[q] => p = q
BY DEF IInv, SourcesOK, Alive

\* The list goes out of loading.
LEMMA NotLoading ==
  ASSUME Types, NEW p \in Panes, list' = [list EXCEPT ![p].loading = FALSE]
  PROVE  /\ list' \in [Panes -> [request : 0 .. MaxRequests, loading : BOOLEAN]]
         /\ ~list'[p].loading
         /\ \A q \in Panes \ {p} : list'[q] = list[q]
<1> DEFINE r == [list[p] EXCEPT !.loading = FALSE]
<1>1. list[p] \in [request : 0 .. MaxRequests, loading : BOOLEAN]
  BY DEF Types
<1>2. r \in [request : 0 .. MaxRequests, loading : BOOLEAN] /\ ~r.loading
  BY <1>1
<1>3. list' = [list EXCEPT ![p] = r]
  OBVIOUS
<1> DEFINE R == [request : 0 .. MaxRequests, loading : BOOLEAN]
<1>4. list \in [Panes -> R] /\ r \in R
  BY <1>2 DEF Types
<1> HIDE DEF r, R
<1>5. list' \in [Panes -> R] /\ list'[p] = r /\ \A q \in Panes \ {p} : list'[q] = list[q]
  BY <1>3, <1>4
<1> QED
  BY <1>2, <1>5 DEF R

\* start_managed_list up to submit.
LEMMA StartKeeps ==
  ASSUME IInv, NEW p \in Panes, Start(p)
  PROVE  /\ IInv' /\ Untouched(p)
         /\ source'[p] \in Workers => LET s == state'[source'[p]] IN
              s.pending = 0 /\ ~s.current /\ s.emergency = <<>> /\ s.results = <<>>
<1>1. PICK a \in IF source[p] = NoSource THEN Acquired(slots, state)
                 ELSE {[slots |-> slots, state |-> state, worker |-> source[p], why |-> "no"]} :
        /\ slots' = a.slots
        /\ state' = Cancelled(a.state, a.worker)
        /\ source' = [source EXCEPT ![p] = IF a.why = "no" THEN a.worker ELSE NoSource]
        /\ refused' = [refused EXCEPT ![p] = a.why]
  BY DEF Start
<1>2. PICK n \in 1 .. MaxRequests : list' = [list EXCEPT ![p] = [request |-> n, loading |-> TRUE]]
  BY DEF Start
<1>3. ui = Idle /\ ui' = [op |-> "submit", pane |-> p]
  BY DEF Start
<1>4. Types /\ TableAndWorkersOK(slots, state)
  BY TypesOK
<1>5. NoSource \notin Workers /\ NoWorker \notin Workers
  BY PoolAssumption DEF NoSource, NoWorker, Workers
<1>6. /\ TableAndWorkersOK(a.slots, a.state)
      /\ \A w \in Workers : state[w].at # "free" => a.state[w] = state[w]
      /\ \A m \in 1 .. Live + Reserve : slots[m] # NoWorker => a.slots[m] = slots[m]
      /\ a.why \in {"no", "full", "reserve has room", "resources"}
      /\ a.why # "no" => a.worker = NoWorker
      /\ a.worker \in Workers \cup {NoWorker, NoSource, Closed}
      /\ a.worker \in Workers =>
           /\ a.why = "no" /\ a.state[a.worker].at # "free"
           /\ \E m \in 1 .. Live : a.slots[m] = a.worker
           /\ \A q \in Panes \ {p} : source[q] # a.worker
  <2>1. CASE source[p] = NoSource
    <3>1. a \in Acquired(slots, state)
      BY <1>1, <2>1
    <3>2. /\ TableAndWorkersOK(a.slots, a.state)
          /\ \A w \in Workers : state[w].at # "free" => a.state[w] = state[w]
          /\ \A m \in 1 .. Live + Reserve : slots[m] # NoWorker => a.slots[m] = slots[m]
          /\ a.why \in {"no", "full", "reserve has room", "resources"}
          /\ a.why # "no" => a.worker = NoWorker
          /\ a.why = "no" => /\ a.worker \in Workers /\ state[a.worker].at = "free"
                             /\ a.state[a.worker] = [Gone EXCEPT !.at = "wait"]
                             /\ \E m \in 1 .. Live : a.slots[m] = a.worker
      BY <1>4, <3>1, AcquiredKeeps
    <3>3. [Gone EXCEPT !.at = "wait"].at # "free"
      BY NewOK
    <3>4. ASSUME a.worker \in Workers
          PROVE  /\ a.why = "no" /\ a.state[a.worker].at # "free"
                 /\ \E m \in 1 .. Live : a.slots[m] = a.worker
                 /\ \A q \in Panes \ {p} : source[q] # a.worker
      <4>1. a.why = "no"
        BY <1>5, <3>2, <3>4
      <4>2. state[a.worker].at = "free" /\ a.state[a.worker].at # "free" /\ \E m \in 1 .. Live : a.slots[m] = a.worker
        BY <3>2, <3>3, <4>1
      <4>3. ASSUME NEW q \in Panes, source[q] = a.worker PROVE FALSE
        BY <3>4, <4>2, <4>3, OthersAre
      <4> QED
        BY <4>1, <4>2, <4>3
    <3> QED
      BY <3>2, <3>4
  <2>2. CASE source[p] # NoSource
    <3>1. a = [slots |-> slots, state |-> state, worker |-> source[p], why |-> "no"]
      BY <1>1, <2>2
    <3>2. a.slots = slots /\ a.state = state /\ a.worker = source[p] /\ a.why = "no"
      BY <3>1
    <3>3. source[p] \in Workers \cup {NoWorker, NoSource, Closed}
      BY <1>4 DEF Types
    <3> QED
      BY <1>4, <3>2, <3>3, OthersAre
  <2> QED
    BY <2>1, <2>2
<1>7. /\ TableAndWorkersOK(a.slots, Cancelled(a.state, a.worker))
      /\ \A x \in Workers : x # a.worker => Cancelled(a.state, a.worker)[x] = a.state[x]
      /\ a.worker \in Workers => LET t == Cancelled(a.state, a.worker)[a.worker] IN
           /\ t.at = a.state[a.worker].at /\ ~t.stop /\ t.pending = 0 /\ ~t.current
           /\ t.results = <<>> /\ t.emergency = <<>>
  <2> DEFINE sl == a.slots
             st == a.state
             w == a.worker
  <2>1. TableAndWorkersOK(sl, st) /\ (w \in Workers => st[w].at # "free")
    BY <1>6
  <2> HIDE DEF sl, st, w
  <2>2. /\ TableAndWorkersOK(sl, Cancelled(st, w))
        /\ \A x \in Workers : x # w => Cancelled(st, w)[x] = st[x]
        /\ w \in Workers => LET t == Cancelled(st, w)[w] IN
             /\ t.at = st[w].at /\ ~t.stop /\ t.pending = 0 /\ ~t.current
             /\ t.results = <<>> /\ t.emergency = <<>>
    BY <2>1, CancelledKeeps
  <2> QED
    BY <2>2 DEF sl, st, w
<1>8. source'[p] = (IF a.why = "no" THEN a.worker ELSE NoSource) /\ \A q \in Panes \ {p} : source'[q] = source[q]
  BY <1>1, <1>4 DEF Types
<1>9. list'[p] = [request |-> n, loading |-> TRUE] /\ \A q \in Panes \ {p} : list'[q] = list[q]
  BY <1>2, <1>4 DEF Types
<1>10. Untouched(p)
  <2> SUFFICES ASSUME NEW q \in Panes \ {p}, source[q] \in Workers
               PROVE  /\ state'[source[q]] = state[source[q]]
                      /\ \E m \in 1 .. Live : slots'[m] = source[q]
    BY <1>8, <1>9 DEF Untouched
  <2>1. state[source[q]].at # "free" /\ \E m \in 1 .. Live : slots[m] = source[q]
    BY OthersAre
  <2>2. source[q] # a.worker
    BY <1>6
  <2>3. \A m \in 1 .. Live : m \in 1 .. Live + Reserve
    BY PoolAssumption
  <2> QED
    BY <1>1, <1>5, <1>6, <1>7, <2>1, <2>2, <2>3
<1>11. source'[p] \in Workers =>
        /\ source'[p] = a.worker
        /\ LET s == state'[source'[p]] IN
             s.at # "free" /\ ~s.stop /\ s.pending = 0 /\ ~s.current /\ s.emergency = <<>> /\ s.results = <<>>
  BY <1>1, <1>5, <1>6, <1>7, <1>8
<1>12. ui' # Idle /\ ui'.op = "submit" /\ ui'.pane = p
  BY <1>3 DEF Idle
<1>13. OwnOK(p)
  BY <1>1, <1>6, <1>11, <1>12 DEF OwnOK
<1>14. CallOK'
  BY <1>9, <1>11, <1>12 DEF CallOK
<1>15. Types'
  <2>1. source' \in [Panes -> Workers \cup {NoWorker, NoSource, Closed}]
    BY <1>1, <1>4, <1>6 DEF Types
  <2>2. list' \in [Panes -> [request : 0 .. MaxRequests, loading : BOOLEAN]]
    <3>1. [request |-> n, loading |-> TRUE] \in [request : 0 .. MaxRequests, loading : BOOLEAN]
      OBVIOUS
    <3> QED
      BY <1>2, <1>4, <3>1 DEF Types
  <2>3. ui' \in {Idle} \cup [op : {"submit", "place", "cancel"}, pane : Panes]
    BY <1>3
  <2>4. refused' \in [Panes -> {"no", "full", "reserve has room", "resources"}]
    BY <1>1, <1>4, <1>6 DEF Types
  <2> QED
    BY <2>1, <2>2, <2>3, <2>4 DEF Types
<1>16. TableAndWorkersOK(slots, state)'
  BY <1>1, <1>7
<1> QED
  BY <1>3, <1>10, <1>11, <1>12, <1>13, <1>14, <1>15, <1>16, UiKeeps

\* submit(), first hold of the lock.
LEMMA SubmitKeeps ==
  ASSUME IInv, NEW p \in Panes, Submit(p)
  PROVE  /\ IInv' /\ Untouched(p)
         /\ source'[p] \in Workers => LET s == state'[source'[p]] IN s.pending = 0 /\ ~s.current
<1> DEFINE w == source[p]
           busy == w \in Workers /\ (state[w].running \/ state[w].watch_open)
           st == IF busy THEN [state EXCEPT ![w] = Invalidated(@, TRUE)] ELSE state
           sl == IF busy THEN Retired(slots, w) ELSE slots
           call == IF source'[p] \in Workers
                   THEN ui' = [op |-> "place", pane |-> p] /\ UNCHANGED list
                   ELSE ui' = Idle /\ list' = [list EXCEPT ![p].loading = FALSE]
<1>1. ui = [op |-> "submit", pane |-> p] /\ call
  BY DEF Submit
<1>2. ui # Idle /\ ui.pane = p /\ ui.op = "submit"
  BY <1>1 DEF Idle
<1>3. Types /\ TableAndWorkersOK(slots, state)
  BY TypesOK
<1>4. /\ list[p].request # 0
      /\ w \in Workers => state[w].pending = 0 /\ ~state[w].current
  BY <1>2 DEF IInv, CallOK
<1>5. NoSource \notin Workers /\ NoWorker \notin Workers
  BY PoolAssumption DEF NoSource, NoWorker, Workers
<1>6. ASSUME Types', TableAndWorkersOK(slots, state)', Untouched(p),
             source'[p] \in Workers =>
               /\ state'[source'[p]].at = "wait" /\ ~state'[source'[p]].stop
               /\ state'[source'[p]].pending = 0 /\ ~state'[source'[p]].current
               /\ \E n \in 1 .. Live : slots'[n] = source'[p]
               /\ \A q \in Panes \ {p} : source[q] # source'[p]
      PROVE  /\ IInv'
             /\ source'[p] \in Workers => LET s == state'[source'[p]] IN s.pending = 0 /\ ~s.current
  <2>1. \/ ui' # Idle /\ ui'.pane = p /\ ui'.op = "place" /\ source'[p] \in Workers /\ list' = list
        \/ ui' = Idle /\ ~list'[p].loading
    BY <1>1, <1>3, NotLoading DEF Idle
  <2>2. OwnOK(p)
    BY <1>6, <2>1 DEF OwnOK
  <2>3. CallOK'
    BY <1>4, <1>6, <2>1 DEF CallOK
  <2> QED
    BY <1>2, <1>6, <2>1, <2>2, <2>3, UiKeeps
<1>7. /\ ui' \in {Idle} \cup [op : {"submit", "place", "cancel"}, pane : Panes]
      /\ list' \in [Panes -> [request : 0 .. MaxRequests, loading : BOOLEAN]]
      /\ \A q \in Panes \ {p} : list'[q] = list[q]
  <2>1. ui' = [op |-> "place", pane |-> p] \/ ui' = Idle
    BY <1>1
  <2>2. list' = list \/ list' = [list EXCEPT ![p].loading = FALSE]
    BY <1>1
  <2> HIDE DEF call
  <2>3. ui' \in {Idle} \cup [op : {"submit", "place", "cancel"}, pane : Panes]
    BY <2>1
  <2>4. list' \in [Panes -> [request : 0 .. MaxRequests, loading : BOOLEAN]]
        /\ \A q \in Panes \ {p} : list'[q] = list[q]
    <3>1. CASE list' = list
      BY <1>3, <3>1 DEF Types
    <3>2. CASE list' = [list EXCEPT ![p].loading = FALSE]
      BY <1>3, <3>2, NotLoading
    <3> QED
      BY <2>2, <3>1, <3>2
  <2> QED
    BY <2>3, <2>4
<1>8. CASE w = NoSource \/ (w \in Workers /\ ~busy)
  <2>1. UNCHANGED <<slots, state, source, refused>>
    BY <1>8 DEF Submit
  <2>2. w \in Workers => state[w].at = "wait"
    <3> SUFFICES ASSUME w \in Workers PROVE state[w].at = "wait"
      OBVIOUS
    <3>1. state[w].at # "free"
      BY OthersAre
    <3>2. state[w].at \in Places /\ PlaceOK(state[w])
      BY <1>3 DEF TableAndWorkersOK, WorkerOK, State
    <3> QED
      BY <1>5, <1>8, <3>1, <3>2 DEF PlaceOK, Places
  <2> HIDE DEF call
  <2>3. Untouched(p)
    BY <1>7, <2>1, OthersAre DEF Untouched
  <2>4. Types' /\ TableAndWorkersOK(slots, state)'
    BY <1>3, <1>7, <2>1 DEF Types
  <2>5. source'[p] \in Workers =>
          /\ state'[source'[p]].at = "wait" /\ ~state'[source'[p]].stop
          /\ state'[source'[p]].pending = 0 /\ ~state'[source'[p]].current
          /\ \E n \in 1 .. Live : slots'[n] = source'[p]
          /\ \A q \in Panes \ {p} : source[q] # source'[p]
    BY <1>4, <2>1, <2>2, OthersAre
  <2> QED
    BY <1>6, <2>3, <2>4, <2>5
<1>9. CASE ~(w = NoSource \/ (w \in Workers /\ ~busy))
  <2>1. PICK a \in Acquired(sl, st) :
          /\ slots' = a.slots
          /\ state' = a.state
          /\ source' = [source EXCEPT ![p] = a.worker]
          /\ refused' = [refused EXCEPT ![p] = a.why]
    BY <1>9 DEF Submit
  <2> HIDE DEF call
  <2>2. /\ TableAndWorkersOK(sl, st)
        /\ \A x \in Workers : x # w => st[x] = state[x]
        /\ \A n \in 1 .. Live : slots[n] # w => sl[n] = slots[n] \/ slots[n] = NoWorker
        /\ w \in Workers => st[w].at # "free"
    <3>1. CASE ~busy
      BY <1>3, <3>1, OthersAre
    <3>2. CASE busy
      <4> DEFINE t == Invalidated(state[w], TRUE)
      <4>1. WorkerOK(t) /\ t.at # "free" /\ state[w].at # "free"
        BY <3>2, OthersAre, InvalidatedKeeps DEF IInv
      <4>2. st = [state EXCEPT ![w] = t] /\ sl = Retired(slots, w) /\ w \in Workers
        BY <3>2
      <4> HIDE DEF t, st, sl, busy, w
      <4>3. /\ TableAndWorkersOK(slots, st) /\ st[w] = t
            /\ \A x \in Workers : x # w => st[x] = state[x]
        <5>1. TableAndWorkersOK(slots, state) /\ w \in Workers /\ state[w].at # "free" /\ WorkerOK(t) /\ t.at # "free"
          BY <1>3, <4>1, <4>2
        <5>2. /\ TableAndWorkersOK(slots, [state EXCEPT ![w] = t]) /\ [state EXCEPT ![w] = t][w] = t
              /\ \A x \in Workers : x # w => [state EXCEPT ![w] = t][x] = state[x]
          BY ONLY <5>1, OneKeeps
        <5> QED
          BY <4>2, <5>2
      <4> QED
        BY <4>1, <4>2, <4>3, RetiredKeeps
    <3> QED
      BY <3>1, <3>2
  <2> HIDE DEF st, sl, busy
  <2>3. /\ TableAndWorkersOK(a.slots, a.state)
        /\ \A x \in Workers : st[x].at # "free" => a.state[x] = st[x]
        /\ \A n \in 1 .. Live + Reserve : sl[n] # NoWorker => a.slots[n] = sl[n]
        /\ a.why \in {"no", "full", "reserve has room", "resources"}
        /\ a.why # "no" => a.worker = NoWorker
        /\ a.why = "no" => /\ a.worker \in Workers /\ st[a.worker].at = "free"
                           /\ a.state[a.worker] = [Gone EXCEPT !.at = "wait"]
                           /\ \E n \in 1 .. Live : a.slots[n] = a.worker
    BY <2>2, AcquiredKeeps
  <2>4. Untouched(p)
    <3> SUFFICES ASSUME NEW q \in Panes \ {p}, source[q] \in Workers
                 PROVE  /\ state'[source[q]] = state[source[q]]
                        /\ \E n \in 1 .. Live : slots'[n] = source[q]
      BY <1>3, <1>7, <2>1 DEF Untouched, Types
    <3>1. /\ state[source[q]].at # "free" /\ source[q] # w
          /\ \E n \in 1 .. Live : slots[n] = source[q]
      BY OthersAre
    <3>2. \A n \in 1 .. Live : n \in 1 .. Live + Reserve
      BY PoolAssumption
    <3>3. state'[source[q]] = state[source[q]]
      BY <2>1, <2>2, <2>3, <3>1
    <3>4. \E n \in 1 .. Live : slots'[n] = source[q]
      BY <1>5, <2>1, <2>2, <2>3, <3>1, <3>2
    <3> QED
      BY <3>3, <3>4
  <2>5. ASSUME source'[p] \in Workers
        PROVE  /\ state'[source'[p]].at = "wait" /\ ~state'[source'[p]].stop
               /\ state'[source'[p]].pending = 0 /\ ~state'[source'[p]].current
               /\ \E n \in 1 .. Live : slots'[n] = source'[p]
               /\ \A q \in Panes \ {p} : source[q] # source'[p]
    <3>1. source'[p] = a.worker /\ a.why = "no"
      BY <1>3, <1>5, <2>1, <2>3, <2>5 DEF Types
    <3>2. state'[source'[p]] = [Gone EXCEPT !.at = "wait"] /\ \E n \in 1 .. Live : slots'[n] = source'[p]
      BY <2>1, <2>3, <3>1
    <3>3. state'[source'[p]].at = "wait" /\ ~state'[source'[p]].stop
          /\ state'[source'[p]].pending = 0 /\ ~state'[source'[p]].current
      BY <3>2 DEF Gone
    <3>4. ASSUME NEW q \in Panes \ {p}, source[q] = source'[p] PROVE FALSE
      <4>1. state[source[q]].at # "free" /\ source[q] # w
        BY <2>5, <3>4, OthersAre
      <4> QED
        BY <2>2, <2>3, <2>5, <3>1, <3>4, <4>1
    <3> QED
      BY <3>2, <3>3, <3>4
  <2>6. Types'
    <3>1. source' \in [Panes -> Workers \cup {NoWorker, NoSource, Closed}]
      BY <1>3, <2>1, <2>3 DEF Types
    <3>2. refused' \in [Panes -> {"no", "full", "reserve has room", "resources"}]
      BY <1>3, <2>1, <2>3 DEF Types
    <3> QED
      BY <1>7, <3>1, <3>2 DEF Types
  <2> QED
    BY <1>6, <2>1, <2>3, <2>4, <2>5, <2>6
<1> QED
  BY <1>8, <1>9

\* A batch is taken: the emergency first, else the front of the results.
Urgent(s) == s.emergency # <<>>

Rest(s) == IF Urgent(s) \/ s.results = <<>> THEN s.results ELSE Tail(s.results)

Batch(s) == IF Urgent(s) THEN s.emergency ELSE SubSeq(s.results, 1, 1)

Left(s) == [s EXCEPT !.emergency = <<>>, !.results = Rest(s), !.ready = ~Urgent(s) /\ Rest(s) # <<>>,
                     !.asleep = @ /\ (Urgent(s) \/ s.results = <<>>)]

\* A worker that has something to take is as sound afterwards, and the pane that
\* is still owed the end of its loading has not just been given it.
LEMMA LeftKeeps ==
  ASSUME NEW s, WorkerOK(s), s.ready
  PROVE  LET t == Left(s) IN
         /\ WorkerOK(t) /\ t.at = s.at /\ t.stop = s.stop
         /\ AskedOf(t) = AskedOf(s) /\ SaidOf(t) = SaidOf(s)
         /\ BoxOf(s) # <<>> /\ BoxOf(t) = Tail(BoxOf(s))
         /\ Batch(s) # <<>> /\ Batch(s)[1].request = s.request
         /\ \A r \in 1 .. MaxRequests : Owed(s, r) =>
              /\ s.request = r
              /\ Batch(s)[1].kind \in {"rows", "listed", "failed", "stopped"}
              /\ Batch(s)[1].kind \in {"listed", "failed"} \/ Owed(t, r)
<1> DEFINE t == Left(s)
<1>1. /\ s \in State /\ s.results \in Seq(Answers) /\ s.emergency \in Seq(Answers)
      /\ s.current /\ s.pending = 0
  BY DEF WorkerOK, BoxOK, PlaceOK, State
<1>2. s.emergency # <<>> => s.results = <<>> /\ Len(s.emergency) = 1 /\ DOMAIN s.emergency = {1}
  <2>1. s.emergency # <<>> => Len(s.emergency) = 1
    <3>1. Len(s.emergency) <= 1
      BY DEF WorkerOK, BoxOK
    <3>2. s.emergency # <<>> => Len(s.emergency) \in Nat \ {0}
      BY <1>1, EmptySeq
    <3>3. ASSUME NEW l \in Nat \ {0}, l <= 1 PROVE l = 1
      BY <3>3
    <3> QED
      BY <3>1, <3>2, <3>3
  <2> QED
    BY <1>1, <2>1, LenProperties DEF WorkerOK, BoxOK
<1>3. ~Urgent(s) => s.results # <<>>
  BY DEF WorkerOK, BoxOK, Urgent
<1>4. /\ Rest(s) \in Seq(Answers) /\ (Urgent(s) => Rest(s) = <<>>)
      /\ ~Urgent(s) => /\ Rest(s) = Tail(s.results) /\ Len(Rest(s)) = Len(s.results) - 1
                       /\ \A n \in 1 .. Len(Rest(s)) : Rest(s)[n] = s.results[n + 1]
  <2>1. CASE Urgent(s)
    BY <1>1, <1>2, <2>1 DEF Rest, Urgent
  <2>2. CASE ~Urgent(s)
    BY <1>1, <1>3, <2>2, HeadTailProperties DEF Rest
  <2> QED
    BY <2>1, <2>2
<1>5. /\ t \in State
      /\ t.at = s.at /\ t.stop = s.stop /\ t.current = s.current /\ t.pending = s.pending
      /\ t.request = s.request /\ t.results = Rest(s) /\ t.emergency = <<>>
      /\ t.ready = (~Urgent(s) /\ Rest(s) # <<>>) /\ t.published = s.published /\ t.saying = s.saying
      /\ t.running = s.running /\ t.watch_open = s.watch_open
      /\ t.initial_complete = s.initial_complete
  <2> DEFINE ready == ~Urgent(s) /\ Rest(s) # <<>>
             asleep == s.asleep /\ (Urgent(s) \/ s.results = <<>>)
  <2>1. <<>> \in Seq(Answers) /\ ready \in BOOLEAN
    OBVIOUS
  <2>2. asleep \in BOOLEAN
    BY <1>1 DEF State
  <2>3. t = [s EXCEPT !.emergency = <<>>, !.results = Rest(s), !.ready = ready, !.asleep = asleep]
    BY DEF Left
  <2> HIDE DEF t, ready, asleep
  <2>4. /\ t \in State
        /\ t.at = s.at /\ t.stop = s.stop /\ t.current = s.current /\ t.pending = s.pending
        /\ t.request = s.request /\ t.results = Rest(s) /\ t.emergency = <<>>
        /\ t.ready = ready /\ t.published = s.published /\ t.saying = s.saying
        /\ t.running = s.running /\ t.watch_open = s.watch_open
        /\ t.initial_complete = s.initial_complete
    BY <1>1, <1>4, <2>1, <2>2, <2>3 DEF State
  <2> QED
    BY <2>4 DEF ready
<1>6. /\ Batch(s) # <<>>
      /\ Batch(s)[1] = IF Urgent(s) THEN s.emergency[1] ELSE s.results[1]
      /\ Batch(s)[1].request = s.request
  <2>1. CASE Urgent(s)
    BY <1>2, <2>1 DEF Batch, Urgent, WorkerOK, BoxOK
  <2>2. CASE ~Urgent(s)
    <3>1. Len(s.results) \in Nat \ {0} /\ DOMAIN s.results = 1 .. Len(s.results)
      BY <1>1, <1>3, <2>2, EmptySeq
    <3>2. 1 \in DOMAIN s.results
      BY <3>1
    <3>3. \A i \in 1 .. 1 : s.results[i] \in Answers
      BY <1>1, <3>1, <3>2, LenProperties
    <3>4. /\ SubSeq(s.results, 1, 1) \in Seq(Answers) /\ Len(SubSeq(s.results, 1, 1)) = 1
          /\ SubSeq(s.results, 1, 1)[1] = s.results[1]
      BY <3>3, SubSeqProperties
    <3>5. SubSeq(s.results, 1, 1) # <<>>
      <4> DEFINE b == SubSeq(s.results, 1, 1)
      <4>1. Len(b) = 1
        BY <3>4
      <4> HIDE DEF b
      <4>2. b # <<>>
        BY <4>1, EmptySeq
      <4> QED
        BY <4>2 DEF b
    <3>6. s.results[1].request = s.request
      BY <3>2 DEF WorkerOK, BoxOK
    <3> QED
      BY <2>2, <3>4, <3>5, <3>6 DEF Batch
  <2> QED
    BY <2>1, <2>2
<1> HIDE DEF t
<1>7. PlaceOK(t) /\ SaidOK(t)
  <2>1. s.at # "free"
    BY <1>1 DEF WorkerOK, PlaceOK, Gone
  <2> QED
    BY <1>5, <2>1 DEF WorkerOK, PlaceOK, SaidOK, Interested
<1>8. BoxOK(t)
  <2>1. \A n \in DOMAIN t.results : t.results[n].request = t.request
    <3>1. CASE Urgent(s)
      BY <1>4, <1>5, <3>1
    <3>2. CASE ~Urgent(s)
      <4>1. DOMAIN t.results = 1 .. Len(t.results) /\ DOMAIN s.results = 1 .. Len(s.results)
            /\ Len(t.results) \in Nat /\ Len(s.results) \in Nat
        BY <1>1, <1>4, <1>5, LenProperties
      <4>2. \A n \in DOMAIN t.results : n + 1 \in DOMAIN s.results /\ t.results[n] = s.results[n + 1]
        BY <1>4, <1>5, <3>2, <4>1
      <4> QED
        BY <1>5, <4>2 DEF WorkerOK, BoxOK
    <3> QED
      BY <3>1, <3>2
  <2>2. Len(t.results) <= QueuedBatches
    <3>1. CASE Urgent(s)
      BY <1>4, <1>5, <3>1, QueueAssumption
    <3>2. CASE ~Urgent(s)
      BY <1>1, <1>4, <1>5, <3>2, QueueAssumption, LenProperties DEF WorkerOK, BoxOK
    <3> QED
      BY <3>1, <3>2
  <2>3. t.ready <=> t.results # <<>>
    BY <1>4, <1>5
  <2>4. t.current /\ t.request # 0
    BY <1>1, <1>5 DEF WorkerOK, BoxOK
  <2> QED
    BY <1>5, <2>1, <2>2, <2>3, <2>4 DEF BoxOK
<1>9. AskedOf(t) = AskedOf(s) /\ SaidOf(t) = SaidOf(s)
  BY <1>5 DEF AskedOf, SaidOf
<1>10. BoxOf(s) # <<>> /\ BoxOf(t) = Tail(BoxOf(s))
  <2>1. BoxOf(t) = Rest(s)
    BY <1>5, BoxIs
  <2>2. CASE Urgent(s)
    <3>1. BoxOf(s) = s.emergency
      BY <1>1, <1>2, <2>2, BoxIs DEF Urgent
    <3>2. Tail(s.emergency) \in Seq(Answers) /\ Len(Tail(s.emergency)) = 0
      BY <1>1, <1>2, <2>2, HeadTailProperties DEF Urgent
    <3>3. Tail(s.emergency) = <<>>
      BY <3>2, EmptySeq
    <3> QED
      BY <1>4, <2>1, <2>2, <3>1, <3>3 DEF Urgent
  <2>3. CASE ~Urgent(s)
    BY <1>1, <1>3, <1>4, <2>1, <2>3, BoxIs DEF Urgent
  <2> QED
    BY <2>2, <2>3
<1>11. ASSUME NEW r \in 1 .. MaxRequests, Owed(s, r)
       PROVE  /\ s.request = r
              /\ Batch(s)[1].kind \in {"rows", "listed", "failed", "stopped"}
              /\ Batch(s)[1].kind \in {"listed", "failed"} \/ Owed(t, r)
  <2>1. s.request = r
    BY <1>1, <1>11 DEF Owed
  <2>2. CASE Urgent(s)
    <3>1. Batch(s)[1] = s.emergency[1] /\ 1 \in DOMAIN s.emergency /\ s.results = <<>>
      BY <1>2, <1>6, <2>2 DEF Urgent
    <3>2. \/ s.emergency[1].kind = "failed"
          \/ /\ s.published = "stopped" /\ s.at \in {"done", "wait"}
             /\ s.emergency[1].kind = "stopped"
      BY <1>1, <1>11, <2>1, <2>2, <3>1 DEF Owed, Urgent, WorkerOK, BoxOK
    <3> QED
      BY <1>1, <1>4, <1>5, <2>1, <2>2, <3>1, <3>2 DEF Owed
  <2>3. CASE ~Urgent(s)
    <3>1. /\ Batch(s)[1] = s.results[1] /\ s.emergency = <<>>
          /\ Len(s.results) \in Nat \ {0} /\ DOMAIN s.results = 1 .. Len(s.results)
          /\ DOMAIN t.results = 1 .. Len(s.results) - 1
          /\ \A n \in 1 .. Len(s.results) - 1 : t.results[n] = s.results[n + 1]
      BY <1>1, <1>3, <1>4, <1>5, <1>6, <2>3, EmptySeq, LenProperties DEF Urgent
    <3>2. \/ /\ \A n \in DOMAIN s.results : s.results[n].kind = "rows"
             /\ s.at = "read" \/ (s.at = "publish" /\ s.saying \in First)
          \/ \E n \in DOMAIN s.results :
               /\ s.results[n].kind \in {"listed", "failed"}
               /\ \A m \in 1 .. n - 1 : s.results[m].kind = "rows"
      BY <1>1, <1>3, <1>11, <2>1, <2>3, <3>1 DEF Owed
    <3>3. CASE /\ \A n \in DOMAIN s.results : s.results[n].kind = "rows"
               /\ s.at = "read" \/ (s.at = "publish" /\ s.saying \in First)
      <4>1. \A n \in DOMAIN t.results : t.results[n].kind = "rows"
        <5>1. ASSUME NEW n \in DOMAIN t.results PROVE t.results[n].kind = "rows"
          <6>1. n \in 1 .. Len(s.results) - 1 /\ n + 1 \in DOMAIN s.results
            BY <3>1, <5>1
          <6> QED
            BY <3>1, <3>3, <6>1
        <5> QED
          BY <5>1
      <4>2. t.current /\ t.request = r /\ t.at = s.at /\ t.saying = s.saying
        BY <1>1, <1>5, <2>1
      <4>3. Owed(t, r)
        BY <3>3, <4>1, <4>2 DEF Owed
      <4>4. s.results[1].kind = "rows"
        BY <3>1, <3>3
      <4> QED
        BY <2>1, <3>1, <4>3, <4>4
    <3>4. CASE \E n \in DOMAIN s.results :
                 /\ s.results[n].kind \in {"listed", "failed"}
                 /\ \A m \in 1 .. n - 1 : s.results[m].kind = "rows"
      <4>1. PICK n \in DOMAIN s.results :
                 /\ s.results[n].kind \in {"listed", "failed"}
                 /\ \A m \in 1 .. n - 1 : s.results[m].kind = "rows"
        BY <3>4
      <4>2. CASE n = 1
        BY <2>1, <3>1, <4>1, <4>2
      <4>3. CASE n # 1
        <5>1. n - 1 \in DOMAIN t.results /\ t.results[n - 1] = s.results[n]
          BY <3>1, <4>3
        <5>2. \A m \in 1 .. (n - 1) - 1 : t.results[m].kind = "rows"
          <6>1. ASSUME NEW m \in 1 .. (n - 1) - 1 PROVE t.results[m].kind = "rows"
            <7>1. n \in Nat /\ m \in 1 .. Len(s.results) - 1 /\ m + 1 \in 1 .. n - 1
              BY <3>1, <6>1
            <7> QED
              BY <3>1, <4>1, <7>1
          <6> QED
            BY <6>1
        <5>3. s.results[1].kind = "rows"
          BY <3>1, <4>1, <4>3
        <5> QED
          BY <1>1, <1>5, <2>1, <3>1, <4>1, <5>1, <5>2, <5>3 DEF Owed
      <4> QED
        BY <4>2, <4>3
    <3> QED
      BY <3>2, <3>3, <3>4
  <2> QED
    BY <2>2, <2>3
<1>12. WorkerOK(t) /\ t.at = s.at /\ t.stop = s.stop
  BY <1>5, <1>7, <1>8 DEF WorkerOK
<1> QED
  BY <1>6, <1>9, <1>10, <1>11, <1>12 DEF t

\* A call that changes no more than the pane's own worker.
LEMMA OwnWorkerKeeps ==
  ASSUME IInv, NEW p \in Panes, source[p] \in Workers,
         NEW t, WorkerOK(t), t.at # "free", ~t.stop,
         state' = [state EXCEPT ![source[p]] = t], slots' = slots, source' = source,
         \A q \in Panes \ {p} : list'[q] = list[q]
  PROVE  /\ Untouched(p) /\ TableAndWorkersOK(slots, state)' /\ state'[source'[p]] = t
         /\ \E n \in 1 .. Live : slots'[n] = source'[p]
         /\ \A q \in Panes \ {p} : source[q] # source'[p]
<1> DEFINE w == source[p]
           st == state
           sl == slots
<1>1. /\ TableAndWorkersOK(sl, st) /\ w \in Workers /\ st[w].at # "free"
      /\ \E n \in 1 .. Live : slots[n] = source[p]
  BY TypesOK, OthersAre
<1> HIDE DEF w, st, sl
<1>2. /\ TableAndWorkersOK(sl, [st EXCEPT ![w] = t])
      /\ [st EXCEPT ![w] = t][w] = t
      /\ \A x \in Workers : x # w => [st EXCEPT ![w] = t][x] = st[x]
  BY <1>1, OneKeeps
<1> USE DEF w, st, sl
<1>3. \A q \in Panes \ {p} : source[q] # source[p]
  BY OthersAre
<1>4. Untouched(p)
  BY <1>2, <1>3, OthersAre DEF Untouched
<1> QED
  BY <1>1, <1>2, <1>3, <1>4

\* A pane that has no thread of its own any more, or never had one.
LEMMA NoWorkerKeeps ==
  ASSUME IInv, NEW p \in Panes, source[p] \notin Workers, UNCHANGED <<slots, state, source>>,
         \A q \in Panes \ {p} : list'[q] = list[q]
  PROVE  Untouched(p) /\ TableAndWorkersOK(slots, state)'
<1>1. TableAndWorkersOK(slots, state)
  BY TypesOK
<1>2. Untouched(p)
  BY OthersAre DEF Untouched
<1> QED
  BY <1>1, <1>2

\* submit(), second hold of the lock.
LEMMA PlaceKeeps ==
  ASSUME IInv, NEW p \in Panes, Place(p)
  PROVE  /\ IInv' /\ Untouched(p) /\ source' = source /\ source[p] \in Workers
         /\ list[p].request \in 1 .. MaxRequests
         /\ LET t == state'[source[p]] IN
              t.pending = list[p].request /\ ~t.current /\ t.results = <<>> /\ t.emergency = <<>>
<1> DEFINE s == state[source[p]]
           t == [s EXCEPT !.control = TRUE, !.current = FALSE, !.results = <<>>, !.emergency = <<>>,
                          !.ready = FALSE, !.pending = list[p].request, !.asleep = FALSE]
<1>1. /\ ui = [op |-> "place", pane |-> p] /\ ui' = Idle
      /\ state' = [state EXCEPT ![source[p]] = t]
      /\ UNCHANGED <<slots, source, list, refused>>
  BY DEF Place
<1>2. ui # Idle /\ ui.pane = p /\ ui.op = "place"
  BY <1>1 DEF Idle
<1>3. source[p] \in Workers /\ s.at = "wait" /\ list[p].request # 0
  BY <1>2 DEF IInv, CallOK
<1>4. WorkerOK(s) /\ ~s.stop
  BY <1>3, OthersAre DEF IInv
<1>5. Types
  BY TypesOK
<1>6. list[p].request \in 1 .. MaxRequests
  <2> DEFINE n == list[p].request
  <2>1. n \in 0 .. MaxRequests /\ n # 0
    BY <1>3, <1>5 DEF Types
  <2> HIDE DEF n
  <2>2. n \in 1 .. MaxRequests
    BY <2>1, RequestsAssumption
  <2> QED
    BY <2>2 DEF n
<1>7. /\ t \in State
      /\ t.at = "wait" /\ ~t.stop /\ t.pending = list[p].request /\ ~t.current /\ ~t.ready
      /\ t.running = s.running /\ t.watch_open = s.watch_open
      /\ t.results = <<>> /\ t.emergency = <<>>
  <2> DEFINE r == list[p].request
  <2>1. r \in 0 .. MaxRequests /\ <<>> \in Seq(Answers)
    BY <1>6
  <2>2. s \in State
    BY <1>4 DEF WorkerOK
  <2>3. s.at = "wait" /\ ~s.stop
    BY <1>3, <1>4
  <2>a. t = [s EXCEPT !.control = TRUE, !.current = FALSE, !.results = <<>>, !.emergency = <<>>,
                      !.ready = FALSE, !.pending = r, !.asleep = FALSE]
    OBVIOUS
  <2> HIDE DEF r, Answers, s, t
  <2>4. t \in State
    BY <2>1, <2>2, <2>a DEF State
  <2>5. /\ t.at = s.at /\ t.stop = s.stop /\ t.pending = r /\ ~t.current /\ ~t.ready
        /\ t.running = s.running /\ t.watch_open = s.watch_open
        /\ t.results = <<>> /\ t.emergency = <<>>
    BY <2>2, <2>a DEF State
  <2> QED
    BY <2>3, <2>4, <2>5 DEF r
<1> HIDE DEF t
<1>8. WorkerOK(t)
  <2>1. PlaceOK(t)
    BY <1>3, <1>4, <1>7 DEF WorkerOK, PlaceOK
  <2>2. BoxOK(t)
    BY <1>7, QueueAssumption DEF BoxOK
  <2>3. SaidOK(t)
    BY <1>7 DEF SaidOK, Interested
  <2> QED
    BY <1>7, <2>1, <2>2, <2>3 DEF WorkerOK
<1>9. /\ Untouched(p) /\ TableAndWorkersOK(slots, state)' /\ state'[source'[p]] = t
      /\ \E n \in 1 .. Live : slots'[n] = source'[p]
      /\ \A q \in Panes \ {p} : source[q] # source'[p]
  BY <1>1, <1>3, <1>7, <1>8, OwnWorkerKeeps
<1>10. OwnOK(p)
  BY <1>1, <1>3, <1>7, <1>9 DEF OwnOK, Owed
<1>11. CallOK' /\ Types'
  BY <1>1, <1>5 DEF CallOK, Types
<1>12. IInv'
  BY <1>1, <1>2, <1>9, <1>10, <1>11, UiKeeps
<1> QED
  BY <1>1, <1>3, <1>6, <1>7, <1>9, <1>12

\* A call that ends with cancel() and leaves the list out of loading.
LEMMA CancellingKeeps ==
  ASSUME IInv, NEW p \in Panes, state' = Cancelled(state, source[p]), ui = Idle \/ ui.pane = p, ui' = Idle,
         list' = [list EXCEPT ![p].loading = FALSE] \/ (list' = list /\ ~list[p].loading),
         UNCHANGED <<slots, source, refused>>
  PROVE  /\ IInv' /\ Untouched(p)
         /\ source[p] \in Workers => LET t == state'[source[p]] IN
              t.pending = 0 /\ ~t.current /\ t.emergency = <<>> /\ t.results = <<>>
<1>1. Types /\ TableAndWorkersOK(slots, state)
  BY TypesOK
<1>2. /\ list' \in [Panes -> [request : 0 .. MaxRequests, loading : BOOLEAN]]
      /\ ~list'[p].loading
      /\ \A q \in Panes \ {p} : list'[q] = list[q]
  <2>1. CASE list' = [list EXCEPT ![p].loading = FALSE]
    BY <1>1, <2>1, NotLoading
  <2>2. CASE list' = list /\ ~list[p].loading
    BY <1>1, <2>2 DEF Types
  <2> QED
    BY <2>1, <2>2
<1>3. CallOK' /\ Types'
  BY <1>1, <1>2 DEF CallOK, Types
<1>4. CASE source[p] \in Workers
  <2> DEFINE t == Invalidated(state[source[p]], FALSE)
  <2>1. /\ WorkerOK(t) /\ t.at # "free" /\ ~t.stop /\ t.pending = 0 /\ ~t.current
        /\ t.results = <<>> /\ t.emergency = <<>>
    <3> DEFINE s == state[source[p]]
    <3>1. WorkerOK(s) /\ s.at # "free"
      BY <1>1, <1>4, OthersAre DEF TableAndWorkersOK
    <3> HIDE DEF s
    <3>2. LET u == Invalidated(s, FALSE) IN
          /\ WorkerOK(u) /\ u.at = s.at /\ u.stop = FALSE /\ u.pending = 0 /\ ~u.current
          /\ u.results = <<>> /\ u.emergency = <<>>
      BY <3>1, InvalidatedKeeps
    <3> QED
      BY <3>1, <3>2 DEF s
  <2>2. state' = [state EXCEPT ![source[p]] = t]
    BY <1>4 DEF Cancelled
  <2> HIDE DEF t
  <2>3. /\ Untouched(p) /\ TableAndWorkersOK(slots, state)' /\ state'[source'[p]] = t
        /\ \E n \in 1 .. Live : slots'[n] = source'[p]
        /\ \A q \in Panes \ {p} : source[q] # source'[p]
    BY <1>2, <1>4, <2>1, <2>2, OwnWorkerKeeps
  <2>4. OwnOK(p)
    BY <1>2, <2>1, <2>3 DEF OwnOK
  <2>5. IInv'
    BY <1>3, <2>3, <2>4, UiKeeps
  <2> QED
    BY <2>1, <2>3, <2>5
<1>5. CASE source[p] \notin Workers
  <2>1. state' = state
    BY <1>5 DEF Cancelled
  <2>2. Untouched(p) /\ TableAndWorkersOK(slots, state)'
    BY <1>2, <1>5, <2>1, NoWorkerKeeps
  <2>3. OwnOK(p)
    BY <1>2, <1>5 DEF OwnOK
  <2>4. IInv'
    BY <1>3, <2>2, <2>3, UiKeeps
  <2> QED
    BY <1>5, <2>2, <2>4
<1> QED
  BY <1>4, <1>5

\* ~LocalSource leaves its thread to end by itself.
LEMMA CloseKeeps ==
  ASSUME IInv, NEW p \in Panes, Close(p)
  PROVE  IInv' /\ Untouched(p) /\ source'[p] \notin Workers
<1> DEFINE w == source[p]
           busy == state[w].running \/ state[w].watch_open
           t == Invalidated(state[w], TRUE)
           st == [state EXCEPT ![w] = t]
<1>1. /\ ui = Idle /\ w \in Workers /\ state' = st
      /\ slots' = (IF busy THEN Retired(slots, w) ELSE slots)
      /\ source' = [source EXCEPT ![p] = Closed]
      /\ list' = [list EXCEPT ![p].loading = FALSE]
      /\ UNCHANGED <<ui, refused>>
  BY DEF Close
<1>2. Types /\ TableAndWorkersOK(slots, state) /\ state[w].at # "free"
  BY <1>1, TypesOK, OthersAre
<1>3. WorkerOK(t) /\ t.at # "free"
  BY <1>1, <1>2, InvalidatedKeeps DEF TableAndWorkersOK
<1>4. /\ TableAndWorkersOK(slots, st)
      /\ \A x \in Workers : x # w => st[x] = state[x]
  <2> DEFINE old == state
             sl == slots
  <2>1. TableAndWorkersOK(sl, old) /\ w \in Workers /\ old[w].at # "free" /\ st = [old EXCEPT ![w] = t]
    BY <1>1, <1>2
  <2> HIDE DEF old, sl, w, t, st
  <2>2. /\ TableAndWorkersOK(sl, [old EXCEPT ![w] = t])
        /\ [old EXCEPT ![w] = t][w] = t
        /\ \A x \in Workers : x # w => [old EXCEPT ![w] = t][x] = old[x]
    <3>1. TableAndWorkersOK(sl, old) /\ w \in Workers /\ old[w].at # "free" /\ WorkerOK(t) /\ t.at # "free"
      BY <1>3, <2>1
    <3> QED
      BY ONLY <3>1, OneKeeps
  <2>3. TableAndWorkersOK(sl, st) /\ \A x \in Workers : x # w => st[x] = old[x]
    BY <2>1, <2>2
  <2> QED
    BY <2>3 DEF old, sl
<1> HIDE DEF t, st, busy
<1>5. /\ TableAndWorkersOK(slots', st)
      /\ \A n \in 1 .. Live : slots[n] # w => slots'[n] = slots[n] \/ slots[n] = NoWorker
  <2>1. CASE busy
    BY <1>1, <1>4, <2>1, RetiredKeeps
  <2>2. CASE ~busy
    BY <1>1, <1>4, <2>2
  <2> QED
    BY <2>1, <2>2
<1>6. TableAndWorkersOK(slots, state)'
  BY <1>1, <1>5
<1>7. Closed \notin Workers /\ NoWorker \notin Workers
  BY PoolAssumption DEF Closed, NoWorker, Workers
<1>8. source'[p] = Closed /\ \A q \in Panes \ {p} : source'[q] = source[q]
  BY <1>1, <1>2 DEF Types
<1>9. /\ list' \in [Panes -> [request : 0 .. MaxRequests, loading : BOOLEAN]]
      /\ ~list'[p].loading
      /\ \A q \in Panes \ {p} : list'[q] = list[q]
  BY <1>1, <1>2, NotLoading
<1>10. Untouched(p)
  <2> SUFFICES ASSUME NEW q \in Panes \ {p}, source[q] \in Workers
               PROVE  /\ state'[source[q]] = state[source[q]]
                      /\ \E n \in 1 .. Live : slots'[n] = source[q]
    BY <1>8, <1>9 DEF Untouched
  <2>1. source[q] # w /\ \E n \in 1 .. Live : slots[n] = source[q]
    BY OthersAre
  <2> QED
    BY <1>1, <1>4, <1>5, <1>7, <2>1
<1>11. OwnOK(p) /\ CallOK'
  BY <1>1, <1>7, <1>8, <1>9 DEF OwnOK, CallOK
<1>12. Types'
  <2>1. source' \in [Panes -> Workers \cup {NoWorker, NoSource, Closed}]
    BY <1>1, <1>2 DEF Types
  <2> QED
    BY <1>1, <1>2, <1>9, <2>1 DEF Types
<1>13. IInv'
  BY <1>1, <1>6, <1>10, <1>11, <1>12, UiKeeps
<1> QED
  BY <1>7, <1>8, <1>10, <1>13

\* process_content_results with one batch.
LEMMA TakeKeeps ==
  ASSUME IInv, NEW p \in Panes, Take(p)
  PROVE  /\ IInv' /\ Untouched(p) /\ source' = source /\ source[p] \in Workers
         /\ LET s == state[source[p]]
                t == state'[source[p]]
            IN /\ AskedOf(t) = AskedOf(s) /\ SaidOf(t) = SaidOf(s)
               /\ BoxOf(s) # <<>> /\ BoxOf(t) = Tail(BoxOf(s))
<1> DEFINE w == source[p]
           s == state[w]
           t == Left(s)
           mine == Batch(s) # <<>> /\ Batch(s)[1].request = list[p].request
           kind == IF mine THEN Batch(s)[1].kind ELSE "none"
           gives_up == kind \in {"failed", "refailed", "lost"}
<1>1. /\ ui = Idle /\ w \in Workers /\ s.ready
      /\ state' = [state EXCEPT ![w] = t]
      /\ UNCHANGED <<slots, source, refused>>
  BY DEF Take, Left, Rest, Urgent
<1>2. PICK over_budget \in IF mine THEN BOOLEAN ELSE {FALSE} :
        /\ list' = IF over_budget \/ kind \in {"listed", "failed", "lost"}
                   THEN [list EXCEPT ![p].loading = FALSE] ELSE list
        /\ ui' = IF over_budget \/ gives_up THEN [op |-> "cancel", pane |-> p] ELSE Idle
  BY DEF Take, Batch, Urgent
<1>3. WorkerOK(s) /\ ~s.stop /\ s.at # "free"
  BY <1>1, OthersAre DEF IInv
<1>4. /\ WorkerOK(t) /\ t.at = s.at /\ t.stop = s.stop
      /\ AskedOf(t) = AskedOf(s) /\ SaidOf(t) = SaidOf(s)
      /\ BoxOf(s) # <<>> /\ BoxOf(t) = Tail(BoxOf(s))
      /\ Batch(s) # <<>> /\ Batch(s)[1].request = s.request
      /\ \A r \in 1 .. MaxRequests : Owed(s, r) =>
           /\ s.request = r
           /\ Batch(s)[1].kind \in {"rows", "listed", "failed", "stopped"}
           /\ Batch(s)[1].kind \in {"listed", "failed"} \/ Owed(t, r)
  BY <1>1, <1>3, LeftKeeps
<1>5. Types
  BY TypesOK
<1> HIDE DEF t
<1>6. \/ list' = [list EXCEPT ![p].loading = FALSE]
      \/ list' = list /\ ~over_budget /\ kind \notin {"listed", "failed", "lost"}
  BY <1>2
<1>7. /\ list' \in [Panes -> [request : 0 .. MaxRequests, loading : BOOLEAN]]
      /\ \A q \in Panes \ {p} : list'[q] = list[q]
  BY <1>5, <1>6, NotLoading DEF Types
<1>8. /\ Untouched(p) /\ TableAndWorkersOK(slots, state)' /\ state'[source'[p]] = t
      /\ \E n \in 1 .. Live : slots'[n] = source'[p]
      /\ \A q \in Panes \ {p} : source[q] # source'[p]
  BY <1>1, <1>3, <1>4, <1>7, OwnWorkerKeeps
<1>9. ASSUME list'[p].loading
      PROVE  /\ list' = list /\ ~over_budget /\ ui' = Idle
             /\ list[p].request # 0 /\ Owed(t, list[p].request)
  <2>1. list' = list /\ ~over_budget /\ kind \notin {"listed", "failed", "lost"}
    BY <1>5, <1>6, <1>9, NotLoading
  <2>2. Loading(p)
    BY <1>1, <1>9, <2>1 DEF Loading
  <2>3. list[p].request # 0 /\ Owed(s, list[p].request)
    BY <2>2 DEF IInv, OwedOK
  <2>4. list[p].request \in 1 .. MaxRequests
    <3> DEFINE n == list[p].request
    <3>1. n \in 0 .. MaxRequests /\ n # 0
      BY <1>5, <2>3 DEF Types
    <3> HIDE DEF n
    <3>2. n \in 1 .. MaxRequests
      BY <3>1, RequestsAssumption
    <3> QED
      BY <3>2 DEF n
  <2>5. /\ s.request = list[p].request
        /\ Batch(s)[1].kind \in {"rows", "listed", "failed", "stopped"}
        /\ Batch(s)[1].kind \in {"listed", "failed"} \/ Owed(t, list[p].request)
    BY <1>4, <2>3, <2>4
  <2>6. kind = Batch(s)[1].kind
    BY <1>4, <2>5
  <2> HIDE DEF kind, mine
  <2>7. kind \in {"rows", "stopped"} /\ Owed(t, list[p].request)
    BY <2>1, <2>5, <2>6
  <2>8. ui' = Idle
    BY <1>2, <2>1, <2>7
  <2> QED
    BY <2>1, <2>3, <2>7, <2>8
<1>10. OwnOK(p)
  BY <1>1, <1>3, <1>4, <1>8, <1>9 DEF OwnOK
<1>11. \/ ui' = Idle
       \/ ui' = [op |-> "cancel", pane |-> p] /\ ~list'[p].loading
  <2>1. ui' = Idle \/ ui' = [op |-> "cancel", pane |-> p]
    BY <1>2
  <2>2. ui' = Idle \/ ~list'[p].loading
    BY <1>9
  <2> QED
    BY <2>1, <2>2
<1>12. CallOK' /\ (ui' = Idle \/ ui'.pane = p)
  BY <1>11 DEF CallOK
<1>13. Types'
  <2>1. ui' \in {Idle} \cup [op : {"submit", "place", "cancel"}, pane : Panes]
    BY <1>11
  <2> QED
    BY <1>1, <1>5, <1>7, <2>1 DEF Types
<1>14. IInv'
  BY <1>1, <1>8, <1>10, <1>12, <1>13, UiKeeps
<1> QED
  BY <1>1, <1>4, <1>8, <1>14

-----------------------------------------------------------------------------
(* The steps of a thread, and all steps together. *)

\* The panes and the table may rely on what a step of a thread keeps.
LEMMA ThreadKeepsAll ==
  ASSUME IInv, NEW w \in Workers, Thread(w)
  PROVE  IInv'
<1> DEFINE t == state'[w]
           st == state
           sl == slots
<1>1. Types /\ TableAndWorkersOK(sl, st)
  BY TypesOK
<1>2. /\ Kept(state[w], t) /\ state' = [st EXCEPT ![w] = t] /\ st[w].at # "free"
      /\ UNCHANGED <<slots, source, list, ui, refused>>
  BY <1>1, ThreadKeeps DEF TableAndWorkersOK
<1>3. WorkerOK(t) /\ t.at # "free"
  BY <1>2 DEF Kept
<1> HIDE DEF t, st, sl
<1>4. /\ TableAndWorkersOK(sl, [st EXCEPT ![w] = t])
      /\ [st EXCEPT ![w] = t][w] = t
      /\ \A x \in Workers : x # w => [st EXCEPT ![w] = t][x] = st[x]
  <2>1. TableAndWorkersOK(sl, st) /\ st[w].at # "free" /\ WorkerOK(t) /\ t.at # "free"
    BY <1>1, <1>2, <1>3
  <2> QED
    BY ONLY <2>1, OneKeeps
<1> USE DEF st, sl
<1>5. TableAndWorkersOK(slots, state)' /\ state'[w] = t /\ \A x \in Workers : x # w => state'[x] = state[x]
  BY <1>2, <1>4
<1>6. SourcesOK'
  <2> SUFFICES ASSUME NEW p \in Panes, source[p] \in Workers
               PROVE  /\ state'[source[p]].at # "free" /\ ~state'[source[p]].stop
                      /\ \E n \in 1 .. Live : slots[n] = source[p]
                      /\ \A q \in Panes : source[q] = source[p] => q = p
    BY <1>2 DEF SourcesOK, Alive
  <2>1. /\ state[source[p]].at # "free" /\ ~state[source[p]].stop
        /\ \E n \in 1 .. Live : slots[n] = source[p]
        /\ \A q \in Panes : source[q] = source[p] => q = p
    BY OthersAre
  <2>2. state'[source[p]].at # "free" /\ ~state'[source[p]].stop
    BY <1>2, <1>3, <1>5, <2>1 DEF Kept
  <2> QED
    BY <2>1, <2>2
<1>7. CallOK'
  <2> SUFFICES ASSUME ui # Idle
               PROVE  /\ ui.op \in {"submit", "place"} =>
                           /\ list[ui.pane].request # 0
                           /\ source[ui.pane] \in Workers =>
                                LET s == state'[source[ui.pane]] IN s.pending = 0 /\ ~s.current
                      /\ ui.op = "place" => source[ui.pane] \in Workers /\ state'[source[ui.pane]].at = "wait"
                      /\ ui.op = "cancel" => ~list[ui.pane].loading
    BY <1>2 DEF CallOK
  <2> DEFINE x == source[ui.pane]
  <2>1. /\ ui.op \in {"submit", "place"} =>
             /\ list[ui.pane].request # 0
             /\ x \in Workers => state[x].pending = 0 /\ ~state[x].current
        /\ ui.op = "place" => x \in Workers /\ state[x].at = "wait"
        /\ ui.op = "cancel" => ~list[ui.pane].loading
    BY DEF IInv, CallOK
  <2> HIDE DEF x
  <2>2. CASE x = w
    BY <1>2, <1>5, <2>1, <2>2 DEF Kept, x
  <2>3. CASE x # w
    BY <1>5, <2>1, <2>3 DEF x
  <2> QED
    BY <2>2, <2>3
<1>8. OwedOK'
  <2> SUFFICES ASSUME NEW p \in Panes, Loading(p)
               PROVE  /\ source[p] \in Workers /\ list[p].request # 0
                      /\ Owed(state'[source[p]], list[p].request)
    BY <1>2 DEF OwedOK, Loading
  <2>1. source[p] \in Workers /\ list[p].request # 0 /\ Owed(state[source[p]], list[p].request)
    BY DEF IInv, OwedOK
  <2>2. CASE source[p] = w
    <3> DEFINE n == list[p].request
    <3>1. n \in 0 .. MaxRequests /\ n # 0 /\ Owed(state[w], n)
      BY <1>1, <2>1, <2>2 DEF Types
    <3> HIDE DEF n
    <3>2. n \in 1 .. MaxRequests
      BY <3>1, RequestsAssumption
    <3>3. ~state[w].stop
      BY <2>1, <2>2, OthersAre
    <3>4. Owed(t, n)
      BY <1>2, <3>1, <3>2, <3>3 DEF Kept
    <3> QED
      BY <1>5, <2>1, <2>2, <3>4 DEF n
  <2>3. CASE source[p] # w
    BY <1>5, <2>1, <2>3
  <2> QED
    BY <2>2, <2>3
<1>9. Types'
  BY <1>1, <1>2 DEF Types
<1> QED
  BY <1>5, <1>6, <1>7, <1>8, <1>9, IInvIs

\* A thread that ends is nobody's any more, and its slot is free again.
LEMMA ExitKeeps ==
  ASSUME IInv, NEW w \in Workers, Exit(w)
  PROVE  /\ IInv' /\ UNCHANGED <<source, list, ui>>
         /\ \A p \in Panes : source[p] \in Workers => state'[source[p]] = state[source[p]]
<1>1. /\ state[w].at = "wait" /\ state[w].stop
      /\ state' = [state EXCEPT ![w] = Gone]
      /\ slots' = [n \in DOMAIN slots |-> IF slots[n] = w THEN NoWorker ELSE slots[n]]
      /\ UNCHANGED <<source, list, ui, refused>>
  BY DEF Exit
<1>2. Types /\ TableAndWorkersOK(slots, state)
  BY TypesOK
<1>3. WorkerOK(Gone) /\ Gone.at = "free"
  <2>1. Gone \in State
    BY RequestsAssumption DEF Gone, State, Places
  <2>2. PlaceOK(Gone) /\ BoxOK(Gone) /\ SaidOK(Gone) /\ Gone.at = "free"
    BY QueueAssumption DEF Gone, PlaceOK, BoxOK, SaidOK, Interested
  <2> QED
    BY <2>1, <2>2 DEF WorkerOK
<1>4. NoWorker \notin Workers
  BY PoolAssumption DEF NoWorker, Workers
<1>5. /\ state' \in [Workers -> State] /\ state'[w] = Gone
      /\ \A x \in Workers : x # w => state'[x] = state[x]
  BY <1>1, <1>2, <1>3 DEF TableAndWorkersOK, WorkerOK
<1>6. /\ slots' \in [1 .. Live + Reserve -> Workers \cup {NoWorker}]
      /\ \A n \in 1 .. Live + Reserve : slots'[n] = IF slots[n] = w THEN NoWorker ELSE slots[n]
  BY <1>1, <1>2 DEF TableAndWorkersOK, TableOK
<1>7. TableOK(slots', state')
  <2>1. ASSUME NEW x \in Workers
        PROVE  state'[x].at # "free" <=> \E n \in 1 .. Live + Reserve : slots'[n] = x
    BY <1>2, <1>3, <1>4, <1>5, <1>6 DEF TableAndWorkersOK, TableOK
  <2>2. \A m, n \in 1 .. Live + Reserve : slots'[m] = slots'[n] /\ slots'[m] # NoWorker => m = n
    BY <1>2, <1>6 DEF TableAndWorkersOK, TableOK
  <2> QED
    BY <1>6, <2>1, <2>2 DEF TableOK
<1>8. TableAndWorkersOK(slots, state)'
  BY <1>2, <1>3, <1>5, <1>7 DEF TableAndWorkersOK
<1>9. ASSUME NEW p \in Panes, source[p] \in Workers
      PROVE  /\ source[p] # w /\ state'[source[p]] = state[source[p]]
             /\ \E n \in 1 .. Live : slots'[n] = source[p]
  <2>1. ~state[source[p]].stop /\ \E n \in 1 .. Live : slots[n] = source[p]
    BY <1>9, OthersAre
  <2>2. source[p] # w
    BY <1>1, <2>1
  <2>3. \A n \in 1 .. Live : n \in 1 .. Live + Reserve
    BY PoolAssumption
  <2> QED
    BY <1>5, <1>6, <1>9, <2>1, <2>2, <2>3
<1>10. SourcesOK'
  BY <1>1, <1>9, OthersAre DEF SourcesOK, Alive
<1>11. CallOK'
  <2>1. ui # Idle => (source[ui.pane] \in Workers => state'[source[ui.pane]] = state[source[ui.pane]])
    BY <1>2, <1>9 DEF Types
  <2> QED
    BY <1>1, <2>1 DEF IInv, CallOK
<1>12. OwedOK'
  BY <1>1, <1>9 DEF IInv, OwedOK, Loading
<1>13. Types'
  BY <1>1, <1>2 DEF Types
<1> QED
  BY <1>1, <1>8, <1>9, <1>10, <1>11, <1>12, <1>13, IInvIs

\* The invariant holds at the start,
LEMMA InitOK ==
  ASSUME Init
  PROVE  IInv
<1>1. Gone \in State /\ WorkerOK(Gone) /\ Gone.at = "free" /\ Len(Gone.results) = 0 /\ Len(Gone.emergency) = 0
  <2>1. Gone \in State
    BY RequestsAssumption DEF Gone, State, Places
  <2>2. PlaceOK(Gone) /\ BoxOK(Gone) /\ SaidOK(Gone) /\ Gone.at = "free" /\ Len(Gone.results) = 0 /\ Len(Gone.emergency) = 0
    BY QueueAssumption DEF Gone, PlaceOK, BoxOK, SaidOK, Interested
  <2> QED
    BY <2>1, <2>2 DEF WorkerOK
<1>2. NoWorker \notin Workers /\ NoSource \notin Workers
  BY PoolAssumption DEF NoWorker, NoSource, Workers
<1> HIDE DEF Gone
<1>3. state \in [Workers -> State] /\ \A w \in Workers : state[w] = Gone
  BY <1>1 DEF Init
<1>4. TableOK(slots, state)
  BY <1>1, <1>2, <1>3 DEF Init, TableOK
<1>5. list \in [Panes -> [request : 0 .. MaxRequests, loading : BOOLEAN]]
  BY RequestsAssumption DEF Init
<1>6. TypeOK
  BY <1>1, <1>3, <1>4, <1>5, QueueAssumption DEF Init, TypeOK, TableOK
<1>7. SourcesOK /\ CallOK /\ OwedOK
  BY <1>2 DEF Init, SourcesOK, CallOK, OwedOK, Loading
<1> QED
  BY <1>1, <1>3, <1>4, <1>6, <1>7 DEF IInv

\* and every step keeps it.
LEMMA StepKeeps ==
  ASSUME IInv, [Next]_vars
  PROVE  IInv'
<1>1. ASSUME NEW p \in Panes, Ui(p) PROVE IInv'
  <2>1. CASE Start(p)
    BY <2>1, StartKeeps
  <2>2. CASE Submit(p)
    BY <2>2, SubmitKeeps
  <2>3. CASE Place(p)
    BY <2>3, PlaceKeeps
  <2>4. CASE Take(p)
    BY <2>4, TakeKeeps
  <2>5. CASE Cancel(p)
    <3>1. ui # Idle /\ ui.pane = p /\ ui.op = "cancel" /\ ui' = Idle
      BY <2>5 DEF Cancel, Idle
    <3>2. ~list[p].loading
      BY <3>1 DEF IInv, CallOK
    <3> QED
      BY <2>5, <3>1, <3>2, CancellingKeeps DEF Cancel
  <2>6. CASE Leave(p)
    BY <2>6, CancellingKeeps DEF Leave
  <2>7. CASE Close(p)
    BY <2>7, CloseKeeps
  <2> QED
    BY <1>1, <2>1, <2>2, <2>3, <2>4, <2>5, <2>6, <2>7 DEF Ui
<1>2. ASSUME NEW w \in Workers, Run(w) PROVE IInv'
  BY <1>2, ThreadKeepsAll, ExitKeeps DEF Run, Thread
<1>3. CASE UNCHANGED vars
  BY <1>3 DEF vars, IInv, TypeOK, SourcesOK, Alive, CallOK, OwedOK, Loading
<1> QED
  BY <1>1, <1>2, <1>3 DEF Next

\* Workers, table, panes and the call under way agree in every reachable state.
THEOREM InvHolds == Spec => []IInv
<1>1. Init => IInv
  BY InitOK
<1>2. IInv /\ [Next]_vars => IInv'
  BY StepKeeps
<1> QED
  BY <1>1, <1>2, PTL DEF Spec

\* The table of slots is exact: no thread is out of sight, no pane shares one,
\* no request waits behind a call into the operating system, and the event of
\* the message loop is set exactly while there is something to take
\* (list_worker.cpp: acquire, retire, submit, take).
THEOREM ThreadsStay == Spec => []ThreadsAccounted
<1>1. ASSUME IInv PROVE ThreadsAccounted
  <2>1. SlotsMatchThreads
    <3>1. DOMAIN slots = 1 .. Live + Reserve
      BY <1>1 DEF IInv, TypeOK
    <3>2. \A w \in Workers : Alive(w) => \E n \in DOMAIN slots : slots[n] = w
      BY <1>1, <3>1 DEF IInv, TableOK, Alive
    <3>3. \A m, n \in DOMAIN slots : slots[m] = slots[n] /\ slots[m] # NoWorker => m = n
      BY <1>1, <3>1 DEF IInv, TableOK
    <3> QED
      BY <1>1, <3>2, <3>3 DEF IInv, SourcesOK, SlotsMatchThreads
  <2>2. NeverQueuedBehind
    BY <1>1 DEF IInv, WorkerOK, PlaceOK, NeverQueuedBehind
  <2>3. SignalledIffWaiting
    BY <1>1 DEF IInv, WorkerOK, BoxOK, SignalledIffWaiting
  <2> QED
    BY <2>1, <2>2, <2>3 DEF ThreadsAccounted
<1> QED
  BY <1>1, InvHolds, PTL

\* A list in phase loading has the end of its loading coming, unless its thread
\* ran out of memory after a listing that was already complete
\* (list_worker.cpp: submit, publish, run; pane_managed_list.cpp:
\* process_content_results).
THEOREM LoadingIsAlwaysOwed == Spec => []LoadingIsOwed
<1>1. ASSUME IInv PROVE LoadingIsOwed
  <2> SUFFICES ASSUME NEW p \in Panes, list[p].loading
               PROVE  \/ AnswerComing(p)
                      \/ source[p] \in Workers /\ state[source[p]].published = "stopped"
    BY DEF LoadingIsOwed
  <2>1. CASE ui # Idle /\ ui.pane = p
    BY <2>1 DEF AnswerComing
  <2>2. CASE ~(ui # Idle /\ ui.pane = p)
    <3> DEFINE s == state[source[p]]
    <3>1. source[p] \in Workers /\ list[p].request # 0 /\ Owed(s, list[p].request)
      BY <1>1, <2>2 DEF IInv, OwedOK, Loading
    <3>2. ~s.stop
      BY <1>1, <3>1, OthersAre
    <3> HIDE DEF s
    <3>3. \/ s.pending = list[p].request
          \/ s.published = "stopped"
          \/ /\ Interested(s) /\ s.request = list[p].request
             /\ \/ s.at = "read"
                \/ s.at = "publish" /\ s.saying \in {"rows", "listed", "failed"}
                \/ \E n \in DOMAIN s.results : s.results[n].kind \in {"listed", "failed"}
                \/ s.emergency # <<>> /\ s.emergency[1].kind = "failed"
      BY <3>1, <3>2 DEF Owed, Interested, First
    <3> QED
      BY <3>1, <3>3 DEF AnswerComing, s
  <2> QED
    BY <2>1, <2>2
<1> QED
  BY <1>1, InvHolds, PTL

-----------------------------------------------------------------------------
(* Every step is one of the abstract Source, or is not seen at all. *)

\* What pane p sees is what its worker shows, before a step and after it.
LEMMA SeenIs ==
  ASSUME NEW p \in Panes
  PROVE  /\ Asked[p] = IF source[p] \in Workers THEN AskedOf(state[source[p]]) ELSE 0
         /\ Said[p] = IF source[p] \in Workers THEN SaidOf(state[source[p]]) ELSE "asked"
         /\ Box[p] = IF source[p] \in Workers THEN BoxOf(state[source[p]]) ELSE <<>>
         /\ Asked'[p] = IF source'[p] \in Workers THEN AskedOf(state'[source'[p]]) ELSE 0
         /\ Said'[p] = IF source'[p] \in Workers THEN SaidOf(state'[source'[p]]) ELSE "asked"
         /\ Box'[p] = IF source'[p] \in Workers THEN BoxOf(state'[source'[p]]) ELSE <<>>
BY DEF Asked, Said, Box, Serving, AskedOf, SaidOf, BoxOf

\* A function that differs from another at one place.
LEMMA ExceptIs ==
  ASSUME NEW S, NEW f, NEW g, f = [x \in S |-> f[x]], g = [x \in S |-> g[x]],
         NEW p \in S, NEW v, g[p] = v, \A x \in S \ {p} : g[x] = f[x]
  PROVE  g = [f EXCEPT ![p] = v]
OBVIOUS

\* Two functions that agree everywhere.
LEMMA SameIs ==
  ASSUME NEW S, NEW f, NEW g, f = [x \in S |-> f[x]], g = [x \in S |-> g[x]],
         \A x \in S : g[x] = f[x]
  PROVE  g = f
OBVIOUS

\* What the panes see are functions on the panes.
LEMMA ViewsAre ==
  /\ Asked = [p \in Panes |-> Asked[p]] /\ Asked' = [p \in Panes |-> Asked'[p]]
  /\ Said = [p \in Panes |-> Said[p]] /\ Said' = [p \in Panes |-> Said'[p]]
  /\ Box = [p \in Panes |-> Box[p]] /\ Box' = [p \in Panes |-> Box'[p]]
BY DEF Asked, Said, Box

\* A step for pane p changes what p sees, to a, s and b, and nothing else.
LEMMA ViewOf ==
  ASSUME NEW p \in Panes, NEW a, NEW s, NEW b,
         \A q \in Panes \ {p} : Asked'[q] = Asked[q] /\ Said'[q] = Said[q] /\ Box'[q] = Box[q],
         Asked'[p] = a, Said'[p] = s, Box'[p] = b
  PROVE  /\ Asked' = [Asked EXCEPT ![p] = a]
         /\ Said' = [Said EXCEPT ![p] = s]
         /\ Box' = [Box EXCEPT ![p] = b]
         /\ a = Asked[p] => Asked' = Asked
         /\ s = Said[p] => Said' = Said
<1>1. Asked' = [Asked EXCEPT ![p] = a]
  BY ViewsAre, ExceptIs
<1>2. Said' = [Said EXCEPT ![p] = s]
  BY ViewsAre, ExceptIs
<1>3. Box' = [Box EXCEPT ![p] = b]
  BY ViewsAre, ExceptIs
<1>4. a = Asked[p] => Asked' = Asked
  BY ViewsAre, SameIs
<1>5. s = Said[p] => Said' = Said
  BY ViewsAre, SameIs
<1> QED
  BY <1>1, <1>2, <1>3, <1>4, <1>5

\* A call for one pane is not seen by the others.
LEMMA OthersUnseen ==
  ASSUME NEW p \in Panes, Untouched(p)
  PROVE  \A q \in Panes \ {p} : Asked'[q] = Asked[q] /\ Said'[q] = Said[q] /\ Box'[q] = Box[q]
BY SeenIs DEF Untouched

\* A Source that nobody listens to.
LEMMA DropsIt ==
  ASSUME NEW p \in Panes, Untouched(p),
         source'[p] \in Workers => LET s == state'[source'[p]] IN
           s.pending = 0 /\ ~s.current /\ s.emergency = <<>> /\ s.results = <<>>
  PROVE  Abstract!Drop(p)
<1>1. Asked'[p] = 0 /\ Said'[p] = "asked" /\ Box'[p] = <<>>
  <2>1. CASE source'[p] \in Workers
    <3> DEFINE s == state'[source'[p]]
    <3>1. s.pending = 0 /\ ~s.current /\ s.emergency = <<>> /\ s.results = <<>>
      BY <2>1
    <3>2. Asked'[p] = AskedOf(s) /\ Said'[p] = SaidOf(s) /\ Box'[p] = BoxOf(s)
      BY <2>1, SeenIs
    <3> HIDE DEF s
    <3>3. <<>> \o <<>> = <<>>
      BY ConcatEmptySeq, EmptySeq
    <3> QED
      BY <3>1, <3>2, <3>3 DEF AskedOf, SaidOf, BoxOf
  <2>2. CASE source'[p] \notin Workers
    BY <2>2, SeenIs
  <2> QED
    BY <2>1, <2>2
<1>2. \A q \in Panes \ {p} : Asked'[q] = Asked[q] /\ Said'[q] = Said[q] /\ Box'[q] = Box[q]
  BY OthersUnseen
<1>3. /\ Asked' = [Asked EXCEPT ![p] = 0]
      /\ Said' = [Said EXCEPT ![p] = "asked"]
      /\ Box' = [Box EXCEPT ![p] = <<>>]
  BY <1>1, <1>2, ViewOf
<1> QED
  BY <1>3 DEF Abstract!Drop

\* A step of a thread answers, has a last word, or says nothing.
LEMMA ThreadAnswers ==
  ASSUME IInv, NEW w \in Workers, Thread(w)
  PROVE  [Abstract!SourceNext]_(Abstract!sourceVars)
<1> DEFINE s == state[w]
           t == state'[w]
<1>1. /\ Kept(s, t) /\ \A x \in Workers : x # w => state'[x] = state[x]
      /\ UNCHANGED <<slots, source, list, ui, refused>>
  <2>1. TableAndWorkersOK(slots, state)
    BY TypesOK
  <2>2. /\ Kept(s, t) /\ state' = [state EXCEPT ![w] = t]
        /\ UNCHANGED <<slots, source, list, ui, refused>>
    BY <2>1, ThreadKeeps DEF TableAndWorkersOK
  <2> HIDE DEF t
  <2>3. \A x \in Workers : x # w => state'[x] = state[x]
    BY <2>1, <2>2 DEF TableAndWorkersOK
  <2> QED
    BY <2>2, <2>3
<1>2. CASE \A p \in Panes : source[p] # w
  <2>1. \A p \in Panes : Asked'[p] = Asked[p] /\ Said'[p] = Said[p] /\ Box'[p] = Box[p]
    BY <1>1, <1>2, SeenIs
  <2>2. Asked' = Asked /\ Said' = Said /\ Box' = Box
    BY <2>1, ViewsAre, SameIs
  <2> QED
    BY <2>2 DEF Abstract!sourceVars
<1>3. ASSUME NEW p \in Panes, source[p] = w
      PROVE  [Abstract!SourceNext]_(Abstract!sourceVars)
  <2>1. ~s.stop /\ \A q \in Panes : source[q] = w => q = p
    BY <1>3, OthersAre
  <2>2. \A q \in Panes \ {p} : Asked'[q] = Asked[q] /\ Said'[q] = Said[q] /\ Box'[q] = Box[q]
    BY <1>1, <2>1, SeenIs
  <2>3. /\ Asked[p] = AskedOf(s) /\ Said[p] = SaidOf(s) /\ Box[p] = BoxOf(s)
        /\ Asked'[p] = AskedOf(t) /\ Said'[p] = SaidOf(t) /\ Box'[p] = BoxOf(t)
    BY <1>1, <1>3, SeenIs
  <2>4. Heard(s, t)
    BY <1>1, <2>1 DEF Kept
  <2> HIDE DEF s, t
  <2>5. CASE SaidOf(t) = SaidOf(s) /\ BoxOf(t) = BoxOf(s)
    <3>1. \A q \in Panes : Asked'[q] = Asked[q] /\ Said'[q] = Said[q] /\ Box'[q] = Box[q]
      BY <2>2, <2>3, <2>4, <2>5 DEF Heard
    <3>2. Asked' = Asked /\ Said' = Said /\ Box' = Box
      BY <3>1, ViewsAre, SameIs
    <3> QED
      BY <3>2 DEF Abstract!sourceVars
  <2>6. CASE /\ AskedOf(s) # 0
             /\ SaidOf(t) \in Kinds \cap Abstract!Follows(SaidOf(s), AskedOf(s))
             /\ \/ /\ Len(BoxOf(s)) < QueuedBatches
                   /\ BoxOf(t) = Append(BoxOf(s), [request |-> AskedOf(s), kind |-> SaidOf(t)])
                \/ /\ SaidOf(t) \in {"failed", "stopped"}
                   /\ BoxOf(t) = <<[request |-> AskedOf(s), kind |-> SaidOf(t)]>>
    <3> DEFINE k == SaidOf(t)
               b == BoxOf(t)
    <3>1. /\ Asked' = Asked /\ Said' = [Said EXCEPT ![p] = k] /\ Box' = [Box EXCEPT ![p] = b]
      <4>1. Asked'[p] = Asked[p] /\ Said'[p] = k /\ Box'[p] = b
        BY <2>3, <2>4 DEF Heard
      <4> HIDE DEF k, b
      <4> QED
        BY <2>2, <4>1, ViewOf
    <3>2. k \in Kinds /\ k \in Abstract!Follows(Said[p], Asked[p]) /\ Asked[p] # 0
      BY <2>3, <2>6
    <3>3. Abstract!Answer(p, k) \/ Abstract!LastWord(p, k)
      <4>1. CASE Len(BoxOf(s)) < QueuedBatches /\ b = Append(BoxOf(s), [request |-> AskedOf(s), kind |-> k])
        <5>1. Len(Box[p]) < QueuedBatches /\ b = Append(Box[p], [request |-> Asked[p], kind |-> k])
          BY <2>3, <4>1
        <5> HIDE DEF k, b
        <5> QED
          BY <3>1, <3>2, <5>1 DEF Abstract!Answer
      <4>2. CASE k \in {"failed", "stopped"} /\ b = <<[request |-> AskedOf(s), kind |-> k]>>
        <5>1. b = <<[request |-> Asked[p], kind |-> k]>>
          BY <2>3, <4>2
        <5> HIDE DEF k, b
        <5> QED
          BY <3>1, <3>2, <4>2, <5>1 DEF Abstract!LastWord
      <4> QED
        BY <2>6, <4>1, <4>2
    <3> HIDE DEF k
    <3> QED
      BY <3>2, <3>3 DEF Abstract!SourceNext, Kinds
  <2> QED
    BY <2>4, <2>5, <2>6 DEF Heard
<1> QED
  BY <1>2, <1>3

\* A call of the UI thread asks, drops or takes.
LEMMA UiAsks ==
  ASSUME IInv, NEW p \in Panes, Ui(p)
  PROVE  Abstract!SourceNext
<1>1. CASE Start(p)
  <2>1. Abstract!Drop(p)
    BY <1>1, StartKeeps, DropsIt
  <2> QED
    BY <2>1 DEF Abstract!SourceNext
<1>2. CASE Submit(p)
  <2>1. /\ IInv' /\ Untouched(p)
        /\ source'[p] \in Workers => LET s == state'[source'[p]] IN s.pending = 0 /\ ~s.current
    BY <1>2, SubmitKeeps
  <2>2. source'[p] \in Workers => LET s == state'[source'[p]] IN s.emergency = <<>> /\ s.results = <<>>
    BY <2>1 DEF IInv, WorkerOK, BoxOK
  <2>3. Abstract!Drop(p)
    BY <2>1, <2>2, DropsIt
  <2> QED
    BY <2>3 DEF Abstract!SourceNext
<1>3. CASE Place(p)
  <2> DEFINE r == list[p].request
             t == state'[source[p]]
  <2>1. /\ Untouched(p) /\ source' = source /\ source[p] \in Workers /\ r \in 1 .. MaxRequests
        /\ t.pending = r /\ ~t.current /\ t.results = <<>> /\ t.emergency = <<>>
    BY <1>3, PlaceKeeps
  <2>2. Asked'[p] = AskedOf(t) /\ Said'[p] = SaidOf(t) /\ Box'[p] = BoxOf(t)
    BY <2>1, SeenIs
  <2>3. \A q \in Panes \ {p} : Asked'[q] = Asked[q] /\ Said'[q] = Said[q] /\ Box'[q] = Box[q]
    BY <2>1, OthersUnseen
  <2> HIDE DEF t, r
  <2>4. AskedOf(t) = r /\ SaidOf(t) = "asked" /\ BoxOf(t) = <<>>
    <3>1. <<>> \o <<>> = <<>>
      BY ConcatEmptySeq, EmptySeq
    <3>2. r # 0
      BY <2>1
    <3> QED
      BY <2>1, <3>1, <3>2 DEF AskedOf, SaidOf, BoxOf
  <2>5. /\ Asked' = [Asked EXCEPT ![p] = r]
        /\ Said' = [Said EXCEPT ![p] = "asked"]
        /\ Box' = [Box EXCEPT ![p] = <<>>]
    BY <2>2, <2>3, <2>4, ViewOf
  <2>6. Abstract!Ask(p, r)
    BY <2>5 DEF Abstract!Ask
  <2> QED
    BY <2>1, <2>6 DEF Abstract!SourceNext
<1>4. CASE Take(p)
  <2> DEFINE s == state[source[p]]
             t == state'[source[p]]
  <2>1. /\ Untouched(p) /\ source' = source /\ source[p] \in Workers
        /\ AskedOf(t) = AskedOf(s) /\ SaidOf(t) = SaidOf(s)
        /\ BoxOf(s) # <<>> /\ BoxOf(t) = Tail(BoxOf(s))
    BY <1>4, TakeKeeps
  <2>2. /\ Asked[p] = AskedOf(s) /\ Said[p] = SaidOf(s) /\ Box[p] = BoxOf(s)
        /\ Asked'[p] = AskedOf(t) /\ Said'[p] = SaidOf(t) /\ Box'[p] = BoxOf(t)
    BY <2>1, SeenIs
  <2>3. \A q \in Panes \ {p} : Asked'[q] = Asked[q] /\ Said'[q] = Said[q] /\ Box'[q] = Box[q]
    BY <2>1, OthersUnseen
  <2> HIDE DEF s, t
  <2>4. Asked'[p] = Asked[p] /\ Said'[p] = Said[p] /\ Box'[p] = Tail(Box[p]) /\ Box[p] # <<>>
    BY <2>1, <2>2
  <2>5. Asked' = Asked /\ Said' = Said /\ Box' = [Box EXCEPT ![p] = Tail(Box[p])]
    BY <2>3, <2>4, ViewOf
  <2>6. Abstract!TakeAnswer(p)
    BY <2>4, <2>5 DEF Abstract!TakeAnswer
  <2> QED
    BY <2>6 DEF Abstract!SourceNext
<1>5. CASE Cancel(p)
  <2>1. ui # Idle /\ ui.pane = p /\ ui.op = "cancel" /\ ui' = Idle
    BY <1>5 DEF Cancel, Idle
  <2>2. ~list[p].loading
    BY <2>1 DEF IInv, CallOK
  <2>3. /\ Untouched(p) /\ source' = source
        /\ source[p] \in Workers => LET t == state'[source[p]] IN
             t.pending = 0 /\ ~t.current /\ t.emergency = <<>> /\ t.results = <<>>
    BY <1>5, <2>1, <2>2, CancellingKeeps DEF Cancel
  <2>4. Abstract!Drop(p)
    BY <2>3, DropsIt
  <2> QED
    BY <2>4 DEF Abstract!SourceNext
<1>6. CASE Leave(p)
  <2>1. /\ Untouched(p) /\ source' = source
        /\ source[p] \in Workers => LET t == state'[source[p]] IN
             t.pending = 0 /\ ~t.current /\ t.emergency = <<>> /\ t.results = <<>>
    BY <1>6, CancellingKeeps DEF Leave
  <2>2. Abstract!Drop(p)
    BY <2>1, DropsIt
  <2> QED
    BY <2>2 DEF Abstract!SourceNext
<1>7. CASE Close(p)
  <2>1. Untouched(p) /\ source'[p] \notin Workers
    BY <1>7, CloseKeeps
  <2>2. Abstract!Drop(p)
    BY <2>1, DropsIt
  <2> QED
    BY <2>2 DEF Abstract!SourceNext
<1> QED
  BY <1>1, <1>2, <1>3, <1>4, <1>5, <1>6, <1>7 DEF Ui

\* Every Source behaves as ResultSource says: only the request asked last is
\* answered, at most kQueuedBatches answers wait, in an order the pane can apply
\* (list_worker.h and list_worker.cpp: submit, cancel, take, publish).
THEOREM SourceImplemented == Spec => AnswersInOrder
<1>1. Init => Abstract!SourceInit
  <2> SUFFICES ASSUME Init PROVE Abstract!SourceInit
    OBVIOUS
  <2>1. NoSource \notin Workers
    BY PoolAssumption DEF NoSource, Workers
  <2>2. \A p \in Panes : source[p] \notin Workers
    BY <2>1 DEF Init
  <2>3. \A p \in Panes : Asked[p] = 0 /\ Said[p] = "asked" /\ Box[p] = <<>>
    BY <2>2, SeenIs
  <2>4. /\ Asked = [p \in Panes |-> 0] /\ Said = [p \in Panes |-> "asked"]
        /\ Box = [p \in Panes |-> <<>>]
    BY <2>3, ViewsAre
  <2> QED
    BY <2>4 DEF Abstract!SourceInit
<1>2. IInv /\ [Next]_vars => [Abstract!SourceNext]_(Abstract!sourceVars)
  <2> SUFFICES ASSUME IInv, [Next]_vars PROVE [Abstract!SourceNext]_(Abstract!sourceVars)
    OBVIOUS
  <2>1. ASSUME NEW w \in Workers, Exit(w) PROVE [Abstract!SourceNext]_(Abstract!sourceVars)
    <3>1. /\ source' = source
          /\ \A p \in Panes : source[p] \in Workers => state'[source[p]] = state[source[p]]
      BY <2>1, ExitKeeps
    <3>2. \A p \in Panes : Asked'[p] = Asked[p] /\ Said'[p] = Said[p] /\ Box'[p] = Box[p]
      BY <3>1, SeenIs
    <3>3. Asked' = Asked /\ Said' = Said /\ Box' = Box
      BY <3>2, ViewsAre, SameIs
    <3> QED
      BY <3>3 DEF Abstract!sourceVars
  <2>2. ASSUME NEW w \in Workers, Run(w) PROVE [Abstract!SourceNext]_(Abstract!sourceVars)
    BY <2>1, <2>2, ThreadAnswers DEF Run, Thread
  <2>3. CASE UNCHANGED vars
    <3>1. Asked' = Asked /\ Said' = Said /\ Box' = Box
      BY <2>3 DEF vars, Asked, Said, Box, Serving
    <3> QED
      BY <3>1 DEF Abstract!sourceVars
  <2> QED
    BY <2>2, <2>3, UiAsks DEF Next
<1> QED
  BY <1>1, <1>2, InvHolds, PTL DEF Spec, AnswersInOrder, Abstract!SourceSpec
===============================================================================
