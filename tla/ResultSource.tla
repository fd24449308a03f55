---------------------------- MODULE ResultSource ----------------------------
(***************************************************************************)
(* What a pane may rely on when it asks a Source for the contents of a     *)
(* folder (src/src/managed_list/list_worker.h): one request at a time, a   *)
(* bounded box of answers, every answer about the request asked last, and  *)
(* the answers in an order the pane can apply one by one.  Threads, slots, *)
(* locks and events are absent: ListWorker has them and implements this.   *)
(*                                                                         *)
(* An answer is a record [request, kind].  The kinds, in the words of      *)
(* Phase and Change:                                                       *)
(*   rows, listed, failed    a listing batch in phase loading, complete /  *)
(*                           empty / limited, error;                       *)
(*   watching, delta         the notification subscription and a change;   *)
(*   begin, rerows,          a recovery rescan: rescan_begin and its       *)
(*   relisted, refailed      batches;                                      *)
(*   stopped, lost           watch_error and location_lost.                *)
(***************************************************************************)
EXTENDS Integers, Sequences

CONSTANTS
  Panes,          \* the panes, each with a Source of its own
  MaxRequests,    \* how often the panes ask
  Namespaces,     \* the requests for a namespace folder; the rest name a directory
  QueuedBatches   \* kQueuedBatches

VARIABLES
  asked,      \* asked[p]: the request the pane is interested in, 0 when in none
  said,       \* said[p]: the last answer given to it, "asked" before the first
  box         \* box[p]: the answers the pane has not taken yet

sourceVars == <<asked, said, box>>

Kinds == {"rows", "listed", "failed", "watching", "delta", "begin", "rerows",
          "relisted", "refailed", "stopped", "lost"}

Answers == [request : 1 .. MaxRequests, kind : Kinds]

\* What may follow answer k to request r.  Only a directory's changes are
\* decoded into deltas and only a directory can be found to be lost; only a
\* namespace folder goes on being watched after a read error.
Follows(k, r) ==
  CASE k \in {"asked", "rows"} -> {"rows", "listed", "failed"}
    [] k = "listed" -> {"watching", "stopped"}
    [] k = "failed" -> IF r \in Namespaces THEN {"watching", "stopped"} ELSE {}
    [] k \in {"watching", "delta", "relisted"} ->
         {"begin", "stopped"} \cup (IF r \in Namespaces THEN {} ELSE {"delta", "lost"})
    [] k \in {"begin", "rerows"} -> {"rerows", "relisted", "refailed", "stopped"}
    [] k = "refailed" -> IF r \in Namespaces THEN {"begin", "stopped"} ELSE {}
    [] OTHER -> {}

SourceTypeOK ==
  /\ asked \in [Panes -> 0 .. MaxRequests]
  /\ said \in [Panes -> Kinds \cup {"asked"}]
  /\ \A p \in Panes : box[p] \in Seq(Answers) /\ Len(box[p]) <= QueuedBatches

SourceInit ==
  /\ asked = [p \in Panes |-> 0]
  /\ said = [p \in Panes |-> "asked"]
  /\ box = [p \in Panes |-> <<>>]

\* Source::submit: whatever was asked or answered before is forgotten.
Ask(p, r) ==
  /\ asked' = [asked EXCEPT ![p] = r]
  /\ said' = [said EXCEPT ![p] = "asked"]
  /\ box' = [box EXCEPT ![p] = <<>>]

\* Source::cancel, a refused submit, the end of the Source.
Drop(p) ==
  /\ asked' = [asked EXCEPT ![p] = 0]
  /\ said' = [said EXCEPT ![p] = "asked"]
  /\ box' = [box EXCEPT ![p] = <<>>]

Answer(p, k) ==
  /\ asked[p] # 0
  /\ k \in Follows(said[p], asked[p])
  /\ Len(box[p]) < QueuedBatches
  /\ said' = [said EXCEPT ![p] = k]
  /\ box' = [box EXCEPT ![p] = Append(@, [request |-> asked[p], kind |-> k])]
  /\ UNCHANGED asked

\* Out of memory: the last word replaces everything not taken yet.
LastWord(p, k) ==
  /\ asked[p] # 0
  /\ k \in Follows(said[p], asked[p]) \cap {"failed", "stopped"}
  /\ said' = [said EXCEPT ![p] = k]
  /\ box' = [box EXCEPT ![p] = <<[request |-> asked[p], kind |-> k]>>]
  /\ UNCHANGED asked

TakeAnswer(p) ==
  /\ box[p] # <<>>
  /\ box' = [box EXCEPT ![p] = Tail(@)]
  /\ UNCHANGED <<asked, said>>

SourceNext ==
  \E p \in Panes :
    \/ \E r \in 1 .. MaxRequests : Ask(p, r)
    \/ Drop(p)
    \/ \E k \in Kinds : Answer(p, k) \/ LastWord(p, k)
    \/ TakeAnswer(p)

SourceSpec == SourceInit /\ [][SourceNext]_sourceVars
=============================================================================
