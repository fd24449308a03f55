--------------------- MODULE ShutdownCoordinatorProofs ----------------------
(***************************************************************************)
(* The close sequence of ShutdownCoordinator for every depth of nesting,    *)
(* capacity of the message queue, number of drags and of failed posts: the  *)
(* reducer's gates describe the call stack, the views are never destroyed   *)
(* under a call that returns into them, a close is neither lost nor stuck,  *)
(* and what is on disk when the views go down.                              *)
(***************************************************************************)
EXTENDS ShutdownCoordinator, SequenceTheorems, FiniteSetTheorems, TLAPS

\* How many calls of a kind have not returned.
Count(st, fs) == Cardinality(Positions(st, fs))

FileCallFrames == FileOpFrames \cup {"file_op_tail"}

Shells(st) == Count(st, ShellFrames)
Drags(st) == Count(st, DragFrames)
FileCalls(st) == Count(st, FileCallFrames)
Transfers(st) == Count(st, {"file_op_live"})
Prompts(st) == Count(st, {"save_prompt"})
Retries(st) == Count(st, {"request_close"})
Teardowns(st) == Count(st, TeardownFrames)

One(b) == IF b THEN 1 ELSE 0

-----------------------------------------------------------------------------
(* The inductive invariant, part by part, over the reducer's state s, the   *)
(* stack st and what else a part relates them to.                           *)

\* Each counter and flag of the reducer counts the calls it stands for, and of
\* the calls that a flag stands for there is one at most.
CountsMatch(s, st) ==
    /\ s.shell_call_depth = Shells(st)
    /\ FileCalls(st) = One(s.file_operation_call_active)
    /\ Transfers(st) = One(s.file_operation_in_progress)
    /\ Prompts(st) = One(s.shutdown_prompt_active)
    /\ s.drag_in_progress <=> s.drag_target_count # 0
    /\ s.drag_target_count >= Drags(st)

\* Nothing nests in a call that does not pump, so the two kinds of them are at
\* the top: the tail of a file operation, and a retried close, even on that.
Settled(st) == st \in Seq(PumpFrames)

TailOnTop(st) == \E b \in Seq(PumpFrames) : st = Append(b, "file_op_tail")

BusyOnTop(st) ==
    \/ Settled(st)
    \/ TailOnTop(st)
    \/ \E b \in Seq(Frames) :
          (Settled(b) \/ TailOnTop(b)) /\ st = Append(b, "request_close")

\* The save prompt opens only where no gate is held.
PromptAboveNoGate(st) ==
    \A i, j \in 1..Len(st) :
        i < j /\ st[j] = "save_prompt" => st[i] \notin GateFrames

\* A post fails only outside Shell calls.
RetryOutsideShell(s, st) == Retries(st) # 0 => s.shell_call_depth = 0

\* Once the teardown has begun no gate is held and none will be; only the
\* teardown quits and destroys the window.
ClosingIsClear(s, st, a) ==
    /\ s.closing =>
         /\ Shells(st) = 0 /\ Drags(st) = 0 /\ FileCalls(st) = 0 /\ Prompts(st) = 0
         /\ s.drag_target_count = 0
         /\ ~s.shutdown_deferred /\ ~s.shutdown_message_queued
    /\ Teardowns(st) # 0 => s.closing
    /\ s.quit_requested => s.closing
    /\ s.main_window_destroyed <=> ~a.window
    /\ ~a.window => s.closing

\* The continuation that the reducer takes for posted is in the queue, and a
\* save that was attempted led to the teardown or to its prompt.
ContinuationQueued(s, q) ==
    /\ s.shutdown_message_queued =>
         s.shutdown_deferred /\ \E i \in DOMAIN q : q[i] = "deferred_shutdown"
    /\ s.shutdown_save_attempted => s.closing \/ s.shutdown_prompt_active

Calls(s, st, q, a) ==
    /\ s \in State
    /\ st \in Seq(Frames)
    /\ q \in Seq(Messages)
    /\ CountsMatch(s, st)
    /\ PromptAboveNoGate(st)
    /\ RetryOutsideShell(s, st)
    /\ ClosingIsClear(s, st, a)
    /\ ContinuationQueued(s, q)

\* A deferred close is resumed by a gate or by a posted continuation.
DeferralHeld(s) ==
    s.shutdown_deferred => \/ s.shell_call_depth # 0
                           \/ s.drag_target_count # 0
                           \/ s.shutdown_message_queued

\* A close that is past the transfer prompt: deferred, being retried, asking
\* about a failed save, or tearing down.
Underway(s, st) ==
    \/ s.closing
    \/ s.shutdown_deferred
    \/ s.shutdown_prompt_active
    \/ Retries(st) # 0

IdlePrompt == [window |-> "hidden", result |-> "none"]

\* A session end that owns its close has neither a close of the user's nor a
\* transfer prompt to withdraw.
OwnedBySession(s, u, p, os) ==
    /\ s.end_session_pending /\ ~s.closing => os
    /\ s.end_session_pending /\ s.end_session_owns_close =>
          u # "yes" /\ p = IdlePrompt

\* A close waits for the file operation that has not returned.
AwaitsTransfer(s) ==
    s.close_after_file_operation /\ s.file_operation_call_active

\* The user's close is on its way, or waits for the transfer that is running.
UserCloseCarried(s, st, u) == u = "yes" => Underway(s, st) \/ AwaitsTransfer(s)

\* "Closing..." is shown of a close on its way; between the retry of a close
\* and the tail of the file operation it then waits for, the tail takes it up
\* next.
CaptionTrue(s, st, c) ==
    c => Underway(s, st) \/ (AwaitsTransfer(s) /\ TailOnTop(st))

\* The transfer prompt is open, or its answer unread, only while the file
\* operation it asks about has not returned.
PromptAboutTransfer(s, p) == p # IdlePrompt => AwaitsTransfer(s)

IInv ==
    /\ TypeOK
    /\ Calls(seq, stack, queue, alive)
    /\ BusyOnTop(stack)
    /\ DeferralHeld(seq)
    /\ OwnedBySession(seq, intent.user_close, prompt, os_ending)
    /\ UserCloseCarried(seq, stack, intent.user_close)
    /\ CaptionTrue(seq, stack, caption)
    /\ PromptAboutTransfer(seq, prompt)

-----------------------------------------------------------------------------
(* The call stack: pushing a frame counts it, popping one undoes a push.    *)

\* A stack has finitely many frames of any kind.
LEMMA PositionsFinite ==
    ASSUME NEW st \in Seq(Frames), NEW fs
    PROVE  /\ IsFiniteSet(Positions(st, fs))
           /\ Count(st, fs) \in Nat
           /\ Count(st, fs) = 0 <=> Positions(st, fs) = {}
<1>1. Len(st) \in Nat
  BY LenProperties
<1>2. IsFiniteSet(1..Len(st))
  BY <1>1, FS_Interval
<1>3. Positions(st, fs) \subseteq 1..Len(st)
  BY DEF Positions
<1>4. IsFiniteSet(Positions(st, fs))
  BY <1>2, <1>3, FS_Subset
<1>5. QED
  BY <1>4, FS_CardinalityType, FS_EmptySet DEF Count

\* A call that starts is one more of its kinds.
LEMMA CountPush ==
    ASSUME NEW st \in Seq(Frames), NEW f \in Frames, NEW fs
    PROVE  Count(Append(st, f), fs)
             = Count(st, fs) + (IF f \in fs THEN 1 ELSE 0)
<1> DEFINE n == Len(st)
           up == Append(st, f)
<1>1. /\ n \in Nat
      /\ Len(up) = n + 1
      /\ \A i \in 1..n : up[i] = st[i]
      /\ up[n + 1] = f
  BY LenProperties, AppendProperties
<1>2. /\ IsFiniteSet(Positions(st, fs))
      /\ Count(st, fs) \in Nat
  BY PositionsFinite
<1>3. n + 1 \notin Positions(st, fs)
  BY <1>1 DEF Positions
<1> HIDE DEF n, up
<1>4. CASE f \in fs
  <2>1. Positions(up, fs) = Positions(st, fs) \cup {n + 1}
    BY <1>1, <1>4 DEF Positions, n
  <2>2. Cardinality(Positions(up, fs)) = Cardinality(Positions(st, fs)) + 1
    BY <2>1, <1>2, <1>3, FS_AddElement
  <2>3. QED
    BY <2>2, <1>4 DEF Count, up
<1>5. CASE f \notin fs
  <2>1. Positions(up, fs) = Positions(st, fs)
    BY <1>1, <1>5 DEF Positions, n
  <2>2. QED
    BY <2>1, <1>2, <1>5 DEF Count, up
<1>6. QED
  BY <1>4, <1>5

\* The empty stack is wWinMain's own message loop.
LEMMA CountEmpty ==
    ASSUME NEW fs
    PROVE  Count(<<>>, fs) = 0
<1>1. Positions(<<>>, fs) = {}
  BY EmptySeq DEF Positions
<1>2. QED
  BY <1>1, FS_EmptySet DEF Count

\* A stack that is not empty is the one below its top with the top pushed.
LEMMA PopThenPush ==
    ASSUME NEW S, NEW st \in Seq(S), st # <<>>
    PROVE  /\ SubSeq(st, 1, Len(st) - 1) \in Seq(S)
           /\ st[Len(st)] \in S
           /\ st = Append(SubSeq(st, 1, Len(st) - 1), st[Len(st)])
<1>1. Len(st) \in Nat \ {0} /\ Len(st) \in 1..Len(st)
  BY EmptySeq
<1>2. \A i \in 1..Len(st) : st[i] \in S
  BY ElementOfSeq
<1> DEFINE b == SubSeq(st, 1, Len(st) - 1)
           f == st[Len(st)]
<1>3. /\ b \in Seq(S)
      /\ Len(b) = Len(st) - 1
      /\ \A i \in 1..Len(st) - 1 : b[i] = st[i]
  <2>1. Len(st) - 1 \in Int /\ \A i \in 1..Len(st) - 1 : st[i] \in S
    BY <1>1, <1>2
  <2>2. /\ b \in Seq(S)
        /\ Len(b) = IF 1 <= Len(st) - 1 THEN Len(st) - 1 - 1 + 1 ELSE 0
        /\ \A i \in 1..Len(st) - 1 - 1 + 1 : b[i] = st[1 + i - 1]
    BY <2>1, SubSeqProperties
  <2> HIDE DEF b
  <2>3. \A i \in 1..Len(st) - 1 : b[i] = st[i]
    <3> TAKE i \in 1..Len(st) - 1
    <3>1. i \in 1..Len(st) - 1 - 1 + 1 /\ 1 + i - 1 = i
      BY <1>1
    <3>2. QED
      BY <2>2, <3>1
  <2> DEFINE n == Len(st)
             k == Len(b)
  <2>4. n \in Nat /\ n # 0 /\ k = IF 1 <= n - 1 THEN n - 1 - 1 + 1 ELSE 0
    BY <2>2, <1>1
  <2> HIDE DEF n, k
  <2>5. k = n - 1
    BY <2>4
  <2>6. QED
    BY <2>2, <2>3, <2>5 DEF n, k
<1>4. f \in S
  BY <1>1, <1>2
<1>5. /\ Append(b, f) \in Seq(S)
      /\ Len(Append(b, f)) = Len(b) + 1
      /\ \A i \in 1..Len(b) : Append(b, f)[i] = b[i]
      /\ Append(b, f)[Len(b) + 1] = f
  BY <1>3, <1>4, AppendProperties
<1> HIDE DEF b
<1>6. Len(Append(b, f)) = Len(st)
  BY <1>1, <1>3, <1>5
<1>7. \A i \in 1..Len(st) : st[i] = Append(b, f)[i]
  BY <1>1, <1>3, <1>5
<1>8. st = Append(b, f)
  BY <1>5, <1>6, <1>7, SeqEqual
<1>9. QED
  BY <1>3, <1>4, <1>8 DEF b

\* Pushing and popping are inverse.
LEMMA PushThenPop ==
    ASSUME NEW S, NEW b \in Seq(S), NEW f \in S
    PROVE  /\ Append(b, f) \in Seq(S)
           /\ Append(b, f) # <<>>
           /\ Len(Append(b, f)) = Len(b) + 1
           /\ Append(b, f)[Len(Append(b, f))] = f
           /\ SubSeq(Append(b, f), 1, Len(Append(b, f)) - 1) = b
<1>1. /\ Append(b, f) \in Seq(S)
      /\ Append(b, f) # <<>>
      /\ Len(Append(b, f)) = Len(b) + 1
      /\ Append(b, f)[Len(b) + 1] = f
  BY AppendProperties
<1>2. /\ SubSeq(Append(b, f), 1, Len(Append(b, f)) - 1) \in Seq(S)
      /\ Append(b, f) = Append(SubSeq(Append(b, f), 1, Len(Append(b, f)) - 1), f)
  BY <1>1, PopThenPush
<1>3. SubSeq(Append(b, f), 1, Len(Append(b, f)) - 1) = b
  BY <1>2, AppendInjective
<1>4. QED
  BY <1>1, <1>3

\* Every kind of call, counted once more.
LEMMA KindsPushed ==
    ASSUME NEW st \in Seq(Frames), NEW f \in Frames
    PROVE  /\ Append(st, f) \in Seq(Frames)
           /\ Shells(Append(st, f)) = Shells(st) + One(f \in ShellFrames)
           /\ Drags(Append(st, f)) = Drags(st) + One(f \in DragFrames)
           /\ FileCalls(Append(st, f)) = FileCalls(st) + One(f \in FileCallFrames)
           /\ Transfers(Append(st, f)) = Transfers(st) + One(f = "file_op_live")
           /\ Prompts(Append(st, f)) = Prompts(st) + One(f = "save_prompt")
           /\ Retries(Append(st, f)) = Retries(st) + One(f = "request_close")
           /\ Teardowns(Append(st, f)) = Teardowns(st) + One(f \in TeardownFrames)
<1>1. \A fs : Count(Append(st, f), fs) = Count(st, fs) + One(f \in fs)
  BY CountPush DEF One
<1>2. Append(st, f) \in Seq(Frames)
  BY AppendProperties
<1>3. /\ f \in {"file_op_live"} <=> f = "file_op_live"
      /\ f \in {"save_prompt"} <=> f = "save_prompt"
      /\ f \in {"request_close"} <=> f = "request_close"
  OBVIOUS
<1>4. QED
  BY <1>1, <1>2, <1>3
     DEF Shells, Drags, FileCalls, Transfers, Prompts, Retries, Teardowns, One

\* The kinds are counted in natural numbers.
LEMMA KindsCounted ==
    ASSUME NEW st \in Seq(Frames)
    PROVE  /\ Shells(st) \in Nat /\ Drags(st) \in Nat /\ FileCalls(st) \in Nat
           /\ Transfers(st) \in Nat /\ Prompts(st) \in Nat /\ Retries(st) \in Nat
           /\ Teardowns(st) \in Nat
BY PositionsFinite
   DEF Shells, Drags, FileCalls, Transfers, Prompts, Retries, Teardowns

\* What a frame adds to the counts of the stack b below it.
Pushed(b, st, shell, drag, file, transfer, prompt_, retry, teardown) ==
    /\ st \in Seq(Frames)
    /\ Shells(st) = Shells(b) + shell
    /\ Drags(st) = Drags(b) + drag
    /\ FileCalls(st) = FileCalls(b) + file
    /\ Transfers(st) = Transfers(b) + transfer
    /\ Prompts(st) = Prompts(b) + prompt_
    /\ Retries(st) = Retries(b) + retry
    /\ Teardowns(st) = Teardowns(b) + teardown

\* The kinds of each frame.
LEMMA FramePushes ==
    ASSUME NEW b \in Seq(Frames)
    PROVE  /\ Pushed(b, Append(b, "shell"),         1, 0, 0, 0, 0, 0, 0)
           /\ Pushed(b, Append(b, "drag_leave"),    1, 1, 0, 0, 0, 0, 0)
           /\ Pushed(b, Append(b, "file_op"),       1, 0, 1, 0, 0, 0, 0)
           /\ Pushed(b, Append(b, "file_op_live"),  1, 0, 1, 1, 0, 0, 0)
           /\ Pushed(b, Append(b, "file_op_over"),  1, 0, 1, 0, 0, 0, 0)
           /\ Pushed(b, Append(b, "file_op_tail"),  0, 0, 1, 0, 0, 0, 0)
           /\ Pushed(b, Append(b, "drag"),          0, 1, 0, 0, 0, 0, 0)
           /\ Pushed(b, Append(b, "modal"),         0, 0, 0, 0, 0, 0, 0)
           /\ Pushed(b, Append(b, "save_prompt"),   0, 0, 0, 0, 1, 0, 0)
           /\ Pushed(b, Append(b, "request_close"), 0, 0, 0, 0, 0, 1, 0)
           /\ Pushed(b, Append(b, "teardown"),      0, 0, 0, 0, 0, 0, 1)
           /\ Pushed(b, Append(b, "end_teardown"),  0, 0, 0, 0, 0, 0, 1)
<1>1. \A f \in Frames :
         Pushed(b, Append(b, f),
                One(f \in ShellFrames), One(f \in DragFrames),
                One(f \in FileCallFrames), One(f = "file_op_live"),
                One(f = "save_prompt"), One(f = "request_close"),
                One(f \in TeardownFrames))
  BY KindsPushed DEF Pushed
<1>2. ASSUME NEW f \in Frames, NEW x1 \in BOOLEAN, NEW x2 \in BOOLEAN,
             NEW x3 \in BOOLEAN, NEW x4 \in BOOLEAN, NEW x5 \in BOOLEAN,
             NEW x6 \in BOOLEAN, NEW x7 \in BOOLEAN,
             x1 <=> f \in ShellFrames, x2 <=> f \in DragFrames,
             x3 <=> f \in FileCallFrames, x4 <=> f = "file_op_live",
             x5 <=> f = "save_prompt", x6 <=> f = "request_close",
             x7 <=> f \in TeardownFrames
      PROVE  Pushed(b, Append(b, f), One(x1), One(x2), One(x3), One(x4),
                    One(x5), One(x6), One(x7))
  BY <1>1, <1>2 DEF One
<1>3. /\ One(TRUE) = 1 /\ One(FALSE) = 0
  BY DEF One
<1> USE DEF Frames, PumpFrames, ShellFrames, DragFrames, FileCallFrames, FileOpFrames,
            TeardownFrames
<1>4. Pushed(b, Append(b, "shell"), 1, 0, 0, 0, 0, 0, 0)
  BY <1>2, <1>3
<1>5. Pushed(b, Append(b, "drag_leave"), 1, 1, 0, 0, 0, 0, 0)
  BY <1>2, <1>3
<1>6. Pushed(b, Append(b, "file_op"), 1, 0, 1, 0, 0, 0, 0)
  BY <1>2, <1>3
<1>7. Pushed(b, Append(b, "file_op_live"), 1, 0, 1, 1, 0, 0, 0)
  BY <1>2, <1>3
<1>8. Pushed(b, Append(b, "file_op_over"), 1, 0, 1, 0, 0, 0, 0)
  BY <1>2, <1>3
<1>9. Pushed(b, Append(b, "file_op_tail"), 0, 0, 1, 0, 0, 0, 0)
  BY <1>2, <1>3
<1>10. Pushed(b, Append(b, "drag"), 0, 1, 0, 0, 0, 0, 0)
  BY <1>2, <1>3
<1>11. Pushed(b, Append(b, "modal"), 0, 0, 0, 0, 0, 0, 0)
  BY <1>2, <1>3
<1>12. Pushed(b, Append(b, "save_prompt"), 0, 0, 0, 0, 1, 0, 0)
  BY <1>2, <1>3
<1>13. Pushed(b, Append(b, "request_close"), 0, 0, 0, 0, 0, 1, 0)
  BY <1>2, <1>3
<1>14. Pushed(b, Append(b, "teardown"), 0, 0, 0, 0, 0, 0, 1)
  BY <1>2, <1>3
<1>15. Pushed(b, Append(b, "end_teardown"), 0, 0, 0, 0, 0, 0, 1)
  BY <1>2, <1>3
<1>16. QED
  BY <1>4, <1>5, <1>6, <1>7, <1>8, <1>9, <1>10, <1>11, <1>12, <1>13, <1>14, <1>15

\* An empty stack has no call of any kind.
LEMMA KindsEmpty ==
    /\ Shells(<<>>) = 0 /\ Drags(<<>>) = 0 /\ FileCalls(<<>>) = 0
    /\ Transfers(<<>>) = 0 /\ Prompts(<<>>) = 0 /\ Retries(<<>>) = 0
    /\ Teardowns(<<>>) = 0
BY CountEmpty
   DEF Shells, Drags, FileCalls, Transfers, Prompts, Retries, Teardowns

\* A transfer under way is a file operation and a Shell call.
LEMMA TransferIsShell ==
    ASSUME NEW st \in Seq(Frames)
    PROVE  Transfers(st) # 0 => Shells(st) # 0 /\ FileCalls(st) # 0
<1>1. /\ Positions(st, {"file_op_live"}) \subseteq Positions(st, ShellFrames)
      /\ Positions(st, {"file_op_live"}) \subseteq Positions(st, FileCallFrames)
  BY DEF Positions, ShellFrames, FileCallFrames, FileOpFrames
<1>2. \A fs : Count(st, fs) = 0 <=> Positions(st, fs) = {}
  BY PositionsFinite
<1>3. QED
  BY <1>1, <1>2 DEF Transfers, Shells, FileCalls

\* A settled stack holds no retried close and no tail of a file operation.
LEMMA SettledHasNoTail ==
    ASSUME NEW st, Settled(st)
    PROVE  /\ st \in Seq(Frames)
           /\ Retries(st) = 0
           /\ Positions(st, {"file_op_tail"}) = {}
<1>1. st \in Seq(Frames)
  BY SeqMonotonic DEF Settled, Frames
<1>2. \A i \in 1..Len(st) : st[i] \in PumpFrames
  BY ElementOfSeq DEF Settled
<1>3. "request_close" \notin PumpFrames /\ "file_op_tail" \notin PumpFrames
  BY DEF PumpFrames, ShellFrames, FileOpFrames, TeardownFrames
<1>4. /\ Positions(st, {"request_close"}) = {}
      /\ Positions(st, {"file_op_tail"}) = {}
  BY <1>2, <1>3 DEF Positions
<1>5. QED
  BY <1>1, <1>4, PositionsFinite DEF Retries

\* A settled stack takes another call that pumps.
LEMMA SettledPush ==
    ASSUME NEW st, Settled(st), NEW f \in PumpFrames
    PROVE  Settled(Append(st, f))
BY AppendProperties DEF Settled

\* What is below the top: settled, unless the top is a retried close.
LEMMA BusyPop ==
    ASSUME NEW b \in Seq(Frames), NEW f \in Frames, BusyOnTop(Append(b, f))
    PROVE  /\ f # "request_close" => Settled(b)
           /\ Settled(b) \/ TailOnTop(b)
<1>1. CASE Settled(Append(b, f))
  <2>1. Append(b, f) # <<>> /\ SubSeq(Append(b, f), 1, Len(Append(b, f)) - 1) = b
    BY PushThenPop
  <2>2. SubSeq(Append(b, f), 1, Len(Append(b, f)) - 1) \in Seq(PumpFrames)
    BY <1>1, <2>1, PopThenPush DEF Settled
  <2>3. QED
    BY <2>1, <2>2 DEF Settled
<1>2. CASE TailOnTop(Append(b, f))
  <2>1. PICK c \in Seq(PumpFrames) : Append(b, f) = Append(c, "file_op_tail")
    BY <1>2 DEF TailOnTop
  <2>2. c \in Seq(Frames)
    BY SettledHasNoTail DEF Settled
  <2>3. b = c
    BY <2>1, <2>2, AppendInjective DEF Frames
  <2>4. QED
    BY <2>3 DEF Settled
<1>3. ASSUME NEW c \in Seq(Frames), Settled(c) \/ TailOnTop(c),
             Append(b, f) = Append(c, "request_close")
      PROVE  (Settled(b) \/ TailOnTop(b)) /\ f = "request_close"
  <2>1. b = c /\ f = "request_close"
    BY <1>3, AppendInjective DEF Frames
  <2>2. QED
    BY <2>1, <1>3
<1>4. QED
  BY <1>1, <1>2, <1>3 DEF BusyOnTop

\* A stack that pumps, or is empty, is settled.
LEMMA PumpingSettled ==
    ASSUME stack \in Seq(Frames), BusyOnTop(stack), Pumping
    PROVE  Settled(stack)
<1>1. CASE stack = <<>>
  BY <1>1, EmptySeq DEF Settled
<1>2. CASE stack # <<>>
  <2> DEFINE b == SubSeq(stack, 1, Len(stack) - 1)
             f == stack[Len(stack)]
  <2>1. b \in Seq(Frames) /\ f \in Frames /\ stack = Append(b, f)
    BY <1>2, PopThenPush
  <2>2. f \in PumpFrames
    BY <1>2 DEF Pumping, TopIs
  <2> HIDE DEF b, f
  <2>3. f # "request_close"
    BY <2>2 DEF PumpFrames, ShellFrames, FileOpFrames, TeardownFrames
  <2>4. Settled(b)
    BY <2>1, <2>3, BusyPop
  <2>5. QED
    BY <2>1, <2>2, <2>4, SettledPush
<1>3. QED
  BY <1>1, <1>2

\* No gate is held exactly when no call of a kind that holds one is open.
LEMMA GatesCounted ==
    ASSUME NEW st \in Seq(Frames)
    PROVE  Positions(st, GateFrames) = {}
             <=> Shells(st) = 0 /\ Drags(st) = 0 /\ FileCalls(st) = 0 /\ Prompts(st) = 0
<1>1. Positions(st, GateFrames)
        = Positions(st, ShellFrames) \cup Positions(st, DragFrames)
            \cup Positions(st, FileCallFrames) \cup Positions(st, {"save_prompt"})
  BY DEF Positions, GateFrames, FileCallFrames, ShellFrames
<1>2. \A fs : Count(st, fs) = 0 <=> Positions(st, fs) = {}
  BY PositionsFinite
<1>3. QED
  BY <1>1, <1>2 DEF Shells, Drags, FileCalls, Prompts

\* Pushing any call keeps the save prompts above no gate, the prompt itself if
\* none is held; what is below a save prompt holds none.
LEMMA PromptPush ==
    ASSUME NEW b \in Seq(Frames), NEW f \in Frames
    PROVE  PromptAboveNoGate(Append(b, f)) <=>
             /\ PromptAboveNoGate(b)
             /\ f = "save_prompt" => Positions(b, GateFrames) = {}
<1> DEFINE n == Len(b)
           up == Append(b, f)
<1>1. /\ n \in Nat
      /\ Len(up) = n + 1
      /\ \A i \in 1..n : up[i] = b[i]
      /\ up[n + 1] = f
  BY LenProperties, AppendProperties
<1> HIDE DEF n, up
<1>2. ASSUME PromptAboveNoGate(up)
      PROVE  PromptAboveNoGate(b) /\ (f = "save_prompt" => Positions(b, GateFrames) = {})
  <2>1. \A i, j \in 1..n + 1 : i < j /\ up[j] = "save_prompt" => up[i] \notin GateFrames
    BY <1>1, <1>2 DEF PromptAboveNoGate
  <2>2. \A i, j \in 1..n : i < j /\ b[j] = "save_prompt" => b[i] \notin GateFrames
    BY <1>1, <2>1
  <2>3. ASSUME f = "save_prompt", NEW i \in 1..n
        PROVE  b[i] \notin GateFrames
    <3>1. i \in 1..n + 1 /\ n + 1 \in 1..n + 1 /\ i < n + 1
      BY <1>1
    <3>2. QED
      BY <3>1, <2>1, <2>3, <1>1
  <2>4. QED
    BY <2>2, <2>3 DEF PromptAboveNoGate, Positions, n
<1>3. ASSUME PromptAboveNoGate(b), f = "save_prompt" => Positions(b, GateFrames) = {}
      PROVE  PromptAboveNoGate(up)
  <2>1. \A i, j \in 1..n : i < j /\ b[j] = "save_prompt" => b[i] \notin GateFrames
    BY <1>3 DEF PromptAboveNoGate, n
  <2>2. f = "save_prompt" => \A i \in 1..n : b[i] \notin GateFrames
    BY <1>3 DEF Positions, n
  <2>3. ASSUME NEW i \in 1..n + 1, NEW j \in 1..n + 1, i < j, up[j] = "save_prompt"
        PROVE  up[i] \notin GateFrames
    <3>1. i \in 1..n /\ up[i] = b[i]
      BY <1>1, <2>3
    <3>2. CASE j = n + 1
      BY <3>1, <3>2, <2>2, <2>3, <1>1
    <3>3. CASE j # n + 1
      <4>1. j \in 1..n
        BY <1>1, <2>3, <3>3
      <4>2. QED
        BY <4>1, <3>1, <2>1, <2>3, <1>1
    <3>4. QED
      BY <3>2, <3>3
  <2>4. QED
    BY <2>3, <1>1 DEF PromptAboveNoGate
<1>4. QED
  BY <1>2, <1>3 DEF up

-----------------------------------------------------------------------------
(* Deferring the close: the parts that every handler of a close goes        *)
(* through, from the state s, the stack base and the queue q it has reached. *)

\* Two states of the reducer differ at most in the deferral, in what the close
\* waits for and in the cancel flags.
AgreeOnGates(s, t) ==
    /\ t.closing = s.closing
    /\ t.quit_requested = s.quit_requested
    /\ t.main_window_destroyed = s.main_window_destroyed
    /\ t.shutdown_prompt_active = s.shutdown_prompt_active
    /\ t.shutdown_save_attempted = s.shutdown_save_attempted
    /\ t.end_session_pending = s.end_session_pending
    /\ t.end_session_owns_close = s.end_session_owns_close
    /\ t.shell_call_depth = s.shell_call_depth
    /\ t.drag_target_count = s.drag_target_count
    /\ t.drag_in_progress = s.drag_in_progress
    /\ t.file_operation_call_active = s.file_operation_call_active
    /\ t.file_operation_in_progress = s.file_operation_in_progress

\* They differ at most in the deferral.
Agree(s, t) ==
    /\ AgreeOnGates(s, t)
    /\ t.close_after_file_operation = s.close_after_file_operation

\* What every one of them establishes.
Resumable ==
    /\ Calls(seq', stack', queue', alive)
    /\ BusyOnTop(stack')
    /\ DeferralHeld(seq')
    /\ Underway(seq', stack')
    /\ failures' \in Nat

\* The continuation is queued, or the close is started again.
LEMMA QueueContinuationResumes ==
    ASSUME NEW s, NEW base, NEW q,
           Calls(s, base, q, alive), Settled(base) \/ TailOnTop(base),
           s.shutdown_deferred, ~s.shutdown_message_queued,
           s.shell_call_depth = 0, failures \in Nat,
           QueueContinuation(s, base, q)
    PROVE  Resumable /\ Agree(s, seq')
<1>1. /\ s \in State /\ base \in Seq(Frames) /\ q \in Seq(Messages)
      /\ CountsMatch(s, base) /\ PromptAboveNoGate(base)
      /\ ClosingIsClear(s, base, alive) /\ ContinuationQueued(s, q)
  BY DEF Calls
<1>2. ~s.closing /\ alive.window
  BY <1>1 DEF ClosingIsClear
<1>3. CASE /\ PostSucceeds(q, "deferred_shutdown")
           /\ seq' = deferred_shutdown_queued(s).state
           /\ stack' = base
  <2>1. seq' \in State /\ Agree(s, seq') /\ seq'.shutdown_deferred
        /\ seq'.shutdown_message_queued
    BY <1>1, <1>3 DEF deferred_shutdown_queued, Stepped, State, Agree, AgreeOnGates
  <2>2. queue' \in Seq(Messages) /\ \E i \in DOMAIN queue' : queue'[i] = "deferred_shutdown"
    <3>1. queue' = Append(q, "deferred_shutdown") /\ failures' = failures
      BY <1>3 DEF PostSucceeds
    <3>2. "deferred_shutdown" \in Messages
      BY DEF Messages
    <3>3. /\ queue' \in Seq(Messages)
          /\ Len(queue') = Len(q) + 1
          /\ queue'[Len(q) + 1] = "deferred_shutdown"
      BY <1>1, <3>1, <3>2, AppendProperties
    <3>4. Len(q) + 1 \in DOMAIN queue'
      BY <1>1, <3>3, LenProperties
    <3>5. QED
      BY <3>3, <3>4
  <2>3. failures' \in Nat
    BY <1>3 DEF PostSucceeds
  <2>4. CountsMatch(seq', base) /\ RetryOutsideShell(seq', base)
        /\ ClosingIsClear(seq', base, alive) /\ ContinuationQueued(seq', queue')
    BY <1>1, <1>2, <2>1, <2>2
       DEF Agree, AgreeOnGates, CountsMatch, RetryOutsideShell, ClosingIsClear, ContinuationQueued
  <2>5. BusyOnTop(stack') /\ DeferralHeld(seq') /\ Underway(seq', stack')
    BY <1>3, <2>1, <2>2 DEF DeferralHeld, Underway, BusyOnTop
  <2>6. QED
    BY <1>1, <1>3, <2>1, <2>2, <2>3, <2>4, <2>5 DEF Calls, Resumable
<1>4. CASE /\ PostFails(q)
           /\ seq' = deferred_shutdown_queue_failed(deferred_shutdown_queued(s).state).state
           /\ stack' = IF alive.window THEN Push(base, "request_close") ELSE base
  <2> DEFINE r == deferred_shutdown_queued(s).state
  <2>0. r \in State /\ Agree(s, r)
    BY <1>1 DEF deferred_shutdown_queued, Stepped, State, Agree, AgreeOnGates
  <2> HIDE DEF r
  <2>1. seq' \in State /\ Agree(s, seq') /\ ~seq'.shutdown_deferred
        /\ ~seq'.shutdown_message_queued
    <3>1. seq' = deferred_shutdown_queue_failed(r).state
      BY <1>4 DEF r
    <3>2. /\ seq' \in State /\ Agree(r, seq') /\ ~seq'.shutdown_deferred
          /\ ~seq'.shutdown_message_queued
      BY <2>0, <3>1 DEF deferred_shutdown_queue_failed, Stepped, State, Agree, AgreeOnGates
    <3>3. QED
      BY <2>0, <3>2 DEF Agree, AgreeOnGates
  <2>2. stack' = Append(base, "request_close") /\ queue' = q /\ failures' \in Nat
    BY <1>2, <1>4 DEF Push, PostFails
  <2>3. "request_close" \in Frames
    BY DEF Frames
  <2>4. /\ stack' \in Seq(Frames)
        /\ Shells(stack') = Shells(base) /\ Drags(stack') = Drags(base)
        /\ FileCalls(stack') = FileCalls(base) /\ Transfers(stack') = Transfers(base)
        /\ Prompts(stack') = Prompts(base) /\ Retries(stack') # 0
        /\ Teardowns(stack') = Teardowns(base)
    <3>1. /\ Pushed(base, stack', 0, 0, 0, 0, 0, 1, 0)
          /\ Retries(base) \in Nat
      BY <1>1, <2>2, FramePushes, KindsCounted
    <3>2. QED
      BY <1>1, <3>1, KindsCounted DEF Pushed
  <2>5. PromptAboveNoGate(stack') /\ BusyOnTop(stack')
    BY <1>1, <2>2, <2>3, PromptPush DEF BusyOnTop
  <2>6. CountsMatch(seq', stack') /\ RetryOutsideShell(seq', stack')
        /\ ClosingIsClear(seq', stack', alive) /\ ContinuationQueued(seq', queue')
    BY <1>1, <1>2, <2>1, <2>4
       DEF Agree, AgreeOnGates, CountsMatch, RetryOutsideShell, ClosingIsClear, ContinuationQueued
  <2>7. DeferralHeld(seq') /\ Underway(seq', stack')
    BY <2>1, <2>4 DEF DeferralHeld, Underway
  <2>8. QED
    BY <1>1, <2>1, <2>2, <2>4, <2>5, <2>6, <2>7 DEF Calls, Resumable
<1>5. QED
  BY <1>3, <1>4 DEF QueueContinuation

\* A deferral inside a Shell call, or already queued, is left as it is.
LEMMA RunDeferResumes ==
    ASSUME NEW s, NEW base, NEW q,
           Calls(s, base, q, alive), Settled(base) \/ TailOnTop(base),
           s.shutdown_deferred, failures \in Nat,
           RunDefer(s, base, q)
    PROVE  Resumable /\ Agree(s, seq') /\ caption' = TRUE
<1>1. CASE s.shell_call_depth # 0 \/ s.shutdown_message_queued
  <2>1. seq' = s /\ stack' = base /\ queue' = q /\ failures' = failures
    BY <1>1 DEF RunDefer, NoPost
  <2>2. DeferralHeld(s) /\ Underway(s, base) /\ Agree(s, s) /\ BusyOnTop(base)
    BY <1>1 DEF DeferralHeld, Underway, Agree, AgreeOnGates, BusyOnTop
  <2>3. QED
    BY <2>1, <2>2 DEF Resumable, RunDefer
<1>2. CASE ~(s.shell_call_depth # 0 \/ s.shutdown_message_queued)
  <2>1. QueueContinuation(s, base, q) /\ caption' = TRUE
    BY <1>2 DEF RunDefer
  <2>2. QED
    BY <1>2, <2>1, QueueContinuationResumes
<1>3. QED
  BY <1>1, <1>2

\* The calls go by the gates and the deferral alone.
LEMMA CallsAgree ==
    ASSUME NEW s, NEW t \in State, NEW st, NEW q, NEW a, Calls(s, st, q, a),
           AgreeOnGates(s, t),
           t.shutdown_message_queued = s.shutdown_message_queued,
           t.shutdown_deferred = s.shutdown_deferred
             \/ (t.shutdown_deferred /\ ~s.closing)
    PROVE  Calls(t, st, q, a)
<1>1. CountsMatch(t, st)
  BY DEF Calls, AgreeOnGates, CountsMatch
<1>2. RetryOutsideShell(t, st) /\ ClosingIsClear(t, st, a) /\ ContinuationQueued(t, q)
  BY DEF Calls, AgreeOnGates, RetryOutsideShell, ClosingIsClear, ContinuationQueued
<1>3. QED
  BY <1>1, <1>2 DEF Calls

\* What request_close() makes of the reducer: a deferral, the transfer prompt,
\* nothing because a close is under way, or a session end's wait for the file
\* operation.
LEMMA CloseStepOutcomes ==
    ASSUME NEW s \in State
    PROVE  LET r == CloseStep(s) IN
           /\ r.state \in State
           /\ AgreeOnGates(s, r.state)
           /\ r.state.shutdown_message_queued = s.shutdown_message_queued
           /\ s.close_after_file_operation => r.state.close_after_file_operation
           /\ \/ /\ r.act = "defer"
                 /\ ~s.closing
                 /\ r.state.shutdown_deferred
                 /\ r.state.close_after_file_operation = s.close_after_file_operation
              \/ /\ r.act = "prompt_transfer"
                 /\ ~s.end_session_pending
                 /\ s.file_operation_in_progress
                 /\ ~CloseUnderWay(s)
                 /\ r.state.shutdown_deferred = s.shutdown_deferred
                 /\ r.state.close_after_file_operation
              \/ /\ r.act = "none"
                 /\ CloseUnderWay(s) \/ s.quit_requested
                 /\ r.state.shutdown_deferred = s.shutdown_deferred
              \/ /\ r.act = "none"
                 /\ s.end_session_pending
                 /\ s.file_operation_call_active \/ s.file_operation_in_progress
                 /\ r.state.shutdown_deferred = s.shutdown_deferred
                 /\ r.state.close_after_file_operation
<1>1. CASE ~s.end_session_pending
  <2>1. CloseStep(s) = close_requested(s)
    BY <1>1 DEF CloseStep
  <2>2. CASE CloseUnderWay(s) \/ s.quit_requested
    <3>1. CloseStep(s) = [state |-> s, act |-> "none"]
      BY <2>1, <2>2 DEF close_requested, Stepped
    <3>2. QED
      BY <2>2, <3>1 DEF AgreeOnGates
  <2>3. CASE ~(CloseUnderWay(s) \/ s.quit_requested) /\ s.file_operation_in_progress
    <3> DEFINE t == [s EXCEPT !.close_after_file_operation = TRUE]
    <3>1. CloseStep(s) = [state |-> t, act |-> "prompt_transfer"]
      BY <2>1, <2>3 DEF close_requested, Stepped
    <3>2. t \in State /\ AgreeOnGates(s, t) /\ t.close_after_file_operation
          /\ t.shutdown_message_queued = s.shutdown_message_queued
          /\ t.shutdown_deferred = s.shutdown_deferred
      BY DEF State, AgreeOnGates
    <3> HIDE DEF t
    <3>3. QED
      BY <1>1, <2>3, <3>1, <3>2
  <2>4. CASE ~(CloseUnderWay(s) \/ s.quit_requested) /\ ~s.file_operation_in_progress
    <3> DEFINE t == [s EXCEPT !.shutdown_deferred = TRUE]
    <3>1. CloseStep(s) = [state |-> t, act |-> "defer"] /\ ~s.closing
      BY <2>1, <2>4 DEF close_requested, Stepped, CloseUnderWay
    <3>2. t \in State /\ AgreeOnGates(s, t) /\ t.shutdown_deferred
          /\ t.shutdown_message_queued = s.shutdown_message_queued
          /\ t.close_after_file_operation = s.close_after_file_operation
      BY DEF State, AgreeOnGates
    <3> HIDE DEF t
    <3>3. QED
      BY <3>1, <3>2
  <2>5. QED
    BY <2>2, <2>3, <2>4
<1>2. CASE s.end_session_pending
  <2>1. CloseStep(s) = end_session(s) /\ RecordSessionEnd(s) = s
    BY <1>2 DEF CloseStep, RecordSessionEnd
  <2>2. CASE s.closing \/ s.quit_requested
    <3>1. CloseStep(s) = [state |-> s, act |-> "none"]
      BY <2>1, <2>2 DEF end_session, Stepped
    <3>2. QED
      BY <2>2, <3>1 DEF AgreeOnGates, CloseUnderWay
  <2>3. CASE /\ ~(s.closing \/ s.quit_requested)
             /\ s.file_operation_call_active \/ s.file_operation_in_progress
    <3> DEFINE t == [s EXCEPT !.close_after_file_operation = TRUE,
                              !.cancel_file_operation = TRUE]
    <3>1. CloseStep(s) = [state |-> t, act |-> "none"]
      BY <2>1, <2>3 DEF end_session, Stepped
    <3>2. t \in State /\ AgreeOnGates(s, t) /\ t.close_after_file_operation
          /\ t.shutdown_message_queued = s.shutdown_message_queued
          /\ t.shutdown_deferred = s.shutdown_deferred
      BY DEF State, AgreeOnGates
    <3> HIDE DEF t
    <3>3. QED
      BY <1>2, <2>3, <3>1, <3>2
  <2>4. CASE /\ ~(s.closing \/ s.quit_requested)
             /\ ~(s.file_operation_call_active \/ s.file_operation_in_progress)
             /\ ~s.drag_in_progress /\ CloseUnderWay(s)
    <3>1. CloseStep(s) = [state |-> s, act |-> "none"]
      BY <2>1, <2>4 DEF end_session, Stepped
    <3>2. QED
      BY <2>4, <3>1 DEF AgreeOnGates
  <2>5. CASE /\ ~(s.closing \/ s.quit_requested)
             /\ ~(s.file_operation_call_active \/ s.file_operation_in_progress)
             /\ s.drag_in_progress \/ ~CloseUnderWay(s)
    <3> DEFINE t == [s EXCEPT !.shutdown_deferred = TRUE]
    <3>1. CloseStep(s) = [state |-> t, act |-> "defer"] /\ ~s.closing
      BY <2>1, <2>5 DEF end_session, Stepped
    <3>2. t \in State /\ AgreeOnGates(s, t) /\ t.shutdown_deferred
          /\ t.shutdown_message_queued = s.shutdown_message_queued
          /\ t.close_after_file_operation = s.close_after_file_operation
      BY DEF State, AgreeOnGates
    <3> HIDE DEF t
    <3>3. QED
      BY <3>1, <3>2
  <2>6. QED
    BY <2>2, <2>3, <2>4, <2>5
<1>3. QED
  BY <1>1, <1>2 DEF State

\* A close that is requested is under way afterwards, or waits for the file
\* operation; one that was under way stays so.
LEMMA RequestCloseResumes ==
    ASSUME NEW s, NEW base, NEW q,
           Calls(s, base, q, alive), Settled(base) \/ TailOnTop(base),
           DeferralHeld(s), failures \in Nat, caption \in BOOLEAN,
           RequestClose(s, base, q)
    PROVE  /\ Calls(seq', stack', queue', alive)
           /\ BusyOnTop(stack')
           /\ DeferralHeld(seq')
           /\ failures' \in Nat
           /\ caption' \in BOOLEAN
           /\ AgreeOnGates(s, seq')
           /\ s.close_after_file_operation => seq'.close_after_file_operation
           /\ Underway(s, base) => Underway(seq', stack')
           /\ \/ Underway(seq', stack')
              \/ AwaitsTransfer(seq') /\ stack' = base /\ caption' = caption
           /\ CloseStep(s).act = "prompt_transfer" =>
                /\ ~s.end_session_pending /\ s.file_operation_in_progress
                /\ AwaitsTransfer(seq')
<1> DEFINE r == CloseStep(s)
           t == r.state
<1>1. /\ s \in State /\ CountsMatch(s, base) /\ ContinuationQueued(s, q)
      /\ ClosingIsClear(s, base, alive) /\ base \in Seq(Frames)
  BY DEF Calls
<1>2. /\ t \in State
      /\ AgreeOnGates(s, t)
      /\ t.shutdown_message_queued = s.shutdown_message_queued
      /\ s.close_after_file_operation => t.close_after_file_operation
      /\ \/ /\ r.act = "defer"
            /\ ~s.closing
            /\ t.shutdown_deferred
            /\ t.close_after_file_operation = s.close_after_file_operation
         \/ /\ r.act = "prompt_transfer"
            /\ ~s.end_session_pending
            /\ s.file_operation_in_progress
            /\ ~CloseUnderWay(s)
            /\ t.shutdown_deferred = s.shutdown_deferred
            /\ t.close_after_file_operation
         \/ /\ r.act = "none"
            /\ CloseUnderWay(s) \/ s.quit_requested
            /\ t.shutdown_deferred = s.shutdown_deferred
         \/ /\ r.act = "none"
            /\ s.end_session_pending
            /\ s.file_operation_call_active \/ s.file_operation_in_progress
            /\ t.shutdown_deferred = s.shutdown_deferred
            /\ t.close_after_file_operation
  BY <1>1, CloseStepOutcomes
<1>3. /\ r.act = "defer" => RunDefer(t, base, q)
      /\ r.act # "defer" => /\ seq' = t /\ stack' = base /\ queue' = q
                            /\ failures' = failures /\ caption' = caption
  BY DEF RequestClose, NoPost
<1>4. s.file_operation_in_progress => s.file_operation_call_active
  <2>1. /\ Transfers(base) # 0 => FileCalls(base) # 0
        /\ Transfers(base) = One(s.file_operation_in_progress)
        /\ FileCalls(base) = One(s.file_operation_call_active)
    BY <1>1, TransferIsShell DEF CountsMatch
  <2>2. QED
    BY <2>1 DEF One
<1> HIDE DEF r, t
<1>5. Calls(t, base, q, alive)
  BY <1>2, CallsAgree
<1>6. CASE r.act = "defer"
  <2>1. Resumable /\ Agree(t, seq') /\ caption' = TRUE
    BY <1>2, <1>3, <1>5, <1>6, RunDeferResumes
  <2>2. /\ AgreeOnGates(s, seq')
        /\ s.close_after_file_operation => seq'.close_after_file_operation
    BY <1>2, <2>1 DEF Agree, AgreeOnGates
  <2>3. r.act # "prompt_transfer"
    BY <1>6
  <2>4. QED
    BY <2>1, <2>2, <2>3 DEF Resumable, r
<1>7. CASE r.act # "defer"
  <2>1. /\ Calls(seq', stack', queue', alive) /\ BusyOnTop(stack')
        /\ DeferralHeld(seq') /\ failures' \in Nat /\ caption' \in BOOLEAN
    BY <1>2, <1>3, <1>5, <1>7 DEF BusyOnTop, DeferralHeld, AgreeOnGates
  <2>2. Underway(s, base) => Underway(seq', stack')
    BY <1>2, <1>3, <1>7 DEF Underway, AgreeOnGates
  <2>3. \/ Underway(seq', stack')
        \/ AwaitsTransfer(seq') /\ stack' = base /\ caption' = caption
    <3>1. CASE CloseUnderWay(s) \/ s.quit_requested
      BY <1>1, <2>2, <3>1
         DEF CloseUnderWay, Underway, ContinuationQueued, ClosingIsClear
    <3>2. CASE ~(CloseUnderWay(s) \/ s.quit_requested)
      BY <1>2, <1>3, <1>4, <1>7, <3>2 DEF AwaitsTransfer, AgreeOnGates
    <3>3. QED
      BY <3>1, <3>2
  <2>4. r.act = "prompt_transfer" =>
          /\ ~s.end_session_pending /\ s.file_operation_in_progress
          /\ AwaitsTransfer(seq')
    BY <1>2, <1>3, <1>4, <1>7 DEF AwaitsTransfer, AgreeOnGates
  <2>5. QED
    BY <1>2, <1>3, <1>7, <2>1, <2>2, <2>3, <2>4 DEF r
<1>8. QED
  BY <1>6, <1>7

\* The teardown begins on a stack that holds no gate, and clears the deferral.
LEMMA BeginTeardownClears ==
    ASSUME NEW s \in State, NEW base, Settled(base), NEW frame \in TeardownFrames,
           Shells(base) = 0, Drags(base) = 0, FileCalls(base) = 0, Prompts(base) = 0,
           PromptAboveNoGate(base),
           s.shell_call_depth = 0, ~s.file_operation_call_active,
           ~s.file_operation_in_progress, ~s.shutdown_prompt_active,
           ~s.closing, ~s.main_window_destroyed, alive.window,
           caption \in BOOLEAN, BeginTeardown(s, base, frame)
    PROVE  /\ \A q \in Seq(Messages) : Calls(seq', stack', q, alive)
           /\ BusyOnTop(stack')
           /\ seq'.closing /\ ~seq'.end_session_pending
           /\ ~seq'.shutdown_deferred
           /\ prompt' = IdlePrompt
           /\ caption' \in BOOLEAN
<1> DEFINE t == teardown_started(s).state
<1>1. base \in Seq(Frames) /\ Retries(base) = 0
  BY SettledHasNoTail
<1>2. /\ t \in State /\ t.closing /\ t.quit_requested /\ ~t.end_session_pending
      /\ ~t.shutdown_deferred /\ ~t.shutdown_message_queued
      /\ t.main_window_destroyed = s.main_window_destroyed
      /\ t.shell_call_depth = s.shell_call_depth
      /\ t.file_operation_call_active = s.file_operation_call_active
      /\ t.file_operation_in_progress = s.file_operation_in_progress
      /\ t.shutdown_prompt_active = s.shutdown_prompt_active
  BY DEF teardown_started, Stepped, State
<1>3. Cardinality(Positions(base, DragFrames)) = 0
  BY DEF Drags, Count
<1>4. /\ seq' = [t EXCEPT !.drag_target_count = 0, !.drag_in_progress = FALSE]
      /\ stack' = Append(base, frame)
      /\ prompt' = IdlePrompt
      /\ caption' \in BOOLEAN
  BY <1>3 DEF BeginTeardown, Push, DismissTransferPrompt, IdlePrompt, State
<1> HIDE DEF t
<1>5. /\ seq' \in State /\ seq'.closing /\ seq'.quit_requested
      /\ ~seq'.end_session_pending
      /\ ~seq'.shutdown_deferred /\ ~seq'.shutdown_message_queued
      /\ ~seq'.main_window_destroyed /\ seq'.shell_call_depth = 0
      /\ ~seq'.file_operation_call_active /\ ~seq'.file_operation_in_progress
      /\ ~seq'.shutdown_prompt_active
      /\ seq'.drag_target_count = 0 /\ ~seq'.drag_in_progress
  BY <1>2, <1>4 DEF State
<1>6. Pushed(base, stack', 0, 0, 0, 0, 0, 0, 1)
  BY <1>1, <1>4, FramePushes DEF TeardownFrames
<1>7. Transfers(base) = 0
  BY <1>1, TransferIsShell
<1>8. /\ stack' \in Seq(Frames) /\ Shells(stack') = 0 /\ Drags(stack') = 0
      /\ FileCalls(stack') = 0 /\ Transfers(stack') = 0 /\ Prompts(stack') = 0
      /\ Retries(stack') = 0
  BY <1>1, <1>6, <1>7 DEF Pushed
<1>9. BusyOnTop(stack')
  <2>1. frame \in PumpFrames
    BY DEF PumpFrames
  <2>2. QED
    BY <1>4, <2>1, SettledPush DEF BusyOnTop
<1>10. PromptAboveNoGate(stack')
  <2>1. frame \in Frames /\ frame # "save_prompt"
    BY DEF Frames, PumpFrames, TeardownFrames
  <2>2. QED
    BY <1>1, <1>4, <2>1, PromptPush
<1>11. CountsMatch(seq', stack') /\ RetryOutsideShell(seq', stack')
       /\ ClosingIsClear(seq', stack', alive)
  BY <1>5, <1>8 DEF CountsMatch, RetryOutsideShell, ClosingIsClear, One
<1>12. \A q : ContinuationQueued(seq', q)
  BY <1>5 DEF ContinuationQueued
<1>13. QED
  BY <1>4, <1>5, <1>8, <1>9, <1>10, <1>11, <1>12 DEF Calls

-----------------------------------------------------------------------------
(* Every action keeps the invariant. *)

\* What the invariant asks besides the calls: the types of the other variables.
OtherTypes ==
    /\ prompt \in [window : {"hidden", "shown", "cancelling"},
                   result : TransferChoices \cup {"none"}]
    /\ disk \in Documents
    /\ dirty \in BOOLEAN
    /\ alive \in [views : BOOLEAN, window : BOOLEAN, com : BOOLEAN]
    /\ process \in {"running", "exited", "killed"}
    /\ os_ending \in BOOLEAN
    /\ caption \in BOOLEAN
    /\ intent \in [user_close : {"no", "yes", "merged"}, checkpoint : BOOLEAN]
    /\ failures \in Nat

\* The calls carry the types of the reducer's state, the stack and the queue.
LEMMA TypesSplit == TypeOK <=> /\ seq \in State
                               /\ stack \in Seq(Frames)
                               /\ queue \in Seq(Messages)
                               /\ OtherTypes
BY DEF TypeOK, OtherTypes

\* The program starts with nothing open and nothing asked for.
LEMMA InitOK == Init => IInv
<1> SUFFICES ASSUME Init
             PROVE  IInv
  OBVIOUS
<1>1. InitialState \in State
  BY DEF InitialState, State
<1>2. stack \in Seq(Frames) /\ queue \in Seq(Messages) /\ Settled(stack) /\ Len(stack) = 0
  BY EmptySeq DEF Init, Settled
<1>3. OtherTypes
  <2>1. disk \in Documents /\ dirty \in BOOLEAN
    <3>1. \E c, o \in BOOLEAN : disk = [clean |-> c, current |-> TRUE, ours |-> o]
      BY DEF Init
    <3>2. disk \in Documents
      BY <3>1 DEF Documents
    <3>3. dirty \in BOOLEAN
      BY DEF Init
    <3>4. QED
      BY <3>2, <3>3
  <2>2. prompt \in [window : {"hidden", "shown", "cancelling"},
                    result : TransferChoices \cup {"none"}]
    BY DEF Init
  <2>3. QED
    BY <2>1, <2>2 DEF Init, OtherTypes
<1>4. Calls(seq, stack, queue, alive)
  <2>1. CountsMatch(seq, stack)
    BY KindsEmpty DEF Init, InitialState, CountsMatch, One
  <2>2. RetryOutsideShell(seq, stack) /\ ClosingIsClear(seq, stack, alive)
        /\ ContinuationQueued(seq, queue)
    BY KindsEmpty DEF Init, InitialState, RetryOutsideShell, ClosingIsClear,
       ContinuationQueued
  <2>3. PromptAboveNoGate(stack)
    BY <1>2 DEF PromptAboveNoGate
  <2>4. QED
    BY <1>1, <1>2, <2>1, <2>2, <2>3 DEF Calls, Init
<1>5. /\ BusyOnTop(stack) /\ DeferralHeld(seq)
      /\ OwnedBySession(seq, intent.user_close, prompt, os_ending)
      /\ UserCloseCarried(seq, stack, intent.user_close)
      /\ CaptionTrue(seq, stack, caption)
      /\ PromptAboutTransfer(seq, prompt)
  BY <1>2 DEF Init, InitialState, BusyOnTop, DeferralHeld, OwnedBySession,
     UserCloseCarried, CaptionTrue, PromptAboutTransfer, IdlePrompt
<1>6. QED
  BY <1>1, <1>2, <1>3, <1>4, <1>5, TypesSplit DEF IInv, Init

\* Outside Shell calls only its tail is left of a file operation.
LEMMA FileCallOutsideShell ==
    ASSUME NEW st, Settled(st), Shells(st) = 0
    PROVE  FileCalls(st) = 0
<1>1. st \in Seq(Frames) /\ Positions(st, {"file_op_tail"}) = {}
  BY SettledHasNoTail
<1>2. Positions(st, ShellFrames) = {}
  BY <1>1, PositionsFinite DEF Shells
<1>3. Positions(st, FileCallFrames) = {}
  BY <1>1, <1>2 DEF Positions, FileCallFrames, ShellFrames
<1>4. QED
  BY <1>1, <1>3, PositionsFinite DEF FileCalls

\* What follows of a request for a close when the prompt is shown as well.
LEMMA ShownPromptKept ==
    ASSUME OtherTypes, ShowTransferPrompt,
           AgreeOnGates(seq, seq'),
           seq.close_after_file_operation => seq'.close_after_file_operation,
           CloseStep(seq).act = "prompt_transfer" =>
             ~seq.end_session_pending /\ AwaitsTransfer(seq'),
           PromptAboutTransfer(seq, prompt),
           OwnedBySession(seq, intent.user_close, prompt, os_ending),
           os_ending' = os_ending,
           intent'.user_close = "yes" =>
             intent.user_close = "yes" \/ ~seq.end_session_pending
    PROVE  /\ prompt' \in [window : {"hidden", "shown", "cancelling"},
                           result : TransferChoices \cup {"none"}]
           /\ PromptAboutTransfer(seq', prompt')
           /\ OwnedBySession(seq', intent'.user_close, prompt', os_ending')
<1>1. CASE CloseStep(seq).act = "prompt_transfer" /\ prompt.window = "hidden"
  <2>1. \E w \in {"shown", "hidden"} : prompt' = [window |-> w, result |-> "none"]
    BY <1>1 DEF ShowTransferPrompt
  <2>2. ~seq.end_session_pending /\ AwaitsTransfer(seq') /\ ~seq'.end_session_pending
    BY <1>1 DEF AgreeOnGates
  <2>3. QED
    BY <2>1, <2>2 DEF PromptAboutTransfer, OwnedBySession
<1>2. CASE ~(CloseStep(seq).act = "prompt_transfer" /\ prompt.window = "hidden")
  <2>1. prompt' = prompt
    BY <1>2 DEF ShowTransferPrompt
  <2>2. QED
    BY <2>1 DEF OtherTypes, PromptAboutTransfer, OwnedBySession, AwaitsTransfer,
       AgreeOnGates
<1>3. QED
  BY <1>1, <1>2

\* Closing by the user.
LEMMA UserCloseKeeps == IInv /\ UserClose => IInv'
<1> SUFFICES ASSUME IInv, UserClose
             PROVE  IInv'
  OBVIOUS
<1>1. Calls(seq, stack, queue, alive) /\ OtherTypes /\ DeferralHeld(seq)
  BY TypesSplit DEF IInv
<1>2. Settled(stack)
  BY <1>1, PumpingSettled DEF IInv, UserClose, Calls
<1>3. /\ RequestClose(seq, stack, queue) /\ ShowTransferPrompt
      /\ UNCHANGED <<disk, dirty, alive, process, os_ending>>
  BY DEF UserClose
<1>4. /\ Calls(seq', stack', queue', alive)
      /\ BusyOnTop(stack')
      /\ DeferralHeld(seq')
      /\ failures' \in Nat
      /\ caption' \in BOOLEAN
      /\ AgreeOnGates(seq, seq')
      /\ seq.close_after_file_operation => seq'.close_after_file_operation
      /\ Underway(seq, stack) => Underway(seq', stack')
      /\ \/ Underway(seq', stack')
         \/ AwaitsTransfer(seq') /\ stack' = stack /\ caption' = caption
      /\ CloseStep(seq).act = "prompt_transfer" =>
           /\ ~seq.end_session_pending /\ seq.file_operation_in_progress
           /\ AwaitsTransfer(seq')
  BY <1>1, <1>2, <1>3, RequestCloseResumes DEF OtherTypes
<1>5. /\ intent' \in [user_close : {"no", "yes", "merged"}, checkpoint : BOOLEAN]
      /\ intent'.user_close = "yes" =>
           intent.user_close = "yes" \/ ~seq.end_session_pending
  BY <1>1 DEF UserClose, OtherTypes
<1>6. /\ prompt' \in [window : {"hidden", "shown", "cancelling"},
                      result : TransferChoices \cup {"none"}]
      /\ PromptAboutTransfer(seq', prompt')
      /\ OwnedBySession(seq', intent'.user_close, prompt', os_ending')
  BY <1>1, <1>3, <1>4, <1>5, ShownPromptKept DEF IInv
<1>7. /\ UserCloseCarried(seq', stack', intent'.user_close)
      /\ CaptionTrue(seq', stack', caption')
  BY <1>4 DEF IInv, UserCloseCarried, CaptionTrue
<1>8. QED
  BY <1>1, <1>3, <1>4, <1>5, <1>6, <1>7 DEF IInv, TypeOK, OtherTypes, Calls

\* The recursive request_close() after a failed post.
LEMMA RetryCloseKeeps == IInv /\ RetryClose => IInv'
<1> SUFFICES ASSUME IInv, RetryClose
             PROVE  IInv'
  OBVIOUS
<1> DEFINE b == SubSeq(stack, 1, Len(stack) - 1)
<1>1. Calls(seq, stack, queue, alive) /\ OtherTypes /\ DeferralHeld(seq)
  BY TypesSplit DEF IInv
<1>2. /\ RequestClose(seq, b, queue) /\ ShowTransferPrompt
      /\ UNCHANGED <<disk, dirty, alive, process, os_ending, intent>>
      /\ stack # <<>> /\ stack[Len(stack)] = "request_close"
  BY DEF RetryClose, Pop, TopIs
<1>3. b \in Seq(Frames) /\ stack = Append(b, "request_close")
  BY <1>1, <1>2, PopThenPush DEF Calls
<1> HIDE DEF b
<1>4. Settled(b) \/ TailOnTop(b)
  BY <1>3, BusyPop DEF IInv, Frames
<1>5. Pushed(b, stack, 0, 0, 0, 0, 0, 1, 0) /\ PromptAboveNoGate(b)
  BY <1>1, <1>3, FramePushes, PromptPush DEF Calls, Frames
<1>6. seq.shell_call_depth = 0 /\ Shells(b) = 0
  BY <1>1, <1>3, <1>5, KindsCounted
     DEF Calls, CountsMatch, RetryOutsideShell, Pushed
<1>7. Calls(seq, b, queue, alive)
  <2>1. /\ Shells(b) = Shells(stack) /\ Drags(b) = Drags(stack)
        /\ FileCalls(b) = FileCalls(stack) /\ Transfers(b) = Transfers(stack)
        /\ Prompts(b) = Prompts(stack) /\ Teardowns(b) = Teardowns(stack)
    BY <1>3, <1>5, KindsCounted DEF Pushed
  <2>2. CountsMatch(seq, b) /\ RetryOutsideShell(seq, b)
        /\ ClosingIsClear(seq, b, alive)
    BY <1>1, <1>6, <2>1 DEF Calls, CountsMatch, RetryOutsideShell, ClosingIsClear
  <2>3. QED
    BY <1>1, <1>3, <1>5, <2>2 DEF Calls
<1>8. /\ Calls(seq', stack', queue', alive)
      /\ BusyOnTop(stack')
      /\ DeferralHeld(seq')
      /\ failures' \in Nat
      /\ caption' \in BOOLEAN
      /\ AgreeOnGates(seq, seq')
      /\ seq.close_after_file_operation => seq'.close_after_file_operation
      /\ Underway(seq, b) => Underway(seq', stack')
      /\ \/ Underway(seq', stack')
         \/ AwaitsTransfer(seq') /\ stack' = b /\ caption' = caption
      /\ CloseStep(seq).act = "prompt_transfer" =>
           /\ ~seq.end_session_pending /\ seq.file_operation_in_progress
           /\ AwaitsTransfer(seq')
  BY <1>1, <1>2, <1>4, <1>7, RequestCloseResumes DEF OtherTypes
<1>9. /\ prompt' \in [window : {"hidden", "shown", "cancelling"},
                      result : TransferChoices \cup {"none"}]
      /\ PromptAboutTransfer(seq', prompt')
      /\ OwnedBySession(seq', intent'.user_close, prompt', os_ending')
  BY <1>1, <1>2, <1>8, ShownPromptKept DEF IInv
<1>10. AwaitsTransfer(seq') => TailOnTop(b)
  <2> SUFFICES ASSUME AwaitsTransfer(seq'), Settled(b)
               PROVE  FALSE
    BY <1>4
  <2>1. FileCalls(b) = 0
    BY <1>6, FileCallOutsideShell
  <2>2. QED
    BY <2>1, <1>7, <1>8 DEF AwaitsTransfer, AgreeOnGates, Calls, CountsMatch, One
<1>11. /\ UserCloseCarried(seq', stack', intent'.user_close)
       /\ CaptionTrue(seq', stack', caption')
  BY <1>8, <1>10 DEF UserCloseCarried, CaptionTrue
<1>12. QED
  BY <1>1, <1>2, <1>8, <1>9, <1>11 DEF IInv, TypeOK, OtherTypes, Calls

\* An action that leaves the reducer, the calls and the prompt alone.
LEMMA Untouched ==
    ASSUME IInv, OtherTypes', alive'.window = alive.window,
           UNCHANGED <<seq, stack, queue, prompt, os_ending, caption, intent>>
    PROVE  IInv'
<1>1. Calls(seq', stack', queue', alive')
  BY DEF IInv, Calls, ClosingIsClear
<1>2. QED
  BY <1>1 DEF IInv, TypeOK, OtherTypes, Calls

\* Every write leaves one of the documents.
LEMMA DiskTyped ==
    ASSUME OtherTypes
    PROVE  /\ \A clean, saved \in BOOLEAN :
                WriteSession(clean, saved) => disk' \in Documents /\ dirty' \in BOOLEAN
           /\ \A s \in State, d \in Documents :
                FinalizeProcess(s, d) => disk' \in Documents
<1>1. ASSUME NEW clean \in BOOLEAN, NEW saved \in BOOLEAN, WriteSession(clean, saved)
      PROVE  disk' \in Documents /\ dirty' \in BOOLEAN
  <2> DEFINE w == [clean |-> clean, current |-> TRUE, ours |-> TRUE]
  <2>1. w \in Documents
    BY DEF Documents
  <2>2. disk' \in {disk, w}
    BY <1>1 DEF WriteSession
  <2>3. disk' \in Documents
    BY <2>1, <2>2 DEF OtherTypes
  <2>4. dirty' \in BOOLEAN
    BY <1>1 DEF WriteSession
  <2>5. QED
    BY <2>3, <2>4
<1>2. ASSUME NEW s \in State, NEW d \in Documents, FinalizeProcess(s, d)
      PROVE  disk' \in Documents
  <2> DEFINE w == [clean |-> TRUE, current |-> TRUE, ours |-> TRUE]
  <2>1. w \in Documents
    BY DEF Documents
  <2>2. disk' \in {d, w}
    BY <1>2 DEF FinalizeProcess
  <2>3. QED
    BY <2>1, <2>2
<1>3. QED
  BY <1>1, <1>2

\* The end of wWinMain.
LEMMA MainLoopExitsKeeps == IInv /\ MainLoopExits => IInv'
<1> SUFFICES ASSUME IInv, MainLoopExits
             PROVE  IInv'
  OBVIOUS
<1>1. seq \in State /\ OtherTypes
  BY TypesSplit DEF IInv
<1>2. disk' \in Documents
  BY <1>1, DiskTyped DEF MainLoopExits, OtherTypes
<1>3. /\ alive' \in [views : BOOLEAN, window : BOOLEAN, com : BOOLEAN]
      /\ alive'.window = alive.window
  BY <1>1 DEF MainLoopExits, OtherTypes
<1>4. UNCHANGED <<seq, stack, queue, prompt, dirty, os_ending, caption, intent, failures>>
      /\ process' = "exited"
  BY DEF MainLoopExits
<1>5. OtherTypes'
  BY <1>1, <1>2, <1>3, <1>4 DEF OtherTypes
<1>6. QED
  BY <1>3, <1>4, <1>5, Untouched

\* The end by the OS, an edit, the debounced save, and no step at all.
LEMMA QuietActionsKeep ==
    IInv /\ (KilledByOs \/ Edit \/ SaveTimer \/ UNCHANGED vars) => IInv'
<1> SUFFICES ASSUME IInv, KilledByOs \/ Edit \/ SaveTimer \/ UNCHANGED vars
             PROVE  IInv'
  OBVIOUS
<1>1. OtherTypes
  BY TypesSplit DEF IInv
<1>2. UNCHANGED <<seq, stack, queue, prompt, os_ending, caption, intent, alive, failures>>
      /\ process' \in {"running", "exited", "killed"}
  BY <1>1 DEF KilledByOs, Edit, SaveTimer, vars, OtherTypes
<1>3. disk' \in Documents /\ dirty' \in BOOLEAN
  <2>1. CASE KilledByOs \/ UNCHANGED vars
    BY <1>1, <2>1 DEF KilledByOs, vars, OtherTypes
  <2>2. CASE Edit
    <3>1. disk \in Documents /\ disk' = [disk EXCEPT !.current = FALSE] /\ dirty' = TRUE
      BY <1>1, <2>2 DEF Edit, OtherTypes
    <3>2. QED
      BY <3>1 DEF Documents
  <2>3. CASE SaveTimer
    <3>1. PICK saved \in BOOLEAN : WriteSession(FALSE, saved)
      BY <2>3 DEF SaveTimer
    <3>2. QED
      BY <1>1, <3>1, DiskTyped
  <2>4. QED
    BY <2>1, <2>2, <2>3
<1>4. OtherTypes'
  BY <1>1, <1>2, <1>3 DEF OtherTypes
<1>5. QED
  BY <1>2, <1>4, Untouched

\* The posted continuation changes the deferral and the save at most.
SameCalls(s, t) ==
    /\ t.closing = s.closing
    /\ t.quit_requested = s.quit_requested
    /\ t.main_window_destroyed = s.main_window_destroyed
    /\ t.shutdown_prompt_active = s.shutdown_prompt_active
    /\ t.end_session_pending = s.end_session_pending
    /\ t.end_session_owns_close = s.end_session_owns_close
    /\ t.shell_call_depth = s.shell_call_depth
    /\ t.drag_target_count = s.drag_target_count
    /\ t.drag_in_progress = s.drag_in_progress
    /\ t.file_operation_call_active = s.file_operation_call_active
    /\ t.file_operation_in_progress = s.file_operation_in_progress
    /\ t.close_after_file_operation = s.close_after_file_operation

\* What the posted continuation makes of the reducer.
LEMMA ContinuationOutcomes ==
    ASSUME NEW s \in State
    PROVE  LET r == deferred_shutdown_ready(s)
               t == r.state
           IN
           /\ t \in State
           /\ SameCalls(s, t)
           /\ \/ /\ r.act = "none"
                 /\ s.closing \/ ~s.shutdown_deferred
                 /\ t = s
              \/ /\ r.act = "none"
                 /\ ~s.closing
                 /\ s.shell_call_depth # 0 \/ s.drag_in_progress
                 /\ t.shutdown_deferred /\ ~t.shutdown_message_queued
                 /\ t.shutdown_save_attempted = s.shutdown_save_attempted
              \/ /\ r.act = "none"
                 /\ ~s.closing
                 /\ s.shutdown_prompt_active \/ s.shutdown_save_attempted
                 /\ ~t.shutdown_deferred /\ ~t.shutdown_message_queued
                 /\ t.shutdown_save_attempted = s.shutdown_save_attempted
              \/ /\ r.act = "save_session"
                 /\ ~s.closing /\ ~s.shutdown_prompt_active
                 /\ s.shell_call_depth = 0 /\ ~s.drag_in_progress
                 /\ ~t.shutdown_deferred /\ ~t.shutdown_message_queued
<1> DEFINE r == deferred_shutdown_ready(s)
<1>1. CASE s.closing \/ ~s.shutdown_deferred
  <2>1. r = [state |-> s, act |-> "none"]
    BY <1>1 DEF deferred_shutdown_ready, Stepped
  <2>2. QED
    BY <1>1, <2>1 DEF SameCalls
<1>2. CASE ~(s.closing \/ ~s.shutdown_deferred) /\ (s.shell_call_depth # 0 \/ s.drag_in_progress)
  <2> DEFINE t == [s EXCEPT !.shutdown_message_queued = FALSE]
  <2>1. r = [state |-> t, act |-> "none"]
    BY <1>2 DEF deferred_shutdown_ready, Stepped
  <2>2. /\ t \in State /\ SameCalls(s, t) /\ ~t.shutdown_message_queued
        /\ t.shutdown_deferred = s.shutdown_deferred
        /\ t.shutdown_save_attempted = s.shutdown_save_attempted
    BY DEF State, SameCalls
  <2> HIDE DEF t, r
  <2>3. QED
    BY <1>2, <2>1, <2>2 DEF r
<1>3. CASE ~(s.closing \/ ~s.shutdown_deferred) /\ ~(s.shell_call_depth # 0 \/ s.drag_in_progress)
  <2> DEFINE u == [s EXCEPT !.shutdown_deferred = FALSE,
                            !.shutdown_message_queued = FALSE]
             t == [u EXCEPT !.shutdown_save_attempted = TRUE]
  <2>1. /\ u \in State /\ SameCalls(s, u)
        /\ ~u.shutdown_deferred /\ ~u.shutdown_message_queued
        /\ u.shutdown_save_attempted = s.shutdown_save_attempted
    BY DEF State, SameCalls
  <2>2. CASE u.shutdown_prompt_active \/ u.shutdown_save_attempted
    <3>1. r = [state |-> u, act |-> "none"]
      BY <1>3, <2>2 DEF deferred_shutdown_ready, Stepped
    <3> HIDE DEF u, r
    <3>2. QED
      BY <1>3, <2>1, <2>2, <3>1 DEF SameCalls, r
  <2>3. CASE ~(u.shutdown_prompt_active \/ u.shutdown_save_attempted)
    <3>1. r = [state |-> t, act |-> "save_session"]
      BY <1>3, <2>3 DEF deferred_shutdown_ready, Stepped
    <3> HIDE DEF u, r
    <3>2. /\ t \in State /\ SameCalls(u, t)
          /\ ~t.shutdown_deferred /\ ~t.shutdown_message_queued
      BY <2>1 DEF State, SameCalls
    <3>3. SameCalls(s, t)
      BY <2>1, <3>2 DEF SameCalls
    <3> HIDE DEF t
    <3>4. QED
      BY <1>3, <2>1, <2>3, <3>1, <3>2, <3>3 DEF SameCalls, r
  <2>4. QED
    BY <2>2, <2>3
<1>4. QED
  BY <1>1, <1>2, <1>3

\* However the teardown was begun, the invariant holds of it.
LEMMA TeardownBegunKeeps ==
    ASSUME NEW s \in State, NEW base, Settled(base), NEW frame \in TeardownFrames,
           Shells(base) = 0, Drags(base) = 0, FileCalls(base) = 0, Prompts(base) = 0,
           PromptAboveNoGate(base),
           s.shell_call_depth = 0, ~s.file_operation_call_active,
           ~s.file_operation_in_progress, ~s.shutdown_prompt_active,
           ~s.closing, ~s.main_window_destroyed, alive.window,
           OtherTypes, BeginTeardown(s, base, frame),
           queue' \in Seq(Messages), disk' \in Documents, dirty' \in BOOLEAN,
           os_ending' \in BOOLEAN,
           intent' \in [user_close : {"no", "yes", "merged"}, checkpoint : BOOLEAN],
           UNCHANGED <<alive, process, failures>>
    PROVE  IInv'
<1>1. caption \in BOOLEAN
  BY DEF OtherTypes
<1>2. /\ \A q \in Seq(Messages) : Calls(seq', stack', q, alive)
      /\ BusyOnTop(stack')
      /\ seq'.closing /\ ~seq'.end_session_pending
      /\ ~seq'.shutdown_deferred
      /\ prompt' = IdlePrompt
      /\ caption' \in BOOLEAN
  BY <1>1, BeginTeardownClears
<1>3. Calls(seq', stack', queue', alive')
  BY <1>2
<1>4. /\ DeferralHeld(seq')
      /\ OwnedBySession(seq', intent'.user_close, prompt', os_ending')
      /\ UserCloseCarried(seq', stack', intent'.user_close)
      /\ CaptionTrue(seq', stack', caption')
      /\ PromptAboutTransfer(seq', prompt')
  BY <1>2 DEF DeferralHeld, OwnedBySession, UserCloseCarried, CaptionTrue,
     PromptAboutTransfer, Underway
<1>5. prompt' \in [window : {"hidden", "shown", "cancelling"},
                   result : TransferChoices \cup {"none"}]
  BY <1>2 DEF IdlePrompt
<1>6. QED
  BY <1>2, <1>3, <1>4, <1>5 DEF IInv, TypeOK, OtherTypes, Calls

\* A settled stack outside Shell calls, drags and prompts holds no gate at all.
LEMMA ClearOfGates ==
    ASSUME NEW s \in State, NEW st, Settled(st), CountsMatch(s, st),
           s.shell_call_depth = 0, ~s.drag_in_progress, ~s.shutdown_prompt_active
    PROVE  /\ Shells(st) = 0 /\ Drags(st) = 0 /\ FileCalls(st) = 0 /\ Prompts(st) = 0
           /\ ~s.file_operation_call_active /\ ~s.file_operation_in_progress
           /\ Positions(st, GateFrames) = {}
<1>1. st \in Seq(Frames)
  BY SettledHasNoTail
<1>2. Shells(st) = 0 /\ Drags(st) = 0 /\ Prompts(st) = 0
  BY <1>1, KindsCounted DEF CountsMatch, One, State
<1>3. FileCalls(st) = 0
  BY <1>2, FileCallOutsideShell
<1>4. Transfers(st) = 0
  BY <1>1, <1>3, TransferIsShell
<1>5. QED
  BY <1>1, <1>2, <1>3, <1>4, GatesCounted DEF CountsMatch, One, State

\* The posted continuation.
LEMMA DeferredShutdownArrivesKeeps == IInv /\ DeferredShutdownArrives => IInv'
<1> SUFFICES ASSUME IInv, DeferredShutdownArrives
             PROVE  IInv'
  OBVIOUS
<1> DEFINE r == deferred_shutdown_ready(seq)
           t == r.state
<1>1. /\ Calls(seq, stack, queue, alive) /\ OtherTypes /\ DeferralHeld(seq)
      /\ seq \in State /\ stack \in Seq(Frames) /\ CountsMatch(seq, stack)
      /\ PromptAboveNoGate(stack) /\ ClosingIsClear(seq, stack, alive)
      /\ ContinuationQueued(seq, queue)
  BY TypesSplit DEF IInv, Calls
<1>2. Settled(stack)
  BY <1>1, PumpingSettled DEF IInv, DeferredShutdownArrives
<1>3. queue' \in Seq(Messages)
  BY <1>1, HeadTailProperties DEF Calls, DeferredShutdownArrives
<1>4. UNCHANGED <<alive, process, os_ending, intent, failures>>
  BY DEF DeferredShutdownArrives
<1>5. /\ t \in State
      /\ SameCalls(seq, t)
      /\ \/ /\ r.act = "none"
            /\ seq.closing \/ ~seq.shutdown_deferred
            /\ t = seq
         \/ /\ r.act = "none"
            /\ ~seq.closing
            /\ seq.shell_call_depth # 0 \/ seq.drag_in_progress
            /\ t.shutdown_deferred /\ ~t.shutdown_message_queued
            /\ t.shutdown_save_attempted = seq.shutdown_save_attempted
         \/ /\ r.act = "none"
            /\ ~seq.closing
            /\ seq.shutdown_prompt_active \/ seq.shutdown_save_attempted
            /\ ~t.shutdown_deferred /\ ~t.shutdown_message_queued
            /\ t.shutdown_save_attempted = seq.shutdown_save_attempted
         \/ /\ r.act = "save_session"
            /\ ~seq.closing /\ ~seq.shutdown_prompt_active
            /\ seq.shell_call_depth = 0 /\ ~seq.drag_in_progress
            /\ ~t.shutdown_deferred /\ ~t.shutdown_message_queued
  BY <1>1, ContinuationOutcomes
<1>6. CASE r.act # "save_session"
  <2>1. seq' = t /\ UNCHANGED <<stack, prompt, disk, dirty, caption>>
    BY <1>6 DEF DeferredShutdownArrives
  <2> HIDE DEF t, r
  <2>2. ~t.shutdown_message_queued
    BY <1>1, <1>5, <1>6 DEF ClosingIsClear, ContinuationQueued
  <2>3. t.shutdown_save_attempted => t.closing \/ t.shutdown_prompt_active
    BY <1>1, <1>5, <1>6 DEF ContinuationQueued, SameCalls
  <2>4. t.closing => ~t.shutdown_deferred
    BY <1>1, <1>5, <1>6 DEF ClosingIsClear, SameCalls
  <2>5. CountsMatch(t, stack) /\ RetryOutsideShell(t, stack)
        /\ ClosingIsClear(t, stack, alive) /\ ContinuationQueued(t, queue')
    BY <1>1, <1>5, <2>2, <2>3, <2>4
       DEF SameCalls, Calls, CountsMatch, RetryOutsideShell, ClosingIsClear,
           ContinuationQueued
  <2>6. Calls(seq', stack', queue', alive')
    BY <1>1, <1>3, <1>4, <1>5, <2>1, <2>5 DEF Calls
  <2>7. DeferralHeld(t)
    BY <1>1, <1>5, <1>6 DEF DeferralHeld, SameCalls, CountsMatch
  <2>8. Underway(seq, stack) => Underway(t, stack)
    BY <1>1, <1>5, <1>6 DEF Underway, SameCalls, ContinuationQueued
  <2>9. /\ OwnedBySession(seq', intent'.user_close, prompt', os_ending')
        /\ UserCloseCarried(seq', stack', intent'.user_close)
        /\ CaptionTrue(seq', stack', caption')
        /\ PromptAboutTransfer(seq', prompt')
    BY <1>4, <1>5, <2>1, <2>8
       DEF IInv, OwnedBySession, UserCloseCarried, CaptionTrue, PromptAboutTransfer,
           AwaitsTransfer, SameCalls
  <2>10. QED
    BY <1>1, <1>4, <2>1, <2>6, <2>7, <2>9 DEF IInv, TypeOK, OtherTypes, Calls
<1>7. CASE r.act = "save_session"
  <2>1. PICK saved \in BOOLEAN :
          /\ WriteSession(FALSE, saved)
          /\ LET after == IF saved THEN save_succeeded(t) ELSE save_failed(t) IN
             IF after.act = "destroy_views"
             THEN BeginTeardown(after.state, stack, "teardown")
             ELSE /\ seq' = save_prompt_started(after.state).state
                  /\ stack' = Push(stack, "save_prompt")
                  /\ UNCHANGED <<prompt, caption>>
    BY <1>7 DEF DeferredShutdownArrives
  <2> DEFINE after == IF saved THEN save_succeeded(t) ELSE save_failed(t)
             u == after.state
  <2> HIDE DEF t
  <2>2. /\ ~seq.closing /\ ~seq.shutdown_prompt_active
        /\ seq.shell_call_depth = 0 /\ ~seq.drag_in_progress
        /\ ~t.shutdown_deferred /\ ~t.shutdown_message_queued
        /\ SameCalls(seq, t) /\ t \in State
    BY <1>5, <1>7 DEF t
  <2>3. u \in State /\ SameCalls(t, u)
        /\ ~u.shutdown_deferred /\ ~u.shutdown_message_queued
        /\ (after.act # "destroy_views" => ~u.end_session_pending)
    BY <2>2 DEF save_succeeded, save_failed, Stepped, State, SameCalls
  <2>4. disk' \in Documents /\ dirty' \in BOOLEAN
    BY <1>1, <2>1, DiskTyped
  <2> HIDE DEF after, u, r
  <2>5. SameCalls(seq, u)
    BY <2>2, <2>3 DEF SameCalls
  <2>6. /\ Shells(stack) = 0 /\ Drags(stack) = 0 /\ FileCalls(stack) = 0
        /\ Prompts(stack) = 0
        /\ ~seq.file_operation_call_active /\ ~seq.file_operation_in_progress
        /\ Positions(stack, GateFrames) = {}
    BY <1>1, <1>2, <2>2, ClearOfGates
  <2>7. ~seq.main_window_destroyed /\ alive.window
    BY <1>1, <2>2 DEF ClosingIsClear
  <2>8. CASE after.act = "destroy_views"
    <3>1. BeginTeardown(u, stack, "teardown")
      BY <2>1, <2>8 DEF after, u
    <3>2. /\ u.shell_call_depth = 0 /\ ~u.file_operation_call_active
          /\ ~u.file_operation_in_progress /\ ~u.shutdown_prompt_active
          /\ ~u.closing /\ ~u.main_window_destroyed
      BY <2>2, <2>5, <2>6, <2>7 DEF SameCalls
    <3>3. "teardown" \in TeardownFrames
      BY DEF TeardownFrames
    <3>4. /\ os_ending' \in BOOLEAN
          /\ intent' \in [user_close : {"no", "yes", "merged"}, checkpoint : BOOLEAN]
      BY <1>1, <1>4 DEF OtherTypes
    <3>5. QED
      BY <1>1, <1>2, <1>3, <1>4, <2>3, <2>4, <2>6, <2>7, <3>1, <3>2, <3>3, <3>4,
         TeardownBegunKeeps
  <2>9. CASE after.act # "destroy_views"
    <3>1. /\ seq' = save_prompt_started(u).state
          /\ stack' = Append(stack, "save_prompt")
          /\ UNCHANGED <<prompt, caption>>
      BY <2>1, <2>9 DEF after, u, Push
    <3>2. /\ seq' \in State /\ seq'.shutdown_prompt_active
          /\ ~seq'.shutdown_deferred /\ ~seq'.shutdown_message_queued
          /\ ~seq'.end_session_pending /\ ~seq'.closing
          /\ seq'.quit_requested = seq.quit_requested
          /\ seq'.main_window_destroyed = seq.main_window_destroyed
          /\ seq'.shell_call_depth = seq.shell_call_depth
          /\ seq'.drag_target_count = seq.drag_target_count
          /\ seq'.drag_in_progress = seq.drag_in_progress
          /\ seq'.file_operation_call_active = seq.file_operation_call_active
          /\ seq'.file_operation_in_progress = seq.file_operation_in_progress
          /\ seq'.close_after_file_operation = seq.close_after_file_operation
      BY <2>2, <2>3, <2>5, <2>9, <3>1 DEF save_prompt_started, Stepped, State, SameCalls
    <3>3. Pushed(stack, stack', 0, 0, 0, 0, 1, 0, 0)
      BY <1>1, <3>1, FramePushes
    <3>4. PromptAboveNoGate(stack') /\ BusyOnTop(stack')
      <4>1. "save_prompt" \in PumpFrames /\ "save_prompt" \in Frames
        BY DEF PumpFrames, Frames
      <4>2. QED
        BY <1>1, <1>2, <2>6, <3>1, <4>1, PromptPush, SettledPush DEF BusyOnTop
    <3>5. Retries(stack) = 0 /\ Transfers(stack) \in Nat /\ Teardowns(stack) \in Nat
      BY <1>1, <1>2, SettledHasNoTail, KindsCounted
    <3>6. CountsMatch(seq', stack') /\ RetryOutsideShell(seq', stack')
          /\ ClosingIsClear(seq', stack', alive) /\ ContinuationQueued(seq', queue')
      BY <1>1, <2>2, <2>6, <2>7, <3>2, <3>3, <3>5
         DEF CountsMatch, RetryOutsideShell, ClosingIsClear, ContinuationQueued, Pushed, One
    <3>7. Calls(seq', stack', queue', alive')
      BY <1>3, <1>4, <3>2, <3>3, <3>4, <3>6 DEF Calls, Pushed
    <3>8. /\ DeferralHeld(seq')
          /\ OwnedBySession(seq', intent'.user_close, prompt', os_ending')
          /\ UserCloseCarried(seq', stack', intent'.user_close)
          /\ CaptionTrue(seq', stack', caption')
          /\ PromptAboutTransfer(seq', prompt')
      BY <1>4, <3>1, <3>2
         DEF IInv, DeferralHeld, OwnedBySession, UserCloseCarried, CaptionTrue,
             PromptAboutTransfer, AwaitsTransfer, Underway
    <3>9. QED
      BY <1>1, <1>4, <2>4, <3>1, <3>4, <3>7, <3>8 DEF IInv, TypeOK, OtherTypes, Calls
  <2>10. QED
    BY <2>8, <2>9
<1>8. QED
  BY <1>6, <1>7

\* The answer of the save-failure box.
LEMMA SavePromptAnsweredKeeps == IInv /\ SavePromptAnswered => IInv'
<1> SUFFICES ASSUME IInv, SavePromptAnswered
             PROVE  IInv'
  OBVIOUS
<1> DEFINE b == SubSeq(stack, 1, Len(stack) - 1)
           r == save_prompt_finished(seq)
           t == r.state
<1>1. /\ Calls(seq, stack, queue, alive) /\ OtherTypes /\ DeferralHeld(seq)
      /\ seq \in State /\ stack \in Seq(Frames) /\ queue \in Seq(Messages)
      /\ CountsMatch(seq, stack) /\ PromptAboveNoGate(stack)
      /\ ClosingIsClear(seq, stack, alive) /\ ContinuationQueued(seq, queue)
      /\ RetryOutsideShell(seq, stack) /\ BusyOnTop(stack)
  BY TypesSplit DEF IInv, Calls
<1>2. stack # <<>> /\ stack[Len(stack)] = "save_prompt" /\ Pop = b
  BY DEF SavePromptAnswered, TopIs, Pop
<1>3. b \in Seq(Frames) /\ stack = Append(b, "save_prompt")
  BY <1>1, <1>2, PopThenPush
<1> HIDE DEF b
<1>4. /\ Settled(b) /\ PromptAboveNoGate(b) /\ Positions(b, GateFrames) = {}
      /\ Pushed(b, stack, 0, 0, 0, 0, 1, 0, 0)
  <2>1. "save_prompt" \in Frames
    BY DEF Frames, PumpFrames
  <2>2. QED
    BY <1>1, <1>3, <2>1, BusyPop, PromptPush, FramePushes
<1>5. Shells(b) = 0 /\ Drags(b) = 0 /\ FileCalls(b) = 0 /\ Prompts(b) = 0
      /\ Transfers(b) = 0 /\ Retries(b) = 0 /\ Teardowns(b) \in Nat
  BY <1>3, <1>4, GatesCounted, TransferIsShell, SettledHasNoTail, KindsCounted
<1>6. /\ seq.shell_call_depth = 0 /\ ~seq.file_operation_call_active
      /\ ~seq.file_operation_in_progress /\ seq.shutdown_prompt_active
      /\ ~seq.closing /\ alive.window /\ ~seq.main_window_destroyed
      /\ ~seq.quit_requested
  BY <1>1, <1>4, <1>5 DEF CountsMatch, ClosingIsClear, Pushed, One
<1>7. /\ t \in State /\ ~t.shutdown_prompt_active
      /\ t.shell_call_depth = 0 /\ ~t.file_operation_call_active
      /\ ~t.file_operation_in_progress
      /\ ~t.closing /\ ~t.main_window_destroyed /\ ~t.quit_requested
      /\ t.drag_target_count = seq.drag_target_count
      /\ t.drag_in_progress = seq.drag_in_progress
      /\ t.shutdown_deferred = seq.shutdown_deferred
      /\ t.shutdown_message_queued = seq.shutdown_message_queued
      /\ t.end_session_pending = seq.end_session_pending
      /\ r.act = "none" => ~seq.end_session_pending
  BY <1>1, <1>6 DEF save_prompt_finished, Stepped, State
<1>8. UNCHANGED <<queue, disk, dirty, alive, process, os_ending, failures>>
  BY DEF SavePromptAnswered
<1>9. "teardown" \in TeardownFrames
  BY DEF TeardownFrames
<1>10. \/ BeginTeardown(t, b, "teardown") /\ UNCHANGED intent
       \/ BeginTeardown(save_discarded(t).state, b, "teardown") /\ UNCHANGED intent
       \/ /\ r.act = "none"
          /\ seq' = save_keep_open(t).state
          /\ stack' = b
          /\ caption' = FALSE
          /\ intent' = [intent EXCEPT !.user_close = "no"]
          /\ UNCHANGED prompt
  BY <1>2 DEF SavePromptAnswered
<1> HIDE DEF t, r
<1>11. ASSUME NEW u \in State, BeginTeardown(u, b, "teardown"), UNCHANGED intent,
              u.shell_call_depth = 0, ~u.file_operation_call_active,
              ~u.file_operation_in_progress, ~u.shutdown_prompt_active,
              ~u.closing, ~u.main_window_destroyed
       PROVE  IInv'
  <2>1. /\ queue' \in Seq(Messages) /\ disk' \in Documents /\ dirty' \in BOOLEAN
        /\ os_ending' \in BOOLEAN
        /\ intent' \in [user_close : {"no", "yes", "merged"}, checkpoint : BOOLEAN]
        /\ UNCHANGED <<alive, process, failures>>
    BY <1>1, <1>8, <1>11 DEF OtherTypes
  <2>2. QED
    BY <1>1, <1>4, <1>5, <1>6, <1>9, <1>11, <2>1, TeardownBegunKeeps
<1>12. CASE BeginTeardown(t, b, "teardown") /\ UNCHANGED intent
  BY <1>7, <1>11, <1>12
<1>13. CASE BeginTeardown(save_discarded(t).state, b, "teardown") /\ UNCHANGED intent
  <2> DEFINE u == save_discarded(t).state
  <2>1. /\ u \in State
        /\ u.shell_call_depth = 0 /\ ~u.file_operation_call_active
        /\ ~u.file_operation_in_progress /\ ~u.shutdown_prompt_active
        /\ ~u.closing /\ ~u.main_window_destroyed
    BY <1>7 DEF save_discarded, Stepped, State
  <2> HIDE DEF u
  <2>2. QED
    BY <1>11, <1>13, <2>1 DEF u
<1>14. CASE /\ r.act = "none"
            /\ seq' = save_keep_open(t).state
            /\ stack' = b
            /\ caption' = FALSE
            /\ intent' = [intent EXCEPT !.user_close = "no"]
            /\ UNCHANGED prompt
  <2>1. /\ seq' \in State /\ ~seq'.shutdown_prompt_active
        /\ ~seq'.shutdown_save_attempted
        /\ seq'.shell_call_depth = 0 /\ ~seq'.file_operation_call_active
        /\ ~seq'.file_operation_in_progress
        /\ ~seq'.closing /\ ~seq'.main_window_destroyed /\ ~seq'.quit_requested
        /\ seq'.drag_target_count = seq.drag_target_count
        /\ seq'.drag_in_progress = seq.drag_in_progress
        /\ seq'.shutdown_deferred = seq.shutdown_deferred
        /\ seq'.shutdown_message_queued = seq.shutdown_message_queued
        /\ ~seq'.end_session_pending
    BY <1>7, <1>14 DEF save_keep_open, Stepped, State
  <2>2. CountsMatch(seq', b) /\ RetryOutsideShell(seq', b)
        /\ ClosingIsClear(seq', b, alive) /\ ContinuationQueued(seq', queue)
    BY <1>1, <1>4, <1>5, <1>6, <2>1
       DEF CountsMatch, RetryOutsideShell, ClosingIsClear, ContinuationQueued, Pushed, One,
           State
  <2>3. Calls(seq', stack', queue', alive') /\ BusyOnTop(stack')
    BY <1>1, <1>3, <1>4, <1>8, <1>14, <2>1, <2>2 DEF Calls, BusyOnTop
  <2>4. intent' \in [user_close : {"no", "yes", "merged"}, checkpoint : BOOLEAN]
        /\ intent'.user_close = "no"
    BY <1>1, <1>14 DEF OtherTypes
  <2>5. prompt = IdlePrompt
    BY <1>6 DEF IInv, PromptAboutTransfer, AwaitsTransfer
  <2>6. /\ DeferralHeld(seq')
        /\ OwnedBySession(seq', intent'.user_close, prompt', os_ending')
        /\ UserCloseCarried(seq', stack', intent'.user_close)
        /\ CaptionTrue(seq', stack', caption')
        /\ PromptAboutTransfer(seq', prompt')
    BY <1>1, <1>6, <1>14, <2>1, <2>4, <2>5
       DEF DeferralHeld, OwnedBySession, UserCloseCarried, CaptionTrue,
           PromptAboutTransfer
  <2>7. QED
    BY <1>1, <1>8, <1>14, <2>3, <2>4, <2>6 DEF IInv, TypeOK, OtherTypes, Calls
<1>15. QED
  BY <1>10, <1>12, <1>13, <1>14

\* The views are gone, and the window with them.
LEMMA TeardownFinishedKeeps == IInv /\ TeardownFinished => IInv'
<1> SUFFICES ASSUME IInv, TeardownFinished
             PROVE  IInv'
  OBVIOUS
<1> DEFINE b == SubSeq(stack, 1, Len(stack) - 1)
           f == stack[Len(stack)]
           gone == window_destroyed(views_destroyed(seq).state).state
           write == dirty /\ ~gone.shutdown_save_attempted
           final == TopIs({"end_teardown"})
<1>1. /\ Calls(seq, stack, queue, alive) /\ OtherTypes
      /\ seq \in State /\ stack \in Seq(Frames)
      /\ CountsMatch(seq, stack) /\ PromptAboveNoGate(stack)
      /\ ClosingIsClear(seq, stack, alive)
      /\ RetryOutsideShell(seq, stack) /\ BusyOnTop(stack)
  BY TypesSplit DEF IInv, Calls
<1>2. stack # <<>> /\ f \in TeardownFrames /\ stack' = b
  BY DEF TeardownFinished, TopIs, Pop
<1>3. b \in Seq(Frames) /\ stack = Append(b, f)
  BY <1>1, <1>2, PopThenPush
<1>4. /\ seq' = IF write THEN save_started(gone).state ELSE gone
      /\ \E d \in IF write
                  THEN {disk, [clean |-> FALSE, current |-> TRUE, ours |-> TRUE]}
                  ELSE {disk} :
           IF final THEN FinalizeProcess(gone, d) ELSE disk' = d
      /\ dirty' \in IF write THEN BOOLEAN ELSE {dirty}
      /\ alive' = [views |-> FALSE, window |-> FALSE, com |-> alive.com /\ ~final]
      /\ queue' = <<>>
      /\ UNCHANGED <<prompt, process, os_ending, caption, intent, failures>>
  BY DEF TeardownFinished
<1> HIDE DEF b, f
<1>5. /\ Settled(b) /\ PromptAboveNoGate(b) /\ Pushed(b, stack, 0, 0, 0, 0, 0, 0, 1)
  <2>1. f \in Frames /\ f # "request_close"
    BY <1>2 DEF Frames, PumpFrames, TeardownFrames
  <2>2. QED
    BY <1>1, <1>2, <1>3, <2>1, BusyPop, PromptPush, FramePushes DEF TeardownFrames
<1>6. /\ gone \in State /\ gone.main_window_destroyed /\ gone.quit_requested
      /\ gone.closing = seq.closing
      /\ gone.shutdown_prompt_active = seq.shutdown_prompt_active
      /\ gone.end_session_pending = seq.end_session_pending
      /\ gone.end_session_owns_close = seq.end_session_owns_close
      /\ gone.shell_call_depth = seq.shell_call_depth
      /\ gone.drag_target_count = seq.drag_target_count
      /\ gone.drag_in_progress = seq.drag_in_progress
      /\ gone.file_operation_call_active = seq.file_operation_call_active
      /\ gone.file_operation_in_progress = seq.file_operation_in_progress
      /\ gone.close_after_file_operation = seq.close_after_file_operation
      /\ gone.shutdown_deferred = seq.shutdown_deferred
      /\ gone.shutdown_message_queued = seq.shutdown_message_queued
  BY <1>1 DEF window_destroyed, views_destroyed, Stepped, State
<1> HIDE DEF gone
<1>7. /\ seq' \in State /\ seq'.main_window_destroyed /\ seq'.quit_requested
      /\ seq'.closing = seq.closing
      /\ seq'.shutdown_prompt_active = seq.shutdown_prompt_active
      /\ seq'.end_session_pending = seq.end_session_pending
      /\ seq'.end_session_owns_close = seq.end_session_owns_close
      /\ seq'.shell_call_depth = seq.shell_call_depth
      /\ seq'.drag_target_count = seq.drag_target_count
      /\ seq'.drag_in_progress = seq.drag_in_progress
      /\ seq'.file_operation_call_active = seq.file_operation_call_active
      /\ seq'.file_operation_in_progress = seq.file_operation_in_progress
      /\ seq'.close_after_file_operation = seq.close_after_file_operation
      /\ seq'.shutdown_deferred = seq.shutdown_deferred
      /\ seq'.shutdown_message_queued = seq.shutdown_message_queued
  <2>1. CASE write
    BY <1>4, <1>6, <2>1 DEF save_started, Stepped, State
  <2>2. CASE ~write
    BY <1>4, <1>6, <2>2
  <2>3. QED
    BY <2>1, <2>2
<1>8. disk' \in Documents /\ dirty' \in BOOLEAN
  <2> DEFINE w == [clean |-> FALSE, current |-> TRUE, ours |-> TRUE]
  <2>1. w \in Documents /\ disk \in Documents /\ dirty \in BOOLEAN
    BY <1>1 DEF Documents, OtherTypes
  <2>2. PICK d \in {disk, w} : IF final THEN FinalizeProcess(gone, d) ELSE disk' = d
    BY <1>4
  <2>3. d \in Documents
    BY <2>1, <2>2
  <2>4. disk' \in Documents
    BY <1>1, <1>6, <2>2, <2>3, DiskTyped
  <2>5. dirty' \in BOOLEAN
    BY <1>4, <2>1
  <2>6. QED
    BY <2>4, <2>5
<1>9. alive' \in [views : BOOLEAN, window : BOOLEAN, com : BOOLEAN] /\ ~alive'.window
  <2>1. (alive.com /\ ~final) \in BOOLEAN
    BY <1>1 DEF OtherTypes, TopIs
  <2> DEFINE c == alive.com /\ ~final
  <2>2. alive' = [views |-> FALSE, window |-> FALSE, com |-> c] /\ c \in BOOLEAN
    BY <1>4, <2>1
  <2> HIDE DEF c
  <2>3. QED
    BY <2>2
<1>10. /\ Shells(b) = Shells(stack) /\ Drags(b) = Drags(stack)
       /\ FileCalls(b) = FileCalls(stack) /\ Transfers(b) = Transfers(stack)
       /\ Prompts(b) = Prompts(stack) /\ Retries(b) = 0 /\ Teardowns(stack) # 0
  BY <1>3, <1>5, KindsCounted, SettledHasNoTail DEF Pushed
<1>11. seq.closing /\ ~seq.shutdown_deferred /\ ~seq.shutdown_message_queued
  BY <1>1, <1>10 DEF ClosingIsClear
<1>12. CountsMatch(seq', b) /\ RetryOutsideShell(seq', b)
       /\ ClosingIsClear(seq', b, alive') /\ ContinuationQueued(seq', queue')
  BY <1>1, <1>7, <1>9, <1>10, <1>11
     DEF CountsMatch, RetryOutsideShell, ClosingIsClear, ContinuationQueued
<1>13. Calls(seq', stack', queue', alive') /\ BusyOnTop(stack')
  BY <1>2, <1>3, <1>4, <1>5, <1>7, <1>12, EmptySeq DEF Calls, BusyOnTop, b
<1>14. /\ DeferralHeld(seq')
       /\ OwnedBySession(seq', intent'.user_close, prompt', os_ending')
       /\ UserCloseCarried(seq', stack', intent'.user_close)
       /\ CaptionTrue(seq', stack', caption')
       /\ PromptAboutTransfer(seq', prompt')
  BY <1>4, <1>7, <1>11
     DEF IInv, DeferralHeld, OwnedBySession, UserCloseCarried, CaptionTrue,
         PromptAboutTransfer, AwaitsTransfer, Underway
<1>15. QED
  BY <1>1, <1>4, <1>8, <1>9, <1>13, <1>14 DEF IInv, TypeOK, OtherTypes, Calls

\* What a confirmed session end makes of the reducer.
LEMMA EndSessionOutcomes ==
    ASSUME NEW s \in State
    PROVE  LET r == end_session(s)
               t == r.state
           IN
           /\ t \in State
           /\ t.closing = s.closing
           /\ t.quit_requested = s.quit_requested
           /\ t.main_window_destroyed = s.main_window_destroyed
           /\ t.shutdown_prompt_active = s.shutdown_prompt_active
           /\ t.shutdown_save_attempted = s.shutdown_save_attempted
           /\ t.shell_call_depth = s.shell_call_depth
           /\ t.drag_target_count = s.drag_target_count
           /\ t.drag_in_progress = s.drag_in_progress
           /\ t.file_operation_call_active = s.file_operation_call_active
           /\ t.file_operation_in_progress = s.file_operation_in_progress
           /\ t.shutdown_message_queued = s.shutdown_message_queued
           /\ s.close_after_file_operation => t.close_after_file_operation
           /\ t.end_session_pending
           /\ t.end_session_owns_close =>
                \/ s.end_session_pending /\ s.end_session_owns_close
                \/ ~CloseUnderWay(s) /\ ~s.close_after_file_operation
           /\ \/ r.act = "none" /\ t.shutdown_deferred = s.shutdown_deferred
              \/ /\ r.act = "defer" /\ t.shutdown_deferred /\ ~s.closing
                 /\ s.drag_in_progress \/ ~CloseUnderWay(s)
<1> DEFINE p == RecordSessionEnd(s)
           d == [p EXCEPT !.shutdown_deferred = TRUE]
           w == [p EXCEPT !.close_after_file_operation = TRUE,
                          !.cancel_file_operation = TRUE]
           r == end_session(s)
<1>1. /\ p \in State
      /\ AgreeOnGates([p EXCEPT !.end_session_pending = s.end_session_pending,
                                !.end_session_owns_close = s.end_session_owns_close], s)
      /\ p.shutdown_message_queued = s.shutdown_message_queued
      /\ p.shutdown_deferred = s.shutdown_deferred
      /\ p.close_after_file_operation = s.close_after_file_operation
      /\ p.end_session_pending
      /\ p.end_session_owns_close =>
           \/ s.end_session_pending /\ s.end_session_owns_close
           \/ ~CloseUnderWay(s) /\ ~s.close_after_file_operation
  <2>1. CASE s.end_session_pending
    <3>1. p = s
      BY <2>1 DEF RecordSessionEnd
    <3>2. QED
      BY <2>1, <3>1 DEF State, AgreeOnGates
  <2>2. CASE ~s.end_session_pending
    <3> DEFINE own == ~CloseUnderWay(s) /\ ~s.close_after_file_operation
               cancel == s.cancel_file_operation
    <3>1. own \in BOOLEAN /\ cancel \in BOOLEAN
      BY DEF State, CloseUnderWay
    <3>2. p = [s EXCEPT !.end_session_pending = TRUE,
                        !.end_session_owns_close = own,
                        !.cancel_file_operation_before_end_session = cancel]
      BY <2>2 DEF RecordSessionEnd
    <3> HIDE DEF own, cancel, p
    <3>3. /\ p \in State
          /\ p.shutdown_message_queued = s.shutdown_message_queued
          /\ p.shutdown_deferred = s.shutdown_deferred
          /\ p.close_after_file_operation = s.close_after_file_operation
          /\ p.end_session_pending
          /\ p.end_session_owns_close = own
      BY <3>1, <3>2 DEF State
    <3>4. AgreeOnGates([p EXCEPT !.end_session_pending = s.end_session_pending,
                                 !.end_session_owns_close = s.end_session_owns_close], s)
      BY <3>1, <3>2 DEF State, AgreeOnGates
    <3>5. QED
      BY <3>3, <3>4 DEF own
  <2>3. QED
    BY <2>1, <2>2
<1>2. /\ p.closing = s.closing
      /\ p.quit_requested = s.quit_requested
      /\ p.main_window_destroyed = s.main_window_destroyed
      /\ p.shutdown_prompt_active = s.shutdown_prompt_active
      /\ p.shutdown_save_attempted = s.shutdown_save_attempted
      /\ p.shell_call_depth = s.shell_call_depth
      /\ p.drag_target_count = s.drag_target_count
      /\ p.drag_in_progress = s.drag_in_progress
      /\ p.file_operation_call_active = s.file_operation_call_active
      /\ p.file_operation_in_progress = s.file_operation_in_progress
  BY <1>1 DEF AgreeOnGates, State
<1>3. CloseUnderWay(p) <=> CloseUnderWay(s)
  BY <1>1, <1>2 DEF CloseUnderWay
<1>4. \/ r = [state |-> p, act |-> "none"]
      \/ r = [state |-> w, act |-> "none"]
      \/ /\ r = [state |-> d, act |-> "defer"]
         /\ ~p.closing /\ (p.drag_in_progress \/ ~CloseUnderWay(p))
  BY DEF end_session, Stepped
<1> HIDE DEF p, r
<1>5. CASE r = [state |-> p, act |-> "none"]
  BY <1>1, <1>2, <1>5 DEF r
<1>6. CASE r = [state |-> w, act |-> "none"]
  <2>1. /\ w \in State /\ AgreeOnGates(p, w)
        /\ w.close_after_file_operation
        /\ w.shutdown_message_queued = p.shutdown_message_queued
        /\ w.shutdown_deferred = p.shutdown_deferred
    BY <1>1 DEF State, AgreeOnGates
  <2> HIDE DEF w
  <2>2. /\ w \in State
        /\ w.closing = s.closing
        /\ w.quit_requested = s.quit_requested
        /\ w.main_window_destroyed = s.main_window_destroyed
        /\ w.shutdown_prompt_active = s.shutdown_prompt_active
        /\ w.shutdown_save_attempted = s.shutdown_save_attempted
        /\ w.shell_call_depth = s.shell_call_depth
        /\ w.drag_target_count = s.drag_target_count
        /\ w.drag_in_progress = s.drag_in_progress
        /\ w.file_operation_call_active = s.file_operation_call_active
        /\ w.file_operation_in_progress = s.file_operation_in_progress
        /\ w.shutdown_message_queued = s.shutdown_message_queued
        /\ s.close_after_file_operation => w.close_after_file_operation
        /\ w.end_session_pending
        /\ w.end_session_owns_close =>
             \/ s.end_session_pending /\ s.end_session_owns_close
             \/ ~CloseUnderWay(s) /\ ~s.close_after_file_operation
        /\ w.shutdown_deferred = s.shutdown_deferred
    BY <1>1, <1>2, <2>1 DEF AgreeOnGates
  <2>3. QED
    BY <1>6, <2>2 DEF r
<1>7. CASE /\ r = [state |-> d, act |-> "defer"]
           /\ ~p.closing /\ (p.drag_in_progress \/ ~CloseUnderWay(p))
  <2>1. /\ d \in State /\ AgreeOnGates(p, d)
        /\ d.close_after_file_operation = p.close_after_file_operation
        /\ d.shutdown_message_queued = p.shutdown_message_queued
        /\ d.shutdown_deferred
    BY <1>1 DEF State, AgreeOnGates
  <2> HIDE DEF d
  <2>2. /\ d \in State
        /\ d.closing = s.closing
        /\ d.quit_requested = s.quit_requested
        /\ d.main_window_destroyed = s.main_window_destroyed
        /\ d.shutdown_prompt_active = s.shutdown_prompt_active
        /\ d.shutdown_save_attempted = s.shutdown_save_attempted
        /\ d.shell_call_depth = s.shell_call_depth
        /\ d.drag_target_count = s.drag_target_count
        /\ d.drag_in_progress = s.drag_in_progress
        /\ d.file_operation_call_active = s.file_operation_call_active
        /\ d.file_operation_in_progress = s.file_operation_in_progress
        /\ d.shutdown_message_queued = s.shutdown_message_queued
        /\ s.close_after_file_operation => d.close_after_file_operation
        /\ d.end_session_pending
        /\ d.end_session_owns_close =>
             \/ s.end_session_pending /\ s.end_session_owns_close
             \/ ~CloseUnderWay(s) /\ ~s.close_after_file_operation
        /\ d.shutdown_deferred
    BY <1>1, <1>2, <2>1 DEF AgreeOnGates
  <2>3. QED
    BY <1>2, <1>3, <1>7, <2>2 DEF r
<1>8. QED
  BY <1>4, <1>5, <1>6, <1>7

\* WM_ENDSESSION(TRUE).
LEMMA EndSessionConfirmedKeeps == IInv /\ EndSessionConfirmed => IInv'
<1> SUFFICES ASSUME IInv, EndSessionConfirmed
             PROVE  IInv'
  OBVIOUS
<1> DEFINE r == end_session(seq)
           t == r.state
<1>1. /\ Calls(seq, stack, queue, alive) /\ OtherTypes /\ DeferralHeld(seq)
      /\ seq \in State /\ stack \in Seq(Frames) /\ queue \in Seq(Messages)
      /\ CountsMatch(seq, stack) /\ PromptAboveNoGate(stack)
      /\ ClosingIsClear(seq, stack, alive) /\ ContinuationQueued(seq, queue)
      /\ RetryOutsideShell(seq, stack)
  BY TypesSplit DEF IInv, Calls
<1>2. Settled(stack)
  BY <1>1, PumpingSettled DEF IInv, EndSessionConfirmed
<1>3. PICK saved \in BOOLEAN :
        /\ WriteSession(TRUE, saved)
        /\ intent' = [intent EXCEPT !.checkpoint = saved]
        /\ IF \/ t.closing
              \/ r.act # "defer"
              \/ t.shell_call_depth # 0
              \/ t.drag_in_progress
           THEN seq' = t /\ UNCHANGED <<stack, prompt, caption>>
           ELSE LET started == save_started(t).state IN
                BeginTeardown(IF saved THEN save_succeeded(started).state
                                       ELSE save_failed(started).state,
                              stack, "end_teardown")
  BY DEF EndSessionConfirmed
<1>4. os_ending' = TRUE /\ UNCHANGED <<queue, alive, process, failures>>
  BY DEF EndSessionConfirmed
<1>5. /\ intent' \in [user_close : {"no", "yes", "merged"}, checkpoint : BOOLEAN]
      /\ intent'.user_close = intent.user_close
  BY <1>1, <1>3 DEF OtherTypes
<1>6. disk' \in Documents /\ dirty' \in BOOLEAN
  BY <1>1, <1>3, DiskTyped
<1>7. /\ t \in State
      /\ t.closing = seq.closing
      /\ t.quit_requested = seq.quit_requested
      /\ t.main_window_destroyed = seq.main_window_destroyed
      /\ t.shutdown_prompt_active = seq.shutdown_prompt_active
      /\ t.shutdown_save_attempted = seq.shutdown_save_attempted
      /\ t.shell_call_depth = seq.shell_call_depth
      /\ t.drag_target_count = seq.drag_target_count
      /\ t.drag_in_progress = seq.drag_in_progress
      /\ t.file_operation_call_active = seq.file_operation_call_active
      /\ t.file_operation_in_progress = seq.file_operation_in_progress
      /\ t.shutdown_message_queued = seq.shutdown_message_queued
      /\ seq.close_after_file_operation => t.close_after_file_operation
      /\ t.end_session_pending
      /\ t.end_session_owns_close =>
           \/ seq.end_session_pending /\ seq.end_session_owns_close
           \/ ~CloseUnderWay(seq) /\ ~seq.close_after_file_operation
      /\ \/ r.act = "none" /\ t.shutdown_deferred = seq.shutdown_deferred
         \/ /\ r.act = "defer" /\ t.shutdown_deferred /\ ~seq.closing
            /\ seq.drag_in_progress \/ ~CloseUnderWay(seq)
  BY <1>1, EndSessionOutcomes
<1> HIDE DEF t, r
<1>8. CASE \/ t.closing
           \/ r.act # "defer"
           \/ t.shell_call_depth # 0
           \/ t.drag_in_progress
  <2>1. seq' = t /\ UNCHANGED <<stack, prompt, caption>>
    BY <1>3, <1>8
  <2>2. CountsMatch(t, stack) /\ RetryOutsideShell(t, stack)
        /\ ClosingIsClear(t, stack, alive) /\ ContinuationQueued(t, queue)
    BY <1>1, <1>7
       DEF CountsMatch, RetryOutsideShell, ClosingIsClear, ContinuationQueued
  <2>3. Calls(seq', stack', queue', alive')
    BY <1>1, <1>4, <1>7, <2>1, <2>2 DEF Calls
  <2>4. DeferralHeld(t)
    BY <1>1, <1>7, <1>8 DEF DeferralHeld, CountsMatch
  <2>5. /\ Underway(seq, stack) => Underway(t, stack)
        /\ AwaitsTransfer(seq) => AwaitsTransfer(t)
    BY <1>7 DEF Underway, AwaitsTransfer
  <2>6. Retries(stack) = 0
    BY <1>2, SettledHasNoTail
  <2>7. ~CloseUnderWay(seq) /\ ~seq.close_after_file_operation =>
          intent.user_close # "yes" /\ prompt = IdlePrompt
    BY <2>6 DEF IInv, UserCloseCarried, PromptAboutTransfer, Underway, AwaitsTransfer,
       CloseUnderWay
  <2>8. /\ OwnedBySession(seq', intent'.user_close, prompt', os_ending')
        /\ UserCloseCarried(seq', stack', intent'.user_close)
        /\ CaptionTrue(seq', stack', caption')
        /\ PromptAboutTransfer(seq', prompt')
    BY <1>4, <1>5, <1>7, <2>1, <2>5, <2>7
       DEF IInv, OwnedBySession, UserCloseCarried, CaptionTrue, PromptAboutTransfer
  <2>9. QED
    BY <1>1, <1>4, <1>5, <1>6, <2>1, <2>3, <2>4, <2>8 DEF IInv, TypeOK, OtherTypes, Calls
<1>9. CASE ~(\/ t.closing
             \/ r.act # "defer"
             \/ t.shell_call_depth # 0
             \/ t.drag_in_progress)
  <2> DEFINE started == save_started(t).state
             u == IF saved THEN save_succeeded(started).state
                           ELSE save_failed(started).state
  <2>1. BeginTeardown(u, stack, "end_teardown")
    BY <1>3, <1>9
  <2>2. ~CloseUnderWay(seq)
    BY <1>7, <1>9
  <2>3. ~seq.shutdown_prompt_active /\ ~seq.drag_in_progress /\ ~seq.closing
        /\ seq.shell_call_depth = 0
    BY <1>7, <1>9, <2>2 DEF CloseUnderWay
  <2>4. /\ Shells(stack) = 0 /\ Drags(stack) = 0 /\ FileCalls(stack) = 0
        /\ Prompts(stack) = 0
        /\ ~seq.file_operation_call_active /\ ~seq.file_operation_in_progress
    BY <1>1, <1>2, <2>3, ClearOfGates
  <2>5. ~seq.main_window_destroyed /\ alive.window
    BY <1>1, <2>3 DEF ClosingIsClear
  <2>6. started \in State /\ SameCalls(t, started)
    BY <1>7 DEF save_started, Stepped, State, SameCalls
  <2> HIDE DEF started
  <2>7. u \in State /\ SameCalls(started, u)
    BY <2>6 DEF save_succeeded, save_failed, Stepped, State, SameCalls
  <2> HIDE DEF u
  <2>8. /\ u.shell_call_depth = 0 /\ ~u.file_operation_call_active
        /\ ~u.file_operation_in_progress /\ ~u.shutdown_prompt_active
        /\ ~u.closing /\ ~u.main_window_destroyed
    BY <1>7, <2>3, <2>4, <2>5, <2>6, <2>7 DEF SameCalls
  <2>9. "end_teardown" \in TeardownFrames
    BY DEF TeardownFrames
  <2>10. queue' \in Seq(Messages) /\ os_ending' \in BOOLEAN
         /\ UNCHANGED <<alive, process, failures>>
    BY <1>1, <1>4
  <2>11. QED
    BY <1>1, <1>2, <1>5, <1>6, <2>1, <2>4, <2>5, <2>7, <2>8, <2>9, <2>10,
       TeardownBegunKeeps
<1>10. QED
  BY <1>8, <1>9

\* WM_ENDSESSION(FALSE).
LEMMA EndSessionCancelledKeeps == IInv /\ EndSessionCancelled => IInv'
<1> SUFFICES ASSUME IInv, EndSessionCancelled
             PROVE  IInv'
  OBVIOUS
<1> DEFINE t == end_session_cancelled(seq).state
           own == UnwindOwnClose(seq)
<1>1. /\ Calls(seq, stack, queue, alive) /\ OtherTypes /\ DeferralHeld(seq)
      /\ seq \in State /\ stack \in Seq(Frames) /\ queue \in Seq(Messages)
      /\ CountsMatch(seq, stack) /\ PromptAboveNoGate(stack)
      /\ ClosingIsClear(seq, stack, alive) /\ ContinuationQueued(seq, queue)
      /\ RetryOutsideShell(seq, stack)
  BY TypesSplit DEF IInv, Calls
<1>2. /\ seq' = t
      /\ caption' = (caption /\ ~(seq.end_session_pending /\ ~is_shutting_down(t)))
      /\ os_ending' = FALSE
      /\ intent' = [intent EXCEPT !.checkpoint = FALSE]
      /\ UNCHANGED <<stack, queue, prompt, disk, dirty, alive, process, failures>>
  BY DEF EndSessionCancelled
<1>3. /\ intent' \in [user_close : {"no", "yes", "merged"}, checkpoint : BOOLEAN]
      /\ intent'.user_close = intent.user_close
      /\ caption' \in BOOLEAN
  BY <1>1, <1>2 DEF OtherTypes
<1>4. CASE ~seq.end_session_pending \/ seq.closing
  <2>1. seq' = seq
    BY <1>2, <1>4 DEF end_session_cancelled, Stepped
  <2>2. caption' = TRUE => caption = TRUE
    BY <1>1, <1>2 DEF OtherTypes
  <2>3. /\ Calls(seq', stack', queue', alive') /\ BusyOnTop(stack')
        /\ DeferralHeld(seq')
        /\ OwnedBySession(seq', intent'.user_close, prompt', os_ending')
        /\ UserCloseCarried(seq', stack', intent'.user_close)
        /\ CaptionTrue(seq', stack', caption')
        /\ PromptAboutTransfer(seq', prompt')
    BY <1>2, <1>3, <1>4, <2>1, <2>2
       DEF IInv, OwnedBySession, UserCloseCarried, CaptionTrue, PromptAboutTransfer
  <2>4. QED
    BY <1>1, <1>2, <1>3, <2>1, <2>3 DEF IInv, TypeOK, OtherTypes, Calls
<1>5. CASE seq.end_session_pending /\ ~seq.closing
  <2>1. /\ own \in State
        /\ own.closing = seq.closing
        /\ own.quit_requested = seq.quit_requested
        /\ own.main_window_destroyed = seq.main_window_destroyed
        /\ own.shutdown_prompt_active = seq.shutdown_prompt_active
        /\ own.shell_call_depth = seq.shell_call_depth
        /\ own.drag_target_count = seq.drag_target_count
        /\ own.drag_in_progress = seq.drag_in_progress
        /\ own.file_operation_call_active = seq.file_operation_call_active
        /\ own.file_operation_in_progress = seq.file_operation_in_progress
        /\ \/ /\ seq.end_session_owns_close
              /\ ~own.shutdown_deferred /\ ~own.shutdown_message_queued
              /\ ~own.shutdown_save_attempted /\ ~own.close_after_file_operation
           \/ /\ ~seq.end_session_owns_close
              /\ own = seq
    <3>1. CASE ~seq.end_session_owns_close
      <4>1. own = seq
        BY <3>1 DEF UnwindOwnClose
      <4>2. QED
        BY <1>1, <3>1, <4>1
    <3>2. CASE seq.end_session_owns_close
      <4>1. own = [seq EXCEPT !.shutdown_deferred = FALSE,
                              !.shutdown_message_queued = FALSE,
                              !.shutdown_save_attempted = FALSE,
                              !.close_after_file_operation = FALSE]
        BY <3>2 DEF UnwindOwnClose
      <4> HIDE DEF own
      <4>2. QED
        BY <1>1, <3>2, <4>1 DEF State
    <3>3. QED
      BY <3>1, <3>2
  <2>2. t = [own EXCEPT !.end_session_pending = FALSE,
                        !.cancel_file_operation =
                            seq.cancel_file_operation_before_end_session,
                        !.end_session_owns_close = FALSE]
    BY <1>5 DEF end_session_cancelled, Stepped
  <2>3. seq.cancel_file_operation_before_end_session \in BOOLEAN
    BY <1>1 DEF State
  <2> HIDE DEF own, t
  <2>4. /\ t \in State
        /\ t.closing = own.closing
        /\ t.quit_requested = own.quit_requested
        /\ t.main_window_destroyed = own.main_window_destroyed
        /\ t.shutdown_prompt_active = own.shutdown_prompt_active
        /\ t.shutdown_save_attempted = own.shutdown_save_attempted
        /\ t.shell_call_depth = own.shell_call_depth
        /\ t.drag_target_count = own.drag_target_count
        /\ t.drag_in_progress = own.drag_in_progress
        /\ t.file_operation_call_active = own.file_operation_call_active
        /\ t.file_operation_in_progress = own.file_operation_in_progress
        /\ t.shutdown_deferred = own.shutdown_deferred
        /\ t.shutdown_message_queued = own.shutdown_message_queued
        /\ t.close_after_file_operation = own.close_after_file_operation
        /\ ~t.end_session_pending
    BY <2>1, <2>2, <2>3 DEF State
  <2>5. CountsMatch(t, stack) /\ RetryOutsideShell(t, stack)
        /\ ClosingIsClear(t, stack, alive) /\ ContinuationQueued(t, queue)
    BY <1>1, <2>1, <2>4
       DEF CountsMatch, RetryOutsideShell, ClosingIsClear, ContinuationQueued
  <2>6. Calls(seq', stack', queue', alive')
    BY <1>1, <1>2, <2>4, <2>5 DEF Calls
  <2>7. DeferralHeld(t)
    BY <1>1, <2>1, <2>4 DEF DeferralHeld
  <2>8. OwnedBySession(seq', intent'.user_close, prompt', os_ending')
    BY <1>2, <2>4 DEF OwnedBySession
  <2>9. UserCloseCarried(t, stack, intent.user_close) /\ PromptAboutTransfer(t, prompt)
    <3>1. CASE seq.end_session_owns_close
      BY <1>5, <3>1 DEF IInv, OwnedBySession, UserCloseCarried, PromptAboutTransfer
    <3>2. CASE ~seq.end_session_owns_close
      BY <2>1, <2>4, <3>2
         DEF IInv, UserCloseCarried, PromptAboutTransfer, Underway, AwaitsTransfer
    <3>3. QED
      BY <3>1, <3>2
  <2>10. CaptionTrue(t, stack, caption')
    BY <1>2, <1>5 DEF CaptionTrue, Underway, is_shutting_down
  <2>11. QED
    BY <1>1, <1>2, <1>3, <2>6, <2>7, <2>8, <2>9, <2>10 DEF IInv, TypeOK, OtherTypes, Calls
<1>6. QED
  BY <1>4, <1>5

\* Two states of the reducer differ at most in the gates and the transfer.
SameClose(s, t) ==
    /\ t.closing = s.closing
    /\ t.quit_requested = s.quit_requested
    /\ t.main_window_destroyed = s.main_window_destroyed
    /\ t.shutdown_prompt_active = s.shutdown_prompt_active
    /\ t.shutdown_save_attempted = s.shutdown_save_attempted
    /\ t.end_session_pending = s.end_session_pending
    /\ t.end_session_owns_close = s.end_session_owns_close
    /\ t.shutdown_deferred = s.shutdown_deferred
    /\ t.shutdown_message_queued = s.shutdown_message_queued
    /\ t.close_after_file_operation = s.close_after_file_operation

\* A settled stack is not the tail of a file operation.
LEMMA SettledIsNotTail ==
    ASSUME NEW st, Settled(st)
    PROVE  ~TailOnTop(st)
<1> SUFFICES ASSUME NEW c \in Seq(PumpFrames), st = Append(c, "file_op_tail")
             PROVE  FALSE
  BY DEF TailOnTop
<1>1. st \in Seq(Frames) /\ Positions(st, {"file_op_tail"}) = {} /\ c \in Seq(Frames)
  BY SettledHasNoTail DEF Settled
<1>2. "file_op_tail" \in Frames
  BY DEF Frames
<1>3. Len(c) + 1 = Len(st) /\ st[Len(c) + 1] = "file_op_tail" /\ Len(c) \in Nat
  BY <1>1, <1>2, AppendProperties, LenProperties
<1>4. Len(c) + 1 \in Positions(st, {"file_op_tail"})
  BY <1>3 DEF Positions
<1>5. QED
  BY <1>1, <1>4

\* A step that only opens or ends calls which are not the close's own.
LEMMA GateStepKeeps ==
    ASSUME IInv, Settled(stack), seq' \in State, SameClose(seq, seq'),
           seq'.file_operation_call_active = seq.file_operation_call_active,
           stack' \in Seq(Frames), BusyOnTop(stack'), PromptAboveNoGate(stack'),
           RetryOutsideShell(seq', stack'), CountsMatch(seq', stack'),
           ClosingIsClear(seq', stack', alive), DeferralHeld(seq'),
           queue' \in Seq(Messages), ContinuationQueued(seq', queue'),
           failures' \in Nat,
           UNCHANGED <<prompt, disk, dirty, alive, process, os_ending, caption, intent>>
    PROVE  IInv'
<1>1. OtherTypes
  BY TypesSplit DEF IInv
<1>2. Retries(stack) = 0 /\ ~TailOnTop(stack)
  BY SettledHasNoTail, SettledIsNotTail
<1>3. Calls(seq', stack', queue', alive')
  BY DEF Calls
<1>4. /\ Underway(seq, stack) => Underway(seq', stack')
      /\ AwaitsTransfer(seq) => AwaitsTransfer(seq')
  BY <1>2 DEF Underway, AwaitsTransfer, SameClose
<1>5. /\ OwnedBySession(seq', intent'.user_close, prompt', os_ending')
      /\ UserCloseCarried(seq', stack', intent'.user_close)
      /\ CaptionTrue(seq', stack', caption')
      /\ PromptAboutTransfer(seq', prompt')
  BY <1>2, <1>4
     DEF IInv, OwnedBySession, UserCloseCarried, CaptionTrue, PromptAboutTransfer, SameClose
<1>6. QED
  BY <1>1, <1>3, <1>5 DEF IInv, TypeOK, OtherTypes, Calls

\* Pushing a call that pumps, the save prompt apart.
LEMMA PushShape ==
    ASSUME NEW st, Settled(st), PromptAboveNoGate(st),
           NEW f \in PumpFrames, f # "save_prompt"
    PROVE  /\ Append(st, f) \in Seq(Frames)
           /\ BusyOnTop(Append(st, f))
           /\ PromptAboveNoGate(Append(st, f))
           /\ Retries(Append(st, f)) = 0
<1>1. Settled(Append(st, f))
  BY SettledPush
<1>2. st \in Seq(Frames) /\ f \in Frames
  BY SettledHasNoTail DEF Frames
<1>3. QED
  BY <1>1, <1>2, SettledHasNoTail, PromptPush DEF BusyOnTop

\* What is below a call that returns.
LEMMA PopShape ==
    ASSUME IInv, NEW fs, fs \subseteq PumpFrames \cup {"file_op_tail"}, TopIs(fs)
    PROVE  \E f \in fs :
             /\ Pop \in Seq(Frames)
             /\ stack = Append(Pop, f)
             /\ stack # <<>> /\ stack[Len(stack)] = f
             /\ Settled(Pop)
             /\ PromptAboveNoGate(Pop)
             /\ Retries(Pop) = 0 /\ Retries(stack) = 0
             /\ f \in PumpFrames => Settled(stack)
<1> DEFINE f == stack[Len(stack)]
<1>1. stack \in Seq(Frames) /\ BusyOnTop(stack) /\ PromptAboveNoGate(stack)
  BY DEF IInv, Calls
<1>2. stack # <<>> /\ f \in fs
  BY DEF TopIs
<1>3. Pop \in Seq(Frames) /\ f \in Frames /\ stack = Append(Pop, f)
  BY <1>1, <1>2, PopThenPush DEF Pop
<1>10. stack[Len(stack)] = f
  OBVIOUS
<1>4. f # "request_close"
  BY <1>2 DEF PumpFrames, ShellFrames, FileOpFrames, TeardownFrames
<1> HIDE DEF f
<1>5. Settled(Pop) /\ PromptAboveNoGate(Pop)
  BY <1>1, <1>3, <1>4, BusyPop, PromptPush
<1>6. f \in PumpFrames => Settled(stack)
  BY <1>3, <1>5, SettledPush
<1>7. Retries(stack) = Retries(Pop) + One(f = "request_close")
  BY <1>3, KindsPushed
<1>8. Retries(Pop) = 0 /\ Retries(stack) = 0
  BY <1>4, <1>5, <1>7, SettledHasNoTail DEF One
<1>9. QED
  BY <1>2, <1>3, <1>5, <1>6, <1>8, <1>10

\* The facts about the present that every action starts from.
LEMMA Present ==
    ASSUME IInv
    PROVE  /\ Calls(seq, stack, queue, alive) /\ OtherTypes /\ DeferralHeld(seq)
           /\ seq \in State /\ stack \in Seq(Frames) /\ queue \in Seq(Messages)
           /\ CountsMatch(seq, stack) /\ PromptAboveNoGate(stack)
           /\ ClosingIsClear(seq, stack, alive) /\ ContinuationQueued(seq, queue)
           /\ RetryOutsideShell(seq, stack) /\ BusyOnTop(stack)
           /\ Pumping => Settled(stack) /\ Retries(stack) = 0
           /\ Shells(stack) \in Nat /\ Drags(stack) \in Nat /\ FileCalls(stack) \in Nat
           /\ Transfers(stack) \in Nat /\ Prompts(stack) \in Nat
           /\ Teardowns(stack) \in Nat /\ seq.drag_target_count \in Nat
<1>1. Calls(seq, stack, queue, alive) /\ OtherTypes /\ DeferralHeld(seq) /\ BusyOnTop(stack)
  BY TypesSplit DEF IInv
<1>2. stack \in Seq(Frames) /\ seq \in State
  BY <1>1 DEF Calls
<1>3. Pumping => Settled(stack) /\ Retries(stack) = 0
  BY <1>1, <1>2, PumpingSettled, SettledHasNoTail
<1>4. QED
  BY <1>1, <1>2, <1>3, KindsCounted DEF Calls, State

\* The gates' own steps in the reducer.
LEMMA ShellEntered ==
    ASSUME NEW s \in State
    PROVE  LET t == shell_call_entered(s).state IN
           /\ t \in State /\ SameClose(s, t)
           /\ t.shell_call_depth = s.shell_call_depth + 1
           /\ t.drag_target_count = s.drag_target_count
           /\ t.drag_in_progress = s.drag_in_progress
           /\ t.file_operation_call_active = s.file_operation_call_active
           /\ t.file_operation_in_progress = s.file_operation_in_progress
BY DEF shell_call_entered, Stepped, State, SameClose

\* A drag that starts.
LEMMA DragStarted ==
    ASSUME NEW s \in State
    PROVE  LET t == drag_started(s).state IN
           /\ t \in State /\ SameClose(s, t)
           /\ t.shell_call_depth = s.shell_call_depth
           /\ t.drag_target_count = s.drag_target_count + 1
           /\ t.drag_in_progress
           /\ t.file_operation_call_active = s.file_operation_call_active
           /\ t.file_operation_in_progress = s.file_operation_in_progress
<1> DEFINE n == s.drag_target_count + 1
           t == [s EXCEPT !.drag_target_count = n, !.drag_in_progress = TRUE]
<1>1. n \in Nat
  BY DEF State
<1>2. drag_started(s).state = t
  BY DEF drag_started, Stepped, State
<1> HIDE DEF n
<1>3. /\ t \in State /\ SameClose(s, t)
      /\ t.shell_call_depth = s.shell_call_depth
      /\ t.drag_target_count = n /\ t.drag_in_progress
      /\ t.file_operation_call_active = s.file_operation_call_active
      /\ t.file_operation_in_progress = s.file_operation_in_progress
  BY <1>1 DEF State, SameClose
<1> HIDE DEF t
<1>4. QED
  BY <1>2, <1>3 DEF n

\* A drag that ends: the last one re-arms a deferral.
LEMMA DragFinished ==
    ASSUME NEW s \in State, s.drag_target_count # 0
    PROVE  LET r == drag_finished(s)
               t == r.state
           IN
           /\ t \in State /\ SameClose(s, t)
           /\ t.shell_call_depth = s.shell_call_depth
           /\ t.drag_target_count = s.drag_target_count - 1
           /\ t.drag_in_progress <=> t.drag_target_count # 0
           /\ t.file_operation_call_active = s.file_operation_call_active
           /\ t.file_operation_in_progress = s.file_operation_in_progress
           /\ r.act = "defer" <=> shutdown_ready_to_resume(t)
<1> DEFINE n == s.drag_target_count - 1
           i == n # 0
           t == [s EXCEPT !.drag_target_count = n, !.drag_in_progress = i]
<1>1. s.drag_target_count \in Nat /\ n \in Nat /\ i \in BOOLEAN
  BY DEF State
<1>2. drag_finished(s) = [state |-> t, act |-> IF shutdown_ready_to_resume(t)
                                               THEN "defer" ELSE "none"]
  BY DEF drag_finished, Resume, Stepped, State
<1>3. i <=> n # 0
  OBVIOUS
<1> HIDE DEF i
<1> HIDE DEF n
<1>4. /\ t \in State /\ SameClose(s, t)
      /\ t.shell_call_depth = s.shell_call_depth
      /\ t.drag_target_count = n /\ t.drag_in_progress = i
      /\ t.file_operation_call_active = s.file_operation_call_active
      /\ t.file_operation_in_progress = s.file_operation_in_progress
  BY <1>1 DEF State, SameClose
<1> HIDE DEF t
<1>5. t.drag_in_progress <=> t.drag_target_count # 0
  BY <1>3, <1>4
<1>6. /\ drag_finished(s).state = t
      /\ drag_finished(s).act = "defer" <=> shutdown_ready_to_resume(t)
  BY <1>2
<1>7. t.drag_target_count = s.drag_target_count - 1
  BY <1>4 DEF n
<1>8. QED
  BY <1>4, <1>5, <1>6, <1>7

\* A Shell call that returns: the outermost one re-arms a deferral.
LEMMA ShellLeft ==
    ASSUME NEW s \in State, s.shell_call_depth # 0
    PROVE  LET r == shell_call_left(s)
               t == r.state
           IN
           /\ t \in State /\ SameClose(s, t)
           /\ t.shell_call_depth = s.shell_call_depth - 1
           /\ t.drag_target_count = s.drag_target_count
           /\ t.drag_in_progress = s.drag_in_progress
           /\ t.file_operation_call_active = s.file_operation_call_active
           /\ t.file_operation_in_progress = s.file_operation_in_progress
           /\ r.act = "defer" <=> shutdown_ready_to_resume(t)
<1> DEFINE n == s.shell_call_depth - 1
           t == [s EXCEPT !.shell_call_depth = n]
<1>1. n \in Nat
  BY DEF State
<1>2. shell_call_left(s) = [state |-> t, act |-> IF shutdown_ready_to_resume(t)
                                                 THEN "defer" ELSE "none"]
  BY DEF shell_call_left, Resume, Stepped, State
<1> HIDE DEF n
<1>3. /\ t \in State /\ SameClose(s, t)
      /\ t.shell_call_depth = n
      /\ t.drag_target_count = s.drag_target_count
      /\ t.drag_in_progress = s.drag_in_progress
      /\ t.file_operation_call_active = s.file_operation_call_active
      /\ t.file_operation_in_progress = s.file_operation_in_progress
  BY <1>1 DEF State, SameClose
<1> HIDE DEF t
<1>4. QED
  BY <1>2, <1>3 DEF n

\* Entering a Shell call.
LEMMA EnterShellKeeps == IInv /\ EnterShell => IInv'
<1> SUFFICES ASSUME IInv, EnterShell
             PROVE  IInv'
  OBVIOUS
<1>1. /\ Pumping /\ ~seq.closing /\ ~seq.shutdown_deferred
      /\ seq' = shell_call_entered(seq).state
      /\ stack' = Append(stack, "shell")
      /\ UNCHANGED <<queue, prompt, disk, dirty, alive, process, os_ending,
                     caption, intent, failures>>
  BY DEF EnterShell, Push, is_shutting_down
<1>2. /\ seq' \in State /\ SameClose(seq, seq')
      /\ seq'.shell_call_depth = seq.shell_call_depth + 1
      /\ seq'.drag_target_count = seq.drag_target_count
      /\ seq'.drag_in_progress = seq.drag_in_progress
      /\ seq'.file_operation_call_active = seq.file_operation_call_active
      /\ seq'.file_operation_in_progress = seq.file_operation_in_progress
  BY <1>1, Present, ShellEntered
<1>3. Pushed(stack, stack', 1, 0, 0, 0, 0, 0, 0)
  BY <1>1, Present, FramePushes
<1>4. /\ stack' \in Seq(Frames) /\ BusyOnTop(stack') /\ PromptAboveNoGate(stack')
      /\ Retries(stack') = 0
  <2>1. "shell" \in PumpFrames
    BY DEF PumpFrames, ShellFrames
  <2>2. QED
    BY <1>1, <2>1, Present, PushShape
<1>5. CountsMatch(seq', stack')
  BY <1>2, <1>3, Present DEF CountsMatch, Pushed, SameClose
<1>6. RetryOutsideShell(seq', stack') /\ ClosingIsClear(seq', stack', alive)
      /\ DeferralHeld(seq') /\ ContinuationQueued(seq', queue')
  BY <1>1, <1>2, <1>3, <1>4, Present
     DEF RetryOutsideShell, ClosingIsClear, DeferralHeld, ContinuationQueued, SameClose,
         Pushed
<1>7. QED
  BY <1>1, <1>2, <1>4, <1>5, <1>6, Present, GateStepKeeps DEF OtherTypes

\* Entering a modal loop.
LEMMA EnterModalKeeps == IInv /\ EnterModal => IInv'
<1> SUFFICES ASSUME IInv, EnterModal
             PROVE  IInv'
  OBVIOUS
<1>1. /\ Pumping
      /\ stack' = Append(stack, "modal")
      /\ UNCHANGED <<seq, queue, prompt, disk, dirty, alive, process, os_ending,
                     caption, intent, failures>>
  BY DEF EnterModal, Push
<1>2. Pushed(stack, stack', 0, 0, 0, 0, 0, 0, 0)
  BY <1>1, Present, FramePushes
<1>3. /\ stack' \in Seq(Frames) /\ BusyOnTop(stack') /\ PromptAboveNoGate(stack')
      /\ Retries(stack') = 0
  <2>1. "modal" \in PumpFrames
    BY DEF PumpFrames
  <2>2. QED
    BY <1>1, <2>1, Present, PushShape
<1>4. CountsMatch(seq', stack') /\ SameClose(seq, seq')
  BY <1>1, <1>2, Present DEF CountsMatch, Pushed, SameClose
<1>5. RetryOutsideShell(seq', stack') /\ ClosingIsClear(seq', stack', alive)
  BY <1>1, <1>2, <1>3, Present DEF RetryOutsideShell, ClosingIsClear, Pushed
<1>6. QED
  BY <1>1, <1>3, <1>4, <1>5, Present, GateStepKeeps DEF OtherTypes

\* Leaving one.
LEMMA LeaveModalKeeps == IInv /\ LeaveModal => IInv'
<1> SUFFICES ASSUME IInv, LeaveModal
             PROVE  IInv'
  OBVIOUS
<1>1. /\ TopIs({"modal"}) /\ stack' = Pop
      /\ UNCHANGED <<seq, queue, prompt, disk, dirty, alive, process, os_ending,
                     caption, intent, failures>>
  BY DEF LeaveModal
<1>2. /\ Pop \in Seq(Frames) /\ stack = Append(Pop, "modal") /\ Settled(Pop)
      /\ PromptAboveNoGate(Pop) /\ Retries(Pop) = 0 /\ Settled(stack)
  <2>1. {"modal"} \subseteq PumpFrames
    BY DEF PumpFrames
  <2>2. QED
    BY <1>1, <2>1, PopShape
<1>3. Pushed(Pop, stack, 0, 0, 0, 0, 0, 0, 0)
  BY <1>2, FramePushes
<1>4. /\ Shells(Pop) = Shells(stack) /\ Drags(Pop) = Drags(stack)
      /\ FileCalls(Pop) = FileCalls(stack) /\ Transfers(Pop) = Transfers(stack)
      /\ Prompts(Pop) = Prompts(stack) /\ Teardowns(Pop) = Teardowns(stack)
  BY <1>2, <1>3, KindsCounted DEF Pushed
<1>5. CountsMatch(seq', stack') /\ SameClose(seq, seq') /\ BusyOnTop(stack')
  BY <1>1, <1>2, <1>4, Present DEF CountsMatch, SameClose, BusyOnTop
<1>6. RetryOutsideShell(seq', stack') /\ ClosingIsClear(seq', stack', alive)
  BY <1>1, <1>2, <1>4, Present DEF RetryOutsideShell, ClosingIsClear
<1>7. QED
  BY <1>1, <1>2, <1>5, <1>6, Present, GateStepKeeps DEF OtherTypes

\* A list target's DragLeave enters its Shell provider.
LEMMA ListDragLeaveKeeps == IInv /\ ListDragLeave => IInv'
<1> SUFFICES ASSUME IInv, ListDragLeave
             PROVE  IInv'
  OBVIOUS
<1>1. /\ Pumping
      /\ LiveTargets > 0
      /\ seq' = shell_call_entered(seq).state
      /\ stack' = Append(stack, "drag_leave")
      /\ UNCHANGED <<queue, prompt, disk, dirty, alive, process, os_ending,
                     caption, intent, failures>>
  BY DEF ListDragLeave, Push
<1>2. seq.drag_target_count >= Drags(stack) + 1 /\ seq.drag_target_count # 0
  <2>1. seq.drag_target_count - Drags(stack) > 0
    BY <1>1 DEF LiveTargets, Drags, Count
  <2>2. QED
    BY <2>1, Present
<1>3. ~seq.closing
  BY <1>2, Present DEF ClosingIsClear
<1>4. /\ seq' \in State /\ SameClose(seq, seq')
      /\ seq'.shell_call_depth = seq.shell_call_depth + 1
      /\ seq'.drag_target_count = seq.drag_target_count
      /\ seq'.drag_in_progress = seq.drag_in_progress
      /\ seq'.file_operation_call_active = seq.file_operation_call_active
      /\ seq'.file_operation_in_progress = seq.file_operation_in_progress
  BY <1>1, Present, ShellEntered
<1>5. Pushed(stack, stack', 1, 1, 0, 0, 0, 0, 0)
  BY <1>1, Present, FramePushes
<1>6. /\ stack' \in Seq(Frames) /\ BusyOnTop(stack') /\ PromptAboveNoGate(stack')
      /\ Retries(stack') = 0
  <2>1. "drag_leave" \in PumpFrames
    BY DEF PumpFrames, ShellFrames
  <2>2. QED
    BY <1>1, <2>1, Present, PushShape
<1>7. CountsMatch(seq', stack')
  BY <1>2, <1>4, <1>5, Present DEF CountsMatch, Pushed, SameClose
<1>8. RetryOutsideShell(seq', stack') /\ ClosingIsClear(seq', stack', alive)
      /\ DeferralHeld(seq') /\ ContinuationQueued(seq', queue')
  BY <1>1, <1>2, <1>3, <1>4, <1>5, <1>6, Present
     DEF RetryOutsideShell, ClosingIsClear, DeferralHeld, ContinuationQueued, SameClose,
         Pushed
<1>9. QED
  BY <1>1, <1>4, <1>6, <1>7, <1>8, Present, GateStepKeeps DEF OtherTypes

\* PaneDock starts a drag of its own.
LEMMA BeginListDragKeeps == IInv /\ BeginListDrag => IInv'
<1> SUFFICES ASSUME IInv, BeginListDrag
             PROVE  IInv'
  OBVIOUS
<1>1. /\ Pumping /\ ~seq.closing /\ ~seq.shutdown_deferred
      /\ seq' = drag_started(seq).state
      /\ stack' = Append(stack, "drag")
      /\ UNCHANGED <<queue, prompt, disk, dirty, alive, process, os_ending,
                     caption, intent, failures>>
  BY DEF BeginListDrag, Push, is_shutting_down
<1>2. /\ seq' \in State /\ SameClose(seq, seq')
      /\ seq'.shell_call_depth = seq.shell_call_depth
      /\ seq'.drag_target_count = seq.drag_target_count + 1
      /\ seq'.drag_in_progress
      /\ seq'.file_operation_call_active = seq.file_operation_call_active
      /\ seq'.file_operation_in_progress = seq.file_operation_in_progress
  BY <1>1, Present, DragStarted
<1>3. Pushed(stack, stack', 0, 1, 0, 0, 0, 0, 0)
  BY <1>1, Present, FramePushes
<1>4. /\ stack' \in Seq(Frames) /\ BusyOnTop(stack') /\ PromptAboveNoGate(stack')
      /\ Retries(stack') = 0
  <2>1. "drag" \in PumpFrames
    BY DEF PumpFrames
  <2>2. QED
    BY <1>1, <2>1, Present, PushShape
<1>5. CountsMatch(seq', stack')
  BY <1>2, <1>3, Present DEF CountsMatch, Pushed, SameClose
<1>6. RetryOutsideShell(seq', stack') /\ ClosingIsClear(seq', stack', alive)
      /\ DeferralHeld(seq') /\ ContinuationQueued(seq', queue')
  BY <1>1, <1>2, <1>3, <1>4, Present
     DEF RetryOutsideShell, ClosingIsClear, DeferralHeld, ContinuationQueued, SameClose,
         Pushed
<1>7. QED
  BY <1>1, <1>2, <1>4, <1>5, <1>6, Present, GateStepKeeps DEF OtherTypes

\* A drag enters a drop target.
LEMMA DragEnterKeeps == IInv /\ DragEnter => IInv'
<1> SUFFICES ASSUME IInv, DragEnter
             PROVE  IInv'
  OBVIOUS
<1>1. /\ Pumping /\ ~seq.closing
      /\ seq' = drag_started(seq).state
      /\ UNCHANGED <<stack, queue, prompt, disk, dirty, alive, process, os_ending,
                     caption, intent, failures>>
  BY DEF DragEnter
<1>2. /\ seq' \in State /\ SameClose(seq, seq')
      /\ seq'.shell_call_depth = seq.shell_call_depth
      /\ seq'.drag_target_count = seq.drag_target_count + 1
      /\ seq'.drag_in_progress
      /\ seq'.file_operation_call_active = seq.file_operation_call_active
      /\ seq'.file_operation_in_progress = seq.file_operation_in_progress
  BY <1>1, Present, DragStarted
<1>3. CountsMatch(seq', stack)
  BY <1>2, Present DEF CountsMatch, SameClose
<1>4. RetryOutsideShell(seq', stack) /\ ClosingIsClear(seq', stack, alive)
      /\ DeferralHeld(seq') /\ ContinuationQueued(seq', queue)
  BY <1>1, <1>2, Present
     DEF RetryOutsideShell, ClosingIsClear, DeferralHeld, ContinuationQueued, SameClose
<1>5. QED
  BY <1>1, <1>2, <1>3, <1>4, Present, GateStepKeeps DEF OtherTypes

\* A call that held a gate returns: its deferral resumes, or nothing is owed.
LEMMA ResumeKeeps ==
    ASSUME IInv, NEW t \in State, NEW base, SameClose(seq, t),
           t.file_operation_call_active = seq.file_operation_call_active,
           Retries(stack) = 0, ~TailOnTop(stack),
           Calls(t, base, queue, alive), Settled(base) \/ TailOnTop(base),
           \/ /\ shutdown_ready_to_resume(t)
              /\ \/ RunDefer(t, base, queue)
                 \/ QueueContinuation(t, base, queue) /\ caption' = caption
           \/ /\ ~shutdown_ready_to_resume(t)
              /\ seq' = t /\ stack' = base /\ NoPost(queue) /\ caption' = caption,
           UNCHANGED <<prompt, disk, dirty, alive, process, os_ending, intent>>
    PROVE  IInv'
<1>0. prompt' = prompt /\ os_ending' = os_ending /\ intent' = intent
  OBVIOUS
<1>1. /\ Calls(seq', stack', queue', alive)
      /\ BusyOnTop(stack')
      /\ DeferralHeld(seq')
      /\ failures' \in Nat
      /\ caption' \in BOOLEAN
      /\ Agree(t, seq')
      /\ Underway(t, base) => Underway(seq', stack')
      /\ Underway(seq', stack') \/ caption' = caption
  <2>1. CASE shutdown_ready_to_resume(t)
    <3>1. t.shutdown_deferred /\ ~t.shutdown_message_queued /\ t.shell_call_depth = 0
      BY <2>1 DEF shutdown_ready_to_resume
    <3>2. failures \in Nat /\ caption \in BOOLEAN
      BY Present DEF OtherTypes
    <3>3. Resumable /\ Agree(t, seq') /\ caption' \in {TRUE, caption}
      BY <2>1, <3>1, <3>2, RunDeferResumes, QueueContinuationResumes
    <3>4. QED
      BY <3>2, <3>3 DEF Resumable
  <2>2. CASE ~shutdown_ready_to_resume(t)
    <3>1. seq' = t /\ stack' = base /\ queue' = queue /\ failures' = failures
          /\ caption' = caption
      BY <2>2 DEF NoPost
    <3>2. failures \in Nat /\ caption \in BOOLEAN
      BY Present DEF OtherTypes
    <3>3. DeferralHeld(t)
      BY <2>2 DEF shutdown_ready_to_resume, DeferralHeld, Calls, ClosingIsClear
    <3>4. Agree(t, t) /\ BusyOnTop(base)
      BY DEF Agree, AgreeOnGates, BusyOnTop
    <3>5. QED
      BY <3>1, <3>2, <3>3, <3>4
  <2>3. QED
    BY <2>1, <2>2
<1>2. /\ Underway(seq, stack) => Underway(t, base)
      /\ AwaitsTransfer(seq) => AwaitsTransfer(seq')
      /\ seq'.closing = seq.closing
      /\ seq'.end_session_pending = seq.end_session_pending
      /\ seq'.end_session_owns_close = seq.end_session_owns_close
  BY <1>1 DEF Underway, AwaitsTransfer, SameClose, Agree, AgreeOnGates
<1>3. /\ OwnedBySession(seq', intent'.user_close, prompt', os_ending')
      /\ UserCloseCarried(seq', stack', intent'.user_close)
      /\ PromptAboutTransfer(seq', prompt')
  BY <1>0, <1>1, <1>2
     DEF IInv, OwnedBySession, UserCloseCarried, PromptAboutTransfer
<1>4. CaptionTrue(seq', stack', caption')
  BY <1>1, <1>2 DEF IInv, CaptionTrue
<1>5. QED
  BY <1>1, <1>3, <1>4, Present DEF IInv, TypeOK, OtherTypes, Calls

\* A drag leaves a hover target.
LEMMA HoverDragLeaveKeeps == IInv /\ HoverDragLeave => IInv'
<1> SUFFICES ASSUME IInv, HoverDragLeave
             PROVE  IInv'
  OBVIOUS
<1> DEFINE r == drag_finished(seq)
           t == r.state
<1>1. /\ Pumping /\ LiveTargets > 0
      /\ \/ r.act = "defer" /\ RunDefer(t, stack, queue)
         \/ /\ r.act # "defer"
            /\ seq' = t /\ stack' = stack /\ NoPost(queue) /\ caption' = caption
      /\ UNCHANGED <<prompt, disk, dirty, alive, process, os_ending, intent>>
  BY DEF HoverDragLeave
<1>2. seq.drag_target_count >= Drags(stack) + 1 /\ seq.drag_target_count # 0
  <2>1. seq.drag_target_count - Drags(stack) > 0
    BY <1>1 DEF LiveTargets, Drags, Count
  <2>2. QED
    BY <2>1, Present
<1>3. ~seq.closing
  BY <1>2, Present DEF ClosingIsClear
<1>4. /\ t \in State /\ SameClose(seq, t)
      /\ t.shell_call_depth = seq.shell_call_depth
      /\ t.drag_target_count = seq.drag_target_count - 1
      /\ t.drag_in_progress <=> t.drag_target_count # 0
      /\ t.file_operation_call_active = seq.file_operation_call_active
      /\ t.file_operation_in_progress = seq.file_operation_in_progress
      /\ r.act = "defer" <=> shutdown_ready_to_resume(t)
  BY <1>2, Present, DragFinished
<1> HIDE DEF r, t
<1>5. CountsMatch(t, stack)
  BY <1>2, <1>4, Present DEF CountsMatch, SameClose
<1>6. RetryOutsideShell(t, stack) /\ ClosingIsClear(t, stack, alive)
      /\ ContinuationQueued(t, queue)
  BY <1>3, <1>4, Present
     DEF RetryOutsideShell, ClosingIsClear, ContinuationQueued, SameClose
<1>7. Calls(t, stack, queue, alive)
  BY <1>4, <1>5, <1>6, Present DEF Calls
<1>8. Settled(stack) /\ Retries(stack) = 0 /\ ~TailOnTop(stack)
  BY <1>1, Present, SettledIsNotTail
<1>9. QED
  BY <1>1, <1>4, <1>7, <1>8, ResumeKeeps

\* DoDragDrop returns.
LEMMA ListDragEndsKeeps == IInv /\ ListDragEnds => IInv'
<1> SUFFICES ASSUME IInv, ListDragEnds
             PROVE  IInv'
  OBVIOUS
<1> DEFINE r == drag_finished(seq)
           t == r.state
<1>1. /\ TopIs({"drag"})
      /\ \/ r.act = "defer" /\ RunDefer(t, Pop, queue)
         \/ /\ r.act # "defer"
            /\ seq' = t /\ stack' = Pop /\ NoPost(queue) /\ caption' = caption
      /\ UNCHANGED <<prompt, disk, dirty, alive, process, os_ending, intent>>
  BY DEF ListDragEnds
<1>2. /\ Pop \in Seq(Frames) /\ stack = Append(Pop, "drag") /\ Settled(Pop)
      /\ PromptAboveNoGate(Pop) /\ Retries(Pop) = 0 /\ Retries(stack) = 0
      /\ Settled(stack)
  <2>1. "drag" \in PumpFrames
    BY DEF PumpFrames
  <2>2. QED
    BY <1>1, <2>1, PopShape
<1>3. Pushed(Pop, stack, 0, 1, 0, 0, 0, 0, 0)
  BY <1>2, FramePushes
<1>4. /\ Shells(Pop) = Shells(stack) /\ Drags(stack) = Drags(Pop) + 1
      /\ FileCalls(Pop) = FileCalls(stack) /\ Transfers(Pop) = Transfers(stack)
      /\ Prompts(Pop) = Prompts(stack) /\ Teardowns(Pop) = Teardowns(stack)
      /\ Drags(Pop) \in Nat
  BY <1>2, <1>3, KindsCounted DEF Pushed
<1>5. seq.drag_target_count # 0 /\ seq.drag_target_count - 1 >= Drags(Pop)
  BY <1>4, Present DEF CountsMatch
<1>6. ~seq.closing
  BY <1>5, Present DEF ClosingIsClear
<1>7. /\ t \in State /\ SameClose(seq, t)
      /\ t.shell_call_depth = seq.shell_call_depth
      /\ t.drag_target_count = seq.drag_target_count - 1
      /\ t.drag_in_progress <=> t.drag_target_count # 0
      /\ t.file_operation_call_active = seq.file_operation_call_active
      /\ t.file_operation_in_progress = seq.file_operation_in_progress
      /\ r.act = "defer" <=> shutdown_ready_to_resume(t)
  BY <1>5, Present, DragFinished
<1> HIDE DEF r, t
<1>8. CountsMatch(t, Pop)
  BY <1>4, <1>5, <1>7, Present DEF CountsMatch, SameClose
<1>9. RetryOutsideShell(t, Pop) /\ ClosingIsClear(t, Pop, alive)
      /\ ContinuationQueued(t, queue)
  BY <1>2, <1>4, <1>6, <1>7, Present
     DEF RetryOutsideShell, ClosingIsClear, ContinuationQueued, SameClose
<1>10. Calls(t, Pop, queue, alive)
  BY <1>2, <1>7, <1>8, <1>9, Present DEF Calls
<1>11. ~TailOnTop(stack)
  BY <1>2, SettledIsNotTail
<1>12. QED
  BY <1>1, <1>2, <1>7, <1>10, <1>11, ResumeKeeps

\* ShellReentryGuard::leave, whatever the Shell call was for.
LEMMA LeaveShellKeeps == IInv /\ LeaveShell => IInv'
<1> SUFFICES ASSUME IInv, LeaveShell
             PROVE  IInv'
  OBVIOUS
<1> DEFINE before == IF TopIs({"drag_leave"}) THEN drag_finished(seq).state ELSE seq
           base == IF TopIs(FileOpFrames) THEN Append(Pop, "file_op_tail") ELSE Pop
           r == shell_call_left(before)
           t == r.state
           fs == ShellFrames \ {"file_op_live"}
<1>1. /\ TopIs(fs)
      /\ \/ r.act = "defer" /\ QueueContinuation(t, base, queue)
         \/ r.act # "defer" /\ seq' = t /\ stack' = base /\ NoPost(queue)
      /\ UNCHANGED <<prompt, disk, dirty, alive, process, os_ending, caption, intent>>
  BY DEF LeaveShell, Push
<1>2. PICK f \in fs :
         /\ Pop \in Seq(Frames) /\ stack = Append(Pop, f) /\ Settled(Pop)
         /\ stack # <<>> /\ stack[Len(stack)] = f
         /\ PromptAboveNoGate(Pop) /\ Retries(Pop) = 0 /\ Retries(stack) = 0
         /\ Settled(stack)
  <2>1. fs \subseteq PumpFrames
    BY DEF PumpFrames
  <2>2. QED
    BY <1>1, <2>1, PopShape
<1>3. /\ TopIs({"drag_leave"}) <=> f = "drag_leave"
      /\ TopIs(FileOpFrames) <=> f \in FileOpFrames
      /\ f = "drag_leave" => f \notin FileOpFrames
  BY <1>2 DEF TopIs, FileOpFrames
<1>4. Pushed(Pop, stack, 1, One(f = "drag_leave"), One(f \in FileOpFrames), 0, 0, 0, 0)
  <2>1. f \in {"shell", "drag_leave", "file_op", "file_op_over"}
    BY DEF ShellFrames, FileOpFrames
  <2>2. /\ One(TRUE) = 1 /\ One(FALSE) = 0
    BY DEF One
  <2>3. CASE f = "shell"
    BY <1>2, <2>3, FramePushes DEF One, FileOpFrames
  <2>4. CASE f = "drag_leave"
    BY <1>2, <2>4, FramePushes DEF One, FileOpFrames
  <2>5. CASE f = "file_op"
    BY <1>2, <2>5, FramePushes DEF One, FileOpFrames
  <2>6. CASE f = "file_op_over"
    BY <1>2, <2>6, FramePushes DEF One, FileOpFrames
  <2>7. QED
    BY <2>1, <2>3, <2>4, <2>5, <2>6
<1>5. /\ Shells(stack) = Shells(Pop) + 1
      /\ Drags(stack) = Drags(Pop) + One(f = "drag_leave")
      /\ FileCalls(stack) = FileCalls(Pop) + One(f \in FileOpFrames)
      /\ Transfers(stack) = Transfers(Pop) /\ Prompts(stack) = Prompts(Pop)
      /\ Teardowns(stack) = Teardowns(Pop)
      /\ Shells(Pop) \in Nat /\ Drags(Pop) \in Nat
  BY <1>2, <1>4, KindsCounted DEF Pushed
<1>6. /\ base \in Seq(Frames) /\ (Settled(base) \/ TailOnTop(base))
      /\ PromptAboveNoGate(base) /\ Retries(base) = 0
      /\ Shells(base) = Shells(Pop) /\ Drags(base) = Drags(Pop)
      /\ FileCalls(base) = FileCalls(stack)
      /\ Transfers(base) = Transfers(stack) /\ Prompts(base) = Prompts(stack)
      /\ Teardowns(base) = Teardowns(stack)
  <2>1. CASE f \in FileOpFrames
    <3>1. base = Append(Pop, "file_op_tail") /\ "file_op_tail" \in Frames
      BY <1>3, <2>1 DEF Frames
    <3>2. Pushed(Pop, base, 0, 0, 1, 0, 0, 0, 0)
      BY <1>2, <3>1, FramePushes
    <3>3. PromptAboveNoGate(base) /\ TailOnTop(base)
      BY <1>2, <3>1, PromptPush DEF TailOnTop, Settled
    <3> HIDE DEF base
    <3>4. QED
      BY <1>2, <1>5, <2>1, <3>2, <3>3, KindsCounted DEF Pushed, One
  <2>2. CASE f \notin FileOpFrames
    <3>1. base = Pop
      BY <1>3, <2>2
    <3> HIDE DEF base
    <3>2. QED
      BY <1>2, <1>5, <2>2, <3>1, KindsCounted DEF One
  <2>3. QED
    BY <2>1, <2>2
<1>7. seq.shell_call_depth # 0 /\ ~seq.closing
  BY <1>5, Present DEF CountsMatch, ClosingIsClear
<1>8. /\ before \in State /\ SameClose(seq, before)
      /\ before.shell_call_depth = seq.shell_call_depth
      /\ before.drag_target_count = seq.drag_target_count - One(f = "drag_leave")
      /\ before.drag_in_progress <=> before.drag_target_count # 0
      /\ before.file_operation_call_active = seq.file_operation_call_active
      /\ before.file_operation_in_progress = seq.file_operation_in_progress
  <2>1. CASE f = "drag_leave"
    <3>1. before = drag_finished(seq).state /\ One(f = "drag_leave") = 1
      BY <1>3, <2>1 DEF One
    <3>2. seq.drag_target_count # 0
      BY <1>5, <3>1, Present DEF CountsMatch
    <3> HIDE DEF before
    <3>3. QED
      BY <3>1, <3>2, Present, DragFinished
  <2>2. CASE f # "drag_leave"
    <3>1. before = seq /\ One(f = "drag_leave") = 0
      BY <1>3, <2>2 DEF One
    <3>2. seq.drag_in_progress <=> seq.drag_target_count # 0
      BY Present DEF CountsMatch
    <3> HIDE DEF before
    <3>3. QED
      BY <3>1, <3>2, Present DEF SameClose
  <2>3. QED
    BY <2>1, <2>2
<1> HIDE DEF before, base, fs
<1>9. /\ t \in State /\ SameClose(before, t)
      /\ t.shell_call_depth = before.shell_call_depth - 1
      /\ t.drag_target_count = before.drag_target_count
      /\ t.drag_in_progress = before.drag_in_progress
      /\ t.file_operation_call_active = before.file_operation_call_active
      /\ t.file_operation_in_progress = before.file_operation_in_progress
      /\ r.act = "defer" <=> shutdown_ready_to_resume(t)
  BY <1>7, <1>8, ShellLeft
<1> HIDE DEF r, t
<1>10. SameClose(seq, t)
  BY <1>8, <1>9 DEF SameClose
<1>11. CountsMatch(t, base)
  <2>1. t.shell_call_depth = Shells(base)
    BY <1>5, <1>6, <1>8, <1>9, Present DEF CountsMatch
  <2>2. t.drag_target_count >= Drags(base)
    BY <1>5, <1>6, <1>8, <1>9, Present DEF CountsMatch, One
  <2>3. /\ FileCalls(base) = One(t.file_operation_call_active)
        /\ Transfers(base) = One(t.file_operation_in_progress)
        /\ Prompts(base) = One(t.shutdown_prompt_active)
        /\ t.drag_in_progress <=> t.drag_target_count # 0
    BY <1>6, <1>8, <1>9, <1>10, Present DEF CountsMatch, SameClose
  <2>4. QED
    BY <2>1, <2>2, <2>3 DEF CountsMatch
<1>12. RetryOutsideShell(t, base) /\ ClosingIsClear(t, base, alive)
       /\ ContinuationQueued(t, queue)
  BY <1>6, <1>7, <1>10, Present
     DEF RetryOutsideShell, ClosingIsClear, ContinuationQueued, SameClose
<1>13. Calls(t, base, queue, alive)
  BY <1>6, <1>9, <1>11, <1>12, Present DEF Calls
<1>14. ~TailOnTop(stack) /\ t.file_operation_call_active = seq.file_operation_call_active
  BY <1>2, <1>8, <1>9, SettledIsNotTail
<1>15. QED
  BY <1>1, <1>2, <1>6, <1>9, <1>10, <1>13, <1>14, ResumeKeeps

\* run_file_operation starts: no close is under way, none is shown, and no
\* other file operation has a prompt.
LEMMA StartFileOperationKeeps == IInv /\ StartFileOperation => IInv'
<1> SUFFICES ASSUME IInv, StartFileOperation
             PROVE  IInv'
  OBVIOUS
<1> DEFINE s == file_operation_call_started(seq).state
<1>1. /\ Pumping /\ ~OnStack({"save_prompt"})
      /\ ~seq.file_operation_call_active /\ ~seq.closing /\ ~seq.shutdown_deferred
      /\ seq' = shell_call_entered(s).state
      /\ stack' = Append(stack, "file_op")
      /\ UNCHANGED <<queue, prompt, disk, dirty, alive, process, os_ending,
                     caption, intent, failures>>
  BY DEF StartFileOperation, Push, is_shutting_down
<1>2. /\ s \in State
      /\ s.file_operation_call_active /\ ~s.file_operation_in_progress
      /\ ~s.close_after_file_operation
      /\ s.shutdown_deferred = seq.shutdown_deferred
      /\ s.shutdown_message_queued = seq.shutdown_message_queued
      /\ s.shell_call_depth = seq.shell_call_depth
      /\ s.drag_target_count = seq.drag_target_count
      /\ s.drag_in_progress = seq.drag_in_progress
      /\ s.closing = seq.closing /\ s.quit_requested = seq.quit_requested
      /\ s.main_window_destroyed = seq.main_window_destroyed
      /\ s.shutdown_prompt_active = seq.shutdown_prompt_active
      /\ s.shutdown_save_attempted = seq.shutdown_save_attempted
      /\ s.end_session_pending = seq.end_session_pending
      /\ s.end_session_owns_close = seq.end_session_owns_close
  BY Present DEF file_operation_call_started, Stepped, State
<1> HIDE DEF s
<1>3. /\ seq' \in State /\ SameClose(s, seq')
      /\ seq'.shell_call_depth = seq.shell_call_depth + 1
      /\ seq'.drag_target_count = seq.drag_target_count
      /\ seq'.drag_in_progress = seq.drag_in_progress
      /\ seq'.file_operation_call_active = TRUE
      /\ seq'.file_operation_in_progress = FALSE
  BY <1>1, <1>2, ShellEntered
<1>4. Pushed(stack, stack', 1, 0, 1, 0, 0, 0, 0)
  BY <1>1, Present, FramePushes
<1>5. /\ stack' \in Seq(Frames) /\ BusyOnTop(stack') /\ PromptAboveNoGate(stack')
      /\ Retries(stack') = 0
  <2>1. "file_op" \in PumpFrames
    BY DEF PumpFrames, ShellFrames, FileOpFrames
  <2>2. QED
    BY <1>1, <2>1, Present, PushShape
<1>6. Prompts(stack) = 0 /\ FileCalls(stack) = 0 /\ Transfers(stack) = 0
      /\ ~seq.shutdown_prompt_active
  <2>1. Prompts(stack) = 0
    BY <1>1, Present, PositionsFinite DEF OnStack, Prompts
  <2>2. FileCalls(stack) = 0
    BY <1>1, Present DEF CountsMatch, One
  <2>3. QED
    BY <2>1, <2>2, Present, TransferIsShell DEF CountsMatch, One
<1>7. CountsMatch(seq', stack')
  BY <1>2, <1>3, <1>4, <1>6, Present DEF CountsMatch, Pushed, SameClose, One
<1>8. RetryOutsideShell(seq', stack') /\ ClosingIsClear(seq', stack', alive)
      /\ DeferralHeld(seq') /\ ContinuationQueued(seq', queue')
  BY <1>1, <1>2, <1>3, <1>4, <1>5, Present
     DEF RetryOutsideShell, ClosingIsClear, DeferralHeld, ContinuationQueued, SameClose,
         Pushed
<1>9. Calls(seq', stack', queue', alive')
  BY <1>1, <1>3, <1>5, <1>7, <1>8, Present DEF Calls
<1>10. ~Underway(seq, stack) /\ ~AwaitsTransfer(seq)
  BY <1>1, <1>6, Present DEF Underway, AwaitsTransfer
<1>11. intent.user_close # "yes" /\ caption = FALSE /\ prompt = IdlePrompt
  BY <1>10, Present
     DEF IInv, UserCloseCarried, CaptionTrue, PromptAboutTransfer, OtherTypes
<1>12. /\ OwnedBySession(seq', intent'.user_close, prompt', os_ending')
       /\ UserCloseCarried(seq', stack', intent'.user_close)
       /\ CaptionTrue(seq', stack', caption')
       /\ PromptAboutTransfer(seq', prompt')
  BY <1>1, <1>2, <1>3, <1>11
     DEF IInv, OwnedBySession, UserCloseCarried, CaptionTrue, PromptAboutTransfer,
         SameClose
<1>13. QED
  BY <1>1, <1>3, <1>5, <1>8, <1>9, <1>12, Present DEF IInv, TypeOK, OtherTypes, Calls

\* The sink's callbacks turn one call of the file operation into another.
LEMMA TransferStepKeeps ==
    ASSUME IInv, NEW f \in FileOpFrames, NEW g \in FileOpFrames,
           TopIs({f}), stack' = Append(Pop, g),
           seq' = [seq EXCEPT !.file_operation_in_progress = (g = "file_op_live")],
           \/ queue' = queue
           \/ queue' = Append(queue, "file_operation_finished"),
           failures' \in Nat,
           UNCHANGED <<prompt, disk, dirty, alive, process, os_ending, caption, intent>>
    PROVE  IInv'
<1>1. /\ Pop \in Seq(Frames) /\ stack = Append(Pop, f) /\ Settled(Pop)
      /\ PromptAboveNoGate(Pop) /\ Retries(Pop) = 0 /\ Settled(stack)
  <2>1. f \in PumpFrames
    BY DEF PumpFrames, ShellFrames
  <2>2. QED
    BY <2>1, PopShape
<1>2. \A h \in FileOpFrames :
         Pushed(Pop, Append(Pop, h), 1, 0, 1, One(h = "file_op_live"), 0, 0, 0)
  <2> SUFFICES ASSUME NEW h \in FileOpFrames
               PROVE  Pushed(Pop, Append(Pop, h), 1, 0, 1, One(h = "file_op_live"), 0, 0, 0)
    OBVIOUS
  <2>1. h \in {"file_op", "file_op_live", "file_op_over"}
    BY DEF FileOpFrames
  <2>2. CASE h = "file_op"
    BY <1>1, <2>2, FramePushes DEF One
  <2>3. CASE h = "file_op_live"
    BY <1>1, <2>3, FramePushes DEF One
  <2>4. CASE h = "file_op_over"
    BY <1>1, <2>4, FramePushes DEF One
  <2>5. QED
    BY <2>1, <2>2, <2>3, <2>4
<1>3. /\ Pushed(Pop, stack, 1, 0, 1, One(f = "file_op_live"), 0, 0, 0)
      /\ Pushed(Pop, stack', 1, 0, 1, One(g = "file_op_live"), 0, 0, 0)
  BY <1>1, <1>2
<1>4. FileCalls(Pop) = 0 /\ Transfers(Pop) = 0
  <2>1. FileCalls(Pop) = 0
    <3>1. FileCalls(stack) = FileCalls(Pop) + 1 /\ FileCalls(Pop) \in Nat
      BY <1>1, <1>3, KindsCounted DEF Pushed
    <3>2. FileCalls(stack) = One(seq.file_operation_call_active)
      BY Present DEF CountsMatch
    <3>3. QED
      BY <3>1, <3>2 DEF One
  <2>2. QED
    BY <1>1, <2>1, TransferIsShell
<1>5. /\ Shells(stack') = Shells(stack) /\ Drags(stack') = Drags(stack)
      /\ FileCalls(stack') = FileCalls(stack) /\ Prompts(stack') = Prompts(stack)
      /\ Teardowns(stack') = Teardowns(stack)
      /\ Transfers(stack') = One(g = "file_op_live")
  BY <1>1, <1>3, <1>4, KindsCounted DEF Pushed, One
<1>6. /\ stack' \in Seq(Frames) /\ BusyOnTop(stack') /\ PromptAboveNoGate(stack')
      /\ Retries(stack') = 0
  <2>1. g \in PumpFrames /\ g # "save_prompt"
    BY DEF PumpFrames, ShellFrames, FileOpFrames
  <2>2. QED
    BY <1>1, <2>1, PushShape
<1>7. /\ seq' \in State /\ SameClose(seq, seq')
      /\ seq'.shell_call_depth = seq.shell_call_depth
      /\ seq'.drag_target_count = seq.drag_target_count
      /\ seq'.drag_in_progress = seq.drag_in_progress
      /\ seq'.file_operation_call_active = seq.file_operation_call_active
      /\ seq'.file_operation_in_progress = (g = "file_op_live")
  BY Present DEF State, SameClose
<1>8. CountsMatch(seq', stack')
  BY <1>5, <1>7, Present DEF CountsMatch, SameClose
<1>9. RetryOutsideShell(seq', stack') /\ ClosingIsClear(seq', stack', alive)
      /\ DeferralHeld(seq')
  BY <1>5, <1>6, <1>7, Present
     DEF RetryOutsideShell, ClosingIsClear, DeferralHeld, SameClose
<1>10. queue' \in Seq(Messages) /\ ContinuationQueued(seq', queue')
  <2>1. /\ queue' \in Seq(Messages)
        /\ \A i \in DOMAIN queue : i \in DOMAIN queue' /\ queue'[i] = queue[i]
    <3>1. CASE queue' = queue
      BY <3>1, Present
    <3>2. CASE queue' = Append(queue, "file_operation_finished")
      <4>1. "file_operation_finished" \in Messages /\ queue \in Seq(Messages)
        BY Present DEF Messages
      <4>2. /\ queue' \in Seq(Messages)
            /\ Len(queue') = Len(queue) + 1
            /\ \A i \in 1..Len(queue) : queue'[i] = queue[i]
        BY <3>2, <4>1, AppendProperties
      <4>3. DOMAIN queue = 1..Len(queue) /\ DOMAIN queue' = 1..Len(queue')
            /\ Len(queue) \in Nat
        BY <4>1, <4>2, LenProperties
      <4>4. QED
        BY <4>2, <4>3
    <3>3. QED
      BY <3>1, <3>2
  <2>2. QED
    BY <1>7, <2>1, Present DEF ContinuationQueued, SameClose
<1>11. QED
  BY <1>1, <1>6, <1>7, <1>8, <1>9, <1>10, GateStepKeeps

\* IFileOperationProgressSink::StartOperations and FinishOperations.
LEMMA TransferKeeps == IInv /\ (TransferStarted \/ TransferFinished) => IInv'
<1>1. ASSUME IInv, TransferStarted
      PROVE  IInv'
  <2>1. /\ TopIs({"file_op"}) /\ stack' = Append(Pop, "file_op_live")
        /\ seq' = [seq EXCEPT !.file_operation_in_progress = TRUE]
        /\ UNCHANGED <<queue, prompt, disk, dirty, alive, process, os_ending,
                       caption, intent, failures>>
    BY <1>1 DEF TransferStarted, ReplaceTop, Push, file_operation_started, Stepped
  <2>2. "file_op" \in FileOpFrames /\ "file_op_live" \in FileOpFrames
    BY DEF FileOpFrames
  <2>3. seq' = [seq EXCEPT !.file_operation_in_progress = ("file_op_live" = "file_op_live")]
        /\ failures' \in Nat
    BY <1>1, <2>1, Present DEF OtherTypes
  <2>4. QED
    BY <1>1, <2>1, <2>2, <2>3, TransferStepKeeps
<1>2. ASSUME IInv, TransferFinished
      PROVE  IInv'
  <2>1. /\ TopIs({"file_op_live"}) /\ stack' = Append(Pop, "file_op_over")
        /\ seq' = [seq EXCEPT !.file_operation_in_progress = FALSE]
        /\ UNCHANGED <<prompt, disk, dirty, alive, process, os_ending,
                       caption, intent>>
    BY <1>2 DEF TransferFinished, ReplaceTop, Push, file_operation_finished, Stepped
  <2>2. "file_op_live" \in FileOpFrames /\ "file_op_over" \in FileOpFrames
    BY DEF FileOpFrames
  <2>3. failures' \in Nat
        /\ (queue' = queue \/ queue' = Append(queue, "file_operation_finished"))
    BY <1>2, Present DEF TransferFinished, PostSucceeds, PostFails, NoPost, OtherTypes
  <2>4. seq' = [seq EXCEPT !.file_operation_in_progress = ("file_op_over" = "file_op_live")]
    BY <2>1
  <2>5. QED
    BY <1>2, <2>1, <2>2, <2>3, <2>4, TransferStepKeeps
<1>3. QED
  BY <1>1, <1>2

\* complete_deferred_close(), from the state s, the stack base and the queue q
\* that its caller has reached: nothing was waiting, and what is shown is still
\* true, or the close that waited goes on.
LEMMA CompleteDeferredCloseKeeps ==
    ASSUME IInv, NEW s, NEW base, NEW q, NEW unread,
           Calls(s, base, q, alive), Settled(base), DeferralHeld(s),
           s.closing = seq.closing,
           s.end_session_pending = seq.end_session_pending,
           s.end_session_owns_close = seq.end_session_owns_close,
           unread \in {prompt, IdlePrompt},
           \/ /\ s.close_after_file_operation /\ ~s.closing
              /\ ~s.file_operation_call_active /\ ~s.file_operation_in_progress
           \/ /\ UserCloseCarried(s, base, intent.user_close)
              /\ CaptionTrue(s, base, caption)
              /\ PromptAboutTransfer(s, unread),
           CompleteDeferredClose(s, base, q, unread),
           UNCHANGED <<disk, dirty, alive, process, os_ending, intent>>
    PROVE  IInv'
<1>0. os_ending' = os_ending /\ intent' = intent /\ alive' = alive
  OBVIOUS
<1>1. prompt' \in {prompt, IdlePrompt}
  BY DEF CompleteDeferredClose, DismissTransferPrompt, IdlePrompt
<1>2. prompt' \in [window : {"hidden", "shown", "cancelling"},
                   result : TransferChoices \cup {"none"}]
  BY <1>1, Present DEF OtherTypes, IdlePrompt
<1>3. CASE \/ ~s.close_after_file_operation \/ s.file_operation_call_active
           \/ s.file_operation_in_progress \/ s.closing
  <2>1. /\ seq' = s /\ stack' = base /\ queue' = q /\ failures' = failures
        /\ prompt' = unread /\ caption' = caption
    BY <1>3 DEF CompleteDeferredClose, NoPost
  <2>2. /\ UserCloseCarried(seq', stack', intent'.user_close)
        /\ CaptionTrue(seq', stack', caption')
        /\ PromptAboutTransfer(seq', prompt')
    BY <1>0, <1>3, <2>1
  <2>3. OwnedBySession(seq', intent'.user_close, prompt', os_ending')
    BY <1>0, <1>1, <2>1 DEF IInv, OwnedBySession
  <2>4. /\ Calls(seq', stack', queue', alive') /\ BusyOnTop(stack')
        /\ DeferralHeld(seq')
    BY <1>0, <2>1 DEF BusyOnTop
  <2>5. QED
    BY <1>0, <1>2, <2>1, <2>2, <2>3, <2>4, Present DEF IInv, TypeOK, OtherTypes, Calls
<1>4. CASE /\ s.close_after_file_operation /\ ~s.closing
           /\ ~s.file_operation_call_active /\ ~s.file_operation_in_progress
  <2>1. RequestClose(s, base, q) /\ prompt' = IdlePrompt
    BY <1>4 DEF CompleteDeferredClose, DismissTransferPrompt, IdlePrompt
  <2>2. failures \in Nat /\ caption \in BOOLEAN
    BY Present DEF OtherTypes
  <2>3. /\ Calls(seq', stack', queue', alive)
        /\ BusyOnTop(stack')
        /\ DeferralHeld(seq')
        /\ failures' \in Nat
        /\ caption' \in BOOLEAN
        /\ AgreeOnGates(s, seq')
        /\ \/ Underway(seq', stack')
           \/ AwaitsTransfer(seq') /\ stack' = base /\ caption' = caption
    BY <2>1, <2>2, RequestCloseResumes
  <2>4. Underway(seq', stack')
    BY <1>4, <2>3 DEF AwaitsTransfer, AgreeOnGates
  <2>5. /\ UserCloseCarried(seq', stack', intent'.user_close)
        /\ CaptionTrue(seq', stack', caption')
        /\ PromptAboutTransfer(seq', prompt')
    BY <2>1, <2>4 DEF UserCloseCarried, CaptionTrue, PromptAboutTransfer
  <2>6. OwnedBySession(seq', intent'.user_close, prompt', os_ending')
    BY <1>0, <2>1, <2>3 DEF IInv, OwnedBySession, AgreeOnGates
  <2>7. QED
    BY <1>0, <1>2, <2>3, <2>5, <2>6, Present DEF IInv, TypeOK, OtherTypes, Calls
<1>5. QED
  BY <1>3, <1>4

\* The rest of run_file_operation.
LEMMA FileOperationReturnsKeeps == IInv /\ FileOperationReturns => IInv'
<1> SUFFICES ASSUME IInv, FileOperationReturns
             PROVE  IInv'
  OBVIOUS
<1> DEFINE over == file_operation_call_finished(file_operation_finished(seq).state).state
<1>1. /\ TopIs({"file_op_tail"})
      /\ CompleteDeferredClose(over, Pop, queue, prompt)
      /\ UNCHANGED <<disk, dirty, alive, process, os_ending, intent>>
  BY DEF FileOperationReturns
<1>2. /\ Pop \in Seq(Frames) /\ stack = Append(Pop, "file_op_tail") /\ Settled(Pop)
      /\ PromptAboveNoGate(Pop) /\ Retries(Pop) = 0 /\ Retries(stack) = 0
  BY <1>1, PopShape
<1>3. Pushed(Pop, stack, 0, 0, 1, 0, 0, 0, 0)
  BY <1>2, FramePushes
<1>4. /\ Shells(Pop) = Shells(stack) /\ Drags(Pop) = Drags(stack)
      /\ FileCalls(stack) = FileCalls(Pop) + 1 /\ Transfers(Pop) = Transfers(stack)
      /\ Prompts(Pop) = Prompts(stack) /\ Teardowns(Pop) = Teardowns(stack)
      /\ FileCalls(Pop) \in Nat
  BY <1>2, <1>3, KindsCounted DEF Pushed
<1>5. FileCalls(stack) = 1 /\ FileCalls(Pop) = 0 /\ Transfers(Pop) = 0
  <2>1. FileCalls(stack) = One(seq.file_operation_call_active)
    BY Present DEF CountsMatch
  <2>2. FileCalls(stack) = 1 /\ FileCalls(Pop) = 0
    BY <1>4, <2>1 DEF One
  <2>3. QED
    BY <1>2, <2>2, TransferIsShell
<1>6. ~seq.closing
  BY <1>5, Present DEF ClosingIsClear
<1>7. over = [seq EXCEPT !.file_operation_in_progress = FALSE,
                         !.file_operation_call_active = FALSE]
  BY Present DEF file_operation_call_finished, file_operation_finished, Stepped, State
<1> HIDE DEF over
<1>8. /\ over \in State /\ SameClose(seq, over)
      /\ over.shell_call_depth = seq.shell_call_depth
      /\ over.drag_target_count = seq.drag_target_count
      /\ over.drag_in_progress = seq.drag_in_progress
      /\ ~over.file_operation_call_active
      /\ ~over.file_operation_in_progress
  BY <1>7, Present DEF State, SameClose
<1>9. CountsMatch(over, Pop)
  BY <1>4, <1>5, <1>8, Present DEF CountsMatch, SameClose, One
<1>10. RetryOutsideShell(over, Pop) /\ ClosingIsClear(over, Pop, alive)
       /\ ContinuationQueued(over, queue) /\ DeferralHeld(over)
  BY <1>2, <1>4, <1>6, <1>8, Present
     DEF RetryOutsideShell, ClosingIsClear, ContinuationQueued, DeferralHeld, SameClose
<1>11. Calls(over, Pop, queue, alive)
  BY <1>2, <1>8, <1>9, <1>10, Present DEF Calls
<1>12. \/ /\ over.close_after_file_operation /\ ~over.closing
          /\ ~over.file_operation_call_active /\ ~over.file_operation_in_progress
       \/ /\ UserCloseCarried(over, Pop, intent.user_close)
          /\ CaptionTrue(over, Pop, caption)
          /\ PromptAboutTransfer(over, prompt)
  <2>1. CASE seq.close_after_file_operation
    BY <1>6, <1>8, <2>1 DEF SameClose
  <2>2. CASE ~seq.close_after_file_operation
    <3>1. ~AwaitsTransfer(seq)
      BY <2>2 DEF AwaitsTransfer
    <3>2. Underway(seq, stack) => Underway(over, Pop)
      BY <1>2, <1>8 DEF Underway, SameClose
    <3>3. QED
      BY <3>1, <3>2 DEF IInv, UserCloseCarried, CaptionTrue, PromptAboutTransfer
  <2>3. QED
    BY <2>1, <2>2
<1>13. /\ over.closing = seq.closing
       /\ over.end_session_pending = seq.end_session_pending
       /\ over.end_session_owns_close = seq.end_session_owns_close
  BY <1>8 DEF SameClose
<1>14. QED
  BY <1>1, <1>2, <1>10, <1>11, <1>12, <1>13, CompleteDeferredCloseKeeps

\* kFileOperationFinishedMessage, swallowed while a close is on its way.
LEMMA FileOperationFinishedArrivesKeeps == IInv /\ FileOperationFinishedArrives => IInv'
<1> SUFFICES ASSUME IInv, FileOperationFinishedArrives
             PROVE  IInv'
  OBVIOUS
<1>1. /\ Pumping
      /\ queue # <<>> /\ Head(queue) = "file_operation_finished"
      /\ \/ /\ queue' = Tail(queue)
            /\ UNCHANGED <<seq, stack, prompt, caption, failures>>
         \/ CompleteDeferredClose(seq, stack, Tail(queue), prompt)
      /\ UNCHANGED <<disk, dirty, alive, process, os_ending, intent>>
  BY DEF FileOperationFinishedArrives
<1>2. /\ Tail(queue) \in Seq(Messages)
      /\ (\E i \in DOMAIN queue : queue[i] = "deferred_shutdown")
           => \E i \in DOMAIN Tail(queue) : Tail(queue)[i] = "deferred_shutdown"
  <2>1. /\ queue \in Seq(Messages)
        /\ Tail(queue) \in Seq(Messages)
        /\ Len(Tail(queue)) = Len(queue) - 1
        /\ \A i \in 1..Len(Tail(queue)) : Tail(queue)[i] = queue[i + 1]
        /\ Head(queue) = queue[1]
    BY <1>1, Present, HeadTailProperties
  <2>2. /\ DOMAIN queue = 1..Len(queue) /\ Len(queue) \in Nat
        /\ DOMAIN Tail(queue) = 1..Len(Tail(queue))
    BY <2>1, LenProperties
  <2>3. ASSUME NEW i \in DOMAIN queue, queue[i] = "deferred_shutdown"
        PROVE  \E k \in DOMAIN Tail(queue) : Tail(queue)[k] = "deferred_shutdown"
    <3>1. i # 1
      BY <1>1, <2>1, <2>3
    <3>2. i - 1 \in 1..Len(Tail(queue)) /\ i - 1 + 1 = i
      BY <2>1, <2>2, <3>1
    <3>3. QED
      BY <2>1, <2>2, <2>3, <3>2
  <2>4. QED
    BY <2>1, <2>3
<1>3. Calls(seq, stack, Tail(queue), alive)
  BY <1>2, Present DEF Calls, ContinuationQueued
<1>4. CASE /\ queue' = Tail(queue)
           /\ UNCHANGED <<seq, stack, prompt, caption, failures>>
  <2>1. Calls(seq', stack', queue', alive')
    BY <1>1, <1>3, <1>4
  <2>2. QED
    BY <1>1, <1>4, <2>1, Present
       DEF IInv, TypeOK, OtherTypes, Calls
<1>5. CASE CompleteDeferredClose(seq, stack, Tail(queue), prompt)
  BY <1>1, <1>3, <1>5, Present, CompleteDeferredCloseKeeps DEF IInv
<1>6. QED
  BY <1>1, <1>4, <1>5

\* A button of the transfer prompt.
LEMMA TransferPromptAnsweredKeeps ==
    ASSUME NEW c \in TransferChoices
    PROVE  IInv /\ TransferPromptAnswered(c) => IInv'
<1> SUFFICES ASSUME IInv, TransferPromptAnswered(c)
             PROVE  IInv'
  OBVIOUS
<1> DEFINE w == IF c = "cancel_and_close" THEN "cancelling" ELSE "hidden"
           unread == [window |-> w, result |-> "none"]
<1>1. /\ Pumping
      /\ prompt.window # "hidden"
      /\ \/ /\ prompt' = [window |-> w, result |-> c]
            /\ UNCHANGED <<seq, stack, queue, failures, caption, intent>>
         \/ TransferChosen(c, unread)
      /\ UNCHANGED <<disk, dirty, alive, process, os_ending>>
  BY DEF TransferPromptAnswered
<1>2. prompt # IdlePrompt /\ AwaitsTransfer(seq)
  BY <1>1 DEF IdlePrompt, IInv, PromptAboutTransfer
<1>3. ~(seq.end_session_pending /\ seq.end_session_owns_close)
      /\ (seq.end_session_pending /\ ~seq.closing => os_ending)
  BY <1>2 DEF IInv, OwnedBySession
<1>4. Settled(stack) /\ ~TailOnTop(stack)
  BY <1>1, Present, SettledIsNotTail
<1>5. caption => Underway(seq, stack)
  BY <1>4 DEF IInv, CaptionTrue
<1>6. CASE /\ prompt' = [window |-> w, result |-> c]
           /\ UNCHANGED <<seq, stack, queue, failures, caption, intent>>
  <2>1. prompt' \in [window : {"hidden", "shown", "cancelling"},
                     result : TransferChoices \cup {"none"}]
    BY <1>6
  <2>2. Calls(seq', stack', queue', alive')
    BY <1>1, <1>6, Present
  <2>3. /\ OwnedBySession(seq', intent'.user_close, prompt', os_ending')
        /\ PromptAboutTransfer(seq', prompt')
    BY <1>1, <1>2, <1>3, <1>6 DEF OwnedBySession, PromptAboutTransfer
  <2>4. QED
    BY <1>1, <1>6, <2>1, <2>2, <2>3, Present DEF IInv, TypeOK, OtherTypes, Calls
<1>7. ASSUME NEW t \in State, AgreeOnGates(seq, t),
             t.shutdown_deferred = seq.shutdown_deferred,
             t.shutdown_message_queued = seq.shutdown_message_queued
      PROVE  /\ Calls(t, stack, queue, alive) /\ DeferralHeld(t)
             /\ Underway(seq, stack) => Underway(t, stack)
             /\ \A u, p : OwnedBySession(t, u, p, os_ending)
             /\ CaptionTrue(t, stack, caption)
  <2>1. Calls(t, stack, queue, alive)
    BY <1>7, CallsAgree, Present
  <2>2. DeferralHeld(t) /\ (Underway(seq, stack) => Underway(t, stack))
    BY <1>7, Present DEF DeferralHeld, Underway, AgreeOnGates
  <2>3. \A u, p : OwnedBySession(t, u, p, os_ending)
    BY <1>3, <1>7 DEF OwnedBySession, AgreeOnGates
  <2>4. QED
    BY <1>5, <2>1, <2>2, <2>3 DEF CaptionTrue
<1>8. CASE c = "keep_open" /\ TransferChosen(c, unread)
  <2>1. /\ seq' = [seq EXCEPT !.close_after_file_operation = FALSE,
                              !.cancel_file_operation = FALSE]
        /\ prompt' = IdlePrompt
        /\ intent' = [intent EXCEPT !.user_close = "no"]
        /\ UNCHANGED <<stack, queue, failures, caption>>
    BY <1>8 DEF TransferChosen, transfer_keep_open, Stepped, IdlePrompt
  <2>2. /\ seq' \in State /\ AgreeOnGates(seq, seq')
        /\ seq'.shutdown_deferred = seq.shutdown_deferred
        /\ seq'.shutdown_message_queued = seq.shutdown_message_queued
    BY <2>1, Present DEF State, AgreeOnGates
  <2>3. /\ intent' \in [user_close : {"no", "yes", "merged"}, checkpoint : BOOLEAN]
        /\ intent'.user_close = "no"
    BY <2>1, Present DEF OtherTypes
  <2>4. prompt' \in [window : {"hidden", "shown", "cancelling"},
                     result : TransferChoices \cup {"none"}]
    BY <2>1 DEF IdlePrompt
  <2>5. /\ Calls(seq', stack, queue, alive) /\ DeferralHeld(seq')
        /\ OwnedBySession(seq', intent'.user_close, prompt', os_ending)
        /\ CaptionTrue(seq', stack, caption)
    BY <1>7, <2>2
  <2>6. /\ UserCloseCarried(seq', stack', intent'.user_close)
        /\ PromptAboutTransfer(seq', prompt')
    BY <2>1, <2>3 DEF UserCloseCarried, PromptAboutTransfer
  <2>7. QED
    BY <1>1, <2>1, <2>3, <2>4, <2>5, <2>6, Present DEF IInv, TypeOK, OtherTypes, Calls
<1>9. CASE c = "close_after_transfer" /\ TransferChosen(c, unread)
  <2> DEFINE t == transfer_close_after_transfer(seq).state
  <2>1. /\ CompleteDeferredClose(t, stack, queue, unread)
        /\ intent' = intent
        /\ unread = IdlePrompt
    BY <1>9 DEF TransferChosen, IdlePrompt
  <2>2. /\ t \in State /\ AgreeOnGates(seq, t)
        /\ t.shutdown_deferred = seq.shutdown_deferred
        /\ t.shutdown_message_queued = seq.shutdown_message_queued
        /\ t.close_after_file_operation
    BY Present DEF transfer_close_after_transfer, Stepped, State, AgreeOnGates
  <2> HIDE DEF t, unread
  <2>3. Calls(t, stack, queue, alive) /\ DeferralHeld(t) /\ CaptionTrue(t, stack, caption)
    BY <1>7, <2>2
  <2>4. /\ UserCloseCarried(t, stack, intent.user_close)
        /\ PromptAboutTransfer(t, unread)
    BY <1>2, <2>1, <2>2
       DEF UserCloseCarried, PromptAboutTransfer, AwaitsTransfer, AgreeOnGates
  <2>5. /\ t.closing = seq.closing
        /\ t.end_session_pending = seq.end_session_pending
        /\ t.end_session_owns_close = seq.end_session_owns_close
    BY <2>2 DEF AgreeOnGates
  <2>6. QED
    BY <1>1, <1>4, <2>1, <2>3, <2>4, <2>5, CompleteDeferredCloseKeeps
<1>10. CASE c = "cancel_and_close" /\ TransferChosen(c, unread)
  <2>1. /\ seq' = [seq EXCEPT !.close_after_file_operation = TRUE,
                              !.cancel_file_operation = TRUE]
        /\ prompt' = [window |-> "cancelling", result |-> "none"]
        /\ UNCHANGED <<stack, queue, failures, caption, intent>>
    BY <1>10 DEF TransferChosen, transfer_cancel_and_close, Stepped
  <2>2. /\ seq' \in State /\ AgreeOnGates(seq, seq')
        /\ seq'.shutdown_deferred = seq.shutdown_deferred
        /\ seq'.shutdown_message_queued = seq.shutdown_message_queued
        /\ seq'.close_after_file_operation
    BY <2>1, Present DEF State, AgreeOnGates
  <2>3. prompt' \in [window : {"hidden", "shown", "cancelling"},
                     result : TransferChoices \cup {"none"}]
    BY <2>1
  <2>4. /\ Calls(seq', stack, queue, alive) /\ DeferralHeld(seq')
        /\ OwnedBySession(seq', intent'.user_close, prompt', os_ending)
        /\ CaptionTrue(seq', stack, caption)
    BY <1>7, <2>2
  <2>5. AwaitsTransfer(seq')
    BY <1>2, <2>2 DEF AwaitsTransfer, AgreeOnGates
  <2>6. /\ UserCloseCarried(seq', stack', intent'.user_close)
        /\ PromptAboutTransfer(seq', prompt')
    BY <2>5 DEF UserCloseCarried, PromptAboutTransfer
  <2>7. QED
    BY <1>1, <2>1, <2>3, <2>4, <2>6, Present DEF IInv, TypeOK, OtherTypes, Calls
<1>11. QED
  BY <1>1, <1>6, <1>8, <1>9, <1>10 DEF TransferChoices

-----------------------------------------------------------------------------
(* The invariant holds, and what it says of the close sequence.             *)

\* Whatever the thread does next, the invariant stays true.
LEMMA StepKeeps == IInv /\ [Next]_vars => IInv'
<1>1. ASSUME IInv, UNCHANGED vars
      PROVE  IInv'
  BY <1>1, QuietActionsKeep
<1>2. ASSUME IInv, Terminated
      PROVE  IInv'
  BY <1>2, <1>1 DEF Terminated
<1>3. ASSUME IInv, NEW c \in TransferChoices, TransferPromptAnswered(c)
      PROVE  IInv'
  BY <1>3, TransferPromptAnsweredKeeps
<1>4. QED
  BY <1>1, <1>2, <1>3, UserCloseKeeps, RetryCloseKeeps, DeferredShutdownArrivesKeeps,
     SavePromptAnsweredKeeps, TeardownFinishedKeeps, MainLoopExitsKeeps,
     EndSessionConfirmedKeeps, EndSessionCancelledKeeps, QuietActionsKeep,
     EnterShellKeeps, LeaveShellKeeps, StartFileOperationKeeps, TransferKeeps,
     FileOperationReturnsKeeps, FileOperationFinishedArrivesKeeps,
     DragEnterKeeps, HoverDragLeaveKeeps, ListDragLeaveKeeps, BeginListDragKeeps,
     ListDragEndsKeeps, EnterModalKeeps, LeaveModalKeeps
     DEF Next

\* The inductive invariant holds in every reachable state, for every value of
\* the constants.
THEOREM InvHolds == Spec => []IInv
BY InitOK, StepKeeps, PTL DEF Spec

\* Some call of a kind is open exactly when its count is not zero.
LEMMA OpenIsCounted ==
    ASSUME IInv, NEW fs
    PROVE  OnStack(fs) <=> Count(stack, fs) # 0
BY Present, PositionsFinite DEF OnStack

\* Every reachable state has its counters and flags right: the depth of Shell
\* calls, the drags, the file operation and the save prompt that the reducer of
\* shutdown.cpp counts are those of the calls that have not returned.
THEOREM GatesDescribeStack == Spec => []GatesMatchStack
<1>1. IInv => GatesMatchStack
  <2> SUFFICES ASSUME IInv
               PROVE  GatesMatchStack
    OBVIOUS
  <2>1. TypeOK /\ CountsMatch(seq, stack)
    BY Present DEF IInv
  <2>2. /\ seq.shell_call_depth = Cardinality(Positions(stack, ShellFrames))
        /\ seq.drag_target_count >= Cardinality(Positions(stack, DragFrames))
    BY <2>1 DEF CountsMatch, Shells, Drags, Count
  <2>3. /\ OnStack(FileOpFrames \cup {"file_op_tail"}) <=> FileCalls(stack) # 0
        /\ OnStack({"file_op_live"}) <=> Transfers(stack) # 0
        /\ OnStack({"save_prompt"}) <=> Prompts(stack) # 0
    BY OpenIsCounted DEF FileCalls, Transfers, Prompts, FileCallFrames
  <2>4. /\ seq.file_operation_call_active <=> FileCalls(stack) # 0
        /\ seq.file_operation_in_progress <=> Transfers(stack) # 0
        /\ seq.shutdown_prompt_active <=> Prompts(stack) # 0
        /\ seq.drag_in_progress <=> seq.drag_target_count # 0
    BY <2>1 DEF CountsMatch, One
  <2>5. QED
    BY <2>1, <2>2, <2>3, <2>4 DEF GatesMatchStack
<1>2. QED
  BY <1>1, InvHolds, PTL

\* destroy_views never runs under a Shell call, a drag, a file operation or the
\* save prompt that has yet to return, however they were nested.
THEOREM TeardownIsClear == Spec => []TeardownOnClearStack
<1>1. IInv => TeardownOnClearStack
  <2> SUFFICES ASSUME IInv, OnStack(TeardownFrames)
               PROVE  ~OnStack(GateFrames)
    BY DEF TeardownOnClearStack
  <2>1. Teardowns(stack) # 0
    BY OpenIsCounted DEF Teardowns
  <2>2. /\ Shells(stack) = 0 /\ Drags(stack) = 0 /\ FileCalls(stack) = 0
        /\ Prompts(stack) = 0
    BY <2>1, Present DEF ClosingIsClear
  <2>3. Positions(stack, GateFrames) = {}
    BY <2>2, Present, GatesCounted
  <2>4. QED
    BY <2>3 DEF OnStack
<1>2. QED
  BY <1>1, InvHolds, PTL

\* A close that is deferred has what resumes it, one the user asked for is on
\* its way until the user withdraws it, and the transfer prompt and the caption
\* show no other.
THEOREM CloseIsKept == Spec => []CloseKept
<1>1. IInv => CloseKept
  <2> SUFFICES ASSUME IInv
               PROVE  CloseKept
    OBVIOUS
  <2>1. /\ OnStack(FileOpFrames \cup {"file_op_tail"}) <=> FileCalls(stack) # 0
        /\ Prompts(stack) # 0 \/ Retries(stack) # 0
             => OnStack({"save_prompt", "request_close"})
    <3>1. /\ OnStack(FileOpFrames \cup {"file_op_tail"}) <=> FileCalls(stack) # 0
          /\ OnStack({"save_prompt"}) <=> Prompts(stack) # 0
          /\ OnStack({"request_close"}) <=> Retries(stack) # 0
      BY OpenIsCounted DEF FileCalls, FileCallFrames, Prompts, Retries
    <3>2. OnStack({"save_prompt"}) \/ OnStack({"request_close"})
            => OnStack({"save_prompt", "request_close"})
      BY DEF OnStack, Positions
    <3>3. QED
      BY <3>1, <3>2
  <2>2. /\ seq.file_operation_call_active <=> FileCalls(stack) # 0
        /\ seq.shutdown_prompt_active <=> Prompts(stack) # 0
    BY Present DEF CountsMatch, One
  <2>3. Underway(seq, stack) =>
          is_shutting_down(seq) \/ OnStack({"save_prompt", "request_close"})
    BY <2>1, <2>2 DEF Underway, is_shutting_down
  <2>4. CloseNeverStranded
    BY Present DEF CloseNeverStranded, DeferralHeld, ContinuationQueued
  <2>5. UserCloseKept
    BY <2>3 DEF IInv, UserCloseCarried, AwaitsTransfer, UserCloseKept
  <2>6. prompt # IdlePrompt => /\ OnStack(FileOpFrames \cup {"file_op_tail"})
                               /\ seq.close_after_file_operation
                               /\ stack # <<>>
    BY <2>1, <2>2, KindsEmpty DEF IInv, PromptAboutTransfer, AwaitsTransfer
  <2>7. CloseShownTruthfully
    <3>1. prompt.window # "hidden" \/ prompt.result # "none" => prompt # IdlePrompt
      BY DEF IdlePrompt
    <3>2. caption => \/ is_shutting_down(seq)
                     \/ seq.close_after_file_operation
                     \/ OnStack({"save_prompt", "request_close"})
      BY <2>3 DEF IInv, CaptionTrue, AwaitsTransfer
    <3>3. QED
      BY <2>6, <3>1, <3>2 DEF CloseShownTruthfully
  <2>8. QED
    BY <2>4, <2>5, <2>7 DEF CloseKept
<1>2. QED
  BY <1>1, InvHolds, PTL

-----------------------------------------------------------------------------
(* What is on disk when the views go down.                                  *)

\* Deferring a close does not begin its teardown.
LEMMA DeferralKeepsClosing ==
    ASSUME NEW s \in State, NEW base, NEW q,
           QueueContinuation(s, base, q) \/ RunDefer(s, base, q)
    PROVE  seq'.closing = s.closing
<1> DEFINE r == deferred_shutdown_queued(s).state
<1>1. r \in State /\ r.closing = s.closing
  BY DEF deferred_shutdown_queued, Stepped, State
<1> HIDE DEF r
<1>2. deferred_shutdown_queue_failed(r).state.closing = s.closing
  BY <1>1 DEF deferred_shutdown_queue_failed, Stepped, State
<1>3. seq' \in {s, r, deferred_shutdown_queue_failed(r).state}
  BY DEF RunDefer, QueueContinuation, r
<1>4. QED
  BY <1>1, <1>2, <1>3

\* Nor does asking for one.
LEMMA RequestKeepsClosing ==
    ASSUME NEW s \in State, NEW base, NEW q,
           RequestClose(s, base, q) \/ \E u : CompleteDeferredClose(s, base, q, u)
    PROVE  seq'.closing = s.closing
<1> DEFINE r == CloseStep(s)
           t == r.state
<1>1. t \in State /\ t.closing = s.closing
  BY CloseStepOutcomes DEF AgreeOnGates
<1>2. seq' \in {s, t} \/ RunDefer(t, base, q)
  BY DEF RequestClose, CompleteDeferredClose
<1> HIDE DEF r, t
<1>3. QED
  BY <1>1, <1>2, DeferralKeepsClosing

\* The gates' own steps.
LEMMA GatesKeepClosing ==
    ASSUME NEW s \in State
    PROVE  /\ shell_call_entered(s).state \in State
           /\ shell_call_entered(s).state.closing = s.closing
           /\ shell_call_left(s).state \in State
           /\ shell_call_left(s).state.closing = s.closing
           /\ drag_started(s).state.closing = s.closing
           /\ drag_finished(s).state \in State
           /\ drag_finished(s).state.closing = s.closing
           /\ file_operation_call_started(s).state \in State
           /\ file_operation_call_started(s).state.closing = s.closing
           /\ file_operation_started(s).state.closing = s.closing
           /\ file_operation_finished(s).state \in State
           /\ file_operation_finished(s).state.closing = s.closing
           /\ file_operation_call_finished(s).state \in State
           /\ file_operation_call_finished(s).state.closing = s.closing
           /\ transfer_keep_open(s).state.closing = s.closing
           /\ transfer_close_after_transfer(s).state \in State
           /\ transfer_close_after_transfer(s).state.closing = s.closing
           /\ transfer_cancel_and_close(s).state.closing = s.closing
<1>1. /\ shell_call_entered(s).state \in State
      /\ shell_call_entered(s).state.closing = s.closing
      /\ drag_started(s).state.closing = s.closing
  BY ShellEntered, DragStarted DEF SameClose
<1>2. /\ shell_call_left(s).state \in State
      /\ shell_call_left(s).state.closing = s.closing
  <2>1. CASE s.shell_call_depth # 0
    BY <2>1, ShellLeft DEF SameClose
  <2>2. CASE s.shell_call_depth = 0
    BY <2>2 DEF shell_call_left, Stepped
  <2>3. QED
    BY <2>1, <2>2
<1>3. /\ drag_finished(s).state \in State
      /\ drag_finished(s).state.closing = s.closing
  <2>1. CASE s.drag_target_count # 0
    BY <2>1, DragFinished DEF SameClose
  <2>2. CASE s.drag_target_count = 0
    BY <2>2 DEF drag_finished, Stepped
  <2>3. QED
    BY <2>1, <2>2
<1>4. /\ file_operation_call_started(s).state \in State
      /\ file_operation_call_started(s).state.closing = s.closing
      /\ file_operation_started(s).state.closing = s.closing
      /\ file_operation_finished(s).state \in State
      /\ file_operation_finished(s).state.closing = s.closing
      /\ file_operation_call_finished(s).state \in State
      /\ file_operation_call_finished(s).state.closing = s.closing
  BY DEF file_operation_call_started, file_operation_started, file_operation_finished,
         file_operation_call_finished, Stepped, State
<1>5. /\ transfer_keep_open(s).state.closing = s.closing
      /\ transfer_close_after_transfer(s).state \in State
      /\ transfer_close_after_transfer(s).state.closing = s.closing
      /\ transfer_cancel_and_close(s).state.closing = s.closing
  BY DEF transfer_keep_open, transfer_close_after_transfer, transfer_cancel_and_close,
         Stepped, State
<1>6. QED
  BY <1>1, <1>2, <1>3, <1>4, <1>5

\* The calls, the drags and the transfers neither begin a teardown nor write.
LEMMA OtherStepsKeepClosing ==
    ASSUME IInv,
           \/ UserClose \/ RetryClose
           \/ EnterShell \/ LeaveShell
           \/ StartFileOperation \/ TransferStarted \/ TransferFinished
           \/ FileOperationReturns \/ FileOperationFinishedArrives
           \/ \E c \in TransferChoices : TransferPromptAnswered(c)
           \/ DragEnter \/ HoverDragLeave \/ ListDragLeave \/ BeginListDrag
           \/ ListDragEnds \/ EnterModal \/ LeaveModal \/ KilledByOs
           \/ UNCHANGED vars
    PROVE  seq'.closing = seq.closing /\ disk' = disk
<1>1. seq \in State
  BY Present
<1>2. CASE UserClose \/ RetryClose
  BY <1>1, <1>2, RequestKeepsClosing DEF UserClose, RetryClose
<1>3. CASE EnterShell \/ StartFileOperation \/ ListDragLeave
  BY <1>1, <1>3, GatesKeepClosing DEF EnterShell, StartFileOperation, ListDragLeave
<1>4. CASE DragEnter \/ BeginListDrag \/ TransferStarted \/ TransferFinished
  BY <1>1, <1>4, GatesKeepClosing
     DEF DragEnter, BeginListDrag, TransferStarted, TransferFinished
<1>5. CASE LeaveShell
  <2> DEFINE before == IF TopIs({"drag_leave"}) THEN drag_finished(seq).state ELSE seq
             t == shell_call_left(before).state
  <2>1. before \in State /\ before.closing = seq.closing
    BY <1>1, GatesKeepClosing
  <2> HIDE DEF before
  <2>2. t \in State /\ t.closing = seq.closing
    BY <2>1, GatesKeepClosing
  <2>3. seq' = t \/ \E base : QueueContinuation(t, base, queue)
    BY <1>5 DEF LeaveShell, before
  <2>4. disk' = disk
    BY <1>5 DEF LeaveShell
  <2> HIDE DEF t
  <2>5. QED
    BY <2>2, <2>3, <2>4, DeferralKeepsClosing
<1>6. CASE HoverDragLeave \/ ListDragEnds
  <2> DEFINE t == drag_finished(seq).state
  <2>1. t \in State /\ t.closing = seq.closing
    BY <1>1, GatesKeepClosing
  <2>2. seq' = t \/ \E base : RunDefer(t, base, queue)
    BY <1>6 DEF HoverDragLeave, ListDragEnds
  <2>3. disk' = disk
    BY <1>6 DEF HoverDragLeave, ListDragEnds
  <2> HIDE DEF t
  <2>4. QED
    BY <2>1, <2>2, <2>3, DeferralKeepsClosing
<1>7. CASE FileOperationReturns
  <2> DEFINE t == file_operation_call_finished(file_operation_finished(seq).state).state
  <2>1. t \in State /\ t.closing = seq.closing
    BY <1>1, GatesKeepClosing
  <2>2. CompleteDeferredClose(t, Pop, queue, prompt) /\ disk' = disk
    BY <1>7 DEF FileOperationReturns
  <2> HIDE DEF t
  <2>3. QED
    BY <2>1, <2>2, RequestKeepsClosing
<1>8. CASE FileOperationFinishedArrives
  BY <1>1, <1>8, RequestKeepsClosing DEF FileOperationFinishedArrives
<1>9. ASSUME NEW c \in TransferChoices, TransferPromptAnswered(c)
      PROVE  seq'.closing = seq.closing /\ disk' = disk
  <2> DEFINE t == transfer_close_after_transfer(seq).state
  <2>1. t \in State /\ t.closing = seq.closing
    BY <1>1, GatesKeepClosing
  <2>2. \/ seq' = seq
        \/ seq' = transfer_keep_open(seq).state
        \/ seq' = transfer_cancel_and_close(seq).state
        \/ \E u : CompleteDeferredClose(t, stack, queue, u)
    BY <1>9 DEF TransferPromptAnswered, TransferChosen, TransferChoices
  <2>3. disk' = disk
    BY <1>9 DEF TransferPromptAnswered
  <2> HIDE DEF t
  <2>4. QED
    BY <1>1, <2>1, <2>2, <2>3, GatesKeepClosing, RequestKeepsClosing
<1>10. CASE EnterModal \/ LeaveModal \/ KilledByOs \/ UNCHANGED vars
  BY <1>10 DEF EnterModal, LeaveModal, KilledByOs, vars
<1>11. QED
  BY <1>2, <1>3, <1>4, <1>5, <1>6, <1>7, <1>8, <1>9, <1>10

\* A teardown begins with the session saved, or where it cannot be asked for.
LEMMA TeardownBeginsSaved ==
    ASSUME IInv, [Next]_vars, ~seq.closing, seq'.closing
    PROVE  disk'.current \/ os_ending' \/ TopIs({"save_prompt"})
<1>1. seq \in State
  BY Present
<1>2. ~(\/ UserClose \/ RetryClose
        \/ EnterShell \/ LeaveShell
        \/ StartFileOperation \/ TransferStarted \/ TransferFinished
        \/ FileOperationReturns \/ FileOperationFinishedArrives
        \/ \E c \in TransferChoices : TransferPromptAnswered(c)
        \/ DragEnter \/ HoverDragLeave \/ ListDragLeave \/ BeginListDrag
        \/ ListDragEnds \/ EnterModal \/ LeaveModal \/ KilledByOs
        \/ UNCHANGED vars)
  BY OtherStepsKeepClosing
<1>3. CASE DeferredShutdownArrives
  <2> DEFINE r == deferred_shutdown_ready(seq)
             t == r.state
  <2>1. /\ t \in State /\ ~t.closing
        /\ t.end_session_pending = seq.end_session_pending
    <3> DEFINE cleared == [seq EXCEPT !.shutdown_deferred = FALSE,
                                      !.shutdown_message_queued = FALSE]
               saving == [cleared EXCEPT !.shutdown_save_attempted = TRUE]
               held == [seq EXCEPT !.shutdown_message_queued = FALSE]
    <3>1. t \in {seq, held, cleared, saving}
      BY DEF deferred_shutdown_ready, Stepped
    <3>2. /\ cleared \in State /\ ~cleared.closing
          /\ cleared.end_session_pending = seq.end_session_pending
          /\ held \in State /\ ~held.closing
          /\ held.end_session_pending = seq.end_session_pending
      BY <1>1 DEF State
    <3> HIDE DEF cleared, held
    <3>3. /\ saving \in State /\ ~saving.closing
          /\ saving.end_session_pending = seq.end_session_pending
      BY <3>2 DEF State
    <3> HIDE DEF saving, t
    <3>4. QED
      BY <1>1, <3>1, <3>2, <3>3
  <2>2. PICK saved \in BOOLEAN :
          /\ WriteSession(FALSE, saved)
          /\ LET after == IF saved THEN save_succeeded(t) ELSE save_failed(t) IN
             IF after.act = "destroy_views"
             THEN TRUE
             ELSE seq' = save_prompt_started(after.state).state
    <3>1. r.act = "save_session"
      BY <1>3, <2>1 DEF DeferredShutdownArrives
    <3>2. QED
      BY <1>3, <3>1 DEF DeferredShutdownArrives
  <2> HIDE DEF r, t
  <2>3. CASE saved
    BY <2>2, <2>3 DEF WriteSession
  <2>4. CASE ~saved /\ t.end_session_pending
    BY <1>3, <2>1, <2>4 DEF IInv, OwnedBySession, DeferredShutdownArrives
  <2>5. CASE ~saved /\ ~t.end_session_pending
    <3> DEFINE f == save_failed(t)
    <3>1. f.act = "prompt_save_failure" /\ f.state \in State /\ ~f.state.closing
      BY <2>1, <2>5 DEF save_failed, Stepped, State
    <3>2. seq' = save_prompt_started(f.state).state
      BY <2>2, <2>5, <3>1
    <3> HIDE DEF f
    <3>3. ~seq'.closing
      BY <3>1, <3>2 DEF save_prompt_started, Stepped, State
    <3>4. QED
      BY <3>3
  <2>6. QED
    BY <2>3, <2>4, <2>5
<1>4. CASE SavePromptAnswered
  BY <1>4 DEF SavePromptAnswered
<1>5. CASE EndSessionConfirmed
  BY <1>5 DEF EndSessionConfirmed
<1>6. CASE EndSessionCancelled
  <2> DEFINE own == UnwindOwnClose(seq)
             t == end_session_cancelled(seq).state
  <2>1. own \in State /\ ~own.closing
    <3> DEFINE unwound == [seq EXCEPT !.shutdown_deferred = FALSE,
                                      !.shutdown_message_queued = FALSE,
                                      !.shutdown_save_attempted = FALSE,
                                      !.close_after_file_operation = FALSE]
    <3>1. unwound \in State /\ ~unwound.closing
      BY <1>1 DEF State
    <3>2. own \in {seq, unwound}
      BY DEF UnwindOwnClose
    <3> HIDE DEF own, unwound
    <3>3. QED
      BY <1>1, <3>1, <3>2
  <2> HIDE DEF own
  <2>2. ~t.closing
    BY <1>1, <2>1 DEF end_session_cancelled, Stepped, State, own
  <2>3. seq' = t
    BY <1>6 DEF EndSessionCancelled
  <2>4. QED
    BY <2>2, <2>3
<1>7. CASE TeardownFinished
  <2>1. TopIs(TeardownFrames)
    BY <1>7 DEF TeardownFinished
  <2>2. stack \in Seq(Frames) /\ Len(stack) \in 1..Len(stack)
    BY <2>1, Present, EmptySeq DEF TopIs
  <2>3. OnStack(TeardownFrames)
    BY <2>1, <2>2 DEF OnStack, Positions, TopIs
  <2>4. QED
    BY <2>3, Present, OpenIsCounted DEF ClosingIsClear, Teardowns
<1>8. CASE MainLoopExits \/ Edit \/ SaveTimer \/ Terminated
  BY <1>2, <1>8 DEF MainLoopExits, Edit, SaveTimer, Terminated
<1>9. QED
  BY <1>2, <1>3, <1>4, <1>5, <1>6, <1>7, <1>8 DEF Next

\* The marker of a clean end is written when all is gone, or in a checkpoint.
LEMMA MarkerWrittenLast ==
    ASSUME IInv, [Next]_vars, disk'.clean, disk'.ours, ~(disk.clean /\ disk.ours)
    PROVE  \/ ~os_ending /\ os_ending'
           \/ ~alive'.views /\ ~alive'.window /\ ~alive'.com
<1>1. seq \in State /\ OtherTypes
  BY Present
<1>2. disk' # disk
  OBVIOUS
<1>3. ~(\/ UserClose \/ RetryClose
        \/ EnterShell \/ LeaveShell
        \/ StartFileOperation \/ TransferStarted \/ TransferFinished
        \/ FileOperationReturns \/ FileOperationFinishedArrives
        \/ \E c \in TransferChoices : TransferPromptAnswered(c)
        \/ DragEnter \/ HoverDragLeave \/ ListDragLeave \/ BeginListDrag
        \/ ListDragEnds \/ EnterModal \/ LeaveModal \/ KilledByOs
        \/ UNCHANGED vars)
  BY <1>2, OtherStepsKeepClosing
<1>4. \A saved \in BOOLEAN : ~WriteSession(FALSE, saved)
  <2> SUFFICES ASSUME NEW saved \in BOOLEAN, WriteSession(FALSE, saved)
               PROVE  FALSE
    OBVIOUS
  <2> DEFINE w == [clean |-> FALSE, current |-> TRUE, ours |-> TRUE]
  <2>1. disk' \in {disk, w}
    BY DEF WriteSession
  <2>2. ~w.clean
    OBVIOUS
  <2>3. QED
    BY <1>2, <2>1, <2>2
<1>5. CASE DeferredShutdownArrives
  BY <1>2, <1>4, <1>5 DEF DeferredShutdownArrives
<1>6. CASE SavePromptAnswered \/ EndSessionCancelled \/ Terminated
  BY <1>2, <1>3, <1>6 DEF SavePromptAnswered, EndSessionCancelled, Terminated
<1>7. CASE EndSessionConfirmed
  BY <1>7 DEF EndSessionConfirmed
<1>8. CASE Edit
  <2>1. disk' = [disk EXCEPT !.current = FALSE]
    BY <1>8 DEF Edit
  <2>2. disk'.clean = disk.clean /\ disk'.ours = disk.ours
    BY <1>1, <2>1 DEF OtherTypes, Documents
  <2>3. QED
    BY <2>2
<1>9. CASE SaveTimer
  BY <1>4, <1>9 DEF SaveTimer
<1>10. CASE MainLoopExits
  <2>1. FinalizeProcess(seq, disk)
        /\ alive' = [alive EXCEPT !.views = FALSE, !.com = FALSE]
    BY <1>10 DEF MainLoopExits
  <2>2. seq.main_window_destroyed
    BY <1>2, <2>1 DEF FinalizeProcess
  <2>3. ~alive.window
    BY <2>2, Present DEF ClosingIsClear
  <2>4. QED
    BY <1>1, <2>1, <2>3 DEF OtherTypes
<1>11. CASE TeardownFinished
  <2> DEFINE w == [clean |-> FALSE, current |-> TRUE, ours |-> TRUE]
             gone == window_destroyed(views_destroyed(seq).state).state
             final == TopIs({"end_teardown"})
  <2>1. /\ \E d \in {disk, w} : IF final THEN FinalizeProcess(gone, d) ELSE disk' = d
        /\ alive' = [views |-> FALSE, window |-> FALSE, com |-> alive.com /\ ~final]
    BY <1>11 DEF TeardownFinished
  <2>2. ~w.clean
    OBVIOUS
  <2>3. final
    <3> SUFFICES ASSUME ~final
                 PROVE  FALSE
      OBVIOUS
    <3>1. disk' \in {disk, w}
      BY <2>1
    <3>2. QED
      BY <1>2, <2>2, <3>1
  <2>4. QED
    BY <2>1, <2>3
<1>12. QED
  BY <1>3, <1>5, <1>6, <1>7, <1>8, <1>9, <1>10, <1>11 DEF Next

\* The views go down with the latest session on disk, unless Windows ends the
\* session or the user has answered the save-failure box; and the marker of a
\* clean end is written when views, window and COM are gone, or by the
\* checkpoint of WM_ENDSESSION.
THEOREM DiskIsTold == Spec => DiskTellsTheEnd
<1>1. IInv /\ [Next]_vars =>
        [~seq.closing /\ seq'.closing =>
            disk'.current \/ os_ending' \/ TopIs({"save_prompt"})]_vars
  BY TeardownBeginsSaved
<1>2. IInv /\ [Next]_vars =>
        [disk'.clean /\ disk'.ours /\ ~(disk.clean /\ disk.ours) =>
            \/ ~os_ending /\ os_ending'
            \/ ~alive'.views /\ ~alive'.window /\ ~alive'.com]_vars
  BY MarkerWrittenLast
<1>3. QED
  BY <1>1, <1>2, InvHolds, PTL
     DEF Spec, DiskTellsTheEnd, SavedBeforeTeardown, MarkerAfterTeardown
===============================================================================
