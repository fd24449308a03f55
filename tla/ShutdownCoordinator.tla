------------------------ MODULE ShutdownCoordinator -------------------------
(***************************************************************************)
(* The close sequence of PaneDock: ShutdownCoordinator                      *)
(* (src/core/shutdown_coordinator.cpp), ShellReentryGuard::leave, the       *)
(* AppShutdownEffects adapter and the message handlers of main.cpp that     *)
(* feed it, all on the one UI thread.                                       *)
(*                                                                          *)
(* The UI thread is a call stack.  Each frame is a call that has not yet    *)
(* returned; most of them pump the message loop, so another handler may     *)
(* start on top of them.  stack[1] is the outermost frame and the empty     *)
(* stack is wWinMain's own message loop.                                    *)
(***************************************************************************)
EXTENDS ShutdownSequence, Sequences, FiniteSets

CONSTANTS
    MaxDepth,         \* nested calls the thread may hold at once
    MaxQueue,         \* capacity of the thread's posted-message queue
    MaxDrags,         \* OLE drag gates that may be held at once
    MaxPostFailures   \* PostMessageW failures for reasons other than capacity

ASSUME BoundsAssumption ==
    /\ MaxDepth \in Nat \ {0}
    /\ MaxQueue \in Nat \ {0}
    /\ MaxDrags \in Nat
    /\ MaxPostFailures \in Nat

VARIABLES
    seq,        \* ShutdownSequence::State
    stack,      \* the UI thread's call stack
    queue,      \* messages posted to the main window, oldest first
    prompt,     \* TransferCloseDialog: its window and its unread result
    disk,       \* what read_session would return
    dirty,      \* SessionWriter::dirty_
    alive,      \* which of the views, the main window and COM still exist
    process,    \* "running", "exited" or "killed" by the OS
    os_ending,  \* Windows has confirmed the session end
    caption,    \* the title bar says "Closing..."
    intent,     \* history: a close the user asked for ("merged" when a session
                \* end was already pending), and a checkpoint written for the OS
    failures    \* post failures so far

vars == <<seq, stack, queue, prompt, disk, dirty, alive, process, os_ending,
          caption, intent, failures>>

-----------------------------------------------------------------------------
(* Frames of the call stack. *)

\* run_file_operation's Shell call before, during and after the transfer that
\* its progress sink brackets with started() and finished().
FileOpFrames == {"file_op", "file_op_live", "file_op_over"}

\* Frames inside a ShellCallScope.  "drag_leave" is PaneListDropTarget leaving
\* its provider.
ShellFrames == FileOpFrames \cup {"shell", "drag_leave"}

\* Frames that hold a drag gate: DoDragDrop, and a list target's leave.
DragFrames == {"drag", "drag_leave"}

\* destroy_views, called from the loop's continuation or from WM_ENDSESSION.
TeardownFrames == {"teardown", "end_teardown"}

\* Frames that pump messages.  "drag" is DoDragDrop, "modal" any modal loop
\* that holds no gate (moving the window, a message box).
PumpFrames == ShellFrames \cup TeardownFrames \cup {"drag", "modal", "save_prompt"}

\* "request_close" retries a close whose post failed; "file_op_tail" is the
\* rest of run_file_operation after its scope.  Neither pumps.
Frames == PumpFrames \cup {"request_close", "file_op_tail"}

Messages == {"deferred_shutdown", "file_operation_finished"}

TransferChoices == {"keep_open", "close_after_transfer", "cancel_and_close"}

Documents == [clean : BOOLEAN, current : BOOLEAN, ours : BOOLEAN]

TypeOK ==
    /\ seq \in State
    /\ stack \in Seq(Frames)
    /\ queue \in Seq(Messages)
    /\ prompt \in [window : {"hidden", "shown", "cancelling"},
                   result : TransferChoices \cup {"none"}]
    /\ disk \in Documents
    /\ dirty \in BOOLEAN
    /\ alive \in [views : BOOLEAN, window : BOOLEAN, com : BOOLEAN]
    /\ process \in {"running", "exited", "killed"}
    /\ os_ending \in BOOLEAN
    /\ caption \in BOOLEAN
    /\ intent \in [user_close : {"no", "yes", "merged"}, checkpoint : BOOLEAN]
    /\ failures \in Nat

Push(base, f) == Append(base, f)
Pop == SubSeq(stack, 1, Len(stack) - 1)
TopIs(fs) == stack # <<>> /\ stack[Len(stack)] \in fs
Positions(st, fs) == {i \in 1..Len(st) : st[i] \in fs}
OnStack(fs) == Positions(stack, fs) # {}

\* Some frame is pumping and the main window can receive a message.  The main
\* loop stops pumping once quit_requested, and reads a pending transfer answer
\* before it looks at the next message.
Pumping ==
    /\ process = "running"
    /\ alive.window
    /\ IF stack = <<>> THEN ~seq.quit_requested /\ prompt.result = "none"
                       ELSE TopIs(PumpFrames)

RoomToNest == Len(stack) < MaxDepth

\* Leaves room for the two messages that work already under way may post.
QueueRoom == Len(queue) + 2 <= MaxQueue

-----------------------------------------------------------------------------
(* The startup write either succeeded or left the previous document.  *)
Init ==
    /\ seq = InitialState
    /\ stack = <<>>
    /\ queue = <<>>
    /\ prompt = [window |-> "hidden", result |-> "none"]
    /\ \/ /\ dirty = FALSE
          /\ disk = [clean |-> FALSE, current |-> TRUE, ours |-> TRUE]
       \/ /\ dirty = TRUE
          /\ \E c \in BOOLEAN :
                disk = [clean |-> c, current |-> TRUE, ours |-> FALSE]
    /\ alive = [views |-> TRUE, window |-> TRUE, com |-> TRUE]
    /\ process = "running"
    /\ os_ending = FALSE
    /\ caption = FALSE
    /\ intent = [user_close |-> "no", checkpoint |-> FALSE]
    /\ failures = 0

-----------------------------------------------------------------------------
(* SessionWriter::write.  A failed write normally leaves the old document;  *)
(* when even the restoring rename fails, the new one is recovered instead.  *)
WriteSession(clean, saved) ==
    LET written == [clean |-> clean, current |-> TRUE, ours |-> TRUE] IN
    /\ dirty' = ~saved
    /\ IF saved THEN disk' = written ELSE disk' \in {disk, written}

\* PostMessageW to the main window; q is the queue the handler works on.
PostSucceeds(q, m) ==
    /\ Len(q) < MaxQueue
    /\ queue' = Append(q, m)
    /\ UNCHANGED failures

PostFails(q) ==
    /\ failures < MaxPostFailures
    /\ failures' = failures + 1
    /\ queue' = q

NoPost(q) == queue' = q /\ UNCHANGED failures

\* Queue the continuation of a deferred shutdown; a failed post withdraws the
\* deferral and starts the close again while the window lives.
QueueContinuation(s, base, q) ==
    \/ /\ PostSucceeds(q, "deferred_shutdown")
       /\ seq' = deferred_shutdown_queued(s).state
       /\ stack' = base
    \/ /\ PostFails(q)
       /\ seq' = deferred_shutdown_queue_failed(
                     deferred_shutdown_queued(s).state).state
       /\ stack' = IF alive.window THEN Push(base, "request_close") ELSE base

\* run(ShutdownAction::defer): inside a Shell call the guard re-arms it.
RunDefer(s, base, q) ==
    /\ caption' = TRUE
    /\ IF s.shell_call_depth # 0 \/ s.shutdown_message_queued
       THEN seq' = s /\ stack' = base /\ NoPost(q)
       ELSE QueueContinuation(s, base, q)

\* request_close() and begin(): a pending session end re-enters as end_session.
CloseStep(s) == IF s.end_session_pending THEN end_session(s)
                                         ELSE close_requested(s)

RequestClose(s, base, q) ==
    LET r == CloseStep(s) IN
    IF r.act = "defer"
    THEN RunDefer(r.state, base, q)
    ELSE /\ seq' = r.state
         /\ stack' = base
         /\ NoPost(q)
         /\ UNCHANGED caption

\* show_transfer_prompt: an open prompt is only brought to the front, and
\* creating its window may fail.
ShowTransferPrompt ==
    IF CloseStep(seq).act = "prompt_transfer" /\ prompt.window = "hidden"
    THEN \E w \in {"shown", "hidden"} : prompt' = [window |-> w, result |-> "none"]
    ELSE UNCHANGED prompt

DismissTransferPrompt == prompt' = [window |-> "hidden", result |-> "none"]

\* complete_deferred_close(): the transfer that a close was waiting for is
\* over.  unread is what remains of the prompt when nothing is waiting.
CompleteDeferredClose(s, base, q, unread) ==
    IF ~s.close_after_file_operation \/ s.file_operation_call_active
       \/ s.file_operation_in_progress \/ s.closing
    THEN /\ seq' = s
         /\ stack' = base
         /\ NoPost(q)
         /\ prompt' = unread
         /\ UNCHANGED caption
    ELSE DismissTransferPrompt /\ RequestClose(s, base, q)

\* finish(): teardown_started, then destroy_views, which drops the prompts
\* and revokes the drop targets (each one a drag_finished) before it reaches a
\* pane.  The caption is left alone at a session end.
BeginTeardown(s, base, frame) ==
    LET held == Cardinality(Positions(base, DragFrames)) IN
    /\ seq' = [teardown_started(s).state EXCEPT !.drag_target_count = held,
                                                !.drag_in_progress = held # 0]
    /\ stack' = Push(base, frame)
    /\ DismissTransferPrompt
    /\ caption' = (caption \/ ~s.end_session_pending)

-----------------------------------------------------------------------------
(* Closing by the user: WM_CLOSE, SC_CLOSE or the caption button.  *)
UserClose ==
    /\ Pumping
    /\ QueueRoom
    /\ RequestClose(seq, stack, queue)
    /\ ShowTransferPrompt
    /\ intent' = [intent EXCEPT !.user_close =
                    IF seq.end_session_pending
                    THEN IF @ = "yes" THEN @ ELSE "merged"
                    ELSE IF CloseStep(seq).act = "none" THEN @ ELSE "yes"]
    /\ UNCHANGED <<disk, dirty, alive, process, os_ending>>

\* The recursive request_close() after a failed post.
RetryClose ==
    /\ process = "running"
    /\ TopIs({"request_close"})
    /\ RequestClose(seq, Pop, queue)
    /\ ShowTransferPrompt
    /\ UNCHANGED <<disk, dirty, alive, process, os_ending, intent>>

\* kDeferredShutdownMessage: save the session and go on to the teardown, or
\* ask the user when an interactive save fails.
DeferredShutdownArrives ==
    /\ Pumping
    /\ queue # <<>> /\ Head(queue) = "deferred_shutdown"
    /\ RoomToNest
    /\ LET r == deferred_shutdown_ready(seq) IN
       IF r.act # "save_session"
       THEN /\ seq' = r.state
            /\ UNCHANGED <<stack, prompt, disk, dirty, caption>>
       ELSE \E saved \in BOOLEAN :
            /\ WriteSession(FALSE, saved)
            /\ LET after == IF saved THEN save_succeeded(r.state)
                                     ELSE save_failed(r.state) IN
               IF after.act = "destroy_views"
               THEN BeginTeardown(after.state, stack, "teardown")
               ELSE /\ seq' = save_prompt_started(after.state).state
                    /\ stack' = Push(stack, "save_prompt")
                    /\ UNCHANGED <<prompt, caption>>
    /\ queue' = Tail(queue)
    /\ UNCHANGED <<alive, process, os_ending, intent, failures>>

\* The save-failure message box returns.  A session end that arrived inside it
\* wins; otherwise only an explicit No closes.
SavePromptAnswered ==
    /\ process = "running"
    /\ TopIs({"save_prompt"})
    /\ LET r == save_prompt_finished(seq) IN
       \/ /\ r.act = "destroy_views"
          /\ BeginTeardown(r.state, Pop, "teardown")
          /\ UNCHANGED intent
       \/ /\ r.act = "none"
          /\ seq' = save_keep_open(r.state).state
          /\ stack' = Pop
          /\ caption' = FALSE
          /\ intent' = [intent EXCEPT !.user_close = "no"]
          /\ UNCHANGED prompt
       \/ /\ r.act = "none"
          /\ BeginTeardown(save_discarded(r.state).state, Pop, "teardown")
          /\ UNCHANGED intent
    /\ UNCHANGED <<queue, disk, dirty, alive, process, os_ending, failures>>

\* finalize_process: COM goes, then the clean marker is written, once.
FinalizeProcess(s, d) ==
    IF alive.com /\ s.shutdown_clean_marker_armed /\ s.main_window_destroyed
    THEN disk' \in {d, [clean |-> TRUE, current |-> TRUE, ours |-> TRUE]}
    ELSE disk' = d

\* destroy_views returns: the window follows.  WM_DESTROY writes a session
\* nobody tried to save; the window's messages go with it.  WM_ENDSESSION then
\* finalizes the process inside its own handler.
TeardownFinished ==
    /\ process = "running"
    /\ TopIs(TeardownFrames)
    /\ LET gone  == window_destroyed(views_destroyed(seq).state).state
           write == dirty /\ ~gone.shutdown_save_attempted
           final == TopIs({"end_teardown"})
       IN  /\ seq' = IF write THEN save_started(gone).state ELSE gone
           /\ \E d \in IF write
                       THEN {disk, [clean |-> FALSE, current |-> TRUE, ours |-> TRUE]}
                       ELSE {disk} :
                IF final THEN FinalizeProcess(gone, d) ELSE disk' = d
           /\ dirty' \in IF write THEN BOOLEAN ELSE {dirty}
           /\ alive' = [views |-> FALSE, window |-> FALSE,
                        com |-> alive.com /\ ~final]
    /\ stack' = Pop
    /\ queue' = <<>>
    /\ UNCHANGED <<prompt, process, os_ending, caption, intent, failures>>

\* wWinMain leaves its loop on quit_requested and runs the process tail.
MainLoopExits ==
    /\ process = "running"
    /\ stack = <<>>
    /\ prompt.result = "none"
    /\ seq.quit_requested
    /\ FinalizeProcess(seq, disk)
    /\ alive' = [alive EXCEPT !.views = FALSE, !.com = FALSE]
    /\ process' = "exited"
    /\ UNCHANGED <<seq, stack, queue, prompt, dirty, os_ending, caption, intent,
                   failures>>

-----------------------------------------------------------------------------
(* Session end by the OS.  *)

\* WM_ENDSESSION(TRUE): the checkpoint is written before anything else, and
\* the teardown runs only when nothing else owns the stack.
EndSessionConfirmed ==
    /\ Pumping
    /\ QueueRoom
    /\ ~os_ending
    /\ RoomToNest
    /\ \E saved \in BOOLEAN :
       LET r == end_session(seq) IN
       /\ WriteSession(TRUE, saved)
       /\ intent' = [intent EXCEPT !.checkpoint = saved]
       /\ IF \/ r.state.closing
             \/ r.act # "defer"
             \/ r.state.shell_call_depth # 0
             \/ r.state.drag_in_progress
          THEN seq' = r.state /\ UNCHANGED <<stack, prompt, caption>>
          ELSE LET started == save_started(r.state).state IN
               BeginTeardown(IF saved THEN save_succeeded(started).state
                                      ELSE save_failed(started).state,
                             stack, "end_teardown")
    /\ os_ending' = TRUE
    /\ UNCHANGED <<queue, alive, process, failures>>

\* WM_ENDSESSION(FALSE): the session goes on.
EndSessionCancelled ==
    /\ Pumping
    /\ os_ending
    /\ LET r == end_session_cancelled(seq) IN
       /\ seq' = r.state
       /\ caption' = (caption /\ ~(seq.end_session_pending
                                   /\ ~is_shutting_down(r.state)))
    /\ os_ending' = FALSE
    /\ intent' = [intent EXCEPT !.checkpoint = FALSE]
    /\ UNCHANGED <<stack, queue, prompt, disk, dirty, alive, process, failures>>

\* Windows ends the process at any time after the confirmation.
KilledByOs ==
    /\ process = "running"
    /\ os_ending
    /\ process' = "killed"
    /\ UNCHANGED <<seq, stack, queue, prompt, disk, dirty, alive, os_ending,
                   caption, intent, failures>>

-----------------------------------------------------------------------------
(* Shell calls.  ShellCallScope is held around everything that may pump.  *)

EnterShell ==
    /\ Pumping
    /\ RoomToNest
    /\ ~is_shutting_down(seq)
    /\ seq' = shell_call_entered(seq).state
    /\ stack' = Push(stack, "shell")
    /\ UNCHANGED <<queue, prompt, disk, dirty, alive, process, os_ending,
                   caption, intent, failures>>

\* ShellReentryGuard::leave.  A list target finishes its drag just before, and
\* run_file_operation goes on to its tail.
LeaveShell ==
    /\ process = "running"
    /\ TopIs(ShellFrames \ {"file_op_live"})
    /\ LET before == IF TopIs({"drag_leave"}) THEN drag_finished(seq).state
                                              ELSE seq
           left   == shell_call_left(before)
           base   == IF TopIs(FileOpFrames) THEN Push(Pop, "file_op_tail")
                                            ELSE Pop
       IN  IF left.act = "defer"
           THEN QueueContinuation(left.state, base, queue)
           ELSE seq' = left.state /\ stack' = base /\ NoPost(queue)
    /\ UNCHANGED <<prompt, disk, dirty, alive, process, os_ending, caption,
                   intent>>

-----------------------------------------------------------------------------
(* File operations: run_file_operation and the progress sink's callbacks.  *)

\* Files are copied from the foreground window, which a save-failure message
\* box is not.
StartFileOperation ==
    /\ Pumping
    /\ RoomToNest
    /\ QueueRoom
    /\ ~OnStack({"save_prompt"})
    /\ ~seq.file_operation_call_active
    /\ ~is_shutting_down(seq)
    /\ seq' = shell_call_entered(file_operation_call_started(seq).state).state
    /\ stack' = Push(stack, "file_op")
    /\ UNCHANGED <<queue, prompt, disk, dirty, alive, process, os_ending,
                   caption, intent, failures>>

ReplaceTop(f) == stack' = Push(Pop, f)

\* IFileOperationProgressSink::StartOperations.
TransferStarted ==
    /\ process = "running"
    /\ TopIs({"file_op"})
    /\ seq' = file_operation_started(seq).state
    /\ ReplaceTop("file_op_live")
    /\ UNCHANGED <<queue, prompt, disk, dirty, alive, process, os_ending,
                   caption, intent, failures>>

\* FinishOperations: the notification's post is not checked.
TransferFinished ==
    /\ process = "running"
    /\ TopIs({"file_op_live"})
    /\ seq' = file_operation_finished(seq).state
    /\ ReplaceTop("file_op_over")
    /\ IF alive.window
       THEN PostSucceeds(queue, "file_operation_finished") \/ PostFails(queue)
       ELSE NoPost(queue)
    /\ UNCHANGED <<prompt, disk, dirty, alive, process, os_ending, caption,
                   intent>>

\* The rest of run_file_operation.
FileOperationReturns ==
    /\ process = "running"
    /\ TopIs({"file_op_tail"})
    /\ LET over == file_operation_call_finished(
                       file_operation_finished(seq).state).state
       IN  CompleteDeferredClose(over, Pop, queue, prompt)
    /\ UNCHANGED <<disk, dirty, alive, process, os_ending, intent>>

\* kFileOperationFinishedMessage; the shutdown gate of window_proc swallows it.
FileOperationFinishedArrives ==
    /\ Pumping
    /\ queue # <<>> /\ Head(queue) = "file_operation_finished"
    /\ IF is_shutting_down(seq)
       THEN /\ queue' = Tail(queue)
            /\ UNCHANGED <<seq, stack, prompt, caption, failures>>
       ELSE CompleteDeferredClose(seq, stack, Tail(queue), prompt)
    /\ UNCHANGED <<disk, dirty, alive, process, os_ending, intent>>

-----------------------------------------------------------------------------
(* The transfer prompt, a modeless window.  *)

\* transfer_chosen().
TransferChosen(c, unread) ==
    CASE c = "keep_open" ->
           /\ seq' = transfer_keep_open(seq).state
           /\ prompt' = unread
           /\ intent' = [intent EXCEPT !.user_close = "no"]
           /\ UNCHANGED <<stack, queue, failures, caption>>
      [] c = "close_after_transfer" ->
           /\ CompleteDeferredClose(transfer_close_after_transfer(seq).state,
                                    stack, queue, unread)
           /\ UNCHANGED intent
      [] c = "cancel_and_close" ->
           /\ seq' = transfer_cancel_and_close(seq).state
           /\ prompt' = unread
           /\ UNCHANGED <<stack, queue, failures, caption, intent>>

\* A button of the prompt, or its close box (keep_open), which stays enabled
\* while the transfer is being cancelled.  The owner swallows the result while
\* it is shutting down; the result then waits for the main loop.
TransferPromptAnswered(c) ==
    /\ Pumping
    /\ prompt.window # "hidden"
    /\ prompt.window = "cancelling" => c = "keep_open"
    /\ LET w == IF c = "cancel_and_close" THEN "cancelling" ELSE "hidden" IN
       IF is_shutting_down(seq)
       THEN /\ prompt' = [window |-> w, result |-> c]
            /\ UNCHANGED <<seq, stack, queue, failures, caption, intent>>
       ELSE TransferChosen(c, [window |-> w, result |-> "none"])
    /\ UNCHANGED <<disk, dirty, alive, process, os_ending>>

-----------------------------------------------------------------------------
(* OLE drags.  Drop targets count a drag from DragEnter to DragLeave; a drag  *)
(* PaneDock sources itself counts for the whole of DoDragDrop.                *)

\* DragEnter never finds a window that a message box has disabled.
LiveTargets == seq.drag_target_count - Cardinality(Positions(stack, DragFrames))

DragEnter ==
    /\ Pumping
    /\ ~OnStack({"save_prompt"})
    /\ ~seq.closing
    /\ seq.drag_target_count < MaxDrags
    /\ seq' = drag_started(seq).state
    /\ UNCHANGED <<stack, queue, prompt, disk, dirty, alive, process, os_ending,
                   caption, intent, failures>>

\* DragHoverTarget::DragLeave or Drop.
HoverDragLeave ==
    /\ Pumping
    /\ LiveTargets > 0
    /\ LET r == drag_finished(seq) IN
       IF r.act = "defer"
       THEN RunDefer(r.state, stack, queue)
       ELSE /\ seq' = r.state
            /\ NoPost(queue)
            /\ UNCHANGED <<stack, caption>>
    /\ UNCHANGED <<prompt, disk, dirty, alive, process, os_ending, intent>>

\* PaneListDropTarget::DragLeave calls its Shell provider first.
ListDragLeave ==
    /\ Pumping
    /\ RoomToNest
    /\ LiveTargets > 0
    /\ seq' = shell_call_entered(seq).state
    /\ stack' = Push(stack, "drag_leave")
    /\ UNCHANGED <<queue, prompt, disk, dirty, alive, process, os_ending,
                   caption, intent, failures>>

\* Pane::begin_list_drag.
BeginListDrag ==
    /\ Pumping
    /\ RoomToNest
    /\ ~OnStack({"save_prompt"})
    /\ ~is_shutting_down(seq)
    /\ seq.shell_call_depth = 0
    /\ seq.drag_target_count < MaxDrags
    /\ seq' = drag_started(seq).state
    /\ stack' = Push(stack, "drag")
    /\ UNCHANGED <<queue, prompt, disk, dirty, alive, process, os_ending,
                   caption, intent, failures>>

ListDragEnds ==
    /\ process = "running"
    /\ TopIs({"drag"})
    /\ LET r == drag_finished(seq) IN
       IF r.act = "defer"
       THEN RunDefer(r.state, Pop, queue)
       ELSE /\ seq' = r.state
            /\ stack' = Pop
            /\ NoPost(queue)
            /\ UNCHANGED caption
    /\ UNCHANGED <<prompt, disk, dirty, alive, process, os_ending, intent>>

-----------------------------------------------------------------------------
(* Everything else that pumps or writes.  *)

\* A modal loop that holds no gate.
EnterModal ==
    /\ Pumping
    /\ RoomToNest
    /\ ~is_shutting_down(seq)
    /\ stack' = Push(stack, "modal")
    /\ UNCHANGED <<seq, queue, prompt, disk, dirty, alive, process, os_ending,
                   caption, intent, failures>>

LeaveModal ==
    /\ process = "running"
    /\ TopIs({"modal"})
    /\ stack' = Pop
    /\ UNCHANGED <<seq, queue, prompt, disk, dirty, alive, process, os_ending,
                   caption, intent, failures>>

\* Any change of the model that the session has to keep.
Edit ==
    /\ Pumping
    /\ ~is_shutting_down(seq)
    /\ dirty' = TRUE
    /\ disk' = [disk EXCEPT !.current = FALSE]
    /\ UNCHANGED <<seq, stack, queue, prompt, alive, process, os_ending, caption,
                   intent, failures>>

\* Mutant: the debounced save carries the marker of a clean end.
SaveTimerMutant ==
    /\ Pumping
    /\ dirty
    /\ ~is_shutting_down(seq)
    /\ seq.shell_call_depth = 0
    /\ \E saved \in BOOLEAN : WriteSession(TRUE, saved)
    /\ UNCHANGED <<seq, stack, queue, prompt, alive, process, os_ending, caption,
                   intent, failures>>

\* The debounced save, which a Shell call puts off.
SaveTimer ==
    /\ Pumping
    /\ dirty
    /\ ~is_shutting_down(seq)
    /\ seq.shell_call_depth = 0
    /\ \E saved \in BOOLEAN : WriteSession(FALSE, saved)
    /\ UNCHANGED <<seq, stack, queue, prompt, alive, process, os_ending, caption,
                   intent, failures>>

\* The process is gone.
Terminated ==
    /\ process # "running"
    /\ UNCHANGED vars

-----------------------------------------------------------------------------
Next ==
    \/ UserClose \/ RetryClose \/ DeferredShutdownArrives \/ SavePromptAnswered
    \/ TeardownFinished \/ MainLoopExits
    \/ EndSessionConfirmed \/ EndSessionCancelled \/ KilledByOs
    \/ EnterShell \/ LeaveShell
    \/ StartFileOperation \/ TransferStarted \/ TransferFinished
    \/ FileOperationReturns \/ FileOperationFinishedArrives
    \/ \E c \in TransferChoices : TransferPromptAnswered(c)
    \/ DragEnter \/ HoverDragLeave \/ ListDragLeave \/ BeginListDrag
    \/ ListDragEnds
    \/ EnterModal \/ LeaveModal \/ Edit \/ SaveTimer
    \/ Terminated

Spec == Init /\ [][Next]_vars

\* Every call returns and every box is answered, at each level of the stack:
\* other calls may nest above it again and again, hence strong fairness.  A
\* drag ends.  Posted messages are served, and not always while a drag or a
\* Shell call holds the close back.
Returns ==
    \/ LeaveShell \/ TransferStarted \/ TransferFinished \/ FileOperationReturns
    \/ ListDragEnds \/ LeaveModal \/ SavePromptAnswered \/ TeardownFinished
    \/ RetryClose \/ MainLoopExits

Dispatch == DeferredShutdownArrives \/ FileOperationFinishedArrives

GatesClear == seq.drag_target_count = 0 /\ seq.shell_call_depth = 0

Fairness ==
    /\ \A d \in 0..MaxDepth + 1 : SF_vars(Returns /\ Len(stack) = d)
    /\ SF_vars(Dispatch /\ GatesClear)
    /\ SF_vars(HoverDragLeave)

FairSpec == Spec /\ Fairness

-----------------------------------------------------------------------------
(* Properties.  *)

\* The reducer's counters and flags describe the real call stack: a gate is
\* held exactly while a call that needs it has not returned.  A scope that
\* leaves twice, or an OLE callback without its partner, breaks it.
GatesMatchStack ==
    /\ TypeOK
    /\ seq.shell_call_depth = Cardinality(Positions(stack, ShellFrames))
    /\ seq.file_operation_call_active
         <=> OnStack(FileOpFrames \cup {"file_op_tail"})
    /\ seq.file_operation_in_progress <=> OnStack({"file_op_live"})
    /\ seq.shutdown_prompt_active <=> OnStack({"save_prompt"})
    /\ seq.drag_in_progress <=> seq.drag_target_count # 0
    /\ seq.drag_target_count >= Cardinality(Positions(stack, DragFrames))

\* The views are never destroyed underneath a Shell call, an OLE drag, a file
\* operation or the save prompt that still has to return into them.
GateFrames == ShellFrames \cup DragFrames \cup {"file_op_tail", "save_prompt"}
TeardownOnClearStack == OnStack(TeardownFrames) => ~OnStack(GateFrames)

\* A deferred close always has something that will resume it: a gate whose
\* release re-arms it, a posted continuation, or the retry of a failed post.
CloseNeverStranded ==
    /\ seq.shutdown_deferred /\ ~OnStack({"request_close"}) =>
         \/ seq.shell_call_depth # 0
         \/ seq.drag_target_count # 0
         \/ seq.shutdown_message_queued
    /\ seq.shutdown_message_queued =>
         \E i \in DOMAIN queue : queue[i] = "deferred_shutdown"

\* A close the user asked for stays on its way until the user withdraws it,
\* whatever session ends are confirmed and cancelled meanwhile.
UserCloseKept ==
    intent.user_close = "yes" =>
        \/ is_shutting_down(seq)
        \/ seq.close_after_file_operation
        \/ OnStack({"save_prompt", "request_close"})

\* Teardown begins only with the latest session on disk, unless Windows is
\* ending the session or the user has answered the save-failure box.
SavedBeforeTeardown ==
    [][~seq.closing /\ seq'.closing =>
         disk'.current \/ os_ending' \/ TopIs({"save_prompt"})]_vars

\* The clean marker becomes true only once the views, the window and COM are
\* gone, or in the checkpoint that WM_ENDSESSION writes.
MarkerAfterTeardown ==
    [][disk'.clean /\ disk'.ours /\ ~(disk.clean /\ disk.ours) =>
         \/ ~os_ending /\ os_ending'
         \/ ~alive'.views /\ ~alive'.window /\ ~alive'.com]_vars

\* What the user is shown of a close is true.  The transfer prompt is never left
\* open, and no answer of it unread, after the transfer it asks about; and
\* "Closing..." is shown only while something is closing.
CloseShownTruthfully ==
    /\ prompt.window # "hidden" =>
          /\ OnStack(FileOpFrames \cup {"file_op_tail"})
          /\ seq.close_after_file_operation
    /\ stack = <<>> => prompt.result = "none"
    /\ caption => \/ is_shutting_down(seq)
                  \/ seq.close_after_file_operation
                  \/ OnStack({"save_prompt", "request_close"})

\* However calls, drags, saves, prompts and session ends interleave, a close
\* under way is neither lost nor stuck, and the user is shown no other.
CloseKept == CloseNeverStranded /\ UserCloseKept /\ CloseShownTruthfully

\* What is on disk when the views go down, and when it says that they have.
DiskTellsTheEnd == SavedBeforeTeardown /\ MarkerAfterTeardown

\* Once the user closes, the process ends, unless the user keeps it open.
UserCloseResolves ==
    intent.user_close = "yes"
        ~> (process # "running" \/ intent.user_close # "yes")

\* A close is deferred only for a user or a session end that still wants it.
NoUnrequestedClose ==
    seq.shutdown_deferred => intent.user_close # "no" \/ os_ending

\* A process the OS kills after its checkpoint restarts as cleanly ended.
CheckpointSurvives ==
    process = "killed" /\ intent.checkpoint => disk.clean

\* While the program runs on, outside a session end, its marker is false.
MarkerFalseWhileRunning ==
    alive.views /\ ~seq.closing /\ ~os_ending /\ disk.ours => ~disk.clean
=============================================================================
