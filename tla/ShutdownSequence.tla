-------------------------- MODULE ShutdownSequence --------------------------
(***************************************************************************)
(* The shutdown reducer of src/core/shutdown.{h,cpp}.  ShutdownSequence is  *)
(* a pure state machine: step(event) updates its State and answers with the *)
(* ShutdownAction the caller must perform.  Every event is an operator that *)
(* maps a State to the pair <<state, action>> under the names state and     *)
(* act.  The module has no variables: ShutdownCoordinator owns the State.   *)
(***************************************************************************)
EXTENDS Naturals

\* enum class ShutdownAction.
ShutdownAction ==
    {"none", "defer", "prompt_transfer", "prompt_save_failure", "save_session",
     "destroy_views", "destroy_window", "write_clean_marker", "request_quit"}

\* struct ShutdownSequence::State.
State ==
    [quit_requested : BOOLEAN,
     closing : BOOLEAN,
     shutdown_prompt_active : BOOLEAN,
     shutdown_save_attempted : BOOLEAN,
     shutdown_clean_marker_armed : BOOLEAN,
     main_window_destroyed : BOOLEAN,
     end_session_pending : BOOLEAN,
     end_session_owns_close : BOOLEAN,
     cancel_file_operation_before_end_session : BOOLEAN,
     shell_call_depth : Nat,
     shutdown_deferred : BOOLEAN,
     shutdown_message_queued : BOOLEAN,
     drag_target_count : Nat,
     drag_in_progress : BOOLEAN,
     file_operation_call_active : BOOLEAN,
     file_operation_in_progress : BOOLEAN,
     close_after_file_operation : BOOLEAN,
     cancel_file_operation : BOOLEAN]

\* The default member initialisers of State.
InitialState ==
    [quit_requested |-> FALSE,
     closing |-> FALSE,
     shutdown_prompt_active |-> FALSE,
     shutdown_save_attempted |-> FALSE,
     shutdown_clean_marker_armed |-> FALSE,
     main_window_destroyed |-> FALSE,
     end_session_pending |-> FALSE,
     end_session_owns_close |-> FALSE,
     cancel_file_operation_before_end_session |-> FALSE,
     shell_call_depth |-> 0,
     shutdown_deferred |-> FALSE,
     shutdown_message_queued |-> FALSE,
     drag_target_count |-> 0,
     drag_in_progress |-> FALSE,
     file_operation_call_active |-> FALSE,
     file_operation_in_progress |-> FALSE,
     close_after_file_operation |-> FALSE,
     cancel_file_operation |-> FALSE]

\* What a call of step() leaves behind: the new State and the returned action.
Stepped(s, a) == [state |-> s, act |-> a]

\* The single teardown gate every caller asks.
is_shutting_down(s) == s.closing \/ s.shutdown_deferred

\* A deferred shutdown resumes only when every gate has cleared.
shutdown_ready_to_resume(s) ==
    /\ s.shutdown_deferred
    /\ ~s.shutdown_message_queued
    /\ ~s.closing
    /\ s.shell_call_depth = 0
    /\ s.drag_target_count = 0

\* A close, a deferral, a prompt or a save already owns the close sequence.
CloseUnderWay(s) ==
    \/ s.closing
    \/ s.shutdown_deferred
    \/ s.shutdown_message_queued
    \/ s.shutdown_prompt_active
    \/ s.shutdown_save_attempted

-----------------------------------------------------------------------------
close_requested(s) ==
    IF CloseUnderWay(s) \/ s.quit_requested
    THEN Stepped(s, "none")
    ELSE IF s.file_operation_in_progress
    THEN Stepped([s EXCEPT !.close_after_file_operation = TRUE], "prompt_transfer")
    ELSE Stepped([s EXCEPT !.shutdown_deferred = TRUE], "defer")

\* The first confirmed session end records whether the close is its own and
\* what the transfer's cancel flag was, so that a cancellation can undo both.
RecordSessionEnd(s) ==
    IF s.end_session_pending
    THEN s
    ELSE [s EXCEPT
            !.end_session_pending = TRUE,
            !.end_session_owns_close =
                ~CloseUnderWay(s) /\ ~s.close_after_file_operation,
            !.cancel_file_operation_before_end_session = s.cancel_file_operation]

end_session(s) ==
    LET p == RecordSessionEnd(s) IN
    IF p.closing \/ p.quit_requested
    THEN Stepped(p, "none")
    ELSE IF p.file_operation_call_active \/ p.file_operation_in_progress
    THEN Stepped([p EXCEPT !.close_after_file_operation = TRUE,
                           !.cancel_file_operation = TRUE], "none")
    ELSE IF p.drag_in_progress
    THEN Stepped([p EXCEPT !.shutdown_deferred = TRUE], "defer")
    ELSE IF CloseUnderWay(p)
    THEN Stepped(p, "none")
    ELSE Stepped([p EXCEPT !.shutdown_deferred = TRUE], "defer")

\* A cancelled session end withdraws the close only when it started it.
UnwindOwnClose(s) ==
    IF s.end_session_owns_close
    THEN [s EXCEPT !.shutdown_deferred = FALSE,
                   !.shutdown_message_queued = FALSE,
                   !.shutdown_save_attempted = FALSE,
                   !.close_after_file_operation = FALSE]
    ELSE s

end_session_cancelled(s) ==
    IF ~s.end_session_pending \/ s.closing
    THEN Stepped(s, "none")
    ELSE Stepped([UnwindOwnClose(s) EXCEPT
                    !.end_session_pending = FALSE,
                    !.cancel_file_operation =
                        s.cancel_file_operation_before_end_session,
                    !.end_session_owns_close = FALSE], "none")

-----------------------------------------------------------------------------
\* The two gates a nested message pump can hold closed: OLE drag targets and
\* Shell calls.  Leaving the last one re-arms a deferred shutdown.
drag_started(s) ==
    Stepped([s EXCEPT !.drag_target_count = @ + 1,
                      !.drag_in_progress = TRUE], "none")

Resume(s) == Stepped(s, IF shutdown_ready_to_resume(s) THEN "defer" ELSE "none")

\* Mutants: the flag is taken before the count; the deferral is not re-armed.
drag_finished_early_flag(s) ==
    IF s.drag_target_count = 0
    THEN Stepped(s, "none")
    ELSE Resume([s EXCEPT !.drag_target_count = @ - 1,
                          !.drag_in_progress = s.drag_target_count # 0])
drag_finished_no_resume(s) ==
    IF s.drag_target_count = 0
    THEN Stepped(s, "none")
    ELSE Stepped([s EXCEPT !.drag_target_count = @ - 1,
                           !.drag_in_progress = s.drag_target_count - 1 # 0],
                 "none")

drag_finished(s) ==
    IF s.drag_target_count = 0
    THEN Stepped(s, "none")
    ELSE Resume([s EXCEPT !.drag_target_count = @ - 1,
                          !.drag_in_progress = s.drag_target_count - 1 # 0])

shell_call_entered(s) ==
    Stepped([s EXCEPT !.shell_call_depth = @ + 1], "none")

\* Mutant: the outermost Shell call does not re-arm the deferral.
shell_call_left_no_resume(s) ==
    IF s.shell_call_depth = 0
    THEN Stepped(s, "none")
    ELSE Stepped([s EXCEPT !.shell_call_depth = @ - 1], "none")

shell_call_left(s) ==
    IF s.shell_call_depth = 0
    THEN Stepped(s, "none")
    ELSE Resume([s EXCEPT !.shell_call_depth = @ - 1])

-----------------------------------------------------------------------------
\* The posted continuation of a deferred shutdown.
deferred_shutdown_queued(s) ==
    Stepped([s EXCEPT !.shutdown_message_queued = @ \/ s.shutdown_deferred],
            "none")

\* Mutant: the drag gate is not asked.
deferred_shutdown_ready_no_drag_gate(s) ==
    IF s.closing \/ ~s.shutdown_deferred
    THEN Stepped(s, "none")
    ELSE IF s.shell_call_depth # 0
    THEN Stepped([s EXCEPT !.shutdown_message_queued = FALSE], "none")
    ELSE LET r == [s EXCEPT !.shutdown_deferred = FALSE,
                            !.shutdown_message_queued = FALSE] IN
         IF r.shutdown_prompt_active \/ r.shutdown_save_attempted
         THEN Stepped(r, "none")
         ELSE Stepped([r EXCEPT !.shutdown_save_attempted = TRUE],
                      "save_session")

deferred_shutdown_ready(s) ==
    IF s.closing \/ ~s.shutdown_deferred
    THEN Stepped(s, "none")
    ELSE IF s.shell_call_depth # 0 \/ s.drag_in_progress
    THEN Stepped([s EXCEPT !.shutdown_message_queued = FALSE], "none")
    ELSE LET r == [s EXCEPT !.shutdown_deferred = FALSE,
                            !.shutdown_message_queued = FALSE] IN
         IF r.shutdown_prompt_active \/ r.shutdown_save_attempted
         THEN Stepped(r, "none")
         ELSE Stepped([r EXCEPT !.shutdown_save_attempted = TRUE],
                      "save_session")

deferred_shutdown_queue_failed(s) ==
    Stepped([s EXCEPT !.shutdown_deferred = FALSE,
                      !.shutdown_message_queued = FALSE], "none")

-----------------------------------------------------------------------------
\* File operations and the transfer prompt's three answers.
file_operation_call_started(s) ==
    Stepped([s EXCEPT !.file_operation_call_active = TRUE,
                      !.file_operation_in_progress = FALSE,
                      !.close_after_file_operation = FALSE,
                      !.cancel_file_operation = FALSE], "none")

file_operation_call_finished(s) ==
    Stepped([s EXCEPT !.file_operation_call_active = FALSE], "none")

file_operation_started(s) ==
    Stepped([s EXCEPT !.file_operation_in_progress = TRUE], "none")

file_operation_finished(s) ==
    Stepped([s EXCEPT !.file_operation_in_progress = FALSE], "none")

transfer_keep_open(s) ==
    Stepped([s EXCEPT !.close_after_file_operation = FALSE,
                      !.cancel_file_operation = FALSE], "none")

transfer_close_after_transfer(s) ==
    Stepped([s EXCEPT !.close_after_file_operation = TRUE,
                      !.cancel_file_operation = FALSE], "none")

transfer_cancel_and_close(s) ==
    Stepped([s EXCEPT !.close_after_file_operation = TRUE,
                      !.cancel_file_operation = TRUE], "none")

-----------------------------------------------------------------------------
\* The session save and the prompt a failed interactive save raises.
save_started(s) ==
    Stepped([s EXCEPT !.shutdown_save_attempted = TRUE], "none")

save_succeeded(s) ==
    Stepped([s EXCEPT !.shutdown_clean_marker_armed = TRUE], "destroy_views")

save_failed(s) ==
    Stepped([s EXCEPT !.shutdown_clean_marker_armed = FALSE],
            IF s.end_session_pending THEN "destroy_views"
                                     ELSE "prompt_save_failure")

save_prompt_started(s) ==
    Stepped([s EXCEPT !.shutdown_prompt_active = TRUE], "none")

save_prompt_finished(s) ==
    Stepped([s EXCEPT !.shutdown_prompt_active = FALSE],
            IF s.end_session_pending THEN "destroy_views" ELSE "none")

save_keep_open(s) ==
    Stepped([s EXCEPT !.shutdown_prompt_active = FALSE,
                      !.shutdown_save_attempted = FALSE,
                      !.shutdown_clean_marker_armed = FALSE], "none")

save_discarded(s) ==
    Stepped([s EXCEPT !.shutdown_prompt_active = FALSE], "destroy_views")

-----------------------------------------------------------------------------
\* Teardown: the views first, the window once they are gone.
teardown_started(s) ==
    IF s.closing
    THEN Stepped(s, "none")
    ELSE Stepped([s EXCEPT !.closing = TRUE,
                           !.quit_requested = TRUE,
                           !.end_session_pending = FALSE,
                           !.shutdown_deferred = FALSE,
                           !.shutdown_message_queued = FALSE], "destroy_views")

views_destroyed(s) ==
    Stepped(s, IF s.closing THEN "destroy_window" ELSE "none")

window_destroyed(s) ==
    Stepped([s EXCEPT !.main_window_destroyed = TRUE,
                      !.quit_requested = TRUE],
            IF s.shutdown_clean_marker_armed THEN "write_clean_marker"
                                             ELSE "request_quit")
=============================================================================
