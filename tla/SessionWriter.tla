--------------------------- MODULE SessionWriter ----------------------------
(***************************************************************************)
(* When the session is written: SessionWriter's dirty flag and debounce      *)
(* timer (src/app_shell/session_writer.{h,cpp}) and the WM_TIMER handler of  *)
(* main.cpp.  Time is counted in ticks; a write itself is one step here and  *)
(* SessionStore opens it up.                                                 *)
(***************************************************************************)
EXTENDS Naturals

CONSTANTS
    Delay,       \* kDelayMilliseconds
    MaxDirtyAge  \* kMaximumDirtyAgeMilliseconds

ASSUME DelayAssumption ==
    /\ Delay \in Nat \ {0}
    /\ MaxDirtyAge \in Nat

VARIABLES
    owner,      \* timer_owner_ is a window
    dirty,      \* dirty_
    armed,      \* armed_
    remaining,  \* ticks until the window timer is due
    age,        \* now - dirty_since_, not counted beyond AgeBound
    in_shell,   \* a Shell call is pumping the loop
    arm_failed  \* history: the last SetTimer failed, or there was no window

writer_vars == <<owner, dirty, armed, remaining, age, in_shell, arm_failed>>

AgeBound == MaxDirtyAge + Delay + 1

\* The periodic timer of the window never waits longer than one delay.
WriterTypeOK ==
    /\ owner \in BOOLEAN /\ dirty \in BOOLEAN /\ armed \in BOOLEAN
    /\ remaining \in 0..Delay
    /\ age \in 0..AgeBound
    /\ in_shell \in BOOLEAN
    /\ arm_failed \in BOOLEAN

WriterInit ==
    /\ owner = FALSE
    /\ dirty = FALSE
    /\ armed = FALSE
    /\ remaining = 0
    /\ age = 0
    /\ in_shell = FALSE
    /\ arm_failed = FALSE

\* Mutant: the ceiling is missing.
ArmTimerNoCeiling(was, waited) ==
    \/ /\ owner
       /\ armed' = TRUE /\ remaining' = Delay
       /\ age' = IF was THEN waited ELSE 0
       /\ arm_failed' = FALSE
    \/ /\ armed' = was
       /\ age' = IF was THEN waited ELSE 0
       /\ arm_failed' = TRUE
       /\ UNCHANGED remaining

\* arm_timer(): past the ceiling an armed timer is left alone; was is armed_
\* and waited the age when the call is made.
ArmTimer(was, waited) ==
    \/ /\ owner /\ was /\ waited >= MaxDirtyAge
       /\ armed' = TRUE /\ age' = waited
       /\ arm_failed' = FALSE
       /\ UNCHANGED remaining
    \/ /\ owner /\ ~(was /\ waited >= MaxDirtyAge)
       /\ armed' = TRUE /\ remaining' = Delay
       /\ age' = IF was THEN waited ELSE 0
       /\ arm_failed' = FALSE
    \/ /\ ~owner \/ ~(was /\ waited >= MaxDirtyAge)
       /\ armed' = was
       /\ age' = IF was THEN waited ELSE 0
       /\ arm_failed' = TRUE
       /\ UNCHANGED remaining

\* Mutant: a failed write does not re-arm the timer.
WriteMutant(saved, was) ==
    IF saved
    THEN /\ dirty' = FALSE /\ armed' = FALSE
         /\ UNCHANGED <<remaining, age, arm_failed>>
    ELSE /\ dirty' = TRUE /\ armed' = was
         /\ UNCHANGED <<remaining, age, arm_failed>>

\* write(): success clears the flag and the timer, failure re-arms it.
Write(saved, was) ==
    IF saved
    THEN /\ dirty' = FALSE /\ armed' = FALSE
         /\ UNCHANGED <<remaining, age, arm_failed>>
    ELSE dirty' = TRUE /\ ArmTimer(was, age)

\* schedule(): a timer that cannot be set is replaced by an immediate write,
\* which tries to arm it again when it fails.
Schedule ==
    /\ owner
    /\ \/ dirty' = TRUE /\ ArmTimer(armed, age) /\ ~arm_failed'
       \/ /\ ~(armed /\ age >= MaxDirtyAge)
          /\ \E saved \in BOOLEAN : Write(saved, armed)
    /\ UNCHANGED <<owner, in_shell>>

\* save_now() from start-up, from the close or from a session end.
SaveNow ==
    /\ \E saved \in BOOLEAN : Write(saved, armed)
    /\ UNCHANGED <<owner, in_shell>>

\* WM_NCCREATE: set_timer_owner.
WindowCreated ==
    /\ ~owner
    /\ owner' = TRUE
    /\ UNCHANGED <<dirty, armed, remaining, age, in_shell, arm_failed>>

\* WM_TIMER kSessionSaveTimerId.
TimerInShell ==
    /\ armed /\ remaining = 0 /\ in_shell
    /\ remaining' = Delay
    /\ UNCHANGED <<owner, dirty, armed, age, in_shell, arm_failed>>

TimerFires(saved) ==
    /\ armed /\ remaining = 0 /\ ~in_shell
    /\ IF dirty
       THEN Write(saved, FALSE)
       ELSE armed' = FALSE /\ UNCHANGED <<dirty, remaining, age, arm_failed>>
    /\ UNCHANGED <<owner, in_shell>>

\* The loop is idle long enough to serve a timer that is due.
Tick ==
    /\ armed /\ remaining > 0
    /\ remaining' = remaining - 1
    /\ age' = IF age < AgeBound THEN age + 1 ELSE age
    /\ UNCHANGED <<owner, dirty, armed, in_shell, arm_failed>>

ShellCall ==
    /\ in_shell' = ~in_shell
    /\ UNCHANGED <<owner, dirty, armed, remaining, age, arm_failed>>

WriterNext ==
    \/ Schedule \/ SaveNow \/ WindowCreated \/ TimerInShell
    \/ \E saved \in BOOLEAN : TimerFires(saved)
    \/ Tick \/ ShellCall

\* Time passes, due timers are served, and storage does not fail for ever.
WriterSpec ==
    /\ WriterInit /\ [][WriterNext]_writer_vars
    /\ WF_writer_vars(Tick)
    /\ WF_writer_vars(TimerInShell)
    /\ SF_writer_vars(TimerFires(TRUE))

-----------------------------------------------------------------------------
(* Properties.  *)

\* "dirty means a write is owed": a dirty session has its timer armed, unless
\* Windows has refused the timer or the window does not exist yet.
DirtyIsOwed == dirty => armed \/ arm_failed

\* However often the model changes, a dirty session reaches the disk, unless
\* its timer could not be armed or Shell calls keep being in the way.
DirtyIsSaved ==
    (dirty ~> (~dirty \/ arm_failed)) \/ []<>in_shell
=============================================================================
