---------------------------- MODULE SessionStore ----------------------------
(***************************************************************************)
(* The session file of PaneDock (src/core/session.cpp): write_session's    *)
(* replacement of the primary through a temporary file and a backup, one    *)
(* file-system call per step, and the recovery order of read_session.  The  *)
(* process may crash, and the power may fail, between any two of them.      *)
(***************************************************************************)
EXTENDS Naturals

CONSTANTS
    Absent,       \* the file does not exist
    Torn,         \* it exists and does not parse
    MaxVersion    \* saves an execution may start

ASSUME StoreAssumption ==
    /\ Absent \notin Nat
    /\ Torn \notin Nat
    /\ Absent # Torn
    /\ MaxVersion \in Nat

VARIABLES
    primary, backup, temporary,   \* session.json, .bak and .tmp
    flushed,      \* the durability hook has flushed the temporary file
    pc,           \* the next call of write_session, "idle" or "down"
    doc,          \* the document being written
    rotated,      \* rotated_primary
    loaded,       \* SessionReadResult of the last start: version and warning
    newest,       \* history: the last version a save has started with
    committed,    \* history: the last save that reported success, or the older
                  \* version a start has warned the user about
    damaged       \* history: something else has corrupted the primary

files == <<primary, backup, temporary>>
vars == <<primary, backup, temporary, flushed, pc, doc, rotated, loaded, newest,
          committed, damaged>>

-----------------------------------------------------------------------------
\* A document is known by its version: every save carries a new one, and 0 is
\* the default state of a first start.
Version == Nat \ {0}
Content == Version \cup {Absent, Torn}

Steps == {"remove", "open", "fill", "flush", "inspect", "rotate", "commit",
          "restore", "cleanup"}

TypeOK ==
    /\ primary \in Content /\ backup \in Content /\ temporary \in Content
    /\ flushed \in BOOLEAN
    /\ pc \in Steps \cup {"idle", "down"}
    /\ doc \in Nat
    /\ rotated \in BOOLEAN
    /\ loaded \in [version : Nat, recovered : BOOLEAN]
    /\ newest \in Nat
    /\ committed \in Nat
    /\ damaged \in BOOLEAN

Parses(c) == c \in Version

\* Mutant: the backup is taken without a warning.
RecoveredQuietly(p, b, t) ==
    CASE Parses(p) -> [version |-> p, recovered |-> FALSE]
      [] ~Parses(p) /\ Parses(t) -> [version |-> t, recovered |-> FALSE]
      [] ~Parses(p) /\ ~Parses(t) /\ Parses(b) ->
             [version |-> b, recovered |-> FALSE]
      [] OTHER -> [version |-> 0,
                   recovered |-> ~(p = Absent /\ b = Absent /\ t = Absent)]

\* read_session on files whose contents are p, b and t.
Recovered(p, b, t) ==
    CASE Parses(p) -> [version |-> p, recovered |-> FALSE]
      [] ~Parses(p) /\ Parses(t) -> [version |-> t, recovered |-> FALSE]
      [] ~Parses(p) /\ ~Parses(t) /\ Parses(b) ->
             [version |-> b, recovered |-> TRUE]
      [] OTHER -> [version |-> 0,
                   recovered |-> ~(p = Absent /\ b = Absent /\ t = Absent)]

\* A file the reader cannot open or whose status is an error reads like a torn
\* one: it counts as existing, so that the result is reported as recovered.
AsRead(c) == IF c = Absent THEN {Absent} ELSE {c, Torn}

-----------------------------------------------------------------------------
Init ==
    /\ primary = Absent /\ backup = Absent /\ temporary = Absent
    /\ flushed = FALSE
    /\ pc = "down"
    /\ doc = 0
    /\ rotated = FALSE
    /\ loaded = [version |-> 0, recovered |-> FALSE]
    /\ newest = 0
    /\ committed = 0
    /\ damaged = FALSE

BeginSave ==
    /\ newest < MaxVersion
    /\ newest' = newest + 1
    /\ doc' = newest + 1
    /\ rotated' = FALSE
    /\ flushed' = FALSE
    /\ pc' = "remove"

\* wWinMain: read_session, then the save that carries the false clean marker.
Start ==
    /\ pc = "down"
    /\ \E p \in AsRead(primary), b \in AsRead(backup), t \in AsRead(temporary) :
          loaded' = Recovered(p, b, t)
    /\ committed' = IF loaded'.recovered THEN loaded'.version ELSE committed
    /\ BeginSave
    /\ UNCHANGED <<primary, backup, temporary, damaged>>

\* SessionWriter calls write_session.
Save ==
    /\ pc = "idle"
    /\ BeginSave
    /\ UNCHANGED <<primary, backup, temporary, loaded, committed, damaged>>

-----------------------------------------------------------------------------
(* write_session, call by call; every call may fail.  *)

Fails == pc' = "idle" /\ UNCHANGED committed
Succeeds == pc' = "idle" /\ committed' = doc
Continues(step) == pc' = step /\ UNCHANGED committed

WriteFrame == UNCHANGED <<doc, loaded, newest, damaged>>

\* create_directories, and the temporary file of an interrupted write goes.
RemoveTemporary ==
    /\ pc = "remove"
    /\ \/ temporary' = Absent /\ Continues("open")
       \/ UNCHANGED temporary /\ Fails
    /\ UNCHANGED <<primary, backup, flushed, rotated>>
    /\ WriteFrame

OpenTemporary ==
    /\ pc = "open"
    /\ \/ temporary' = Torn /\ Continues("fill")
       \/ UNCHANGED temporary /\ Fails
    /\ UNCHANGED <<primary, backup, flushed, rotated>>
    /\ WriteFrame

\* Mutant: a failed write is not noticed.
FillTemporaryMutant ==
    /\ pc = "fill"
    /\ temporary' \in {doc, temporary}
    /\ Continues("flush")
    /\ UNCHANGED <<primary, backup, flushed, rotated>>
    /\ WriteFrame

FillTemporary ==
    /\ pc = "fill"
    /\ \/ temporary' = doc /\ Continues("flush")
       \/ UNCHANGED temporary /\ Continues("cleanup")
    /\ UNCHANGED <<primary, backup, flushed, rotated>>
    /\ WriteFrame

\* The durability hook.
FlushTemporary ==
    /\ pc = "flush"
    /\ \/ flushed' = TRUE /\ Continues("inspect")
       \/ UNCHANGED flushed /\ Continues("cleanup")
    /\ UNCHANGED <<primary, backup, temporary, rotated>>
    /\ WriteFrame

\* Mutant: any primary that exists is rotated.
InspectPrimaryMutant ==
    /\ pc = "inspect"
    /\ rotated' = (primary # Absent)
    /\ Continues(IF primary # Absent THEN "rotate" ELSE "commit")
    /\ UNCHANGED <<primary, backup, temporary, flushed>>
    /\ WriteFrame

\* Only a primary that parses replaces the backup.
InspectPrimary ==
    /\ pc = "inspect"
    /\ \E p \in AsRead(primary) :
         /\ rotated' = Parses(p)
         /\ Continues(IF Parses(p) THEN "rotate" ELSE "commit")
    /\ UNCHANGED <<primary, backup, temporary, flushed>>
    /\ WriteFrame

RotatePrimary ==
    /\ pc = "rotate"
    /\ \/ backup' = primary /\ primary' = Absent /\ Continues("commit")
       \/ UNCHANGED <<primary, backup>> /\ Continues("cleanup")
    /\ UNCHANGED <<temporary, flushed, rotated>>
    /\ WriteFrame

CommitTemporary ==
    /\ pc = "commit"
    /\ \/ primary' = temporary /\ temporary' = Absent /\ Succeeds
       \/ /\ UNCHANGED <<primary, temporary>>
          /\ Continues(IF rotated THEN "restore" ELSE "cleanup")
    /\ UNCHANGED <<backup, flushed, rotated>>
    /\ WriteFrame

\* When even the restore fails the temporary file is kept for recovery.
RestorePrimary ==
    /\ pc = "restore"
    /\ \/ primary' = backup /\ backup' = Absent /\ Continues("cleanup")
       \/ UNCHANGED <<primary, backup>> /\ Fails
    /\ UNCHANGED <<temporary, flushed, rotated>>
    /\ WriteFrame

\* The result of removing the temporary file is ignored.
Cleanup ==
    /\ pc = "cleanup"
    /\ temporary' \in {Absent, temporary}
    /\ Fails
    /\ UNCHANGED <<primary, backup, flushed, rotated>>
    /\ WriteFrame

-----------------------------------------------------------------------------
(* Failures around the program.  *)

\* The process ends, is killed, or the power goes: a temporary file that has
\* not been flushed may then lose its contents.
Stop ==
    /\ pc # "down"
    /\ pc' = "down"
    /\ temporary' \in IF pc = "flush" THEN {temporary, Torn} ELSE {temporary}
    /\ UNCHANGED <<primary, backup, flushed, doc, rotated, loaded, newest,
                   committed, damaged>>

\* Something other than PaneDock spoils the primary while it is not running.
Damage ==
    /\ pc = "down"
    /\ primary # Absent
    /\ primary' = Torn
    /\ damaged' = TRUE
    /\ UNCHANGED <<backup, temporary, flushed, pc, doc, rotated, loaded, newest,
                   committed>>

\* The program is not started again.
StayDown == pc = "down" /\ UNCHANGED vars

Next ==
    \/ Start \/ Save
    \/ RemoveTemporary \/ OpenTemporary \/ FillTemporary \/ FlushTemporary
    \/ InspectPrimary \/ RotatePrimary \/ CommitTemporary \/ RestorePrimary
    \/ Cleanup
    \/ Stop \/ Damage \/ StayDown

Spec == Init /\ [][Next]_vars

-----------------------------------------------------------------------------
(* Properties.  *)

\* Whatever write_session was doing when the program stopped, and whichever of
\* its calls failed before, the next start finds the last document whose save
\* succeeded or a newer one.
CommittedSurvives ==
    ~damaged => Recovered(primary, backup, temporary).version >= committed

\* A start falls back to an older document only with the recovery warning,
\* even after the primary was spoilt or could not be opened.
NoSilentLoss ==
    [][pc = "down" /\ pc' # "down" =>
         loaded'.recovered \/ loaded'.version >= committed]_vars

\* "A corrupt primary must never replace the last known-good backup": a good
\* backup gives way only to a good primary or becomes the primary itself.
KnownGoodBackupKept ==
    [][Parses(backup) /\ backup' # backup =>
         Parses(backup') \/ primary' = backup]_vars

\* A start that accepts an interrupted write reports nothing lost: what it has
\* read is not lost either, while it is being saved again.
InterruptedWriteKept ==
    ~damaged => Recovered(primary, backup, temporary).version >= loaded.version
=============================================================================
