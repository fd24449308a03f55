------------------------ MODULE SessionDocumentProofs ------------------------
(***************************************************************************)
(* What SessionStore promises, proved for every bound MaxVersion: no stop  *)
(* of the process and no failing call of write_session loses a committed   *)
(* session or the last known-good backup.  Then, for every number of       *)
(* saves, panes, tabs and edits: what the session file says can be read    *)
(* and says what was meant, and the documents do nothing to the files that *)
(* SessionStore does not allow.  Last, the debounce of SessionWriter: that *)
(* a save that is owed begins, for every delay and every ceiling.          *)
(***************************************************************************)
EXTENDS SessionDocument, SessionWriter, TLAPS

-----------------------------------------------------------------------------
(* Types.  TypeOK is not inductive either: only a save in progress knows     *)
(* that its document is a version.                                           *)

TypeInv == TypeOK /\ (pc # "down" => doc # 0)

-----------------------------------------------------------------------------
(* The inductive invariant.  CommittedSurvives is not inductive: what the    *)
(* next call does to the three files depends on which of them parse at that  *)
(* point of write_session and on how old each of them is.                    *)

\* The temporary file is complete from the write up to the rename.
Written == {"flush", "inspect", "rotate", "commit", "restore"}

TemporaryWritten == pc \in Written => Parses(temporary) /\ temporary = doc

\* Only a primary that parses is ever rotated, and as long as the rename has
\* not replaced it, it is the backup.
RotationSound ==
    /\ pc = "rotate" => Parses(primary)
    /\ pc = "restore" => rotated
    /\ pc \in {"commit", "restore"} /\ rotated =>
         Parses(backup) /\ backup >= committed

\* The document being written is the newest one.
NothingNewer ==
    /\ doc = newest /\ committed <= newest
    /\ Parses(primary) => primary <= newest
    /\ Parses(backup) => backup <= newest
    /\ Parses(temporary) => temporary <= newest

\* The backup is older than whatever else can be read.
BackupOldest ==
    /\ Parses(backup) /\ Parses(primary) => backup <= primary
    /\ Parses(backup) /\ Parses(temporary) => backup <= temporary

\* Where the committed session is.
CommittedKept ==
    /\ Parses(primary) => primary >= committed
    /\ Parses(temporary) => temporary >= committed
    /\ primary = Absent =>
         committed = 0 \/ (Parses(backup) /\ backup >= committed)
    /\ primary = Torn => damaged

IInv ==
    /\ TypeInv
    /\ TemporaryWritten
    /\ RotationSound
    /\ NothingNewer
    /\ BackupOldest
    /\ CommittedKept
-----------------------------------------------------------------------------
(* Type correctness.  *)

\* A start reads versions only, whatever the three files hold.
LEMMA RecoveredType ==
    ASSUME NEW p \in Content, NEW b \in Content, NEW t \in Content
    PROVE  Recovered(p, b, t) \in [version : Nat, recovered : BOOLEAN]
BY DEF Recovered, Parses, Content, Version

\* What a read may see of a file is again a content.
LEMMA AsReadType == ASSUME NEW c \in Content PROVE AsRead(c) \subseteq Content
BY DEF AsRead, Content

\* A start and a save begin with the next version.
LEMMA BeginSaveType ==
    ASSUME TypeOK, BeginSave
    PROVE  /\ newest' \in Nat /\ doc' \in Nat /\ doc' # 0
           /\ rotated' \in BOOLEAN /\ flushed' \in BOOLEAN
           /\ pc' \in Steps
<1>1. newest' \in Nat /\ doc' \in Nat /\ doc' # 0
  BY DEF TypeOK, BeginSave
<1> QED
  BY <1>1 DEF BeginSave, Steps

\* Every step keeps every type.
LEMMA TypeStep == TypeInv /\ [Next]_vars => TypeInv'
<1> SUFFICES ASSUME TypeInv, [Next]_vars PROVE TypeInv'
  OBVIOUS
<1> USE DEF TypeOK, TypeInv
<1>1. CASE Start
  <2>1. PICK p \in AsRead(primary), b \in AsRead(backup), t \in AsRead(temporary) :
          loaded' = Recovered(p, b, t)
    BY <1>1 DEF Start
  <2>2. p \in Content /\ b \in Content /\ t \in Content
    BY <2>1, AsReadType
  <2>3. loaded' \in [version : Nat, recovered : BOOLEAN]
    BY <2>1, <2>2, RecoveredType
  <2>4. loaded'.version \in Nat
    BY <2>3
  <2>5. committed' \in Nat
    BY <1>1, <2>4 DEF Start
  <2> QED
    BY <1>1, <2>3, <2>5, BeginSaveType DEF Start
<1>2. CASE Save
  BY <1>2, BeginSaveType DEF Save
<1>3. CASE RemoveTemporary
  BY <1>3 DEF RemoveTemporary, WriteFrame, Continues, Fails, Content, Version, Steps
<1>4. CASE OpenTemporary
  BY <1>4 DEF OpenTemporary, WriteFrame, Continues, Fails, Content, Version, Steps
<1>5. CASE FillTemporary
  BY <1>5 DEF FillTemporary, WriteFrame, Continues, Content, Version, Steps
<1>6. CASE FlushTemporary
  BY <1>6 DEF FlushTemporary, WriteFrame, Continues, Content, Version, Steps
<1>7. CASE InspectPrimary
  BY <1>7 DEF InspectPrimary, WriteFrame, Continues, Parses, Content, Version, Steps
<1>8. CASE RotatePrimary
  BY <1>8 DEF RotatePrimary, WriteFrame, Continues, Content, Version, Steps
<1>9. CASE CommitTemporary
  BY <1>9 DEF CommitTemporary, WriteFrame, Continues, Succeeds, Content, Version, Steps
<1>10. CASE RestorePrimary
  BY <1>10 DEF RestorePrimary, WriteFrame, Continues, Fails, Content, Version, Steps
<1>11. CASE Cleanup
  BY <1>11 DEF Cleanup, WriteFrame, Fails, Content, Version, Steps
<1>12. CASE Stop
  BY <1>12 DEF Stop, Content, Version, Steps
<1>13. CASE Damage
  BY <1>13 DEF Damage, Content, Version, Steps
<1>14. CASE StayDown \/ UNCHANGED vars
  BY <1>14 DEF StayDown, vars
<1> QED
  BY <1>1, <1>2, <1>3, <1>4, <1>5, <1>6, <1>7, <1>8, <1>9, <1>10, <1>11, <1>12, <1>13, <1>14 DEF Next

\* Every variable keeps its type, in every step of write_session, of a start
\* and of a failure around them.
THEOREM TypeCorrect == Spec => []TypeOK
<1>1. Init => TypeInv
  <2>1. [version |-> 0, recovered |-> FALSE] \in [version : Nat, recovered : BOOLEAN]
    OBVIOUS
  <2> QED
    BY <2>1 DEF Init, TypeInv, TypeOK, Content, Version, Steps
<1>2. TypeInv => TypeOK
  BY DEF TypeInv
<1> QED
  BY <1>1, <1>2, TypeStep, PTL DEF Spec

-----------------------------------------------------------------------------
(* The invariant is inductive.  *)

LEMMA InvStep == IInv /\ [Next]_vars => IInv'
<1> SUFFICES ASSUME IInv, [Next]_vars PROVE IInv'
  OBVIOUS
<1>0. TypeInv'
  BY TypeStep DEF IInv
<1> USE StoreAssumption DEF IInv, TypeInv, TypeOK, Content, Version, Parses,
        Written, TemporaryWritten, RotationSound, NothingNewer, BackupOldest,
        CommittedKept
<1>1. CASE Start
  BY <1>0, <1>1 DEF Start, BeginSave, AsRead, Recovered
<1>2. CASE Save
  BY <1>0, <1>2 DEF Save, BeginSave
<1>3. CASE RemoveTemporary
  BY <1>0, <1>3 DEF RemoveTemporary, WriteFrame, Continues, Fails
<1>4. CASE OpenTemporary
  BY <1>0, <1>4 DEF OpenTemporary, WriteFrame, Continues, Fails
<1>5. CASE FillTemporary
  BY <1>0, <1>5 DEF FillTemporary, WriteFrame, Continues
<1>6. CASE FlushTemporary
  BY <1>0, <1>6 DEF FlushTemporary, WriteFrame, Continues
<1>7. CASE InspectPrimary
  BY <1>0, <1>7 DEF InspectPrimary, WriteFrame, Continues, AsRead
<1>8. CASE RotatePrimary
  BY <1>0, <1>8 DEF RotatePrimary, WriteFrame, Continues
<1>9. CASE CommitTemporary
  BY <1>0, <1>9 DEF CommitTemporary, WriteFrame, Continues, Succeeds
<1>10. CASE RestorePrimary
  BY <1>0, <1>10 DEF RestorePrimary, WriteFrame, Continues, Fails
<1>11. CASE Cleanup
  BY <1>0, <1>11 DEF Cleanup, WriteFrame, Fails
<1>12. CASE Stop
  BY <1>0, <1>12 DEF Stop
<1>13. CASE Damage
  BY <1>0, <1>13 DEF Damage
<1>14. CASE StayDown \/ UNCHANGED vars
  BY <1>14 DEF StayDown, vars
<1> QED
  BY <1>1, <1>2, <1>3, <1>4, <1>5, <1>6, <1>7, <1>8, <1>9, <1>10, <1>11, <1>12, <1>13, <1>14 DEF Next

LEMMA InvHolds == Spec => []IInv
<1>1. Init => IInv
  <2>1. [version |-> 0, recovered |-> FALSE] \in [version : Nat, recovered : BOOLEAN]
    OBVIOUS
  <2>2. Init => TypeInv
    BY <2>1 DEF Init, TypeInv, TypeOK, Content, Version, Steps
  <2> QED
    BY <2>2, StoreAssumption
    DEF Init, IInv, Version, Parses, Written, TemporaryWritten, RotationSound,
        NothingNewer, BackupOldest, CommittedKept
<1> QED
  BY <1>1, InvStep, PTL DEF Spec

-----------------------------------------------------------------------------
(* What follows from it.  *)

\* Wherever write_session stops, and whichever of its calls have failed, the
\* next start finds the last committed session or a newer one.
THEOREM CommittedSession == Spec => []CommittedSurvives
<1>1. IInv => CommittedSurvives
  BY StoreAssumption
  DEF IInv, TypeInv, TypeOK, Content, Version, Parses, CommittedKept, NothingNewer,
      BackupOldest, CommittedSurvives, Recovered
<1> QED
  BY <1>1, InvHolds, PTL

\* read_session never goes back to an older session without its warning, even
\* when the primary is damaged or cannot be opened.
THEOREM LossIsReported == Spec => NoSilentLoss
<1>1. ASSUME IInv, [Next]_vars, pc = "down", pc' # "down"
      PROVE  loaded'.recovered \/ loaded'.version >= committed
  <2>1. Start
    BY <1>1 DEF Next, Save, RemoveTemporary, OpenTemporary, FillTemporary,
        FlushTemporary, InspectPrimary, RotatePrimary, CommitTemporary,
        RestorePrimary, Cleanup, Stop, Damage, StayDown, vars
  <2>2. PICK p \in AsRead(primary), b \in AsRead(backup), t \in AsRead(temporary) :
          loaded' = Recovered(p, b, t)
    BY <2>1 DEF Start
  <2> USE StoreAssumption
      DEF IInv, TypeInv, TypeOK, Content, Version, Parses, CommittedKept, AsRead
  <2>3. CASE Parses(p)
    <3>1. loaded'.version = p
      BY <2>2, <2>3 DEF Recovered
    <3> QED
      BY <1>1, <2>2, <2>3, <3>1
  <2>4. CASE ~Parses(p) /\ Parses(t)
    <3>1. loaded'.version = t
      BY <2>2, <2>4 DEF Recovered
    <3> QED
      BY <1>1, <2>2, <2>4, <3>1
  <2>5. CASE ~Parses(p) /\ ~Parses(t) /\ Parses(b)
    BY <2>2, <2>5 DEF Recovered
  <2>6. CASE ~Parses(p) /\ ~Parses(t) /\ ~Parses(b)
    <3>1. loaded' = [version |-> 0,
                     recovered |-> ~(p = Absent /\ b = Absent /\ t = Absent)]
      BY <2>2, <2>6 DEF Recovered
    <3>2. CASE p = Absent /\ b = Absent /\ t = Absent
      BY <1>1, <2>2, <3>1, <3>2
    <3>3. CASE ~(p = Absent /\ b = Absent /\ t = Absent)
      BY <3>1, <3>3
    <3> QED
      BY <3>2, <3>3
  <2> QED
    BY <2>3, <2>4, <2>5, <2>6
<1> QED
  BY <1>1, InvHolds, PTL DEF Spec, NoSilentLoss

\* write_session never gives up a backup that parses for anything but a good
\* primary.
THEOREM BackupIsKept == Spec => KnownGoodBackupKept
<1>1. ASSUME IInv, [Next]_vars, Parses(backup), backup' # backup
      PROVE  Parses(backup') \/ primary' = backup
  <2>1. RotatePrimary \/ RestorePrimary
    BY <1>1 DEF Next, Start, Save, RemoveTemporary, OpenTemporary, FillTemporary,
        FlushTemporary, InspectPrimary, CommitTemporary, Cleanup, Stop, Damage,
        StayDown, vars
  <2>2. CASE RotatePrimary
    BY <1>1, <2>2 DEF IInv, RotationSound, RotatePrimary
  <2>3. CASE RestorePrimary
    BY <1>1, <2>3 DEF RestorePrimary
  <2> QED
    BY <2>1, <2>2, <2>3
<1> QED
  BY <1>1, InvHolds, PTL DEF Spec, KnownGoodBackupKept

-----------------------------------------------------------------------------
(* encode and decode. *)

\* encode writes a document, over any other.
LEMMA EncodeType ==
  ASSUME NEW a \in Application, NEW d \in Document
  PROVE  encode(a, d) \in Document
<1>1. ASSUME NEW id \in Ids, a.tabs[id] # Closed
      PROVE  EncodedTab(a.tabs[id], id, d) \in Entry
  <2>1. a.tabs[id] \in Tab
    BY <1>1 DEF Application
  <2>2. Preserved(d, id, a.tabs[id].pane) \in Unknown
    BY DEF Preserved, Document, Entry, Unknown, NoUnknown
  <2> QED
    BY <2>1, <2>2 DEF EncodedTab, EncodedParent, Entry, Tab
<1>2. a.font \in Fonts \cup {None}
  BY DEF Application
<1> QED
  BY <1>1, <1>2 DEF encode, Document

\* What has been encoded says the same when it is decoded: none of the known
\* fields of the old document shine through.
LEMMA RoundTrip ==
  ASSUME NEW a \in Application, NEW d \in Document
  PROVE  Decoded(encode(a, d)) = a
<1>1. ASSUME NEW id \in Ids, a.tabs[id] # Closed
      PROVE  /\ EncodedTab(a.tabs[id], id, d) # Closed
             /\ DecodedTab(EncodedTab(a.tabs[id], id, d)) = a.tabs[id]
  <2>1. a.tabs[id] \in Tab
    BY <1>1 DEF Application
  <2>2. EncodedTab(a.tabs[id], id, d) \in Entry
    <3>1. Preserved(d, id, a.tabs[id].pane) \in Unknown
      BY DEF Preserved, Document, Entry, Unknown, NoUnknown
    <3> QED
      BY <2>1, <3>1 DEF EncodedTab, EncodedParent, Entry, Tab
  <2>3. a.tabs[id].columns # Garbled
    BY <2>1, DocumentAssumption DEF DocumentAssumption, Tab
  <2> QED
    BY <2>1, <2>2, <2>3, OutsideAssumption
    DEF OutsideAssumption, EncodedTab, EncodedParent, DecodedTab, Optional, Tab
<1>2. Optional(a.font) = a.font
  BY DocumentAssumption DEF DocumentAssumption, Optional, Application
<1>3. Decoded(encode(a, d)) =
        [font |-> Optional(a.font),
         tabs |-> [id \in Ids |-> IF encode(a, d).tabs[id] = Closed THEN Closed
                                  ELSE DecodedTab(encode(a, d).tabs[id])]]
  BY DEF Decoded, encode
<1>4. \A id \in Ids : encode(a, d).tabs[id] =
        IF a.tabs[id] = Closed THEN Closed ELSE EncodedTab(a.tabs[id], id, d)
  BY DEF encode
<1>5. Decoded(encode(a, d)).tabs = a.tabs
  <2>1. a.tabs = [id \in Ids |-> a.tabs[id]]
    BY DEF Application
  <2>2. \A id \in Ids : (IF encode(a, d).tabs[id] = Closed THEN Closed
                         ELSE DecodedTab(encode(a, d).tabs[id])) = a.tabs[id]
    BY <1>1, <1>4
  <2> QED
    BY <1>3, <2>1, <2>2
<1>6. a = [font |-> a.font, tabs |-> a.tabs]
  BY DEF Application
<1> QED
  BY <1>2, <1>3, <1>5, <1>6

\* So a valid state is never written as a document that a start refuses.
LEMMA Readable ==
  ASSUME NEW a \in Application, NEW d \in Document, is_valid(a)
  PROVE  decode(encode(a, d)) = a /\ a # Unreadable
<1>1. ~Rejected(encode(a, d))
  <2>1. encode(a, d).schema = 1
    BY DEF encode
  <2>2. ASSUME NEW id \in Open(encode(a, d).tabs)
        PROVE  encode(a, d).tabs[id].known.name # Garbled
    <3>1. id \in Ids /\ a.tabs[id] # Closed
      BY <2>2 DEF Open, encode
    <3>2. a.tabs[id] \in Tab
      BY <3>1 DEF Application
    <3>3. encode(a, d).tabs[id].known.name = a.tabs[id].name
      BY <3>1 DEF encode, EncodedTab
    <3> QED
      BY <3>2, <3>3, DocumentAssumption DEF DocumentAssumption, Tab
  <2> QED
    BY <2>1, <2>2 DEF Rejected
<1> QED
  BY <1>1, RoundTrip, OutsideAssumption DEF decode, OutsideAssumption

\* A document that a start does not refuse gives a valid state.
LEMMA DecodeType ==
  ASSUME NEW d \in Document, decode(d) # Unreadable
  PROVE  decode(d) \in Application /\ is_valid(decode(d))
<1>1. decode(d) = Decoded(d) /\ ~Rejected(d) /\ is_valid(Decoded(d))
  BY DEF decode
<1>2. ASSUME NEW id \in Ids, d.tabs[id] # Closed
      PROVE  DecodedTab(d.tabs[id]) \in Tab
  <2>1. d.tabs[id] \in Entry
    BY <1>2 DEF Document
  <2>2. d.tabs[id].known.name # Garbled
    BY <1>1, <1>2 DEF Rejected, Open
  <2> QED
    BY <2>1, <2>2 DEF DecodedTab, Optional, Entry, Tab
<1>3. Optional(d.font) \in Fonts \cup {None}
  BY DEF Optional, Document
<1> QED
  BY <1>1, <1>2, <1>3 DEF Decoded, Application

-----------------------------------------------------------------------------
(* The documents leave the files alone. *)

\* Every step of the composition is a step of SessionStore or leaves it as it
\* is: edits and foreign builds only touch what a document says.
LEMMA StoreUnchanged == [DocumentNext]_allVars => [Next]_vars
<1> SUFFICES ASSUME [DocumentNext]_allVars PROVE [Next]_vars
  OBVIOUS
<1>1. CASE StartDocument \/ SaveDocument \/ StoreStep \/ (StayDown /\ UNCHANGED docVars)
  BY <1>1 DEF StartDocument, SaveDocument, StoreStep, Next
<1>2. CASE Edit
  BY <1>2 DEF Edit, NewTab, CloseTab, MoveTab, ShowIn, Edited
<1>3. CASE VisitDocument
  BY <1>3 DEF VisitDocument, Next
<1>4. CASE UNCHANGED allVars
  BY <1>4 DEF allVars
<1> QED
  BY <1>1, <1>2, <1>3, <1>4 DEF DocumentNext

\* What SessionStore promises of write_session and read_session holds as well
\* when the documents say something.
THEOREM StoreImplemented == DocumentSpec => Spec
<1>1. DocumentInit => Init
  BY DEF DocumentInit
<1> QED
  BY <1>1, StoreUnchanged, PTL DEF DocumentSpec, Spec

-----------------------------------------------------------------------------
(* Valid states.  Every pane keeps a tab, whatever is closed or moved. *)

\* Where a start finds nothing, every pane gets a tab of its own.
LEMMA DefaultValid == DefaultState \in Application /\ is_valid(DefaultState)
<1>1. ASSUME NEW p \in Panes PROVE Fresh(p) \in Tab /\ Fresh(p) # Closed
  BY DocumentAssumption, OutsideAssumption DEF DocumentAssumption, OutsideAssumption, Fresh, Tab
<1>2. DefaultState \in Application
  BY <1>1 DEF DefaultState, Application
<1>3. ASSUME NEW p \in Panes PROVE p - 1 \in In(DefaultState.tabs, p)
  <2>1. p - 1 \in Ids /\ (p - 1) + 1 = p
    BY DocumentAssumption DEF DocumentAssumption, Ids
  <2>2. DefaultState.tabs[p - 1] = Fresh(p)
    BY <2>1 DEF DefaultState
  <2> QED
    BY <1>1, <2>1, <2>2 DEF In, Open, Fresh
<1> QED
  BY <1>2, <1>3 DEF is_valid

\* One edit of a valid state gives a valid state.
LEMMA EditValid ==
  ASSUME app \in Application, is_valid(app), Edit
  PROVE  app' \in Application /\ is_valid(app')
<1>0. \A p \in Panes : Fresh(p) \in Tab /\ Fresh(p) # Closed /\ Fresh(p).pane = p
  BY DocumentAssumption, OutsideAssumption DEF DocumentAssumption, OutsideAssumption, Fresh, Tab
<1>1. CASE \E p \in Panes, id \in Ids : NewTab(p, id)
  <2>1. PICK p \in Panes, id \in Ids : NewTab(p, id)
    BY <1>1
  <2>2. app' = [app EXCEPT !.tabs = [app.tabs EXCEPT ![id] = Fresh(p)]] /\ app.tabs[id] = Closed
    BY <2>1 DEF NewTab, Edited, NextId, Open
  <2>3. app' \in Application
    BY <1>0, <2>2 DEF Application
  <2>4. \A q \in Panes : In(app.tabs, q) \subseteq In(app'.tabs, q)
    BY <2>2 DEF In, Open, Application
  <2> QED
    BY <2>3, <2>4 DEF is_valid
<1>2. CASE \E id \in Ids : CloseTab(id)
  <2>1. PICK id \in Ids : CloseTab(id)
    BY <1>2
  <2>2. id \in Open(app.tabs) /\ app.tabs[id] \in Tab /\ app.tabs[id] # Closed
    BY <2>1 DEF CloseTab, Open, Application
  <2>3. CASE Alone(id)
    <3>1. app' = [app EXCEPT !.tabs = [app.tabs EXCEPT ![id].name = Home, ![id].parent = None]]
      BY <2>1, <2>3 DEF CloseTab, Edited
    <3>2. /\ app'.tabs[id] \in Tab /\ app'.tabs[id] # Closed
          /\ app'.tabs[id].pane = app.tabs[id].pane
          /\ \A n \in Ids \ {id} : app'.tabs[n] = app.tabs[n]
          /\ app' = [tabs |-> app'.tabs, font |-> app.font]
          /\ app'.tabs = [n \in Ids |-> app'.tabs[n]]
      BY <2>2, <3>1, DocumentAssumption, OutsideAssumption
      DEF DocumentAssumption, OutsideAssumption, Tab, Application
    <3>3. app' \in Application
      BY <3>2 DEF Application
    <3>4. \A q \in Panes : In(app.tabs, q) \subseteq In(app'.tabs, q)
      BY <2>2, <3>2 DEF In, Open
    <3> QED
      BY <3>3, <3>4 DEF is_valid
  <2>4. CASE ~Alone(id)
    <3>1. app' = [app EXCEPT !.tabs = [app.tabs EXCEPT ![id] = Closed]]
      BY <2>1, <2>4 DEF CloseTab, Edited
    <3>2. app' \in Application
      BY <3>1 DEF Application
    <3>3. \A q \in Panes : In(app'.tabs, q) = In(app.tabs, q) \ {id}
      BY <3>1 DEF In, Open, Application
    <3>4. id \in In(app.tabs, app.tabs[id].pane)
      BY <2>2 DEF In
    <3>5. ASSUME NEW q \in Panes PROVE In(app.tabs, q) \ {id} # {}
      <4>1. CASE q = app.tabs[id].pane
        BY <2>4, <3>4, <4>1 DEF Alone
      <4>2. CASE q # app.tabs[id].pane
        BY <4>2 DEF In, is_valid
      <4> QED
        BY <4>1, <4>2
    <3> QED
      BY <3>2, <3>3, <3>5 DEF is_valid
  <2> QED
    BY <2>3, <2>4
<1>3. CASE \E id, retained \in Ids, p \in Panes : MoveTab(id, p, retained)
  <2>1. PICK id \in Ids, retained \in Ids, p \in Panes : MoveTab(id, p, retained)
    BY <1>3
  <2>2. /\ id \in Open(app.tabs) /\ app.tabs[id] \in Tab /\ app.tabs[id] # Closed
        /\ p # app.tabs[id].pane
    BY <2>1 DEF MoveTab, Open, Application
  <2> DEFINE from == app.tabs[id].pane
             moved == [app.tabs[id] EXCEPT !.pane = p]
             left == [Fresh(from) EXCEPT !.columns = app.tabs[id].columns]
  <2>3. from \in Panes /\ moved \in Tab /\ moved # Closed /\ moved.pane = p
    BY <2>2, OutsideAssumption DEF OutsideAssumption, Tab
  <2>4. left \in Tab /\ left # Closed /\ left.pane = from
    BY <2>2, <2>3, DocumentAssumption, OutsideAssumption
    DEF DocumentAssumption, OutsideAssumption, Fresh, Tab
  <2>5. CASE Alone(id)
    <3>1. /\ retained \notin Open(app.tabs) /\ retained # id
          /\ app' = [app EXCEPT !.tabs = [app.tabs EXCEPT ![id].pane = p, ![retained] = left]]
      BY <2>1, <2>2, <2>5 DEF MoveTab, Edited, NextId
    <3>2. /\ app'.tabs = [n \in Ids |-> app'.tabs[n]]
          /\ app'.tabs[id] = moved /\ app'.tabs[retained] = left
          /\ \A n \in Ids \ {id, retained} : app'.tabs[n] = app.tabs[n]
          /\ app' = [tabs |-> app'.tabs, font |-> app.font]
      BY <3>1 DEF Application
    <3> HIDE DEF moved, left
    <3>3. app' \in Application
      BY <2>3, <2>4, <3>2 DEF Application
    <3>4. retained \in In(app'.tabs, from)
      BY <2>4, <3>2 DEF In, Open
    <3>5. \A q \in Panes \ {from} : In(app.tabs, q) \subseteq In(app'.tabs, q)
      BY <2>3, <3>1, <3>2 DEF In, Open
    <3> QED
      BY <3>3, <3>4, <3>5 DEF is_valid
  <2>6. CASE ~Alone(id)
    <3>1. app' = [app EXCEPT !.tabs = [app.tabs EXCEPT ![id].pane = p]]
      BY <2>1, <2>6 DEF MoveTab, Edited
    <3>2. /\ app'.tabs = [n \in Ids |-> app'.tabs[n]]
          /\ app'.tabs[id] = moved
          /\ \A n \in Ids \ {id} : app'.tabs[n] = app.tabs[n]
          /\ app' = [tabs |-> app'.tabs, font |-> app.font]
      BY <3>1 DEF Application
    <3> HIDE DEF moved
    <3>3. app' \in Application
      BY <2>3, <3>2 DEF Application
    <3>4. \A q \in Panes : In(app.tabs, q) \ {id} \subseteq In(app'.tabs, q)
      BY <2>3, <3>2 DEF In, Open
    <3>5. ASSUME NEW q \in Panes PROVE In(app.tabs, q) \ {id} # {}
      <4>1. CASE q = from
        BY <2>2, <2>6, <4>1 DEF Alone, In
      <4>2. CASE q # from
        BY <4>2 DEF In, is_valid
      <4> QED
        BY <4>1, <4>2
    <3> QED
      BY <3>3, <3>4, <3>5 DEF is_valid
  <2> QED
    BY <2>5, <2>6
<1>4. CASE \E id \in Ids, name \in Names, parent \in Names \cup {None}, columns \in Columns \cup {None} :
             ShowIn(id, name, parent, columns)
  <2>1. PICK id \in Ids, name \in Names, parent \in Names \cup {None}, columns \in Columns \cup {None} :
          ShowIn(id, name, parent, columns)
    BY <1>4
  <2>2. /\ id \in Open(app.tabs) /\ app.tabs[id] \in Tab
        /\ app' = [app EXCEPT !.tabs = [app.tabs EXCEPT ![id].name = name, ![id].parent = parent,
                                                        ![id].columns = columns]]
    BY <2>1 DEF ShowIn, Edited, Open, Application
  <2>3. /\ app'.tabs = [n \in Ids |-> app'.tabs[n]]
        /\ app'.tabs[id] \in Tab /\ app'.tabs[id] # Closed
        /\ app'.tabs[id].pane = app.tabs[id].pane
        /\ \A n \in Ids \ {id} : app'.tabs[n] = app.tabs[n]
        /\ app' = [tabs |-> app'.tabs, font |-> app.font]
    BY <2>2, OutsideAssumption DEF OutsideAssumption, Tab, Application
  <2>4. app' \in Application
    BY <2>3 DEF Application
  <2>5. \A q \in Panes : In(app.tabs, q) \subseteq In(app'.tabs, q)
    BY <2>2, <2>3 DEF In, Open
  <2> QED
    BY <2>4, <2>5 DEF is_valid
<1> QED
  BY <1>1, <1>2, <1>3, <1>4 DEF Edit

-----------------------------------------------------------------------------
(* The inductive invariant.  ReadsBack says nothing of the document being   *)
(* written, which the temporary file is filled with in the end, and nothing *)
(* of the default state; UnknownFieldsKept is about the document that the   *)
(* state was loaded from.                                                   *)

DocumentTypes ==
  /\ app \in Application /\ preserved \in Document
  /\ saved \in [1 .. MaxVersion -> Document]
  /\ kept \in [Ids -> Unknown]

\* Whatever a file holds, or will hold when the save in progress is over.
HeldReadable ==
  \A v \in {primary, backup, temporary, doc} : Parses(v) => decode(saved[v]) # Unreadable

\* What a tab was loaded with is where encode will look for it.
KeptPreserved ==
  \A id \in Ids : kept[id].tab \/ kept[id].parent =>
    /\ preserved.tabs[id] # Closed
    /\ kept[id].tab => preserved.tabs[id].unknown.tab
    /\ kept[id].parent => preserved.tabs[id].unknown.parent

DInv ==
  /\ DocumentTypes
  /\ newest <= MaxVersion
  /\ HeldReadable
  /\ pc # "down" => is_valid(app)
  /\ KeptPreserved

\* Every version a file holds has a document.
LEMMA HeldInRange ==
  ASSUME IInv, DInv
  PROVE  \A v \in {primary, backup, temporary, doc} : Parses(v) => v \in 1 .. MaxVersion /\ v <= newest
BY StoreAssumption
DEF StoreAssumption, IInv, DInv, NothingNewer, TypeInv, TypeOK, Content, Version, Parses

\* A step of write_session, a stop and a damage put nothing into a file that
\* another file or the save in progress did not hold before.
LEMMA NothingElseHeld ==
  ASSUME StoreStep \/ Damage
  PROVE  \A v \in {primary', backup', temporary', doc'} :
           Parses(v) => v \in {primary, backup, temporary, doc}
<1>. USE StoreAssumption DEF StoreAssumption, Parses, Version, WriteFrame
<1>1. CASE RemoveTemporary
  BY <1>1 DEF RemoveTemporary
<1>2. CASE OpenTemporary
  BY <1>2 DEF OpenTemporary
<1>3. CASE FillTemporary
  BY <1>3 DEF FillTemporary
<1>4. CASE FlushTemporary
  BY <1>4 DEF FlushTemporary
<1>5. CASE InspectPrimary
  BY <1>5 DEF InspectPrimary
<1>6. CASE RotatePrimary
  BY <1>6 DEF RotatePrimary
<1>7. CASE CommitTemporary
  BY <1>7 DEF CommitTemporary
<1>8. CASE RestorePrimary
  BY <1>8 DEF RestorePrimary
<1>9. CASE Cleanup
  BY <1>9 DEF Cleanup
<1>10. CASE Stop
  BY <1>10 DEF Stop
<1>11. CASE Damage
  BY <1>11 DEF Damage
<1> QED
  BY <1>1, <1>2, <1>3, <1>4, <1>5, <1>6, <1>7, <1>8, <1>9, <1>10, <1>11 DEF StoreStep

\* Such a step loses no document that is still needed.
LEMMA RecordedKeeps ==
  ASSUME IInv, DInv, IInv', newest' = newest, Recorded(saved),
         \A v \in {primary', backup', temporary', doc'} :
           Parses(v) => v \in {primary, backup, temporary, doc}
  PROVE  saved' \in [1 .. MaxVersion -> Document] /\ HeldReadable'
<1>1. NoDocument \in Document
  BY DEF NoDocument, Document
<1>2. saved' \in [1 .. MaxVersion -> Document]
  BY <1>1 DEF Recorded, Held, DInv, DocumentTypes
<1>3. ASSUME NEW v \in {primary', backup', temporary', doc'}, Parses(v)
      PROVE  decode(saved'[v]) # Unreadable
  <2>1. v \in {primary, backup, temporary, doc}
    BY <1>3
  <2>2. v \in 1 .. MaxVersion
    BY <1>3, <2>1, HeldInRange
  <2>3. saved'[v] = saved[v]
    BY <1>3, <2>2 DEF Recorded, Held
  <2> QED
    BY <1>3, <2>1, <2>3 DEF DInv, HeldReadable
<1> QED
  BY <1>2, <1>3 DEF HeldReadable

\* A save holds on to the documents on disk and adds one that can be read.
LEMMA SavesKeeps ==
  ASSUME IInv, DInv, BeginSave, UNCHANGED files,
         NEW a \in Application, NEW d \in Document, is_valid(a), Saves(a, d)
  PROVE  /\ saved' \in [1 .. MaxVersion -> Document]
         /\ HeldReadable'
         /\ newest' <= MaxVersion
<1> DEFINE all == [saved EXCEPT ![newest'] = encode(a, d)]
<1>1. newest \in Nat /\ newest' = newest + 1 /\ doc' = newest' /\ newest' <= MaxVersion /\ MaxVersion \in Nat
  BY StoreAssumption DEF StoreAssumption, BeginSave, IInv, TypeInv, TypeOK
<1>2. encode(a, d) \in Document /\ NoDocument \in Document
  BY EncodeType DEF NoDocument, Document
<1>3. all \in [1 .. MaxVersion -> Document]
  BY <1>2 DEF DInv, DocumentTypes
<1>4. saved' = [v \in 1 .. MaxVersion |-> Held(v, all)]
  BY DEF Saves, Recorded
<1>5. saved' \in [1 .. MaxVersion -> Document]
  BY <1>2, <1>3, <1>4 DEF Held
<1>6. ASSUME NEW v \in {primary', backup', temporary', doc'}, Parses(v)
      PROVE  decode(saved'[v]) # Unreadable
  <2>1. CASE v = newest'
    <3>1. v \in 1 .. MaxVersion
      BY <1>1, <2>1
    <3>2. saved'[v] = encode(a, d)
      BY <1>1, <1>4, <2>1, <3>1 DEF Held, DInv, DocumentTypes
    <3> QED
      BY <3>2, Readable
  <2>2. CASE v # newest'
    <3>1. v \in {primary, backup, temporary}
      BY <1>1, <1>6, <2>2 DEF files
    <3>2. v \in 1 .. MaxVersion
      BY <1>6, <3>1, HeldInRange
    <3>3. saved'[v] = saved[v]
      BY <1>4, <1>6, <2>2, <3>2 DEF Held, DInv, DocumentTypes
    <3> QED
      BY <1>6, <3>1, <3>3 DEF DInv, HeldReadable
  <2> QED
    BY <2>1, <2>2
<1> QED
  BY <1>1, <1>5, <1>6 DEF HeldReadable

\* What a start loads, from whichever file, is a valid state.
LEMMA LoadedValid ==
  ASSUME IInv, DInv, Start
  PROVE  /\ Loaded(loaded'.version).application \in Application
         /\ is_valid(Loaded(loaded'.version).application)
         /\ Loaded(loaded'.version).document \in Document
<1>1. PICK p \in AsRead(primary), b \in AsRead(backup), t \in AsRead(temporary) :
        loaded' = Recovered(p, b, t)
  BY DEF Start
<1>2. \/ loaded'.version = 0
      \/ loaded'.version \in {primary, backup, temporary} /\ Parses(loaded'.version)
  BY <1>1, StoreAssumption DEF StoreAssumption, AsRead, Recovered, Parses, Version
<1>3. CASE loaded'.version = 0
  BY <1>3, DefaultValid DEF Loaded, NoDocument, Document
<1>4. CASE loaded'.version # 0
  <2> DEFINE v == loaded'.version
  <2>1. v \in {primary, backup, temporary} /\ Parses(v)
    BY <1>2, <1>4
  <2>2. v \in 1 .. MaxVersion /\ decode(saved[v]) # Unreadable
    BY <2>1, HeldInRange DEF DInv, HeldReadable
  <2>3. saved[v] \in Document
    BY <2>2 DEF DInv, DocumentTypes
  <2> HIDE DEF v
  <2>4. decode(saved[v]) \in Application /\ is_valid(decode(saved[v]))
    BY <2>2, <2>3, DecodeType
  <2>5. Loaded(v) = [application |-> decode(saved[v]), document |-> saved[v]]
    BY <1>4 DEF Loaded, v
  <2> QED
    BY <2>3, <2>4, <2>5 DEF v
<1> QED
  BY <1>3, <1>4

\* A tab that an edit opens has no fields to lose, and a closed one's are
\* nobody's any more.
LEMMA EditKept ==
  ASSUME DInv, Edit
  PROVE  /\ UNCHANGED <<vars, preserved, saved>>
         /\ kept' \in [Ids -> Unknown]
         /\ KeptPreserved'
<1>1. UNCHANGED <<vars, preserved, saved>>
  BY DEF Edit, NewTab, CloseTab, MoveTab, ShowIn, Edited
<1>2. kept' = kept \/ \E id \in Ids : kept' = [kept EXCEPT ![id] = NoUnknown]
  BY DEF Edit, NewTab, CloseTab, MoveTab, ShowIn, Edited
<1>3. NoUnknown \in Unknown
  BY DEF NoUnknown, Unknown
<1>4. kept' \in [Ids -> Unknown]
  BY <1>2, <1>3 DEF DInv, DocumentTypes
<1>5. KeptPreserved'
  BY <1>1, <1>2 DEF DInv, DocumentTypes, KeptPreserved, NoUnknown, Unknown
<1> QED
  BY <1>1, <1>4, <1>5

\* What another build leaves is a document again.
LEMMA ForeignType ==
  ASSUME NEW d \in Document, NEW e \in Foreign(d)
  PROVE  e \in Document
<1>1. CASE e = [d EXCEPT !.tabs = [id \in Ids |-> IF @[id] = Closed THEN Closed
                   ELSE [@[id] EXCEPT !.unknown = [tab |-> TRUE, parent |-> TRUE]]]]
  <2>1. \A id \in Ids : d.tabs[id] # Closed =>
          [d.tabs[id] EXCEPT !.unknown = [tab |-> TRUE, parent |-> TRUE]] \in Entry
    BY DEF Document, Entry, Unknown
  <2> QED
    BY <1>1, <2>1 DEF Document
<1>2. CASE e = [d EXCEPT !.schema = 2] \/ e = [d EXCEPT !.font = Garbled]
  BY <1>2 DEF Document
<1>3. CASE \E id \in Open(d.tabs) :
             e = [d EXCEPT !.tabs[id].known.columns = Garbled, !.tabs[id].unknown.tab = TRUE]
  <2>1. PICK id \in Open(d.tabs) :
          e = [d EXCEPT !.tabs[id].known.columns = Garbled, !.tabs[id].unknown.tab = TRUE]
    BY <1>3
  <2>2. d.tabs[id] \in Entry /\ id \in Ids
    BY <2>1 DEF Open, Document
  <2>3. [d.tabs[id] EXCEPT !.known.columns = Garbled, !.unknown.tab = TRUE] \in Entry
    BY <2>2 DEF Entry, Unknown
  <2>4. e = [d EXCEPT !.tabs = [d.tabs EXCEPT ![id] =
               [d.tabs[id] EXCEPT !.known.columns = Garbled, !.unknown.tab = TRUE]]]
    BY <2>1, <2>2 DEF Document, Entry
  <2> QED
    BY <2>2, <2>3, <2>4 DEF Document
<1>4. CASE \E id \in Open(d.tabs) : e = [d EXCEPT !.tabs[id].known.name = Garbled]
  <2>1. PICK id \in Open(d.tabs) : e = [d EXCEPT !.tabs[id].known.name = Garbled]
    BY <1>4
  <2>2. d.tabs[id] \in Entry /\ id \in Ids
    BY <2>1 DEF Open, Document
  <2>3. [d.tabs[id] EXCEPT !.known.name = Garbled] \in Entry
    BY <2>2 DEF Entry
  <2>4. e = [d EXCEPT !.tabs = [d.tabs EXCEPT ![id] = [d.tabs[id] EXCEPT !.known.name = Garbled]]]
    BY <2>1, <2>2 DEF Document
  <2> QED
    BY <2>2, <2>3, <2>4 DEF Document
<1> QED
  BY <1>1, <1>2, <1>3, <1>4 DEF Foreign

\* No step breaks the invariant, given the one of the files.
LEMMA DInvStep == DInv /\ IInv /\ IInv' /\ [DocumentNext]_allVars => DInv'
<1> SUFFICES ASSUME DInv, IInv, IInv', [DocumentNext]_allVars PROVE DInv'
  OBVIOUS
<1>1. CASE StartDocument
  <2> DEFINE read == Loaded(loaded'.version)
  <2>1. Start /\ BeginSave /\ UNCHANGED files /\ pc' # "down"
    BY <1>1 DEF StartDocument, Start, BeginSave, files
  <2>2. read.application \in Application /\ is_valid(read.application) /\ read.document \in Document
    BY <2>1, LoadedValid
  <2> HIDE DEF read
  <2>3. /\ app' = read.application /\ preserved' = read.document
        /\ kept' = [id \in Ids |-> IF read.document.tabs[id] = Closed THEN NoUnknown
                                   ELSE read.document.tabs[id].unknown]
        /\ Saves(read.application, read.document)
    BY <1>1 DEF StartDocument, read
  <2>4. saved' \in [1 .. MaxVersion -> Document] /\ HeldReadable' /\ newest' <= MaxVersion
    BY <2>1, <2>2, <2>3, SavesKeeps
  <2>5. kept' \in [Ids -> Unknown]
    BY <2>2, <2>3 DEF Document, Entry, NoUnknown, Unknown
  <2>6. KeptPreserved'
    BY <2>3 DEF KeptPreserved, NoUnknown
  <2> QED
    BY <2>2, <2>3, <2>4, <2>5, <2>6 DEF DInv, DocumentTypes
<1>2. CASE SaveDocument
  <2>1. /\ BeginSave /\ UNCHANGED files /\ pc # "down"
        /\ Saves(app, preserved) /\ UNCHANGED <<app, preserved, kept>>
    BY <1>2 DEF SaveDocument, Save, files
  <2>2. app \in Application /\ preserved \in Document /\ is_valid(app)
    BY <2>1 DEF DInv, DocumentTypes
  <2>3. saved' \in [1 .. MaxVersion -> Document] /\ HeldReadable' /\ newest' <= MaxVersion
    BY <2>1, <2>2, SavesKeeps
  <2> QED
    BY <2>1, <2>2, <2>3 DEF DInv, DocumentTypes, KeptPreserved, is_valid
<1>3. CASE StoreStep
  <2>1. UNCHANGED <<app, preserved, kept>> /\ Recorded(saved)
    BY <1>3 DEF StoreStep
  <2>2. newest' = newest /\ (pc' # "down" => pc # "down")
    BY <1>3 DEF StoreStep, RemoveTemporary, OpenTemporary, FillTemporary, FlushTemporary,
        InspectPrimary, RotatePrimary, CommitTemporary, RestorePrimary, Cleanup, Stop, Damage, WriteFrame
  <2>3. saved' \in [1 .. MaxVersion -> Document] /\ HeldReadable'
    BY <1>3, <2>1, <2>2, NothingElseHeld, RecordedKeeps
  <2> QED
    BY <2>1, <2>2, <2>3 DEF DInv, DocumentTypes, KeptPreserved, is_valid
<1>4. CASE Edit
  <2>1. pc # "down" /\ UNCHANGED <<vars, preserved, saved>>
    BY <1>4, EditKept DEF Edit, NewTab, CloseTab, MoveTab, ShowIn, Edited
  <2>2. app' \in Application /\ is_valid(app')
    BY <1>4, <2>1, EditValid DEF DInv, DocumentTypes
  <2>3. kept' \in [Ids -> Unknown] /\ KeptPreserved'
    BY <1>4, EditKept
  <2> QED
    BY <2>1, <2>2, <2>3 DEF DInv, DocumentTypes, HeldReadable, vars
<1>5. CASE VisitDocument
  <2>1. PICK e \in Foreign(saved[primary]) :
          IF decode(e) = Unreadable
          THEN Damage /\ Recorded(saved)
          ELSE UNCHANGED vars /\ saved' = [saved EXCEPT ![primary] = e]
    BY <1>5 DEF VisitDocument
  <2>2. pc = "down" /\ Parses(primary) /\ UNCHANGED <<app, preserved, kept>>
    BY <1>5 DEF VisitDocument
  <2>3. CASE decode(e) = Unreadable
    <3>1. newest' = newest /\ pc' = "down"
      BY <2>1, <2>2, <2>3 DEF Damage
    <3>2. saved' \in [1 .. MaxVersion -> Document] /\ HeldReadable'
      BY <2>1, <2>3, <3>1, NothingElseHeld, RecordedKeeps
    <3> QED
      BY <2>2, <3>1, <3>2 DEF DInv, DocumentTypes, KeptPreserved
  <2>4. CASE decode(e) # Unreadable
    <3>1. primary \in 1 .. MaxVersion
      BY <2>2, HeldInRange
    <3>2. e \in Document
      BY <2>1, <3>1, ForeignType DEF DInv, DocumentTypes
    <3>3. UNCHANGED vars /\ saved' = [saved EXCEPT ![primary] = e]
      BY <2>1, <2>4
    <3>4. saved' \in [1 .. MaxVersion -> Document]
      BY <3>2, <3>3 DEF DInv, DocumentTypes
    <3>5. HeldReadable'
      BY <2>4, <3>1, <3>3, HeldInRange DEF DInv, DocumentTypes, HeldReadable, vars
    <3> QED
      BY <2>2, <3>3, <3>4, <3>5 DEF DInv, DocumentTypes, KeptPreserved, vars
  <2> QED
    BY <2>3, <2>4
<1>6. CASE UNCHANGED allVars \/ (StayDown /\ UNCHANGED docVars)
  <2>1. UNCHANGED <<vars, docVars>>
    BY <1>6 DEF allVars, StayDown
  <2> QED
    BY <2>1 DEF vars, docVars, DInv, DocumentTypes, HeldReadable, KeptPreserved, is_valid
<1> QED
  BY <1>1, <1>2, <1>3, <1>4, <1>5, <1>6 DEF DocumentNext

\* So every state of a behaviour has both.
LEMMA DInvHolds == DocumentSpec => [](DInv /\ IInv)
<1>1. DocumentInit => DInv
  <2>1. SUFFICES ASSUME DocumentInit PROVE DInv
    OBVIOUS
  <2>2. Decoded(NoDocument) \in Application
    BY DEF Decoded, NoDocument, Optional, Application
  <2>3. NoDocument \in Document /\ NoUnknown \in Unknown
    BY DEF NoDocument, Document, NoUnknown, Unknown
  <2>4. saved \in [1 .. MaxVersion -> Document] /\ kept \in [Ids -> Unknown]
    BY <2>1, <2>3 DEF DocumentInit
  <2> QED
    BY <2>1, <2>2, <2>3, <2>4, StoreAssumption
    DEF StoreAssumption, DocumentInit, Init, DInv, DocumentTypes, HeldReadable, Parses, Version,
        KeptPreserved, NoUnknown
<1> QED
  BY <1>1, DInvStep, StoreImplemented, InvHolds, PTL DEF DocumentSpec

-----------------------------------------------------------------------------
(* What follows from it. *)

\* Whatever the user closes, opens and moves, whichever calls fail and wherever
\* the program stops, each file that parses is a session the next start takes,
\* and what serialize_session writes reads back as the state it was written from.
THEOREM SessionReadsBack == DocumentSpec => []ReadsBack
<1>1. DInv /\ IInv => ReadsBack
  <2> SUFFICES ASSUME DInv, IInv PROVE ReadsBack
    OBVIOUS
  <2>1. DocumentTypeOK
    BY DEF DInv, IInv, TypeInv, DocumentTypes, DocumentTypeOK
  <2>2. \A v \in {primary, backup, temporary} : Parses(v) => decode(saved[v]) # Unreadable
    BY DEF DInv, HeldReadable
  <2>3. pc # "down" => decode(encode(app, preserved)) = app
    BY Readable DEF DInv, DocumentTypes
  <2> QED
    BY <2>1, <2>2, <2>3 DEF ReadsBack
<1> QED
  BY <1>1, DInvHolds, PTL

\* preserved_tab_object finds what another build put into a tab's entry in
\* every save of the run, wherever the tab has been dragged.
THEOREM MetadataStays == DocumentSpec => []UnknownFieldsKept
<1>1. DInv => UnknownFieldsKept
  BY DEF DInv, DocumentTypes, KeptPreserved, UnknownFieldsKept, encode, EncodedTab, Preserved,
      Open, Unknown
<1> QED
  BY <1>1, DInvHolds, PTL

-----------------------------------------------------------------------------
(* SessionWriter's debounce.  DirtyIsOwed is inductive as it stands.  *)

\* Arming the timer with an age in range leaves timer and age in range, and
\* either the timer runs or the failure is on record.
LEMMA ArmTimerSound ==
    ASSUME DelayAssumption, WriterTypeOK,
           NEW was \in BOOLEAN, NEW waited \in 0..AgeBound, ArmTimer(was, waited)
    PROVE  /\ armed' \in BOOLEAN /\ remaining' \in 0..Delay
           /\ age' \in 0..AgeBound /\ arm_failed' \in BOOLEAN
           /\ armed' \/ arm_failed'
<1>1. 0 \in 0..AgeBound
  BY DEF DelayAssumption, AgeBound
<1>2. remaining' \in 0..Delay
  BY DEF ArmTimer, WriterTypeOK, DelayAssumption
<1>3. age' \in 0..AgeBound
  BY <1>1 DEF ArmTimer
<1>4. armed' \in BOOLEAN /\ arm_failed' \in BOOLEAN /\ (armed' \/ arm_failed')
  BY DEF ArmTimer
<1> QED
  BY <1>2, <1>3, <1>4

\* A write leaves a session that is clean, or a write that is owed.
LEMMA WriteSound ==
    ASSUME DelayAssumption, WriterTypeOK,
           NEW success \in BOOLEAN, NEW was \in BOOLEAN, Write(success, was)
    PROVE  /\ dirty' \in BOOLEAN /\ armed' \in BOOLEAN /\ remaining' \in 0..Delay
           /\ age' \in 0..AgeBound /\ arm_failed' \in BOOLEAN
           /\ DirtyIsOwed'
<1>1. CASE success
  BY <1>1 DEF Write, WriterTypeOK, DirtyIsOwed
<1>2. CASE ~success
  <2>1. ArmTimer(was, age) /\ dirty'
    BY <1>2 DEF Write
  <2>2. age \in 0..AgeBound
    BY DEF WriterTypeOK
  <2> QED
    BY <1>2, <2>1, <2>2, ArmTimerSound DEF Write, DirtyIsOwed
<1> QED
  BY <1>1, <1>2

WriterIInv == WriterTypeOK /\ DirtyIsOwed

LEMMA WriterInvStep == WriterIInv /\ [WriterNext]_writer_vars => WriterIInv'
<1> SUFFICES ASSUME WriterIInv, [WriterNext]_writer_vars PROVE WriterIInv'
  OBVIOUS
<1>a. WriterTypeOK /\ DirtyIsOwed /\ age \in 0..AgeBound
  BY DEF WriterIInv, WriterTypeOK
<1>1. CASE Schedule
  <2>1. CASE dirty' = TRUE /\ ArmTimer(armed, age) /\ ~arm_failed'
    <3>1. armed \in BOOLEAN
      BY <1>a DEF WriterTypeOK
    <3> QED
      BY <1>a, <1>1, <2>1, <3>1, DelayAssumption, ArmTimerSound
      DEF Schedule, WriterIInv, WriterTypeOK, DirtyIsOwed
  <2>2. CASE \E success \in BOOLEAN : Write(success, armed)
    BY <1>a, <1>1, <2>2, DelayAssumption, WriteSound DEF Schedule, WriterIInv, WriterTypeOK
  <2> QED
    BY <1>1, <2>1, <2>2 DEF Schedule
<1>2. CASE SaveNow
  BY <1>a, <1>2, DelayAssumption, WriteSound DEF SaveNow, WriterIInv, WriterTypeOK
<1>3. CASE WindowCreated
  BY <1>a, <1>3 DEF WindowCreated, WriterIInv, WriterTypeOK, DirtyIsOwed
<1>4. CASE TimerInShell
  <2>1. Delay \in 0..Delay
    BY DelayAssumption DEF DelayAssumption
  <2> QED
    BY <1>a, <1>4, <2>1 DEF TimerInShell, WriterIInv, WriterTypeOK, DirtyIsOwed
<1>5. CASE \E success \in BOOLEAN : TimerFires(success)
  <2>1. PICK success \in BOOLEAN : TimerFires(success)
    BY <1>5
  <2>2. CASE dirty
    <3>1. Write(success, FALSE)
      BY <2>1, <2>2 DEF TimerFires
    <3> QED
      BY <1>a, <2>1, <3>1, DelayAssumption, WriteSound DEF TimerFires, WriterIInv, WriterTypeOK
  <2>3. CASE ~dirty
    BY <1>a, <2>1, <2>3 DEF TimerFires, WriterIInv, WriterTypeOK, DirtyIsOwed
  <2> QED
    BY <2>2, <2>3
<1>6. CASE Tick
  <2>1. remaining' \in 0..Delay /\ age' \in 0..AgeBound
    BY <1>a, <1>6, DelayAssumption DEF Tick, WriterTypeOK, DelayAssumption, AgeBound
  <2> QED
    BY <1>a, <1>6, <2>1 DEF Tick, WriterIInv, WriterTypeOK, DirtyIsOwed
<1>7. CASE ShellCall
  BY <1>a, <1>7 DEF ShellCall, WriterIInv, WriterTypeOK, DirtyIsOwed
<1>8. CASE UNCHANGED writer_vars
  BY <1>a, <1>8 DEF writer_vars, WriterIInv, WriterTypeOK, DirtyIsOwed
<1> QED
  BY <1>1, <1>2, <1>3, <1>4, <1>5, <1>6, <1>7, <1>8 DEF WriterNext

LEMMA WriterInvHolds == WriterSpec => []WriterIInv
<1>1. WriterInit => WriterIInv
  <2>1. 0 \in 0..Delay /\ 0 \in 0..AgeBound
    BY DelayAssumption DEF DelayAssumption, AgeBound
  <2> QED
    BY <2>1 DEF WriterInit, WriterIInv, WriterTypeOK, DirtyIsOwed
<1> QED
  BY <1>1, WriterInvStep, PTL DEF WriterSpec

\* The timer is never set further ahead than one delay, and the age that the
\* ceiling is compared with stays in its range.
THEOREM WriterTypeCorrect == WriterSpec => []WriterTypeOK
<1>1. WriterIInv => WriterTypeOK
  BY DEF WriterIInv
<1> QED
  BY <1>1, WriterInvHolds, PTL

\* SessionWriter never forgets a change: a dirty session has a timer armed, or
\* arming it has failed.
THEOREM WriteIsOwed == WriterSpec => []DirtyIsOwed
<1>1. WriterIInv => DirtyIsOwed
  BY DEF WriterIInv
<1> QED
  BY <1>1, WriterInvHolds, PTL
==============================================================================
