--------------------------- MODULE SessionDocument ---------------------------
(***************************************************************************)
(* What the session file says (src/src/core/session.cpp), composed with    *)
(* the file itself (SessionStore): encode writes the state of the program  *)
(* over the document it was loaded from, so that fields another build put  *)
(* there survive, and decode takes every document it can.  The document    *)
(* is preserved as it was loaded, whatever the user does to the tabs since.*)
(*                                                                         *)
(* One Group with its panes; an item is a tab, known by its id, which      *)
(* next_tab_id hands out again once the tab is closed.  Groups, panes and  *)
(* pinned locations are preserved the same way and are left out, as is the *)
(* order of the tabs.  The text of the document is a record: the fields    *)
(* decode tells apart, with Garbled for a value it does not understand.    *)
(***************************************************************************)
EXTENDS SessionStore

CONSTANTS
  Panes,      \* the panes of the Group
  LastTab,    \* the tab ids are 0 .. LastTab
  Names,      \* the locations a tab shows, by name
  Home,       \* the default location
  Columns,    \* the layouts of columns a tab may have
  Fonts,      \* valid_list_font_points
  None,       \* no parent, default columns, default font
  Closed,     \* no tab has the id
  Garbled,    \* a value of another type than decode expects, or none
  Unreadable, \* decode returns nothing
  MaxEdits

ASSUME DocumentAssumption ==
  /\ LastTab \in Nat
  /\ Panes # {} /\ Panes \subseteq 1 .. LastTab + 1
  /\ Home \in Names
  /\ None \notin Names /\ Garbled \notin Names
  /\ Garbled \notin Columns \cup Fonts \cup {None}

VARIABLES
  app,      \* ApplicationState: the tabs by id, and the list font
  preserved,\* the document the state was loaded from, preserved_json
  saved,    \* saved[v]: the document of version v, while a file holds it
  kept,     \* history: what of an open tab's entry this program does not know
  edits, visited

docVars == <<app, preserved, saved, kept, edits, visited>>
allVars == <<vars, docVars>>

-----------------------------------------------------------------------------
(* The state of the program and the document. *)

Ids == 0 .. LastTab

Tab == [pane : Panes, name : Names, parent : Names \cup {None}, columns : Columns \cup {None}]

Application == [tabs : [Ids -> Tab \cup {Closed}], font : Fonts \cup {None}]

\* Fields of a later build, of a tab and of the navigation_parent of its location.
Unknown == [tab : BOOLEAN, parent : BOOLEAN]

NoUnknown == [tab |-> FALSE, parent |-> FALSE]

\* An entry of the document: the fields this build knows, and the others.
Entry == [known : [pane : Panes, name : Names \cup {Garbled}, parent : Names \cup {None},
                   columns : Columns \cup {None, Garbled}],
          unknown : Unknown]

Document == [schema : {1, 2}, tabs : [Ids -> Entry \cup {Closed}], font : Fonts \cup {None, Garbled}]

ASSUME OutsideAssumption ==
  Closed \notin Tab /\ Closed \notin Entry /\ Unreadable \notin Application

NoDocument == [schema |-> 1, tabs |-> [id \in Ids |-> Closed], font |-> None]

Open(tabs) == {id \in Ids : tabs[id] # Closed}

In(tabs, p) == {id \in Open(tabs) : tabs[id].pane = p}

\* is_valid, what it says of the tabs: every pane has one.
is_valid(application) == \A p \in Panes : In(application.tabs, p) # {}

-----------------------------------------------------------------------------
(* serialize_session *)

\* Mutant: only the pane the tab is in now is searched.
PreservedInPane(document, id, p) ==
  IF document.tabs[id] = Closed \/ document.tabs[id].known.pane # p THEN NoUnknown
  ELSE document.tabs[id].unknown

\* preserved_tab_object: the entry of that id, in whichever pane it was.
Preserved(document, id, p) ==
  IF document.tabs[id] = Closed THEN NoUnknown ELSE document.tabs[id].unknown

\* Mutant: a location without a parent keeps the fields of the old one.
ParentLeft(parent, document, id) ==
  IF parent = None /\ document.tabs[id] # Closed THEN document.tabs[id].known.parent ELSE parent

\* encode_shell_location: the known fields of an old parent go with the parent.
EncodedParent(parent, document, id) == parent

EncodedTab(tab, id, document) ==
  [known |-> [pane |-> tab.pane, name |-> tab.name, columns |-> tab.columns,
              parent |-> EncodedParent(tab.parent, document, id)],
   unknown |-> Preserved(document, id, tab.pane)]

encode(application, document) ==
  [schema |-> 1, font |-> application.font,
   tabs |-> [id \in Ids |-> IF application.tabs[id] = Closed THEN Closed
                            ELSE EncodedTab(application.tabs[id], id, document)]]

-----------------------------------------------------------------------------
(* deserialize_session *)

\* An optional field that is not understood is as good as none.
Optional(value) == IF value = Garbled THEN None ELSE value

DecodedTab(entry) ==
  [pane |-> entry.known.pane, name |-> entry.known.name, parent |-> entry.known.parent,
   columns |-> Optional(entry.known.columns)]

Decoded(document) ==
  [font |-> Optional(document.font),
   tabs |-> [id \in Ids |-> IF document.tabs[id] = Closed THEN Closed ELSE DecodedTab(document.tabs[id])]]

\* A required field is missing, or the schema is one that migrate does not know.
Rejected(document) ==
  \/ document.schema # 1
  \/ \E id \in Open(document.tabs) : document.tabs[id].known.name = Garbled

decode(document) ==
  IF Rejected(document) \/ ~is_valid(Decoded(document)) THEN Unreadable ELSE Decoded(document)

-----------------------------------------------------------------------------
(* What the user does to the tabs between two saves. *)

Fresh(p) == [pane |-> p, name |-> Home, parent |-> None, columns |-> None]

NextId(id) == id \notin Open(app.tabs) /\ \A n \in 0 .. id - 1 : n \in Open(app.tabs)

Edited(tabs, unknown) ==
  /\ pc = "idle" /\ edits < MaxEdits
  /\ edits' = edits + 1
  /\ app' = [app EXCEPT !.tabs = tabs]
  /\ kept' = unknown
  /\ UNCHANGED <<vars, preserved, saved, visited>>

NewTab(p, id) ==
  /\ NextId(id)
  /\ Edited([app.tabs EXCEPT ![id] = Fresh(p)], [kept EXCEPT ![id] = NoUnknown])

Alone(id) == In(app.tabs, app.tabs[id].pane) = {id}

\* The last tab of a pane is reset, not closed.
CloseTab(id) ==
  /\ id \in Open(app.tabs)
  /\ IF Alone(id)
     THEN Edited([app.tabs EXCEPT ![id].name = Home, ![id].parent = None], kept)
     ELSE Edited([app.tabs EXCEPT ![id] = Closed], [kept EXCEPT ![id] = NoUnknown])

\* move_tab: a pane that gives its last tab keeps a placeholder under a new id.
MoveTab(id, p, retained) ==
  /\ id \in Open(app.tabs) /\ p # app.tabs[id].pane
  /\ IF Alone(id)
     THEN /\ NextId(retained)
          /\ Edited([app.tabs EXCEPT ![id].pane = p,
                       ![retained] = [Fresh(app.tabs[id].pane) EXCEPT !.columns = app.tabs[id].columns]],
                    [kept EXCEPT ![retained] = NoUnknown])
     ELSE /\ retained = id
          /\ Edited([app.tabs EXCEPT ![id].pane = p], kept)

ShowIn(id, name, parent, columns) ==
  /\ id \in Open(app.tabs)
  /\ Edited([app.tabs EXCEPT ![id].name = name, ![id].parent = parent, ![id].columns = columns], kept)

Edit ==
  \/ \E p \in Panes, id \in Ids : NewTab(p, id)
  \/ \E id \in Ids : CloseTab(id)
  \/ \E id, retained \in Ids, p \in Panes : MoveTab(id, p, retained)
  \/ \E id \in Ids, name \in Names, parent \in Names \cup {None}, columns \in Columns \cup {None} :
       ShowIn(id, name, parent, columns)

-----------------------------------------------------------------------------
(* The store's steps, and what they do to the documents. *)

\* A document is kept as long as a file or the save in progress holds it.
Held(v, documents) ==
  IF v \in {primary', backup', temporary', doc'} THEN documents[v] ELSE NoDocument

Recorded(documents) == saved' = [v \in 1 .. MaxVersion |-> Held(v, documents)]

\* write_session serializes the state over what it was loaded from.
Saves(application, document) == Recorded([saved EXCEPT ![newest'] = encode(application, document)])

DefaultState ==
  [tabs |-> [id \in Ids |-> IF id + 1 \in Panes THEN Fresh(id + 1) ELSE Closed], font |-> None]

\* What read_session returns for a version, 0 being the default state.
Loaded(v) ==
  IF v = 0 THEN [application |-> DefaultState, document |-> NoDocument]
  ELSE [application |-> decode(saved[v]), document |-> saved[v]]

\* wWinMain: read_session, adopt, and the first save.
StartDocument ==
  /\ Start
  /\ \E read \in {Loaded(loaded'.version)} :
       /\ app' = read.application
       /\ preserved' = read.document
       /\ kept' = [id \in Ids |-> IF read.document.tabs[id] = Closed THEN NoUnknown
                                  ELSE read.document.tabs[id].unknown]
       /\ Saves(read.application, read.document)
  /\ UNCHANGED <<edits, visited>>

SaveDocument ==
  /\ Save
  /\ Saves(app, preserved)
  /\ UNCHANGED <<app, preserved, kept, edits, visited>>

StoreStep ==
  /\ \/ RemoveTemporary \/ OpenTemporary \/ FillTemporary \/ FlushTemporary
     \/ InspectPrimary \/ RotatePrimary \/ CommitTemporary \/ RestorePrimary \/ Cleanup
     \/ Stop \/ Damage
  /\ Recorded(saved)
  /\ UNCHANGED <<app, preserved, kept, edits, visited>>

\* Another build, or an editor, has left the document with fields of its own,
\* and with a flaw.
Foreign(document) ==
  {[document EXCEPT !.tabs = [id \in Ids |-> IF @[id] = Closed THEN Closed
                                ELSE [@[id] EXCEPT !.unknown = [tab |-> TRUE, parent |-> TRUE]]]],
   [document EXCEPT !.schema = 2], [document EXCEPT !.font = Garbled]}
  \cup {[document EXCEPT !.tabs[id].known.columns = Garbled, !.tabs[id].unknown.tab = TRUE] :
          id \in Open(document.tabs)}
  \cup {[document EXCEPT !.tabs[id].known.name = Garbled] : id \in Open(document.tabs)}

\* What the program cannot read is a damaged primary to it.
VisitDocument ==
  /\ pc = "down" /\ Parses(primary) /\ ~visited
  /\ visited' = TRUE
  /\ \E document \in Foreign(saved[primary]) :
       IF decode(document) = Unreadable
       THEN Damage /\ Recorded(saved)
       ELSE UNCHANGED vars /\ saved' = [saved EXCEPT ![primary] = document]
  /\ UNCHANGED <<app, preserved, kept, edits>>

DocumentInit ==
  /\ Init
  /\ app = Decoded(NoDocument) /\ preserved = NoDocument
  /\ saved = [v \in 1 .. MaxVersion |-> NoDocument]
  /\ kept = [id \in Ids |-> NoUnknown]
  /\ edits = 0 /\ visited = FALSE

DocumentNext ==
  \/ StartDocument \/ SaveDocument \/ StoreStep
  \/ Edit \/ VisitDocument
  \/ StayDown /\ UNCHANGED docVars

DocumentSpec == DocumentInit /\ [][DocumentNext]_allVars

-----------------------------------------------------------------------------
(* Properties. *)

DocumentTypeOK ==
  /\ TypeOK
  /\ app \in Application /\ preserved \in Document
  /\ saved \in [1 .. MaxVersion -> Document]
  /\ kept \in [Ids -> Unknown]

\* Every document a file holds can be read, so that "it parses" is what the
\* reader says of it; and whatever the user has done since it was loaded, saving
\* now writes one that reads back as the state: no known field of the old
\* document shines through, and no edit makes a state that a later read refuses.
ReadsBack ==
  /\ DocumentTypeOK
  /\ \A v \in {primary, backup, temporary} : Parses(v) => decode(saved[v]) # Unreadable
  /\ pc # "down" => decode(encode(app, preserved)) = app

\* "Repeated saves and moving back must not detach the metadata": the unknown
\* fields a tab was loaded with are in the next save, wherever the tab has been
\* dragged and however often the file was written since.
UnknownFieldsKept ==
  pc # "down" => \A id \in Open(app.tabs) :
    LET unknown == encode(app, preserved).tabs[id].unknown
    IN /\ kept[id].tab => unknown.tab
       /\ kept[id].parent => unknown.parent

\* Not so: a new tab takes over what a closed tab of its id left behind.
NothingInherited ==
  pc # "down" => \A id \in Open(app.tabs) : encode(app, preserved).tabs[id].unknown = kept[id]
=============================================================================
