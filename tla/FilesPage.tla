-------------------------------- MODULE FilesPage --------------------------------
(***************************************************************************)
(* The file manager's page in one browser tab: the folder it shows, what is ticked,   *)
(* the dialogs, a batch of uploads that goes on while the person looks elsewhere,    *)
(* the editor and the contents it waits for. A file is a place: a folder and a       *)
(* name. What the node does with a request is in Files.                         *)
(***************************************************************************)
EXTENDS Naturals

CONSTANTS
  Folder, Root,  \* folders, and the one the page opens with
  Name,          \* names, the same in every folder
  Nowhere,
  BatchSize,     \* files chosen for one upload
  MaxClicks      \* what the person does: a bound

FilesPageAssumption == Root \in Folder /\ Nowhere \notin Folder /\ {BatchSize, MaxClicks} \subseteq Nat

Place == Folder \X Name
None  == <<Nowhere, Nowhere>>

VARIABLES
  path,     \* the folder shown
  search,   \* or the results of a search, from all folders
  selected, \* places that are ticked
  dialog,   \* what is asked: a deletion, a name, whether to discard
  sent,     \* requests under way, with what they name
  batch,    \* an upload: the folder it was chosen in, files to go, where they went
  reading,  \* places whose contents are on their way to the editor
  editor,   \* the place in its title, the place its text is of, its first text's, changed
  clicks

vars == <<path, search, selected, dialog, sent, batch, reading, editor, clicks>>

NoDialog == [kind |-> "none", places |-> {}, folder |-> Nowhere]
NoBatch  == [folder |-> Nowhere, left |-> 0, went |-> {}]
NoEditor == [title |-> None, text |-> None, typed |-> FALSE, saving |-> FALSE]
Kinds    == {"delete", "create", "rename", "copy", "compress", "decompress", "save"}

TypeOK ==
  /\ path \in Folder /\ search \in BOOLEAN /\ selected \subseteq Place
  /\ dialog \in [kind : {"none", "delete", "create", "rename", "discard"}, places : SUBSET Place, folder : Folder \cup {Nowhere}]
  /\ sent \subseteq [kind : Kinds, places : SUBSET Place, folder : Folder \cup {Nowhere}]
  /\ batch \in [folder : Folder \cup {Nowhere}, left : 0 .. BatchSize, went : SUBSET Folder]
  /\ editor \in [title : Place \cup {None}, text : Place \cup {None}, typed : BOOLEAN, saving : BOOLEAN]
  /\ reading \subseteq Place
  /\ clicks \in 0 .. MaxClicks

Init ==
  /\ path = Root /\ search = FALSE /\ selected = {}
  /\ dialog = NoDialog /\ sent = {} /\ batch = NoBatch
  /\ reading = {} /\ editor = NoEditor /\ clicks = 0

\* A dialog and the editor take the page's clicks to themselves.
Free   == dialog = NoDialog /\ editor = NoEditor
Click  == clicks < MaxClicks /\ clicks' = clicks + 1
Rows   == IF search THEN Place ELSE {path} \X Name
Mutate(kind, places, folder) == sent' = sent \cup {[kind |-> kind, places |-> places, folder |-> folder]}

-----------------------------------------------------------------------------
(***************************************************************************)
(* Looking around.                                                         *)
(***************************************************************************)
OpenFolder ==
  /\ Free /\ Click /\ \E f \in Folder : path' = f
  /\ search' = FALSE /\ selected' = {}
  /\ UNCHANGED <<dialog, sent, batch, reading, editor>>

\* The way back up keeps what is ticked.
Breadcrumb ==
  /\ Free /\ Click /\ \E f \in Folder : path' = f
  /\ search' = FALSE
  /\ UNCHANGED <<selected, dialog, sent, batch, reading, editor>>

Search ==
  /\ Free /\ Click /\ search' = ~search
  /\ UNCHANGED <<path, selected, dialog, sent, batch, reading, editor>>

Tick ==
  /\ Free /\ Click
  /\ \/ \E p \in Rows : selected' = IF p \in selected THEN selected \ {p} ELSE selected \cup {p}
     \/ selected' \in {Rows, {}}
  /\ UNCHANGED <<path, search, dialog, sent, batch, reading, editor>>

-----------------------------------------------------------------------------
(***************************************************************************)
(* The dialogs and menus. A deletion is for what was ticked, or for one row, when    *)
(* it was asked for; a name goes to the folder its dialog says.                   *)
(***************************************************************************)
Ask(kind, places, folder) ==
  /\ Free /\ Click /\ dialog' = [kind |-> kind, places |-> places, folder |-> folder]
  /\ UNCHANGED <<path, search, selected, sent, batch, reading, editor>>

RemoveEntries == \E places \in {selected} \cup {{p} : p \in Rows} : places # {} /\ Ask("delete", places, Nowhere)
AskCreate     == Ask("create", {}, path)
AskRename     == \E p \in Rows : Ask("rename", {p}, p[1])

Answer ==
  /\ dialog.kind \in {"delete", "create", "rename"} /\ dialog' = NoDialog
  /\ Mutate(dialog.kind, dialog.places, dialog.folder)
  /\ UNCHANGED <<path, search, selected, batch, reading, editor, clicks>>

Dismiss ==
  /\ dialog # NoDialog /\ dialog' = NoDialog
  /\ UNCHANGED <<path, search, selected, sent, batch, reading, editor, clicks>>

Duplicate ==
  /\ Free /\ Click /\ \E p \in Rows : Mutate("copy", {p}, p[1])
  /\ UNCHANGED <<path, search, selected, dialog, batch, reading, editor>>

\* By name, in the folder shown: also what was ticked in another, or found by a search.
Here(places) == {<<path, p[2]>> : p \in places}

Archive ==
  /\ Free /\ Click /\ selected # {} /\ Mutate("compress", Here(selected), path)
  /\ UNCHANGED <<path, search, selected, dialog, batch, reading, editor>>

Extract ==
  /\ Free /\ Click /\ \E p \in Rows : Mutate("decompress", Here({p}), path)
  /\ UNCHANGED <<path, search, selected, dialog, batch, reading, editor>>

\* The listing is asked for anew and nothing is ticked any more.
Refreshed == selected' = {}

\* A saving closes the editor, with what was typed since.
Succeeds ==
  /\ \E s \in sent :
       /\ sent' = sent \ {s}
       /\ editor' = IF s.kind = "save" THEN NoEditor ELSE editor
  /\ Refreshed
  /\ UNCHANGED <<path, search, dialog, batch, reading, clicks>>

Fails ==
  /\ \E s \in sent :
       /\ sent' = sent \ {s}
       /\ editor' = IF s.kind = "save" THEN [editor EXCEPT !.saving = FALSE] ELSE editor
  /\ UNCHANGED <<path, search, selected, dialog, batch, reading, clicks>>

-----------------------------------------------------------------------------
(***************************************************************************)
(* Uploads, one after the other, while the page stays usable.                     *)
(***************************************************************************)
ChooseFiles ==
  /\ Free /\ Click /\ batch = NoBatch
  /\ batch' = [folder |-> path, left |-> BatchSize, went |-> {}]
  /\ UNCHANGED <<path, search, selected, dialog, sent, reading, editor>>

\* Mutant: each file asks the page where it is by then.
Target_Now == path
\* The folder that was shown when the files were chosen.
Target == batch.folder

UploadOne ==
  /\ batch.left > 0
  /\ batch' = [batch EXCEPT !.left = @ - 1, !.went = @ \cup {Target}]
  /\ UNCHANGED <<path, search, selected, dialog, sent, reading, editor, clicks>>

UploadEnds ==
  /\ batch # NoBatch /\ batch' = NoBatch
  /\ IF batch.left = 0 THEN Refreshed ELSE UNCHANGED selected
  /\ UNCHANGED <<path, search, dialog, sent, reading, editor, clicks>>

-----------------------------------------------------------------------------
(***************************************************************************)
(* The editor. It is the same one when a second file's contents arrive: its title     *)
(* and what it compares with are the second file's then, its text stays.            *)
(***************************************************************************)
OpenEntry ==
  /\ Free /\ Click /\ \E p \in Rows : reading' = reading \cup {p}
  /\ UNCHANGED <<path, search, selected, dialog, sent, batch, editor>>

ContentsArrive ==
  /\ \E p \in reading :
       /\ reading' = reading \ {p}
       /\ editor' = IF editor = NoEditor THEN [NoEditor EXCEPT !.title = p, !.text = p] ELSE [editor EXCEPT !.title = p]
  /\ UNCHANGED <<path, search, selected, dialog, sent, batch, clicks>>

ContentsFail ==
  /\ \E p \in reading : reading' = reading \ {p}
  /\ UNCHANGED <<path, search, selected, dialog, sent, batch, editor, clicks>>

Dirty == editor.typed \/ editor.text # editor.title

Type ==
  /\ editor # NoEditor /\ dialog = NoDialog /\ Click
  /\ editor' = [editor EXCEPT !.typed = TRUE]
  /\ UNCHANGED <<path, search, selected, dialog, sent, batch, reading>>

Save ==
  /\ editor # NoEditor /\ dialog = NoDialog /\ Dirty /\ ~editor.saving
  /\ Mutate("save", {editor.title}, editor.title[1])
  /\ editor' = [editor EXCEPT !.saving = TRUE]
  /\ UNCHANGED <<path, search, selected, dialog, batch, reading, clicks>>

RequestClose ==
  /\ editor # NoEditor /\ dialog = NoDialog
  /\ IF Dirty THEN dialog' = [NoDialog EXCEPT !.kind = "discard"] /\ UNCHANGED editor
     ELSE editor' = NoEditor /\ UNCHANGED dialog
  /\ UNCHANGED <<path, search, selected, sent, batch, reading, clicks>>

Discard ==
  /\ dialog.kind = "discard" /\ dialog' = NoDialog /\ editor' = NoEditor
  /\ UNCHANGED <<path, search, selected, sent, batch, reading, clicks>>

-----------------------------------------------------------------------------
Next ==
  \/ OpenFolder \/ Breadcrumb \/ Search \/ Tick
  \/ RemoveEntries \/ AskCreate \/ AskRename \/ Answer \/ Dismiss \/ Duplicate \/ Archive \/ Extract \/ Succeeds \/ Fails
  \/ ChooseFiles \/ UploadOne \/ UploadEnds
  \/ OpenEntry \/ ContentsArrive \/ ContentsFail \/ Type \/ Save \/ RequestClose \/ Discard

Spec == Init /\ [][Next]_vars

-----------------------------------------------------------------------------
\* The files of one batch all go to the folder that was shown when they were chosen,
\* wherever the person has gone since.
BatchTogether == batch.went \subseteq {batch.folder}
===============================================================================
