---------------------------------- MODULE Files ----------------------------------
(***************************************************************************)
(* A directory of a server under everything that works on it at once: the file     *)
(* manager, downloads that land on a temporary name first, and SFTP clients that    *)
(* list it in batches. Names stand for files; a file is all there or half.        *)
(***************************************************************************)
EXTENDS Naturals, FiniteSets

CONSTANTS
  Name, Jar,   \* files; those that are downloaded
  Fetch,       \* downloads that run at once
  Renaming,        \* renames of the file manager that run at once
  Handle,      \* directories SFTP clients hold open
  Batch,       \* READDIR_BATCH
  MaxOps       \* operations of people, failures: a bound

FilesAssumption == Jar \subseteq Name /\ {Batch, MaxOps} \subseteq Nat /\ Batch > 0

VARIABLES
  dir,    \* per name: nothing, half a file, a whole one
  part,   \* likewise, under the name with .part after it
  fetch,  \* per download: the file it writes, which may have got another name meanwhile
  move,   \* per rename: what it found free
  handle, \* per listing: names still to answer, those answered, those there all along
  ops

vars == <<dir, part, fetch, move, handle, ops>>

State   == {"none", "half", "whole"}
NoFetch == [at |-> "idle", name |-> "", on |-> "part", alone |-> TRUE]
NoMove  == [at |-> "idle", from |-> "", to |-> ""]
Closed  == [at |-> "closed", left |-> {}, got |-> {}, there |-> {}]
Present == {n \in Name : dir[n] # "none"}

TypeOK ==
  /\ dir \in [Name -> State] /\ part \in [Jar -> State]
  /\ fetch \in [Fetch -> [at : {"idle", "writing", "written"}, name : Jar \cup {""},
                          on : {"part", "target", "gone"}, alone : BOOLEAN]]
  /\ move \in [Renaming -> [at : {"idle", "checked"}, from : Name \cup {""}, to : Name \cup {""}]]
  /\ handle \in [Handle -> [at : {"closed", "open", "eof"}, left : SUBSET Name, got : SUBSET Name, there : SUBSET Name]]
  /\ ops \in 0 .. MaxOps

Init ==
  /\ \E names \in SUBSET (Name \ Jar) : dir = [n \in Name |-> IF n \in names THEN "whole" ELSE "none"]
  /\ part = [n \in Jar |-> "none"]
  /\ fetch = [f \in Fetch |-> NoFetch] /\ move = [m \in Renaming |-> NoMove]
  /\ handle = [h \in Handle |-> Closed] /\ ops = 0

Op == ops < MaxOps /\ ops' = ops + 1

\* The directory changes; listings under way keep only what stays there.
Becomes(new) ==
  /\ dir' = new
  /\ handle' = [h \in Handle |-> [handle[h] EXCEPT !.there = {n \in handle[h].there : new[n] # "none"}]]

-----------------------------------------------------------------------------
(***************************************************************************)
(* The file manager, and what SFTP does in one go.                            *)
(***************************************************************************)
Written(names) == [n \in Name |-> IF n \in names THEN "whole" ELSE dir[n]]
Taken(names)   == [n \in Name |-> IF n \in names THEN "none" ELSE dir[n]]
Changes        == Op /\ UNCHANGED <<part, fetch, move>>

WriteFile == Changes /\ \E n \in Name \ Jar : Becomes(Written({n}))

\* One stream after the other. One that fails or is too large is taken away, and with
\* it what stood under its name; those before it stay.
WriteStream(n, ok) == IF ok THEN Written({n}) ELSE Taken({n})
Upload == Changes /\ \E n \in Name \ Jar, ok \in BOOLEAN : Becomes(WriteStream(n, ok))

\* A copy is refused over what is there.
Copied(from, to) == IF to \in Present THEN dir ELSE [dir EXCEPT ![to] = dir[from]]
CopyFile == Changes /\ \E from \in Present \ Jar, to \in Name \ Jar : Becomes(Copied(from, to))

\* An archive takes the place of a file of its name; what is not there is left out.
Compress == Changes /\ Present # {} /\ \E n \in Name \ Jar : Becomes(Written({n}))

\* Entry by entry over what is there; one that is too much ends it half way.
Decompress ==
  /\ Changes /\ Present # {}
  /\ \E names \in SUBSET (Name \ Jar) : Becomes(Written(names))

CreateDirectory == Changes /\ \E n \in Name \ (Jar \cup Present) : Becomes(Written({n}))

\* A download still writing to what is removed writes to a file without a name.
Remove ==
  /\ Op
  /\ \E names \in (SUBSET Present) \ {{}} :
       /\ Becomes(Taken(names))
       /\ fetch' = [f \in Fetch |-> IF fetch[f].on = "target" /\ fetch[f].name \in names
                                    THEN [fetch[f] EXCEPT !.on = "gone"] ELSE fetch[f]]
  /\ UNCHANGED <<part, move>>

Moved(from, to) == [dir EXCEPT ![to] = dir[from], ![from] = "none"]

\* The file manager looks first, then renames; jars keep their names here.
CheckRename(m) ==
  /\ Op /\ move[m].at = "idle"
  /\ \E from \in Present \ Jar, to \in Name \ (Present \cup Jar) : move' = [move EXCEPT ![m] = [at |-> "checked", from |-> from, to |-> to]]
  /\ UNCHANGED <<dir, part, fetch, handle>>

Rename(m) ==
  /\ move[m].at = "checked" /\ move' = [move EXCEPT ![m] = NoMove]
  /\ IF move[m].from \in Present THEN Becomes(Moved(move[m].from, move[m].to)) ELSE UNCHANGED <<dir, handle>>
  /\ UNCHANGED <<part, fetch, ops>>

SftpRename ==
  /\ Op /\ \E from \in Present \ Jar : \E to \in Name \ (Jar \cup {from}) : Becomes(Moved(from, to))
  /\ UNCHANGED <<part, fetch, move>>

-----------------------------------------------------------------------------
(***************************************************************************)
(* A download. Whoever opens the temporary name empties the file under it, also one  *)
(* another download is writing; whoever is done first gives that file the name.    *)
(***************************************************************************)
Sharers(f) == {g \in Fetch \ {f} : fetch[g].at # "idle" /\ fetch[g].name = fetch[f].name /\ fetch[g].on = "part"}

FetchOpens(f) ==
  /\ Op /\ fetch[f].at = "idle"
  /\ \E n \in Jar :
       /\ part' = [part EXCEPT ![n] = "half"]
       /\ fetch' = [g \in Fetch |-> IF g = f THEN [NoFetch EXCEPT !.at = "writing", !.name = n]
                                    ELSE IF fetch[g].at # "idle" /\ fetch[g].name = n /\ fetch[g].on = "part"
                                    THEN [fetch[g] EXCEPT !.alone = FALSE] ELSE fetch[g]]
  /\ UNCHANGED <<dir, move, handle>>

\* All bytes came and their digest is right: the file is whole, unless somebody
\* emptied it in between.
FetchWritten(f) ==
  LET n == fetch[f].name IN
  /\ fetch[f].at = "writing" /\ fetch' = [fetch EXCEPT ![f].at = "written"]
  /\ part' = IF fetch[f].alone /\ fetch[f].on = "part" THEN [part EXCEPT ![n] = "whole"] ELSE part
  /\ IF fetch[f].alone /\ fetch[f].on = "target" /\ dir[n] = "half" THEN Becomes([dir EXCEPT ![n] = "whole"])
     ELSE UNCHANGED <<dir, handle>>
  /\ UNCHANGED <<move, ops>>

FetchRenames(f) ==
  LET n == fetch[f].name IN
  /\ fetch[f].at = "written"
  /\ IF part[n] = "none" THEN UNCHANGED <<dir, handle>> ELSE Becomes([dir EXCEPT ![n] = part[n]])
  /\ part' = [part EXCEPT ![n] = "none"]
  /\ fetch' = [g \in Fetch |-> IF g = f THEN NoFetch
                               ELSE IF g \in Sharers(f) THEN [fetch[g] EXCEPT !.on = "target"]
                               ELSE IF fetch[g].name = n /\ fetch[g].on = "target" /\ part[n] # "none"
                               THEN [fetch[g] EXCEPT !.on = "gone"] ELSE fetch[g]]
  /\ UNCHANGED <<move, ops>>

\* What stands under the temporary name is taken away, whoever's it is.
FetchFails(f) ==
  LET n == fetch[f].name IN
  /\ Op /\ fetch[f].at # "idle"
  /\ part' = [part EXCEPT ![n] = "none"]
  /\ fetch' = [g \in Fetch |-> IF g = f THEN NoFetch
                               ELSE IF g \in Sharers(f) THEN [fetch[g] EXCEPT !.on = "gone"] ELSE fetch[g]]
  /\ UNCHANGED <<dir, move, handle>>

-----------------------------------------------------------------------------
(***************************************************************************)
(* Listing over SFTP: the names at once, the entries in batches, each with what is   *)
(* still there of it.                                                       *)
(***************************************************************************)
Opendir(h) ==
  /\ Op /\ handle[h].at = "closed"
  /\ handle' = [handle EXCEPT ![h] = [at |-> "open", left |-> Present, got |-> {}, there |-> Present]]
  /\ UNCHANGED <<dir, part, fetch, move>>

\* Mutant: a batch nothing is left of is answered as the end.
AtEnd_EmptyBatch(left, entries) == entries = {}
AtEnd(left, entries) == left = {}

Readdir(h) ==
  /\ handle[h].at = "open"
  /\ \E names \in SUBSET handle[h].left :
       /\ Cardinality(names) = IF Cardinality(handle[h].left) < Batch THEN Cardinality(handle[h].left) ELSE Batch
       /\ handle' = IF AtEnd(handle[h].left, names \cap Present) THEN [handle EXCEPT ![h].at = "eof"]
                    ELSE [handle EXCEPT ![h] = [@ EXCEPT !.left = handle[h].left \ names, !.got = handle[h].got \cup (names \cap Present)]]
  /\ UNCHANGED <<dir, part, fetch, move, ops>>

CloseHandle(h) ==
  /\ handle[h].at # "closed" /\ handle' = [handle EXCEPT ![h] = Closed]
  /\ UNCHANGED <<dir, part, fetch, move, ops>>

-----------------------------------------------------------------------------
Next ==
  \/ WriteFile \/ Upload \/ CopyFile \/ Compress \/ Decompress \/ CreateDirectory \/ Remove \/ SftpRename
  \/ \E m \in Renaming : CheckRename(m) \/ Rename(m)
  \/ \E f \in Fetch : FetchOpens(f) \/ FetchWritten(f) \/ FetchRenames(f) \/ FetchFails(f)
  \/ \E h \in Handle : Opendir(h) \/ Readdir(h) \/ CloseHandle(h)

Spec == Init /\ [][Next]_vars

-----------------------------------------------------------------------------
\* A client that listed a directory to its end has seen every file that was there all
\* along, whatever was removed, renamed or written meanwhile.
ListedWhole == \A h \in Handle : handle[h].at = "eof" => handle[h].there \subseteq handle[h].got

===============================================================================
