---------------------------- MODULE ServerDeletion ----------------------------
(***************************************************************************)
(* DELETE /servers/:id, beside everything that can be going on with the     *)
(* server's backups and databases. The request drops each database on its    *)
(* host, has the node take the server down, removes the archives it has      *)
(* rows for, and last deletes the row of the server, and with it all others. *)
(* A database host or a node that fails stops it, unless it is forced.       *)
(***************************************************************************)
EXTENDS Naturals, FiniteSets

CONSTANTS
  Backup, Remote, MaxJobs, NoBackup,
  Host, Postgres, Name, Account, Cut, Request, NoName, NoHost,
  MaxDeletions  \* times the deletion is asked for; a bound

VARIABLES
  server,
  row, store, files, job, deletion, prune, mishaps, calls,
  record, database, account, request, faults, collateral,
  removal,   \* the request: its step, what it read, what it left behind
  asked,     \* times it has been asked for
  overtaken  \* something was made for the server while it was being deleted

B == INSTANCE Backups
D == INSTANCE Databases

backupPart   == <<row, store, files, job, deletion, prune, mishaps, calls>>
databasePart == <<record, database, account, request, faults, collateral>>
vars == <<server, backupPart, databasePart, removal, asked, overtaken>>

-----------------------------------------------------------------------------
NoRemoval == [at |-> "idle", force |-> FALSE, todo |-> {}, rows |-> <<>>, keys |-> {},
              stranded |-> {}]

Init ==
  /\ B!Init /\ D!Init
  /\ removal = NoRemoval
  /\ asked \in 0 .. MaxDeletions
  /\ overtaken = FALSE

Removing(s) == removal.at = s

\* The databases are listed once, and each dropped and forgotten in turn.
RequestRemoval(force) ==
  /\ server /\ Removing("idle") /\ asked < MaxDeletions
  /\ asked' = asked + 1
  /\ removal' = [at |-> "databases", force |-> force, rows |-> record,
                 todo |-> {n \in Name : D!Recorded(n)}, keys |-> {}, stranded |-> {}]
  /\ overtaken' = FALSE
  /\ UNCHANGED <<server, backupPart, databasePart>>

DropListed(n) ==
  LET w == removal.rows[n] IN
  /\ Removing("databases") /\ n \in removal.todo
  /\ \/ /\ D!DropDatabase(w.host, n) /\ D!NoteStale(w.host, n, w.id) /\ D!DropAccount(w.host, n)
        /\ record' = D!Erased(n, w.id)
        /\ removal' = [removal EXCEPT !.todo = @ \ {n},
                         !.stranded = IF record[n].id = w.id THEN @ ELSE @ \cup {n}]
        /\ UNCHANGED faults
     \/ /\ D!Fault
        /\ removal' = [removal EXCEPT !.todo = @ \ {n}, !.stranded = @ \cup {n}]
        /\ \/ UNCHANGED <<database, collateral>>
           \/ D!DropDatabase(w.host, n) /\ collateral' = collateral \cup {<<w.host, n>>}
        /\ UNCHANGED <<record, account>>
  /\ UNCHANGED <<server, backupPart, request, asked, overtaken>>

\* A stranded database refuses the deletion.
DatabasesDone_Regardless ==
  /\ Removing("databases") /\ removal.todo = {}
  /\ removal' = [removal EXCEPT !.at = "node"]
  /\ UNCHANGED <<server, backupPart, databasePart, asked, overtaken>>

DatabasesDone ==
  /\ Removing("databases") /\ removal.todo = {}
  /\ removal' = IF removal.stranded # {} /\ ~removal.force THEN NoRemoval ELSE [removal EXCEPT !.at = "node"]
  /\ UNCHANGED <<server, backupPart, databasePart, asked, overtaken>>

\* The node takes the container, the directory and every archive it holds. It may
\* do so and not be heard.
NodeTakesAll ==
  /\ files' = "gone"
  /\ store' = [b \in Backup |-> IF b \in Remote THEN store[b] ELSE B!NoArchive]
  /\ mishaps' = mishaps \cup ((Backup \ Remote) \X {"removed"})

TakeDown ==
  /\ Removing("node")
  /\ \/ NodeTakesAll /\ removal' = [removal EXCEPT !.at = "list"] /\ UNCHANGED faults
     \/ /\ D!Fault
        /\ removal' = IF removal.force THEN [removal EXCEPT !.at = "list"] ELSE NoRemoval
        /\ NodeTakesAll \/ UNCHANGED <<files, store, mishaps>>
  /\ UNCHANGED <<server, row, job, deletion, prune, calls,
                 record, database, account, request, collateral, asked, overtaken>>

ListArchives ==
  /\ Removing("list")
  /\ \E keys \in {{b \in Backup : row[b].key}} :
       removal' = [removal EXCEPT !.at = "archives", !.todo = keys, !.keys = keys]
  /\ UNCHANGED <<server, backupPart, databasePart, asked, overtaken>>

\* Archives never veto: one that cannot be removed is named in the audit entry.
RemoveListed(b) ==
  /\ Removing("archives") /\ b \in removal.todo
  /\ \/ B!Remove(b) /\ removal' = [removal EXCEPT !.todo = @ \ {b}] /\ UNCHANGED faults
     \/ /\ D!Fault
        /\ removal' = [removal EXCEPT !.todo = @ \ {b}, !.stranded = @ \cup {b}]
        /\ B!Remove(b) \/ UNCHANGED <<store, mishaps>>
  /\ UNCHANGED <<server, row, files, job, deletion, prune, calls,
                 record, database, account, request, collateral, asked, overtaken>>

\* The ports go free and the row goes, with every row that hangs on it.
Cascade ==
  /\ Removing("archives") /\ removal.todo = {}
  /\ server' = FALSE
  /\ row' = [b \in Backup |-> B!NoRow]
  /\ record' = [n \in Name |-> D!NoRecord]
  /\ removal' = [removal EXCEPT !.at = "gone"]
  /\ UNCHANGED <<store, files, job, deletion, prune, mishaps, calls,
                 database, account, request, faults, collateral, asked, overtaken>>

RemovalStep ==
  \/ \E n \in Name : DropListed(n)
  \/ DatabasesDone \/ TakeDown \/ ListArchives
  \/ \E b \in Backup : RemoveListed(b)
  \/ Cascade

-----------------------------------------------------------------------------
\* The others go on. What they make once the deletion has begun is noted.
Made ==
  \/ \E b \in Backup : store'[b] \notin {store[b], B!NoArchive}
  \/ files' # files
  \/ \E h \in Host, n \in Name : database'[h][n] \notin {database[h][n], 0}

Noted ==
  /\ overtaken' = (overtaken \/ (~Removing("idle") /\ Made))
  /\ UNCHANGED <<removal, asked>>

Others ==
  \/ B!Next /\ UNCHANGED databasePart /\ Noted
  \/ D!Next /\ UNCHANGED backupPart /\ Noted

Next ==
  \/ \E force \in BOOLEAN : RequestRemoval(force)
  \/ RemovalStep
  \/ Others

Spec == Init /\ [][Next]_vars

\* Workers and nodes finish what they have, with an answer or a timeout, and a
\* job in the queue is taken.
JobMoves(j) == B!JobStep(j) /\ UNCHANGED databasePart /\ Noted
Fairness == \A j \in B!Jobs : WF_vars(JobMoves(j))
FairSpec == Spec /\ Fairness

-----------------------------------------------------------------------------
\* The types of the parts are theirs.
TypeOK ==
  /\ B!TypeOK /\ D!TypeOK
  /\ removal.at \in {"idle", "databases", "node", "list", "archives", "gone"}
  /\ removal.todo \cup removal.stranded \subseteq Name \cup Backup
  /\ asked \in 0 .. MaxDeletions /\ overtaken \in BOOLEAN

\* A server whose deletion was not forced is gone from everywhere the panel could
\* still have asked: each database it listed is off its host, the directory and
\* the node's archives are gone, and an archive in a bucket that it had a row
\* for is either gone or named. Unless a job or a request made something for the
\* server meanwhile.
GoneMeansGone ==
  Removing("gone") /\ ~removal.force /\ ~overtaken =>
    /\ \A n \in Name : removal.rows[n] # D!NoRecord => database[removal.rows[n].host][n] = 0
    /\ files = "gone"
    /\ \A b \in Backup : b \notin Remote \/ b \in removal.keys \ removal.stranded => store[b] = B!NoArchive

CompletedIsWhole == B!CompletedIsWhole
RefusalSpares    == B!RefusalSpares
BackupSettles    == B!BackupSettles
RowHasDatabase   == D!RowHasDatabase
=============================================================================
