------------------------------- MODULE Backups -------------------------------
(***************************************************************************)
(* The backups of one server: the rows of the panel, the archives they name *)
(* in a bucket or on the server's node, the jobs that make and restore them *)
(* and the two ways a backup is deleted, by hand and by age.                *)
(*                                                                         *)
(* An archive is the number of the attempt that wrote it: two never write   *)
(* the same bytes. A job's part on the node goes on when the worker that    *)
(* asked for it has died (ghost). What a restore does to the server's files *)
(* is their last value: as the game left them, emptied, half written, or    *)
(* those of an archive.                                                    *)
(***************************************************************************)
EXTENDS Integers

CONSTANTS
  Backup,   \* backups the server can have
  Remote,   \* those kept in a bucket; the others stay on the node
  MaxJobs,  \* jobs of the backups queue that can be queued or in hand: a bound
  NoBackup  \* the backup of a job slot or a request that is free

BackupsAssumption ==
  /\ Remote \subseteq Backup /\ NoBackup \notin Backup
  /\ MaxJobs \in Nat

VARIABLES
  server,    \* the server's row exists
  row,       \* per backup: its row, or NoRow
  store,     \* per backup: the archive that is there
  files,     \* the server's directory
  job,       \* per slot of the queue: the job
  deletion,  \* a request that deletes a backup
  prune,     \* the hourly pass over expired backups
  mishaps,   \* what went wrong with whose backup, remembered for the properties
  calls      \* requests and faults still to come: a bound

backupVars == <<server, row, store, files, job, deletion, prune, mishaps, calls>>

-----------------------------------------------------------------------------
Jobs      == 1 .. MaxJobs           \* slots of the queue
NoArchive == 0
Rotten    == -1                     \* bytes that are not an archive any more
Partial   == -2                     \* bytes that never became one
First     == 0 - 3                  \* written before the behaviour begins
Retried   == MaxJobs                \* added to a job's number by its second attempt
Whole     == {First} \cup 1 .. (2 * Retried)
Archive   == {NoArchive, Rotten, Partial} \cup Whole

Status == {"PENDING", "RUNNING", "COMPLETED", "FAILED", "RESTORING", "DELETING"}

\* sum is the checksum on record, which rows of older panels do not have; old
\* says that retention has expired, days after the jobs that made the archive.
Rows  == [status : Status, key : BOOLEAN, sum : Archive, locked : BOOLEAN, old : BOOLEAN]
NoRow == [status |-> "none", key |-> FALSE, sum |-> NoArchive, locked |-> FALSE, old |-> FALSE]
New   == [NoRow EXCEPT !.status = "PENDING"]
Kept  == [status : {"COMPLETED"}, key : {TRUE}, sum : {NoArchive, First}, locked : BOOLEAN, old : {TRUE}]

Exists(b) == row[b] # NoRow

\* What a status is while a job has the row.
Underway == {"PENDING", "RUNNING", "RESTORING"}

\* Steps of a job on the panel, and those the node takes for it.
NodeSteps  == {"archive", "fetch", "prove", "wipe", "extract"}
PanelSteps == {"complete", "putback", "tell", "fail"}
JobSteps   == {"free", "queued"} \cup NodeSteps \cup PanelSteps

Free == [at |-> "free", kind |-> "backup", of |-> NoBackup, truncate |-> FALSE, last |-> FALSE,
         again |-> FALSE, ghost |-> FALSE, prev |-> "none", sum |-> NoArchive, copy |-> NoArchive]

Kinds == {"backups", "restores", "deletions", "locks", "deaths", "rot"}

\* A job no queue holds any more; a restore beside another job of its row; one that
\* was told to put back a status that was passing; a dead worker's call still
\* going; a removal asked for.
Mishaps == {"unqueued", "crossed", "reread", "strayed", "removed"}

TypeOK ==
  /\ server \in BOOLEAN
  /\ row \in [Backup -> Rows \cup {NoRow}]
  /\ store \in [Backup -> Archive]
  /\ files \in {"own", "empty", "torn", "restored", "gone"}
  /\ job \in [Jobs -> [at : JobSteps, kind : {"backup", "restore"}, of : Backup \cup {NoBackup},
                       truncate : BOOLEAN, last : BOOLEAN, again : BOOLEAN, ghost : BOOLEAN,
                       prev : Status \cup {"none"}, sum : Archive, copy : Archive]]
  /\ deletion \in [at : {"idle", "mark", "remove", "drop"}, of : Backup \cup {NoBackup}, key : BOOLEAN]
  /\ prune \in [at : {"idle", "remove", "drop"}, of : Backup \cup {NoBackup}, todo : SUBSET Backup]
  /\ mishaps \subseteq Backup \X Mishaps
  /\ calls \in [Kinds -> Nat]

NoDeletion == [at |-> "idle", of |-> NoBackup, key |-> FALSE]
NoPrune    == [at |-> "idle", of |-> NoBackup, todo |-> {}]

\* A server with some backups behind it, each complete with its archive.
Init ==
  /\ server = TRUE
  /\ row \in [Backup -> Kept \cup {NoRow}]
  /\ store = [b \in Backup |-> IF Exists(b) THEN First ELSE NoArchive]
  /\ files = "own"
  /\ job = [j \in Jobs |-> Free]
  /\ deletion = NoDeletion
  /\ prune = NoPrune
  /\ mishaps = {}

\* A request or fault of kind k is one fewer to come.
Spend(k) == calls[k] > 0 /\ calls' = [calls EXCEPT ![k] = @ - 1]

-----------------------------------------------------------------------------
(***************************************************************************)
(* Requests. A customer's waits for those that are pending or running; a    *)
(* scheduled task's does not.                                              *)
(***************************************************************************)
Slots == {j \in Jobs : job[j].at = "free"}

\* The job goes to some free slot; the smallest, since slots are alike.
Enqueue(j) ==
  \E s \in Slots : /\ \A t \in Slots : s <= t
                   /\ job' = [job EXCEPT ![s] = j]

\* A row has an identifier nothing remembers.
Unused(b) ==
  /\ ~Exists(b) /\ store[b] = NoArchive
  /\ b \notin prune.todo \cup {prune.of, deletion.of} \cup {job[j].of : j \in Jobs}
  /\ \A m \in mishaps : m[1] # b

\* The row is written first: if the queue then refuses the job, it stays PENDING.
NewBackup(b) ==
  /\ server /\ Unused(b)
  /\ Spend("backups")
  /\ row' = [row EXCEPT ![b] = New]
  /\ \/ Enqueue([Free EXCEPT !.at = "queued", !.of = b]) /\ UNCHANGED mishaps
     \/ mishaps' = mishaps \cup {<<b, "unqueued">>} /\ UNCHANGED job
  /\ UNCHANGED <<server, store, files, deletion, prune>>

CreateBackup(b) ==
  /\ \A c \in Backup : row[c].status \notin {"PENDING", "RUNNING"}
  /\ NewBackup(b)

ScheduledBackup(b) == NewBackup(b)

RequestRestore(b, truncate) ==
  /\ server /\ row[b].status = "COMPLETED"
  /\ Spend("restores")
  /\ Enqueue([Free EXCEPT !.at = "queued", !.kind = "restore", !.of = b, !.truncate = truncate])
  /\ UNCHANGED <<server, row, store, files, deletion, prune, mishaps>>

Lock(b) ==
  /\ Exists(b)
  /\ Spend("locks")
  /\ row' = [row EXCEPT ![b].locked = ~@]
  /\ UNCHANGED <<server, store, files, job, deletion, prune, mishaps>>

-----------------------------------------------------------------------------
(***************************************************************************)
(* A job. Rows that are gone fail every write: inside the catch they end    *)
(* the attempt.                                                            *)
(***************************************************************************)
\* The step after this one; a node that works for nobody just stops.
Step(j, s)    == job' = [job EXCEPT ![j].at = s]
Leave(j)      == job' = [job EXCEPT ![j] = Free]
Answer(j, s)  == IF job[j].ghost THEN Leave(j) ELSE Step(j, s)

\* A backup is attempted twice, a restore once.
Retry(j) ==
  IF job[j].kind = "restore" \/ job[j].last THEN Leave(j)
  ELSE job' = [job EXCEPT ![j] = [Free EXCEPT !.at = "queued", !.of = job[j].of, !.again = job[j].again,
                                               !.last = TRUE]]

TakeBackup(j) ==
  /\ job[j].at = "queued" /\ job[j].kind = "backup"
  /\ IF Exists(job[j].of)
     THEN /\ row' = [row EXCEPT ![job[j].of].status = "RUNNING"]
          /\ Step(j, "archive")
     ELSE /\ Leave(j)
          /\ UNCHANGED row
  /\ UNCHANGED <<server, store, files, deletion, prune, mishaps, calls>>

\* No URL could be signed for the bucket, or no node answered.
Unreached(j) == Answer(j, "fail") /\ UNCHANGED store

Bytes(j) == IF job[j].last THEN j + Retried ELSE j

\* The node writes the archive, and uploads it when it is for a bucket. It can
\* fail before the first byte, fail with the file half written, or succeed
\* without the panel hearing of it. A bucket takes an object whole or not.
MakeArchive(j) ==
  LET b == job[j].of IN
  /\ job[j].at = "archive"
  /\ \/ /\ files # "gone"
        /\ store' = [store EXCEPT ![b] = Bytes(j)]
        /\ \/ Answer(j, "complete")
           \/ ~job[j].ghost /\ Step(j, "fail")
     \/ Unreached(j)
     \/ /\ files # "gone" /\ b \notin Remote
        /\ store' = [store EXCEPT ![b] = Partial]
        /\ Answer(j, "fail")
  /\ UNCHANGED <<server, row, files, deletion, prune, mishaps, calls>>

Completed_OldSum(j, r) == [r EXCEPT !.status = "COMPLETED", !.key = TRUE, !.sum = IF @ = NoArchive THEN Bytes(j) ELSE @]

Completed(j, r) == [r EXCEPT !.status = "COMPLETED", !.key = TRUE, !.sum = Bytes(j)]

Complete(j) ==
  /\ job[j].at = "complete"
  /\ IF Exists(job[j].of)
     THEN /\ row' = [row EXCEPT ![job[j].of] = Completed(j, @)]
          /\ Step(j, "tell")
     ELSE Retry(j) /\ UNCHANGED row
  /\ UNCHANGED <<server, store, files, deletion, prune, mishaps, calls>>

\* The audit entry, the notification and the webhooks, all inside the try; of them
\* the notification may throw.
Tell(j) ==
  /\ job[j].at = "tell"
  /\ Leave(j) \/ Step(j, "fail")
  /\ UNCHANGED <<server, row, store, files, deletion, prune, mishaps, calls>>

\* What a job leaves the row with: a restore the status it found.
Leaving(j, s) ==
  LET b == job[j].of IN
  /\ row' = [row EXCEPT ![b] = IF Exists(b) THEN [@ EXCEPT !.status = s] ELSE @]
  /\ mishaps' = IF job[j].kind = "restore" /\ row[b].status # "RESTORING"
                 THEN mishaps \cup {<<b, "crossed">>} ELSE mishaps

\* The catch.
Fail_Unwritten(j) ==
  /\ job[j].at = "fail"
  /\ Retry(j)
  /\ UNCHANGED <<server, row, store, files, deletion, prune, mishaps, calls>>

Fail(j) ==
  /\ job[j].at = "fail"
  /\ Leaving(j, IF job[j].kind = "restore" THEN job[j].prev ELSE "FAILED")
  /\ Retry(j)
  /\ UNCHANGED <<server, store, files, deletion, prune, calls>>

-----------------------------------------------------------------------------
(***************************************************************************)
(* A restore.                                                              *)
(***************************************************************************)
\* The status that is to be put back is read with the row. A restore given to
\* another worker, or begun beside another, finds RESTORING there, and puts that
\* back when it ends: nothing takes it away again.
TakeRestore(j) ==
  LET b == job[j].of IN
  /\ job[j].at = "queued" /\ job[j].kind = "restore"
  /\ IF Exists(b) /\ row[b].key
     THEN /\ row' = [row EXCEPT ![b].status = "RESTORING"]
          /\ job' = [job EXCEPT ![j] = [@ EXCEPT !.at = "fetch", !.prev = row[b].status, !.sum = row[b].sum]]
          /\ mishaps' = mishaps \cup {<<b, m>> : m \in
               (IF row[b].status = "COMPLETED" THEN {} ELSE {"crossed"})
               \cup (IF row[b].status \in Underway THEN {"reread"} ELSE {})}
     ELSE Leave(j) /\ UNCHANGED <<row, mishaps>>
  /\ UNCHANGED <<server, store, files, deletion, prune, calls>>

\* An archive in a bucket is copied to the node, where the copy may come short;
\* one on the node is read where it is, now and at every later step. The
\* directory is made if it is not there, and later steps fail without it.
Fetch(j) ==
  LET b == job[j].of IN
  /\ job[j].at = "fetch"
  /\ \/ Answer(j, "fail") /\ UNCHANGED files
     \/ /\ store[b] # NoArchive
        /\ files' = IF files = "gone" THEN "empty" ELSE files
        /\ \E c \in {store[b]} \cup IF b \in Remote THEN {Partial} ELSE {} :
             job' = [job EXCEPT ![j] = [@ EXCEPT !.at = "prove", !.copy = c]]
  /\ UNCHANGED <<server, row, store, deletion, prune, mishaps, calls>>

Source(j) == IF job[j].of \in Remote THEN job[j].copy ELSE store[job[j].of]

\* assertChecksum when the row has one, else assertReadable.
Proved_Readable(j) == Source(j) \in Whole

Proved(j) == IF job[j].sum # NoArchive THEN Source(j) = job[j].sum ELSE Source(j) \in Whole

Prove(j) ==
  /\ job[j].at = "prove"
  /\ IF Proved(j)
     THEN job' = [job EXCEPT ![j] = [@ EXCEPT !.at = IF job[j].truncate THEN "wipe" ELSE "extract", !.copy = Source(j)]]
     ELSE Answer(j, "fail")
  /\ UNCHANGED <<server, row, store, files, deletion, prune, mishaps, calls>>

Wipe(j) ==
  /\ job[j].at = "wipe"
  /\ IF files = "gone" THEN Answer(j, "fail") /\ UNCHANGED files
     ELSE Step(j, "extract") /\ files' = "empty"
  /\ UNCHANGED <<server, row, store, deletion, prune, mishaps, calls>>

\* Extraction may stop half way, and its answer may be lost.
Extract(j) ==
  /\ job[j].at = "extract"
  /\ \/ /\ Source(j) \in Whole /\ files # "gone"
        /\ files' = "restored"
        /\ Answer(j, "putback")
     \/ /\ Source(j) # NoArchive /\ files # "gone"
        /\ \/ files' = "torn"
           \/ Source(j) \in Whole /\ files' = "restored"
        /\ Answer(j, "fail")
     \/ /\ Source(j) = NoArchive \/ files = "gone"
        /\ Answer(j, "fail")
        /\ UNCHANGED files
  /\ UNCHANGED <<server, row, store, deletion, prune, mishaps, calls>>

PutBack(j) ==
  /\ job[j].at = "putback"
  /\ Leaving(j, job[j].prev)
  /\ Step(j, IF Exists(job[j].of) THEN "tell" ELSE "fail")
  /\ UNCHANGED <<server, store, files, deletion, prune, calls>>

-----------------------------------------------------------------------------
(***************************************************************************)
(* Faults: a worker dies and BullMQ gives its job to another, once; bytes   *)
(* rot while nobody reads them.                                            *)
(***************************************************************************)
Die(j) ==
  /\ job[j].at \in NodeSteps \cup PanelSteps /\ ~job[j].ghost
  /\ Spend("deaths")
  /\ \E given \in IF job[j].again THEN {0} ELSE {s \in Slots : \A t \in Slots : s <= t} :
       /\ job' = [k \in Jobs |->
            IF k = given THEN [Free EXCEPT !.at = "queued", !.kind = job[j].kind, !.of = job[j].of,
                                 !.truncate = job[j].truncate, !.last = job[j].last, !.again = TRUE]
            ELSE IF k # j THEN job[k]
            ELSE IF job[j].at \in NodeSteps THEN [job[j] EXCEPT !.ghost = TRUE]
            ELSE Free]
       /\ mishaps' = mishaps \cup {<<job[j].of, m>> : m \in
            (IF given = 0 THEN {"unqueued"} ELSE {}) \cup (IF job[j].at = "archive" THEN {"strayed"} ELSE {})}
  /\ UNCHANGED <<server, row, store, files, deletion, prune>>

Rot(b) ==
  /\ store[b] \in Whole
  /\ \A j \in Jobs : job[j].of = b => job[j].at = "queued"
  /\ Spend("rot")
  /\ store' = [store EXCEPT ![b] = Rotten]
  /\ UNCHANGED <<server, row, files, job, deletion, prune, mishaps>>

-----------------------------------------------------------------------------
(***************************************************************************)
(* Deletion by hand: an archive that cannot be removed is logged and the    *)
(* row goes all the same.                                                  *)
(***************************************************************************)
\* A removal that was asked for may have been done though no answer came.
Remove(b) ==
  /\ store' = [store EXCEPT ![b] = NoArchive]
  /\ mishaps' = mishaps \cup {<<b, "removed">>}

RequestDeletion(b) ==
  /\ deletion = NoDeletion
  /\ Exists(b) /\ ~row[b].locked /\ row[b].status # "RUNNING"
  /\ Spend("deletions")
  /\ deletion' = [at |-> "mark", of |-> b, key |-> row[b].key]
  /\ UNCHANGED <<server, row, store, files, job, prune, mishaps>>

MarkDeleting ==
  LET b == deletion.of IN
  /\ deletion.at = "mark"
  /\ IF Exists(b)
     THEN /\ row' = [row EXCEPT ![b].status = "DELETING"]
          /\ deletion' = [deletion EXCEPT !.at = IF deletion.key THEN "remove" ELSE "drop"]
     ELSE deletion' = NoDeletion /\ UNCHANGED row
  /\ UNCHANGED <<server, store, files, job, prune, mishaps, calls>>

RemoveArchive ==
  /\ deletion.at = "remove"
  /\ Remove(deletion.of) \/ UNCHANGED <<store, mishaps>>
  /\ deletion' = [deletion EXCEPT !.at = "drop"]
  /\ UNCHANGED <<server, row, files, job, prune, calls>>

DropRow ==
  /\ deletion.at = "drop"
  /\ row' = [row EXCEPT ![deletion.of] = NoRow]
  /\ deletion' = NoDeletion
  /\ UNCHANGED <<server, store, files, job, prune, mishaps, calls>>

-----------------------------------------------------------------------------
(***************************************************************************)
(* Retention: the archive, and then the record; a failure leaves the record *)
(* to the next pass.                                                       *)
(***************************************************************************)
Expired == {b \in Backup : row[b].status = "COMPLETED" /\ ~row[b].locked /\ row[b].old}

PruneList ==
  /\ prune.at = "idle" /\ Expired # {}
  /\ prune' \in {[at |-> "remove", of |-> b, todo |-> Expired \ {b}] : b \in Expired}
  /\ UNCHANGED <<server, row, store, files, job, deletion, mishaps, calls>>

\* The rows of the rest of the pass are those it listed, whatever became of them.
PruneOn == IF prune.todo = {} THEN {NoPrune}
           ELSE {[at |-> "remove", of |-> b, todo |-> prune.todo \ {b}] : b \in prune.todo}

PruneArchive ==
  /\ prune.at = "remove"
  /\ \/ Remove(prune.of) /\ prune' = [prune EXCEPT !.at = "drop"]
     \/ prune' \in PruneOn /\ (Remove(prune.of) \/ UNCHANGED <<store, mishaps>>)
  /\ UNCHANGED <<server, row, files, job, deletion, calls>>

PruneRow ==
  /\ prune.at = "drop"
  /\ row' = [row EXCEPT ![prune.of] = NoRow]
  /\ prune' \in PruneOn
  /\ UNCHANGED <<server, store, files, job, deletion, mishaps, calls>>

-----------------------------------------------------------------------------
JobStep(j) ==
  \/ TakeBackup(j) \/ MakeArchive(j) \/ Complete(j)
  \/ TakeRestore(j) \/ Fetch(j) \/ Prove(j) \/ Wipe(j) \/ Extract(j) \/ PutBack(j)
  \/ Tell(j) \/ Fail(j)

DeletionStep == MarkDeleting \/ RemoveArchive \/ DropRow
PruneStep == PruneList \/ PruneArchive \/ PruneRow

Next ==
  \/ \E b \in Backup : \/ CreateBackup(b) \/ ScheduledBackup(b) \/ Lock(b) \/ RequestDeletion(b) \/ Rot(b)
                       \/ \E t \in BOOLEAN : RequestRestore(b, t)
  \/ \E j \in Jobs : JobStep(j) \/ Die(j)
  \/ DeletionStep \/ PruneStep
-----------------------------------------------------------------------------
(***************************************************************************)
(* Properties.                                                             *)
(***************************************************************************)
\* The files of a live server are emptied or written over only from an archive
\* that was found whole, and the very one on record if its checksum is: a copy
\* that came short, rotten bytes and a remade archive leave them alone.
RefusalSpares ==
  [][\A j \in Jobs :
       files' \notin {files, "gone"} /\ files # "gone" /\ job'[j] # job[j]
         => job[j].copy \in Whole /\ job[j].sum \in {NoArchive, job[j].copy}]_backupVars

\* A backup that says it is complete has its archive, whole and the one its
\* checksum is of, whatever was retried or redelivered: unless the bytes rotted,
\* somebody asked for its removal, a dead worker's call to the node was still
\* going, or a restore and another job had the row at once.
CompletedIsWhole ==
  \A b \in Backup :
    \/ row[b].status # "COMPLETED"
    \/ store[b] = Rotten
    \/ \E m \in {"strayed", "crossed", "removed"} : <<b, m>> \in mishaps
    \/ store[b] \in Whole /\ row[b].sum \in {NoArchive, store[b]}

\* A backup does not stay PENDING, RUNNING or RESTORING, whoever else has its row
\* and whatever fails; with two exceptions, in which it does so for ever: no queue
\* has its job any more, or a restore was begun over a status that was passing,
\* which is what it then puts back. A restore whose worker died in the middle is one.
BackupSettles ==
  \A b \in Backup :
    row[b].status \in Underway
      ~> \/ row[b].status \notin Underway
         \/ <<b, "unqueued">> \in mishaps \/ <<b, "reread">> \in mishaps

=============================================================================
