----------------------------- MODULE DeletionProofs -----------------------------
(***************************************************************************)
(* What is proved of MCServerDeletion, for any number of backups, jobs, hosts,       *)
(* names, requests and faults, and without a scene: a backup that says it is         *)
(* complete has its whole archive and the row of a database its database (RowsSound), *)
(* what a deletion leaves behind (GoneMeansGone), and that a restore touches the      *)
(* files only with an archive found whole (RefusalSpares).                         *)
(***************************************************************************)
EXTENDS MCServerDeletion, TLAPS

-----------------------------------------------------------------------------
(***************************************************************************)
(* The inductive invariant of the backups.                                  *)
(***************************************************************************)
Sums      == {B!NoArchive} \cup B!Whole
MarkedIn(lost, b) == \E m \in {"strayed", "crossed", "removed"} : <<b, m>> \in lost
Marked(b) == MarkedIn(mishaps, b)
Claimed   == {"COMPLETED", "RESTORING"}

\* A slot that is not free works for a backup, at a step of its kind; a restore in
\* hand knows the status it found, and one that writes proved what it writes.
JobSound(w) ==
  /\ w.at = "free" => w = B!Free
  /\ w.at # "free" => w.of \in Backup
  /\ w.at \in {"archive", "complete"} => w.kind = "backup"
  /\ w.at \in {"fetch", "prove", "wipe", "extract", "putback"} => w.kind = "restore"
  /\ w.kind = "restore" /\ w.at # "queued" => w.prev \in B!Status
  /\ w.sum \in Sums
  /\ w.at \in {"wipe", "extract"} => w.copy \in B!Whole /\ w.sum \in {B!NoArchive, w.copy}

JobsSound == \A j \in B!Jobs : JobSound(job[j])

\* A checksum on record is of an archive that was whole.
SumsOfWhole == \A b \in Backup : row[b].sum \in Sums

PassesSound ==
  /\ deletion.at # "idle" => deletion.of \in Backup
  /\ prune.at # "idle" => prune.of \in Backup

\* One job at a time makes an archive of a backup, unless a dead worker's went on.
OneMaker ==
  \A j, k \in B!Jobs :
    j # k /\ job[j].kind = "backup" /\ job[k].kind = "backup"
      /\ job[j].of = job[k].of /\ job[j].of \in Backup => Marked(job[j].of)

\* While it is being made its row does not say it is there.
UnclaimedMeanwhile ==
  \A j \in B!Jobs : job[j].at = "archive" => row[job[j].of].status \notin Claimed \/ Marked(job[j].of)

\* What a job is about to record is what it made.
MadeThis ==
  \A j \in B!Jobs : job[j].at = "complete" => store[job[j].of] = B!Bytes(j) \/ Marked(job[j].of)

\* A row that says it is complete, or will again when a restore is done, is right.
ClaimedIsWhole ==
  \A b \in Backup :
    row[b].status \in Claimed =>
      \/ store[b] = B!Rotten \/ Marked(b)
      \/ store[b] \in B!Whole /\ row[b].sum \in {B!NoArchive, store[b]}

BackupsTyped == B!TypeOK /\ JobsSound /\ SumsOfWhole /\ PassesSound
BackupsRight == OneMaker /\ UnclaimedMeanwhile /\ MadeThis /\ ClaimedIsWhole
BackupsInv   == BackupsTyped /\ BackupsRight

-----------------------------------------------------------------------------
(***************************************************************************)
(* The inductive invariant of the databases.                               *)
(***************************************************************************)
Creating == {"new", "first", "second", "record", "undo"}
Row      == [id : Request, host : Host, password : Request]
RowTypes == Row \cup {D!NoRecord}

\* A row is a whole row, and whoever works on one has read a whole one.
RecordsSound == \A n \in Name : record[n] \in RowTypes

ReaderSound(r, w) ==
  /\ w.row \in RowTypes
  /\ w.at \notin {"new", "done"} => w.row \in Row /\ w.name \in Name
  /\ w.at \in Creating \ {"new"} => w.row.id = r

ReadersSound == \A r \in Request : ReaderSound(r, request[r])

\* What a request has not recorded yet nobody else knows of.
Fresh ==
  \A r \in Request : request[r].at \in Creating =>
    /\ \A n \in Name : record[n].id # r
    /\ \A q \in Request : q # r => request[q].row.id # r
    /\ Removing("databases") => \A n \in Name : removal.rows[n].id # r

\* A request that has made its database still has it.
HasMade(r) ==
  \/ request[r].at \in {"record", "undo"}
  \/ request[r].at = "second" /\ request[r].row.host \notin Postgres

MadeStands ==
  \A r \in Request : HasMade(r) =>
       \/ database[request[r].row.host][request[r].name] = r
       \/ <<request[r].row.host, request[r].name>> \in collateral

\* A row without its database is being dropped by one that read that very row.
DroppedKnowingly ==
  \A n \in Name :
    D!Recorded(n) /\ database[record[n].host][n] # record[n].id =>
      \/ <<record[n].host, n>> \in collateral
      \/ \E r \in Request : /\ request[r].name = n /\ request[r].row.host = record[n].host
                            /\ request[r].row.id = record[n].id
                            /\ request[r].at \in {"drop", "erase", "halted"}

DatabasesTyped == D!TypeOK /\ RecordsSound /\ ReadersSound
DatabasesRight == Fresh /\ MadeStands /\ DroppedKnowingly
DatabasesInv   == DatabasesTyped /\ DatabasesRight

-----------------------------------------------------------------------------
(***************************************************************************)
(* The inductive invariant of the removal.                                 *)
(***************************************************************************)
RemovalRecord ==
  [at : {"idle", "databases", "node", "list", "archives", "gone"}, force : BOOLEAN,
   todo : SUBSET (Name \cup Backup), rows : {<<>>} \cup [Name -> RowTypes],
   keys : SUBSET Backup, stranded : SUBSET (Name \cup Backup)]

RemovalType ==
  /\ removal \in RemovalRecord
  /\ ~Removing("idle") => removal.rows \in [Name -> RowTypes]
  /\ Removing("databases") => removal.todo \subseteq {n \in Name : removal.rows[n] \in Row}
  /\ Removing("archives") => removal.todo \subseteq Backup
  /\ asked \in 0 .. MaxDeletions /\ overtaken \in BOOLEAN

\* As far as the removal has come, what it listed is gone or named.
Progress ==
  ~removal.force /\ ~overtaken =>
    /\ ~Removing("idle") =>
         \A n \in Name :
           removal.rows[n] # D!NoRecord =>
             \/ Removing("databases") /\ n \in removal.todo \cup removal.stranded
             \/ database[removal.rows[n].host][n] = 0
    /\ removal.at \in {"list", "archives", "gone"} =>
         files = "gone" /\ \A b \in Backup \ Remote : store[b] = B!NoArchive
    /\ removal.at \in {"archives", "gone"} =>
         \A b \in removal.keys :
            \/ Removing("archives") /\ b \in removal.todo
            \/ b \in removal.stranded \/ store[b] = B!NoArchive

RemovalInv == RemovalType /\ Progress

DeletionInv == BackupsInv /\ DatabasesInv /\ RemovalInv

-----------------------------------------------------------------------------
(***************************************************************************)
(* The backups' own lemmas. A job's slot is a number no other attempt has.   *)
(***************************************************************************)
JobRecord == [at : B!JobSteps, kind : {"backup", "restore"}, of : Backup \cup {NoBackup},
              truncate : BOOLEAN, last : BOOLEAN, again : BOOLEAN, ghost : BOOLEAN,
              prev : B!Status \cup {"none"}, sum : B!Archive, copy : B!Archive]

\* What an attempt writes is an archive, and slot 0 is nobody's.
LEMMA BytesWhole == \A j \in B!Jobs : B!Bytes(j) \in B!Whole /\ j # 0
BY ScenesAssumption DEF ScenesAssumption, B!BackupsAssumption, B!Jobs, B!Bytes, B!Whole, B!Retried

\* A free slot is a job's record, and works for nobody.
LEMMA FreeTyped == B!Free \in JobRecord /\ JobSound(B!Free) /\ NoBackup \notin Backup
BY ScenesAssumption
   DEF ScenesAssumption, B!BackupsAssumption, B!Free, JobRecord, JobSound, B!JobSteps, B!Archive, Sums, B!Status

\* The end of a step: on to the next, or the slot is left.
LEMMA Answered ==
  ASSUME B!TypeOK, JobsSound, NEW j \in B!Jobs, job[j].at # "free",
         NEW s \in B!JobSteps \ {"free"},
         s \in {"archive", "complete"} => job[j].kind = "backup",
         s \in {"fetch", "prove", "wipe", "extract", "putback"} => job[j].kind = "restore",
         job[j].kind = "restore" /\ s # "queued" => job[j].prev \in B!Status,
         s \in {"wipe", "extract"} => job[j].copy \in B!Whole /\ job[j].sum \in {B!NoArchive, job[j].copy},
         B!Step(j, s) \/ B!Leave(j) \/ B!Answer(j, s)
  PROVE  \E w \in JobRecord :
           /\ job' = [job EXCEPT ![j] = w] /\ JobSound(w)
           /\ w.at \in {"free", s}
           /\ w.at # "free" => w.of = job[j].of /\ w.kind = job[j].kind /\ w.last = job[j].last
<1>1. job[j] \in JobRecord BY DEF B!TypeOK, JobRecord
<1>2. CASE B!Leave(j)
  BY <1>2, FreeTyped DEF B!Leave, B!Free
<1>3. CASE B!Step(j, s)
  <2> DEFINE w == [job[j] EXCEPT !.at = s]
  <2>1. w \in JobRecord BY <1>1 DEF JobRecord
  <2>2. JobSound(w) BY <1>1 DEF JobsSound, JobSound, JobRecord
  <2>3. job' = [job EXCEPT ![j] = w] BY <1>3, <1>1 DEF B!Step, B!TypeOK
  <2> QED BY <2>1, <2>2, <2>3, <1>1 DEF JobRecord
<1> QED BY <1>2, <1>3 DEF B!Answer

\* What a step of a job does to the jobs: it moves that job, which stays what it is until
\* its slot is left.
Moves(j) ==
  \E w \in JobRecord :
    /\ job' = [job EXCEPT ![j] = w] /\ JobSound(w)
    /\ w.at # "free" => w.of = job[j].of /\ w.kind = job[j].kind
    /\ w.at = "archive" => row'[w.of].status \notin Claimed
    /\ w.at = "complete" => store'[w.of] = B!Bytes(j) /\ w.last = job[j].last

\* An attempt that failed is queued once more, or its slot is left.
LEMMA Retried ==
  ASSUME B!TypeOK, JobsSound, NEW j \in B!Jobs, job[j].at # "free", B!Retry(j)
  PROVE  Moves(j)
<1>1. job[j] \in JobRecord /\ JobSound(job[j]) /\ job[j].sum \in Sums
  BY DEF B!TypeOK, JobRecord, JobsSound, JobSound
<1>2. CASE B!Leave(j)
  BY <1>2, FreeTyped DEF B!Leave, B!Free, Moves
<1>3. CASE ~B!Leave(j)
  <2> DEFINE w == [B!Free EXCEPT !.at = "queued", !.of = job[j].of, !.again = job[j].again, !.last = TRUE]
  <2>1. job' = [job EXCEPT ![j] = w] /\ job[j].kind = "backup"
    BY <1>1, <1>3 DEF B!Retry, JobRecord
  <2>2. w \in JobRecord BY <1>1, FreeTyped DEF JobRecord, B!JobSteps, B!Free
  <2>3. JobSound(w) /\ w.at = "queued" /\ w.of = job[j].of /\ w.kind = "backup"
    BY <1>1, <2>2 DEF JobSound, B!Free, Sums, JobRecord
  <2> QED BY <2>1, <2>2, <2>3 DEF Moves
<1> QED BY <1>2, <1>3

\* A step of a job moves it (backup.processor.ts).
LEMMA JobMoved ==
  ASSUME B!TypeOK, JobsSound, SumsOfWhole, NEW j \in B!Jobs, B!JobStep(j)
  PROVE  Moves(j)
<1>1. job[j] \in JobRecord /\ JobSound(job[j])
  BY DEF B!TypeOK, JobRecord, JobsSound
<1>2. job[j].at # "free" BY DEF B!JobStep, B!TakeBackup, B!MakeArchive, B!Complete, B!TakeRestore, B!Fetch,
        B!Prove, B!Wipe, B!Extract, B!PutBack, B!Tell, B!Fail
<1>3. CASE B!TakeBackup(j)
  <2>1. B!Step(j, "archive") \/ B!Leave(j)
    BY <1>3 DEF B!TakeBackup
  <2>2. PICK w \in JobRecord : /\ job' = [job EXCEPT ![j] = w] /\ JobSound(w) /\ w.at \in {"free", "archive"}
                               /\ w.at # "free" => w.of = job[j].of /\ w.kind = job[j].kind
    BY <2>1, <1>1, <1>2, <1>3, Answered DEF B!TakeBackup, B!JobSteps, B!NodeSteps
  <2>3. job'[j] = w BY <2>2 DEF B!TypeOK
  <2>4. ASSUME w.at = "archive" PROVE row'[w.of].status \notin Claimed
    <3>1. ~B!Leave(j) BY <2>3, <2>4, <1>1 DEF B!Leave, B!Free, B!TypeOK
    <3>2. row' = [row EXCEPT ![job[j].of].status = "RUNNING"] /\ job[j].of \in Backup
      BY <1>1, <1>2, <1>3, <3>1 DEF B!TakeBackup, JobSound
    <3>3. row[job[j].of] \in B!Rows \cup {B!NoRow} BY <3>2 DEF B!TypeOK
    <3> QED BY <2>2, <2>4, <3>2, <3>3 DEF B!TypeOK, Claimed, B!Rows, B!NoRow
  <2> QED BY <2>2, <2>4 DEF Moves
<1>4. CASE B!MakeArchive(j)
  <2>1. job[j].at = "archive" /\ job[j].kind = "backup" /\ job[j].of \in Backup
    BY <1>1, <1>4 DEF B!MakeArchive, JobSound
  <2>2. CASE store' = [store EXCEPT ![job[j].of] = B!Bytes(j)] /\ (B!Answer(j, "complete") \/ B!Step(j, "fail"))
    <3>1. PICK w \in JobRecord : /\ job' = [job EXCEPT ![j] = w] /\ JobSound(w) /\ w.at \in {"free", "complete", "fail"}
                                 /\ w.at # "free" => w.of = job[j].of /\ w.kind = job[j].kind /\ w.last = job[j].last
      BY <2>1, <2>2, Answered DEF B!JobSteps, B!PanelSteps
    <3> QED BY <2>1, <2>2, <3>1 DEF Moves, B!TypeOK
  <2>3. CASE B!Answer(j, "fail")
    <3>1. PICK w \in JobRecord : /\ job' = [job EXCEPT ![j] = w] /\ JobSound(w) /\ w.at \in {"free", "fail"}
                                 /\ w.at # "free" => w.of = job[j].of /\ w.kind = job[j].kind
      BY <2>1, <2>3, Answered DEF B!JobSteps, B!PanelSteps
    <3> QED BY <3>1 DEF Moves
  <2> QED BY <1>4, <2>2, <2>3 DEF B!MakeArchive, B!Unreached
<1>5. CASE B!Complete(j)
  <2>1. B!Step(j, "tell") \/ B!Retry(j) BY <1>5 DEF B!Complete
  <2>2. CASE B!Step(j, "tell")
    <3>1. PICK w \in JobRecord : /\ job' = [job EXCEPT ![j] = w] /\ JobSound(w) /\ w.at \in {"free", "tell"}
                                 /\ w.at # "free" => w.of = job[j].of /\ w.kind = job[j].kind
      BY <1>1, <1>2, <1>5, <2>2, Answered DEF B!Complete, JobSound, B!JobSteps, B!PanelSteps
    <3> QED BY <3>1 DEF Moves
  <2> QED BY <1>2, <2>1, <2>2, Retried
<1>6. CASE B!Tell(j)
  <2>1. PICK w \in JobRecord : /\ job' = [job EXCEPT ![j] = w] /\ JobSound(w) /\ w.at \in {"free", "fail"}
                               /\ w.at # "free" => w.of = job[j].of /\ w.kind = job[j].kind
    BY <1>1, <1>2, <1>6, Answered DEF B!Tell, JobSound, B!JobSteps, B!PanelSteps
  <2> QED BY <2>1 DEF Moves
<1>7. CASE B!Fail(j)
  BY <1>2, <1>7, Retried DEF B!Fail
<1>8. CASE B!TakeRestore(j)
  <2>1. CASE B!Leave(j)
    BY <2>1, FreeTyped DEF B!Leave, B!Free, Moves
  <2>2. CASE ~B!Leave(j)
    <3> DEFINE b == job[j].of
               w == [job[j] EXCEPT !.at = "fetch", !.prev = row[b].status, !.sum = row[b].sum]
    <3>1. job[j].at = "queued" /\ job[j].kind = "restore" /\ b \in Backup /\ B!Exists(b)
      BY <1>1, <1>8, <2>2 DEF B!TakeRestore, JobSound
    <3>2. row[b] \in B!Rows /\ row[b].sum \in Sums
      BY <3>1 DEF B!TypeOK, B!Exists, SumsOfWhole
    <3>3. row[b].status \in B!Status /\ row[b].sum \in B!Archive
      BY <3>2 DEF B!Rows
    <3>4. w \in JobRecord BY <1>1, <3>3 DEF JobRecord, B!JobSteps, B!NodeSteps
    <3>5. JobSound(w) /\ w.at = "fetch" /\ w.of = b /\ w.kind = "restore"
      BY <1>1, <3>1, <3>2, <3>3, <3>4 DEF JobRecord, JobSound
    <3>6. job' = [job EXCEPT ![j] = w] BY <1>8, <2>2 DEF B!TakeRestore, B!TypeOK
    <3> QED BY <3>1, <3>4, <3>5, <3>6 DEF Moves
  <2> QED BY <2>1, <2>2
<1>9. CASE B!Fetch(j)
  <2>1. job[j].at = "fetch" /\ job[j].kind = "restore" /\ job[j].of \in Backup /\ job[j].prev \in B!Status
    BY <1>1, <1>9 DEF B!Fetch, JobSound
  <2>2. CASE B!Answer(j, "fail")
    <3>1. PICK w \in JobRecord : /\ job' = [job EXCEPT ![j] = w] /\ JobSound(w) /\ w.at \in {"free", "fail"}
                                 /\ w.at # "free" => w.of = job[j].of /\ w.kind = job[j].kind
      BY <2>1, <2>2, Answered DEF B!JobSteps, B!PanelSteps
    <3> QED BY <3>1 DEF Moves
  <2>3. CASE ~B!Answer(j, "fail")
    <3>1. PICK c \in {store[job[j].of]} \cup IF job[j].of \in Remote THEN {B!Partial} ELSE {} :
             job' = [job EXCEPT ![j] = [@ EXCEPT !.at = "prove", !.copy = c]]
      BY <1>9, <2>3 DEF B!Fetch
    <3>2. c \in B!Archive BY <2>1, <3>1 DEF B!TypeOK, B!Archive
    <3> DEFINE w == [job[j] EXCEPT !.at = "prove", !.copy = c]
    <3>3. w \in JobRecord BY <1>1, <3>2 DEF JobRecord, B!JobSteps, B!NodeSteps
    <3>4. JobSound(w) /\ w.at = "prove" /\ w.of = job[j].of /\ w.kind = "restore"
      BY <1>1, <2>1, <3>3 DEF JobRecord, JobSound
    <3>5. job' = [job EXCEPT ![j] = w] BY <3>1 DEF B!TypeOK
    <3> QED BY <2>1, <3>3, <3>4, <3>5 DEF Moves
  <2> QED BY <2>2, <2>3
<1>10. CASE B!Prove(j)
  <2>1. job[j].at = "prove" /\ job[j].kind = "restore" /\ job[j].of \in Backup /\ job[j].prev \in B!Status
        /\ job[j].sum \in Sums
    BY <1>1, <1>10 DEF B!Prove, JobSound
  <2>2. CASE B!Answer(j, "fail")
    <3>1. PICK w \in JobRecord : /\ job' = [job EXCEPT ![j] = w] /\ JobSound(w) /\ w.at \in {"free", "fail"}
                                 /\ w.at # "free" => w.of = job[j].of /\ w.kind = job[j].kind
      BY <2>1, <2>2, Answered DEF B!JobSteps, B!PanelSteps
    <3> QED BY <3>1 DEF Moves
  <2>3. CASE ~B!Answer(j, "fail")
    <3>1. B!Source(j) \in B!Whole /\ job[j].sum \in {B!NoArchive, B!Source(j)}
      BY <1>10, <2>1, <2>3 DEF B!Prove, B!Proved, Sums
    <3> DEFINE c == B!Source(j)
               s == IF job[j].truncate THEN "wipe" ELSE "extract"
               w == [job[j] EXCEPT !.at = s, !.copy = c]
    <3>2. s \in {"wipe", "extract"} /\ c \in B!Archive BY <3>1 DEF B!Archive
    <3>3. job' = [job EXCEPT ![j] = w] BY <1>10, <2>3 DEF B!Prove, B!TypeOK
    <3> HIDE DEF c, s
    <3>4. w \in JobRecord BY <1>1, <3>2 DEF JobRecord, B!JobSteps, B!NodeSteps
    <3>5. JobSound(w) /\ w.at = s /\ w.of = job[j].of /\ w.kind = "restore"
      BY <1>1, <2>1, <3>1, <3>2, <3>4 DEF JobRecord, JobSound, c
    <3> QED BY <2>1, <3>2, <3>3, <3>4, <3>5 DEF Moves
  <2> QED BY <2>2, <2>3
<1>11. CASE B!Wipe(j)
  <2>1. PICK w \in JobRecord : /\ job' = [job EXCEPT ![j] = w] /\ JobSound(w) /\ w.at \in {"free", "fail", "extract"}
                               /\ w.at # "free" => w.of = job[j].of /\ w.kind = job[j].kind
    BY <1>1, <1>11, Answered DEF B!Wipe, JobSound, B!JobSteps, B!PanelSteps, B!NodeSteps
  <2> QED BY <2>1 DEF Moves
<1>12. CASE B!Extract(j)
  <2>1. PICK w \in JobRecord : /\ job' = [job EXCEPT ![j] = w] /\ JobSound(w) /\ w.at \in {"free", "fail", "putback"}
                               /\ w.at # "free" => w.of = job[j].of /\ w.kind = job[j].kind
    BY <1>1, <1>12, Answered DEF B!Extract, JobSound, B!JobSteps, B!PanelSteps
  <2> QED BY <2>1 DEF Moves
<1>13. CASE B!PutBack(j)
  <2>1. PICK w \in JobRecord : /\ job' = [job EXCEPT ![j] = w] /\ JobSound(w) /\ w.at \in {"free", "fail", "tell"}
                               /\ w.at # "free" => w.of = job[j].of /\ w.kind = job[j].kind
    BY <1>1, <1>13, Answered DEF B!PutBack, JobSound, B!JobSteps, B!PanelSteps
  <2> QED BY <2>1 DEF Moves
<1> QED BY <1>3, <1>4, <1>5, <1>6, <1>7, <1>8, <1>9, <1>10, <1>11, <1>12, <1>13 DEF B!JobStep

\* What a step of a job writes: the row of its backup, or its archive. A row says that it
\* is complete because it did, because the job has made the archive, or by mistake.
WritesRow(j) ==
  LET b == job[j].of IN
  /\ store' = store
  /\ \/ row' = row
     \/ /\ b \in Backup /\ B!Exists(b)
        /\ \E v \in B!Rows :
             /\ row' = [row EXCEPT ![b] = v] /\ v.sum \in Sums
             /\ v.status \in Claimed =>
                  \/ MarkedIn(mishaps', b)
                  \/ row[b].status \in Claimed /\ v.sum = row[b].sum
                  \/ job[j].at = "complete" /\ v.sum = B!Bytes(j)

WritesArchive(j) ==
  /\ row' = row
  /\ job[j].at = "archive" /\ job[j].of \in Backup
  /\ \E a \in B!Archive : store' = [store EXCEPT ![job[j].of] = a]

\* The row that a job leaves behind (finish and the catch of backup.processor.ts).
LEMMA LeavingWrites ==
  ASSUME B!TypeOK, SumsOfWhole, NEW j \in B!Jobs, job[j].of \in Backup,
         NEW s \in B!Status, B!Leaving(j, s), store' = store,
         s \in Claimed => job[j].kind = "restore"
  PROVE  mishaps \subseteq mishaps' /\ mishaps' \subseteq Backup \X B!Mishaps
         /\ WritesRow(j)
<1> DEFINE b == job[j].of
<1>1. mishaps' \in {mishaps, mishaps \cup {<<b, "crossed">>}} /\ "crossed" \in B!Mishaps
  BY DEF B!Leaving, B!Mishaps
<1>2. CASE ~B!Exists(b)
  <2>1. row' = row BY <1>2 DEF B!Leaving, B!TypeOK
  <2> QED BY <1>1, <2>1 DEF WritesRow, B!TypeOK
<1>3. CASE B!Exists(b)
  <2> DEFINE v == [row[b] EXCEPT !.status = s]
  <2>1. row[b] \in B!Rows /\ row[b].sum \in Sums BY <1>3 DEF B!TypeOK, B!Exists, SumsOfWhole
  <2>2. v \in B!Rows /\ v.sum = row[b].sum /\ v.status = s BY <2>1 DEF B!Rows
  <2>3. row' = [row EXCEPT ![b] = v] BY <1>3 DEF B!Leaving, B!TypeOK
  <2>4. ASSUME s \in Claimed PROVE MarkedIn(mishaps', b) \/ row[b].status \in Claimed
    <3>1. CASE row[b].status = "RESTORING" BY <3>1 DEF Claimed
    <3>2. CASE row[b].status # "RESTORING"
      <4>1. <<b, "crossed">> \in mishaps' BY <2>4, <3>2 DEF B!Leaving
      <4> QED BY <4>1 DEF MarkedIn
    <3> QED BY <3>1, <3>2
  <2> HIDE DEF v
  <2>5. WritesRow(j) BY <1>3, <2>1, <2>2, <2>3, <2>4 DEF WritesRow
  <2> QED BY <1>1, <2>5 DEF B!TypeOK
<1> QED BY <1>2, <1>3

\* Every step of a job writes the row, or the archive.
LEMMA JobWrites ==
  ASSUME B!TypeOK, JobsSound, SumsOfWhole, NEW j \in B!Jobs, B!JobStep(j)
  PROVE  /\ mishaps \subseteq mishaps' /\ mishaps' \subseteq Backup \X B!Mishaps
         /\ WritesRow(j) \/ WritesArchive(j)
<1> DEFINE b == job[j].of
<1>1. JobSound(job[j]) /\ mishaps \subseteq Backup \X B!Mishaps
      /\ job[j].kind \in {"backup", "restore"}
  BY DEF B!TypeOK, JobsSound
<1>2. ASSUME B!Exists(b), b \in Backup
      PROVE  row[b] \in B!Rows /\ row[b].sum \in Sums /\ row[b].status \in B!Status
  BY <1>2 DEF B!TypeOK, B!Exists, SumsOfWhole, B!Rows
<1>3. CASE B!TakeBackup(j)
  <2>1. b \in Backup /\ UNCHANGED <<store, mishaps>> BY <1>1, <1>3 DEF B!TakeBackup, JobSound
  <2>2. CASE ~B!Exists(b) BY <1>1, <1>3, <2>1, <2>2 DEF B!TakeBackup, WritesRow
  <2>3. CASE B!Exists(b)
    <3> DEFINE v == [row[b] EXCEPT !.status = "RUNNING"]
    <3>1. v \in B!Rows /\ v.sum \in Sums /\ v.status \notin Claimed
      BY <1>2, <2>1, <2>3 DEF B!Rows, B!Status, Claimed
    <3>2. row' = [row EXCEPT ![b] = v] BY <1>3, <2>3 DEF B!TakeBackup, B!TypeOK
    <3> QED BY <1>1, <2>1, <2>3, <3>1, <3>2 DEF WritesRow
  <2> QED BY <2>2, <2>3
<1>4. CASE B!MakeArchive(j)
  <2>1. job[j].at = "archive" /\ b \in Backup /\ UNCHANGED <<row, mishaps>>
    BY <1>1, <1>4 DEF B!MakeArchive, JobSound
  <2>2. \/ store' = store
        \/ store' = [store EXCEPT ![b] = B!Bytes(j)]
        \/ store' = [store EXCEPT ![b] = B!Partial]
    BY <1>4 DEF B!MakeArchive, B!Unreached
  <2>3. {B!Bytes(j), B!Partial} \subseteq B!Archive BY BytesWhole DEF B!Archive
  <2> QED BY <1>1, <2>1, <2>2, <2>3 DEF WritesRow, WritesArchive
<1>5. CASE B!Complete(j)
  <2>1. job[j].at = "complete" /\ b \in Backup /\ UNCHANGED <<store, mishaps>>
    BY <1>1, <1>5 DEF B!Complete, JobSound
  <2>2. CASE ~B!Exists(b) BY <1>1, <1>5, <2>1, <2>2 DEF B!Complete, WritesRow
  <2>3. CASE B!Exists(b)
    <3> DEFINE v == B!Completed(j, row[b])
    <3>1. v \in B!Rows /\ v.sum = B!Bytes(j) /\ v.sum \in Sums
      BY <1>2, <2>1, <2>3, BytesWhole DEF B!Completed, B!Rows, B!Status, B!Archive, Sums
    <3>2. row' = [row EXCEPT ![b] = v] BY <1>5, <2>3 DEF B!Complete, B!TypeOK
    <3> QED BY <1>1, <2>1, <2>3, <3>1, <3>2 DEF WritesRow
  <2> QED BY <2>2, <2>3
<1>6. CASE B!Fail(j)
  <2> DEFINE s == IF job[j].kind = "restore" THEN job[j].prev ELSE "FAILED"
  <2>1. b \in Backup /\ s \in B!Status /\ (s \in Claimed => job[j].kind = "restore")
    BY <1>1, <1>6 DEF B!Fail, JobSound, B!Status, Claimed
  <2>2. B!Leaving(j, s) /\ store' = store BY <1>6 DEF B!Fail
  <2> QED BY <2>1, <2>2, LeavingWrites
<1>7. CASE B!PutBack(j)
  <2>1. b \in Backup /\ job[j].prev \in B!Status /\ job[j].kind = "restore"
    BY <1>1, <1>7 DEF B!PutBack, JobSound
  <2>2. B!Leaving(j, job[j].prev) /\ store' = store BY <1>7 DEF B!PutBack
  <2> QED BY <2>1, <2>2, LeavingWrites
<1>8. CASE B!TakeRestore(j)
  <2>1. b \in Backup /\ store' = store BY <1>1, <1>8 DEF B!TakeRestore, JobSound
  <2>2. CASE ~(B!Exists(b) /\ row[b].key) BY <1>1, <1>8, <2>1, <2>2 DEF B!TakeRestore, WritesRow
  <2>3. CASE B!Exists(b) /\ row[b].key
    <3> DEFINE v == [row[b] EXCEPT !.status = "RESTORING"]
    <3>1. v \in B!Rows /\ v.sum \in Sums /\ v.sum = row[b].sum
      BY <1>2, <2>1, <2>3 DEF B!Rows, B!Status
    <3>2. row' = [row EXCEPT ![b] = v] BY <1>8, <2>3 DEF B!TakeRestore, B!TypeOK
    <3>3. /\ mishaps \subseteq mishaps' /\ mishaps' \subseteq mishaps \cup {<<b, "crossed">>, <<b, "reread">>}
          /\ row[b].status # "COMPLETED" => <<b, "crossed">> \in mishaps'
      BY <1>8, <2>3 DEF B!TakeRestore
    <3>4. MarkedIn(mishaps', b) \/ row[b].status \in Claimed BY <3>3 DEF MarkedIn, Claimed
    <3>6. mishaps' \subseteq Backup \X B!Mishaps BY <1>1, <2>1, <3>3 DEF B!Mishaps
    <3> HIDE DEF v
    <3>5. WritesRow(j) BY <2>1, <2>3, <3>1, <3>2, <3>4 DEF WritesRow
    <3> QED BY <3>3, <3>5, <3>6
  <2> QED BY <2>2, <2>3
<1>9. CASE B!Tell(j) \/ B!Fetch(j) \/ B!Prove(j) \/ B!Wipe(j) \/ B!Extract(j)
  BY <1>1, <1>9 DEF B!Tell, B!Fetch, B!Prove, B!Wipe, B!Extract, WritesRow
<1> QED BY <1>3, <1>4, <1>5, <1>6, <1>7, <1>8, <1>9 DEF B!JobStep

\* A step that writes rows and no archive is right when the rows that say they are
\* complete said so before (toggleLock, the marking and the end of a deletion).
LEMMA RowsKeep ==
  ASSUME B!TypeOK, JobsSound, BackupsRight, UNCHANGED <<store, job, mishaps>>,
         \A b \in Backup : row'[b].status \in Claimed => row[b].status \in Claimed /\ row'[b].sum = row[b].sum
  PROVE  BackupsRight'
<1>1. OneMaker' /\ MadeThis' BY DEF BackupsRight, OneMaker, MadeThis, Marked, B!Bytes
<1>2. ASSUME NEW j \in B!Jobs, job[j].at = "archive" PROVE job[j].of \in Backup
  BY <1>2 DEF JobsSound, JobSound
<1>3. UnclaimedMeanwhile' BY <1>2 DEF BackupsRight, UnclaimedMeanwhile, Marked
<1>4. ClaimedIsWhole' BY DEF BackupsRight, ClaimedIsWhole, Marked
<1> QED BY <1>1, <1>3, <1>4 DEF BackupsRight

\* A step that takes archives away is right when it is remembered whose.
LEMMA RemovalsKeep ==
  ASSUME B!TypeOK, JobsSound, BackupsRight, UNCHANGED <<row, job>>, mishaps \subseteq mishaps',
         \A b \in Backup : store'[b] = store[b] \/ MarkedIn(mishaps', b)
  PROVE  BackupsRight'
<1>1. \A b : MarkedIn(mishaps, b) => MarkedIn(mishaps', b) BY DEF MarkedIn
<1>2. OneMaker' /\ UnclaimedMeanwhile'
  BY <1>1 DEF BackupsRight, OneMaker, UnclaimedMeanwhile, Marked
<1>3. MadeThis'
  <2>1. ASSUME NEW j \in B!Jobs, job[j].at = "complete" PROVE job[j].of \in Backup
    BY <2>1 DEF JobsSound, JobSound
  <2> QED BY <1>1, <2>1 DEF BackupsRight, MadeThis, Marked, B!Bytes
<1>4. ClaimedIsWhole' BY <1>1 DEF BackupsRight, ClaimedIsWhole, Marked
<1> QED BY <1>2, <1>3, <1>4 DEF BackupsRight

\* A step of a job is right: only one writes a backup's archive, and while it does the
\* row does not say that it is there.
LEMMA JobKeeps ==
  ASSUME BackupsTyped, BackupsRight, NEW j \in B!Jobs, B!JobStep(j)
  PROVE  BackupsRight'
<1>1. B!TypeOK /\ JobsSound /\ SumsOfWhole BY DEF BackupsTyped
<1>2. PICK w \in JobRecord :
        /\ job' = [job EXCEPT ![j] = w] /\ JobSound(w)
        /\ w.at # "free" => w.of = job[j].of /\ w.kind = job[j].kind
        /\ w.at = "archive" => row'[w.of].status \notin Claimed
        /\ w.at = "complete" => store'[w.of] = B!Bytes(j) /\ w.last = job[j].last
  BY <1>1, JobMoved DEF Moves
<1>3. mishaps \subseteq mishaps' /\ (WritesRow(j) \/ WritesArchive(j)) BY <1>1, JobWrites
<1>4. \A b : MarkedIn(mishaps, b) => MarkedIn(mishaps', b) BY <1>3 DEF MarkedIn
<1>5. job'[j] = w /\ \A k \in B!Jobs \ {j} : job'[k] = job[k] BY <1>1, <1>2 DEF B!TypeOK
<1>6. w.of \in Backup => w.at # "free" BY <1>2, FreeTyped DEF JobSound, B!Free
<1>7. ASSUME NEW k \in B!Jobs PROVE JobSound(job[k]) BY <1>1 DEF JobsSound
<1>8. ASSUME NEW k \in B!Jobs \ {j}, job[k].kind = "backup", job[j].kind = "backup",
             job[k].of = job[j].of, job[j].of \in Backup
      PROVE  MarkedIn(mishaps', job[j].of)
  BY <1>4, <1>8 DEF BackupsRight, OneMaker, Marked
<1>9. OneMaker'
  <2> SUFFICES ASSUME NEW i \in B!Jobs, NEW k \in B!Jobs, i # k, job'[i].kind = "backup", job'[k].kind = "backup",
                      job'[i].of = job'[k].of, job'[i].of \in Backup
               PROVE  MarkedIn(mishaps', job'[i].of)
    BY DEF OneMaker, Marked
  <2>1. CASE i = j BY <1>2, <1>5, <1>6, <1>8, <2>1
  <2>2. CASE k = j BY <1>2, <1>5, <1>6, <1>8, <2>2
  <2>3. CASE i # j /\ k # j
    BY <1>4, <1>5, <2>3 DEF BackupsRight, OneMaker, Marked
  <2> QED BY <2>1, <2>2, <2>3
<1>10. UnclaimedMeanwhile'
  <2> SUFFICES ASSUME NEW k \in B!Jobs, job'[k].at = "archive", row'[job'[k].of].status \in Claimed
               PROVE  MarkedIn(mishaps', job'[k].of)
    BY DEF UnclaimedMeanwhile, Marked
  <2>1. k # j /\ job'[k] = job[k] BY <1>2, <1>5
  <2>2. job[k].kind = "backup" /\ job[k].of \in Backup BY <1>7, <2>1 DEF JobSound
  <2>3. CASE row'[job[k].of] = row[job[k].of]
    BY <1>4, <2>1, <2>3 DEF BackupsRight, UnclaimedMeanwhile, Marked
  <2>4. CASE row'[job[k].of] # row[job[k].of]
    <3>1. WritesRow(j) /\ row' # row /\ job[j].of = job[k].of
      BY <1>1, <1>3, <2>2, <2>4 DEF WritesRow, WritesArchive, B!TypeOK
    <3>2. \/ MarkedIn(mishaps', job[j].of) \/ row[job[j].of].status \in Claimed \/ job[j].at = "complete"
      BY <1>1, <2>1, <2>2, <3>1 DEF WritesRow, B!TypeOK
    <3>3. job[j].at = "complete" => job[j].kind = "backup" BY <1>7 DEF JobSound
    <3> QED BY <1>4, <1>8, <2>1, <2>2, <3>1, <3>2, <3>3 DEF BackupsRight, UnclaimedMeanwhile, Marked
  <2> QED BY <2>3, <2>4
<1>11. MadeThis'
  <2> SUFFICES ASSUME NEW k \in B!Jobs, job'[k].at = "complete", k # j
               PROVE  store'[job'[k].of] = B!Bytes(k)' \/ MarkedIn(mishaps', job'[k].of)
    <3>1. job'[j].at = "complete" => store'[job'[j].of] = B!Bytes(j)'
      BY <1>2, <1>5 DEF B!Bytes, B!Retried
    <3> QED BY <3>1 DEF MadeThis, Marked
  <2>1. job'[k] = job[k] BY <1>5
  <2>2. job[k].kind = "backup" /\ job[k].of \in Backup BY <1>7, <2>1 DEF JobSound
  <2>3. CASE store'[job[k].of] = store[job[k].of]
    BY <1>4, <2>1, <2>3 DEF BackupsRight, MadeThis, Marked, B!Bytes
  <2>4. CASE store'[job[k].of] # store[job[k].of]
    <3>1. WritesArchive(j) /\ job[j].of = job[k].of
      BY <1>1, <1>3, <2>2, <2>4 DEF WritesRow, WritesArchive, B!TypeOK
    <3>2. job[j].kind = "backup" BY <1>7, <3>1 DEF JobSound, WritesArchive
    <3> QED BY <1>8, <2>1, <2>2, <3>1, <3>2
  <2> QED BY <2>3, <2>4
<1>12. ClaimedIsWhole'
  <2> SUFFICES ASSUME NEW b \in Backup, row'[b].status \in Claimed, ~MarkedIn(mishaps', b)
               PROVE  \/ store'[b] = B!Rotten
                      \/ store'[b] \in B!Whole /\ row'[b].sum \in {B!NoArchive, store'[b]}
    BY DEF ClaimedIsWhole, Marked
  <2>1. CASE row[b].status \in Claimed /\ row'[b].sum = row[b].sum
    <3>1. store'[b] = store[b]
      <4>1. ASSUME WritesArchive(j), b = job[j].of PROVE FALSE
        BY <1>4, <2>1, <4>1 DEF WritesArchive, BackupsRight, UnclaimedMeanwhile, Marked
      <4> QED BY <1>1, <1>3, <4>1 DEF WritesRow, WritesArchive, B!TypeOK
    <3> QED BY <1>4, <2>1, <3>1 DEF BackupsRight, ClaimedIsWhole, Marked
  <2>2. CASE ~(row[b].status \in Claimed /\ row'[b].sum = row[b].sum)
    <3>1. row'[b] # row[b] BY <2>2
    <3>2. WritesRow(j) /\ row' # row /\ b = job[j].of
      BY <1>1, <1>3, <3>1 DEF WritesRow, WritesArchive, B!TypeOK
    <3>3. job[j].at = "complete" /\ row'[b].sum = B!Bytes(j) /\ store' = store
      BY <1>1, <2>2, <3>2 DEF WritesRow, B!TypeOK
    <3>4. store[b] = B!Bytes(j) BY <1>4, <3>2, <3>3 DEF BackupsRight, MadeThis, Marked
    <3> QED BY <3>3, <3>4, BytesWhole
  <2> QED BY <2>1, <2>2
<1> QED BY <1>9, <1>10, <1>11, <1>12 DEF BackupsRight

\* What a job leaves alone, and what the server's files can be after it.
LEMMA JobSpares ==
  ASSUME B!TypeOK, NEW j \in B!Jobs, B!JobStep(j)
  PROVE  /\ UNCHANGED <<server, deletion, prune, calls>>
         /\ files' \in {"own", "empty", "torn", "restored", "gone"}
<1>1. files \in {"own", "empty", "torn", "restored", "gone"} BY DEF B!TypeOK
<1>2. CASE B!TakeBackup(j) \/ B!MakeArchive(j) \/ B!Complete(j) \/ B!Tell(j) \/ B!Fail(j)
  BY <1>1, <1>2 DEF B!TakeBackup, B!MakeArchive, B!Complete, B!Tell, B!Fail
<1>3. CASE B!TakeRestore(j) \/ B!Fetch(j) \/ B!Prove(j) \/ B!PutBack(j)
  BY <1>1, <1>3 DEF B!TakeRestore, B!Fetch, B!Prove, B!PutBack
<1>4. CASE B!Wipe(j) \/ B!Extract(j)
  BY <1>1, <1>4 DEF B!Wipe, B!Extract
<1> QED BY <1>2, <1>3, <1>4 DEF B!JobStep

\* A step of a job keeps types, checksums and the shape of jobs.
LEMMA JobTyped ==
  ASSUME BackupsTyped, NEW j \in B!Jobs, B!JobStep(j) PROVE BackupsTyped'
<1>1. B!TypeOK /\ JobsSound /\ SumsOfWhole /\ PassesSound BY DEF BackupsTyped
<1>2. PICK w \in JobRecord : job' = [job EXCEPT ![j] = w] /\ JobSound(w)
  BY <1>1, JobMoved DEF Moves
<1>3. job \in [B!Jobs -> JobRecord] BY <1>1 DEF B!TypeOK, JobRecord
<1>4. job' \in [B!Jobs -> JobRecord] BY <1>2, <1>3
<1>5. JobsSound' BY <1>1, <1>2, <1>3 DEF JobsSound, JobSound
<1>6. mishaps' \subseteq Backup \X B!Mishaps /\ (WritesRow(j) \/ WritesArchive(j))
  BY <1>1, JobWrites
<1>7. row' \in [Backup -> B!Rows \cup {B!NoRow}] /\ SumsOfWhole'
  BY <1>1, <1>6 DEF WritesRow, WritesArchive, B!TypeOK, SumsOfWhole
<1>8. store' \in [Backup -> B!Archive] BY <1>1, <1>6 DEF WritesRow, WritesArchive, B!TypeOK
<1>9. UNCHANGED <<server, deletion, prune, calls>> /\ files' \in {"own", "empty", "torn", "restored", "gone"}
  BY <1>1, JobSpares
<1>10. B!TypeOK' BY <1>1, <1>4, <1>6, <1>7, <1>8, <1>9 DEF B!TypeOK, JobRecord
<1>11. PassesSound' BY <1>1, <1>9 DEF PassesSound
<1> QED BY <1>5, <1>7, <1>10, <1>11 DEF BackupsTyped

\* One fewer request or fault to come is still a number of them.
LEMMA Spent ==
  ASSUME B!TypeOK, NEW k \in B!Kinds, B!Spend(k) PROVE calls' \in [B!Kinds -> Nat]
BY DEF B!TypeOK, B!Spend

\* A job that is queued.
LEMMA Queued ==
  ASSUME BackupsTyped, NEW w \in JobRecord, JobSound(w), NEW s \in B!Jobs,
         job' = [job EXCEPT ![s] = w]
  PROVE  /\ job' \in [B!Jobs -> JobRecord] /\ JobsSound'
         /\ job'[s] = w /\ \A k \in B!Jobs \ {s} : job'[k] = job[k]
BY DEF BackupsTyped, B!TypeOK, JobRecord, JobsSound, JobSound

\* A new row, and its job: no other works for it (createBackup, the task of a schedule).
LEMMA NewKeeps ==
  ASSUME BackupsInv, NEW b \in Backup, B!NewBackup(b) PROVE BackupsInv'
<1>1. BackupsTyped /\ B!TypeOK /\ JobsSound /\ SumsOfWhole /\ PassesSound
  BY DEF BackupsInv, BackupsTyped
<1>2. /\ row' = [row EXCEPT ![b] = B!New]
      /\ UNCHANGED <<server, store, files, deletion, prune>>
      /\ calls' \in [B!Kinds -> Nat]
  BY <1>1, Spent DEF B!NewBackup, B!Kinds
<1>3. B!New \in B!Rows /\ B!New.sum \in Sums /\ B!New.status \notin Claimed
  BY DEF B!New, B!NoRow, B!Rows, B!Status, B!Archive, Sums, Claimed
<1>4. row' \in [Backup -> B!Rows \cup {B!NoRow}] /\ SumsOfWhole'
  BY <1>1, <1>2, <1>3 DEF B!TypeOK, SumsOfWhole
<1>5. \A k \in B!Jobs : job[k].of # b BY DEF B!NewBackup, B!Unused
<1> DEFINE w == [B!Free EXCEPT !.at = "queued", !.of = b]
<1>6. w \in JobRecord /\ JobSound(w) /\ w.at = "queued" /\ w.of = b
  BY FreeTyped DEF JobRecord, JobSound, B!Free, B!JobSteps, Sums
<1>7. \/ /\ mishaps' = mishaps
         /\ \E s \in B!Jobs : job' = [job EXCEPT ![s] = w]
      \/ mishaps' = mishaps \cup {<<b, "unqueued">>} /\ job' = job
  BY DEF B!NewBackup, B!Enqueue, B!Slots
<1> HIDE DEF w
<1>8. /\ mishaps' \subseteq Backup \X B!Mishaps
      /\ \A c : MarkedIn(mishaps, c) => MarkedIn(mishaps', c)
  BY <1>1, <1>7 DEF MarkedIn, B!TypeOK, B!Mishaps
<1>9. /\ job' \in [B!Jobs -> JobRecord] /\ JobsSound'
      /\ \/ \E s \in B!Jobs : /\ job'[s] \in {job[s], w}
                           /\ \A k \in B!Jobs \ {s} : job'[k] = job[k]
         \/ job' = job
  <2>1. CASE job' = job
    BY <1>1, <2>1 DEF B!TypeOK, JobRecord, JobsSound
  <2>2. CASE job' # job
    BY <1>1, <1>6, <1>7, <2>2, Queued
  <2> QED BY <2>1, <2>2
<1>10. \A k \in B!Jobs : job'[k] = job[k] \/ (job'[k] = w /\ \A i \in B!Jobs \ {k} : job'[i] = job[i])
  BY <1>9
<1>11. B!TypeOK' BY <1>1, <1>2, <1>4, <1>8, <1>9 DEF B!TypeOK, JobRecord
<1>12. PassesSound' BY <1>1, <1>2 DEF PassesSound
<1>13. OneMaker'
  BY <1>5, <1>6, <1>8, <1>10 DEF BackupsInv, BackupsRight, OneMaker, Marked
<1>14. UnclaimedMeanwhile'
  <2> SUFFICES ASSUME NEW k \in B!Jobs, job'[k].at = "archive"
               PROVE  row'[job'[k].of].status \notin Claimed \/ MarkedIn(mishaps', job'[k].of)
    BY DEF UnclaimedMeanwhile, Marked
  <2>1. job'[k] = job[k] BY <1>6, <1>10
  <2>2. job[k].of \in Backup /\ job[k].of # b BY <1>1, <1>5, <2>1 DEF JobsSound, JobSound
  <2> QED BY <1>1, <1>2, <1>8, <2>1, <2>2 DEF B!TypeOK, BackupsInv, BackupsRight, UnclaimedMeanwhile, Marked
<1>15. MadeThis'
  <2> SUFFICES ASSUME NEW k \in B!Jobs, job'[k].at = "complete"
               PROVE  store'[job'[k].of] = B!Bytes(k)' \/ MarkedIn(mishaps', job'[k].of)
    BY DEF MadeThis, Marked
  <2>1. job'[k] = job[k] BY <1>6, <1>10
  <2> QED BY <1>2, <1>8, <2>1 DEF BackupsInv, BackupsRight, MadeThis, Marked, B!Bytes
<1>16. ClaimedIsWhole'
  BY <1>1, <1>2, <1>3, <1>8 DEF B!TypeOK, BackupsInv, BackupsRight, ClaimedIsWhole, Marked
<1> QED BY <1>4, <1>9, <1>11, <1>12, <1>13, <1>14, <1>15, <1>16 DEF BackupsInv, BackupsTyped, BackupsRight

\* A step that neither writes a row nor an archive, and brings no job to where it would.
LEMMA JobsKeep ==
  ASSUME B!TypeOK, JobsSound, BackupsRight, UNCHANGED <<row, store>>, mishaps \subseteq mishaps', OneMaker',
         \A k \in B!Jobs : job'[k].at \in {"archive", "complete"} =>
            job'[k].at = job[k].at /\ job'[k].of = job[k].of /\ job'[k].last = job[k].last
  PROVE  BackupsRight'
<1>1. \A b : MarkedIn(mishaps, b) => MarkedIn(mishaps', b) BY DEF MarkedIn
<1>2. UnclaimedMeanwhile' BY <1>1 DEF BackupsRight, UnclaimedMeanwhile, Marked
<1>3. MadeThis' BY <1>1 DEF BackupsRight, MadeThis, Marked, B!Bytes
<1>4. ClaimedIsWhole' BY <1>1 DEF BackupsRight, ClaimedIsWhole, Marked
<1> QED BY <1>2, <1>3, <1>4 DEF BackupsRight

\* A restore that is asked for is another job, and makes nothing.
LEMMA RestoreKeeps ==
  ASSUME BackupsInv, NEW b \in Backup, NEW t \in BOOLEAN, B!RequestRestore(b, t) PROVE BackupsInv'
<1>1. BackupsTyped /\ B!TypeOK /\ JobsSound /\ SumsOfWhole /\ PassesSound /\ BackupsRight
  BY DEF BackupsInv, BackupsTyped
<1>2. UNCHANGED <<server, row, store, files, deletion, prune, mishaps>> /\ calls' \in [B!Kinds -> Nat]
  BY <1>1, Spent DEF B!RequestRestore, B!Kinds
<1> DEFINE w == [B!Free EXCEPT !.at = "queued", !.kind = "restore", !.of = b, !.truncate = t]
<1>3. w \in JobRecord /\ JobSound(w) /\ w.at = "queued" /\ w.kind = "restore"
  BY FreeTyped DEF JobRecord, JobSound, B!Free, B!JobSteps, Sums
<1>4. PICK s \in B!Jobs : job' = [job EXCEPT ![s] = w] BY DEF B!RequestRestore, B!Enqueue, B!Slots
<1> HIDE DEF w
<1>5. /\ job' \in [B!Jobs -> JobRecord] /\ JobsSound'
      /\ job'[s] = w /\ \A k \in B!Jobs \ {s} : job'[k] = job[k]
  BY <1>1, <1>3, <1>4, Queued
<1>6. OneMaker' BY <1>2, <1>3, <1>5 DEF BackupsInv, BackupsRight, OneMaker, Marked
<1>7. BackupsRight' BY <1>1, <1>2, <1>3, <1>5, <1>6, JobsKeep
<1>8. B!TypeOK' BY <1>1, <1>2, <1>5 DEF B!TypeOK, JobRecord
<1>9. SumsOfWhole' /\ PassesSound' BY <1>1, <1>2 DEF SumsOfWhole, PassesSound
<1> QED BY <1>5, <1>7, <1>8, <1>9 DEF BackupsInv, BackupsTyped

\* A worker dies: its job is given to another, and what it had asked of the node goes on.
LEMMA DieKeeps ==
  ASSUME BackupsInv, NEW j \in B!Jobs, B!Die(j) PROVE BackupsInv'
<1>1. BackupsTyped /\ B!TypeOK /\ JobsSound /\ SumsOfWhole /\ PassesSound /\ BackupsRight
  BY DEF BackupsInv, BackupsTyped
<1>2. /\ UNCHANGED <<server, row, store, files, deletion, prune>>
      /\ calls' \in [B!Kinds -> Nat]
      /\ job[j].at \in B!NodeSteps \cup B!PanelSteps
  BY <1>1, Spent DEF B!Die, B!Kinds
<1>3. job[j] \in JobRecord /\ JobSound(job[j]) /\ job[j].at \notin {"free", "queued"} /\ job[j].of \in Backup
      /\ \A k \in B!Jobs : job[k] \in JobRecord /\ JobSound(job[k])
  BY <1>1, <1>2 DEF B!TypeOK, JobRecord, JobsSound, JobSound, B!NodeSteps, B!PanelSteps
<1> DEFINE again == [B!Free EXCEPT !.at = "queued", !.kind = job[j].kind, !.of = job[j].of,
                         !.truncate = job[j].truncate, !.last = job[j].last, !.again = TRUE]
           ghost == [job[j] EXCEPT !.ghost = TRUE]
           left  == IF job[j].at \in B!NodeSteps THEN ghost ELSE B!Free
<1>4. PICK given \in IF job[j].again THEN {0} ELSE {s \in B!Slots : \A t \in B!Slots : s <= t} :
       /\ job' = [k \in B!Jobs |-> IF k = given THEN again ELSE IF k # j THEN job[k] ELSE left]
       /\ mishaps' = mishaps \cup {<<job[j].of, m>> : m \in
            (IF given = 0 THEN {"unqueued"} ELSE {}) \cup (IF job[j].at = "archive" THEN {"strayed"} ELSE {})}
  BY DEF B!Die
<1>5. again \in JobRecord /\ JobSound(again) /\ again.at = "queued" /\ again.kind = job[j].kind /\ again.of = job[j].of
  <2>1. again \in JobRecord BY <1>3, FreeTyped DEF JobRecord, B!Free, B!JobSteps
  <2>2. JobSound(again)
    BY <1>3, FreeTyped DEF JobSound, B!Free, Sums
  <2> QED BY <2>1, <2>2 DEF B!Free
<1>6. /\ ghost \in JobRecord /\ JobSound(ghost) /\ ghost.at = job[j].at /\ ghost.of = job[j].of
      /\ ghost.last = job[j].last /\ ghost.kind = job[j].kind
  BY <1>3 DEF JobRecord, JobSound
<1>7. /\ left \in JobRecord /\ JobSound(left)
      /\ left.at = "free" \/ (left.at = job[j].at /\ left.of = job[j].of /\ left.last = job[j].last
                              /\ left.kind = job[j].kind /\ job[j].at \in B!NodeSteps)
      /\ left.at = "free" => left.of \notin Backup
  BY <1>3, <1>6, FreeTyped DEF B!Free
<1> HIDE DEF again, ghost, left
<1>8. job' \in [B!Jobs -> JobRecord] /\ JobsSound'
  BY <1>3, <1>4, <1>5, <1>7 DEF JobsSound
<1>9. /\ mishaps \subseteq mishaps'
      /\ mishaps' \subseteq Backup \X B!Mishaps
      /\ job[j].at = "archive" => MarkedIn(mishaps', job[j].of)
  BY <1>1, <1>3, <1>4 DEF B!TypeOK, B!Mishaps, MarkedIn
<1>10. \A b : MarkedIn(mishaps, b) => MarkedIn(mishaps', b) BY <1>9 DEF MarkedIn
<1>11. \A k \in B!Jobs : k = given => k # j BY <1>3, <1>4, BytesWhole DEF B!Slots
<1>12. OneMaker'
  <2> SUFFICES ASSUME NEW i \in B!Jobs, NEW k \in B!Jobs, i # k, job'[i].kind = "backup", job'[k].kind = "backup",
                      job'[i].of = job'[k].of, job'[i].of \in Backup
               PROVE  MarkedIn(mishaps', job'[i].of)
    BY DEF OneMaker, Marked
  <2>1. CASE j \in {i, k} /\ given \in {i, k}
    <3>1. left.of \in Backup /\ left.kind = "backup" BY <1>4, <1>11, <2>1
    <3>2. job[j].at \in B!NodeSteps /\ job[j].kind = "backup" /\ left.of = job[j].of BY <1>7, <3>1
    <3>3. job[j].at = "archive" BY <1>3, <3>2 DEF JobSound, B!NodeSteps
    <3> QED BY <1>4, <1>5, <1>9, <2>1, <3>2, <3>3
  <2>2. CASE j \notin {i, k} \/ given \notin {i, k}
    <3> DEFINE o(x) == IF x = given THEN j ELSE x
    <3>1. o(i) \in B!Jobs /\ o(k) \in B!Jobs /\ o(i) # o(k) BY <2>2
    <3>2. \A x \in {i, k} : job[o(x)].kind = "backup" /\ job[o(x)].of = job'[x].of
      BY <1>4, <1>5, <1>7, <1>11
    <3> HIDE DEF o
    <3> QED BY <1>10, <3>1, <3>2 DEF BackupsInv, BackupsRight, OneMaker, Marked
  <2> QED BY <2>1, <2>2
<1>13. BackupsRight'
  <2>1. \A k \in B!Jobs : job'[k].at \in {"archive", "complete"} =>
            job'[k].at = job[k].at /\ job'[k].of = job[k].of /\ job'[k].last = job[k].last
    BY <1>4, <1>5, <1>7
  <2> QED BY <1>1, <1>2, <1>9, <1>12, <2>1, JobsKeep
<1>14. B!TypeOK' BY <1>1, <1>2, <1>8, <1>9 DEF B!TypeOK, JobRecord
<1>15. SumsOfWhole' /\ PassesSound' BY <1>1, <1>2 DEF SumsOfWhole, PassesSound
<1> QED BY <1>8, <1>13, <1>14, <1>15 DEF BackupsInv, BackupsTyped

\* Bytes rot only while no job reads or writes them.
LEMMA RotKeeps ==
  ASSUME BackupsInv, NEW b \in Backup, B!Rot(b) PROVE BackupsInv'
<1>1. BackupsTyped /\ B!TypeOK /\ JobsSound /\ SumsOfWhole /\ PassesSound /\ BackupsRight
  BY DEF BackupsInv, BackupsTyped
<1>2. /\ UNCHANGED <<server, row, files, job, deletion, prune, mishaps>> /\ calls' \in [B!Kinds -> Nat]
      /\ store' = [store EXCEPT ![b] = B!Rotten]
      /\ \A j \in B!Jobs : job[j].of = b => job[j].at = "queued"
  BY <1>1, Spent DEF B!Rot, B!Kinds
<1>3. B!TypeOK' BY <1>1, <1>2 DEF B!TypeOK, B!Archive
<1>4. JobsSound' /\ SumsOfWhole' /\ PassesSound' BY <1>1, <1>2 DEF JobsSound, SumsOfWhole, PassesSound
<1>5. OneMaker' /\ UnclaimedMeanwhile' BY <1>1, <1>2 DEF BackupsRight, OneMaker, UnclaimedMeanwhile, Marked
<1>6. MadeThis' BY <1>1, <1>2 DEF B!TypeOK, BackupsRight, MadeThis, Marked, B!Bytes
<1>7. ClaimedIsWhole' BY <1>1, <1>2 DEF B!TypeOK, BackupsRight, ClaimedIsWhole, Marked
<1> QED BY <1>3, <1>4, <1>5, <1>6, <1>7 DEF BackupsInv, BackupsTyped, BackupsRight

\* Nobody who deletes a backup, by hand or by age, or locks one, says that it is complete.
LEMMA DeletersKeep ==
  ASSUME BackupsInv, \/ B!DeletionStep \/ B!PruneStep
                     \/ \E b \in Backup : B!Lock(b) \/ B!RequestDeletion(b)
  PROVE  BackupsInv'
<1>1. BackupsTyped /\ B!TypeOK /\ JobsSound /\ SumsOfWhole /\ PassesSound /\ BackupsRight
  BY DEF BackupsInv, BackupsTyped
<1>2. B!NoRow.sum \in Sums /\ B!NoRow.status \notin Claimed BY DEF B!NoRow, Sums, Claimed
<1>3. ASSUME NEW b \in Backup, B!Lock(b) PROVE BackupsInv'
  <2>1. UNCHANGED <<server, store, files, job, deletion, prune, mishaps>> /\ calls' \in [B!Kinds -> Nat]
    BY <1>1, <1>3, Spent DEF B!Lock, B!Kinds
  <2> DEFINE v == [row[b] EXCEPT !.locked = ~@]
  <2>2. row[b] \in B!Rows /\ row' = [row EXCEPT ![b] = v] BY <1>1, <1>3 DEF B!Lock, B!TypeOK, B!Exists
  <2>3. v \in B!Rows /\ v.sum = row[b].sum /\ v.status = row[b].status BY <2>2 DEF B!Rows
  <2> HIDE DEF v
  <2>4. B!TypeOK' BY <1>1, <2>1, <2>2, <2>3 DEF B!TypeOK
  <2>5. JobsSound' /\ SumsOfWhole' /\ PassesSound'
    BY <1>1, <2>1, <2>2, <2>3 DEF B!TypeOK, JobsSound, SumsOfWhole, PassesSound
  <2>6. BackupsRight' BY <1>1, <2>1, <2>2, <2>3, RowsKeep DEF B!TypeOK
  <2> QED BY <2>4, <2>5, <2>6 DEF BackupsInv, BackupsTyped
<1>4. ASSUME NEW b \in Backup, B!RequestDeletion(b) PROVE BackupsInv'
  <2>1. /\ UNCHANGED <<server, row, store, files, job, prune, mishaps>> /\ calls' \in [B!Kinds -> Nat]
        /\ deletion' = [at |-> "mark", of |-> b, key |-> row[b].key] /\ row[b] \in B!Rows
    BY <1>1, <1>4, Spent DEF B!RequestDeletion, B!Kinds, B!TypeOK, B!Exists
  <2>2. B!TypeOK' BY <1>1, <2>1 DEF B!TypeOK, B!Rows
  <2>3. JobsSound' /\ SumsOfWhole' /\ PassesSound' BY <1>1, <2>1 DEF JobsSound, SumsOfWhole, PassesSound
  <2>4. BackupsRight' BY <1>1, <2>1, RowsKeep
  <2> QED BY <2>2, <2>3, <2>4 DEF BackupsInv, BackupsTyped
<1>5. CASE B!MarkDeleting
  <2>1. /\ UNCHANGED <<server, store, files, job, prune, mishaps, calls>> /\ deletion.of \in Backup
        /\ deletion' \in {B!NoDeletion, [deletion EXCEPT !.at = "remove"], [deletion EXCEPT !.at = "drop"]}
    BY <1>1, <1>5 DEF B!MarkDeleting, PassesSound
  <2>2. \A b \in Backup : row'[b] = row[b] \/ (row'[b] = [row[b] EXCEPT !.status = "DELETING"] /\ row[b] \in B!Rows)
    BY <1>1, <1>5, <2>1 DEF B!MarkDeleting, B!TypeOK, B!Exists
  <2>3. row' \in [Backup -> B!Rows \cup {B!NoRow}] /\ SumsOfWhole'
    <3>1. \A v \in B!Rows : [v EXCEPT !.status = "DELETING"] \in B!Rows BY DEF B!Rows, B!Status
    <3>2. DOMAIN row' = Backup /\ row' = [b \in DOMAIN row' |-> row'[b]] BY <1>1, <1>5 DEF B!MarkDeleting, B!TypeOK
    <3>3. \A b \in Backup : row'[b].sum = row[b].sum BY <2>2 DEF B!Rows
    <3> QED BY <1>1, <2>2, <3>1, <3>2, <3>3 DEF SumsOfWhole, B!TypeOK
  <2> DEFINE Deletions == [at : {"idle", "mark", "remove", "drop"}, of : Backup \cup {NoBackup}, key : BOOLEAN]
  <2>8. deletion \in Deletions BY <1>1 DEF B!TypeOK
  <2>10. B!NoDeletion \in Deletions BY DEF B!NoDeletion
  <2>11. \A s \in {"remove", "drop"} : [deletion EXCEPT !.at = s] \in Deletions BY <2>8
  <2> HIDE DEF Deletions
  <2>9. deletion' \in Deletions BY <2>1, <2>10, <2>11
  <2> USE DEF Deletions
  <2>4. B!TypeOK' BY <1>1, <2>1, <2>3, <2>9 DEF B!TypeOK
  <2>5. JobsSound' /\ PassesSound' BY <1>1, <2>1 DEF JobsSound, PassesSound, B!NoDeletion, B!TypeOK
  <2>6. \A b \in Backup : row'[b].status \in Claimed => row'[b] = row[b] BY <2>2 DEF B!Rows, Claimed
  <2>7. BackupsRight' BY <1>1, <2>1, <2>6, RowsKeep
  <2> QED BY <2>3, <2>4, <2>5, <2>7 DEF BackupsInv, BackupsTyped
<1>6. CASE B!DropRow \/ B!PruneRow
  <2> DEFINE b == IF B!DropRow THEN deletion.of ELSE prune.of
  <2>1. /\ UNCHANGED <<server, store, files, job, mishaps, calls>> /\ b \in Backup
        /\ row' = [row EXCEPT ![b] = B!NoRow]
        /\ deletion' \in {deletion, B!NoDeletion} /\ prune' \in {prune} \cup B!PruneOn
    BY <1>1, <1>6 DEF B!DropRow, B!PruneRow, PassesSound
  <2> HIDE DEF b
  <2>6. row' \in [Backup -> B!Rows \cup {B!NoRow}] BY <1>1, <2>1 DEF B!TypeOK
  <2>7. /\ B!NoDeletion \in [at : {"idle", "mark", "remove", "drop"}, of : Backup \cup {NoBackup}, key : BOOLEAN]
        /\ B!PruneOn \subseteq [at : {"idle", "remove", "drop"}, of : Backup \cup {NoBackup}, todo : SUBSET Backup]
    BY <1>1 DEF B!TypeOK, B!NoDeletion, B!PruneOn, B!NoPrune
  <2>2. B!TypeOK' BY <1>1, <2>1, <2>6, <2>7 DEF B!TypeOK
  <2>3. SumsOfWhole' BY <1>1, <1>2, <2>1 DEF B!TypeOK, SumsOfWhole
  <2>4. JobsSound' /\ PassesSound'
    BY <1>1, <2>1 DEF JobsSound, PassesSound, B!NoDeletion, B!TypeOK, B!PruneOn, B!NoPrune
  <2>5. BackupsRight' BY <1>1, <1>2, <2>1, RowsKeep DEF B!TypeOK
  <2> QED BY <2>2, <2>3, <2>4, <2>5 DEF BackupsInv, BackupsTyped
<1>7. CASE B!RemoveArchive \/ B!PruneArchive
  <2> DEFINE b == IF B!RemoveArchive THEN deletion.of ELSE prune.of
  <2>1. /\ UNCHANGED <<server, row, files, job, calls>> /\ b \in Backup
        /\ B!Remove(b) \/ UNCHANGED <<store, mishaps>>
        /\ deletion' \in {deletion, [deletion EXCEPT !.at = "drop"]}
        /\ prune' \in {prune, [prune EXCEPT !.at = "drop"]} \cup B!PruneOn
        /\ B!RemoveArchive => prune' = prune
        /\ ~B!RemoveArchive => deletion' = deletion
    BY <1>1, <1>7 DEF B!RemoveArchive, B!PruneArchive, PassesSound
  <2>2. B!RemoveArchive => deletion.of \in Backup BY <2>1
  <2>3. ~B!RemoveArchive => prune.of \in Backup BY <2>1
  <2> HIDE DEF b
  <2>4. store' \in [Backup -> B!Archive] /\ mishaps \subseteq mishaps'
        /\ mishaps' \subseteq Backup \X B!Mishaps
        /\ \A c \in Backup : store'[c] = store[c] \/ MarkedIn(mishaps', c)
    BY <1>1, <2>1 DEF B!Remove, B!TypeOK, B!Archive, B!Mishaps, MarkedIn
  <2>5. B!TypeOK' BY <1>1, <2>1, <2>4 DEF B!TypeOK, B!PruneOn, B!NoPrune
  <2>6. JobsSound' /\ SumsOfWhole' BY <1>1, <2>1 DEF JobsSound, SumsOfWhole
  <2>7. PassesSound'
    BY <1>1, <2>1, <2>2, <2>3 DEF PassesSound, B!TypeOK, B!PruneOn, B!NoPrune
  <2>8. BackupsRight' BY <1>1, <2>1, <2>4, RemovalsKeep
  <2> QED BY <2>5, <2>6, <2>7, <2>8 DEF BackupsInv, BackupsTyped
<1>8. CASE B!PruneList
  <2>1. /\ UNCHANGED <<server, row, store, files, job, deletion, mishaps, calls>>
        /\ prune' \in {[at |-> "remove", of |-> b, todo |-> B!Expired \ {b}] : b \in B!Expired}
        /\ B!Expired \subseteq Backup
    BY <1>8 DEF B!PruneList, B!Expired
  <2>2. B!TypeOK' /\ PassesSound' BY <1>1, <2>1 DEF B!TypeOK, PassesSound
  <2>3. JobsSound' /\ SumsOfWhole' BY <1>1, <2>1 DEF JobsSound, SumsOfWhole
  <2>4. BackupsRight' BY <1>1, <2>1, RowsKeep
  <2> QED BY <2>2, <2>3, <2>4 DEF BackupsInv, BackupsTyped
<1> QED BY <1>3, <1>4, <1>5, <1>6, <1>7, <1>8 DEF B!DeletionStep, B!PruneStep

\* Every step of the backups keeps their invariant.
LEMMA BackupsStep == ASSUME BackupsInv, B!Next PROVE BackupsInv'
<1>1. ASSUME NEW b \in Backup, B!CreateBackup(b) \/ B!ScheduledBackup(b) PROVE BackupsInv'
  BY <1>1, NewKeeps DEF B!CreateBackup, B!ScheduledBackup
<1>2. ASSUME NEW j \in B!Jobs, B!JobStep(j) PROVE BackupsInv'
  BY <1>2, JobTyped, JobKeeps DEF BackupsInv
<1> QED BY <1>1, <1>2, RestoreKeeps, DieKeeps, RotKeeps, DeletersKeep DEF B!Next

-----------------------------------------------------------------------------
(***************************************************************************)
(* The databases' own lemmas.                                               *)
(***************************************************************************)
AnyRow        == [id : Request \cup {0}, host : Host \cup {NoHost}, password : Request \cup {0}]
RequestRecord == [at : D!Steps, name : Name \cup {NoName}, row : AnyRow]

\* A request is not 0, and a row is not the want of one.
LEMMA RowsAre ==
  /\ \A r \in Request : r \in Nat /\ r # 0
  /\ RowTypes \subseteq AnyRow /\ D!NoRecord \notin Row /\ D!NoRecord.id = 0
  /\ \A w \in Row : w.id \in Request /\ w.id # 0 /\ w.host \in Host
BY ScenesAssumption DEF ScenesAssumption, D!DatabasesAssumption, RowTypes, Row, AnyRow, D!NoRecord

\* One cell of what is kept by host.
LEMMA Cell ==
  ASSUME NEW S, NEW T, NEW V, NEW f \in [S -> [T -> V]], NEW a \in S, NEW b \in T, NEW c \in V
  PROVE  /\ [f EXCEPT ![a][b] = c] \in [S -> [T -> V]]
         /\ \A x \in S, y \in T : [f EXCEPT ![a][b] = c][x][y] = IF x = a /\ y = b THEN c ELSE f[x][y]
<1> DEFINE g == [f[a] EXCEPT ![b] = c]
<1>1. g \in [T -> V] /\ g[b] = c /\ \A y \in T : y # b => g[y] = f[a][y] OBVIOUS
<1>2. [f EXCEPT ![a][b] = c] = [f EXCEPT ![a] = g] OBVIOUS
<1> HIDE DEF g
<1> QED BY <1>1, <1>2

\* A request goes on with what it has read.
After(r, s) ==
  /\ request'[r].at = s /\ request'[r].row = request[r].row /\ request'[r].name = request[r].name
  /\ \A q \in Request \ {r} : request'[q] = request[q]

LEMMA WentOn ==
  ASSUME DatabasesTyped, NEW r \in Request, NEW s \in D!Steps, D!Go(r, s), request[r].at \notin {"new", "done"},
         s \in Creating => s # "new" /\ request[r].at \in Creating \ {"new"}
  PROVE  request' \in [Request -> RequestRecord] /\ ReadersSound' /\ After(r, s)
<1> DEFINE w == [request[r] EXCEPT !.at = s]
<1>1. request \in [Request -> RequestRecord] /\ \A q \in Request : ReaderSound(q, request[q])
  BY DEF DatabasesTyped, D!TypeOK, RequestRecord, AnyRow, ReadersSound
<1>2. w \in RequestRecord /\ w.at = s /\ w.row = request[r].row /\ w.name = request[r].name
  BY <1>1 DEF RequestRecord
<1>3. ReaderSound(r, w) BY <1>1, <1>2 DEF ReaderSound
<1>4. request' = [request EXCEPT ![r] = w] BY <1>1 DEF D!Go
<1> HIDE DEF w
<1>5. request'[r] = w /\ \A q \in Request \ {r} : request'[q] = request[q] BY <1>1, <1>4
<1>6. ReadersSound' BY <1>1, <1>3, <1>5 DEF ReadersSound
<1> QED BY <1>1, <1>2, <1>4, <1>5, <1>6 DEF After

\* A request begins with the row it asks for, or with one there is.
LEMMA BeginKeeps ==
  ASSUME DatabasesInv, NEW r \in Request, NEW n \in Name, NEW w \in Row, NEW s \in D!Steps, D!Begin(r, s, n, w),
         UNCHANGED <<server, record, database, account, faults, collateral, removal>>,
         \/ s = "first" /\ w.id = r
         \/ s \in {"reset", "destroy"} /\ w = record[n]
  PROVE  DatabasesInv'
<1>1. request \in [Request -> RequestRecord] /\ \A q \in Request : ReaderSound(q, request[q])
  BY DEF DatabasesInv, DatabasesTyped, D!TypeOK, RequestRecord, AnyRow, ReadersSound
<1> DEFINE v == [at |-> s, name |-> n, row |-> w]
<1>2. request' = [request EXCEPT ![r] = v] /\ request[r].at = "new" BY DEF D!Begin, D!At
<1>3. w \in AnyRow /\ w \in RowTypes BY RowsAre DEF RowTypes
<1>4. v \in RequestRecord BY <1>3 DEF RequestRecord
<1>5. ReaderSound(r, v) BY <1>3 DEF ReaderSound, Creating
<1>6. v.at = s /\ v.name = n /\ v.row = w OBVIOUS
<1> HIDE DEF v
<1>7. request'[r] = v /\ \A q \in Request \ {r} : request'[q] = request[q] BY <1>1, <1>2
<1>8. DatabasesTyped'
  <2>1. request' \in [Request -> RequestRecord] BY <1>1, <1>2, <1>4
  <2>2. ReadersSound' BY <1>1, <1>5, <1>7 DEF ReadersSound
  <2>3. D!TypeOK' /\ RecordsSound'
    BY <2>1 DEF DatabasesInv, DatabasesTyped, D!TypeOK, RecordsSound, RequestRecord, AnyRow
  <2> QED BY <2>2, <2>3 DEF DatabasesTyped
<1>9. Fresh'
  <2> SUFFICES ASSUME NEW q \in Request, request'[q].at \in Creating
               PROVE  /\ \A m \in Name : record[m].id # q
                      /\ \A p \in Request : p # q => request'[p].row.id # q
                      /\ Removing("databases") => \A m \in Name : removal.rows[m].id # q
    BY DEF Fresh, Removing
  <2>1. request[q].at \in Creating BY <1>2, <1>7 DEF Creating
  <2>2. r # q => w.id # q BY <2>1 DEF DatabasesInv, DatabasesRight, Fresh
  <2> QED BY <1>6, <1>7, <2>1, <2>2 DEF DatabasesInv, DatabasesRight, Fresh
<1>10. MadeStands'
  BY <1>6, <1>7 DEF DatabasesInv, DatabasesRight, MadeStands, HasMade
<1>11. DroppedKnowingly'
  BY <1>2, <1>7 DEF DatabasesInv, DatabasesRight, DroppedKnowingly, D!Recorded, D!NoRecord
<1> QED BY <1>8, <1>9, <1>10, <1>11 DEF DatabasesInv, DatabasesRight

\* Nobody comes to know of what is not recorded by going on.
LEMMA FreshKept ==
  ASSUME DatabasesInv, NEW r \in Request, NEW s \in D!Steps, After(r, s), request[r].at \notin {"new", "done"},
         s \in Creating => request[r].at \in Creating, removal' = removal,
         \A n \in Name : record'[n].id \in {record[n].id, 0} \/ (record'[n].id = r /\ s \notin Creating)
  PROVE  Fresh'
<1>1. ASSUME NEW q \in Request, request'[q].at \in Creating PROVE request[q].at \in Creating
  BY <1>1 DEF After
<1>2. \A q \in Request : request'[q].row = request[q].row BY DEF After
<1>3. \A q \in Request : q # 0 BY RowsAre
<1>4. ASSUME NEW q \in Request, request'[q].at \in Creating, NEW n \in Name PROVE record'[n].id # q
  BY <1>1, <1>3, <1>4 DEF DatabasesInv, DatabasesRight, Fresh, After
<1> QED BY <1>1, <1>2, <1>4 DEF DatabasesInv, DatabasesRight, Fresh, Removing

\* The databases that were made stand, unless whose name it was is remembered.
LEMMA MadeKept ==
  ASSUME DatabasesInv, NEW r \in Request, NEW s \in D!Steps, After(r, s), collateral \subseteq collateral',
         HasMade(r)' => \/ database'[request[r].row.host][request[r].name] = r
                        \/ <<request[r].row.host, request[r].name>> \in collateral',
         \A h \in Host, n \in Name :
           \/ database'[h][n] = database[h][n]
           \/ \A q \in Request \ {r} :
                HasMade(q) /\ request[q].row.host = h /\ request[q].name = n => database[h][n] # q
           \/ <<h, n>> \in collateral'
  PROVE  MadeStands'
<1> SUFFICES ASSUME NEW q \in Request, q # r, HasMade(q)'
             PROVE  \/ database'[request[q].row.host][request[q].name] = q
                    \/ <<request[q].row.host, request[q].name>> \in collateral'
  BY DEF MadeStands, After
<1>1. HasMade(q) BY DEF HasMade, After
<1>2. request[q].row.host \in Host /\ request[q].name \in Name
  <2>1. request[q].row \in Row /\ request[q].name \in Name
    BY <1>1 DEF DatabasesInv, DatabasesTyped, ReadersSound, ReaderSound, HasMade
  <2> QED BY <2>1, RowsAre
<1> QED BY <1>1, <1>2 DEF DatabasesInv, DatabasesRight, MadeStands

\* A row that loses its database loses it to one who read it, and who goes on until the
\* row is gone as well.
LEMMA KnowinglyKept ==
  ASSUME DatabasesInv, NEW r \in Request, NEW s \in D!Steps, After(r, s), collateral \subseteq collateral',
         \A n \in Name : record'[n] # D!NoRecord =>
           \/ /\ record[n] # D!NoRecord
              /\ record'[n].id = record[n].id /\ record'[n].host = record[n].host
              /\ \/ s \in {"drop", "erase", "halted"} \/ request[r].at \notin {"drop", "erase", "halted"}
                 \/ request[r].row.id # record[n].id \/ request[r].name # n
              /\ \/ database'[record[n].host][n] = record[n].id
                 \/ database[record[n].host][n] # record[n].id
                 \/ <<record[n].host, n>> \in collateral'
                 \/ /\ request[r].name = n /\ request[r].row.host = record[n].host
                    /\ request[r].row.id = record[n].id /\ s \in {"drop", "erase", "halted"}
           \/ database'[record'[n].host][n] = record'[n].id
           \/ <<record'[n].host, n>> \in collateral'
  PROVE  DroppedKnowingly'
<1> SUFFICES ASSUME NEW n \in Name, record'[n] # D!NoRecord, database'[record'[n].host][n] # record'[n].id,
                    <<record'[n].host, n>> \notin collateral'
             PROVE  \E q \in Request : /\ request'[q].name = n /\ request'[q].row.host = record'[n].host
                                       /\ request'[q].row.id = record'[n].id
                                       /\ request'[q].at \in {"drop", "erase", "halted"}
  BY DEF DroppedKnowingly, D!Recorded, D!NoRecord
<1>1. /\ record[n] # D!NoRecord
      /\ record'[n].id = record[n].id /\ record'[n].host = record[n].host
  OBVIOUS
<1>2. CASE database[record[n].host][n] = record[n].id
  BY <1>1, <1>2 DEF After
<1>3. CASE database[record[n].host][n] # record[n].id
  <2>1. PICK q \in Request : /\ request[q].name = n /\ request[q].row.host = record[n].host
                             /\ request[q].row.id = record[n].id
                             /\ request[q].at \in {"drop", "erase", "halted"}
    BY <1>1, <1>3 DEF DatabasesInv, DatabasesRight, DroppedKnowingly, D!Recorded
  <2>2. CASE q = r
    <3>1. s \in {"drop", "erase", "halted"} BY <1>1, <2>1, <2>2
    <3> QED BY <1>1, <2>1, <2>2, <3>1 DEF After
  <2>3. CASE q # r BY <1>1, <2>1, <2>3 DEF After
  <2> QED BY <2>2, <2>3
<1> QED BY <1>2, <1>3

\* What the steps of the databases are typed by, taken together.
LEMMA DatabasesTypedKept ==
  ASSUME DatabasesTyped, request' \in [Request -> RequestRecord], ReadersSound', server' = server,
         database' \in [Host -> [Name -> Request \cup {0}]], account' \in [Host -> [Account -> Request \cup {0}]],
         faults' \in Nat, collateral' \subseteq Host \X Name, DOMAIN record' = Name, record' = [n \in Name |-> record'[n]],
         \A n \in Name : record'[n] \in RowTypes
  PROVE  DatabasesTyped'
<1>1. record' \in [Name -> AnyRow] BY RowsAre
<1> QED BY <1>1 DEF DatabasesTyped, D!TypeOK, RecordsSound, RequestRecord, AnyRow

\* A host that fails is one fewer that will.
LEMMA Faulted == ASSUME D!TypeOK, D!Fault PROVE faults' \in Nat
BY DEF D!TypeOK, D!Fault

\* What is dropped of a row is a database of its name and an account, on its host.
LEMMA Dropped ==
  ASSUME D!TypeOK, NEW h \in Host, NEW n \in Name
  PROVE  /\ D!DropDatabase(h, n) =>
              /\ database' \in [Host -> [Name -> Request \cup {0}]]
              /\ \A g \in Host, m \in Name : database'[g][m] = IF g = h /\ m = n THEN 0 ELSE database[g][m]
         /\ D!DropAccount(h, n) => account' \in [Host -> [Account -> Request \cup {0}]]
<1>1. Cut[n] \in Account BY ScenesAssumption DEF ScenesAssumption, D!DatabasesAssumption
<1>2. database \in [Host -> [Name -> Request \cup {0}]] /\ account \in [Host -> [Account -> Request \cup {0}]]
  BY DEF D!TypeOK
<1>3. [account EXCEPT ![h][Cut[n]] = 0] \in [Host -> [Account -> Request \cup {0}]]
  BY <1>1, <1>2, Cell
<1>4. /\ [database EXCEPT ![h][n] = 0] \in [Host -> [Name -> Request \cup {0}]]
      /\ \A x \in Host, y \in Name :
           [database EXCEPT ![h][n] = 0][x][y] = IF x = h /\ y = n THEN 0 ELSE database[x][y]
  BY <1>2, Cell
<1> QED BY <1>3, <1>4 DEF D!DropDatabase, D!DropAccount

\* What a creation does on a host: its account or its database, of the request's number,
\* or nothing (createOnHost of database-host.service.ts).
LEMMA ProvisionKeeps ==
  ASSUME DatabasesInv, NEW r \in Request, D!Provision(r) \/ D!ProvisionFails(r), removal' = removal PROVE DatabasesInv'
<1> DEFINE h == request[r].row.host
           n == request[r].name
<1>1. DatabasesTyped /\ D!TypeOK /\ RecordsSound BY DEF DatabasesInv, DatabasesTyped
<1>2. request[r].at \in {"first", "second"}
      /\ UNCHANGED <<server, record, collateral>>
  BY DEF D!Provision, D!ProvisionFails, D!At
<1>3. request[r].row \in Row /\ n \in Name /\ h \in Host
  BY <1>1, <1>2, RowsAre DEF DatabasesTyped, ReadersSound, ReaderSound
<1>4. PICK s \in {"second", "record", "done"} :
        /\ D!Go(r, s)
        /\ \/ database' = database
           \/ database[h][n] = 0 /\ database' = [database EXCEPT ![h][n] = r] /\ s # "done"
        /\ \/ account' = account
           \/ account' = [account EXCEPT ![h][Cut[n]] = r]
        /\ s = "second" /\ h \notin Postgres => database'[h][n] = r
        /\ s = "record" /\ h \in Postgres => database'[h][n] = r
        /\ s = "record" /\ h \notin Postgres => request[r].at = "second" /\ database' = database
        /\ faults' \in Nat
  <2>1. CASE D!ProvisionFails(r)
    BY <1>1, <2>1, Faulted DEF D!ProvisionFails
  <2>2. CASE D!Provision(r)
    <3>1. faults' \in Nat BY <1>1, <2>2 DEF D!Provision, D!TypeOK
    <3>2. CASE request[r].at = "first" <=> h \in Postgres
      <4>1. D!CreateAccount(r) /\ database' = database
        BY <2>2, <3>2 DEF D!Provision, D!At
      <4>2. CASE h \in Postgres BY <1>2, <3>1, <3>2, <4>1, <4>2 DEF D!CreateAccount
      <4>3. CASE h \notin Postgres BY <1>2, <3>1, <3>2, <4>1, <4>3 DEF D!CreateAccount
      <4> QED BY <4>2, <4>3
    <3>3. CASE ~(request[r].at = "first" <=> h \in Postgres)
      <4>1. D!CreateDatabase(r) /\ account' = account
        BY <2>2, <3>3 DEF D!Provision, D!At
      <4>2. CASE database[h][n] = 0
        <5>1. database' = [database EXCEPT ![h][n] = r] /\ D!Go(r, IF h \in Postgres THEN "record" ELSE "second")
          BY <4>1, <4>2 DEF D!CreateDatabase
        <5>2. database'[h][n] = r BY <1>1, <1>3, <5>1 DEF D!TypeOK
        <5> QED BY <3>1, <4>1, <4>2, <5>1, <5>2
      <4>3. CASE database[h][n] # 0 BY <3>1, <4>1, <4>3 DEF D!CreateDatabase
      <4> QED BY <4>2, <4>3
    <3> QED BY <3>2, <3>3
  <2> QED BY <2>1, <2>2
<1>5. s \in D!Steps BY DEF D!Steps
<1>6. request' \in [Request -> RequestRecord] /\ ReadersSound' /\ After(r, s)
  BY <1>1, <1>2, <1>4, <1>5, WentOn DEF Creating
<1>7. database' \in [Host -> [Name -> Request \cup {0}]]
  <2>1. [database EXCEPT ![h][n] = r] \in [Host -> [Name -> Request \cup {0}]]
    BY <1>1, <1>3, Cell DEF D!TypeOK
  <2> QED BY <1>1, <1>4, <2>1 DEF D!TypeOK
<1>8. account' \in [Host -> [Account -> Request \cup {0}]]
  <2>1. Cut[n] \in Account BY <1>3, ScenesAssumption DEF ScenesAssumption, D!DatabasesAssumption
  <2>2. [account EXCEPT ![h][Cut[n]] = r] \in [Host -> [Account -> Request \cup {0}]]
    BY <1>1, <1>3, <2>1, Cell DEF D!TypeOK
  <2> QED BY <1>1, <1>4, <2>2 DEF D!TypeOK
<1>9. DatabasesTyped'
  BY <1>1, <1>2, <1>4, <1>6, <1>7, <1>8, DatabasesTypedKept DEF D!TypeOK, RecordsSound
<1>10. Fresh' BY <1>2, <1>5, <1>6, FreshKept DEF Creating
<1>11. \A g \in Host, m \in Name :
         database'[g][m] = database[g][m] \/ (g = h /\ m = n /\ database[g][m] = 0 /\ database'[g][m] = r)
  BY <1>1, <1>3, <1>4 DEF D!TypeOK
<1>12. MadeStands'
  <2>1. HasMade(r)' => database'[h][n] = r \/ <<h, n>> \in collateral'
    <3>1. CASE s = "record" /\ h \notin Postgres
      <4>1. HasMade(r) BY <1>4, <3>1 DEF HasMade
      <4> QED BY <1>2, <1>4, <3>1, <4>1 DEF DatabasesInv, DatabasesRight, MadeStands
    <3>2. CASE ~(s = "record" /\ h \notin Postgres)
      BY <1>4, <1>6, <3>2 DEF HasMade, After
    <3> QED BY <3>1, <3>2
  <2>2. \A q \in Request : q # 0 BY RowsAre
  <2> QED BY <1>2, <1>5, <1>6, <1>11, <2>1, <2>2, MadeKept
<1>13. DroppedKnowingly'
  <2>1. ASSUME NEW m \in Name, record[m] # D!NoRecord
        PROVE  record[m].id # 0 /\ record[m].host \in Host
    BY <1>1, <2>1, RowsAre DEF RecordsSound, RowTypes
  <2>2. request[r].at \notin {"drop", "erase", "halted"} BY <1>2
  <2> HIDE DEF h, n
  <2> QED BY <1>2, <1>5, <1>6, <1>11, <2>1, <2>2, KnowinglyKept
<1> QED BY <1>9, <1>10, <1>12, <1>13 DEF DatabasesInv, DatabasesRight

\* The row is written when nobody has the account's name; or what was made is given up.
LEMMA RecordKeeps ==
  ASSUME DatabasesInv, NEW r \in Request, D!Record(r), removal' = removal PROVE DatabasesInv'
<1> DEFINE w == request[r].row
           n == request[r].name
<1>1. DatabasesTyped /\ D!TypeOK /\ RecordsSound BY DEF DatabasesInv, DatabasesTyped
<1>2. request[r].at = "record" /\ UNCHANGED <<server, database, account, collateral>>
  BY DEF D!Record, D!At
<1>3. w \in Row /\ n \in Name /\ w.id = r /\ w.host \in Host
  BY <1>1, <1>2, RowsAre DEF DatabasesTyped, ReadersSound, ReaderSound, Creating
<1>4. PICK s \in {"done", "undo"} :
        /\ D!Go(r, s) /\ faults' \in Nat
        /\ \/ record' = record
           \/ s = "done" /\ record' = [record EXCEPT ![n] = w]
  BY <1>1, Faulted DEF D!Record, D!TypeOK
<1>5. s \in D!Steps BY DEF D!Steps
<1>6. request' \in [Request -> RequestRecord] /\ ReadersSound' /\ After(r, s)
  BY <1>1, <1>2, <1>4, <1>5, WentOn DEF Creating
<1> HIDE DEF w, n
<1>7. DOMAIN record' = Name /\ record' = [m \in Name |-> record'[m]]
      /\ \A m \in Name : record'[m] = record[m] \/ (s = "done" /\ m = n /\ record'[m] = w)
  BY <1>1, <1>3, <1>4 DEF D!TypeOK
<1>8. \A m \in Name : record'[m] \in RowTypes BY <1>1, <1>3, <1>7 DEF RecordsSound, RowTypes
<1>9. DatabasesTyped'
  BY <1>1, <1>2, <1>4, <1>6, <1>7, <1>8, DatabasesTypedKept DEF D!TypeOK
<1>10. Fresh' BY <1>2, <1>3, <1>5, <1>6, <1>7, FreshKept DEF Creating
<1>11. HasMade(r) /\ (database[w.host][n] = r \/ <<w.host, n>> \in collateral)
  BY <1>2 DEF HasMade, DatabasesInv, DatabasesRight, MadeStands, w, n
<1>12. MadeStands' BY <1>2, <1>5, <1>6, <1>11, MadeKept DEF w, n
<1>13. DroppedKnowingly'
  <2>1. request[r].at \notin {"drop", "erase", "halted"} BY <1>2
  <2> QED BY <1>2, <1>3, <1>5, <1>6, <1>7, <1>11, <2>1, KnowinglyKept
<1> QED BY <1>9, <1>10, <1>12, <1>13 DEF DatabasesInv, DatabasesRight

\* A creation that could not be recorded drops what it made, which nobody else has a row of.
LEMMA UndoKeeps ==
  ASSUME DatabasesInv, NEW r \in Request, D!Undo(r), removal' = removal PROVE DatabasesInv'
<1> DEFINE w == request[r].row
           n == request[r].name
<1>1. DatabasesTyped /\ D!TypeOK /\ RecordsSound BY DEF DatabasesInv, DatabasesTyped
<1>2. request[r].at = "undo" /\ UNCHANGED <<server, record, collateral>> /\ D!Go(r, "done")
  BY DEF D!Undo, D!At
<1>3. w \in Row /\ n \in Name /\ w.id = r /\ w.host \in Host
  BY <1>1, <1>2, RowsAre DEF DatabasesTyped, ReadersSound, ReaderSound, Creating
<1>4. /\ faults' \in Nat
      /\ \/ UNCHANGED <<database, account>>
         \/ D!DropDatabase(w.host, n) /\ D!DropAccount(w.host, n)
  BY <1>1, Faulted DEF D!Undo, D!TypeOK
<1>5. request' \in [Request -> RequestRecord] /\ ReadersSound' /\ After(r, "done")
  BY <1>1, <1>2, WentOn DEF Creating, D!Steps
<1> HIDE DEF w, n
<1>6. database' \in [Host -> [Name -> Request \cup {0}]]
      /\ \A g \in Host, m \in Name : database'[g][m] = database[g][m] \/ (g = w.host /\ m = n)
  BY <1>1, <1>3, <1>4, Dropped DEF D!TypeOK
<1>7. account' \in [Host -> [Account -> Request \cup {0}]]
  BY <1>1, <1>3, <1>4, Dropped DEF D!TypeOK
<1>8. DatabasesTyped'
  BY <1>1, <1>2, <1>4, <1>5, <1>6, <1>7, DatabasesTypedKept DEF D!TypeOK, RecordsSound
<1>9. Fresh' BY <1>2, <1>5, FreshKept DEF Creating, D!Steps
<1>10. database[w.host][n] = r \/ <<w.host, n>> \in collateral
  BY <1>2 DEF HasMade, DatabasesInv, DatabasesRight, MadeStands, w, n
<1>11. MadeStands'
  <2>1. ~HasMade(r)' BY <1>5 DEF HasMade, After
  <2>2. \A g \in Host, m \in Name :
           \/ database'[g][m] = database[g][m]
           \/ \A q \in Request \ {r} : database[g][m] # q
           \/ <<g, m>> \in collateral'
    BY <1>2, <1>6, <1>10
  <2> QED BY <1>2, <1>5, <2>1, <2>2, MadeKept DEF D!Steps
<1>12. DroppedKnowingly'
  <2>1. \A m \in Name : record[m].id # r
    BY <1>2 DEF DatabasesInv, DatabasesRight, Fresh, Creating
  <2>2. ASSUME NEW m \in Name, record[m] # D!NoRecord PROVE record[m].host \in Host
    BY <1>1, <2>2, RowsAre DEF RecordsSound, RowTypes
  <2>3. request[r].at \notin {"drop", "erase", "halted"} BY <1>2
  <2>4. \A m \in Name : record'[m] # D!NoRecord =>
           \/ database'[record[m].host][m] = record[m].id
           \/ database[record[m].host][m] # record[m].id
           \/ <<record[m].host, m>> \in collateral'
    BY <1>2, <1>6, <1>10, <2>1, <2>2
  <2> QED BY <1>2, <1>5, <2>3, <2>4, KnowinglyKept DEF D!Steps
<1> QED BY <1>8, <1>9, <1>11, <1>12 DEF DatabasesInv, DatabasesRight

\* A rotation changes a password, on the host and in the very row it read.
LEMMA RotationKeeps ==
  ASSUME DatabasesInv, NEW r \in Request, D!Reset(r) \/ D!Save(r), removal' = removal PROVE DatabasesInv'
<1> DEFINE w == request[r].row
           n == request[r].name
<1>1. DatabasesTyped /\ D!TypeOK /\ RecordsSound BY DEF DatabasesInv, DatabasesTyped
<1>2. request[r].at \in {"reset", "save"} /\ UNCHANGED <<server, database, collateral>>
  BY DEF D!Reset, D!Save, D!At
<1>3. w \in Row /\ n \in Name /\ w.id # 0 /\ w.host \in Host
  BY <1>1, <1>2, RowsAre DEF DatabasesTyped, ReadersSound, ReaderSound
<1>4. PICK s \in {"done", "save"} : D!Go(r, s)
  BY DEF D!Reset, D!Save
<1>5. faults' \in Nat BY <1>1, Faulted DEF D!Reset, D!Save, D!TypeOK
<1>6. request' \in [Request -> RequestRecord] /\ ReadersSound' /\ After(r, s) /\ s \in D!Steps
  BY <1>1, <1>2, <1>4, WentOn DEF Creating, D!Steps
<1>7. account' \in [Host -> [Account -> Request \cup {0}]]
  <2>1. Cut[n] \in Account BY <1>3, ScenesAssumption DEF ScenesAssumption, D!DatabasesAssumption
  <2>2. [account EXCEPT ![w.host][Cut[n]] = r] \in [Host -> [Account -> Request \cup {0}]]
    BY <1>1, <1>3, <2>1, Cell DEF D!TypeOK
  <2> QED BY <1>1, <2>2 DEF D!Reset, D!Save, D!TypeOK
<1> HIDE DEF w, n
<1>8. DOMAIN record' = Name /\ record' = [m \in Name |-> record'[m]]
      /\ \A m \in Name : \/ record'[m] = record[m]
                         \/ record[m].id = w.id /\ record'[m] = [record[m] EXCEPT !.password = r]
  <2>1. CASE record' = record BY <1>1, <2>1 DEF D!TypeOK
  <2>2. CASE record' # record
    <3>1. record' = [record EXCEPT ![n].password = IF record[n].id = w.id THEN r ELSE @]
      BY <2>2 DEF D!Reset, D!Save, w, n
    <3>2. record[n] \in AnyRow BY <1>1, <1>3 DEF D!TypeOK, AnyRow
    <3>3. record'[n] = record[n] \/ (record[n].id = w.id /\ record'[n] = [record[n] EXCEPT !.password = r])
      BY <1>1, <1>3, <3>1, <3>2 DEF D!TypeOK, AnyRow
    <3>4. \A m \in Name \ {n} : record'[m] = record[m] BY <1>1, <3>1 DEF D!TypeOK
    <3>5. DOMAIN record' = Name /\ record' = [m \in Name |-> record'[m]] BY <1>1, <3>1 DEF D!TypeOK
    <3> QED BY <3>3, <3>4, <3>5
  <2> QED BY <2>1, <2>2
<1>9. \A m \in Name : /\ record'[m] \in RowTypes
                      /\ record'[m].id = record[m].id /\ record'[m].host = record[m].host
                      /\ record'[m] # D!NoRecord => record[m] # D!NoRecord
  <2> SUFFICES ASSUME NEW m \in Name, record[m].id = w.id, record'[m] = [record[m] EXCEPT !.password = r]
               PROVE  /\ record'[m] \in RowTypes /\ record[m] # D!NoRecord
                      /\ record'[m].id = record[m].id /\ record'[m].host = record[m].host
    BY <1>1, <1>8 DEF RecordsSound
  <2>1. record[m] # D!NoRecord BY <1>3, RowsAre
  <2>2. record[m] \in Row BY <1>1, <2>1 DEF RecordsSound, RowTypes
  <2>3. record'[m] \in Row /\ record'[m].id = record[m].id /\ record'[m].host = record[m].host
    BY <2>2 DEF Row
  <2> QED BY <2>1, <2>3 DEF RowTypes
<1>10. DatabasesTyped'
  BY <1>1, <1>2, <1>5, <1>6, <1>7, <1>8, <1>9, DatabasesTypedKept DEF D!TypeOK
<1>11. Fresh' BY <1>2, <1>4, <1>6, <1>9, FreshKept DEF Creating
<1>12. MadeStands'
  <2>1. ~HasMade(r)' BY <1>6, <1>4 DEF HasMade, After
  <2> QED BY <1>2, <1>6, <2>1, MadeKept
<1>13. DroppedKnowingly'
  <2>1. request[r].at \notin {"drop", "erase", "halted"} BY <1>2
  <2>2. \A m \in Name : \/ database'[record[m].host][m] = record[m].id
                        \/ database[record[m].host][m] # record[m].id
    BY <1>2
  <2> QED BY <1>2, <1>6, <1>9, <2>1, <2>2, KnowinglyKept
<1> QED BY <1>10, <1>11, <1>12, <1>13 DEF DatabasesInv, DatabasesRight

\* A row that is dropped loses its database to one who read it; whatever else has the name
\* by now is remembered (destroy of database-host.service.ts).
LEMMA DestroyKeeps ==
  ASSUME DatabasesInv, NEW r \in Request, D!Destroy(r) \/ D!DestroyFails(r), removal' = removal PROVE DatabasesInv'
<1> DEFINE w == request[r].row
           n == request[r].name
<1>1. DatabasesTyped /\ D!TypeOK /\ RecordsSound BY DEF DatabasesInv, DatabasesTyped
<1>2. request[r].at \in {"destroy", "drop"} /\ UNCHANGED <<server, record>>
  BY DEF D!Destroy, D!DestroyFails, D!At
<1>3. w \in Row /\ n \in Name /\ w.id # 0 /\ w.id \in Request /\ w.host \in Host
  BY <1>1, <1>2, RowsAre DEF DatabasesTyped, ReadersSound, ReaderSound
<1>4. PICK s \in {"done", "drop", "erase", "halted"} :
        /\ D!Go(r, s)
        /\ s = "done" => request[r].at = "destroy" /\ UNCHANGED <<database, collateral>>
        /\ \/ UNCHANGED <<database, collateral>>
           \/ D!DropDatabase(w.host, n) /\ D!NoteStale(w.host, n, w.id)
        /\ account' = account \/ D!DropAccount(w.host, n)
        /\ faults' \in Nat
  <2>1. CASE D!DestroyFails(r)
    BY <1>1, <2>1, Faulted DEF D!DestroyFails, D!At
  <2>2. CASE D!Destroy(r)
    BY <1>1, <2>2 DEF D!Destroy, D!At, D!TypeOK
  <2> QED BY <2>1, <2>2
<1>5. request' \in [Request -> RequestRecord] /\ ReadersSound' /\ After(r, s) /\ s \in D!Steps
  BY <1>1, <1>2, <1>4, WentOn DEF Creating, D!Steps
<1> HIDE DEF w, n
<1>6. /\ database' \in [Host -> [Name -> Request \cup {0}]]
      /\ \A g \in Host, m \in Name :
           \/ database'[g][m] = database[g][m]
           \/ g = w.host /\ m = n /\ database[g][m] = w.id /\ s # "done"
           \/ <<g, m>> \in collateral'
  <2>1. CASE UNCHANGED <<database, collateral>> BY <1>1, <2>1 DEF D!TypeOK
  <2>2. CASE ~UNCHANGED <<database, collateral>>
    <3>1. D!DropDatabase(w.host, n) /\ D!NoteStale(w.host, n, w.id) /\ s # "done" BY <1>4, <2>2
    <3>2. /\ database' \in [Host -> [Name -> Request \cup {0}]]
          /\ \A g \in Host, m \in Name : database'[g][m] = IF g = w.host /\ m = n THEN 0 ELSE database[g][m]
      BY <1>1, <1>3, <3>1, Dropped
    <3>3. database[w.host][n] \in {0, w.id} \/ <<w.host, n>> \in collateral' BY <3>1 DEF D!NoteStale
    <3> QED BY <3>1, <3>2, <3>3
  <2> QED BY <2>1, <2>2
<1>7. collateral \subseteq collateral' /\ collateral' \subseteq Host \X Name
  BY <1>1, <1>3, <1>4 DEF D!NoteStale, D!TypeOK
<1>8. account' \in [Host -> [Account -> Request \cup {0}]]
  BY <1>1, <1>3, <1>4, Dropped DEF D!TypeOK
<1>9. DatabasesTyped'
  BY <1>1, <1>2, <1>4, <1>5, <1>6, <1>7, <1>8, DatabasesTypedKept DEF D!TypeOK, RecordsSound
<1>10. Fresh' BY <1>2, <1>4, <1>5, FreshKept DEF Creating
<1>11. MadeStands'
  <2>1. ~HasMade(r)' BY <1>4, <1>5 DEF HasMade, After
  <2>2. ASSUME NEW q \in Request \ {r}, HasMade(q) PROVE w.id # q
    <3>1. request[q].at \in Creating BY <2>2 DEF HasMade, Creating
    <3> QED BY <3>1 DEF w, DatabasesInv, DatabasesRight, Fresh
  <2>3. \A g \in Host, m \in Name :
           \/ database'[g][m] = database[g][m]
           \/ \A q \in Request \ {r} : HasMade(q) => database[g][m] # q
           \/ <<g, m>> \in collateral'
    BY <1>6, <2>2
  <2> QED BY <1>5, <1>7, <2>1, <2>3, MadeKept
<1>12. DroppedKnowingly'
  <2> SUFFICES ASSUME NEW m \in Name, record[m] # D!NoRecord
               PROVE  /\ s \in {"drop", "erase", "halted"} \/ request[r].at \notin {"drop", "erase", "halted"}
                      /\ \/ database'[record[m].host][m] = record[m].id
                         \/ database[record[m].host][m] # record[m].id
                         \/ <<record[m].host, m>> \in collateral'
                         \/ /\ n = m /\ w.host = record[m].host
                            /\ w.id = record[m].id /\ s \in {"drop", "erase", "halted"}
    BY <1>2, <1>5, <1>7, KnowinglyKept DEF w, n
  <2>1. s \in {"drop", "erase", "halted"} \/ request[r].at \notin {"drop", "erase", "halted"} BY <1>4
  <2>2. record[m].host \in Host BY <1>1, RowsAre DEF RecordsSound, RowTypes
  <2> QED BY <1>4, <1>6, <2>1, <2>2
<1> QED BY <1>9, <1>10, <1>11, <1>12 DEF DatabasesInv, DatabasesRight

\* What is erased is the row that was read, and no later one.
LEMMA EraseKeeps ==
  ASSUME DatabasesInv, NEW r \in Request, D!Erase(r), removal' = removal PROVE DatabasesInv'
<1> DEFINE w == request[r].row
           n == request[r].name
<1>1. DatabasesTyped /\ D!TypeOK /\ RecordsSound BY DEF DatabasesInv, DatabasesTyped
<1>2. request[r].at = "erase" /\ UNCHANGED <<server, database, account, collateral>>
  BY DEF D!Erase, D!At
<1>3. w \in Row /\ n \in Name /\ w.id # 0
  BY <1>1, <1>2, RowsAre DEF DatabasesTyped, ReadersSound, ReaderSound
<1>4. PICK s \in {"done", "halted"} :
        /\ D!Go(r, s)
        /\ s = "done" => record' = D!Erased(n, w.id)
        /\ s = "halted" => record' = record
        /\ faults' \in Nat
  BY <1>1, Faulted DEF D!Erase, D!TypeOK
<1>5. request' \in [Request -> RequestRecord] /\ ReadersSound' /\ After(r, s) /\ s \in D!Steps
  BY <1>1, <1>2, <1>4, WentOn DEF Creating, D!Steps
<1> HIDE DEF w, n
<1>6. /\ DOMAIN record' = Name /\ record' = [m \in Name |-> record'[m]]
      /\ \A m \in Name : record'[m] \in {record[m], D!NoRecord}
      /\ s = "done" => record'[n] = D!NoRecord \/ record[n].id # w.id
  BY <1>1, <1>3, <1>4 DEF D!TypeOK, D!Erased
<1>7. DatabasesTyped'
  BY <1>1, <1>2, <1>4, <1>5, <1>6, DatabasesTypedKept DEF D!TypeOK, RecordsSound, RowTypes
<1>8. Fresh' BY <1>2, <1>4, <1>5, <1>6, RowsAre, FreshKept DEF Creating
<1>9. MadeStands'
  <2>1. ~HasMade(r)' BY <1>4, <1>5 DEF HasMade, After
  <2> QED BY <1>2, <1>5, <2>1, MadeKept
<1>10. DroppedKnowingly'
  <2>1. \A m \in Name : record'[m] # D!NoRecord =>
          record'[m] = record[m] /\ (s = "halted" \/ w.id # record[m].id \/ n # m)
    BY <1>4, <1>6
  <2>2. \A m \in Name : \/ database'[record[m].host][m] = record[m].id
                        \/ database[record[m].host][m] # record[m].id
    BY <1>2
  <2> QED BY <1>2, <1>5, <2>1, <2>2, KnowinglyKept DEF w, n
<1> QED BY <1>7, <1>8, <1>9, <1>10 DEF DatabasesInv, DatabasesRight

\* Every step of the databases keeps their invariant.
LEMMA DatabasesStep == ASSUME DatabasesInv, D!Next, removal' = removal PROVE DatabasesInv'
<1>1. ASSUME NEW r \in Request, NEW n \in Name, NEW h \in Host, D!RequestCreate(r, n, h) PROVE DatabasesInv'
  <2>1. [id |-> r, host |-> h, password |-> r] \in Row BY DEF Row
  <2> QED BY <1>1, <2>1, BeginKeeps DEF D!RequestCreate, D!Steps
<1>2. ASSUME NEW r \in Request, NEW n \in Name, D!RequestRotate(r, n) \/ D!RequestDrop(r, n) PROVE DatabasesInv'
  <2>1. record[n] \in Row
    BY <1>2 DEF D!RequestRotate, D!RequestDrop, D!Recorded, DatabasesInv, DatabasesTyped, RecordsSound, RowTypes
  <2> QED BY <1>2, <2>1, BeginKeeps DEF D!RequestRotate, D!RequestDrop, D!Steps
<1>3. ASSUME NEW r \in Request, D!RequestStep(r) PROVE DatabasesInv'
  BY <1>3, ProvisionKeeps, RecordKeeps, UndoKeeps, RotationKeeps, DestroyKeeps, EraseKeeps DEF D!RequestStep
<1> QED BY <1>1, <1>2, <1>3 DEF D!Next

-----------------------------------------------------------------------------
(***************************************************************************)
(* The removal, beside both.                                               *)
(***************************************************************************)
\* What is as it was for the backups, whether or not the server's row is there.
LEMMA BackupsStill ==
  ASSUME BackupsInv, UNCHANGED backupPart, server' \in BOOLEAN PROVE BackupsInv'
<1>1. UNCHANGED <<row, store, files, job, deletion, prune, mishaps, calls>> BY DEF backupPart
<1>2. B!TypeOK' BY <1>1 DEF BackupsInv, BackupsTyped, B!TypeOK
<1>3. JobsSound' /\ SumsOfWhole' /\ PassesSound'
  BY <1>1 DEF BackupsInv, BackupsTyped, JobsSound, SumsOfWhole, PassesSound
<1>4. BackupsRight' BY <1>1, RowsKeep DEF BackupsInv, BackupsTyped
<1> QED BY <1>2, <1>3, <1>4 DEF BackupsInv, BackupsTyped

\* And for the databases, whatever the removal has listed, as long as it is recorded.
LEMMA DatabasesStill ==
  ASSUME DatabasesInv, UNCHANGED <<record, database, account, request, collateral>>,
         server' \in BOOLEAN, faults' \in Nat,
         Removing("databases")' => \/ Removing("databases") /\ removal'.rows = removal.rows
                                   \/ removal'.rows = record
  PROVE  DatabasesInv'
<1>1. D!TypeOK' BY DEF DatabasesInv, DatabasesTyped, D!TypeOK
<1>2. RecordsSound' /\ ReadersSound' BY DEF DatabasesInv, DatabasesTyped, RecordsSound, ReadersSound
<1>3. Fresh' BY DEF DatabasesInv, DatabasesRight, Fresh
<1>4. MadeStands' /\ DroppedKnowingly'
  BY DEF DatabasesInv, DatabasesRight, MadeStands, HasMade, DroppedKnowingly, D!Recorded, D!NoRecord
<1> QED BY <1>1, <1>2, <1>3, <1>4 DEF DatabasesInv, DatabasesTyped, DatabasesRight

\* What the removal drops of the rows it listed.
LEMMA ListedKeeps ==
  ASSUME DatabasesInv, RemovalInv, NEW n \in Name, DropListed(n) PROVE DatabasesInv'
<1> DEFINE w == removal.rows[n]
<1>1. DatabasesTyped /\ D!TypeOK /\ RecordsSound /\ ReadersSound BY DEF DatabasesInv, DatabasesTyped
<1>2. Removing("databases") /\ removal'.rows = removal.rows
  <2>1. PICK T, S : removal' = [removal EXCEPT !.todo = T, !.stranded = S] BY DEF DropListed
  <2>2. removal \in RemovalRecord BY DEF RemovalInv, RemovalType
  <2>3. removal'.rows = removal.rows BY <2>1, <2>2 DEF RemovalRecord
  <2> QED BY <2>3 DEF DropListed
<1>3. w \in Row /\ w.id # 0 /\ w.id \in Request /\ w.host \in Host
  <2>1. w \in Row BY <1>2 DEF DropListed, RemovalInv, RemovalType
  <2> QED BY <2>1, RowsAre
<1>4. UNCHANGED <<server, request>> /\ faults' \in Nat
  BY <1>1, Faulted DEF DropListed, D!TypeOK
<1>5. \/ D!DropDatabase(w.host, n) /\ D!NoteStale(w.host, n, w.id) /\ D!DropAccount(w.host, n) /\ record' = D!Erased(n, w.id)
      \/ UNCHANGED <<record, account, database, collateral>>
      \/ /\ D!DropDatabase(w.host, n) /\ collateral' = collateral \cup {<<w.host, n>>}
         /\ UNCHANGED <<record, account>>
  BY DEF DropListed
<1> HIDE DEF w
<1>6. /\ database' \in [Host -> [Name -> Request \cup {0}]] /\ account' \in [Host -> [Account -> Request \cup {0}]]
      /\ collateral \subseteq collateral' /\ collateral' \subseteq Host \X Name
  BY <1>1, <1>3, <1>5, Dropped DEF D!TypeOK, D!NoteStale
<1>7. /\ DOMAIN record' = Name /\ record' = [m \in Name |-> record'[m]]
      /\ \A m \in Name : record'[m] \in {record[m], D!NoRecord}
  BY <1>1, <1>5 DEF D!TypeOK, D!Erased
<1>8. \A g \in Host, m \in Name :
        \/ database'[g][m] = database[g][m]
        \/ g = w.host /\ m = n /\ database[g][m] = w.id /\ (record[n].id = w.id => record'[n] = D!NoRecord)
        \/ <<g, m>> \in collateral'
  <2>1. CASE D!DropDatabase(w.host, n) /\ D!NoteStale(w.host, n, w.id) /\ record' = D!Erased(n, w.id)
    <3>1. \A g \in Host, m \in Name : database'[g][m] = IF g = w.host /\ m = n THEN 0 ELSE database[g][m]
      BY <1>1, <1>3, <2>1, Dropped
    <3>2. database[w.host][n] \in {0, w.id} \/ <<w.host, n>> \in collateral' BY <2>1 DEF D!NoteStale
    <3>3. record[n].id = w.id => record'[n] = D!NoRecord BY <1>1, <2>1 DEF D!Erased, D!TypeOK
    <3> QED BY <3>1, <3>2, <3>3
  <2>2. CASE UNCHANGED <<record, account, database, collateral>> BY <2>2
  <2>3. CASE D!DropDatabase(w.host, n) /\ collateral' = collateral \cup {<<w.host, n>>}
    BY <1>1, <1>3, <2>3, Dropped
  <2> QED BY <1>5, <2>1, <2>2, <2>3
<1>9. DatabasesTyped'
  <2>1. request' \in [Request -> RequestRecord] /\ ReadersSound'
    BY <1>1, <1>4 DEF D!TypeOK, RequestRecord, AnyRow, ReadersSound
  <2> QED BY <1>1, <1>4, <1>6, <1>7, <2>1, DatabasesTypedKept DEF RecordsSound, RowTypes
<1>10. \A q \in Request : q # 0 BY RowsAre
<1>11. Fresh' BY <1>2, <1>4, <1>7, <1>10, RowsAre DEF DatabasesInv, DatabasesRight, Fresh
<1>12. MadeStands'
  <2> SUFFICES ASSUME NEW q \in Request, HasMade(q)
               PROVE  \/ database'[request[q].row.host][request[q].name] = q
                      \/ <<request[q].row.host, request[q].name>> \in collateral'
    BY <1>4 DEF MadeStands, HasMade
  <2>1. request[q].row.host \in Host /\ request[q].name \in Name
    <3>1. request[q].row \in Row /\ request[q].name \in Name
      BY <1>1 DEF ReadersSound, ReaderSound, HasMade
    <3> QED BY <3>1, RowsAre
  <2>2. w.id # q
    <3>1. request[q].at \in Creating BY DEF HasMade, Creating
    <3> QED BY <1>2, <3>1 DEF w, DatabasesInv, DatabasesRight, Fresh
  <2> QED BY <1>6, <1>8, <2>1, <2>2 DEF DatabasesInv, DatabasesRight, MadeStands
<1>13. DroppedKnowingly'
  <2> SUFFICES ASSUME NEW m \in Name, record'[m] # D!NoRecord, record'[m] = record[m],
                      database'[record[m].host][m] # record[m].id
               PROVE  \/ <<record[m].host, m>> \in collateral'
                      \/ \E r \in Request : /\ request[r].name = m /\ request[r].row.host = record[m].host
                                            /\ request[r].row.id = record[m].id
                                            /\ request[r].at \in {"drop", "erase", "halted"}
    BY <1>4, <1>7 DEF DroppedKnowingly, D!Recorded, D!NoRecord
  <2>1. record[m].host \in Host BY <1>1, RowsAre DEF RecordsSound, RowTypes
  <2>2. CASE database[record[m].host][m] # record[m].id
    BY <1>6, <2>2 DEF DatabasesInv, DatabasesRight, DroppedKnowingly, D!Recorded
  <2>3. CASE database[record[m].host][m] = record[m].id
    BY <1>8, <2>1, <2>3
  <2> QED BY <2>2, <2>3
<1> QED BY <1>9, <1>11, <1>12, <1>13 DEF DatabasesInv, DatabasesRight

\* The last write of the removal takes every row.
LEMMA CascadeKeeps ==
  ASSUME BackupsInv, DatabasesInv, RemovalInv, Cascade PROVE BackupsInv' /\ DatabasesInv'
<1>1. /\ server' = FALSE /\ row' = [b \in Backup |-> B!NoRow] /\ record' = [n \in Name |-> D!NoRecord]
      /\ removal'.at = "gone"
      /\ UNCHANGED <<store, files, job, deletion, prune, mishaps, calls, database, account, request, faults, collateral>>
  BY DEF Cascade, RemovalInv, RemovalType
<1>2. BackupsInv'
  <2>1. B!NoRow.sum \in Sums /\ B!NoRow.status \notin Claimed BY DEF B!NoRow, Sums, Claimed
  <2>2. B!TypeOK' BY <1>1 DEF BackupsInv, BackupsTyped, B!TypeOK
  <2>3. JobsSound' /\ SumsOfWhole' /\ PassesSound'
    BY <1>1, <2>1 DEF BackupsInv, BackupsTyped, JobsSound, SumsOfWhole, PassesSound
  <2>4. BackupsRight' BY <1>1, <2>1, RowsKeep DEF BackupsInv, BackupsTyped
  <2> QED BY <2>2, <2>3, <2>4 DEF BackupsInv, BackupsTyped
<1>3. DatabasesInv'
  <2>1. \A n \in Name : record'[n] = D!NoRecord BY <1>1
  <2>2. D!TypeOK' BY <1>1, RowsAre DEF DatabasesInv, DatabasesTyped, D!TypeOK, RowTypes, AnyRow
  <2>3. RecordsSound' /\ ReadersSound'
    BY <1>1, <2>1 DEF DatabasesInv, DatabasesTyped, RecordsSound, ReadersSound, RowTypes
  <2>4. Fresh' BY <1>1, <2>1, RowsAre DEF DatabasesInv, DatabasesRight, Fresh, Removing
  <2>5. MadeStands' BY <1>1 DEF DatabasesInv, DatabasesRight, MadeStands, HasMade
  <2>6. DroppedKnowingly' BY <2>1 DEF DroppedKnowingly, D!Recorded, D!NoRecord
  <2> QED BY <2>2, <2>3, <2>4, <2>5, <2>6 DEF DatabasesInv, DatabasesTyped, DatabasesRight
<1> QED BY <1>2, <1>3

\* Archives that the removal has the node or a bucket take are remembered.
LEMMA TakersKeep ==
  ASSUME BackupsInv, server' = server, UNCHANGED <<row, job, deletion, prune, calls>>,
         files' \in {files, "gone"},
         \/ UNCHANGED <<store, mishaps>>
         \/ NodeTakesAll
         \/ \E b \in Backup : B!Remove(b)
  PROVE  BackupsInv'
<1>1. BackupsTyped /\ B!TypeOK /\ JobsSound /\ SumsOfWhole /\ PassesSound /\ BackupsRight
  BY DEF BackupsInv, BackupsTyped
<1>2. /\ mishaps \subseteq mishaps' /\ mishaps' \subseteq Backup \X B!Mishaps
      /\ store' \in [Backup -> B!Archive]
      /\ \A b \in Backup : store'[b] = store[b] \/ MarkedIn(mishaps', b)
  <2>1. CASE UNCHANGED <<store, mishaps>> BY <1>1, <2>1 DEF B!TypeOK
  <2>2. CASE NodeTakesAll BY <1>1, <2>2 DEF B!TypeOK, NodeTakesAll, B!Archive, B!Mishaps, MarkedIn
  <2>3. ASSUME NEW b \in Backup, B!Remove(b)
        PROVE  /\ mishaps \subseteq mishaps' /\ mishaps' \subseteq Backup \X B!Mishaps
               /\ store' \in [Backup -> B!Archive]
               /\ \A c \in Backup : store'[c] = store[c] \/ MarkedIn(mishaps', c)
    BY <1>1, <2>3 DEF B!TypeOK, B!Remove, B!Archive, B!Mishaps, MarkedIn
  <2> QED BY <2>1, <2>2, <2>3
<1>3. B!TypeOK' BY <1>1, <1>2 DEF B!TypeOK
<1>4. JobsSound' /\ SumsOfWhole' /\ PassesSound' BY <1>1 DEF JobsSound, SumsOfWhole, PassesSound
<1>5. BackupsRight' BY <1>1, <1>2, RemovalsKeep
<1> QED BY <1>3, <1>4, <1>5 DEF BackupsInv, BackupsTyped

\* The others leave the removal as far as it has come, or are noted.
LEMMA NotedKeeps ==
  ASSUME DatabasesInv, RemovalInv, Noted, B!TypeOK, B!TypeOK', D!TypeOK' PROVE RemovalInv'
<1>1. removal' = removal /\ asked' = asked /\ overtaken' \in BOOLEAN
  BY DEF Noted, RemovalInv, RemovalType
<1>2. RemovalType' BY <1>1 DEF RemovalInv, RemovalType, Removing
<1>3. ASSUME ~overtaken', ~Removing("idle"), ~removal.force PROVE Progress'
  <2>1. ~overtaken /\ ~Made BY <1>3 DEF Noted
  <2>2. files' = files /\ \A b \in Backup : store'[b] \in {store[b], B!NoArchive} BY <2>1 DEF Made
  <2>3. \A h \in Host, n \in Name : database'[h][n] \in {database[h][n], 0} BY <2>1 DEF Made
  <2>4. ASSUME NEW n \in Name, removal.rows[n] # D!NoRecord PROVE removal.rows[n].host \in Host
    BY <1>3, <2>4, RowsAre DEF RemovalInv, RemovalType, RowTypes
  <2>5. removal.keys \subseteq Backup BY DEF RemovalInv, RemovalType, RemovalRecord
  <2> QED BY <1>1, <1>3, <2>1, <2>2, <2>3, <2>4, <2>5 DEF RemovalInv, Progress, Removing
<1>4. CASE overtaken' \/ removal.force BY <1>1, <1>2, <1>4 DEF Progress, RemovalInv
<1>5. CASE Removing("idle") BY <1>1, <1>2, <1>5 DEF Progress, Removing, RemovalInv
<1> QED BY <1>2, <1>3, <1>4, <1>5 DEF RemovalInv

\* The removal begins with what is recorded, and goes on when what it came for is done.
LEMMA RemovalKeeps ==
  ASSUME BackupsInv, DatabasesInv, RemovalInv, RemovalStep \/ \E force \in BOOLEAN : RequestRemoval(force)
  PROVE  RemovalInv'
<1>1. removal \in RemovalRecord /\ overtaken \in BOOLEAN /\ asked \in 0 .. MaxDeletions
  BY DEF RemovalInv, RemovalType
<1>2. ASSUME NEW force \in BOOLEAN, RequestRemoval(force) PROVE RemovalInv'
  <2> DEFINE v == [at |-> "databases", force |-> force, rows |-> record,
                   todo |-> {n \in Name : D!Recorded(n)}, keys |-> {}, stranded |-> {}]
  <2>1. removal' = v /\ asked' = asked + 1 /\ asked < MaxDeletions /\ overtaken' = FALSE
    BY <1>2 DEF RequestRemoval
  <2>2. record \in [Name -> RowTypes]
    BY RowsAre DEF DatabasesInv, DatabasesTyped, D!TypeOK, RecordsSound, RowTypes
  <2>3. v \in RemovalRecord BY <2>2 DEF RemovalRecord
  <2>4. v.at = "databases" /\ v.rows = record /\ v.todo = {n \in Name : D!Recorded(n)} OBVIOUS
  <2> HIDE DEF v
  <2>5. asked' \in 0 .. MaxDeletions BY <1>1, <2>1, ScenesAssumption DEF ScenesAssumption
  <2>6. RemovalType'
    BY <2>1, <2>2, <2>3, <2>4, <2>5 DEF RemovalType, Removing, D!Recorded, RowTypes
  <2>7. Progress' BY <2>1, <2>4 DEF Progress, Removing, D!Recorded
  <2> QED BY <2>6, <2>7 DEF RemovalInv
<1>3. ASSUME NEW n \in Name, DropListed(n) PROVE RemovalInv'
  <2> DEFINE w == removal.rows[n]
  <2>1. Removing("databases") /\ n \in removal.todo /\ UNCHANGED <<asked, overtaken, files, store>>
    BY <1>3 DEF DropListed, backupPart
  <2>2. w \in Row /\ w.host \in Host
    <3>1. w \in Row BY <2>1 DEF RemovalInv, RemovalType
    <3> QED BY <3>1, RowsAre
  <2>3. PICK more \in {{}, {n}} :
          /\ removal' = [removal EXCEPT !.todo = @ \ {n}, !.stranded = @ \cup more]
          /\ more = {} => D!DropDatabase(w.host, n)
          /\ D!DropDatabase(w.host, n) \/ database' = database
    <3>1. ASSUME removal' = [removal EXCEPT !.todo = @ \ {n}, !.stranded = IF record[n].id = w.id THEN @ ELSE @ \cup {n}]
          PROVE  \E more \in {{}, {n}} : removal' = [removal EXCEPT !.todo = @ \ {n}, !.stranded = @ \cup more]
      <4>1. CASE record[n].id = w.id
        <5>1. removal' = [removal EXCEPT !.todo = @ \ {n}, !.stranded = @ \cup {}]
          BY <1>1, <3>1, <4>1 DEF RemovalRecord
        <5> QED BY <5>1
      <4>2. CASE record[n].id # w.id BY <1>1, <3>1, <4>2 DEF RemovalRecord
      <4> QED BY <4>1, <4>2
    <3> QED BY <1>3, <3>1 DEF DropListed
  <2>4. /\ removal' \in RemovalRecord
        /\ removal'.at = "databases" /\ removal'.force = removal.force /\ removal'.rows = removal.rows
        /\ removal'.todo = removal.todo \ {n} /\ removal'.stranded = removal.stranded \cup more
        /\ removal'.keys = removal.keys
    BY <1>1, <2>1, <2>3 DEF RemovalRecord, Removing
  <2>5. RemovalType' BY <2>1, <2>4 DEF RemovalInv, RemovalType, Removing
  <2>6. \A g \in Host, m \in Name : database'[g][m] \in {database[g][m], 0}
    BY <2>2, <2>3, Dropped DEF DatabasesInv, DatabasesTyped
  <2>7. more = {} => database'[w.host][n] = 0
    BY <2>2, <2>3, Dropped DEF DatabasesInv, DatabasesTyped
  <2> HIDE DEF w
  <2>8. ASSUME ~removal.force, ~overtaken, NEW m \in Name, removal.rows[m] # D!NoRecord,
               m \notin (removal.todo \ {n}) \cup removal.stranded \cup more
        PROVE  database'[removal.rows[m].host][m] = 0
    <3>1. removal.rows[m].host \in Host
      BY <2>1, <2>8, RowsAre DEF RemovalInv, RemovalType, RowTypes, Removing
    <3>2. CASE m = n
      <4>1. more = {} BY <2>3, <2>8, <3>2
      <4> QED BY <2>7, <3>2, <4>1 DEF w
    <3>3. CASE m # n
      <4>1. database[removal.rows[m].host][m] = 0
        BY <2>1, <2>8, <3>3 DEF RemovalInv, Progress, Removing
      <4> QED BY <2>6, <3>1, <4>1
    <3> QED BY <3>2, <3>3
  <2>9. Progress' BY <2>1, <2>4, <2>8 DEF Progress, Removing
  <2> QED BY <2>5, <2>9 DEF RemovalInv
<1>4. CASE DatabasesDone
  <2>1. /\ Removing("databases") /\ removal.todo = {} /\ UNCHANGED <<asked, overtaken, database>>
        /\ removal' = IF removal.stranded # {} /\ ~removal.force THEN NoRemoval ELSE [removal EXCEPT !.at = "node"]
    BY <1>4 DEF DatabasesDone, databasePart
  <2>2. CASE removal' = NoRemoval
    BY <1>1, <2>1, <2>2 DEF RemovalInv, RemovalType, Progress, Removing, NoRemoval, RemovalRecord
  <2>3. CASE removal' # NoRemoval
    <3>1. /\ removal' \in RemovalRecord /\ removal'.at = "node" /\ removal'.force = removal.force
          /\ removal'.rows = removal.rows /\ (removal.force \/ removal.stranded = {})
      BY <1>1, <2>1, <2>3 DEF RemovalRecord
    <3>2. RemovalType' BY <2>1, <3>1 DEF RemovalInv, RemovalType, Removing
    <3>3. Progress' BY <2>1, <3>1 DEF RemovalInv, Progress, Removing
    <3> QED BY <3>2, <3>3 DEF RemovalInv
  <2> QED BY <2>2, <2>3
<1>5. CASE TakeDown
  <2>1. Removing("node") /\ UNCHANGED <<asked, overtaken, database>> BY <1>5 DEF TakeDown
  <2>2. CASE removal' = NoRemoval
    BY <1>1, <2>1, <2>2 DEF RemovalInv, RemovalType, Progress, Removing, NoRemoval, RemovalRecord
  <2>3. CASE removal' # NoRemoval
    <3>1. removal' = [removal EXCEPT !.at = "list"] /\ (removal.force \/ NodeTakesAll)
      BY <1>5, <2>3 DEF TakeDown
    <3>2. /\ removal' \in RemovalRecord /\ removal'.at = "list" /\ removal'.force = removal.force
          /\ removal'.rows = removal.rows
      BY <1>1, <3>1 DEF RemovalRecord
    <3>3. NodeTakesAll => files' = "gone" /\ \A b \in Backup \ Remote : store'[b] = B!NoArchive
      BY DEF NodeTakesAll
    <3>4. RemovalType' BY <2>1, <3>2 DEF RemovalInv, RemovalType, Removing
    <3>5. Progress' BY <2>1, <3>1, <3>2, <3>3 DEF RemovalInv, Progress, Removing
    <3> QED BY <3>4, <3>5 DEF RemovalInv
  <2> QED BY <2>2, <2>3
<1>6. CASE ListArchives
  <2>1. Removing("list") /\ UNCHANGED <<asked, overtaken, database, files, store>>
    BY <1>6 DEF ListArchives, backupPart, databasePart
  <2>2. PICK keys \in SUBSET Backup : removal' = [removal EXCEPT !.at = "archives", !.todo = keys, !.keys = keys]
    BY <1>6 DEF ListArchives
  <2>3. /\ removal' \in RemovalRecord /\ removal'.at = "archives" /\ removal'.force = removal.force
        /\ removal'.rows = removal.rows /\ removal'.todo = keys /\ removal'.keys = keys
    BY <1>1, <2>2 DEF RemovalRecord
  <2>4. RemovalType' BY <2>1, <2>3 DEF RemovalInv, RemovalType, Removing
  <2>5. Progress' BY <2>1, <2>3 DEF RemovalInv, Progress, Removing
  <2> QED BY <2>4, <2>5 DEF RemovalInv
<1>7. ASSUME NEW b \in Backup, RemoveListed(b) PROVE RemovalInv'
  <2>1. Removing("archives") /\ b \in removal.todo /\ UNCHANGED <<asked, overtaken, database, files>>
    BY <1>7 DEF RemoveListed
  <2>2. PICK more \in {{}, {b}} :
          /\ removal' = [removal EXCEPT !.todo = @ \ {b}, !.stranded = @ \cup more]
          /\ more = {} => B!Remove(b)
          /\ B!Remove(b) \/ store' = store
    <3>1. ASSUME removal' = [removal EXCEPT !.todo = @ \ {b}]
          PROVE  removal' = [removal EXCEPT !.todo = @ \ {b}, !.stranded = @ \cup {}]
      BY <1>1, <3>1 DEF RemovalRecord
    <3> QED BY <1>7, <3>1 DEF RemoveListed
  <2>3. /\ removal' \in RemovalRecord /\ removal'.at = "archives" /\ removal'.force = removal.force
        /\ removal'.rows = removal.rows /\ removal'.keys = removal.keys
        /\ removal'.todo = removal.todo \ {b} /\ removal'.stranded = removal.stranded \cup more
    BY <1>1, <2>1, <2>2 DEF RemovalRecord, Removing
  <2>4. RemovalType' BY <2>1, <2>3 DEF RemovalInv, RemovalType, Removing
  <2>5. \A c \in Backup : store'[c] \in {store[c], B!NoArchive} /\ (c = b /\ more = {} => store'[c] = B!NoArchive)
    BY <2>2 DEF B!Remove, BackupsInv, BackupsTyped, B!TypeOK
  <2>6. removal.keys \subseteq Backup BY <1>1 DEF RemovalRecord
  <2>7. Progress' BY <2>1, <2>2, <2>3, <2>5, <2>6 DEF RemovalInv, Progress, Removing
  <2> QED BY <2>4, <2>7 DEF RemovalInv
<1>8. CASE Cascade
  <2>1. /\ Removing("archives") /\ removal.todo = {} /\ removal' = [removal EXCEPT !.at = "gone"]
        /\ UNCHANGED <<asked, overtaken, database, files, store>>
    BY <1>8 DEF Cascade
  <2>2. /\ removal' \in RemovalRecord /\ removal'.at = "gone" /\ removal'.force = removal.force
        /\ removal'.rows = removal.rows /\ removal'.keys = removal.keys /\ removal'.stranded = removal.stranded
    BY <1>1, <2>1 DEF RemovalRecord
  <2>3. RemovalType' BY <2>1, <2>2 DEF RemovalInv, RemovalType, Removing
  <2>4. Progress' BY <2>1, <2>2 DEF RemovalInv, Progress, Removing
  <2> QED BY <2>3, <2>4 DEF RemovalInv
<1> QED BY <1>2, <1>3, <1>4, <1>5, <1>6, <1>7, <1>8 DEF RemovalStep

-----------------------------------------------------------------------------
(***************************************************************************)
(* The theorems. The runs bound how many calls, faults and deletions there are,  *)
(* and take a scene; here there are any number, and every scene is one of them.   *)
(***************************************************************************)
Bounds == calls \in [B!Kinds -> Nat] /\ faults \in Nat

\* A server with some backups behind it satisfies the invariant.
LEMMA DeletionStart == Init /\ Bounds => DeletionInv
<1> SUFFICES ASSUME Init, Bounds PROVE DeletionInv
  OBVIOUS
<1>1. B!Init /\ D!Init /\ removal = NoRemoval /\ asked \in 0 .. MaxDeletions /\ overtaken = FALSE BY DEF Init
<1>2. B!Kept \subseteq B!Rows
      /\ \A w \in B!Kept \cup {B!NoRow} : w.sum \in {B!NoArchive, B!First}
  <2>1. {B!NoArchive, B!First} \subseteq B!Archive BY DEF B!Archive, B!Whole
  <2>2. B!Kept \subseteq B!Rows BY <2>1 DEF B!Kept, B!Rows, B!Status
  <2>3. \A w \in B!Kept : w.sum \in {B!NoArchive, B!First} BY DEF B!Kept
  <2>4. B!NoRow.sum = B!NoArchive BY DEF B!NoRow
  <2> QED BY <2>2, <2>3, <2>4
<1>3. /\ row \in [Backup -> B!Kept \cup {B!NoRow}]
      /\ \A b \in Backup : store[b] = IF B!Exists(b) THEN B!First ELSE B!NoArchive
      /\ \A j \in B!Jobs : job[j] = B!Free
  BY <1>1 DEF B!Init
<1>4. BackupsTyped
  <2>1. row \in [Backup -> B!Rows \cup {B!NoRow}] BY <1>2, <1>3
  <2>2. job \in [B!Jobs -> JobRecord] BY <1>1, FreeTyped DEF B!Init
  <2>3. store \in [Backup -> B!Archive] BY <1>1 DEF B!Init, B!Archive, B!Whole
  <2>4. B!NoDeletion \in [at : {"idle", "mark", "remove", "drop"}, of : Backup \cup {NoBackup}, key : BOOLEAN]
        /\ B!NoPrune \in [at : {"idle", "remove", "drop"}, of : Backup \cup {NoBackup}, todo : SUBSET Backup]
    BY DEF B!NoDeletion, B!NoPrune
  <2>5. B!TypeOK BY <1>1, <2>1, <2>2, <2>3, <2>4 DEF B!Init, B!TypeOK, JobRecord, Bounds
  <2>6. JobsSound BY <1>3, FreeTyped DEF JobsSound
  <2>7. SumsOfWhole BY <1>2, <1>3 DEF SumsOfWhole, Sums, B!Whole
  <2>8. PassesSound BY <1>1 DEF B!Init, PassesSound, B!NoDeletion, B!NoPrune
  <2> QED BY <2>5, <2>6, <2>7, <2>8 DEF BackupsTyped
<1>5. BackupsRight
  <2>1. OneMaker /\ UnclaimedMeanwhile /\ MadeThis
    BY <1>3, FreeTyped DEF OneMaker, UnclaimedMeanwhile, MadeThis, B!Free
  <2>2. ASSUME NEW b \in Backup, row[b].status \in Claimed
        PROVE  store[b] \in B!Whole /\ row[b].sum \in {B!NoArchive, store[b]}
    <3>1. B!Exists(b) BY <2>2 DEF B!Exists, B!NoRow, Claimed
    <3> QED BY <1>2, <1>3, <3>1 DEF B!Whole
  <2>3. ClaimedIsWhole BY <2>2 DEF ClaimedIsWhole
  <2> QED BY <2>1, <2>3 DEF BackupsRight
<1>6. /\ \A n \in Name : record[n] = D!NoRecord
      /\ \A r \in Request : request[r] \in {D!NewRequest, D!NeverAsked}
  BY <1>1 DEF D!Init
<1>7. /\ D!NewRequest \in RequestRecord /\ D!NeverAsked \in RequestRecord
      /\ D!NewRequest.at = "new" /\ D!NeverAsked.at = "done"
      /\ D!NewRequest.row = D!NoRecord /\ D!NeverAsked.row = D!NoRecord
  BY RowsAre DEF D!NewRequest, D!NeverAsked, RequestRecord, RowTypes, D!Steps
<1>8. DatabasesTyped
  <2>1. request \in [Request -> RequestRecord] BY <1>1, <1>7 DEF D!Init
  <2>2. record \in [Name -> AnyRow] BY <1>1, RowsAre DEF D!Init, RowTypes
  <2>3. D!TypeOK BY <1>1, <2>1, <2>2 DEF D!Init, D!TypeOK, RequestRecord, AnyRow, Bounds
  <2>4. RecordsSound BY <1>6 DEF RecordsSound, RowTypes
  <2>5. ReadersSound BY <1>6, <1>7 DEF ReadersSound, ReaderSound, RowTypes, Creating
  <2> QED BY <2>3, <2>4, <2>5 DEF DatabasesTyped
<1>9. DatabasesRight
  <2>1. Fresh BY <1>1, <1>6, <1>7, RowsAre DEF Fresh, Removing, NoRemoval
  <2>2. MadeStands BY <1>6, <1>7 DEF MadeStands, HasMade
  <2>3. DroppedKnowingly BY <1>6 DEF DroppedKnowingly, D!Recorded
  <2> QED BY <2>1, <2>2, <2>3 DEF DatabasesRight
<1>10. RemovalInv
  <2>1. NoRemoval \in RemovalRecord BY DEF NoRemoval, RemovalRecord
  <2> QED BY <1>1, <2>1 DEF RemovalInv, RemovalType, Progress, Removing, NoRemoval
<1> QED BY <1>4, <1>5, <1>8, <1>9, <1>10 DEF DeletionInv, BackupsInv, DatabasesInv

\* Every step keeps it: of a job, of a request, of the removal.
LEMMA DeletionStep == DeletionInv /\ [Next]_vars => DeletionInv'
<1> SUFFICES ASSUME DeletionInv, [Next]_vars PROVE DeletionInv'
  OBVIOUS
<1>1. BackupsInv /\ DatabasesInv /\ RemovalInv BY DEF DeletionInv
<1>2. B!TypeOK /\ D!TypeOK BY <1>1 DEF BackupsInv, BackupsTyped, DatabasesInv, DatabasesTyped
<1>3. server \in BOOLEAN /\ faults \in Nat BY <1>2 DEF D!TypeOK
<1>4. CASE B!Next /\ UNCHANGED databasePart /\ Noted
  <2>1. BackupsInv' BY <1>1, <1>4, BackupsStep
  <2>2. server' \in BOOLEAN BY <2>1 DEF BackupsInv, BackupsTyped, B!TypeOK
  <2>3. removal' = removal BY <1>4 DEF Noted
  <2>4. DatabasesInv' BY <1>1, <1>3, <1>4, <2>2, <2>3, DatabasesStill DEF databasePart, Removing
  <2>5. RemovalInv' BY <1>1, <1>2, <1>4, <2>1, <2>4, NotedKeeps DEF BackupsInv, BackupsTyped, DatabasesInv, DatabasesTyped
  <2> QED BY <2>1, <2>4, <2>5 DEF DeletionInv
<1>5. CASE D!Next /\ UNCHANGED backupPart /\ Noted
  <2>1. removal' = removal BY <1>5 DEF Noted
  <2>2. DatabasesInv' BY <1>1, <1>5, <2>1, DatabasesStep
  <2>3. server' \in BOOLEAN BY <2>2 DEF DatabasesInv, DatabasesTyped, D!TypeOK
  <2>4. BackupsInv' BY <1>1, <1>5, <2>3, BackupsStill
  <2>5. RemovalInv' BY <1>1, <1>2, <1>5, <2>2, <2>4, NotedKeeps DEF BackupsInv, BackupsTyped, DatabasesInv, DatabasesTyped
  <2> QED BY <2>2, <2>4, <2>5 DEF DeletionInv
<1>6. CASE RemovalStep \/ \E force \in BOOLEAN : RequestRemoval(force)
  <2>1. RemovalInv' BY <1>1, <1>6, RemovalKeeps
  <2>2. ASSUME NEW force \in BOOLEAN, RequestRemoval(force) PROVE BackupsInv' /\ DatabasesInv'
    <3>1. UNCHANGED <<server, backupPart, databasePart>> /\ removal'.rows = record
      BY <2>2 DEF RequestRemoval
    <3> QED BY <1>1, <1>3, <3>1, BackupsStill, DatabasesStill DEF databasePart
  <2>3. ASSUME NEW n \in Name, DropListed(n) PROVE BackupsInv' /\ DatabasesInv'
    <3>1. UNCHANGED <<server, backupPart>> BY <2>3 DEF DropListed
    <3> QED BY <1>1, <1>3, <2>3, <3>1, BackupsStill, ListedKeeps
  <2>4. CASE DatabasesDone \/ ListArchives
    <3>1. UNCHANGED <<server, backupPart, databasePart>> /\ ~Removing("databases")'
      <4>1. removal \in RemovalRecord BY <1>1 DEF RemovalInv, RemovalType
      <4>2. CASE DatabasesDone BY <4>1, <4>2 DEF DatabasesDone, Removing, NoRemoval, RemovalRecord
      <4>3. CASE ListArchives BY <4>1, <4>3 DEF ListArchives, Removing, RemovalRecord
      <4> QED BY <2>4, <4>2, <4>3
    <3> QED BY <1>1, <1>3, <2>1, <3>1, BackupsStill, DatabasesStill DEF databasePart, DeletionInv
  <2>5. CASE TakeDown \/ \E b \in Backup : RemoveListed(b)
    <3>1. /\ UNCHANGED <<server, row, job, deletion, prune, calls, record, database, account, request, collateral>>
          /\ files' \in {files, "gone"}
          /\ \/ UNCHANGED <<store, mishaps>>
             \/ NodeTakesAll
             \/ \E b \in Backup : B!Remove(b)
      BY <2>5 DEF TakeDown, RemoveListed, NodeTakesAll
    <3>2. faults' \in Nat BY <1>2, <1>3, <2>5, Faulted DEF TakeDown, RemoveListed
    <3>3. ~Removing("databases")'
      <4>1. removal \in RemovalRecord BY <1>1 DEF RemovalInv, RemovalType
      <4>2. CASE TakeDown BY <4>1, <4>2 DEF TakeDown, Removing, NoRemoval, RemovalRecord
      <4>3. ASSUME NEW b \in Backup, RemoveListed(b) PROVE ~Removing("databases")'
        BY <4>1, <4>3 DEF RemoveListed, Removing, RemovalRecord
      <4> QED BY <2>5, <4>2, <4>3
    <3>4. BackupsInv' BY <1>1, <3>1, TakersKeep
    <3>5. DatabasesInv' BY <1>1, <1>3, <3>1, <3>2, <3>3, DatabasesStill
    <3> QED BY <2>1, <3>4, <3>5 DEF DeletionInv
  <2>6. CASE Cascade BY <1>1, <2>1, <2>6, CascadeKeeps DEF DeletionInv
  <2> QED BY <1>6, <2>1, <2>2, <2>3, <2>4, <2>5, <2>6 DEF RemovalStep, DeletionInv
<1>7. CASE UNCHANGED vars
  <2>1. BackupsInv' BY <1>1, <1>3, <1>7, BackupsStill DEF vars
  <2>2. DatabasesInv' BY <1>1, <1>3, <1>7, DatabasesStill DEF vars, databasePart, Removing
  <2>3. RemovalInv' BY <1>1, <1>7 DEF vars, backupPart, databasePart, RemovalInv, RemovalType, Progress, Removing
  <2> QED BY <2>1, <2>2, <2>3 DEF DeletionInv
<1> QED BY <1>4, <1>5, <1>6, <1>7 DEF Next, Others

\* The invariant of backups, databases and removal together, from which the rest follows.
THEOREM DeletionCorrect == Bounds /\ Spec => []DeletionInv
<1>1. Init /\ Bounds => DeletionInv BY DeletionStart
<1>2. DeletionInv /\ [Next]_vars => DeletionInv' BY DeletionStep
<1> QED BY <1>1, <1>2, PTL DEF Spec

\* A backup that says it is complete has a whole archive with its own sum, and the row of a
\* database has the database, whatever jobs are retried, redelivered or left to the node,
\* requests overtake one another, and steps of a deletion fail.
THEOREM RowsSoundHolds == Bounds /\ Spec => []RowsSound
<1>1. DeletionInv => RowsSound
  <2> SUFFICES ASSUME DeletionInv PROVE RowsSound
    OBVIOUS
  <2>1. TypeOK
    BY DEF DeletionInv, BackupsInv, BackupsTyped, DatabasesInv, DatabasesTyped, RemovalInv, RemovalType, RemovalRecord, TypeOK
  <2>2. CompletedIsWhole
    BY DEF DeletionInv, BackupsInv, BackupsRight, ClaimedIsWhole, Claimed, Marked, MarkedIn, CompletedIsWhole, B!CompletedIsWhole
  <2>3. RowHasDatabase
    BY DEF DeletionInv, DatabasesInv, DatabasesRight, DroppedKnowingly, RowHasDatabase, D!RowHasDatabase, D!Dropping
  <2> QED BY <2>1, <2>2, <2>3 DEF RowsSound
<1> QED BY <1>1, DeletionCorrect, PTL

\* When an unforced deletion has ended, what it listed is gone or named, unless something
\* was made for the server in the meantime.
THEOREM GoneMeansGoneHolds == Bounds /\ Spec => []GoneMeansGone
<1>1. DeletionInv => GoneMeansGone
  BY DEF DeletionInv, RemovalInv, Progress, GoneMeansGone, Removing
<1> QED BY <1>1, DeletionCorrect, PTL

\* The files of a server are written over from an archive that was found whole, and the very
\* one on record, or not at all.
THEOREM RefusalSparesHolds == Bounds /\ Spec => RefusalSpares
<1>1. DeletionInv /\ [Next]_vars =>
        [\A j \in B!Jobs :
           files' \notin {files, "gone"} /\ files # "gone" /\ job'[j] # job[j]
             => job[j].copy \in B!Whole /\ job[j].sum \in {B!NoArchive, job[j].copy}]_(B!backupVars)
  <2> SUFFICES ASSUME DeletionInv, [Next]_vars, NEW j \in B!Jobs,
                      files' \notin {files, "gone"}, files # "gone", job'[j] # job[j]
               PROVE  job[j].copy \in B!Whole /\ job[j].sum \in {B!NoArchive, job[j].copy}
    OBVIOUS
  <2>1. B!Next
    BY DEF vars, backupPart, Next, Others, RemovalStep, RequestRemoval, DropListed, DatabasesDone, TakeDown,
           NodeTakesAll, ListArchives, RemoveListed, Cascade
  <2>2. PICK i \in B!Jobs : B!JobStep(i)
    BY <2>1 DEF B!Next, B!CreateBackup, B!ScheduledBackup, B!NewBackup, B!Lock, B!RequestDeletion, B!Rot,
         B!RequestRestore, B!Die, B!DeletionStep, B!MarkDeleting, B!RemoveArchive, B!DropRow,
         B!PruneStep, B!PruneList, B!PruneArchive, B!PruneRow
  <2>3. B!Wipe(i) \/ B!Extract(i)
    BY <2>2 DEF B!JobStep, B!TakeBackup, B!MakeArchive, B!Complete, B!TakeRestore, B!Fetch, B!Prove, B!PutBack,
         B!Tell, B!Fail
  <2>4. job[i].at \in {"wipe", "extract"} BY <2>3 DEF B!Wipe, B!Extract
  <2>5. i = j
    <3>1. \E w \in JobRecord : job' = [job EXCEPT ![i] = w]
      BY <2>2, JobMoved DEF Moves, DeletionInv, BackupsInv, BackupsTyped
    <3> QED BY <3>1
  <2> QED BY <2>4, <2>5 DEF DeletionInv, BackupsInv, BackupsTyped, JobsSound, JobSound
<1> QED BY <1>1, DeletionCorrect, PTL DEF Spec, RefusalSpares, B!RefusalSpares

\* What a run starts from is within bounds, so that each scene is an instance of these.
THEOREM ScenesCovered == SceneSpec => []RowsSound /\ []GoneMeansGone /\ RefusalSpares
<1>1. SceneInit => Init /\ Bounds
  BY DEF SceneInit, Scene, Bounds, Making, Keeping, Pruning, Hosting, Removals, Repeated, Calls, B!Kinds
<1> QED BY <1>1, RowsSoundHolds, GoneMeansGoneHolds, RefusalSparesHolds, PTL DEF SceneSpec, Spec
=============================================================================
