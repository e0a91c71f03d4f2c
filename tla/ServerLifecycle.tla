--------------------------- MODULE ServerLifecycle ---------------------------
(***************************************************************************)
(* One game server's life as the panel sees it (its row: status,           *)
(* suspendedAt, installedAt, installStartedAt) and as its node has it (the  *)
(* game container and the install script's container).                     *)
(*                                                                         *)
(* Four kinds of actor write the status and none of them holds a lock:     *)
(*   - request handlers (power, reinstall, suspend, unsuspend, spec pushes),*)
(*     each of which reads the row, calls the node, and only then writes;  *)
(*   - the install worker, which BullMQ hands a job to at most twice, and   *)
(*     once more for every time the worker died while it held it;          *)
(*   - the node's reports, fire-and-forget POSTs that may be late or lost; *)
(*   - the hourly housekeeping that gives up on abandoned installs.        *)
(*                                                                         *)
(* A node call is one step on the node; its answer may be lost, so that    *)
(* the caller sees a failure of something that was done.                   *)
(*                                                                         *)
(* Values that no code here tells apart are one value: REINSTALLING is     *)
(* "INSTALLING", CRASHED is "OFFLINE", a restart is a "start". A           *)
(* TRANSFERRING server is the subject of module Transfer.                  *)
(***************************************************************************)
EXTENDS Naturals, FiniteSets

CONSTANTS
  Requests,   \* request handlers that can be in progress at the same time
  Jobs,       \* install jobs that can be queued or in hand at the same time
  NoJob,      \* no install container is running
  MaxStalls,  \* times BullMQ gives a job of a dead worker back to the queue
  MaxMail     \* reports of the node in flight at the same time; a bound

ASSUME LifecycleAssumption ==
  /\ NoJob \notin Jobs
  /\ MaxStalls \in Nat
  /\ MaxMail \in Nat

VARIABLES
  status,     \* server.status
  suspended,  \* server.suspendedAt is set
  installed,  \* server.installedAt is set
  stamp,      \* server.installStartedAt: null, or less or more than STALLED_INSTALL_MS old
  container,  \* the game container on the node
  script,     \* the job whose script runs in the install container
  jobAt, made, stalls,  \* per job: its step, attemptsMade, and recoveries so far
  req,        \* per handler: its step and what it was asked to do
  mail,       \* the node's reports between their sending and their last write
  hk          \* failStalledInstalls has read a stamp, and the row still has it or not

rowVars  == <<status, suspended, installed, stamp>>
nodeVars == <<container, script>>
jobVars  == <<jobAt, made, stalls>>
vars     == <<rowVars, nodeVars, jobVars, req, mail, hk>>

-----------------------------------------------------------------------------
InstallBusy == {"INSTALLING", "INSTALL_FAILED"}
ServerStatus == InstallBusy \cup {"STARTING", "ONLINE", "STOPPING", "OFFLINE", "SUSPENDED"}

PowerAction == {"start", "stop", "kill"}
Container == {"none", "stopped", "running"}
Reported == {"ONLINE", "OFFLINE"}
\* A report being handled has made its choice; its kind no longer matters.
Report == [kind : {"state", "beat", "read"}, says : Reported]

\* install.worker.ts, in the order of its awaits.
Working == {"stamp", "mark", "put", "install", "script", "put2", "finish", "settle", "notify"}
JobStep == Working \cup {"none", "waiting"}
\* The steps after the stamp: the attempt is alive and the stamp is its own or later.
Stamped == Working \ {"stamp"}
Attempts == 2

ReqStep == {"idle", "send", "resend", "enqueue", "stop", "suspend", "write"}
Asked == PowerAction \cup {"nothing", "reinstall", "suspend", "unsuspend"}
Idle == [at |-> "idle", task |-> "nothing"]

\* What docker.service.ts derives from the container's state.
Derived == IF container = "running" THEN "ONLINE" ELSE "OFFLINE"

Live == {j \in Jobs : jobAt[j] \in Stamped}

TypeOK ==
  /\ status \in ServerStatus
  /\ suspended \in BOOLEAN /\ installed \in BOOLEAN
  /\ stamp \in {"null", "fresh", "old"}
  /\ container \in Container
  /\ script \in Jobs \cup {NoJob}
  /\ jobAt \in [Jobs -> JobStep]
  /\ made \in [Jobs -> 0 .. (Attempts - 1)]
  /\ stalls \in [Jobs -> 0 .. MaxStalls]
  /\ req \in [Requests -> [at : ReqStep, task : Asked]]
  /\ mail \subseteq Report
  /\ hk \in {"none", "current", "superseded"}

(***************************************************************************)
(* ServerService.create has committed: the row is INSTALLING and its job   *)
(* is queued, or was never queued because the API died in between, or the  *)
(* install was skipped and the server counts as installed.                 *)
(***************************************************************************)
Init ==
  /\ \/ /\ status = "INSTALLING" /\ installed = FALSE
        /\ \E q \in SUBSET Jobs :
             /\ Cardinality(q) <= 1
             /\ jobAt = [j \in Jobs |-> IF j \in q THEN "waiting" ELSE "none"]
     \/ /\ status = "OFFLINE" /\ installed = TRUE
        /\ jobAt = [j \in Jobs |-> "none"]
  /\ suspended = FALSE /\ stamp = "null"
  /\ container = "none" /\ script = NoJob
  /\ made = [j \in Jobs |-> 0]
  /\ stalls = [j \in Jobs |-> 0]
  /\ req = [r \in Requests |-> Idle]
  /\ mail = {} /\ hk = "none"

-----------------------------------------------------------------------------
(***************************************************************************)
(* The node.                                                               *)
(***************************************************************************)
AfterPower(act) ==
  CASE act = "start" -> "running"
    [] act # "start" /\ container = "running" -> "stopped"
    [] OTHER -> container

\* The game process ends by itself.
GameExit ==
  /\ container = "running"
  /\ container' = "stopped"
  /\ UNCHANGED <<rowVars, script, jobVars, req, mail, hk>>

\* A script nobody waits for any more runs to its end.
OrphanExit ==
  /\ script # NoJob
  /\ jobAt[script] # "script"
  /\ script' = NoJob
  /\ UNCHANGED <<rowVars, container, jobVars, req, mail, hk>>

\* emitCurrentStatus: after a power request, when a stream ends, and whenever
\* a console viewer asks for the log; or a line matched a detection pattern,
\* which can call a running game online or crashed.
EmitState ==
  /\ Cardinality(mail) < MaxMail
  /\ \E s \in IF container = "running" THEN Reported ELSE {Derived} :
       mail' = mail \cup {[kind |-> "state", says |-> s]}
  /\ UNCHANGED <<rowVars, nodeVars, jobVars, req, hk>>

\* The heartbeat lists every labelled container, the install one included.
EmitBeat ==
  /\ Cardinality(mail) < MaxMail
  /\ container # "none" \/ script # NoJob
  /\ mail' = mail \cup {[kind |-> "beat", says |-> Derived]}
  /\ UNCHANGED <<rowVars, nodeVars, jobVars, req, hk>>

LoseReport(m) ==
  /\ m.kind # "read"
  /\ mail' = mail \ {m}
  /\ UNCHANGED <<rowVars, nodeVars, jobVars, req, hk>>

(***************************************************************************)
(* The panel's side of a report: the handler reads the row, decides, and   *)
(* writes the status with no condition on what it read.                    *)
(***************************************************************************)
\* Mutant: the heartbeat leaves a server alone while it starts or stops.
Ignores_Guesses(m) ==
  \/ suspended
  \/ status = m.says
  \/ m.kind = "beat" /\ status \in {"INSTALLING", "STARTING", "STOPPING"}

Ignores(m) ==
  \/ suspended
  \/ status = m.says
  \/ m.kind = "beat" /\ status = "INSTALLING"

ReadReport(m) ==
  /\ m.kind # "read"
  /\ mail' = (mail \ {m}) \cup (IF Ignores(m) THEN {} ELSE {[m EXCEPT !.kind = "read"]})
  /\ UNCHANGED <<rowVars, nodeVars, jobVars, req, hk>>

ApplyReport(m) ==
  /\ m.kind = "read"
  /\ status' = m.says
  /\ mail' = mail \ {m}
  /\ UNCHANGED <<suspended, installed, stamp, nodeVars, jobVars, req, hk>>

-----------------------------------------------------------------------------
(***************************************************************************)
(* Request handlers.                                                       *)
(***************************************************************************)
Proceed(r, step) == req' = [req EXCEPT ![r].at = step]
Begin(r, step, what) == req' = [req EXCEPT ![r] = [at |-> step, task |-> what]]
Finish(r) == req' = [req EXCEPT ![r] = Idle]

\* The status a handler writes when it has done what it was asked.
Outcome(what) ==
  CASE what = "start" -> "STARTING"
    [] what = "stop" -> "STOPPING"
    [] what = "reinstall" -> "INSTALLING"
    [] what = "suspend" -> "SUSPENDED"
    [] OTHER -> "OFFLINE"

\* ServerService.updateStatus as the last write of a handler.
StatusWrite(r) ==
  /\ req[r].at = "write"
  /\ status' = Outcome(req[r].task)
  /\ Finish(r)
  /\ UNCHANGED <<suspended, installed, stamp, nodeVars, jobVars, mail, hk>>

\* Mutant: the check of installedAt is gone.
MayPower_Uninstalled(act) == ~(suspended /\ act = "start") /\ status \notin InstallBusy

MayPower(act) ==
  /\ ~(suspended /\ act = "start")
  /\ installed
  /\ status \notin InstallBusy

\* sendPower reads the row. Routes, the console socket, schedules, auto-restart
\* and the boot after an install all come through here.
PowerCheck(r, act) ==
  /\ req[r].at = "idle"
  /\ MayPower(act)
  /\ Begin(r, "send", act)
  /\ UNCHANGED <<rowVars, nodeVars, jobVars, mail, hk>>

\* The request to the node reaches a container; its answer may not come back.
PowerSend(r) ==
  /\ req[r].at \in {"send", "resend"}
  /\ container # "none"
  /\ \/ container' = AfterPower(req[r].task) /\ Proceed(r, "write")
     \/ container' \in {container, AfterPower(req[r].task)} /\ Finish(r)
  /\ UNCHANGED <<rowVars, script, jobVars, mail, hk>>

\* A missing container is repaired for a start, once; either call may fail.
PowerMissing(r) ==
  /\ req[r].at \in {"send", "resend"}
  /\ container = "none"
  /\ \/ UNCHANGED container /\ Finish(r)
     \/ /\ req[r] = [at |-> "send", task |-> "start"]
        /\ container' = "stopped"
        /\ Proceed(r, "resend") \/ Finish(r)
  /\ UNCHANGED <<rowVars, script, jobVars, mail, hk>>

\* POST /servers/:id/reinstall: read, enqueue, write.
ReinstallCheck(r) ==
  /\ req[r].at = "idle"
  /\ status # "INSTALLING"
  /\ Begin(r, "enqueue", "reinstall")
  /\ UNCHANGED <<rowVars, nodeVars, jobVars, mail, hk>>

\* The bound Jobs: with every job in hand, the enqueuing is left to fail.
ReinstallEnqueue(r) ==
  /\ req[r].at = "enqueue"
  /\ \/ \E j \in Jobs :
          /\ jobAt[j] = "none"
          /\ jobAt' = [jobAt EXCEPT ![j] = "waiting"]
          /\ Proceed(r, "write")
     \/ UNCHANGED jobAt /\ Finish(r)
  /\ UNCHANGED <<rowVars, nodeVars, made, stalls, mail, hk>>

\* POST /servers/:id/suspend: read, stop (a failure is only logged), write twice.
SuspendCheck(r) ==
  /\ req[r].at = "idle"
  /\ ~suspended
  /\ Begin(r, "stop", "suspend")
  /\ UNCHANGED <<rowVars, nodeVars, jobVars, mail, hk>>

SuspendStop(r) ==
  /\ req[r].at = "stop"
  /\ container' \in {container, AfterPower("stop")}
  /\ Proceed(r, "suspend")
  /\ UNCHANGED <<rowVars, script, jobVars, mail, hk>>

SuspendWrite(r) ==
  /\ req[r].at = "suspend"
  /\ suspended' = TRUE /\ status' = "SUSPENDED"
  /\ Proceed(r, "write")
  /\ UNCHANGED <<installed, stamp, nodeVars, jobVars, mail, hk>>

\* POST /servers/:id/unsuspend: writes OFFLINE twice, whatever the server is doing.
Unsuspend(r) ==
  /\ req[r].at = "idle"
  /\ suspended' = FALSE /\ status' = "OFFLINE"
  /\ Begin(r, "write", "unsuspend")
  /\ UNCHANGED <<installed, stamp, nodeVars, jobVars, mail, hk>>

\* syncToNode from a route that edits the server: the container is recreated,
\* running or not; no handler looks at the status first.
SyncToNode ==
  /\ container' = "stopped"
  /\ UNCHANGED <<rowVars, script, jobVars, req, mail, hk>>

Continue(r) ==
  \/ StatusWrite(r) \/ PowerSend(r) \/ PowerMissing(r) \/ ReinstallEnqueue(r)
  \/ SuspendStop(r) \/ SuspendWrite(r)

Arrive(r) ==
  \/ \E act \in PowerAction : PowerCheck(r, act)
  \/ ReinstallCheck(r) \/ SuspendCheck(r) \/ Unsuspend(r)

-----------------------------------------------------------------------------
(***************************************************************************)
(* The install worker.                                                     *)
(***************************************************************************)
Goto(j, step) == jobAt' = [jobAt EXCEPT ![j] = step]
Retire(j) ==
  /\ Goto(j, "none")
  /\ made' = [made EXCEPT ![j] = 0]
  /\ stalls' = [stalls EXCEPT ![j] = 0]

TakeJob(j) ==
  /\ jobAt[j] = "waiting"
  /\ Goto(j, "stamp")
  /\ UNCHANGED <<rowVars, nodeVars, made, stalls, req, mail, hk>>

StampAttempt(j) ==
  /\ jobAt[j] = "stamp"
  /\ stamp' = "fresh"
  /\ hk' = IF hk = "none" THEN "none" ELSE "superseded"
  /\ Goto(j, "mark")
  /\ UNCHANGED <<status, suspended, installed, nodeVars, made, stalls, req, mail>>

MarkInstalling(j) ==
  /\ jobAt[j] = "mark"
  /\ status' = "INSTALLING"
  /\ Goto(j, "put")
  /\ UNCHANGED <<suspended, installed, stamp, nodeVars, made, stalls, req, mail, hk>>

\* PUT /servers: the container is recreated and does not run.
PushSpec(j) ==
  /\ jobAt[j] \in {"put", "put2"}
  /\ container' = "stopped"
  /\ Goto(j, IF jobAt[j] = "put" THEN "install" ELSE "finish")
  /\ UNCHANGED <<rowVars, script, made, stalls, req, mail, hk>>

\* POST /servers/:uuid/install: the game container is removed, and so is an
\* install container of that name that may still be there.
BeginScript(j) ==
  /\ jobAt[j] = "install"
  /\ container' = "none" /\ script' = j
  /\ Goto(j, "script")
  /\ UNCHANGED <<rowVars, made, stalls, req, mail, hk>>

ScriptDone(j) ==
  /\ jobAt[j] = "script" /\ script = j
  /\ script' = NoJob
  /\ Goto(j, "put2")
  /\ UNCHANGED <<rowVars, container, made, stalls, req, mail, hk>>

MarkInstalled(j) ==
  /\ jobAt[j] = "finish"
  /\ installed' = TRUE /\ status' = "OFFLINE"
  /\ Goto(j, "settle")
  /\ UNCHANGED <<suspended, stamp, nodeVars, made, stalls, req, mail, hk>>

SettleInstalled(j) ==
  /\ jobAt[j] = "settle"
  /\ status' = "OFFLINE"
  /\ Goto(j, "notify")
  /\ UNCHANGED <<suspended, installed, stamp, nodeVars, made, stalls, req, mail, hk>>

\* Audit, notification, webhook, and the boot that may have been asked for:
\* sendPower, whose steps a free handler takes.
CompleteJob(j) ==
  /\ jobAt[j] = "notify"
  /\ Retire(j)
  /\ \/ UNCHANGED req
     \/ \E r \in Requests :
          req[r].at = "idle" /\ MayPower("start") /\ Begin(r, "send", "start")
  /\ UNCHANGED <<rowVars, nodeVars, mail, hk>>

\* What a failed call, or one whose answer was lost, may leave on the node.
NodeAfterFailure(j) ==
  CASE jobAt[j] \in {"put", "put2"} -> {<<container, script>>, <<"stopped", script>>}
    [] jobAt[j] = "install" -> {<<container, script>>, <<"none", script>>, <<"none", j>>}
    [] jobAt[j] = "script" /\ script = j -> {<<container, NoJob>>, <<container, j>>}
    [] OTHER -> {<<container, script>>}

\* A call of the attempt throws. All but the first two writes are inside the
\* try block, the success notification included, and on the last attempt its
\* handler marks the server failed.
Caught == Working \ {"stamp", "mark"}

\* Mutant: attemptsMade counted as if it included this attempt.
FinalAttempt_OffByOne(j) == made[j] >= Attempts

FinalAttempt(j) == made[j] + 1 >= Attempts

FailAttempt(j) ==
  /\ jobAt[j] \in Working
  /\ \E left \in NodeAfterFailure(j) : container' = left[1] /\ script' = left[2]
  /\ IF FinalAttempt(j)
     THEN /\ status' = IF jobAt[j] \in Caught THEN "INSTALL_FAILED" ELSE status
          /\ Retire(j)
     ELSE /\ Goto(j, "waiting")
          /\ made' = [made EXCEPT ![j] = @ + 1]
          /\ UNCHANGED <<status, stalls>>
  /\ UNCHANGED <<suspended, installed, stamp, req, mail, hk>>

\* The worker's process dies. BullMQ notices the stalled job and queues it
\* again, without counting an attempt, or fails it behind the worker's back.
WorkerDies(j) ==
  /\ jobAt[j] \in Working
  /\ IF stalls[j] < MaxStalls
     THEN /\ Goto(j, "waiting")
          /\ stalls' = [stalls EXCEPT ![j] = @ + 1]
          /\ UNCHANGED made
     ELSE Retire(j)
  /\ UNCHANGED <<rowVars, nodeVars, req, mail, hk>>

Work(j) ==
  \/ TakeJob(j) \/ StampAttempt(j) \/ MarkInstalling(j)
  \/ PushSpec(j) \/ BeginScript(j) \/ ScriptDone(j)
  \/ MarkInstalled(j) \/ SettleInstalled(j) \/ CompleteJob(j)

-----------------------------------------------------------------------------
(***************************************************************************)
(* Housekeeping.                                                           *)
(***************************************************************************)

\* Four hours pass. An attempt's calls time out after three hours and two
\* minutes in all, so none that wrote a stamp this old can still be alive.
StampAges ==
  /\ stamp = "fresh"
  /\ Live = {}
  /\ stamp' = "old"
  /\ UNCHANGED <<status, suspended, installed, nodeVars, jobVars, req, mail, hk>>

\* Mutant: only first installs are looked for.
Stalled_FirstInstall == ~installed /\ status = "INSTALLING" /\ stamp = "old"

Stalled == status = "INSTALLING" /\ stamp = "old"

ReadStalled ==
  /\ hk = "none"
  /\ Stalled
  /\ hk' = "current"
  /\ UNCHANGED <<rowVars, nodeVars, jobVars, req, mail>>

\* Mutant: the write does not compare the stamp.
Abandon_NoSwap == status = "INSTALLING"

\* The compare-and-swap on the stamp.
Abandon == hk = "current" /\ status = "INSTALLING"

FailStalled ==
  /\ hk # "none"
  /\ status' = IF Abandon THEN "INSTALL_FAILED" ELSE status
  /\ hk' = "none"
  /\ UNCHANGED <<suspended, installed, stamp, nodeVars, jobVars, req, mail>>

-----------------------------------------------------------------------------
Next ==
  \/ GameExit \/ OrphanExit \/ EmitState \/ EmitBeat \/ SyncToNode
  \/ \E m \in mail : LoseReport(m) \/ ReadReport(m) \/ ApplyReport(m)
  \/ \E r \in Requests : Arrive(r) \/ Continue(r)
  \/ \E j \in Jobs : Work(j) \/ FailAttempt(j) \/ WorkerDies(j)
  \/ StampAges \/ ReadStalled \/ FailStalled

Spec == Init /\ [][Next]_vars

(***************************************************************************)
(* Fairness. The panel's processes keep running what they began; the       *)
(* housekeeping job comes round every hour and time passes; a node that    *)
(* is up sends a heartbeat every interval, and one of them gets through    *)
(* again and again (strong fairness, since any one of them may be lost).   *)
(***************************************************************************)
ReadBeat == \E m \in mail : m.kind = "beat" /\ ReadReport(m)

Fairness ==
  /\ \A r \in Requests : WF_vars(Continue(r))
  /\ \A j \in Jobs : WF_vars(Work(j) \/ FailAttempt(j))
  /\ WF_vars(\E m \in mail : ApplyReport(m))
  /\ WF_vars(\E m \in mail : ReadReport(m) \/ LoseReport(m))
  /\ SF_vars(EmitBeat) /\ SF_vars(ReadBeat)
  /\ WF_vars(StampAges) /\ SF_vars(ReadStalled) /\ WF_vars(FailStalled)

FairSpec == Spec /\ Fairness

-----------------------------------------------------------------------------
(***************************************************************************)
(* What holds.                                                             *)
(***************************************************************************)

\* The game server never runs before an install has once come to its end:
\* whatever reports do to the status meanwhile, sendPower also asks for
\* installedAt, and nothing ever takes that back.
NeverRunsUninstalled == container = "running" => installed

\* Housekeeping fails only an install with no attempt alive, even though it
\* reads the stalled rows first and writes later: an attempt that started in
\* between has put a new stamp there and the compare-and-swap misses.
HousekeepingSparesLive ==
  [][hk # "none" /\ hk' = "none" /\ status' # status => Live = {}]_vars

\* An install that was begun never leaves the server INSTALLING for good: its
\* worker settles it, or housekeeping hands the server back.
InstallsSettle ==
  (status = "INSTALLING" /\ stamp # "null") ~> (status # "INSTALLING")

\* STARTING and STOPPING are guesses written after the node has acted, so the
\* report that settles them may already have been handled. The heartbeat
\* replaces the guess all the same, for as long as there is a container.
Guessing == status \in {"STARTING", "STOPPING"} /\ container # "none" /\ ~suspended
GuessesResolve == Guessing ~> ~Guessing
=============================================================================
