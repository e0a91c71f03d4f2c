-------------------------------- MODULE Updates --------------------------------
(***************************************************************************)
(* Updating the panel. The panel compares what it was built from with the head  *)
(* of a branch and may write a request into a directory; a service on the host   *)
(* takes the request and runs update.sh, which an operator may also run by hand. *)
(* Commits are numbered as they reach the branch; replacing its history leaves   *)
(* no earlier one in it.                                                     *)
(***************************************************************************)
EXTENDS Naturals

CONSTANTS
  Admin,      \* requests to the panel at once
  Updater,    \* the run of update.sh that belongs to the service
  ByHand,     \* and one an operator starts
  MaxCommits, \* commits and rewrites of the branch: a bound
  MaxFaults   \* steps that fail, crashes, edits on the host: a bound

UpdatesAssumption == Updater # ByHand /\ MaxCommits \in Nat \ {0} /\ MaxFaults \in Nat

VARIABLES
  branch,   \* the remote branch: its head, the first commit of its history
  origin,   \* the checkout's idea of the head
  checkout, \* the commit checked out; edits in place, set aside; a commit of its own
  lost,     \* edits or commits of the host that are nowhere any more
  image,    \* the commit the images were built from
  built,    \* STORM_COMMIT of the running panel, 0 while it does not run
  latest,   \* the head the panel has in its cache, or 0
  admin,    \* per request: the commit it was allowed to ask for, or 0
  asked,    \* request.json: the commit, whether edits are to be set aside
  job,      \* status.json
  service,  \* the updater: runs, its heartbeat
  run,      \* per run of update.sh
  faults

vars == <<branch, origin, checkout, lost, image, built, latest, admin, asked, job, service, run, faults>>
host == <<origin, checkout, lost, image, built>>

Runner == {Updater, ByHand}
Commit == 1 .. MaxCommits
None   == 0
NoRun  == [at |-> "idle", stash |-> FALSE, current |-> None, target |-> None, rewritten |-> FALSE]

TypeOK ==
  /\ branch \in [head : Commit, base : Commit] /\ origin \in Commit
  /\ checkout \in [commit : Commit, dirty : BOOLEAN, stashed : BOOLEAN, own : BOOLEAN] /\ lost \in BOOLEAN
  /\ image \in Commit /\ built \in Commit \cup {None} /\ latest \in Commit \cup {None}
  /\ admin \in [Admin -> Commit \cup {None}]
  /\ asked \in [commit : Commit \cup {None}, stash : BOOLEAN]
  /\ job \in [state : {"none", "running", "succeeded", "failed"}, commit : Commit \cup {None}]
  /\ service \in [up : BOOLEAN, heartbeat : {"none", "fresh", "stale"}]
  /\ run \in [Runner -> [at : {"idle", "look", "merge", "build", "up", "prove"}, stash : BOOLEAN,
                         current : Commit \cup {None}, target : Commit \cup {None}, rewritten : BOOLEAN]]
  /\ faults \in 0 .. MaxFaults

Init ==
  /\ branch = [head |-> 1, base |-> 1] /\ origin = 1
  /\ checkout = [commit |-> 1, dirty |-> FALSE, stashed |-> FALSE, own |-> FALSE] /\ lost = FALSE
  /\ image = 1 /\ built = 1 /\ latest = None
  /\ admin = [a \in Admin |-> None] /\ asked = [commit |-> None, stash |-> FALSE]
  /\ job = [state |-> "none", commit |-> None]
  /\ service = [up |-> FALSE, heartbeat |-> "none"]
  /\ run = [r \in Runner |-> NoRun] /\ faults = 0

Fault == faults < MaxFaults /\ faults' = faults + 1

-----------------------------------------------------------------------------
(***************************************************************************)
(* The repository, and the operator's own work on the host: not while an        *)
(* update runs.                                                            *)
(***************************************************************************)
Push ==
  /\ branch.head < MaxCommits
  /\ \E base \in {branch.base, branch.head + 1} : branch' = [head |-> branch.head + 1, base |-> base]
  /\ UNCHANGED <<host, latest, admin, asked, job, service, run, faults>>

Quiet == \A r \in Runner : run[r].at = "idle"

Edit ==
  /\ Quiet /\ Fault
  /\ \/ checkout' = [checkout EXCEPT !.dirty = TRUE]
     \/ checkout' = [checkout EXCEPT !.own = TRUE]
  /\ UNCHANGED <<branch, origin, lost, image, built, latest, admin, asked, job, service, run>>

DropOwnCommit ==
  /\ Quiet /\ checkout.own /\ checkout' = [checkout EXCEPT !.own = FALSE]
  /\ UNCHANGED <<branch, origin, lost, image, built, latest, admin, asked, job, service, run, faults>>

-----------------------------------------------------------------------------
(***************************************************************************)
(* The panel: what it offers, and a request for it.                          *)
(***************************************************************************)
\* Asked of the repository's host, kept for fifteen minutes.
Check  == latest = None /\ latest' = branch.head /\ UNCHANGED <<branch, host, admin, asked, job, service, run, faults>>
Forget == latest # None /\ latest' = None /\ UNCHANGED <<branch, host, admin, asked, job, service, run, faults>>

\* The status is read first, the request only when there is none.
ReadJob == IF job.state # "none" THEN job.state ELSE IF asked.commit # None THEN "requested" ELSE "none"
InProgress == ReadJob \in {"requested", "running"}
CanApply == service.heartbeat = "fresh" /\ ~InProgress /\ latest \notin {None, built}

AskStatus(a) ==
  /\ built # None /\ admin[a] = None /\ CanApply
  /\ admin' = [admin EXCEPT ![a] = latest]
  /\ UNCHANGED <<branch, host, latest, asked, job, service, run, faults>>

RequestUpdate(a) ==
  /\ admin[a] # None /\ admin' = [admin EXCEPT ![a] = None]
  /\ IF InProgress THEN UNCHANGED asked ELSE \E stash \in BOOLEAN : asked' = [commit |-> admin[a], stash |-> stash]
  /\ UNCHANGED <<branch, host, latest, job, service, run, faults>>

-----------------------------------------------------------------------------
(***************************************************************************)
(* The service on the host.                                                *)
(***************************************************************************)
ServiceStarts ==
  /\ ~service.up /\ service' = [service EXCEPT !.up = TRUE]
  /\ UNCHANGED <<branch, host, latest, admin, asked, job, run, faults>>

WriteHeartbeat ==
  /\ service.up /\ run[Updater].at = "idle" /\ service.heartbeat # "fresh"
  /\ service' = [service EXCEPT !.heartbeat = "fresh"]
  /\ UNCHANGED <<branch, host, latest, admin, asked, job, run, faults>>

\* Ninety seconds without one.
HeartbeatAges ==
  /\ service.heartbeat = "fresh" /\ (~service.up \/ run[Updater].at # "idle")
  /\ service' = [service EXCEPT !.heartbeat = "stale"]
  /\ UNCHANGED <<branch, host, latest, admin, asked, job, run, faults>>

Begin(r, stash) == run' = [run EXCEPT ![r] = [NoRun EXCEPT !.at = "look", !.stash = stash]]

ProcessRequest ==
  /\ service.up /\ run[Updater].at = "idle" /\ asked.commit # None
  /\ job' = [state |-> "running", commit |-> asked.commit]
  /\ asked' = [commit |-> None, stash |-> FALSE]
  /\ Begin(Updater, asked.stash)
  /\ UNCHANGED <<branch, host, latest, admin, service, faults>>

\* Stopped, it takes its heartbeat along; killed, it does not.
ServiceStops ==
  /\ service.up /\ Fault
  /\ \E heartbeat \in {"none", service.heartbeat} : service' = [up |-> FALSE, heartbeat |-> heartbeat]
  /\ run' = [run EXCEPT ![Updater] = NoRun]
  /\ UNCHANGED <<branch, host, latest, admin, asked, job>>

RunByHand ==
  /\ run[ByHand].at = "idle" /\ \E stash \in BOOLEAN : Begin(ByHand, stash)
  /\ UNCHANGED <<branch, host, latest, admin, asked, job, service, faults>>

-----------------------------------------------------------------------------
(***************************************************************************)
(* update.sh. Any step may fail, which ends the run; nothing is undone.        *)
(***************************************************************************)
Goes(r, at) == run' = [run EXCEPT ![r].at = at] /\ UNCHANGED job

Ends(r, state) ==
  /\ run' = [run EXCEPT ![r] = NoRun]
  /\ job' = IF r = Updater THEN [job EXCEPT !.state = state] ELSE job

Ancestor(head) == checkout.commit >= branch.base /\ checkout.commit <= head /\ ~checkout.own
Rewritten      == ~Ancestor(branch.head)

NothingToDo == checkout.commit = branch.head /\ ~checkout.own /\ built = checkout.commit

\* Commits that exist here only, and edits nobody asked to set aside, stop it.
Refused_OwnForgotten(r) == checkout.dirty /\ ~run[r].stash
Refused(r) == (Rewritten /\ checkout.own) \/ (checkout.dirty /\ ~run[r].stash)

Look(r) ==
  /\ run[r].at = "look"
  /\ origin' = branch.head
  /\ IF NothingToDo /\ ~Rewritten
     THEN Ends(r, "succeeded") /\ UNCHANGED checkout
     ELSE IF Refused(r) THEN Ends(r, "failed") /\ UNCHANGED checkout
     ELSE /\ checkout' = IF checkout.dirty THEN [checkout EXCEPT !.dirty = FALSE, !.stashed = TRUE] ELSE checkout
          /\ run' = [run EXCEPT ![r] = [@ EXCEPT !.at = "merge", !.current = checkout.commit,
                                                 !.target = branch.head, !.rewritten = Rewritten]]
          /\ UNCHANGED job
  /\ UNCHANGED <<branch, lost, image, built, latest, admin, asked, service, faults>>

\* After the room to build, the dump and the copy of .env: onto what the checkout knows
\* of the branch by now.
Merge(r) ==
  /\ run[r].at = "merge"
  /\ IF run[r].current = run[r].target /\ ~run[r].rewritten THEN Goes(r, "build") /\ UNCHANGED <<checkout, lost>>
     ELSE IF run[r].rewritten
     THEN /\ lost' = (lost \/ checkout.dirty \/ checkout.own)
          /\ checkout' = [checkout EXCEPT !.commit = origin, !.dirty = FALSE, !.own = FALSE]
          /\ Goes(r, "build")
     ELSE IF Ancestor(origin)
     THEN checkout' = [checkout EXCEPT !.commit = origin] /\ Goes(r, "build") /\ UNCHANGED lost
     ELSE Ends(r, "failed") /\ UNCHANGED <<checkout, lost>>
  /\ UNCHANGED <<branch, origin, image, built, latest, admin, asked, service, faults>>

Build(r) ==
  /\ run[r].at = "build" /\ image' = checkout.commit /\ Goes(r, "up")
  /\ UNCHANGED <<branch, origin, checkout, lost, built, latest, admin, asked, service, faults>>

\* The panel restarts: requests it was answering are gone.
Up(r) ==
  /\ run[r].at = "up" /\ built' = image /\ admin' = [a \in Admin |-> None] /\ Goes(r, "prove")
  /\ UNCHANGED <<branch, origin, checkout, lost, image, latest, asked, service, faults>>

Prove(r) ==
  /\ run[r].at = "prove" /\ Ends(r, IF built = None THEN "failed" ELSE "succeeded")
  /\ UNCHANGED <<branch, host, latest, admin, asked, service, faults>>

\* The fetch, the dump, the build; a start that fails may leave the panel down.
StepFails(r) ==
  /\ run[r].at # "idle" /\ Fault /\ Ends(r, "failed")
  /\ IF run[r].at \in {"up", "prove"} THEN built' \in {built, None} ELSE UNCHANGED built
  /\ UNCHANGED <<branch, origin, checkout, lost, image, latest, admin, asked, service>>

Steps(r) == Look(r) \/ Merge(r) \/ Build(r) \/ Up(r) \/ Prove(r)

Next ==
  \/ Push \/ Edit \/ DropOwnCommit \/ Check \/ Forget
  \/ \E a \in Admin : AskStatus(a) \/ RequestUpdate(a)
  \/ ServiceStarts \/ WriteHeartbeat \/ HeartbeatAges \/ ProcessRequest \/ ServiceStops
  \/ RunByHand
  \/ \E r \in Runner : Steps(r) \/ StepFails(r)

Spec == Init /\ [][Next]_vars

-----------------------------------------------------------------------------
\* Neither an edit in place nor a commit of the host's own disappears in an
\* update, also where the branch's history was replaced.
NothingLost == ~lost

===============================================================================
