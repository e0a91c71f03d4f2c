------------------------------- MODULE AutoRestart -------------------------------
(***************************************************************************)
(* One server that is to be brought back when it crashes. The node reports    *)
(* states as they come, and the status of every container with its heartbeat;  *)
(* the panel answers each report on the row it read when the report arrived.   *)
(* Time is the age of lastStartAt, against a minute.                        *)
(***************************************************************************)
EXTENDS Naturals

CONSTANTS
  Report,              \* reports on their way or being answered, and starts asked for, at once
  MaxRestartAttempts   \* MAX_RESTART_ATTEMPTS

RestartAssumption == MaxRestartAttempts \in Nat

VARIABLES
  container,       \* "running", or how it ended
  status,          \* Server.status
  restartAttempts, \* Server.restartAttempts; past the budget all are one
  lastStart,       \* age of Server.lastStartAt: "never", "new", "stable"
  report,          \* per report: what it says, what was read for it
  heartbeat        \* a status in a heartbeat on its way, or "none"

vars == <<container, status, restartAttempts, lastStart, report, heartbeat>>

Ends     == {"stopped", "failed", "oom"}
Statuses == {"STARTING", "ONLINE", "OFFLINE", "CRASHED"}
Ceiling  == MaxRestartAttempts + 1
Counts   == 0 .. Ceiling

\* attempts is what the row that was read makes of a crash to be retried.
Idle == [at |-> "idle", status |-> "OFFLINE", oom |-> FALSE, attempts |-> 0]

TypeOK ==
  /\ container \in Ends \cup {"running"}
  /\ status \in Statuses
  /\ restartAttempts \in Counts
  /\ lastStart \in {"never", "new", "stable"}
  /\ report \in [Report -> [at : {"idle", "sent", "update", "count", "power", "starting"},
                            status : Statuses, oom : BOOLEAN, attempts : Counts]]
  /\ heartbeat \in Statuses \cup {"none"}

Init ==
  /\ container = "stopped" /\ status = "OFFLINE" /\ restartAttempts = 0 /\ lastStart = "never"
  /\ report = [r \in Report |-> Idle] /\ heartbeat = "none"

-----------------------------------------------------------------------------
(***************************************************************************)
(* The node. A report that finds no slot is one that was lost.               *)
(***************************************************************************)
StatusWithReason == CASE container = "running" -> "ONLINE" [] container = "stopped" -> "OFFLINE" [] OTHER -> "CRASHED"

Send(says, oom) ==
  \/ \E r \in Report : report[r].at = "idle" /\
       report' = [report EXCEPT ![r] = [Idle EXCEPT !.at = "sent", !.status = says, !.oom = oom]]
  \/ UNCHANGED report

\* The container ends, by itself or as it was told: the stream ends with it.
End(how) ==
  /\ container = "running" /\ container' = how
  /\ Send(IF how = "stopped" THEN "OFFLINE" ELSE "CRASHED", how = "oom")
  /\ UNCHANGED <<status, restartAttempts, lastStart, heartbeat>>

\* A line of the log matches a pattern of the template.
MatchLine ==
  /\ container = "running" /\ \E says \in {"ONLINE", "CRASHED"} : Send(says, FALSE)
  /\ UNCHANGED <<container, status, restartAttempts, lastStart, heartbeat>>

\* emitCurrentStatus, for a console that is opened.
EmitCurrentStatus ==
  /\ Send(StatusWithReason, container = "oom")
  /\ UNCHANGED <<container, status, restartAttempts, lastStart, heartbeat>>

Heartbeat ==
  /\ heartbeat = "none" /\ heartbeat' = StatusWithReason
  /\ UNCHANGED <<container, status, restartAttempts, lastStart, report>>

Survive ==
  /\ lastStart = "new" /\ lastStart' = "stable"
  /\ UNCHANGED <<container, status, restartAttempts, report, heartbeat>>

-----------------------------------------------------------------------------
(***************************************************************************)
(* POST /servers/:uuid/state.                                              *)
(***************************************************************************)
Go(r, at) == report' = [report EXCEPT ![r].at = at]
Answered(r) == report' = [report EXCEPT ![r] = Idle]

UpdateStatus(says) ==
  /\ status' = says
  /\ lastStart' = IF says = "STARTING" THEN "new" ELSE lastStart

\* A run of a minute clears the count.
Attempts == IF lastStart = "stable" THEN 0 ELSE IF restartAttempts = Ceiling THEN Ceiling ELSE restartAttempts + 1

ReadServer(r) ==
  /\ report[r].at = "sent"
  /\ IF status = report[r].status THEN Answered(r)
     ELSE IF report[r].status # "CRASHED" \/ report[r].oom THEN Go(r, "update")
     ELSE report' = [report EXCEPT ![r] = [@ EXCEPT !.at = "update", !.attempts = Attempts]]
  /\ UNCHANGED <<container, status, restartAttempts, lastStart, heartbeat>>

\* A crash is told and considered, unless telling it throws; one for want of
\* memory is not retried.
WriteStatus(r) ==
  /\ report[r].at = "update"
  /\ UpdateStatus(report[r].status)
  /\ \/ report[r].status = "CRASHED" /\ ~report[r].oom /\ Go(r, "count")
     \/ Answered(r)
  /\ UNCHANGED <<container, restartAttempts, heartbeat>>

ConsiderRestart(r) ==
  /\ report[r].at = "count"
  /\ restartAttempts' = report[r].attempts
  /\ report' = [report EXCEPT ![r] = IF report[r].attempts > MaxRestartAttempts THEN Idle ELSE [Idle EXCEPT !.at = "power"]]
  /\ UNCHANGED <<container, status, lastStart, heartbeat>>

\* sendPower: the node first, then the status; a node that refuses is ignored.
Started == container' = "running"

AutoStart(r) ==
  /\ report[r].at = "power"
  /\ \/ Started /\ Go(r, "starting")
     \/ Answered(r) /\ UNCHANGED container
  /\ UNCHANGED <<status, restartAttempts, lastStart, heartbeat>>

WriteStarting(r) ==
  /\ report[r].at = "starting"
  /\ UpdateStatus("STARTING") /\ Answered(r)
  /\ UNCHANGED <<container, restartAttempts, heartbeat>>

\* The heartbeat's statuses are written over what differs, and that is all.
ReconcileServerStates ==
  /\ heartbeat # "none" /\ heartbeat' = "none"
  /\ IF status = heartbeat THEN UNCHANGED <<status, lastStart>> ELSE UpdateStatus(heartbeat)
  /\ UNCHANGED <<container, restartAttempts, report>>

-----------------------------------------------------------------------------
(***************************************************************************)
(* The owner starts it: the budget is cleared first, then as above.          *)
(***************************************************************************)
ClearAttempts(r) ==
  /\ report[r].at = "idle" /\ report' = [report EXCEPT ![r].at = "power"]
  /\ restartAttempts' = 0
  /\ UNCHANGED <<container, status, lastStart, heartbeat>>

Handle(r) == ReadServer(r) \/ WriteStatus(r) \/ ConsiderRestart(r) \/ AutoStart(r) \/ WriteStarting(r)

Next ==
  \/ \E how \in Ends : End(how)
  \/ MatchLine \/ EmitCurrentStatus \/ Heartbeat \/ Survive
  \/ \E r \in Report : ClearAttempts(r) \/ Handle(r)
  \/ ReconcileServerStates

\* What has arrived is answered.
Fairness == WF_vars(ReconcileServerStates) /\ \A r \in Report : WF_vars(Handle(r))

Spec == Init /\ [][Next]_vars /\ Fairness

-----------------------------------------------------------------------------
\* A server that fails again and again without a minute of life is left alone in
\* the end, however its reports overlap: the panel does not start it for ever
\* unless its owner keeps asking or it keeps lasting.
GivesUp ==
  []<><<\E r \in Report : AutoStart(r) /\ report'[r].at = "starting">>_vars
    => []<><<Survive \/ \E r \in Report : ClearAttempts(r)>>_vars
===============================================================================
