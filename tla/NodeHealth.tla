------------------------------- MODULE NodeHealth -------------------------------
(***************************************************************************)
(* Whether the panel takes a node to be there: heartbeats, the health button   *)
(* and the sweep for silent nodes, each of which reads the row and writes it    *)
(* later. Time is the age of the last heartbeat, against the cutoff.          *)
(***************************************************************************)
EXTENDS Naturals

CONSTANTS
  Beat,     \* heartbeats and health requests on their way at once
  Sweep,    \* runs of the maintenance job at once, on replicas of the panel
  MaxEdits  \* changes of the maintenance switch: a bound

HealthAssumption == MaxEdits \in Nat

VARIABLES
  up,          \* the agent runs and reaches the panel
  nodeStatus,      \* Node.status
  maintenance, \* Node.maintenanceMode
  lastHeartbeat, \* age of Node.lastHeartbeatAt: "never", "recent", "old"
  beat,        \* per heartbeat: what it read of the row
  sweep,       \* per sweep: where it is
  edits

vars == <<up, nodeStatus, maintenance, lastHeartbeat, beat, sweep, edits>>

\* DEGRADED is in the schema; nothing writes it.
Statuses == {"OFFLINE", "ONLINE", "MAINTENANCE"}

TypeOK ==
  /\ up \in BOOLEAN /\ maintenance \in BOOLEAN
  /\ nodeStatus \in Statuses
  /\ lastHeartbeat \in {"never", "recent", "old"}
  /\ beat \in [Beat -> [at : {"idle", "ask", "write", "announce"}, maintenance : BOOLEAN, wasOffline : BOOLEAN]]
  /\ sweep \in [Sweep -> {"idle", "mark", "announce"}]
  /\ edits \in 0 .. MaxEdits

Idle == [at |-> "idle", maintenance |-> FALSE, wasOffline |-> FALSE]

Init ==
  /\ up = FALSE /\ nodeStatus = "OFFLINE" /\ maintenance = FALSE /\ lastHeartbeat = "never"
  /\ beat = [b \in Beat |-> Idle] /\ sweep = [s \in Sweep |-> "idle"]
  /\ edits = 0

-----------------------------------------------------------------------------
\* The agent starts, stops, loses its network.
AgentStarts == ~up /\ up' = TRUE /\ UNCHANGED <<nodeStatus, maintenance, lastHeartbeat, beat, sweep, edits>>
AgentStops  == up /\ up' = FALSE /\ UNCHANGED <<nodeStatus, maintenance, lastHeartbeat, beat, sweep, edits>>

\* NODE_HEARTBEAT_TIMEOUT goes by.
Timeout ==
  /\ lastHeartbeat = "recent" /\ lastHeartbeat' = "old"
  /\ UNCHANGED <<up, nodeStatus, maintenance, beat, sweep, edits>>

\* The switch alone: the status follows with the next heartbeat.
EditMaintenance ==
  /\ edits < MaxEdits /\ edits' = edits + 1
  /\ maintenance' = ~maintenance
  /\ UNCHANGED <<up, nodeStatus, lastHeartbeat, beat, sweep>>

-----------------------------------------------------------------------------
(***************************************************************************)
(* A heartbeat is authenticated, which reads the node, and writes what it     *)
(* read; it announces a node that had been offline. The health button reads    *)
(* the node, asks the agent, and writes the same.                             *)
(***************************************************************************)
ReadNode(b, at) ==
  beat' = [beat EXCEPT ![b] = [at |-> at, maintenance |-> maintenance, wasOffline |-> nodeStatus = "OFFLINE"]]

AuthenticateNode(b) ==
  /\ up /\ beat[b].at = "idle" /\ ReadNode(b, "write")
  /\ UNCHANGED <<up, nodeStatus, maintenance, lastHeartbeat, sweep, edits>>

PressHealth(b) ==
  /\ beat[b].at = "idle" /\ ReadNode(b, "ask")
  /\ UNCHANGED <<up, nodeStatus, maintenance, lastHeartbeat, sweep, edits>>

AskAgent(b) ==
  /\ beat[b].at = "ask"
  /\ beat' = [beat EXCEPT ![b] = IF up THEN [@ EXCEPT !.at = "write", !.wasOffline = FALSE] ELSE Idle]
  /\ UNCHANGED <<up, nodeStatus, maintenance, lastHeartbeat, sweep, edits>>

Heard(b) == IF beat[b].maintenance THEN "MAINTENANCE" ELSE "ONLINE"

WriteHeartbeat(b) ==
  /\ beat[b].at = "write"
  /\ nodeStatus' = Heard(b) /\ lastHeartbeat' = "recent"
  /\ beat' = [beat EXCEPT ![b] = IF @.wasOffline THEN [@ EXCEPT !.at = "announce"] ELSE Idle]
  /\ UNCHANGED <<up, maintenance, sweep, edits>>

\* Broadcast, audit, webhook; the broadcast may throw, and the request ends either way.
AnnounceOnline(b) ==
  /\ beat[b].at = "announce" /\ beat' = [beat EXCEPT ![b] = Idle]
  /\ UNCHANGED <<up, nodeStatus, maintenance, lastHeartbeat, sweep, edits>>

-----------------------------------------------------------------------------
(***************************************************************************)
(* reconcileNodeHealth: the silent nodes are read, then each is marked, with   *)
(* the announcements of the ones before it in between.                        *)
(***************************************************************************)
Silent_NeverHeard == nodeStatus = "ONLINE" /\ lastHeartbeat = "never"
Silent == nodeStatus = "ONLINE" /\ lastHeartbeat \in {"never", "old"}

FindSilent(s) ==
  /\ sweep[s] = "idle" /\ Silent
  /\ sweep' = [sweep EXCEPT ![s] = "mark"]
  /\ UNCHANGED <<up, nodeStatus, maintenance, lastHeartbeat, beat, edits>>

\* Whatever the row says by now.
MarkOffline(s) ==
  /\ sweep[s] = "mark"
  /\ nodeStatus' = "OFFLINE" /\ sweep' = [sweep EXCEPT ![s] = "announce"]
  /\ UNCHANGED <<up, maintenance, lastHeartbeat, beat, edits>>

\* A job that throws, or whose worker dies, is over; the next one looks again.
EndSweep(s) ==
  /\ sweep[s] # "idle" /\ sweep' = [sweep EXCEPT ![s] = "idle"]
  /\ UNCHANGED <<up, nodeStatus, maintenance, lastHeartbeat, beat, edits>>

AnnounceOffline(s) == sweep[s] = "announce" /\ EndSweep(s)

Handle(b) == AskAgent(b) \/ WriteHeartbeat(b) \/ AnnounceOnline(b)

Next ==
  \/ AgentStarts \/ AgentStops \/ Timeout \/ EditMaintenance
  \/ \E b \in Beat : AuthenticateNode(b) \/ PressHealth(b) \/ Handle(b)
  \/ \E s \in Sweep : FindSilent(s) \/ MarkOffline(s) \/ EndSweep(s)

\* Requests are answered, the clock runs, the agent beats while it is up, and the
\* job that sweeps comes every minute: it may fail often, but not for ever.
Fairness ==
  /\ \A b \in Beat : WF_vars(Handle(b))
  /\ SF_vars(\E b \in Beat : AuthenticateNode(b))
  /\ WF_vars(Timeout)
  /\ SF_vars(\E s \in Sweep : MarkOffline(s))
  /\ WF_vars(\E s \in Sweep : FindSilent(s)) /\ WF_vars(\E s \in Sweep : AnnounceOffline(s))

Spec == Init /\ [][Next]_vars /\ Fairness

-----------------------------------------------------------------------------
\* A node that has gone silent does not stay ONLINE, and one that is heard again
\* does not stay OFFLINE, whichever of heartbeat, button and sweep wrote last; the
\* maintenance switch is heeded when it rests.
StatusFollows ==
  /\ <>[]~up => <>[](nodeStatus # "ONLINE")
  /\ <>[](up /\ ~maintenance) => []<>(nodeStatus = "ONLINE")
  /\ <>[](up /\ maintenance) => []<>(nodeStatus = "MAINTENANCE")
===============================================================================
