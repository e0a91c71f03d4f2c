------------------------------ MODULE FleetProofs ------------------------------
(***************************************************************************)
(* OneOfEach of MCFleet, for any number of heartbeats, sweeps, reports, openings,  *)
(* sockets, edits, presses and deliveries at once: the state of every part is of    *)
(* its type, a container has one stream, and a switch-off is announced once.       *)
(***************************************************************************)
EXTENDS MCFleet, TLAPS

-----------------------------------------------------------------------------
(***************************************************************************)
(* Node health: no type needs more than itself.                              *)
(***************************************************************************)
\* A step of the node's health keeps the type of its state (nodes.routes.ts, maintenance).
LEMMA HealthStep == ASSUME H!HealthAssumption, H!TypeOK, H!Next PROVE H!TypeOK'
<1>1. CASE H!AgentStarts \/ H!AgentStops
  BY <1>1 DEF H!TypeOK, H!AgentStarts, H!AgentStops
<1>2. CASE H!Timeout
  BY <1>2 DEF H!TypeOK, H!Timeout
<1>3. CASE H!EditMaintenance
  BY <1>3 DEF H!HealthAssumption, H!TypeOK, H!EditMaintenance
<1>4. ASSUME NEW b \in Beat, H!AuthenticateNode(b) \/ H!PressHealth(b) PROVE H!TypeOK'
  <2>1. PICK at \in {"ask", "write"}, w \in BOOLEAN :
          beat' = [beat EXCEPT ![b] = [at |-> at, maintenance |-> maintenance, wasOffline |-> w]]
    BY <1>4, Zenon DEF H!AuthenticateNode, H!PressHealth, H!ReadNode
  <2>2. UNCHANGED <<up, nodeStatus, maintenance, lastHeartbeat, sweep, edits>>
    BY <1>4 DEF H!AuthenticateNode, H!PressHealth
  <2> QED BY <2>1, <2>2 DEF H!TypeOK
<1>5. ASSUME NEW b \in Beat, H!AskAgent(b) PROVE H!TypeOK'
  BY <1>5 DEF H!TypeOK, H!AskAgent, H!Idle
<1>6. ASSUME NEW b \in Beat, H!WriteHeartbeat(b) PROVE H!TypeOK'
  <2>1. H!Heard(b) \in H!Statuses BY DEF H!Heard, H!Statuses
  <2> QED BY <1>6, <2>1 DEF H!TypeOK, H!WriteHeartbeat, H!Idle
<1>8. ASSUME NEW b \in Beat, H!AnnounceOnline(b) PROVE H!TypeOK'
  BY <1>8 DEF H!TypeOK, H!AnnounceOnline, H!Idle
<1>7. ASSUME NEW s \in Sweep, H!FindSilent(s) \/ H!MarkOffline(s) \/ H!EndSweep(s) PROVE H!TypeOK'
  BY <1>7 DEF H!TypeOK, H!FindSilent, H!MarkOffline, H!EndSweep, H!Statuses
<1> QED BY <1>1, <1>2, <1>3, <1>4, <1>5, <1>6, <1>7, <1>8 DEF H!Next, H!Handle

-----------------------------------------------------------------------------
(***************************************************************************)
(* Automatic restarts.                                                     *)
(***************************************************************************)
\* What a crash makes of the count stays below its ceiling, whatever row was read.
LEMMA AttemptsBounded == ASSUME R!RestartAssumption, R!TypeOK PROVE R!Attempts \in R!Counts
BY DEF R!RestartAssumption, R!TypeOK, R!Attempts, R!Counts, R!Ceiling

\* A report that is sent, or lost, leaves the reports of their type.
LEMMA SendTyped ==
  ASSUME R!RestartAssumption, R!TypeOK, NEW says \in R!Statuses, NEW oom \in BOOLEAN, R!Send(says, oom)
  PROVE  (report \in [Report -> [at : {"idle", "sent", "update", "count", "power", "starting"},
                                 status : R!Statuses, oom : BOOLEAN, attempts : R!Counts]])'
<1>1. 0 \in R!Counts BY DEF R!RestartAssumption, R!Counts, R!Ceiling
<1> QED BY <1>1 DEF R!TypeOK, R!Send, R!Idle, R!Statuses

\* A step of the automatic restarts keeps the type of its state.
LEMMA RestartStep == ASSUME R!RestartAssumption, R!TypeOK, R!Next PROVE R!TypeOK'
<1>0. 0 \in R!Counts /\ R!Idle \in [at : {"idle"}, status : R!Statuses, oom : BOOLEAN, attempts : R!Counts]
  BY DEF R!RestartAssumption, R!Counts, R!Ceiling, R!Idle, R!Statuses
<1>1. ASSUME NEW how \in R!Ends, R!End(how) PROVE R!TypeOK'
  BY <1>1, SendTyped DEF R!TypeOK, R!End, R!Ends, R!Statuses
<1>2. CASE R!MatchLine
  BY <1>2, SendTyped DEF R!TypeOK, R!MatchLine, R!Statuses
<1>3. CASE R!EmitCurrentStatus
  <2>1. R!StatusWithReason \in R!Statuses BY DEF R!StatusWithReason, R!Statuses
  <2> QED BY <1>3, <2>1, SendTyped DEF R!TypeOK, R!EmitCurrentStatus
<1>4. CASE R!Heartbeat \/ R!Survive \/ R!ReconcileServerStates
  BY <1>4 DEF R!TypeOK, R!Heartbeat, R!Survive, R!ReconcileServerStates, R!StatusWithReason, R!UpdateStatus, R!Statuses
<1>5. ASSUME NEW r \in Report, R!ClearAttempts(r) PROVE R!TypeOK'
  BY <1>0, <1>5 DEF R!TypeOK, R!ClearAttempts
<1>6. ASSUME NEW r \in Report, R!ReadServer(r) PROVE R!TypeOK'
  <2>1. \/ report' = [report EXCEPT ![r] = R!Idle]
        \/ report' = [report EXCEPT ![r].at = "update"]
        \/ report' = [report EXCEPT ![r] = [@ EXCEPT !.at = "update", !.attempts = R!Attempts]]
    BY <1>6 DEF R!ReadServer, R!Answered, R!Go
  <2>2. [report[r] EXCEPT !.at = "update", !.attempts = R!Attempts] \in
          [at : {"update"}, status : R!Statuses, oom : BOOLEAN, attempts : R!Counts]
    BY AttemptsBounded DEF R!TypeOK
  <2>3. UNCHANGED <<container, status, restartAttempts, lastStart, heartbeat>> BY <1>6 DEF R!ReadServer
  <2> DEFINE Reports == [at : {"idle", "sent", "update", "count", "power", "starting"},
                         status : R!Statuses, oom : BOOLEAN, attempts : R!Counts]
  <2>4. report \in [Report -> Reports] BY DEF R!TypeOK
  <2>5. ASSUME report' = [report EXCEPT ![r] = R!Idle]
        PROVE  report' \in [Report -> Reports]
    <3>1. R!Idle \in Reports BY <1>0
    <3> HIDE DEF Reports
    <3> QED BY <2>4, <2>5, <3>1
  <2>6. ASSUME report' = [report EXCEPT ![r].at = "update"]
        PROVE  report' \in [Report -> Reports]
    BY <2>4, <2>6
  <2>7. ASSUME report' = [report EXCEPT ![r] = [@ EXCEPT !.at = "update", !.attempts = R!Attempts]]
        PROVE  report' \in [Report -> Reports]
    <3>1. [report[r] EXCEPT !.at = "update", !.attempts = R!Attempts] \in Reports BY <2>2
    <3> HIDE DEF Reports
    <3> QED BY <2>4, <2>7, <3>1
  <2>8. report' \in [Report -> Reports] BY <2>1, <2>5, <2>6, <2>7
  <2> QED BY <2>3, <2>8 DEF R!TypeOK
<1>7. ASSUME NEW r \in Report, R!WriteStatus(r) \/ R!WriteStarting(r) PROVE R!TypeOK'
  BY <1>0, <1>7 DEF R!TypeOK, R!WriteStatus, R!WriteStarting, R!UpdateStatus, R!Answered, R!Go, R!Statuses
<1>8. ASSUME NEW r \in Report, R!ConsiderRestart(r) \/ R!AutoStart(r) PROVE R!TypeOK'
  BY <1>0, <1>8 DEF R!TypeOK, R!ConsiderRestart, R!AutoStart, R!Started, R!Answered, R!Go
<1> QED BY <1>1, <1>2, <1>3, <1>4, <1>5, <1>6, <1>7, <1>8 DEF R!Next, R!Handle

-----------------------------------------------------------------------------
(***************************************************************************)
(* The console. That one stream publishes rests on who may open one: the opening   *)
(* that is under way is the one attaching names, it finds no attachment until it    *)
(* makes its own, and a stream publishes only for the attachment.                 *)
(***************************************************************************)
OneOpening ==
  \A o \in Opening : /\ opening[o] # "none" => attaching = o
                     /\ opening[o] \in {"inspect", "attach"} => attachment = NoOpening

StreamIsAttached == stream = IF attachment = NoOpening THEN {} ELSE {attachment}

ConsoleInv == C!TypeOK /\ OneOpening /\ StreamIsAttached

\* At most one stream, when streams are those of the attachment.
LEMMA OneStreamAttached == ASSUME StreamIsAttached PROVE C!OneStream
BY DEF StreamIsAttached, C!OneStream

\* The panel's end of a socket, as C!TypeOK has it.
SocketEnd == [at : {"free", "setup", "open", "orphan"}, upstream : {"none", "dialling", "open"},
              attempts : 0 .. MaxUpstreamAttempts + 1, retry : BOOLEAN, told : BOOLEAN]

\* What the panel makes of a socket that lost its node is a socket.
LEMMA ReconnectTyped ==
  ASSUME C!ConsoleAssumption, NEW s \in SocketEnd PROVE C!ScheduleReconnect(s) \in SocketEnd
<1>1. CASE s.retry
  BY <1>1 DEF C!ScheduleReconnect, SocketEnd
<1>2. CASE ~s.retry /\ s.attempts >= MaxUpstreamAttempts
  <2>1. MaxUpstreamAttempts + 1 \in 0 .. MaxUpstreamAttempts + 1 BY DEF C!ConsoleAssumption
  <2>2. C!ScheduleReconnect(s) = [s EXCEPT !.upstream = "none", !.attempts = MaxUpstreamAttempts + 1, !.told = TRUE]
    BY <1>2 DEF C!ScheduleReconnect
  <2> QED BY <2>1, <2>2 DEF SocketEnd
<1>3. CASE ~s.retry /\ ~(s.attempts >= MaxUpstreamAttempts)
  <2>1. s.attempts + 1 \in 0 .. MaxUpstreamAttempts + 1 BY <1>3 DEF C!ConsoleAssumption, SocketEnd
  <2>2. C!ScheduleReconnect(s) = [s EXCEPT !.upstream = "none", !.attempts = s.attempts + 1, !.retry = TRUE]
    BY <1>3 DEF C!ScheduleReconnect
  <2> QED BY <2>1, <2>2 DEF SocketEnd
<1> QED BY <1>1, <1>2, <1>3

\* The node's end: an attachment is opened, gets its stream, or loses it.
LEMMA NodeEndStep ==
  ASSUME C!ConsoleAssumption, ConsoleInv,
         \/ C!Attach \/ C!ContainerStarts \/ C!ContainerEnds \/ C!StreamError
         \/ \E o \in Opening : C!Open(o)
  PROVE  ConsoleInv'
<1> USE DEF ConsoleInv, C!TypeOK, OneOpening, StreamIsAttached
<1>1. CASE C!Attach
  BY <1>1 DEF C!ConsoleAssumption, C!Attach, C!Shared, C!Unused
<1>2. CASE C!ContainerStarts
  BY <1>2 DEF C!ContainerStarts, C!node
<1>3. CASE C!ContainerEnds
  <2>1. attachment' = NoOpening /\ stream' = {} /\ faults' \in 0 .. MaxFaults
    BY <1>3 DEF C!ConsoleAssumption, C!ContainerEnds, C!Detach, C!Fault
  <2> QED BY <1>3, <2>1 DEF C!ContainerEnds
<1>4. CASE C!StreamError
  <2>1. attachment' = NoOpening /\ stream' = {} /\ faults' \in 0 .. MaxFaults
    BY <1>4 DEF C!ConsoleAssumption, C!StreamError, C!Detach, C!Fault
  <2> QED BY <1>4, <2>1 DEF C!StreamError
<1>5. ASSUME NEW o \in Opening, C!Inspect(o) PROVE ConsoleInv'
  BY <1>5 DEF C!ConsoleAssumption, C!Inspect, C!Over
<1>6. ASSUME NEW o \in Opening, C!OpenStream(o) PROVE ConsoleInv'
  BY <1>6 DEF C!ConsoleAssumption, C!OpenStream, C!Over
<1>7. ASSUME NEW o \in Opening, C!OpenStats(o) \/ C!ReadLogs(o) PROVE ConsoleInv'
  BY <1>7 DEF C!ConsoleAssumption, C!OpenStats, C!ReadLogs, C!Over
<1> QED BY <1>1, <1>2, <1>3, <1>4, <1>5, <1>6, <1>7 DEF C!Open

\* What is left to show of a step that leaves the node's entries alone.
LEMMA BesideNode ==
  ASSUME ConsoleInv, UNCHANGED C!node,
         agentUp' \in BOOLEAN, running' \in BOOLEAN, faults' \in 0 .. MaxFaults,
         tab' \in [open : BOOLEAN, socket : Socket \cup {NoSocket}, timer : BOOLEAN],
         socket' \in [Socket -> SocketEnd]
  PROVE  ConsoleInv'
BY DEF ConsoleInv, C!TypeOK, C!node, SocketEnd, OneOpening, StreamIsAttached

\* The panel's end: whatever happens to a socket, it stays one.
LEMMA PanelEndStep ==
  ASSUME C!ConsoleAssumption, ConsoleInv, NEW k \in Socket, C!Serve(k) \/ C!UpstreamCloses(k)
  PROVE  ConsoleInv'
<1>1. socket \in [Socket -> SocketEnd] BY DEF ConsoleInv, C!TypeOK, SocketEnd
<1>2. socket[k] \in SocketEnd /\ C!ScheduleReconnect(socket[k]) \in SocketEnd BY <1>1, ReconnectTyped
<1>3. socket' \in [Socket -> SocketEnd]
  <2>1. CASE C!ConnectUpstream(k)
    BY <1>1, <1>2, <2>1 DEF C!ConnectUpstream, SocketEnd
  <2>2. CASE C!Handshake(k)
    <3>1. 0 \in 0 .. MaxUpstreamAttempts + 1 BY DEF C!ConsoleAssumption
    <3>3. [socket[k] EXCEPT !.upstream = "open", !.attempts = 0] \in SocketEnd
      BY <1>2, <3>1 DEF SocketEnd
    <3> QED BY <1>1, <1>2, <2>2, <3>3 DEF C!Handshake
  <2>3. CASE C!RetryFires(k)
    <3>1. [socket[k] EXCEPT !.retry = FALSE, !.upstream = "dialling"] \in SocketEnd
      BY <1>2 DEF SocketEnd
    <3> QED BY <1>1, <2>3, <3>1 DEF C!RetryFires
  <2>4. CASE C!UpstreamCloses(k)
    BY <1>1, <1>2, <2>4 DEF C!UpstreamCloses
  <2> QED BY <2>1, <2>2, <2>3, <2>4 DEF C!Serve
<1>4. faults' \in 0 .. MaxFaults /\ UNCHANGED <<agentUp, running, C!node, tab>>
  BY DEF ConsoleInv, C!TypeOK, C!ConsoleAssumption, C!Serve, C!ConnectUpstream, C!Handshake, C!RetryFires, C!UpstreamCloses, C!Fault
<1> QED BY <1>3, <1>4, BesideNode DEF ConsoleInv, C!TypeOK

\* The page: it takes a socket that is free, and gives it up.
LEMMA PageStep ==
  ASSUME C!ConsoleAssumption, ConsoleInv, C!OpenPage \/ C!Connect \/ C!ClosePage \/ C!SocketLost
  PROVE  ConsoleInv'
<1>1. socket \in [Socket -> SocketEnd] /\ tab.socket \in Socket \cup {NoSocket}
  BY DEF ConsoleInv, C!TypeOK, SocketEnd
<1>2. C!Free \in SocketEnd /\ [C!Free EXCEPT !.at = "setup"] \in SocketEnd
  <2>1. 0 \in 0 .. MaxUpstreamAttempts + 1 BY DEF C!ConsoleAssumption
  <2> QED BY <2>1 DEF C!Free, SocketEnd
<1>3. socket' \in [Socket -> SocketEnd]
  BY <1>1, <1>2 DEF C!OpenPage, C!Connect, C!InUse, C!ClosePage, C!SocketLost, C!Closed
<1>4. tab' \in [open : BOOLEAN, socket : Socket \cup {NoSocket}, timer : BOOLEAN]
  <2>1. CASE C!OpenPage \/ C!ClosePage
    <3>1. PICK open \in BOOLEAN : tab' = [open |-> open, socket |-> NoSocket, timer |-> open]
      BY <2>1, Zenon DEF C!OpenPage, C!ClosePage
    <3> QED BY <3>1
  <2>2. CASE C!Connect
    BY <2>2 DEF ConsoleInv, C!TypeOK, C!Connect, C!InUse
  <2>3. CASE C!SocketLost
    BY <2>3 DEF ConsoleInv, C!TypeOK, C!SocketLost
  <2> QED BY <2>1, <2>2, <2>3
<1>5. faults' \in 0 .. MaxFaults /\ UNCHANGED <<agentUp, running, C!node>>
  <2>1. CASE C!OpenPage \/ C!Connect
    BY <2>1 DEF ConsoleInv, C!TypeOK, C!OpenPage, C!Connect, C!node
  <2>2. CASE C!ClosePage \/ C!SocketLost
    BY <2>2 DEF ConsoleInv, C!TypeOK, C!ConsoleAssumption, C!ClosePage, C!SocketLost, C!Fault, C!node
  <2> QED BY <2>1, <2>2
<1> QED BY <1>3, <1>4, <1>5, BesideNode DEF ConsoleInv, C!TypeOK

\* The agent: it comes up with nothing open, and its end takes everything along.
LEMMA AgentStep ==
  ASSUME C!ConsoleAssumption, ConsoleInv, C!AgentStarts \/ C!AgentStops
  PROVE  ConsoleInv'
<1>1. socket \in [Socket -> SocketEnd] BY DEF ConsoleInv, C!TypeOK, SocketEnd
<1>2. CASE C!AgentStarts
  BY <1>1, <1>2, BesideNode DEF ConsoleInv, C!TypeOK, C!AgentStarts
<1>3. CASE C!AgentStops
  <2>1. socket' \in [Socket -> SocketEnd]
    BY <1>1, <1>3, ReconnectTyped DEF C!AgentStops
  <2>2. faults' \in 0 .. MaxFaults
    BY <1>3 DEF ConsoleInv, C!TypeOK, C!ConsoleAssumption, C!AgentStops, C!Fault
  <2>3. attachment' = NoOpening /\ attaching' = NoOpening /\ stream' = {} /\ agentUp' = FALSE
        /\ opening' = [o \in Opening |-> "none"] /\ UNCHANGED <<running, tab>>
    BY <1>3 DEF C!AgentStops
  <2>4. C!TypeOK'
    BY <2>1, <2>2, <2>3 DEF ConsoleInv, C!TypeOK, SocketEnd
  <2> QED BY <2>3, <2>4 DEF ConsoleInv, OneOpening, StreamIsAttached
<1> QED BY <1>2, <1>3

\* Together: the console's invariant is inductive.
LEMMA ConsoleStep == ASSUME C!ConsoleAssumption, ConsoleInv, C!Next PROVE ConsoleInv'
BY NodeEndStep, PanelEndStep, PageStep, AgentStep DEF C!Next

-----------------------------------------------------------------------------
(***************************************************************************)
(* Specs and power. A spec that is on its way to the agent is one the row once     *)
(* had, so what the agent remembers, and makes a container from, is a spec.        *)
(***************************************************************************)
Carries(w) == w.at \in {"register", "remove", "create"} => w.spec \in V!Version

SpecInv ==
  /\ V!TypeOK
  /\ \A e \in Editor : Carries(push[e])
  /\ \A p \in Press : Carries(press[p])

AtPush  == [at : V!Pushing \cup {"idle"}, spec : V!Version \cup {V!None}]
AtPress == [at : {"idle"} \cup V!Pushing \cup V!AtAgent, again : BOOLEAN, spec : V!Version \cup {V!None},
            action : {"start", "stop", "restart", "kill"}]

\* A step of the way to the node: what it does to the agent's memory and to the container,
\* and the spec that goes on with it.
LEMMA PushTyped ==
  ASSUME V!ServerSpecAssumption, SpecInv, NEW w, w \in AtPush \/ w \in AtPress, Carries(w), V!Pushes(w)
  PROVE  /\ memory' \in V!Version \cup {V!None}
         /\ game' \in [spec : V!Version, exists : BOOLEAN, running : BOOLEAN]
         /\ game'.running => game'.exists
         /\ V!SpecOf(w) \in V!Version
<1>1. w.at \in V!Pushing /\ w.spec \in V!Version \cup {V!None} BY DEF AtPush, AtPress, V!Pushes, V!BuildAgentSpec,
        V!RegisterSpec, V!RemoveContainer, V!CreateContainer, V!Pushing
<1>2. V!SpecOf(w) \in V!Version
  BY <1>1 DEF SpecInv, V!TypeOK, V!SpecOf, Carries, V!Pushing
<1>3. memory' \in V!Version \cup {V!None}
  BY <1>1 DEF SpecInv, V!TypeOK, V!Pushes, V!BuildAgentSpec, V!RegisterSpec, V!RemoveContainer, V!CreateContainer
<1>4. game' \in [spec : V!Version, exists : BOOLEAN, running : BOOLEAN] /\ (game'.running => game'.exists)
  <2>1. CASE V!BuildAgentSpec(w) \/ V!RegisterSpec(w)
    BY <2>1 DEF SpecInv, V!TypeOK, V!BuildAgentSpec, V!RegisterSpec
  <2>2. CASE V!RemoveContainer(w)
    BY <2>2 DEF SpecInv, V!TypeOK, V!RemoveContainer
  <2>3. CASE V!CreateContainer(w)
    BY <2>3 DEF SpecInv, V!TypeOK, V!CreateContainer, Carries
  <2> QED BY <2>1, <2>2, <2>3 DEF V!Pushes
<1> QED BY <1>2, <1>3, <1>4

\* The edits, and their way to the node.
LEMMA EditStep ==
  ASSUME V!ServerSpecAssumption, SpecInv, NEW e \in Editor, V!Edits(e) \/ V!PushStep(e)
  PROVE  SpecInv'
<1>1. push \in [Editor -> AtPush] /\ V!Calm \in AtPush /\ ~(V!Calm.at \in {"register", "remove", "create"})
  BY DEF SpecInv, V!TypeOK, AtPush, V!Calm
<1>2. CASE V!UpdateServer(e) \/ V!UpdateVariables(e)
  <2>1. row' \in [spec : V!Version, locked : {"given", "default"}]
    BY <1>2 DEF SpecInv, V!TypeOK, V!ServerSpecAssumption, V!UpdateServer, V!UpdateVariables, V!Saves, V!BuildEnvironment, V!Version
  <2>2. push' = [push EXCEPT ![e].at = "build"] /\ UNCHANGED <<memory, game, files, press, presses, broken>>
    BY <1>2 DEF V!UpdateServer, V!UpdateVariables, V!Saves
  <2>3. push' \in [Editor -> AtPush] /\ \A f \in Editor : Carries(push[f])'
    BY <1>1, <2>2 DEF SpecInv, AtPush, Carries, V!Pushing
  <2> QED BY <2>1, <2>2, <2>3 DEF SpecInv, V!TypeOK, AtPush, Carries
<1>3. CASE V!PushFails(e)
  <2>1. push' \in [Editor -> AtPush] /\ \A f \in Editor : Carries(push[f])'
    BY <1>1, <1>3 DEF SpecInv, V!PushFails, Carries
  <2>2. broken' \in 0 .. MaxBroken /\ UNCHANGED <<row, memory, game, files, press, presses>>
    BY <1>3 DEF SpecInv, V!TypeOK, V!ServerSpecAssumption, V!PushFails, V!Fault
  <2> QED BY <2>1, <2>2 DEF SpecInv, V!TypeOK, AtPush, Carries
<1>4. CASE V!PushStep(e)
  <2>1. V!Pushes(push[e]) /\ push[e] \in AtPush /\ Carries(push[e]) BY <1>1, <1>4 DEF SpecInv, V!PushStep
  <2>2. V!SpecOf(push[e]) \in V!Version BY <2>1, PushTyped
  <2>3. push[e].at \in V!Pushing BY <1>1, <1>4 DEF AtPush, V!PushStep
  <2>4. push[e].at # "create" => V!Stage[push[e].at] \in {"register", "remove", "create"}
    BY <2>3 DEF V!Stage, V!Pushing
  <2>5. push' \in [Editor -> AtPush] /\ \A f \in Editor : Carries(push[f])'
    BY <1>1, <1>4, <2>2, <2>4 DEF SpecInv, V!PushStep, AtPush, Carries, V!Pushing
  <2>6. UNCHANGED <<row, files, press, presses, broken>> BY <1>4 DEF V!PushStep
  <2> QED BY <2>1, <2>5, <2>6, PushTyped DEF SpecInv, V!TypeOK, AtPush, Carries
<1> QED BY <1>2, <1>3, <1>4 DEF V!Edits

\* What a power request leaves: its own way, the container, the game's files.
LEMMA PressTyped ==
  ASSUME SpecInv,
         press' \in [Press -> AtPress], \A p \in Press : Carries(press[p])',
         game' \in [spec : V!Version, exists : BOOLEAN, running : BOOLEAN], game'.running => game'.exists,
         memory' \in V!Version \cup {V!None}, files' \in V!Version,
         presses' \in 0 .. MaxPresses, broken' \in 0 .. MaxBroken,
         UNCHANGED <<row, push>>
  PROVE  SpecInv'
BY DEF SpecInv, V!TypeOK, AtPress, Carries

\* Power requests, and what the agent does with them.
LEMMA PowerStep ==
  ASSUME V!ServerSpecAssumption, SpecInv, NEW p \in Press,
         V!Powers(p) \/ V!PressFails(p) \/ \E action \in V!Ups \cup {"stop", "kill"} : V!SendPower(p, action)
  PROVE  SpecInv'
<1>1. press \in [Press -> AtPress] /\ V!NoPress \in AtPress /\ Carries(V!NoPress)
  BY DEF SpecInv, V!TypeOK, AtPress, V!NoPress, Carries
<1>2. /\ game \in [spec : V!Version, exists : BOOLEAN, running : BOOLEAN] /\ (game.running => game.exists)
      /\ memory \in V!Version \cup {V!None} /\ files \in V!Version
      /\ presses \in 0 .. MaxPresses /\ broken \in 0 .. MaxBroken
      /\ \A q \in Press : Carries(press[q])
  BY DEF SpecInv, V!TypeOK
\* A request that is over, or goes on at the agent with no spec of its own.
<1>3. ASSUME press' = [press EXCEPT ![p] = V!NoPress] \/ \E at \in {"config", "inspect", "stopping", "go"} : V!Goes(p, at)
      PROVE  press' \in [Press -> AtPress] /\ \A q \in Press : Carries(press[q])'
  <2>1. CASE press' = [press EXCEPT ![p] = V!NoPress]
    BY <1>1, <1>2, <2>1 DEF Carries
  <2>2. ASSUME NEW at \in {"config", "inspect", "stopping", "go"}, V!Goes(p, at)
        PROVE  press' \in [Press -> AtPress] /\ \A q \in Press : Carries(press[q])'
    BY <1>1, <1>2, <2>2 DEF V!Goes, AtPress, V!AtAgent, Carries
  <2> QED BY <1>3, <2>1, <2>2
<1>4. CASE V!ApplyConfigFiles(p)
  <2>1. files' \in V!Version BY <1>2, <1>4 DEF V!ApplyConfigFiles
  <2>2. V!Goes(p, "inspect") /\ UNCHANGED <<row, memory, game, push, presses, broken>> BY <1>4 DEF V!ApplyConfigFiles
  <2> QED BY <1>2, <1>3, <2>1, <2>2, PressTyped
<1>5. CASE V!Inspect(p)
  <2>1. UNCHANGED <<row, memory, files, push, presses, broken>> BY <1>5 DEF V!Inspect
  <2>2. game' = game \/ game' = [game EXCEPT !.running = FALSE] BY <1>5 DEF V!Inspect, V!Over, V!Goes
  <2>3. \/ press' = [press EXCEPT ![p] = [@ EXCEPT !.at = "build", !.again = TRUE]]
        \/ press' = [press EXCEPT ![p] = V!NoPress]
        \/ V!Goes(p, "go") \/ V!Goes(p, "stopping")
    BY <1>5 DEF V!Inspect, V!Over
  <2>4. press' \in [Press -> AtPress] /\ \A q \in Press : Carries(press[q])'
    <3>1. CASE press' = [press EXCEPT ![p] = [@ EXCEPT !.at = "build", !.again = TRUE]]
      <4>1. [press[p] EXCEPT !.at = "build", !.again = TRUE] \in AtPress BY <1>1 DEF AtPress, V!Pushing
      <4> QED BY <1>1, <1>2, <3>1, <4>1 DEF Carries, AtPress
    <3> QED BY <1>3, <2>3, <3>1
  <2>5. game' \in [spec : V!Version, exists : BOOLEAN, running : BOOLEAN] /\ (game'.running => game'.exists)
    BY <1>2, <2>2
  <2> QED BY <1>2, <2>1, <2>4, <2>5, PressTyped
<1>6. CASE V!RepairStep(p)
  <2>1. V!Pushes(press[p]) /\ press[p] \in AtPress /\ Carries(press[p]) /\ press[p].at \in V!Pushing
    BY <1>1, <1>2, <1>6 DEF V!RepairStep
  <2>2. PICK at \in {"config", "register", "remove", "create"} :
          press' = [press EXCEPT ![p] = [@ EXCEPT !.at = at, !.spec = V!SpecOf(press[p])]]
    <3>1. press' = [press EXCEPT ![p] = [@ EXCEPT !.spec = V!SpecOf(press[p]),
                       !.at = IF press[p].at = "create" THEN "config" ELSE V!Stage[press[p].at]]]
      BY <1>6 DEF V!RepairStep
    <3>2. (IF press[p].at = "create" THEN "config" ELSE V!Stage[press[p].at]) \in {"config", "register", "remove", "create"}
      BY <2>1 DEF V!Stage, V!Pushing
    <3>3. \A at, spec : [press[p] EXCEPT !.spec = spec, !.at = at] = [press[p] EXCEPT !.at = at, !.spec = spec]
      BY <2>1 DEF AtPress
    <3> QED BY <3>1, <3>2, <3>3
  <2>3. V!SpecOf(press[p]) \in V!Version BY <2>1, PushTyped
  <2>4. press' \in [Press -> AtPress] /\ \A q \in Press : Carries(press[q])'
    <3>1. [press[p] EXCEPT !.at = at, !.spec = V!SpecOf(press[p])] \in AtPress
      BY <2>1, <2>3 DEF AtPress, V!Pushing, V!AtAgent
    <3>2. [press[p] EXCEPT !.at = at, !.spec = V!SpecOf(press[p])].spec = V!SpecOf(press[p])
      BY <2>1 DEF AtPress
    <3> QED BY <1>1, <1>2, <2>2, <2>3, <3>1, <3>2 DEF Carries
  <2>5. UNCHANGED <<row, files, push, presses, broken>> BY <1>6 DEF V!RepairStep
  <2> QED BY <1>2, <2>1, <2>4, <2>5, PushTyped, PressTyped
<1>7. CASE V!GracefulStop(p) \/ V!StartContainer(p)
  <2>1. UNCHANGED <<row, memory, files, push, presses, broken>> BY <1>7 DEF V!GracefulStop, V!StartContainer
  <2>2. game' = [game EXCEPT !.running = FALSE] \/ game' = [game EXCEPT !.running = game.exists]
    BY <1>7 DEF V!GracefulStop, V!StartContainer
  <2>3. press' = [press EXCEPT ![p] = V!NoPress] \/ V!Goes(p, "go")
    BY <1>7 DEF V!GracefulStop, V!StartContainer, V!Over
  <2>4. game' \in [spec : V!Version, exists : BOOLEAN, running : BOOLEAN] /\ (game'.running => game'.exists)
    BY <1>2, <2>2
  <2> QED BY <1>2, <1>3, <2>1, <2>3, <2>4, PressTyped
<1>8. CASE V!PressFails(p)
  <2>1. broken' \in 0 .. MaxBroken BY <1>2, <1>8 DEF V!PressFails, V!Fault, V!ServerSpecAssumption
  <2>2. press' = [press EXCEPT ![p] = V!NoPress] /\ UNCHANGED <<row, memory, game, files, push, presses>>
    BY <1>8 DEF V!PressFails, V!Over
  <2> QED BY <1>2, <1>3, <2>1, <2>2, PressTyped
<1>9. ASSUME NEW action \in V!Ups \cup {"stop", "kill"}, V!SendPower(p, action) PROVE SpecInv'
  <2>1. presses' \in 0 .. MaxPresses
    <3>1. presses' = presses \/ (presses < MaxPresses /\ presses' = presses + 1)
      BY <1>9 DEF V!SendPower
    <3> QED BY <1>2, <3>1 DEF V!ServerSpecAssumption
  <2>2. UNCHANGED <<row, memory, game, files, push, broken>> BY <1>9 DEF V!SendPower
  <2>3. PICK at \in {"config", "inspect"} : press' = [press EXCEPT ![p] = [V!NoPress EXCEPT !.at = at, !.action = action]]
    BY <1>9 DEF V!SendPower
  <2>4. [V!NoPress EXCEPT !.at = at, !.action = action] \in AtPress BY <1>1 DEF AtPress, V!AtAgent, V!Ups
  <2>5. press' \in [Press -> AtPress] /\ \A q \in Press : Carries(press[q])'
    BY <1>1, <1>2, <2>3, <2>4 DEF Carries, AtPress
  <2> QED BY <1>2, <2>1, <2>2, <2>5, PressTyped
<1> QED BY <1>4, <1>5, <1>6, <1>7, <1>8, <1>9 DEF V!Powers

\* The node: the agent forgets, a game ends, a container is taken away.
LEMMA SpecNodeStep ==
  ASSUME V!ServerSpecAssumption, SpecInv, V!AgentRestarts \/ V!GameEnds \/ V!OperatorRemoves
  PROVE  SpecInv'
<1>1. broken' \in 0 .. MaxBroken
  BY DEF SpecInv, V!TypeOK, V!ServerSpecAssumption, V!AgentRestarts, V!GameEnds, V!OperatorRemoves, V!Fault
<1>2. CASE V!AgentRestarts
  <2>1. \A e \in Editor : push'[e] = push[e] \/ push'[e] = V!Calm
    BY <1>2 DEF V!AgentRestarts
  <2>2. push' \in [Editor -> AtPush] /\ \A e \in Editor : Carries(push[e])'
    <3>1. V!Calm \in AtPush /\ Carries(V!Calm) BY DEF V!Calm, AtPush, Carries
    <3> QED BY <1>2, <3>1 DEF V!AgentRestarts, SpecInv, V!TypeOK, AtPush, Carries
  <2>3. press' \in [Press -> AtPress] /\ \A p \in Press : Carries(press[p])'
    <3>1. V!NoPress \in AtPress /\ Carries(V!NoPress) BY DEF V!NoPress, AtPress, Carries
    <3> QED BY <1>2, <3>1 DEF V!AgentRestarts, SpecInv, V!TypeOK, AtPress, Carries
  <2>4. memory' = V!None /\ UNCHANGED <<row, game, files, presses>> BY <1>2 DEF V!AgentRestarts
  <2> QED BY <1>1, <2>2, <2>3, <2>4 DEF SpecInv, V!TypeOK, AtPush, AtPress
<1>3. CASE V!GameEnds \/ V!OperatorRemoves
  <2>1. game' \in [spec : V!Version, exists : BOOLEAN, running : BOOLEAN] /\ (game'.running => game'.exists)
    BY <1>3 DEF SpecInv, V!TypeOK, V!GameEnds, V!OperatorRemoves
  <2>2. UNCHANGED <<row, memory, files, push, press, presses>> BY <1>3 DEF V!GameEnds, V!OperatorRemoves
  <2> QED BY <1>1, <2>1, <2>2 DEF SpecInv, V!TypeOK, Carries
<1> QED BY <1>2, <1>3

\* Together: the invariant of specs is inductive.
LEMMA SpecStep == ASSUME V!ServerSpecAssumption, SpecInv, V!Next PROVE SpecInv'
BY EditStep, PowerStep, SpecNodeStep DEF V!Next

-----------------------------------------------------------------------------
(***************************************************************************)
(* The webhook. A hook that is on has not been announced since it was switched on:  *)
(* whoever announces has switched it off in the same transaction.                 *)
(***************************************************************************)
WebhookInv == W!TypeOK /\ told \in 0 .. 1 /\ (hook.active => told = 0)

\* A step of the hook or of a delivery keeps it, however many have failed at once.
LEMMA WebhookStep == ASSUME W!WebhooksAssumption, WebhookInv, W!Next PROVE WebhookInv'
<1>0. /\ W!NoHook \in [exists : BOOLEAN, active : BOOLEAN, failures : 0 .. Limit + 1, disabled : BOOLEAN]
      /\ W!Free \in [at : {"free"}, attempt : 1 .. MaxAttempts, ok : BOOLEAN]
      /\ ~W!NoHook.active
  BY DEF W!WebhooksAssumption, W!NoHook, W!Free
<1>1. CASE W!Create
  <2>1. PICK active \in BOOLEAN : hook' = [W!NoHook EXCEPT !.exists = TRUE, !.active = active] BY <1>1 DEF W!Create
  <2>2. hook' \in [exists : BOOLEAN, active : BOOLEAN, failures : 0 .. Limit + 1, disabled : BOOLEAN] BY <1>0, <2>1
  <2>3. told' = 0 /\ hookEdits' \in 0 .. MaxEdits /\ UNCHANGED <<endpoint, delivery, troubles>>
    BY <1>1 DEF W!Create, W!Edit, WebhookInv, W!TypeOK, W!WebhooksAssumption
  <2> QED BY <2>2, <2>3 DEF WebhookInv, W!TypeOK
<1>2. CASE W!Update
  <2>1. PICK active \in BOOLEAN : hook' = W!Switched(active) /\ told' = IF active THEN 0 ELSE told BY <1>2 DEF W!Update
  <2>2. /\ hook' \in [exists : BOOLEAN, active : BOOLEAN, failures : 0 .. Limit + 1, disabled : BOOLEAN]
        /\ hook'.active = active
    <3>1. 0 \in 0 .. Limit + 1 BY DEF W!WebhooksAssumption
    <3> QED BY <2>1, <3>1 DEF W!Switched, WebhookInv, W!TypeOK
  <2>3. hookEdits' \in 0 .. MaxEdits /\ UNCHANGED <<endpoint, delivery, troubles>>
    BY <1>2 DEF W!Update, W!Edit, WebhookInv, W!TypeOK, W!WebhooksAssumption
  <2>4. told' \in 0 .. 1 /\ (hook'.active => told' = 0) BY <2>1, <2>2 DEF WebhookInv
  <2> QED BY <2>2, <2>3, <2>4 DEF WebhookInv, W!TypeOK
<1>3. CASE W!Delete \/ W!EndpointTurns
  <2>1. hookEdits' \in 0 .. MaxEdits /\ troubles' \in 0 .. MaxTroubles /\ endpoint' \in BOOLEAN /\ UNCHANGED <<delivery, told>>
    <3>1. CASE W!Delete
      BY <3>1 DEF W!Delete, W!Edit, WebhookInv, W!TypeOK, W!WebhooksAssumption
    <3>2. CASE W!EndpointTurns
      BY <3>2 DEF W!EndpointTurns, W!Trouble, WebhookInv, W!TypeOK, W!WebhooksAssumption
    <3> QED BY <1>3, <3>1, <3>2
  <2>2. hook' = W!NoHook \/ hook' = hook BY <1>3 DEF W!Delete, W!EndpointTurns
  <2> QED BY <1>0, <2>1, <2>2 DEF WebhookInv, W!TypeOK
<1>4. ASSUME NEW d \in Delivery, W!Dispatch(d) \/ W!ReadHook(d) \/ W!Post(d) \/ W!WorkerDies(d) PROVE WebhookInv'
  <2>1. delivery' \in [Delivery -> [at : {"free", "queued", "posting", "posted", "disable"}, attempt : 1 .. MaxAttempts, ok : BOOLEAN]]
    <3>1. delivery \in [Delivery -> [at : {"free", "queued", "posting", "posted", "disable"}, attempt : 1 .. MaxAttempts, ok : BOOLEAN]]
          /\ endpoint \in BOOLEAN
      BY DEF WebhookInv, W!TypeOK
    <3>2. CASE W!Dispatch(d) \/ W!WorkerDies(d)
      BY <3>1, <3>2 DEF W!Dispatch, W!WorkerDies, W!Goes
    <3>3. CASE W!ReadHook(d)
      <4>1. delivery' = [delivery EXCEPT ![d] = [@ EXCEPT !.at = "posting"]] \/ delivery' = [delivery EXCEPT ![d] = W!Free]
        BY <3>3 DEF W!ReadHook
      <4> QED BY <1>0, <3>1, <4>1
    <3>4. CASE W!Post(d)
      BY <3>1, <3>4 DEF W!Post
    <3> QED BY <1>4, <3>2, <3>3, <3>4
  <2>2. troubles' \in 0 .. MaxTroubles /\ UNCHANGED <<hook, endpoint, told, hookEdits>>
    BY <1>4 DEF W!Dispatch, W!ReadHook, W!Post, W!WorkerDies, W!Trouble, WebhookInv, W!TypeOK, W!WebhooksAssumption
  <2> QED BY <2>1, <2>2 DEF WebhookInv, W!TypeOK
<1>5. ASSUME NEW d \in Delivery, W!Throws(d)
      PROVE  delivery' \in [Delivery -> [at : {"free", "queued", "posting", "posted", "disable"}, attempt : 1 .. MaxAttempts, ok : BOOLEAN]]
  <2>1. delivery[d].attempt # MaxAttempts => delivery[d].attempt + 1 \in 1 .. MaxAttempts
    BY DEF WebhookInv, W!TypeOK, W!WebhooksAssumption
  <2>2. delivery[d].attempt # MaxAttempts =>
          [W!Free EXCEPT !.at = "queued", !.attempt = delivery[d].attempt + 1] \in
            [at : {"queued"}, attempt : 1 .. MaxAttempts, ok : BOOLEAN]
    BY <1>0, <2>1
  <2>3. \/ delivery' = [delivery EXCEPT ![d] = W!Free]
        \/ /\ delivery[d].attempt # MaxAttempts
           /\ delivery' = [delivery EXCEPT ![d] = [W!Free EXCEPT !.at = "queued", !.attempt = delivery[d].attempt + 1]]
    <3>1. CASE delivery[d].attempt = MaxAttempts BY <1>5, <3>1 DEF W!Throws
    <3>2. CASE delivery[d].attempt # MaxAttempts BY <1>5, <3>2 DEF W!Throws
    <3> QED BY <3>1, <3>2
  <2> QED BY <1>0, <2>2, <2>3 DEF WebhookInv, W!TypeOK
<1>6. ASSUME NEW d \in Delivery, W!Record(d) PROVE WebhookInv'
  <2>1. 0 \in 0 .. Limit + 1 /\ W!Counted \in 0 .. Limit + 1
    BY DEF W!Counted, WebhookInv, W!TypeOK, W!WebhooksAssumption
  <2>2. \/ hook' = hook \/ hook' = [hook EXCEPT !.failures = 0, !.disabled = FALSE]
        \/ hook' = [hook EXCEPT !.failures = W!Counted]
    BY <1>6 DEF W!Record
  <2>3. /\ hook' \in [exists : BOOLEAN, active : BOOLEAN, failures : 0 .. Limit + 1, disabled : BOOLEAN]
        /\ hook'.active = hook.active
    BY <2>1, <2>2 DEF WebhookInv, W!TypeOK
  <2>4. W!Throws(d) \/ delivery' = [delivery EXCEPT ![d] = W!Free] \/ W!Goes(d, "disable") BY <1>6 DEF W!Record
  <2>5. delivery' \in [Delivery -> [at : {"free", "queued", "posting", "posted", "disable"}, attempt : 1 .. MaxAttempts, ok : BOOLEAN]]
    BY <1>0, <1>5, <2>4 DEF W!Goes, WebhookInv, W!TypeOK
  <2>6. UNCHANGED <<endpoint, told, hookEdits, troubles>> BY <1>6 DEF W!Record
  <2> QED BY <2>3, <2>5, <2>6 DEF WebhookInv, W!TypeOK
<1>7. ASSUME NEW d \in Delivery, W!Disable(d) PROVE WebhookInv'
  <2>1. W!Throws(d) /\ UNCHANGED <<endpoint, hookEdits, troubles>> BY <1>7 DEF W!Disable
  <2>2. CASE W!Claimed
    <3>1. hook' = [hook EXCEPT !.active = FALSE, !.disabled = TRUE] /\ told' = 1
      BY <1>7, <2>2 DEF W!Disable, W!Claimed, WebhookInv
    <3>2. /\ hook' \in [exists : BOOLEAN, active : BOOLEAN, failures : 0 .. Limit + 1, disabled : BOOLEAN]
          /\ ~hook'.active
      BY <3>1 DEF WebhookInv, W!TypeOK
    <3> QED BY <1>5, <2>1, <3>1, <3>2 DEF WebhookInv, W!TypeOK
  <2>3. CASE ~W!Claimed
    BY <1>5, <1>7, <2>1, <2>3 DEF W!Disable, WebhookInv, W!TypeOK
  <2> QED BY <2>2, <2>3
<1> QED BY <1>1, <1>2, <1>3, <1>4, <1>6, <1>7 DEF W!Next, W!Works

-----------------------------------------------------------------------------
(***************************************************************************)
(* The whole: a scene is one of the parts, and keeps that part's invariant.        *)
(***************************************************************************)
FleetInv ==
  /\ scene = "health" => H!TypeOK
  /\ scene = "restart" => R!TypeOK
  /\ scene = "console" => ConsoleInv
  /\ scene = "spec" => SpecInv
  /\ scene = "webhook" => WebhookInv

\* Every part begins with its invariant.
LEMMA FleetInit == Init => FleetInv
<1> SUFFICES ASSUME Init PROVE FleetInv OBVIOUS
<1>1. H!TypeOK
  <2>1. H!Idle \in [at : {"idle"}, maintenance : BOOLEAN, wasOffline : BOOLEAN] /\ 0 \in 0 .. MaxEdits
    BY FleetAssumption DEF H!Idle, H!HealthAssumption
  <2> QED BY <2>1 DEF Init, H!Init, H!TypeOK, H!Statuses
<1>2. R!TypeOK
  <2>1. 0 \in R!Counts BY FleetAssumption DEF R!RestartAssumption, R!Counts, R!Ceiling
  <2> QED BY <2>1 DEF Init, R!Init, R!TypeOK, R!Idle, R!Statuses, R!Ends
<1>3. ConsoleInv
  <2>1. 0 \in 0 .. MaxUpstreamAttempts + 1 /\ 0 \in 0 .. MaxFaults BY FleetAssumption DEF C!ConsoleAssumption
  <2> QED BY <2>1 DEF Init, C!Init, ConsoleInv, C!TypeOK, C!Free, OneOpening, StreamIsAttached
<1>4. SpecInv
  <2>1. 0 \in V!Version /\ 0 \in 0 .. MaxPresses /\ 0 \in 0 .. MaxBroken BY FleetAssumption DEF V!ServerSpecAssumption, V!Version
  <2> QED BY <2>1 DEF Init, V!Init, SpecInv, V!TypeOK, V!Calm, V!NoPress, Carries
<1>5. WebhookInv
  <2>1. 0 \in 0 .. Limit + 1 /\ 1 \in 1 .. MaxAttempts /\ 0 \in 0 .. MaxEdits /\ 0 \in 0 .. MaxTroubles
    BY FleetAssumption DEF W!WebhooksAssumption
  <2> QED BY <2>1 DEF Init, W!Init, WebhookInv, W!TypeOK, W!NoHook, W!Free
<1> QED BY <1>1, <1>2, <1>3, <1>4, <1>5 DEF FleetInv

\* A step is one of the scene's part.
LEMMA FleetStep == FleetInv /\ [Next]_all => FleetInv'
<1> SUFFICES ASSUME FleetInv, [Next]_all PROVE FleetInv' OBVIOUS
<1>1. CASE UNCHANGED all
  <2> USE DEF FleetInv, all, hVars, rVars, cVars, vVars, wVars
  <2>1. (scene = "health" => H!TypeOK)' BY <1>1 DEF H!TypeOK
  <2>2. (scene = "restart" => R!TypeOK)' BY <1>1 DEF R!TypeOK
  <2>3. (scene = "console" => ConsoleInv)' BY <1>1 DEF ConsoleInv, C!TypeOK, OneOpening, StreamIsAttached
  <2>4. (scene = "spec" => SpecInv)' BY <1>1 DEF SpecInv, V!TypeOK, Carries
  <2>5. (scene = "webhook" => WebhookInv)' BY <1>1 DEF WebhookInv, W!TypeOK
  <2> QED BY <2>1, <2>2, <2>3, <2>4, <2>5
<1>2. CASE Next
  BY <1>2, FleetAssumption, HealthStep, RestartStep, ConsoleStep, SpecStep, WebhookStep DEF Next, FleetInv
<1> QED BY <1>1, <1>2

\* For every number of heartbeats, sweeps, reports, openings, sockets, edits, presses,
\* deliveries and attempts: the state of every part is of its type, the container's output
\* is published by one stream, and a switch-off of a webhook is announced once.
THEOREM OneOfEachHolds == Spec => []OneOfEach
<1>1. FleetInv => OneOfEach
  BY OneStreamAttached DEF FleetInv, OneOfEach, ConsoleInv, SpecInv, WebhookInv, W!OncePerSpell
<1> QED BY <1>1, FleetInit, FleetStep, PTL DEF Spec

===============================================================================
