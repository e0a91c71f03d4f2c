-------------------------------- MODULE MCFleet --------------------------------
(***************************************************************************)
(* What the panel looks after, on small instances: the health of a node, the       *)
(* automatic restarts of one server, its spec and its console, and a webhook. A      *)
(* scene is one of them; the rest stand still.                                  *)
(***************************************************************************)
EXTENDS Naturals

CONSTANTS
  Beat, Sweep, MaxEdits,
  Report, MaxRestartAttempts,
  Opening, NoOpening, Socket, NoSocket, MaxUpstreamAttempts, MaxFaults,
  Editor, Press, Owner, MaxChanges, MaxPresses, MaxBroken,
  Delivery, MaxAttempts, Limit, MaxTroubles

VARIABLES
  scene,
  up, nodeStatus, maintenance, lastHeartbeat, beat, sweep, edits,
  container, status, restartAttempts, lastStart, report, heartbeat,
  agentUp, running, attachment, attaching, opening, stream, tab, socket, faults,
  row, memory, game, files, push, press, presses, broken,
  hook, endpoint, delivery, told, hookEdits, troubles

H == INSTANCE NodeHealth
R == INSTANCE AutoRestart
C == INSTANCE Console
V == INSTANCE ServerSpec WITH container <- game, faults <- broken, MaxFaults <- MaxBroken
W == INSTANCE Webhooks

ASSUME FleetAssumption ==
  /\ H!HealthAssumption /\ R!RestartAssumption /\ C!ConsoleAssumption
  /\ V!ServerSpecAssumption /\ W!WebhooksAssumption

hVars == <<up, nodeStatus, maintenance, lastHeartbeat, beat, sweep, edits>>
rVars == <<container, status, restartAttempts, lastStart, report, heartbeat>>
cVars == <<agentUp, running, attachment, attaching, opening, stream, tab, socket, faults>>
vVars == <<row, memory, game, files, push, press, presses, broken>>
wVars == <<hook, endpoint, delivery, told, hookEdits, troubles>>
all   == <<scene, hVars, rVars, cVars, vVars, wVars>>

-----------------------------------------------------------------------------
Scenes == {"health", "restart", "console", "spec", "webhook"}

Init ==
  /\ scene \in Scenes
  /\ H!Init /\ R!Init /\ C!Init /\ V!Init /\ W!Init

Next ==
  /\ UNCHANGED scene
  /\ \/ scene = "health"  /\ H!Next /\ UNCHANGED <<rVars, cVars, vVars, wVars>>
     \/ scene = "restart" /\ R!Next /\ UNCHANGED <<hVars, cVars, vVars, wVars>>
     \/ scene = "console" /\ C!Next /\ UNCHANGED <<hVars, rVars, vVars, wVars>>
     \/ scene = "spec"    /\ V!Next /\ UNCHANGED <<hVars, rVars, cVars, wVars>>
     \/ scene = "webhook" /\ W!Next /\ UNCHANGED <<hVars, rVars, cVars, vVars>>

\* That of ServerSpec, as far as the scene is its own: an owner presses start.
SpecFairness ==
  /\ \A e \in Editor : WF_vVars(V!PushStep(e))
  /\ \A p \in Press : WF_vVars(V!Powers(p))
  /\ WF_vVars(scene = "spec" /\ V!SendPower(Owner, "start"))

\* Nothing fair can happen in the initial states of the others that stand still.
Spec == Init /\ [][Next]_all /\ H!Fairness /\ R!Fairness /\ C!Fairness /\ W!Fairness /\ SpecFairness

-----------------------------------------------------------------------------
\* The state of every part is of its type; a container has one stream (Console), and
\* that a hook was switched off is said once (Webhooks).
OneOfEach ==
  /\ scene = "health" => H!TypeOK
  /\ scene = "restart" => R!TypeOK
  /\ scene = "console" => C!TypeOK /\ C!OneStream
  /\ scene = "spec" => V!TypeOK
  /\ scene = "webhook" => W!TypeOK /\ W!OncePerSpell

\* What fails for good is left alone in the end: a server that keeps crashing
\* (AutoRestart), an endpoint that stopped answering (Webhooks).
GivesUp == R!GivesUp /\ W!GivenUp

\* What was lost comes back: a node's status follows it (NodeHealth), an open console
\* shows its server (Console), and a game starts for whoever keeps asking (ServerSpec).
ComesBack == H!StatusFollows /\ C!ConsoleReturns
ComesUp   == scene = "spec" => V!ComesUp
===============================================================================
