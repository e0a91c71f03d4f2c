------------------------------- MODULE ServerSpec -------------------------------
(***************************************************************************)
(* What a server's row says it should be, and what the node has: the spec the     *)
(* agent keeps in memory, the container made from it, the game's own              *)
(* configuration files. An edit pushes the row to the node, which makes the       *)
(* container anew; power goes through the agent, and a container that is missing   *)
(* is made again first. Specifications are numbered by the edits they contain.    *)
(***************************************************************************)
EXTENDS Naturals

CONSTANTS
  Editor,     \* edits of limits, startup or variables that run at once
  Press,      \* power requests that run at once
  Owner,      \* the one of them that keeps starting the server
  MaxChanges, \* edits: a bound
  MaxPresses, \* other power requests: a bound
  MaxFaults   \* a bound

ServerSpecAssumption == Owner \in Press /\ {MaxChanges, MaxPresses, MaxFaults} \subseteq Nat

VARIABLES
  row,       \* edits the row contains; the value of a variable its template locks
  memory,    \* the agent's: the spec registered there
  container, \* the spec it was made from; whether it is there, and runs
  files,     \* the spec the configuration files were last written for
  push,      \* per edit: its way to the node
  press,     \* per power request: likewise
  presses, faults

vars == <<row, memory, container, files, push, press, presses, faults>>

None    == MaxChanges + 1
Version == 0 .. MaxChanges
Calm    == [at |-> "idle", spec |-> None]
NoPress == [at |-> "idle", action |-> "start", spec |-> None, again |-> FALSE]
Pushing == {"build", "register", "remove", "create"}
AtAgent == {"register", "remove", "create", "config", "inspect", "stopping", "go"}

TypeOK ==
  /\ row \in [spec : Version, locked : {"given", "default"}]
  /\ memory \in Version \cup {None} /\ files \in Version
  /\ container \in [spec : Version, exists : BOOLEAN, running : BOOLEAN]
  /\ container.running => container.exists
  /\ push \in [Editor -> [at : Pushing \cup {"idle"}, spec : Version \cup {None}]]
  /\ press \in [Press -> [at : {"idle"} \cup Pushing \cup AtAgent, again : BOOLEAN, spec : Version \cup {None},
                          action : {"start", "stop", "restart", "kill"}]]
  /\ presses \in 0 .. MaxPresses /\ faults \in 0 .. MaxFaults

\* Installed: everything as the row has it.
Init ==
  /\ row = [spec |-> 0, locked |-> "given"]
  /\ memory = 0 /\ files = 0
  /\ container = [spec |-> 0, exists |-> TRUE, running |-> FALSE]
  /\ push = [e \in Editor |-> Calm] /\ press = [p \in Press |-> NoPress]
  /\ presses = 0 /\ faults = 0

Fault == faults < MaxFaults /\ faults' = faults + 1

-----------------------------------------------------------------------------
(***************************************************************************)
(* syncToNode, and the agent's PUT /servers: the row is read into a spec, the     *)
(* agent remembers it, takes the old container away, running or not, and makes    *)
(* a new one. The three steps at the agent belong to the edit or press that asked. *)
(***************************************************************************)
BuildAgentSpec(w)  == w.at = "build" /\ UNCHANGED <<memory, container>>
RegisterSpec(w)    == w.at = "register" /\ memory' = w.spec /\ UNCHANGED container
RemoveContainer(w) ==
  /\ w.at = "remove"
  /\ container' = [container EXCEPT !.exists = FALSE, !.running = FALSE]
  /\ UNCHANGED memory

\* A name that is taken is refused.
CreateContainer(w) ==
  /\ w.at = "create"
  /\ container' = IF container.exists THEN container ELSE [spec |-> w.spec, exists |-> TRUE, running |-> FALSE]
  /\ UNCHANGED memory

Stage == [build |-> "register", register |-> "remove", remove |-> "create", create |-> "idle"]
Pushes(w) == BuildAgentSpec(w) \/ RegisterSpec(w) \/ RemoveContainer(w) \/ CreateContainer(w)
SpecOf(w) == IF w.at = "build" THEN row.spec ELSE w.spec

-----------------------------------------------------------------------------
(***************************************************************************)
(* The edits. A push that fails is logged, no more.                          *)
(***************************************************************************)
Saves(e) ==
  /\ push[e].at = "idle" /\ row.spec < MaxChanges
  /\ push' = [push EXCEPT ![e].at = "build"]
  /\ UNCHANGED <<memory, container, files, press, presses, faults>>

UpdateServer(e) == Saves(e) /\ row' = [row EXCEPT !.spec = @ + 1]

\* What a customer sends for a locked variable is put aside for the value the row has;
\* the environment is then built as for a customer, from the defaults.
BuildEnvironment(allowLocked) == IF allowLocked THEN row.locked ELSE "default"

UpdateVariables(e) ==
  Saves(e) /\ row' = [spec |-> row.spec + 1, locked |-> BuildEnvironment(FALSE)]

PushStep(e) ==
  /\ push[e].at # "idle" /\ Pushes(push[e])
  /\ push' = [push EXCEPT ![e] = IF @.at = "create" THEN Calm ELSE [at |-> Stage[@.at], spec |-> SpecOf(@)]]
  /\ UNCHANGED <<row, files, press, presses, faults>>

PushFails(e) ==
  /\ push[e].at # "idle" /\ Fault
  /\ push' = [push EXCEPT ![e] = Calm]
  /\ UNCHANGED <<row, memory, container, files, press, presses>>

-----------------------------------------------------------------------------
(***************************************************************************)
(* sendPower, and the agent's power handler.                                  *)
(***************************************************************************)
Ups == {"start", "restart"}
Goes(p, at) == press' = [press EXCEPT ![p].at = at]
Over(p) == press' = [press EXCEPT ![p] = NoPress]

SendPower(p, action) ==
  /\ press[p].at = "idle"
  /\ IF p = Owner /\ action = "start" THEN ~container.running /\ UNCHANGED presses
     ELSE presses < MaxPresses /\ presses' = presses + 1
  /\ press' = [press EXCEPT ![p] = [NoPress EXCEPT !.at = IF action \in Ups THEN "config" ELSE "inspect", !.action = action]]
  /\ UNCHANGED <<row, memory, container, files, push, faults>>

\* From what the agent remembers, which may be nothing.
ApplyConfigFiles(p) ==
  /\ press[p].at = "config" /\ Goes(p, "inspect")
  /\ files' = IF memory = None THEN files ELSE memory
  /\ UNCHANGED <<row, memory, container, push, presses, faults>>

\* Mutant: a missing container is only reported.
Repairs_Never(p) == FALSE
\* The panel pushes the spec and tries once more.
Repairs(p) == press[p].action \in Ups /\ ~press[p].again

Inspect(p) ==
  /\ press[p].at = "inspect"
  /\ IF ~container.exists
     THEN /\ UNCHANGED container
          /\ IF Repairs(p) THEN press' = [press EXCEPT ![p] = [@ EXCEPT !.at = "build", !.again = TRUE]] ELSE Over(p)
     ELSE CASE press[p].action = "kill" -> container' = [container EXCEPT !.running = FALSE] /\ Over(p)
            [] press[p].action = "start" /\ container.running -> UNCHANGED container /\ Over(p)
            [] press[p].action = "stop" /\ ~container.running -> UNCHANGED container /\ Over(p)
            [] press[p].action \in Ups /\ ~container.running -> UNCHANGED container /\ Goes(p, "go")
            [] OTHER -> UNCHANGED container /\ Goes(p, "stopping")
  /\ UNCHANGED <<row, memory, files, push, presses, faults>>

RepairStep(p) ==
  /\ press[p].at \in Pushing /\ Pushes(press[p])
  /\ press' = [press EXCEPT ![p] = [@ EXCEPT !.spec = SpecOf(press[p]),
       !.at = IF press[p].at = "create" THEN "config" ELSE Stage[press[p].at]]]
  /\ UNCHANGED <<row, files, push, presses, faults>>

\* The game's stop command, then Docker's stop: it ends in a minute.
GracefulStop(p) ==
  /\ press[p].at = "stopping"
  /\ container' = [container EXCEPT !.running = FALSE]
  /\ IF press[p].action = "restart" THEN Goes(p, "go") ELSE Over(p)
  /\ UNCHANGED <<row, memory, files, push, presses, faults>>

StartContainer(p) ==
  /\ press[p].at = "go" /\ Over(p)
  /\ container' = [container EXCEPT !.running = container.exists]
  /\ UNCHANGED <<row, memory, files, push, presses, faults>>

PressFails(p) ==
  /\ press[p].at # "idle" /\ Fault /\ Over(p)
  /\ UNCHANGED <<row, memory, container, files, push, presses>>

-----------------------------------------------------------------------------
(***************************************************************************)
(* The node.                                                               *)
(***************************************************************************)
AgentRestarts ==
  /\ Fault /\ memory' = None
  /\ push' = [e \in Editor |-> IF push[e].at \in AtAgent THEN Calm ELSE push[e]]
  /\ press' = [p \in Press |-> IF press[p].at \in AtAgent THEN NoPress ELSE press[p]]
  /\ UNCHANGED <<row, container, files, presses>>

GameEnds ==
  /\ container.running /\ Fault
  /\ container' = [container EXCEPT !.running = FALSE]
  /\ UNCHANGED <<row, memory, files, push, press, presses>>

OperatorRemoves ==
  /\ container.exists /\ Fault
  /\ container' = [container EXCEPT !.exists = FALSE, !.running = FALSE]
  /\ UNCHANGED <<row, memory, files, push, press, presses>>

-----------------------------------------------------------------------------
Edits(e)  == UpdateServer(e) \/ UpdateVariables(e) \/ PushFails(e)
Powers(p) == ApplyConfigFiles(p) \/ Inspect(p) \/ RepairStep(p) \/ GracefulStop(p) \/ StartContainer(p)

Next ==
  \/ \E e \in Editor : Edits(e) \/ PushStep(e)
  \/ \E p \in Press : Powers(p) \/ PressFails(p) \/ \E action \in Ups \cup {"stop", "kill"} : SendPower(p, action)
  \/ AgentRestarts \/ GameEnds \/ OperatorRemoves

\* Requests go on, and the owner presses start while the game is not running.
Fairness ==
  /\ \A e \in Editor : WF_vars(PushStep(e))
  /\ \A p \in Press : WF_vars(Powers(p))
  /\ WF_vars(SendPower(Owner, "start"))

Spec == Init /\ [][Next]_vars /\ Fairness

-----------------------------------------------------------------------------
\* Whatever was lost on the way, a failed push, a container removed by hand, one an edit
\* took away, the owner who presses start gets the game to run.
ComesUp == <>[](container.running)

===============================================================================
