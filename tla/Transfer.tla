------------------------------- MODULE Transfer -------------------------------
(***************************************************************************)
(* Moving one server to another node: the route that queues the move, the  *)
(* worker's steps with the failure of any of them, a dead worker, the      *)
(* node's reports, a customer who starts the server and changes its ports  *)
(* meanwhile, and an administrator who suspends it.                        *)
(*                                                                         *)
(* The world's files are known by how they compare with what the game last *)
(* wrote: a copy is "current", "behind" (older, or torn by a game writing  *)
(* while it was read), "partial" (an empty or half-filled directory) or    *)
(* "none". A game that runs may write at any time.                         *)
(*                                                                         *)
(* A CRASHED server is OFFLINE here: nothing in a move tells them apart.   *)
(***************************************************************************)
EXTENDS Naturals, FiniteSets, TLC

CONSTANTS
  Nodes,
  Slots,         \* the ports of a node
  NoNode,        \* a node not known yet
  Birthplace,    \* the node the server is on at the start
  Moves,         \* the moves ever asked for; bounds how many there are
  MaxStalls,     \* times BullMQ gives the job of a dead worker back to the queue
  MaxMail,       \* reports of the nodes in flight at the same time; a bound
  Suspends,      \* whether an administrator suspends and unsuspends the server
  PortsChange,   \* whether ports change hands beside the moves
  LocalStorage,  \* the archive stays on the source's disk (driver LOCAL)
  KeepBackup     \* what the operator asked for

ASSUME TransferAssumption ==
  /\ NoNode \notin Nodes /\ Birthplace \in Nodes
  /\ MaxStalls \in Nat /\ MaxMail \in Nat
  /\ Suspends \in BOOLEAN /\ PortsChange \in BOOLEAN
  /\ LocalStorage \in BOOLEAN /\ KeepBackup \in BOOLEAN

VARIABLES
  node,       \* server.nodeId
  status,     \* server.status
  suspended,  \* server.suspendedAt is set
  port,       \* per port: who holds it
  container,  \* per node: the game container
  copy,       \* per node: the server's directory
  archive,    \* per move: the archive it made
  move,       \* per move: where its worker is and what it has read
  landed,     \* per move: its flip has been committed
  stalls,     \* per move: times its worker died
  starter,    \* a start on its way: the node it is for, the step it is at
  mail,       \* reports between their sending and their last write
  astray,     \* history: ports a move took or left behind and gives back to nobody
  given,      \* history: ports the customer gave up where they were counted on
  lapses      \* history: what came between a move and its order

vars == <<node, status, suspended, port, container, copy, archive, move, landed, stalls,
          starter, mail, astray, given, lapses>>
rowVars  == <<node, status, suspended, port>>
diskVars == <<container, copy, archive>>
jobVars  == <<move, landed, stalls>>
history  == <<astray, given, lapses>>

-----------------------------------------------------------------------------
Ports == Nodes \X Slots
PortsOf(n) == {n} \X Slots
ServerStatus == {"ONLINE", "OFFLINE", "STARTING", "SUSPENDED", "TRANSFERRING"}
Settled == {"ONLINE", "OFFLINE", "SUSPENDED"}
Reported == {"ONLINE", "OFFLINE"}
Worlds == {"none", "partial", "behind", "current"}
Whole == {"behind", "current"}

\* transfer.worker.ts, in the order of its awaits; then its catch block.
Ahead == {"mark", "stop", "wait", "kill", "record", "archive", "claim", "put", "restore", "flip"}
Behind == {"delete", "drop", "notify"}
Unwind == {"unclaim", "unbuild", "settle"}
Working == {"take"} \cup Ahead \cup Behind \cup Unwind
MoveStep == Working \cup {"unused", "queued", "over"}

Job == [at : MoveStep, dst : Nodes \cup {NoNode}, src : Nodes \cup {NoNode},
        prev : ServerStatus, held : SUBSET Ports, claimed : SUBSET Ports]
Unused == [at |-> "unused", dst |-> NoNode, src |-> NoNode, prev |-> "OFFLINE",
           held |-> {}, claimed |-> {}]

Start == [at : {"idle", "send", "write"}, to : Nodes \cup {NoNode}]
NoStart == [at |-> "idle", to |-> NoNode]
Report == [from : Nodes, says : Reported, read : BOOLEAN]

TypeOK ==
  /\ node \in Nodes
  /\ status \in ServerStatus /\ suspended \in BOOLEAN
  /\ port \in [Ports -> {"free", "ours", "taken"}]
  /\ container \in [Nodes -> {"none", "stopped", "running"}]
  /\ copy \in [Nodes -> Worlds]
  /\ archive \in [Moves -> {"none"} \cup Whole]
  /\ move \in [Moves -> Job]
  /\ \A m \in Moves : move[m].at # "unused" => move[m].dst \in Nodes
  /\ landed \in [Moves -> BOOLEAN]
  /\ stalls \in [Moves -> 0 .. MaxStalls]
  /\ starter \in Start
  /\ mail \subseteq Report
  /\ astray \subseteq Ports /\ given \subseteq Ports
  /\ lapses \subseteq {"overlap", "arrived", "late"}

\* An installed server at rest; the other ports are free.
Init ==
  /\ node = Birthplace
  /\ status = "OFFLINE" /\ suspended = FALSE
  /\ \E s \in Slots : port = [p \in Ports |-> IF p = <<node, s>> THEN "ours" ELSE "free"]
  /\ container = [n \in Nodes |-> IF n = node THEN "stopped" ELSE "none"]
  /\ copy = [n \in Nodes |-> IF n = node THEN "current" ELSE "none"]
  /\ archive = [m \in Moves |-> "none"]
  /\ move = [m \in Moves |-> Unused]
  /\ landed = [m \in Moves |-> FALSE]
  /\ stalls = [m \in Moves |-> 0]
  /\ starter = NoStart /\ mail = {}
  /\ astray = {} /\ given = {} /\ lapses = {}

-----------------------------------------------------------------------------
(***************************************************************************)
(* The game, its customer, the nodes' reports and the other servers.       *)
(***************************************************************************)
Outdate(world) == IF world = "current" THEN "behind" ELSE world

\* Where the game writes is the newest world there is.
GameWrite(n) ==
  /\ container[n] = "running"
  /\ copy' = [k \in Nodes |-> IF k = n THEN "current" ELSE Outdate(copy[k])]
  /\ archive' = [m \in Moves |-> Outdate(archive[m])]
  /\ UNCHANGED <<rowVars, container, jobVars, starter, mail, history>>

GameExit(n) ==
  /\ container[n] = "running"
  /\ container' = [container EXCEPT ![n] = "stopped"]
  /\ UNCHANGED <<rowVars, copy, archive, jobVars, starter, mail, history>>

\* sendPower: read the row, ask the node it names, write STARTING.
StartCheck ==
  /\ starter.at = "idle"
  /\ ~suspended /\ status # "TRANSFERRING"
  /\ starter' = [at |-> "send", to |-> node]
  /\ UNCHANGED <<rowVars, diskVars, jobVars, mail, history>>

StartSend ==
  /\ starter.at = "send"
  /\ IF container[starter.to] = "none"
     THEN UNCHANGED container /\ starter' = NoStart
     ELSE /\ container' = [container EXCEPT ![starter.to] = "running"]
          /\ starter' = [starter EXCEPT !.at = "write"]
  /\ UNCHANGED <<rowVars, copy, archive, jobVars, mail, history>>

StartWrite ==
  /\ starter.at = "write"
  /\ status' = "STARTING"
  /\ starter' = NoStart
  /\ UNCHANGED <<node, suspended, port, diskVars, jobVars, mail, history>>

\* A status report or a heartbeat entry of a node that has the container.
Emit(n) ==
  /\ Cardinality(mail) < MaxMail
  /\ container[n] # "none"
  /\ mail' = mail \cup {[from |-> n, read |-> FALSE,
                         says |-> IF container[n] = "running" THEN "ONLINE" ELSE "OFFLINE"]}
  /\ UNCHANGED <<rowVars, diskVars, jobVars, starter, history>>

LoseReport(r) ==
  /\ ~r.read
  /\ mail' = mail \ {r}
  /\ UNCHANGED <<rowVars, diskVars, jobVars, starter, history>>

\* Mutant: a TRANSFERRING server is left alone, as an INSTALLING one is.
Heeds_NotMoving(r) == r.from = node /\ ~suspended /\ r.says # status /\ status # "TRANSFERRING"

\* Both handlers look the server up on the reporting node and leave a suspended
\* one alone; neither minds that it is TRANSFERRING.
Heeds(r) == r.from = node /\ ~suspended /\ r.says # status

ReadReport(r) ==
  /\ ~r.read
  /\ mail' = (mail \ {r}) \cup
       (IF Heeds(r) THEN {[r EXCEPT !.read = TRUE]} ELSE {})
  /\ UNCHANGED <<rowVars, diskVars, jobVars, starter, history>>

ApplyReport(r) ==
  /\ r.read
  /\ status' = r.says
  /\ mail' = mail \ {r}
  /\ UNCHANGED <<node, suspended, port, diskVars, jobVars, starter, history>>

Lowered(n) == IF container[n] = "running" THEN {"running", "stopped"} ELSE {container[n]}

\* The stop is asked of the node, and its failure swallowed. Unsuspending starts nothing.
Suspend ==
  /\ Suspends /\ ~suspended
  /\ \E c \in Lowered(node) : container' = [container EXCEPT ![node] = c]
  /\ suspended' = TRUE /\ status' = "SUSPENDED"
  /\ UNCHANGED <<node, port, copy, archive, jobVars, starter, mail, history>>

Unsuspend ==
  /\ Suspends
  /\ suspended' = FALSE /\ status' = "OFFLINE"
  /\ UNCHANGED <<node, port, diskVars, jobVars, starter, mail, history>>

\* Another server is given the port.
OtherTakes(p) ==
  /\ PortsChange /\ port[p] = "free"
  /\ port' = [port EXCEPT ![p] = "taken"]
  /\ UNCHANGED <<node, status, suspended, diskVars, jobVars, starter, mail, history>>

\* The ports a move at work may still let go: those it read, until its flip, and
\* those it claimed. And a port of the server's node that is its only one there.
Counted(m) ==
  (IF move[m].at \in Ahead THEN move[m].held ELSE {})
    \cup (IF move[m].at \in Ahead \cup Behind \cup {"unclaim"} THEN move[m].claimed ELSE {})
LastAtHome(p) == p \in PortsOf(node) /\ \A q \in PortsOf(node) \ {p} : port[q] # "ours"

\* The routes of the customer's ports ask nothing of the status: a port more on
\* the node the row names, or one less, which may be any but the only one, since
\* another can be made the primary one first.
EditPorts(p) ==
  /\ PortsChange
  /\ \/ /\ p \in PortsOf(node) /\ port[p] = "free"
        /\ port' = [port EXCEPT ![p] = "ours"]
        /\ UNCHANGED history
     \/ /\ port[p] = "ours" /\ \E q \in Ports \ {p} : port[q] = "ours"
        /\ port' = [port EXCEPT ![p] = "free"]
        /\ astray' = astray \ {p}
        /\ given' = IF LastAtHome(p) \/ \E m \in Moves : p \in Counted(m) THEN given \cup {p} ELSE given
        /\ UNCHANGED lapses
  /\ UNCHANGED <<node, status, suspended, diskVars, jobVars, starter, mail>>

-----------------------------------------------------------------------------
(***************************************************************************)
(* The move.                                                               *)
(***************************************************************************)
At(m, step) == move[m].at = step
Goto(m, step) == move' = [move EXCEPT ![m].at = step]
\* The job is over or back in the queue: what the worker had in its hands is gone.
Drop(m, step) ==
  move' = [move EXCEPT ![m] = [@ EXCEPT !.at = step, !.prev = "OFFLINE", !.held = {}, !.claimed = {}]]
AtWork(m) == move[m].at \in Ahead \cup Behind \cup Unwind

\* POST /admin/servers/:id/move: the checks, then the job. The status stays.
AskMove(m, dst) ==
  /\ At(m, "unused")
  /\ dst # node
  /\ status \in Settled
  /\ \E p \in PortsOf(dst) : port[p] = "free"
  /\ move' = [move EXCEPT ![m] = [@ EXCEPT !.at = "queued", !.dst = dst]]
  /\ UNCHANGED <<rowVars, diskVars, landed, stalls, starter, mail, history>>

TakeMove(m) ==
  /\ At(m, "queued")
  /\ Goto(m, "take")
  /\ UNCHANGED <<rowVars, diskVars, landed, stalls, starter, mail, history>>

\* The worker reads the row, its node and its ports, and checks none of them:
\* another move may be under way, and the server may be there already.
ReadServer(m) ==
  /\ At(m, "take")
  /\ move' = [move EXCEPT ![m] = [@ EXCEPT !.at = "mark", !.src = node, !.prev = status,
                  !.held = {p \in Ports : port[p] = "ours"}, !.claimed = {}]]
  /\ lapses' = lapses \cup (IF \E k \in Moves \ {m} : AtWork(k) THEN {"overlap"} ELSE {})
                      \cup (IF node = move[m].dst THEN {"arrived"} ELSE {})
  /\ UNCHANGED <<rowVars, diskVars, landed, stalls, starter, mail, astray, given>>

\* Each step that can throw, by what it has done when it is done.
Marked ==
  /\ status' = "TRANSFERRING"
  /\ UNCHANGED <<node, suspended, port, diskVars, landed, astray>>

\* An archive read under a running game is torn.
ArchiveOf(n) == IF container[n] = "running" THEN "behind" ELSE copy[n]

Archived(m) ==
  /\ copy[move[m].src] \in Whole
  /\ archive' = [archive EXCEPT ![m] = ArchiveOf(move[m].src)]
  /\ UNCHANGED <<rowVars, container, copy, landed, astray>>

\* Mutant: the claim does not ask that the port be nobody's.
Claimable_Stale(p) == port[p] # "ours"

Claimable(p) == port[p] = "free"

\* The compare-and-swap on a free port.
Claimed(p) ==
  /\ Claimable(p)
  /\ port' = [port EXCEPT ![p] = "ours"]
  /\ UNCHANGED <<node, status, suspended, diskVars, landed>>

\* PUT /servers on the destination: a container that does not run, over the
\* directory that is there or a new one.
Built(m) ==
  /\ container' = [container EXCEPT ![move[m].dst] = "stopped"]
  /\ copy' = [copy EXCEPT ![move[m].dst] = IF @ = "none" THEN "partial" ELSE @]
  /\ UNCHANGED <<rowVars, archive, landed, astray>>

Restored(m, world) ==
  /\ archive[m] # "none"
  /\ copy' = [copy EXCEPT ![move[m].dst] = world]
  /\ UNCHANGED <<rowVars, container, archive, landed, astray>>

\* The transaction: the ports read at the start are let go, whoever has them.
\* What the server was given since then stays behind with it.
Freed(ports) == [p \in Ports |-> IF p \in ports THEN "free" ELSE port[p]]
Holding(m) == IF move[m].at \in {"put", "restore", "flip", "unclaim"} THEN move[m].claimed ELSE {}
LeftBehind(m) ==
  {p \in Ports \ (move[m].held \cup PortsOf(move[m].dst)) :
     port[p] = "ours" /\ \A k \in Moves \ {m} : p \notin Holding(k)}

Flipped(m) ==
  /\ node' = move[m].dst /\ status' = "OFFLINE"
  /\ port' = Freed(move[m].held)
  /\ landed' = [landed EXCEPT ![m] = TRUE]
  /\ astray' = (astray \ move[m].held) \cup LeftBehind(m)
  /\ UNCHANGED <<suspended, diskVars>>

-----------------------------------------------------------------------------
(***************************************************************************)
(* The steps that go through.                                              *)
(***************************************************************************)
Beyond == <<stalls, starter, mail, given>>

MarkTransferring(m) ==
  /\ At(m, "mark") /\ Marked
  /\ Goto(m, "stop")
  /\ UNCHANGED <<Beyond, lapses>>

\* The stop, and later the kill: a failure is swallowed.
StopSource(m) ==
  /\ move[m].at \in {"stop", "kill"}
  /\ \E c \in Lowered(move[m].src) : container' = [container EXCEPT ![move[m].src] = c]
  /\ Goto(m, IF At(m, "stop") THEN "wait" ELSE "record")
  /\ UNCHANGED <<rowVars, copy, archive, landed, stalls, starter, mail, history>>

\* waitUntilStopped: down, or the status call failed, or a minute has passed.
WaitStopped(m) ==
  /\ At(m, "wait")
  /\ \/ Goto(m, "record")
     \/ container[move[m].src] = "running" /\ Goto(m, "kill")
  /\ UNCHANGED <<rowVars, diskVars, landed, stalls, starter, mail, history>>

\* The row of the backup; what such rows say of their archives is Backups' matter.
RecordBackup(m) ==
  /\ At(m, "record")
  /\ Goto(m, "archive")
  /\ UNCHANGED <<rowVars, diskVars, landed, stalls, starter, mail, history>>

ArchiveSource(m) ==
  /\ At(m, "archive") /\ Archived(m)
  /\ Goto(m, "claim")
  /\ UNCHANGED <<Beyond, lapses>>

ClaimPort(m) ==
  /\ At(m, "claim")
  /\ \E p \in PortsOf(move[m].dst) :
       Claimed(p) /\ move' = [move EXCEPT ![m] = [@ EXCEPT !.at = "put", !.claimed = {p}]]
  /\ UNCHANGED <<Beyond, lapses, astray>>

BuildDestination(m) ==
  /\ At(m, "put") /\ Built(m)
  /\ Goto(m, "restore")
  /\ UNCHANGED <<Beyond, lapses>>

RestoreArchive(m) ==
  /\ At(m, "restore") /\ Restored(m, archive[m])
  /\ Goto(m, "flip")
  /\ UNCHANGED <<Beyond, lapses>>

Flip(m) ==
  /\ At(m, "flip") /\ Flipped(m)
  /\ Goto(m, "delete")
  /\ UNCHANGED <<Beyond, lapses>>

\* DELETE on a node: the container, then the directory, then every archive
\* the node keeps for this server; it may fail before or after the container.
KeptOn(n) == {m \in Moves : LocalStorage /\ move[m].src = n}
RemoveFrom(n) ==
  \/ UNCHANGED diskVars
  \/ /\ container' = [container EXCEPT ![n] = "none"]
     /\ \/ UNCHANGED <<copy, archive>>
        \/ /\ copy' = [copy EXCEPT ![n] = "none"]
           /\ archive' = [m \in Moves |-> IF m \in KeptOn(n) THEN "none" ELSE archive[m]]

DeleteSource(m) ==
  /\ At(m, "delete")
  /\ RemoveFrom(move[m].src)
  /\ Goto(m, IF KeepBackup THEN "notify" ELSE "drop")
  /\ UNCHANGED <<rowVars, landed, stalls, starter, mail, history>>

\* The archive, unless its removal fails; its row goes with it.
DropArchive(m) ==
  /\ At(m, "drop")
  /\ \E left \in {"none", archive[m]} : archive' = [archive EXCEPT ![m] = left]
  /\ Goto(m, "notify")
  /\ UNCHANGED <<rowVars, container, copy, landed, stalls, starter, mail, history>>

Notify(m) ==
  /\ At(m, "notify")
  /\ Drop(m, "over")
  /\ UNCHANGED <<rowVars, diskVars, landed, stalls, starter, mail, history>>

-----------------------------------------------------------------------------
(***************************************************************************)
(* A step throws: the call was refused, or its answer was lost after it    *)
(* did what it was asked, or half of it.                                   *)
(***************************************************************************)
\* Mutant: tidying the source can fail the move.
Throws_Tidy == {"mark", "record", "archive", "claim", "put", "restore", "flip", "delete"}

Throws == {"mark", "record", "archive", "claim", "put", "restore", "flip"}

\* A claim whose answer is lost is not in claimedIds: nobody gives it back.
LostWork(m) ==
  \/ UNCHANGED <<rowVars, diskVars, landed, astray>>
  \/ At(m, "mark") /\ Marked
  \/ At(m, "archive") /\ Archived(m)
  \/ /\ At(m, "claim")
     /\ \E p \in PortsOf(move[m].dst) :
          Claimed(p) /\ astray' = astray \cup ({p} \ PortsOf(node))
  \/ At(m, "put") /\ Built(m)
  \/ At(m, "restore") /\ \E world \in {"partial", archive[m]} : Restored(m, world)

Unwinds(m) == Goto(m, IF move[m].claimed = {} THEN "settle" ELSE "unclaim")

\* Before the flip. Without any storage the worker goes the same way from its start.
FailMove(m) ==
  /\ move[m].at \in Throws
  /\ LostWork(m)
  /\ Unwinds(m)
  /\ UNCHANGED <<Beyond, lapses>>

\* The flip's answer is lost, or the notification of success throws: both are in
\* the same try block, and what is caught is taken for a move that did not happen.
FailLate(m) ==
  /\ \/ At(m, "flip") /\ Flipped(m)
     \/ At(m, "notify") /\ UNCHANGED <<rowVars, diskVars, landed, astray>>
  /\ Unwinds(m)
  /\ lapses' = lapses \cup {"late"}
  /\ UNCHANGED Beyond

\* Mutant: the port is left with the server when the move fails.
ReleaseClaim_Forgotten(m) ==
  /\ At(m, "unclaim")
  /\ Goto(m, "unbuild")
  /\ UNCHANGED <<rowVars, diskVars, landed, stalls, starter, mail, history>>

\* The catch block: the claimed port, unless letting it go fails, which is
\* swallowed; the destination's container and files; the status, as it was.
Unhoused(ports) == {p \in ports \ PortsOf(node) : port[p] = "ours"}

ReleaseClaim(m) ==
  /\ At(m, "unclaim")
  /\ \/ port' = Freed(move[m].claimed) /\ astray' = astray \ move[m].claimed
     \/ UNCHANGED port /\ astray' = astray \cup Unhoused(move[m].claimed)
  /\ Goto(m, "unbuild")
  /\ UNCHANGED <<node, status, suspended, diskVars, landed, Beyond, lapses>>

\* Mutant: the unwinding deletes the server on the wrong side.
DeleteDestination_Source(m) ==
  /\ At(m, "unbuild")
  /\ RemoveFrom(move[m].src)
  /\ Goto(m, "settle")
  /\ UNCHANGED <<rowVars, landed, stalls, starter, mail, history>>

DeleteDestination(m) ==
  /\ At(m, "unbuild")
  /\ RemoveFrom(move[m].dst)
  /\ Goto(m, "settle")
  /\ UNCHANGED <<rowVars, landed, stalls, starter, mail, history>>

\* fail: its write is swallowed when it fails.
RestoreStatus(m) ==
  /\ At(m, "settle")
  /\ \/ UNCHANGED status
     \/ status' = IF move[m].prev = "TRANSFERRING" THEN "OFFLINE" ELSE move[m].prev
  /\ Drop(m, "over")
  /\ UNCHANGED <<node, suspended, port, diskVars, landed, stalls, starter, mail, history>>

\* Mutant: one redelivery too many.
Redelivers_OneMore(m) == stalls[m] <= MaxStalls

Redelivers(m) == stalls[m] < MaxStalls

\* The worker's process dies: BullMQ redelivers the job, or drops it. What it
\* had claimed is in no list any more.
WorkerDies(m) ==
  /\ move[m].at \in Working
  /\ IF Redelivers(m)
     THEN /\ Drop(m, "queued")
          /\ stalls' = [stalls EXCEPT ![m] = @ + 1]
     ELSE Drop(m, "over") /\ UNCHANGED stalls
  /\ astray' = astray \cup Unhoused(Holding(m))
  /\ UNCHANGED <<rowVars, diskVars, landed, starter, mail, given, lapses>>

Work(m) ==
  \/ TakeMove(m) \/ ReadServer(m) \/ MarkTransferring(m) \/ StopSource(m) \/ WaitStopped(m)
  \/ RecordBackup(m) \/ ArchiveSource(m) \/ ClaimPort(m) \/ BuildDestination(m)
  \/ RestoreArchive(m) \/ Flip(m) \/ DeleteSource(m) \/ DropArchive(m) \/ Notify(m)
  \/ FailMove(m) \/ FailLate(m) \/ ReleaseClaim(m) \/ DeleteDestination(m) \/ RestoreStatus(m)

-----------------------------------------------------------------------------
Next ==
  \/ \E n \in Nodes : GameWrite(n) \/ GameExit(n) \/ Emit(n)
  \/ \E p \in Ports : OtherTakes(p) \/ EditPorts(p)
  \/ StartCheck \/ StartSend \/ StartWrite \/ Suspend \/ Unsuspend
  \/ \E r \in mail : LoseReport(r) \/ ReadReport(r) \/ ApplyReport(r)
  \/ \E m \in Moves : Work(m) \/ WorkerDies(m) \/ \E dst \in Nodes : AskMove(m, dst)

Spec == Init /\ [][Next]_vars

\* The worker goes on, and the home node's heartbeat gets through again and again.
ReadHome == \E r \in mail : r.from = node /\ ReadReport(r)
Fairness ==
  /\ \A m \in Moves : WF_vars(Work(m))
  /\ WF_vars(StartSend) /\ WF_vars(StartWrite)
  /\ WF_vars(\E r \in mail : ApplyReport(r))
  /\ WF_vars(\E r \in mail : ReadReport(r) \/ LoseReport(r))
  /\ SF_vars(\E n \in Nodes : n = node /\ Emit(n)) /\ SF_vars(ReadHome)

FairSpec == Spec /\ Fairness

-----------------------------------------------------------------------------
(***************************************************************************)
(* What holds.                                                             *)
(***************************************************************************)

\* "Every step up to the database flip leaves the source node untouched and
\* complete": until some move has landed, the server's node has its newest
\* files and its container, and the server holds a port there unless the
\* customer gave it up, whatever fails, dies or is done twice, by two moves at once.
SourceKept ==
  (\A m \in Moves : ~landed[m])
    => /\ copy[node] = "current" /\ container[node] # "none"
       /\ given # {} \/ \E p \in PortsOf(node) : port[p] = "ours"

\* The node the row names always has a whole copy of the files and a container,
\* and the server a port there unless the customer gave it up: across the flip,
\* the tidying, every unwinding, every death of the worker and every redelivery.
\* Three things break it, and nothing else: a move begun while another was at
\* work, a move begun where it leads, and a move that fails after its flip.
HomeComplete ==
  lapses = {} =>
    /\ copy[node] \in Whole
    /\ container[node] # "none"
    /\ given # {} \/ \E p \in PortsOf(node) : port[p] = "ours"

\* No port stays with the server on a node it does not live on, unless a move at
\* work has claimed it. What does stay is known: a claim whose release failed or
\* whose answer was lost, a dead worker's claim, a port gained during a move.
NothingStranded ==
  \A p \in Ports : port[p] = "ours" =>
    p \in PortsOf(node) \/ p \in astray \/ \E m \in Moves : p \in Holding(m)

\* A port held by another customer's server is not released (allocations.test.ts
\* says so of the route that removes one). The flip and the unwinding let go of
\* what was the server's when they read or claimed it. So another server loses
\* its port only when the customer gave that very port up during the move, or
\* when two moves overlapped.
OthersKeepPorts ==
  [][\A p \in Ports : port[p] = "taken" /\ p \notin given /\ "overlap" \notin lapses
       => port'[p] = "taken"]_vars

\* A server is not left TRANSFERRING by a worker that died: nothing in the panel
\* looks for that, and it is its node's reports that end it. They end nothing for
\* a suspended server, nor where the container is gone.
TransferringEnds ==
  (status = "TRANSFERRING")
    ~> (status # "TRANSFERRING" \/ suspended \/ container[node] = "none")

\* "Nothing has been taken from the source at this point: it still holds the
\* container and every file", the catch block says of itself. With one move and
\* no redelivery that should hold wherever it unwinds.
SourceStillWhole ==
  \A m \in Moves : move[m].at \in Unwind =>
    copy[move[m].src] \in Whole /\ container[move[m].src] # "none"

-----------------------------------------------------------------------------
(***************************************************************************)
(* Small instances.                                                        *)
(***************************************************************************)
\* Moves are interchangeable. Used by a safety run only.
Symmetry == Permutations(Moves)

\* What the safety run looks at: moves one after the other to their ends, and moves
\* that overlap until one of them has landed or a port goes another way; between
\* them one job given back or one port given up. The theorems have no such bound.
Seen ==
  /\ \/ lapses = {}
     \/ /\ \A m \in Moves : ~landed[m]
        /\ astray \cup given = {} /\ \A p \in Ports : port[p] # "taken"
  /\ Cardinality({m \in Moves : stalls[m] > 0}) + Cardinality(given) <= 1
=============================================================================
