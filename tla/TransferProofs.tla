---------------------------- MODULE TransferProofs ----------------------------
(***************************************************************************)
(* What is proved of Transfer for any number of nodes, ports, moves and    *)
(* redeliveries, whoever suspends the server or edits its ports meanwhile, *)
(* whichever storage the archive travels through.                          *)
(*                                                                         *)
(* No property is inductive as it stands. What carries them:               *)
(*   Claims, what a move has claimed is of its destination;                *)
(*   OneAtWork and ListsKept, while moves have not overlapped: one worker  *)
(*     at a time, whose lists name the server's ports or ports given up;   *)
(*   Home, while none has landed: every move leads away from the server's  *)
(*     node and none is past its flip, so what a failing move deletes and  *)
(*     releases is elsewhere, and the game runs, and so writes, at home;   *)
(*   Complete, while nothing came between: the home and, built up on the   *)
(*     way, what the flip needs at the destination.                        *)
(***************************************************************************)
EXTENDS Transfer, TLAPS

PortAtHome == given # {} \/ \E p \in PortsOf(node) : port[p] = "ours"

-----------------------------------------------------------------------------
(***************************************************************************)
(* Types, and what a step makes of a move.                                 *)
(***************************************************************************)
LEMMA TypeInit == Init => TypeOK
<1> SUFFICES ASSUME Init PROVE TypeOK
  OBVIOUS
<1>1. node \in Nodes /\ status \in ServerStatus /\ suspended \in BOOLEAN
  BY TransferAssumption DEF Init, ServerStatus, TransferAssumption
<1>2. port \in [Ports -> {"free", "ours", "taken"}]
  BY DEF Init
<1>3. container \in [Nodes -> {"none", "stopped", "running"}] /\ copy \in [Nodes -> Worlds]
  BY DEF Init, Worlds
<1>4. archive \in [Moves -> {"none"} \cup Whole]
  BY DEF Init
<1>5. move \in [Moves -> Job] /\ \A m \in Moves : move[m].at = "unused"
  BY DEF Init, Unused, Job, MoveStep, ServerStatus
<1>6. landed \in [Moves -> BOOLEAN] /\ stalls \in [Moves -> 0 .. MaxStalls]
  BY TransferAssumption DEF Init, TransferAssumption
<1>7. starter \in Start /\ mail \subseteq Report
  BY DEF Init, NoStart, Start
<1>8. astray \subseteq Ports /\ given \subseteq Ports /\ lapses \subseteq {"overlap", "arrived", "late"}
  BY DEF Init
<1> QED
  BY <1>1, <1>2, <1>3, <1>4, <1>5, <1>6, <1>7, <1>8 DEF TypeOK

\* Going on to another step changes nothing else of a move.
LEMMA GotoKeeps ==
  ASSUME TypeOK, NEW m \in Moves, NEW step \in MoveStep, Goto(m, step)
  PROVE  /\ move' \in [Moves -> Job]
         /\ \A k \in Moves : k # m => move'[k] = move[k]
         /\ move'[m].at = step /\ move'[m].dst = move[m].dst /\ move'[m].src = move[m].src
         /\ move'[m].held = move[m].held /\ move'[m].claimed = move[m].claimed
BY DEF TypeOK, Goto, Job

\* What changes more of a move than its step gives a new record, of the same type.
LEMMA NewJob ==
  ASSUME TypeOK, NEW m \in Moves, NEW job \in Job, move' = [move EXCEPT ![m] = job]
  PROVE  /\ move' \in [Moves -> Job] /\ move'[m] = job
         /\ \A k \in Moves : k # m => move'[k] = move[k]
BY DEF TypeOK

LEMMA DropKeeps ==
  ASSUME TypeOK, NEW m \in Moves, NEW step \in MoveStep, Drop(m, step)
  PROVE  /\ move' \in [Moves -> Job]
         /\ \A k \in Moves : k # m => move'[k] = move[k]
         /\ move'[m].at = step /\ move'[m].dst = move[m].dst /\ move'[m].src = move[m].src
         /\ move'[m].held = {} /\ move'[m].claimed = {}
<1> DEFINE job == [move[m] EXCEPT !.at = step, !.prev = "OFFLINE", !.held = {}, !.claimed = {}]
<1>1. move[m] \in Job
  BY DEF TypeOK
<1>2. /\ job \in Job /\ job.at = step /\ job.dst = move[m].dst /\ job.src = move[m].src
      /\ job.held = {} /\ job.claimed = {}
  BY <1>1 DEF Job, ServerStatus
<1>3. move' = [move EXCEPT ![m] = job]
  BY DEF Drop
<1> HIDE DEF job
<1> QED
  BY <1>2, <1>3, NewJob

LEMMA ReadKeeps ==
  ASSUME TypeOK, NEW m \in Moves, ReadServer(m)
  PROVE  /\ move' \in [Moves -> Job]
         /\ \A k \in Moves : k # m => move'[k] = move[k]
         /\ move[m].at = "take" /\ move'[m].at = "mark"
         /\ move'[m].dst = move[m].dst /\ move'[m].src = node
         /\ move'[m].held = {p \in Ports : port[p] = "ours"} /\ move'[m].claimed = {}
<1> DEFINE held == {p \in Ports : port[p] = "ours"}
           job == [move[m] EXCEPT !.at = "mark", !.src = node, !.prev = status, !.held = held, !.claimed = {}]
<1>1. move[m] \in Job /\ move[m].at = "take"
  BY DEF TypeOK, ReadServer, At
<1>2. held \in SUBSET Ports /\ node \in Nodes /\ status \in ServerStatus /\ "mark" \in MoveStep
  BY DEF TypeOK, MoveStep, Working, Ahead
<1>3. move' = [move EXCEPT ![m] = job]
  BY DEF ReadServer
<1> HIDE DEF held
<1>4. job \in Job /\ job.at = "mark" /\ job.dst = move[m].dst /\ job.src = node /\ job.held = held /\ job.claimed = {}
  BY <1>1, <1>2 DEF Job
<1> HIDE DEF job
<1>5. held = {p \in Ports : port[p] = "ours"}
  BY DEF held
<1> QED
  BY <1>1, <1>3, <1>4, <1>5, NewJob

LEMMA ClaimKeeps ==
  ASSUME TypeOK, NEW m \in Moves, ClaimPort(m)
  PROVE  /\ move' \in [Moves -> Job]
         /\ \A k \in Moves : k # m => move'[k] = move[k]
         /\ move[m].at = "claim" /\ move'[m].at = "put" /\ move'[m].dst = move[m].dst
         /\ move'[m].src = move[m].src /\ move'[m].held = move[m].held
         /\ UNCHANGED <<node, container, copy, landed>>
         /\ \E p \in PortsOf(move[m].dst) :
              /\ p \in Ports /\ port[p] = "free" /\ port' = [port EXCEPT ![p] = "ours"]
              /\ move'[m].claimed = {p}
<1>1. PICK p \in PortsOf(move[m].dst) :
        Claimed(p) /\ move' = [move EXCEPT ![m] = [@ EXCEPT !.at = "put", !.claimed = {p}]]
  BY DEF ClaimPort
<1> DEFINE job == [move[m] EXCEPT !.at = "put", !.claimed = {p}]
<1>2. move[m] \in Job /\ move[m].dst \in Nodes /\ move[m].at = "claim"
  BY DEF TypeOK, ClaimPort, At
<1>3. p \in Ports /\ "put" \in MoveStep
  BY <1>2 DEF PortsOf, Ports, MoveStep, Working, Ahead
<1>4. job \in Job /\ job.at = "put" /\ job.dst = move[m].dst /\ job.src = move[m].src
      /\ job.held = move[m].held /\ job.claimed = {p}
  BY <1>2, <1>3 DEF Job
<1>5. move' = [move EXCEPT ![m] = job]
  BY <1>1
<1> HIDE DEF job
<1>6. move' \in [Moves -> Job] /\ move'[m] = job /\ \A k \in Moves : k # m => move'[k] = move[k]
  BY <1>4, <1>5, NewJob
<1>7. port[p] = "free" /\ port' = [port EXCEPT ![p] = "ours"] /\ UNCHANGED <<node, container, copy, landed>>
  BY <1>1 DEF Claimed, Claimable, diskVars
<1> QED
  BY <1>2, <1>3, <1>4, <1>6, <1>7

\* The steps one leads to, besides the failures.
Path ==
  {<<"queued", "take">>, <<"mark", "stop">>, <<"stop", "wait">>, <<"wait", "record">>, <<"wait", "kill">>,
   <<"kill", "record">>, <<"record", "archive">>, <<"archive", "claim">>, <<"put", "restore">>,
   <<"restore", "flip">>, <<"flip", "delete">>, <<"delete", "drop">>, <<"delete", "notify">>,
   <<"drop", "notify">>, <<"unclaim", "unbuild">>, <<"unbuild", "settle">>}

GoesOn(m) ==
  \E step \in MoveStep \ {"unused"} :
    /\ Goto(m, step)
    /\ \/ <<move[m].at, step>> \in Path
       \/ /\ move[m].at \in Throws \cup {"notify"}
          /\ step = IF move[m].claimed = {} THEN "settle" ELSE "unclaim"

\* What a worker or its death does to its own job: three steps change more than
\* where it is.
LEMMA WorkKinds ==
  ASSUME TypeOK, NEW m \in Moves, Work(m) \/ WorkerDies(m)
  PROVE  \/ ReadServer(m) \/ ClaimPort(m) \/ GoesOn(m)
         \/ move[m].at # "unused" /\ \E step \in {"queued", "over"} : Drop(m, step)
<1> USE DEF GoesOn, Path, At, MoveStep, Working, Ahead, Behind, Unwind
<1>1. CASE TakeMove(m) \/ MarkTransferring(m)
  BY <1>1 DEF TakeMove, MarkTransferring
<1>2. CASE StopSource(m) \/ WaitStopped(m)
  BY <1>2 DEF StopSource, WaitStopped
<1>3. CASE RecordBackup(m) \/ ArchiveSource(m)
  BY <1>3 DEF RecordBackup, ArchiveSource
<1>4. CASE BuildDestination(m) \/ RestoreArchive(m)
  BY <1>4 DEF BuildDestination, RestoreArchive
<1>5. CASE Flip(m) \/ DropArchive(m)
  BY <1>5 DEF Flip, DropArchive
<1>6. CASE DeleteSource(m)
  BY <1>6 DEF DeleteSource
<1>7. CASE ReleaseClaim(m) \/ DeleteDestination(m)
  BY <1>7 DEF ReleaseClaim, DeleteDestination
<1>8. CASE FailMove(m) \/ FailLate(m)
  BY <1>8 DEF FailMove, FailLate, Unwinds, Throws
<1>9. CASE Notify(m) \/ RestoreStatus(m)
  BY <1>9 DEF Notify, RestoreStatus
<1>10. CASE WorkerDies(m)
  BY <1>10 DEF WorkerDies
<1> QED
  BY <1>1, <1>2, <1>3, <1>4, <1>5, <1>6, <1>7, <1>8, <1>9, <1>10 DEF Work

\* Which step it was is told by where it began and ended.
LEMMA WorkTells ==
  ASSUME TypeOK, NEW m \in Moves, Work(m) \/ WorkerDies(m)
  PROVE  /\ move[m].at = "put" /\ move'[m].at = "restore" => BuildDestination(m)
         /\ move[m].at = "restore" /\ move'[m].at = "flip" => RestoreArchive(m)
         /\ move[m].at = "flip" /\ move'[m].at = "delete" => Flip(m)
         /\ move[m].at = "notify" /\ move'[m].at \in Unwind => "late" \in lapses'
<1>1. ASSUME FailMove(m) \/ FailLate(m) PROVE move'[m].at \in {"settle", "unclaim"}
  <2>1. PICK step \in {"settle", "unclaim"} : Goto(m, step)
    BY <1>1 DEF FailMove, FailLate, Unwinds
  <2> QED
    BY <2>1, GotoKeeps DEF MoveStep, Working, Unwind
<1>2. ASSUME WorkerDies(m) \/ Notify(m) PROVE move'[m].at \in {"queued", "over"}
  <2>1. PICK step \in {"queued", "over"} : Drop(m, step)
    BY <1>2 DEF WorkerDies, Notify
  <2> QED
    BY <2>1, DropKeeps DEF MoveStep
<1>3. FailMove(m) => move[m].at # "notify"
  BY DEF FailMove, Throws
<1>4. FailLate(m) => "late" \in lapses'
  BY DEF FailLate
<1>5. /\ BuildDestination(m) => move[m].at = "put"
      /\ RestoreArchive(m) => move[m].at = "restore"
      /\ Flip(m) => move[m].at = "flip"
  BY DEF BuildDestination, RestoreArchive, Flip, At
<1>6. TakeMove(m) \/ ReadServer(m) \/ MarkTransferring(m) \/ StopSource(m) \/ WaitStopped(m) \/ RecordBackup(m)
        => move[m].at \notin {"put", "restore", "flip", "notify"}
  BY DEF TakeMove, ReadServer, MarkTransferring, StopSource, WaitStopped, RecordBackup, At
<1>7. ArchiveSource(m) \/ ClaimPort(m) \/ DeleteSource(m) \/ DropArchive(m) \/ ReleaseClaim(m)
        \/ DeleteDestination(m) \/ RestoreStatus(m) => move[m].at \notin {"put", "restore", "flip", "notify"}
  BY DEF ArchiveSource, ClaimPort, DeleteSource, DropArchive, ReleaseClaim, DeleteDestination, RestoreStatus, At
<1> QED
  BY <1>1, <1>2, <1>3, <1>4, <1>5, <1>6, <1>7 DEF Work, Unwind

LEMMA WorkTyped ==
  ASSUME TypeOK, NEW m \in Moves, Work(m) \/ WorkerDies(m)
  PROVE  /\ move' \in [Moves -> Job]
         /\ \A k \in Moves : k # m => move'[k] = move[k]
         /\ move'[m].dst = move[m].dst
         /\ move[m].at # "unused" /\ move'[m].at # "unused"
<1>1. CASE ReadServer(m)
  BY <1>1, ReadKeeps
<1>2. CASE ClaimPort(m)
  BY <1>2, ClaimKeeps
<1>3. ASSUME GoesOn(m)
      PROVE  move[m].at # "unused" /\ \E step \in MoveStep \ {"unused"} : Goto(m, step)
  BY <1>3 DEF GoesOn, Path, Throws
<1>4. ASSUME NEW step \in {"queued", "over"}, move[m].at # "unused", Drop(m, step)
      PROVE  step \in MoveStep /\ move[m].at # "unused"
  BY <1>4 DEF MoveStep
<1> QED
  BY <1>1, <1>2, <1>3, <1>4, GotoKeeps, DropKeeps, WorkKinds

LEMMA TypeStep == TypeOK /\ [Next]_vars => TypeOK'
<1> SUFFICES ASSUME TypeOK, [Next]_vars PROVE TypeOK'
  OBVIOUS
<1> USE DEF TypeOK, rowVars, diskVars, jobVars, history
<1>1. ASSUME NEW n \in Nodes, GameWrite(n) PROVE TypeOK'
  BY <1>1 DEF GameWrite, Outdate, Worlds, Whole
<1>2. ASSUME NEW n \in Nodes, GameExit(n) PROVE TypeOK'
  BY <1>2 DEF GameExit
<1>3. ASSUME NEW n \in Nodes, Emit(n) PROVE TypeOK'
  <2> DEFINE report == [from |-> n, read |-> FALSE,
                        says |-> IF container[n] = "running" THEN "ONLINE" ELSE "OFFLINE"]
  <2>1. report \in Report
    BY DEF Report, Reported
  <2>2. mail' = mail \cup {report}
    BY <1>3 DEF Emit
  <2> HIDE DEF report
  <2> QED
    BY <1>3, <2>1, <2>2 DEF Emit
<1>4. ASSUME NEW p \in Ports, OtherTakes(p) \/ EditPorts(p) PROVE TypeOK'
  <2>1. CASE OtherTakes(p)
    BY <2>1 DEF OtherTakes
  <2>2. CASE EditPorts(p)
    <3>1. port' \in [Ports -> {"free", "ours", "taken"}] /\ astray' \subseteq Ports /\ given' \subseteq Ports
          /\ lapses' = lapses
      BY <2>2 DEF EditPorts
    <3> QED
      BY <2>2, <3>1 DEF EditPorts
  <2> QED
    BY <1>4, <2>1, <2>2
<1>5. CASE StartCheck \/ StartSend \/ StartWrite
  BY <1>5 DEF StartCheck, StartSend, StartWrite, Start, NoStart, ServerStatus
<1>6. ASSUME NEW r \in mail, LoseReport(r) \/ ReadReport(r) PROVE TypeOK'
  BY <1>6 DEF LoseReport, ReadReport, Report
<1>7. ASSUME NEW r \in mail, ApplyReport(r) PROVE TypeOK'
  BY <1>7 DEF ApplyReport, Report, Reported, ServerStatus
<1>8. CASE Suspend \/ Unsuspend
  BY <1>8 DEF Suspend, Unsuspend, Lowered, ServerStatus
<1>9. ASSUME NEW m \in Moves, NEW dst \in Nodes, AskMove(m, dst) PROVE TypeOK'
  <2> DEFINE job == [move[m] EXCEPT !.at = "queued", !.dst = dst]
  <2>1. job \in Job /\ job.dst = dst
    BY DEF Job, MoveStep
  <2>2. move' = [move EXCEPT ![m] = job]
    BY <1>9 DEF AskMove
  <2> HIDE DEF job
  <2>3. move' \in [Moves -> Job] /\ \A k \in Moves : move'[k].at # "unused" => move'[k].dst \in Nodes
    BY <2>1, <2>2
  <2> QED
    BY <1>9, <2>3 DEF AskMove
<1>10. ASSUME NEW m \in Moves, Work(m) \/ WorkerDies(m) PROVE TypeOK'
  <2>1. move' \in [Moves -> Job] /\ \A k \in Moves : move'[k].at # "unused" => move'[k].dst \in Nodes
    BY <1>10, WorkTyped
  <2>2. move[m] \in Job /\ (move[m].at # "unused" => move[m].dst \in Nodes)
    OBVIOUS
  <2>3. move[m].held \subseteq Ports /\ move[m].claimed \subseteq Ports /\ move[m].prev \in ServerStatus
    BY <2>2 DEF Job
  <2>4. CASE TakeMove(m) \/ WaitStopped(m) \/ RecordBackup(m) \/ Notify(m)
    BY <2>1, <2>4 DEF TakeMove, WaitStopped, RecordBackup, Notify
  <2>5. CASE ReadServer(m)
    BY <2>1, <2>5 DEF ReadServer
  <2>6. CASE MarkTransferring(m)
    BY <2>1, <2>6 DEF MarkTransferring, Marked, ServerStatus, Beyond
  <2>7. CASE RestoreStatus(m)
    BY <2>1, <2>3, <2>7 DEF RestoreStatus, ServerStatus
  <2>8. CASE StopSource(m)
    <3>1. container' \in [Nodes -> {"none", "stopped", "running"}]
      BY <2>8 DEF StopSource, Lowered
    <3> QED
      BY <2>1, <2>8, <3>1 DEF StopSource
  <2>9. CASE DropArchive(m)
    BY <2>1, <2>9 DEF DropArchive
  <2>10. CASE ArchiveSource(m)
    BY <2>1, <2>10 DEF ArchiveSource, Archived, ArchiveOf, Whole, Beyond
  <2>11. CASE ClaimPort(m)
    BY <2>1, <2>11 DEF ClaimPort, Claimed, Beyond
  <2>12. CASE BuildDestination(m) \/ RestoreArchive(m)
    <3>1. CASE BuildDestination(m)
      BY <2>1, <3>1 DEF BuildDestination, Built, Worlds, Beyond
    <3>2. CASE RestoreArchive(m)
      BY <2>1, <3>2 DEF RestoreArchive, Restored, Whole, Worlds, Beyond
    <3> QED
      BY <2>12, <3>1, <3>2
  <2>13. ASSUME At(m, "flip"), Flipped(m)
         PROVE  /\ node' \in Nodes /\ status' \in ServerStatus /\ port' \in [Ports -> {"free", "ours", "taken"}]
                /\ landed' \in [Moves -> BOOLEAN] /\ astray' \subseteq Ports /\ UNCHANGED <<suspended, diskVars>>
    BY <2>2, <2>13 DEF Flipped, Freed, LeftBehind, At, ServerStatus
  <2>14. CASE Flip(m)
    BY <2>1, <2>13, <2>14 DEF Flip, Beyond
  <2>15. CASE FailLate(m)
    BY <2>1, <2>13, <2>15 DEF FailLate, Beyond
  <2>16. CASE ReleaseClaim(m)
    BY <2>1, <2>3, <2>16 DEF ReleaseClaim, Freed, Unhoused, Beyond
  <2>17. CASE DeleteSource(m) \/ DeleteDestination(m)
    <3>1. /\ UNCHANGED <<node, status, suspended, port, landed, stalls, starter, mail, history>>
          /\ \E n \in Nodes \cup {NoNode} : RemoveFrom(n)
      BY <2>2, <2>17 DEF DeleteSource, DeleteDestination, Job
    <3>2. PICK n \in Nodes \cup {NoNode} : RemoveFrom(n)
      BY <3>1
    <3>3. /\ container' \in [Nodes -> {"none", "stopped", "running"}] /\ copy' \in [Nodes -> Worlds]
          /\ archive' \in [Moves -> {"none"} \cup Whole]
      BY <3>2 DEF RemoveFrom, Worlds
    <3> QED
      BY <2>1, <3>1, <3>3
  <2>18. CASE FailMove(m)
    <3>1. UNCHANGED Beyond /\ lapses' = lapses /\ At(m, move[m].at) /\ LostWork(m)
      BY <2>18 DEF FailMove, At
    <3>2. CASE UNCHANGED <<rowVars, diskVars, landed, astray>>
      BY <2>1, <3>1, <3>2 DEF Beyond
    <3>3. CASE Marked
      BY <2>1, <3>1, <3>3 DEF Marked, ServerStatus, Beyond
    <3>4. CASE Archived(m)
      BY <2>1, <3>1, <3>4 DEF Archived, ArchiveOf, Whole, Beyond
    <3>5. ASSUME NEW p \in PortsOf(move[m].dst), At(m, "claim"), Claimed(p), astray' = astray \cup ({p} \ PortsOf(node))
          PROVE  TypeOK'
      <4>1. p \in Ports
        BY <2>2, <3>5 DEF At, PortsOf, Ports
      <4> QED
        BY <2>1, <3>1, <3>5, <4>1 DEF Claimed, Beyond
    <3>6. CASE Built(m)
      BY <2>1, <3>1, <3>6 DEF Built, Worlds, Beyond
    <3>7. ASSUME NEW world \in {"partial", archive[m]}, Restored(m, world) PROVE TypeOK'
      BY <2>1, <3>1, <3>7 DEF Restored, Worlds, Whole, Beyond
    <3> QED
      BY <3>1, <3>2, <3>3, <3>4, <3>5, <3>6, <3>7 DEF LostWork
  <2>19. CASE WorkerDies(m)
    <3>1. astray' \subseteq Ports
      BY <2>3, <2>19 DEF WorkerDies, Unhoused, Holding
    <3> QED
      BY <2>1, <2>19, <3>1, TransferAssumption DEF WorkerDies, Redelivers, TransferAssumption
  <2> QED
    BY <1>10, <2>4, <2>5, <2>6, <2>7, <2>8, <2>9, <2>10, <2>11, <2>12, <2>14, <2>15, <2>16, <2>17, <2>18, <2>19
       DEF Work
<1>11. CASE UNCHANGED vars
  BY <1>11 DEF vars
<1> QED
  BY <1>1, <1>2, <1>3, <1>4, <1>5, <1>6, <1>7, <1>8, <1>9, <1>10, <1>11 DEF Next

\* Every variable keeps its type in every state of every behaviour.
THEOREM TypeCorrect == Spec => []TypeOK
BY TypeInit, TypeStep, PTL DEF Spec

-----------------------------------------------------------------------------
(***************************************************************************)
(* What a move has claimed, and whose its lists are.                       *)
(***************************************************************************)
Claims ==
  \A m \in Moves :
    /\ move[m].claimed \subseteq PortsOf(move[m].dst)
    /\ move[m].at = "unused" => move[m].claimed = {}
    /\ move[m].at \in {"put", "restore", "flip"} => move[m].claimed # {}

LEMMA ClaimsInit == Init => Claims
BY DEF Init, Unused, Claims

LEMMA ClaimsStep == TypeOK /\ Claims /\ [Next]_vars => Claims'
<1> SUFFICES ASSUME TypeOK, Claims, [Next]_vars PROVE Claims'
  OBVIOUS
<1>1. CASE move' = move
  BY <1>1 DEF Claims
<1>2. ASSUME NEW m \in Moves, NEW dst \in Nodes, AskMove(m, dst) PROVE Claims'
  <2> DEFINE job == [move[m] EXCEPT !.at = "queued", !.dst = dst]
  <2>1. job \in Job /\ job.at = "queued" /\ job.claimed = {}
    BY <1>2 DEF AskMove, At, Claims, TypeOK, Job, MoveStep
  <2>2. move' = [move EXCEPT ![m] = job]
    BY <1>2 DEF AskMove
  <2> HIDE DEF job
  <2> QED
    BY <2>1, <2>2, NewJob DEF Claims
<1>3. ASSUME NEW m \in Moves, Work(m) \/ WorkerDies(m) PROVE Claims'
  <2>1. (\A k \in Moves : k # m => move'[k] = move[k]) /\ move'[m].dst = move[m].dst /\ move'[m].at # "unused"
    BY <1>3, WorkTyped
  <2> DEFINE Sound == /\ move'[m].claimed \subseteq PortsOf(move[m].dst)
                      /\ move'[m].at \in {"put", "restore", "flip"} => move'[m].claimed # {}
  <2>2. Sound
    <3>1. CASE ReadServer(m)
      BY <3>1, ReadKeeps
    <3>2. CASE ClaimPort(m)
      BY <3>2, ClaimKeeps
    <3>3. ASSUME GoesOn(m) PROVE Sound
      <4>1. PICK step \in MoveStep :
              /\ Goto(m, step)
              /\ step \in {"restore", "flip", "put"} => move[m].at \in {"put", "restore"}
        BY <3>3 DEF GoesOn, Path
      <4> QED
        BY <4>1, GotoKeeps DEF Claims
    <3>4. ASSUME NEW step \in {"queued", "over"}, Drop(m, step) PROVE move'[m].claimed = {} /\ move'[m].at = step
      BY <3>4, DropKeeps DEF MoveStep
    <3> QED
      BY <1>3, <3>1, <3>2, <3>3, <3>4, WorkKinds DEF Claims
  <2> QED
    BY <2>1, <2>2 DEF Claims
<1> QED
  BY <1>1, <1>2, <1>3 DEF Next, vars, jobVars, GameWrite, GameExit, StartCheck, StartSend, StartWrite,
     Emit, LoseReport, ReadReport, ApplyReport, Suspend, Unsuspend, OtherTakes, EditPorts

\* A step that is no move's: what it may do to the ports, the disks and the history.
Aside ==
  /\ UNCHANGED <<move, landed, node, lapses>> /\ given \subseteq given'
  /\ \A n \in Nodes : /\ container[n] # "none" => container'[n] # "none"
                      /\ copy[n] \in Whole => copy'[n] \in Whole
  /\ \A p \in Ports : port[p] = "taken" => port'[p] = "taken"
  /\ \/ \A p \in Ports : port[p] = "ours" => port'[p] = "ours"
     \/ \E p \in Ports :
          /\ \A q \in Ports \ {p} : port'[q] = port[q]
          /\ LastAtHome(p) \/ (\E m \in Moves : p \in Counted(m)) => p \in given'

LEMMA AsideStep ==
  ASSUME TypeOK, [Next]_vars,
         \A m \in Moves : ~Work(m) /\ ~WorkerDies(m) /\ \A dst \in Nodes : ~AskMove(m, dst)
  PROVE  Aside
<1> USE DEF TypeOK, rowVars, diskVars, jobVars, history, Aside
<1>1. CASE UNCHANGED vars
  BY <1>1 DEF vars
<1>2. ASSUME NEW n \in Nodes, GameWrite(n) \/ GameExit(n) \/ Emit(n) PROVE Aside
  <2>1. UNCHANGED <<move, landed, node, lapses, given, port>>
    BY <1>2 DEF GameWrite, GameExit, Emit
  <2>2. \A k \in Nodes : (container[k] # "none" => container'[k] # "none") /\ (copy[k] \in Whole => copy'[k] \in Whole)
    BY <1>2 DEF GameWrite, GameExit, Emit, Outdate, Whole
  <2> QED
    BY <2>1, <2>2
<1>3. ASSUME NEW p \in Ports, OtherTakes(p) PROVE Aside
  BY <1>3 DEF OtherTakes
<1>4. ASSUME NEW p \in Ports, EditPorts(p) PROVE Aside
  <2>1. UNCHANGED <<move, landed, node, lapses, container, copy>> /\ given \subseteq given'
    BY <1>4 DEF EditPorts
  <2>2. \A q \in Ports \ {p} : port'[q] = port[q]
    BY <1>4 DEF EditPorts
  <2>3. CASE port[p] = "free" /\ port' = [port EXCEPT ![p] = "ours"]
    BY <2>1, <2>2, <2>3
  <2>4. CASE port[p] = "ours"
    BY <1>4, <2>1, <2>2, <2>4 DEF EditPorts
  <2> QED
    BY <1>4, <2>3, <2>4 DEF EditPorts
<1>5. CASE StartCheck \/ StartWrite \/ Unsuspend
  BY <1>5 DEF StartCheck, StartWrite, Unsuspend
<1>6. CASE StartSend
  BY <1>6 DEF StartSend
<1>7. CASE Suspend
  BY <1>7 DEF Suspend, Lowered
<1>8. ASSUME NEW r \in mail, LoseReport(r) \/ ReadReport(r) \/ ApplyReport(r) PROVE Aside
  BY <1>8 DEF LoseReport, ReadReport, ApplyReport
<1> QED
  BY <1>1, <1>2, <1>3, <1>4, <1>5, <1>6, <1>7, <1>8 DEF Next

\* What the lists of a move may name: before the flip what it read, which is the
\* server's unless given up, and a claim that is none of it; then the claim alone.
OneAtWork == \A m, k \in Moves : AtWork(m) /\ AtWork(k) => m = k
ListsKept ==
  \A m \in Moves :
    /\ \A p \in Counted(m) : port[p] = "ours" \/ p \in given
    /\ move[m].at \in Ahead => move[m].claimed \cap move[m].held \subseteq given
Alone == "overlap" \notin lapses => OneAtWork /\ ListsKept

LEMMA AloneInit == Init => Alone
BY DEF Init, Unused, Alone, OneAtWork, ListsKept, AtWork, Counted, Ahead, Behind, Unwind

LEMMA OneAtWorkStep ==
  ASSUME TypeOK, NEW m \in Moves, Work(m) \/ WorkerDies(m), OneAtWork, "overlap" \notin lapses'
  PROVE  OneAtWork' /\ \A k \in Moves : AtWork(m)' /\ k # m => ~AtWork(k)
<1>1. \A k \in Moves : k # m => move'[k] = move[k]
  BY WorkTyped
<1>2. AtWork(m)' => AtWork(m) \/ \A k \in Moves \ {m} : ~AtWork(k)
  <2>1. CASE ReadServer(m)
    BY <2>1 DEF ReadServer
  <2>2. CASE ClaimPort(m)
    BY <2>2, ClaimKeeps DEF AtWork, Ahead
  <2>3. ASSUME GoesOn(m) PROVE AtWork(m)' => AtWork(m)
    <3>1. PICK step \in MoveStep : Goto(m, step) /\ (step \in Ahead \cup Behind \cup Unwind => AtWork(m))
      BY <2>3 DEF GoesOn, Path, Throws, AtWork, Ahead, Behind, Unwind
    <3> QED
      BY <3>1, GotoKeeps DEF AtWork
  <2>4. ASSUME NEW step \in {"queued", "over"}, Drop(m, step) PROVE ~AtWork(m)'
    BY <2>4, DropKeeps DEF MoveStep, AtWork, Ahead, Behind, Unwind
  <2> QED
    BY <2>1, <2>2, <2>3, <2>4, WorkKinds
<1>3. \A k \in Moves : k # m => (AtWork(k)' <=> AtWork(k))
  BY <1>1 DEF AtWork
<1> QED
  BY <1>2, <1>3 DEF OneAtWork

LEMMA CountedAtWork == ASSUME NEW m \in Moves, ~AtWork(m) PROVE Counted(m) = {} /\ move[m].at \notin Ahead
BY DEF AtWork, Counted, Unwind

\* What a worker does to the ports: the flip and the unwinding let go of some.
LEMMA WorkPorts ==
  ASSUME TypeOK, NEW m \in Moves, Work(m) \/ WorkerDies(m)
  PROVE  /\ given' = given /\ lapses \subseteq lapses'
         /\ \/ UNCHANGED <<port, node, landed>>
            \/ /\ move[m].at = "claim" /\ UNCHANGED <<node, landed, container, copy>>
               /\ \E p \in PortsOf(move[m].dst) :
                    p \in Ports /\ port[p] = "free" /\ port' = [port EXCEPT ![p] = "ours"]
            \/ /\ move[m].at = "unclaim" /\ Goto(m, "unbuild") /\ UNCHANGED <<node, landed, container, copy>>
               /\ port' = Freed(move[m].claimed)
            \/ /\ move[m].at = "flip" /\ Flipped(m)
               /\ \/ Goto(m, "delete")
                  \/ (Goto(m, "settle") \/ Goto(m, "unclaim")) /\ "late" \in lapses'
<1> USE DEF rowVars, diskVars, history, Beyond
<1>1. CASE TakeMove(m) \/ ReadServer(m) \/ StopSource(m) \/ WaitStopped(m) \/ RecordBackup(m)
  BY <1>1 DEF TakeMove, ReadServer, StopSource, WaitStopped, RecordBackup
<1>2. CASE MarkTransferring(m) \/ ArchiveSource(m) \/ BuildDestination(m) \/ RestoreArchive(m)
  BY <1>2 DEF MarkTransferring, Marked, ArchiveSource, Archived, BuildDestination, Built, RestoreArchive, Restored
<1>3. CASE ClaimPort(m)
  BY <1>3, ClaimKeeps DEF ClaimPort
<1>4. CASE Flip(m)
  BY <1>4 DEF Flip, At
<1>5. CASE DeleteSource(m) \/ DropArchive(m) \/ Notify(m) \/ DeleteDestination(m)
  BY <1>5 DEF DeleteSource, DropArchive, Notify, DeleteDestination
<1>6. CASE RestoreStatus(m) \/ WorkerDies(m)
  BY <1>6 DEF RestoreStatus, WorkerDies
<1>7. CASE FailMove(m)
  <2>1. given' = given /\ lapses' = lapses /\ LostWork(m)
    BY <1>7 DEF FailMove
  <2>2. ASSUME NEW p \in PortsOf(move[m].dst), At(m, "claim"), Claimed(p) PROVE p \in Ports
    BY <2>2 DEF At, TypeOK, PortsOf, Ports
  <2> QED
    BY <2>1, <2>2 DEF LostWork, Marked, Archived, Claimed, Claimable, Built, Restored, At
<1>8. CASE FailLate(m)
  BY <1>8 DEF FailLate, Unwinds, At
<1>9. CASE ReleaseClaim(m)
  BY <1>9 DEF ReleaseClaim, At
<1> QED
  BY <1>1, <1>2, <1>3, <1>4, <1>5, <1>6, <1>7, <1>8, <1>9 DEF Work

LEMMA ListsKeptStep ==
  ASSUME TypeOK, NEW m \in Moves, Work(m) \/ WorkerDies(m), OneAtWork, ListsKept, "overlap" \notin lapses'
  PROVE  ListsKept'
<1> DEFINE Kept(k) == /\ \A p \in Counted(k)' : port'[p] = "ours" \/ p \in given'
                      /\ move'[k].at \in Ahead => move'[k].claimed \cap move'[k].held \subseteq given'
<1>1. given' = given
  BY WorkPorts
<1>2. move[m].held \subseteq Ports /\ move[m].claimed \subseteq Ports /\ port \in [Ports -> {"free", "ours", "taken"}]
  BY DEF TypeOK, Job
<1>3. Kept(m)
  <2>1. CASE ReadServer(m)
    <3>1. port' = port /\ Counted(m)' = {p \in Ports : port[p] = "ours"} /\ move'[m].claimed = {}
      BY <2>1, ReadKeeps DEF ReadServer, rowVars, Counted, Ahead
    <3> QED
      BY <3>1
  <2>2. CASE ClaimPort(m)
    <3>1. PICK p \in Ports : port[p] = "free" /\ port' = [port EXCEPT ![p] = "ours"] /\ move'[m].claimed = {p}
      BY <2>2, ClaimKeeps
    <3>2. move[m].at = "claim" /\ move'[m].held = move[m].held /\ move'[m].at = "put"
      BY <2>2, ClaimKeeps
    <3>3. \A q \in move[m].held : port[q] = "ours" \/ q \in given
      BY <3>2 DEF ListsKept, Counted, Ahead
    <3>4. port'[p] = "ours" /\ \A q \in Ports : q # p => port'[q] = port[q]
      BY <1>2, <3>1
    <3>5. Counted(m)' = move[m].held \cup {p}
      BY <3>1, <3>2 DEF Counted, Ahead
    <3>6. {p} \cap move[m].held \subseteq given
      BY <3>1, <3>3
    <3> QED
      BY <1>1, <1>2, <3>1, <3>2, <3>3, <3>4, <3>5, <3>6
  <2>3. ASSUME GoesOn(m) PROVE Kept(m)
    <3>1. PICK step \in MoveStep :
            /\ Goto(m, step)
            /\ \/ <<move[m].at, step>> \in Path
               \/ move[m].at \in Throws \cup {"notify"} /\ step \in {"settle", "unclaim"}
      BY <2>3 DEF GoesOn
    <3>2. move'[m].at = step /\ move'[m].held = move[m].held /\ move'[m].claimed = move[m].claimed
      BY <3>1, GotoKeeps
    <3>3. Counted(m)' \subseteq Counted(m)
      BY <3>1, <3>2 DEF Counted, Path, Throws, Ahead, Behind
    <3>4. step \in Ahead => move[m].at \in Ahead
      BY <3>1 DEF Path, Ahead
    <3>5. move[m].at = "flip" => Counted(m)' \subseteq move[m].claimed
      BY <3>1, <3>2 DEF Counted, Path, Ahead, Behind
    <3>6. move[m].at = "unclaim" => Counted(m)' = {}
      BY <3>1, <3>2 DEF Counted, Path, Throws, Ahead, Behind
    <3>7. Counted(m) \subseteq Ports /\ \A p \in Counted(m) : port[p] = "ours" \/ p \in given
      BY <1>2 DEF ListsKept, Counted
    <3>8. ASSUME NEW p \in Counted(m)' PROVE port'[p] = "ours" \/ p \in given
      <4>1. p \in Ports /\ (port[p] = "ours" \/ p \in given)
        BY <3>3, <3>7, <3>8
      <4>2. CASE port' = port
        BY <4>1, <4>2
      <4>3. ASSUME NEW q \in Ports, port[q] = "free", port' = [port EXCEPT ![q] = "ours"]
            PROVE  port'[p] = "ours" \/ p \in given
        BY <1>2, <4>1, <4>3
      <4>4. CASE move[m].at = "flip" /\ Flipped(m)
        <5>1. port' = Freed(move[m].held) /\ (p \in move[m].held => p \in given)
          BY <3>5, <3>8, <4>4 DEF Flipped, ListsKept, Ahead
        <5> QED
          BY <4>1, <5>1 DEF Freed
      <4> QED
        BY <3>6, <3>8, <4>2, <4>3, <4>4, WorkPorts
    <3>9. step \in Ahead => move[m].claimed \cap move[m].held \subseteq given
      BY <3>4 DEF ListsKept
    <3> QED
      BY <1>1, <3>2, <3>8, <3>9
  <2>4. ASSUME NEW step \in {"queued", "over"}, Drop(m, step) PROVE Kept(m)
    <3>1. move'[m].at = step /\ move'[m].claimed = {} /\ move'[m].held = {}
      BY <2>4, DropKeeps DEF MoveStep
    <3> QED
      BY <3>1 DEF Counted
  <2> QED
    BY <2>1, <2>2, <2>3, <2>4, WorkKinds
<1>4. ASSUME NEW k \in Moves, k # m PROVE Kept(k)
  <2>1. CASE AtWork(m) \/ AtWork(m)'
    <3>1. ~AtWork(k)
      BY <1>4, <2>1, OneAtWorkStep DEF OneAtWork
    <3>2. move'[k] = move[k]
      BY <1>4, WorkTyped
    <3>3. ~AtWork(k)'
      BY <3>1, <3>2 DEF AtWork
    <3>4. Counted(k)' = {} /\ move'[k].at \notin Ahead
      BY <3>3 DEF AtWork, Counted, Unwind
    <3> QED
      BY <3>4
  <2>2. CASE ~AtWork(m)
    <3>1. move[m].at \notin {"claim", "unclaim", "flip"} /\ port' = port
      BY <2>2, WorkPorts DEF AtWork, Ahead, Unwind
    <3>2. move'[k] = move[k]
      BY <1>4, WorkTyped
    <3>3. Counted(k)' = Counted(k)
      BY <3>2 DEF Counted
    <3> QED
      BY <1>1, <3>1, <3>2, <3>3 DEF ListsKept
  <2> QED
    BY <2>1, <2>2
<1> QED
  BY <1>3, <1>4 DEF ListsKept

LEMMA AloneStep == TypeOK /\ Alone /\ [Next]_vars => Alone'
<1> SUFFICES ASSUME TypeOK, Alone, [Next]_vars, "overlap" \notin lapses' PROVE OneAtWork' /\ ListsKept'
  BY DEF Alone
<1>1. ASSUME NEW m \in Moves, Work(m) \/ WorkerDies(m) PROVE OneAtWork' /\ ListsKept'
  <2>1. OneAtWork /\ ListsKept
    BY <1>1, WorkPorts DEF Alone
  <2> QED
    BY <1>1, <2>1, OneAtWorkStep, ListsKeptStep
<1>2. ASSUME NEW m \in Moves, NEW dst \in Nodes, AskMove(m, dst) PROVE OneAtWork' /\ ListsKept'
  <2> DEFINE job == [move[m] EXCEPT !.at = "queued", !.dst = dst]
  <2>1. job \in Job /\ job.at = "queued"
    BY <1>2 DEF AskMove, TypeOK, Job, MoveStep
  <2>2. move' = [move EXCEPT ![m] = job] /\ UNCHANGED <<port, given, lapses>>
    BY <1>2 DEF AskMove, rowVars, history
  <2> HIDE DEF job
  <2>3. move'[m].at = "queued" /\ \A k \in Moves : k # m => move'[k] = move[k]
    BY <2>1, <2>2, NewJob
  <2>4. OneAtWork'
    BY <2>2, <2>3 DEF Alone, OneAtWork, AtWork, Ahead, Behind, Unwind
  <2>5. ListsKept'
    BY <2>2, <2>3 DEF Alone, ListsKept, Counted, Ahead, Behind
  <2> QED
    BY <2>4, <2>5
<1>3. ASSUME Aside PROVE OneAtWork' /\ ListsKept'
  <2>1. OneAtWork /\ ListsKept /\ move' = move /\ given \subseteq given'
    BY <1>3 DEF Aside, Alone
  <2>2. \A m \in Moves : Counted(m)' = Counted(m) /\ Counted(m) \subseteq Ports /\ (AtWork(m)' <=> AtWork(m))
    BY <2>1 DEF Counted, AtWork, TypeOK, Job
  <2>3. \A m \in Moves : \A p \in Counted(m) : port'[p] = "ours" \/ p \in given'
    <3>1. CASE \A p \in Ports : port[p] = "ours" => port'[p] = "ours"
      BY <2>1, <2>2, <3>1 DEF ListsKept
    <3>2. ASSUME NEW p \in Ports, \A q \in Ports \ {p} : port'[q] = port[q],
                 (\E m \in Moves : p \in Counted(m)) => p \in given'
          PROVE  \A m \in Moves : \A q \in Counted(m) : port'[q] = "ours" \/ q \in given'
      BY <2>1, <2>2, <3>2 DEF ListsKept
    <3> QED
      BY <1>3, <3>1, <3>2 DEF Aside
  <2>4. OneAtWork'
    BY <2>1, <2>2 DEF OneAtWork
  <2>5. ListsKept'
    BY <2>1, <2>2, <2>3 DEF ListsKept
  <2> QED
    BY <2>4, <2>5
<1> QED
  BY <1>1, <1>2, <1>3, AsideStep

\* "Held by another server" (allocations.test.ts): the flip and the unwinding let go
\* only of ports in the lists, which name another's port only if it was given up or
\* the moves overlapped.
THEOREM OthersKeepPortsHolds == Spec => OthersKeepPorts
<1>1. TypeOK /\ Alone /\ [Next]_vars
      => [\A p \in Ports : port[p] = "taken" /\ p \notin given /\ "overlap" \notin lapses => port'[p] = "taken"]_vars
  <2> SUFFICES ASSUME TypeOK, ListsKept, [Next]_vars, NEW p \in Ports, port[p] = "taken", p \notin given
               PROVE port'[p] = "taken"
    BY DEF Alone
  <2>1. ASSUME NEW m \in Moves, Work(m) \/ WorkerDies(m) PROVE port'[p] = "taken"
    <3>1. move[m].at = "flip" => p \notin move[m].held
      BY DEF ListsKept, Counted, Ahead
    <3>2. move[m].at = "unclaim" => p \notin move[m].claimed
      BY DEF ListsKept, Counted
    <3>3. ASSUME NEW q \in Ports, port[q] = "free", port' = [port EXCEPT ![q] = "ours"] PROVE port'[p] = "taken"
      BY <3>3 DEF TypeOK
    <3> QED
      BY <2>1, <3>1, <3>2, <3>3, WorkPorts DEF Flipped, Freed
  <2>2. ASSUME NEW m \in Moves, NEW dst \in Nodes, AskMove(m, dst) PROVE port'[p] = "taken"
    BY <2>2 DEF AskMove, rowVars
  <2>3. CASE Aside
    BY <2>3 DEF Aside
  <2> QED
    BY <2>1, <2>2, <2>3, AsideStep
<1>2. TypeOK /\ Alone /\ [Next]_vars => (TypeOK /\ Alone)'
  BY TypeStep, AloneStep
<1> QED
  BY TypeInit, AloneInit, <1>1, <1>2, PTL DEF Spec, OthersKeepPorts

-----------------------------------------------------------------------------
(***************************************************************************)
(* Ports left behind.                                                      *)
(***************************************************************************)
LEMMA StrandedStep == TypeOK /\ Claims /\ NothingStranded /\ [Next]_vars => NothingStranded'
<1> SUFFICES ASSUME TypeOK, Claims, NothingStranded, [Next]_vars, NEW p \in Ports, port'[p] = "ours"
             PROVE  p \in PortsOf(node') \/ p \in astray' \/ \E m \in Moves : p \in Holding(m)'
  BY DEF NothingStranded
<1> DEFINE Known == p \in PortsOf(node') \/ p \in astray' \/ \E m \in Moves : p \in Holding(m)'
<1> USE DEF rowVars, diskVars, jobVars, history, Beyond
<1>1. port \in [Ports -> {"free", "ours", "taken"}]
  BY DEF TypeOK
<1>2. ASSUME move' = move, node' = node, port[p] = "ours", p \in astray => p \in astray' PROVE Known
  BY <1>2 DEF NothingStranded, Holding
<1>3. ASSUME NEW q \in Ports, EditPorts(q) PROVE Known
  <2>1. CASE q \in PortsOf(node) /\ port' = [port EXCEPT ![q] = "ours"] /\ UNCHANGED history
    <3>1. node' = node /\ move' = move /\ astray' = astray /\ (p = q \/ port[p] = "ours")
      BY <1>1, <1>3, <2>1 DEF EditPorts
    <3> QED
      BY <1>2, <2>1, <3>1
  <2>2. CASE port' = [port EXCEPT ![q] = "free"] /\ astray' = astray \ {q}
    <3>1. node' = node /\ move' = move /\ p # q /\ port[p] = "ours"
      BY <1>1, <1>3, <2>2 DEF EditPorts
    <3> QED
      BY <1>2, <2>2, <3>1
  <2> QED
    BY <1>3, <2>1, <2>2 DEF EditPorts
<1>4. ASSUME NEW m \in Moves, NEW dst \in Nodes, AskMove(m, dst) PROVE Known
  <2> DEFINE job == [move[m] EXCEPT !.at = "queued", !.dst = dst]
  <2>1. job \in Job /\ job.at = "queued" /\ move[m].at = "unused"
    BY <1>4 DEF AskMove, At, TypeOK, Job, MoveStep
  <2>2. move' = [move EXCEPT ![m] = job] /\ UNCHANGED <<port, node, astray>>
    BY <1>4 DEF AskMove
  <2> HIDE DEF job
  <2>3. \A k \in Moves : Holding(k)' = Holding(k)
    BY <2>1, <2>2, NewJob DEF Holding
  <2> QED
    BY <2>2, <2>3 DEF NothingStranded
<1>5. ASSUME NEW m \in Moves, Work(m) \/ WorkerDies(m) PROVE Known
  <2>1. \A k \in Moves : k # m => Holding(k)' = Holding(k)
    BY <1>5, WorkTyped DEF Holding
  <2>2. ASSUME UNCHANGED <<port, node, astray>>, Holding(m) \subseteq Holding(m)' PROVE Known
    BY <2>1, <2>2 DEF NothingStranded
  <2>3. CASE ReadServer(m)
    BY <2>2, <2>3, ReadKeeps DEF ReadServer, Holding
  <2>4. CASE ClaimPort(m)
    <3>1. PICK q \in Ports : port' = [port EXCEPT ![q] = "ours"] /\ move'[m].claimed = {q}
      BY <2>4, ClaimKeeps
    <3>2. move[m].at = "claim" /\ move'[m].at = "put" /\ node' = node /\ astray' = astray
      BY <2>4, ClaimKeeps DEF ClaimPort
    <3>3. p = q \/ port[p] = "ours"
      BY <1>1, <3>1
    <3> QED
      BY <2>1, <3>1, <3>2, <3>3 DEF NothingStranded, Holding
  <2>5. CASE Notify(m) \/ RestoreStatus(m)
    BY <2>2, <2>5 DEF Notify, RestoreStatus, Holding, At
  <2>6. CASE WorkerDies(m)
    <3>1. UNCHANGED <<port, node>> /\ astray' = astray \cup Unhoused(Holding(m))
      BY <2>6 DEF WorkerDies
    <3> QED
      BY <2>1, <3>1 DEF NothingStranded, Unhoused
  <2>7. CASE TakeMove(m) \/ StopSource(m) \/ WaitStopped(m) \/ RecordBackup(m) \/ MarkTransferring(m)
             \/ ArchiveSource(m) \/ DeleteSource(m) \/ DropArchive(m) \/ DeleteDestination(m)
    <3>1. UNCHANGED <<port, node, astray>> /\ move[m].at \notin {"put", "restore", "flip", "unclaim"}
      BY <2>7 DEF TakeMove, StopSource, WaitStopped, RecordBackup, MarkTransferring, Marked, ArchiveSource,
         Archived, DeleteSource, DropArchive, DeleteDestination, At
    <3> QED
      BY <2>2, <3>1 DEF Holding
  <2>8. CASE BuildDestination(m) \/ RestoreArchive(m)
    <3>1. PICK step \in {"restore", "flip"} : Goto(m, step)
      BY <2>8 DEF BuildDestination, RestoreArchive
    <3>2. move'[m].at = step /\ move'[m].claimed = move[m].claimed
      BY <3>1, GotoKeeps DEF MoveStep, Working, Ahead
    <3>3. UNCHANGED <<port, node, astray>> /\ move[m].at \in {"put", "restore"}
      BY <2>8 DEF BuildDestination, Built, RestoreArchive, Restored, At
    <3> QED
      BY <2>2, <3>2, <3>3 DEF Holding
  <2>9. ASSUME move[m].at = "flip", Flipped(m) PROVE Known
    <3>1. port' = Freed(move[m].held) /\ node' = move[m].dst /\ astray' = (astray \ move[m].held) \cup LeftBehind(m)
      BY <2>9 DEF Flipped
    <3>2. p \notin move[m].held /\ port[p] = "ours"
      BY <3>1 DEF Freed
    <3> QED
      BY <2>1, <3>1, <3>2 DEF LeftBehind
  <2>10. CASE Flip(m) \/ FailLate(m)
    <3>1. CASE At(m, "flip")
      BY <2>9, <2>10, <3>1 DEF Flip, FailLate, At
    <3>2. CASE At(m, "notify")
      BY <2>2, <2>10, <3>2 DEF Flip, FailLate, Holding, At
    <3> QED
      BY <2>10, <3>1, <3>2 DEF Flip, FailLate
  <2>11. CASE FailMove(m)
    <3>1. Holding(m) \subseteq Holding(m)'
      <4>1. PICK step \in {"settle", "unclaim"} :
              Goto(m, step) /\ step = IF move[m].claimed = {} THEN "settle" ELSE "unclaim"
        BY <2>11 DEF FailMove, Unwinds
      <4>2. move'[m].at = step /\ move'[m].claimed = move[m].claimed
        BY <4>1, GotoKeeps DEF MoveStep, Working, Unwind
      <4> QED
        BY <4>1, <4>2 DEF Holding
    <3>2. ASSUME NEW q \in PortsOf(move[m].dst), Claimed(q), astray' = astray \cup ({q} \ PortsOf(node)) PROVE Known
      <4>1. node' = node /\ (p = q \/ port[p] = "ours")
        BY <1>1, <3>2 DEF Claimed
      <4> QED
        BY <2>1, <3>1, <3>2, <4>1 DEF NothingStranded
    <3>3. CASE UNCHANGED <<port, node, astray>>
      BY <2>2, <3>1, <3>3
    <3> QED
      BY <2>11, <3>2, <3>3 DEF FailMove, LostWork, Marked, Archived, Built, Restored
  <2>12. CASE ReleaseClaim(m)
    <3>1. move[m].at = "unclaim" /\ node' = node
      BY <2>12 DEF ReleaseClaim, At
    <3>2. CASE port' = Freed(move[m].claimed) /\ astray' = astray \ move[m].claimed
      <4>1. p \notin move[m].claimed /\ port[p] = "ours"
        BY <3>2 DEF Freed
      <4> QED
        BY <2>1, <3>1, <3>2, <4>1 DEF NothingStranded, Holding
    <3>3. CASE UNCHANGED port /\ astray' = astray \cup Unhoused(move[m].claimed)
      BY <2>1, <3>1, <3>3 DEF NothingStranded, Holding, Unhoused
    <3> QED
      BY <2>12, <3>2, <3>3 DEF ReleaseClaim
  <2> QED
    BY <1>5, <2>3, <2>4, <2>5, <2>6, <2>7, <2>8, <2>10, <2>11, <2>12 DEF Work
<1>6. CASE UNCHANGED vars
  BY <1>2, <1>6 DEF vars
<1>7. ASSUME NEW q \in Ports, OtherTakes(q) PROVE Known
  BY <1>1, <1>2, <1>7 DEF OtherTakes
<1>8. ASSUME UNCHANGED <<move, node, port, astray>> PROVE Known
  BY <1>2, <1>8
<1> QED
  BY <1>3, <1>4, <1>5, <1>6, <1>7, <1>8 DEF Next, jobVars, GameWrite, GameExit, StartCheck, StartSend,
     StartWrite, Emit, LoseReport, ReadReport, ApplyReport, Suspend, Unsuspend

\* The catch block and a dead worker leave ports behind, and only those that are
\* known: a failed release, a lost answer, a claim a worker died with.
THEOREM NothingStrandedHolds == Spec => []NothingStranded
<1>1. Init => NothingStranded
  <2> SUFFICES ASSUME Init PROVE NothingStranded
    OBVIOUS
  <2>1. PICK s \in Slots : port = [p \in Ports |-> IF p = <<node, s>> THEN "ours" ELSE "free"]
    BY DEF Init
  <2> QED
    BY <2>1 DEF NothingStranded, PortsOf, Ports
<1> QED
  BY TypeInit, TypeStep, ClaimsInit, ClaimsStep, StrandedStep, <1>1, PTL DEF Spec

-----------------------------------------------------------------------------
(***************************************************************************)
(* The server's home: its files, its container and its port.               *)
(***************************************************************************)
\* A worker changes the disks of its destination, and removes what its source had.
LEMMA WorkDisks ==
  ASSUME TypeOK, NEW m \in Moves, Work(m) \/ WorkerDies(m), NEW n \in Nodes
  PROVE  /\ starter' = starter /\ (container'[n] = "running" => container[n] = "running")
         /\ \/ move[m].at \in {"put", "restore", "unbuild"} /\ n = move[m].dst
            \/ move[m].at = "delete" /\ n = move[m].src
            \/ (container[n] # "none" => container'[n] # "none") /\ copy'[n] = copy[n]
<1> USE DEF TypeOK, diskVars, Beyond, At
<1>1. CASE UNCHANGED <<container, copy, starter>>
  BY <1>1
<1>2. CASE StopSource(m)
  BY <1>2 DEF StopSource, Lowered
<1>3. CASE BuildDestination(m) \/ RestoreArchive(m)
  BY <1>3 DEF BuildDestination, Built, RestoreArchive, Restored
<1>4. CASE DeleteSource(m) \/ DeleteDestination(m)
  BY <1>4 DEF DeleteSource, DeleteDestination, RemoveFrom
<1>5. CASE FailMove(m)
  BY <1>5 DEF FailMove, LostWork, Marked, Archived, Claimed, Built, Restored
<1>6. CASE Flip(m) \/ FailLate(m)
  BY <1>6 DEF Flip, FailLate, Flipped
<1>7. CASE MarkTransferring(m) \/ ArchiveSource(m) \/ ClaimPort(m)
  BY <1>7 DEF MarkTransferring, Marked, ArchiveSource, Archived, ClaimPort, Claimed
<1> QED
  BY <1>1, <1>2, <1>3, <1>4, <1>5, <1>6, <1>7 DEF Work, TakeMove, ReadServer, WaitStopped, RecordBackup,
     DropArchive, Notify, ReleaseClaim, RestoreStatus, WorkerDies

\* The last port at home is given up by the customer or by nobody.
LEMMA AsidePort == ASSUME TypeOK, PortAtHome, Aside PROVE PortAtHome'
<1>1. node' = node /\ given \subseteq given' /\ node \in Nodes
  BY DEF Aside, TypeOK
<1>2. ASSUME NEW h \in PortsOf(node), port[h] = "ours", given' = {} PROVE \E g \in PortsOf(node) : port'[g] = "ours"
  <2>1. PortsOf(node) \subseteq Ports
    BY <1>1 DEF PortsOf, Ports
  <2>2. CASE \A p \in Ports : port[p] = "ours" => port'[p] = "ours"
    BY <1>2, <2>1, <2>2
  <2>3. ASSUME NEW p \in Ports, \A q \in Ports \ {p} : port'[q] = port[q], LastAtHome(p) => p \in given'
        PROVE  \E g \in PortsOf(node) : port'[g] = "ours"
    <3>1. CASE p # h
      BY <1>2, <2>1, <2>3, <3>1
    <3>2. CASE p = h
      BY <1>2, <2>1, <2>3, <3>2 DEF LastAtHome
    <3> QED
      BY <3>1, <3>2
  <2> QED
    BY <2>2, <2>3 DEF Aside
<1> QED
  BY <1>1, <1>2 DEF PortAtHome

\* A worker lets no port go at the server's node while its move leads away from it.
LEMMA WorkPort ==
  ASSUME TypeOK, Claims, PortAtHome, NEW m \in Moves, Work(m) \/ WorkerDies(m), node' = node, landed' = landed,
         move[m].dst # node
  PROVE  PortAtHome'
<1>1. given' = given
  BY WorkPorts
<1>2. ASSUME NEW h \in PortsOf(node), port[h] = "ours" PROVE port'[h] = "ours"
  <2>1. h \in Ports /\ h \notin move[m].claimed
    BY DEF TypeOK, PortsOf, Ports, Claims
  <2>2. ~Flipped(m)
    BY DEF Flipped, TypeOK
  <2>3. ASSUME NEW p \in Ports, port[p] = "free", port' = [port EXCEPT ![p] = "ours"] PROVE port'[h] = "ours"
    BY <1>2, <2>1, <2>3 DEF TypeOK
  <2> QED
    BY <1>2, <2>1, <2>2, <2>3, WorkPorts DEF Freed
<1> QED
  BY <1>1, <1>2 DEF PortAtHome

-----------------------------------------------------------------------------
(***************************************************************************)
(* Until a move has landed.                                                *)
(***************************************************************************)
NoneLanded == \A m \in Moves : ~landed[m]
FilesAtHome == copy[node] = "current" /\ container[node] # "none"
MovesLeadAway == \A m \in Moves : move[m].at # "unused" => move[m].dst # node
NonePastFlip == \A m \in Moves : move[m].at \notin Behind
RunsAtHome ==
  /\ \A n \in Nodes : container[n] = "running" => n = node
  /\ starter.at # "idle" => starter.to = node

Home == FilesAtHome /\ PortAtHome /\ MovesLeadAway /\ NonePastFlip /\ RunsAtHome
SourceInv == TypeOK /\ Claims /\ (NoneLanded => Home)

LEMMA PortAtHomeInit == Init => PortAtHome
<1> SUFFICES ASSUME Init PROVE \E p \in PortsOf(node) : port[p] = "ours"
  BY DEF PortAtHome
<1>1. PICK s \in Slots : port = [p \in Ports |-> IF p = <<node, s>> THEN "ours" ELSE "free"]
  BY DEF Init
<1>2. <<node, s>> \in Ports /\ <<node, s>> \in PortsOf(node)
  BY TypeInit DEF TypeOK, Ports, PortsOf
<1> QED
  BY <1>1, <1>2

LEMMA SourceInit == Init => SourceInv
<1> SUFFICES ASSUME Init PROVE SourceInv
  OBVIOUS
<1>1. FilesAtHome /\ RunsAtHome
  BY TypeInit DEF Init, FilesAtHome, RunsAtHome, NoStart, TypeOK
<1>2. MovesLeadAway /\ NonePastFlip
  BY DEF Init, MovesLeadAway, NonePastFlip, Unused, Behind
<1> QED
  BY <1>1, <1>2, TypeInit, ClaimsInit, PortAtHomeInit DEF SourceInv, Home

\* Nothing but a flip that is marked as landed changes the node.
LEMMA NodeStays ==
  ASSUME TypeOK, [Next]_vars, NoneLanded'
  PROVE  NoneLanded /\ UNCHANGED <<node, landed>> /\ \A m \in Moves : ~Flipped(m)
<1>1. \A m \in Moves : ~Flipped(m)
  BY DEF Flipped, NoneLanded, TypeOK
<1>2. ASSUME NEW m \in Moves, Work(m) \/ WorkerDies(m) PROVE UNCHANGED <<node, landed>>
  BY <1>1, <1>2, WorkPorts
<1>3. ASSUME NEW m \in Moves, NEW dst \in Nodes, AskMove(m, dst) PROVE UNCHANGED <<node, landed>>
  BY <1>3 DEF AskMove, rowVars
<1>4. UNCHANGED <<node, landed>>
  BY <1>2, <1>3, AsideStep DEF Aside
<1> QED
  BY <1>1, <1>4 DEF NoneLanded

\* What follows is one step taken while no move has landed, before or after it.
StillAway == TypeOK /\ Claims /\ Home /\ [Next]_vars /\ UNCHANGED <<node, landed>> /\ \A m \in Moves : ~Flipped(m)

\* A move is asked for another node than the server's, keeps its destination, and
\* without a flip does not get past it.
LEMMA AwayStep == StillAway => MovesLeadAway' /\ NonePastFlip'
<1> SUFFICES ASSUME StillAway PROVE MovesLeadAway' /\ NonePastFlip'
  OBVIOUS
<1> USE DEF StillAway, Home, MovesLeadAway, NonePastFlip
<1>1. CASE Aside
  BY <1>1 DEF Aside
<1>2. ASSUME NEW m \in Moves, NEW dst \in Nodes, AskMove(m, dst) PROVE MovesLeadAway' /\ NonePastFlip'
  <2> DEFINE job == [move[m] EXCEPT !.at = "queued", !.dst = dst]
  <2>1. job \in Job /\ job.at = "queued" /\ job.dst = dst /\ dst # node
    BY <1>2 DEF AskMove, TypeOK, Job, MoveStep
  <2>2. move' = [move EXCEPT ![m] = job]
    BY <1>2 DEF AskMove
  <2> HIDE DEF job
  <2> QED
    BY <2>1, <2>2, NewJob DEF Behind
<1>3. ASSUME NEW m \in Moves, Work(m) \/ WorkerDies(m) PROVE MovesLeadAway' /\ NonePastFlip'
  <2>1. (\A k \in Moves : k # m => move'[k] = move[k]) /\ move'[m].dst = move[m].dst /\ move[m].at # "unused"
    BY <1>3, WorkTyped
  <2>2. move'[m].at \notin Behind
    <3>1. CASE ReadServer(m) \/ ClaimPort(m)
      BY <3>1, ReadKeeps, ClaimKeeps DEF Behind
    <3>2. ASSUME NEW step \in MoveStep, Goto(m, step), <<move[m].at, step>> \in Path PROVE step \notin Behind
      <4>1. move[m].at = "flip" /\ step = "delete" => Flip(m)
        BY <1>3, <3>2, GotoKeeps, WorkTells
      <4>2. ~Flip(m)
        BY DEF Flip
      <4> QED
        BY <3>2, <4>1, <4>2 DEF Path, Behind
    <3>3. ASSUME GoesOn(m) PROVE move'[m].at \notin Behind
      <4>1. PICK step \in MoveStep :
              Goto(m, step) /\ (<<move[m].at, step>> \in Path \/ step \in {"settle", "unclaim"})
        BY <3>3 DEF GoesOn
      <4> QED
        BY <3>2, <4>1, GotoKeeps DEF Behind
    <3>4. ASSUME NEW step \in {"queued", "over"}, Drop(m, step) PROVE move'[m].at \notin Behind
      BY <3>4, DropKeeps DEF MoveStep, Behind
    <3> QED
      BY <1>3, <3>1, <3>3, <3>4, WorkKinds
  <2> QED
    BY <2>1, <2>2
<1> QED
  BY <1>1, <1>2, <1>3, AsideStep

\* The game is started at home and nowhere else.
LEMMA RunsAtHomeStep == StillAway => RunsAtHome'
<1> SUFFICES ASSUME StillAway PROVE RunsAtHome'
  OBVIOUS
<1> USE DEF StillAway, Home, RunsAtHome, TypeOK
<1>1. CASE StartCheck
  BY <1>1 DEF StartCheck, diskVars
<1>2. CASE StartSend
  BY <1>2 DEF StartSend, Start, NoStart
<1>3. CASE StartWrite
  BY <1>3 DEF StartWrite, NoStart, diskVars
<1>4. ASSUME NEW n \in Nodes, GameWrite(n) \/ GameExit(n) \/ Emit(n) PROVE RunsAtHome'
  BY <1>4 DEF GameWrite, GameExit, Emit, diskVars
<1>5. CASE Suspend
  BY <1>5 DEF Suspend, Lowered
<1>6. ASSUME NEW m \in Moves, Work(m) \/ WorkerDies(m) PROVE RunsAtHome'
  BY <1>6, WorkDisks
<1> QED
  BY <1>1, <1>2, <1>3, <1>4, <1>5, <1>6 DEF Next, vars, diskVars, LoseReport, ReadReport, ApplyReport,
     OtherTakes, EditPorts, AskMove, Unsuspend

\* The world at home is written by the game alone, and its container stays.
LEMMA FilesAtHomeStep == StillAway => FilesAtHome'
<1> SUFFICES ASSUME StillAway PROVE FilesAtHome'
  OBVIOUS
<1> USE DEF StillAway, Home, FilesAtHome, TypeOK
<1>1. CASE UNCHANGED <<container, copy>>
  BY <1>1
<1>2. ASSUME NEW n \in Nodes, GameWrite(n) PROVE FilesAtHome'
  BY <1>2 DEF GameWrite, RunsAtHome
<1>3. ASSUME NEW n \in Nodes, GameExit(n) PROVE FilesAtHome'
  BY <1>3 DEF GameExit
<1>4. CASE StartSend \/ Suspend
  BY <1>4 DEF StartSend, Suspend, Lowered
<1>5. ASSUME NEW m \in Moves, Work(m) \/ WorkerDies(m) PROVE FilesAtHome'
  <2>1. move[m].dst # node /\ move[m].at # "delete"
    BY <1>5, WorkTyped DEF MovesLeadAway, NonePastFlip, Behind
  <2> QED
    BY <1>5, <2>1, WorkDisks
<1> QED
  BY <1>1, <1>2, <1>3, <1>4, <1>5 DEF Next, vars, diskVars, StartCheck, StartWrite, Emit, LoseReport,
     ReadReport, ApplyReport, OtherTakes, EditPorts, AskMove, Unsuspend

LEMMA PortAtHomeStep == StillAway => PortAtHome'
<1> SUFFICES ASSUME StillAway PROVE PortAtHome'
  OBVIOUS
<1> USE DEF StillAway, Home
<1>1. CASE Aside
  BY <1>1, AsidePort
<1>2. ASSUME NEW m \in Moves, Work(m) \/ WorkerDies(m) PROVE PortAtHome'
  BY <1>2, WorkPort, WorkTyped DEF MovesLeadAway
<1>3. ASSUME NEW m \in Moves, NEW dst \in Nodes, AskMove(m, dst) PROVE PortAtHome'
  BY <1>3 DEF AskMove, rowVars, history, PortAtHome
<1> QED
  BY <1>1, <1>2, <1>3, AsideStep

LEMMA SourceStep == SourceInv /\ [Next]_vars => SourceInv'
<1> SUFFICES ASSUME SourceInv, [Next]_vars PROVE SourceInv'
  OBVIOUS
<1>1. TypeOK' /\ Claims'
  BY TypeStep, ClaimsStep DEF SourceInv
<1>2. ASSUME NoneLanded' PROVE Home'
  <2>1. StillAway
    BY <1>2, NodeStays DEF SourceInv, StillAway
  <2> QED
    BY <2>1, AwayStep, RunsAtHomeStep, FilesAtHomeStep, PortAtHomeStep DEF Home
<1> QED
  BY <1>1, <1>2 DEF SourceInv

\* "Every step up to the database flip leaves the source node untouched and
\* complete" (transfer.worker.ts): however calls fail, answers get lost,
\* workers die and moves overlap, until a move has landed the server's node has
\* its newest files and its container, and the server keeps a port there.
THEOREM SourceKeptHolds == Spec => []SourceKept
<1>1. SourceInv => SourceKept
  BY DEF SourceInv, NoneLanded, Home, FilesAtHome, PortAtHome, SourceKept
<1> QED
  BY SourceInit, SourceStep, <1>1, PTL DEF Spec

-----------------------------------------------------------------------------
(***************************************************************************)
(* Across the flip, while no move overlapped another, began where it leads *)
(* or failed after its flip.                                               *)
(***************************************************************************)
Leads ==
  \A m \in Moves :
    /\ move[m].at \in Ahead \cup Unwind => move[m].src = node /\ move[m].dst # node
    /\ move[m].at \in Behind => move[m].src # node /\ move[m].dst = node
Ready ==
  \A m \in Moves :
    /\ move[m].at \in {"restore", "flip"} => container[move[m].dst] # "none"
    /\ move[m].at = "flip" => copy[move[m].dst] \in Whole
WholeAtHome == copy[node] \in Whole /\ container[node] # "none"

Complete == WholeAtHome /\ PortAtHome /\ Leads /\ Ready
MovedInv == TypeOK /\ Claims /\ Alone /\ (lapses = {} => Complete)

LEMMA MovedInit == Init => MovedInv
<1> SUFFICES ASSUME Init PROVE MovedInv
  OBVIOUS
<1>1. WholeAtHome
  BY TypeInit DEF Init, WholeAtHome, Whole, TypeOK
<1>2. Leads /\ Ready
  BY DEF Init, Leads, Ready, Unused, Ahead, Behind, Unwind
<1> QED
  BY <1>1, <1>2, TypeInit, ClaimsInit, AloneInit, PortAtHomeInit DEF MovedInv, Complete

LEMMA AsideComplete == ASSUME TypeOK, Complete, Aside PROVE Complete'
<1> USE DEF Complete
<1>1. PortAtHome'
  BY AsidePort
<1>2. WholeAtHome' /\ Leads'
  BY DEF Aside, WholeAtHome, Leads, TypeOK
<1>3. Ready'
  <2>1. \A m \in Moves : move[m].at \in {"restore", "flip"} => move[m].dst \in Nodes
    BY DEF TypeOK
  <2> QED
    BY <2>1 DEF Aside, Ready
<1> QED
  BY <1>1, <1>2, <1>3

\* The flip finds at the destination what the server needs, and a port that is not
\* one of those it lets go.
LEMMA FlipComplete ==
  ASSUME TypeOK, Claims, OneAtWork, ListsKept, Complete, NEW m \in Moves, Flip(m)
  PROVE  Complete'
<1> USE DEF Complete
<1>1. /\ move[m].at = "flip" /\ node' = move[m].dst /\ port' = Freed(move[m].held)
      /\ UNCHANGED <<container, copy, given>>
  BY DEF Flip, Flipped, At, diskVars, Beyond
<1>2. /\ move'[m].at = "delete" /\ move'[m].src = move[m].src /\ move'[m].dst = move[m].dst
      /\ \A k \in Moves : k # m => move'[k] = move[k]
  BY GotoKeeps DEF Flip, MoveStep, Working, Behind
<1>3. move[m].src = node /\ move[m].dst # node
  BY <1>1 DEF Leads, Ahead
<1>4. \A k \in Moves : k # m => ~AtWork(k)
  BY <1>1 DEF OneAtWork, AtWork, Ahead
<1>5. WholeAtHome'
  BY <1>1 DEF WholeAtHome, Ready
<1>6. PortAtHome'
  <2>1. PICK p \in move[m].claimed : p \in PortsOf(move[m].dst) /\ p \in Ports
    BY <1>1 DEF Claims, TypeOK, PortsOf, Ports
  <2>2. (port[p] = "ours" \/ p \in given) /\ (p \in move[m].held => p \in given)
    BY <1>1, <2>1 DEF ListsKept, Counted, Ahead
  <2> QED
    BY <1>1, <2>1, <2>2 DEF PortAtHome, Freed
<1>7. Leads'
  BY <1>1, <1>2, <1>3, <1>4 DEF Leads, AtWork, Ahead, Behind, Unwind
<1>8. Ready'
  BY <1>1, <1>2, <1>4 DEF Ready, AtWork, Ahead
<1> QED
  BY <1>5, <1>6, <1>7, <1>8

\* Where a move leads, and whether its worker is under way, is told by its step.
LEMMA WorkLeads ==
  ASSUME TypeOK, OneAtWork, Leads, NEW m \in Moves, Work(m) \/ WorkerDies(m), lapses' = {}, ~Flip(m), node' = node
  PROVE  Leads'
<1>1. \A k \in Moves : k # m => move'[k] = move[k]
  BY WorkTyped
<1> DEFINE Led == /\ move'[m].at \in Ahead \cup Unwind => move'[m].src = node /\ move'[m].dst # node
                  /\ move'[m].at \in Behind => move'[m].src # node /\ move'[m].dst = node
<1>2. Led
  <2>1. CASE ReadServer(m)
    <3>1. node # move[m].dst
      BY <2>1 DEF ReadServer
    <3> QED
      BY <2>1, <3>1, ReadKeeps DEF Ahead, Behind
  <2>2. CASE ClaimPort(m)
    BY <2>2, ClaimKeeps DEF Leads, Ahead, Behind
  <2>3. ASSUME GoesOn(m) PROVE Led
    <3>1. PICK step \in MoveStep :
            /\ Goto(m, step)
            /\ \/ <<move[m].at, step>> \in Path
               \/ move[m].at \in Throws \cup {"notify"} /\ step \in {"settle", "unclaim"}
      BY <2>3 DEF GoesOn
    <3>2. move'[m].at = step /\ move'[m].dst = move[m].dst /\ move'[m].src = move[m].src
      BY <3>1, GotoKeeps
    <3>3. (step \in Ahead \cup Unwind => move[m].at \in Ahead \cup Unwind) /\ (step \in Behind => move[m].at \in Behind)
      BY <3>1, <3>2, WorkTells DEF Path, Throws, Ahead, Behind, Unwind
    <3> QED
      BY <3>2, <3>3 DEF Leads
  <2>4. ASSUME NEW step \in {"queued", "over"}, Drop(m, step) PROVE Led
    BY <2>4, DropKeeps DEF MoveStep, Ahead, Behind, Unwind
  <2> QED
    BY <2>1, <2>2, <2>3, <2>4, WorkKinds
<1> QED
  BY <1>1, <1>2 DEF Leads

LEMMA WorkReady ==
  ASSUME TypeOK, OneAtWork, Complete, NEW m \in Moves, Work(m) \/ WorkerDies(m), "overlap" \notin lapses'
  PROVE  Ready'
<1> USE DEF Complete
<1> DEFINE Set(k) == /\ move'[k].at \in {"restore", "flip"} => container'[move'[k].dst] # "none"
                     /\ move'[k].at = "flip" => copy'[move'[k].dst] \in Whole
<1>1. Set(m)
  <2>1. move[m].dst \in Nodes /\ move'[m].dst = move[m].dst
    BY WorkTyped DEF TypeOK
  <2>2. move'[m].at \in {"restore", "flip"} =>
          (move[m].at = "put" /\ move'[m].at = "restore") \/ (move[m].at = "restore" /\ move'[m].at = "flip")
    <3>1. ASSUME GoesOn(m) PROVE <<move[m].at, move'[m].at>> \in Path \/ move'[m].at \in {"settle", "unclaim"}
      <4>1. PICK step \in MoveStep :
              Goto(m, step) /\ (<<move[m].at, step>> \in Path \/ step \in {"settle", "unclaim"})
        BY <3>1 DEF GoesOn
      <4> QED
        BY <4>1, GotoKeeps
    <3>2. ASSUME NEW step \in {"queued", "over"}, Drop(m, step) PROVE move'[m].at = step
      BY <3>2, DropKeeps DEF MoveStep
    <3> QED
      BY <3>1, <3>2, WorkKinds, ReadKeeps, ClaimKeeps DEF Path
  <2>3. BuildDestination(m) => container'[move[m].dst] = "stopped"
    BY <2>1 DEF BuildDestination, Built, TypeOK
  <2>4. RestoreArchive(m) /\ move[m].at = "restore" => copy'[move[m].dst] \in Whole /\ container'[move[m].dst] # "none"
    BY <2>1 DEF RestoreArchive, Restored, Ready, TypeOK
  <2> QED
    BY <2>1, <2>2, <2>3, <2>4, WorkTells
<1>2. ASSUME NEW k \in Moves, k # m PROVE Set(k)
  <2>1. move'[k] = move[k] /\ (move[k].at \in {"restore", "flip"} => AtWork(k) /\ move[k].dst \in Nodes)
    BY <1>2, WorkTyped DEF AtWork, Ahead, TypeOK
  <2>2. AtWork(k) => ~AtWork(m)
    BY <1>2 DEF OneAtWork
  <2>3. ~AtWork(m) => \A n \in Nodes : (container[n] # "none" => container'[n] # "none") /\ copy'[n] = copy[n]
    BY WorkDisks DEF AtWork, Ahead, Behind, Unwind
  <2> QED
    BY <2>1, <2>2, <2>3 DEF Ready
<1> QED
  BY <1>1, <1>2 DEF Ready

LEMMA WorkComplete ==
  ASSUME TypeOK, Claims, OneAtWork, ListsKept, Complete, NEW m \in Moves, Work(m) \/ WorkerDies(m), lapses' = {}
  PROVE  Complete'
<1>1. CASE Flip(m)
  BY <1>1, FlipComplete
<1>2. CASE ~Flip(m)
  <2>1. UNCHANGED <<node, landed>>
    <3>1. ~(move[m].at = "flip" /\ Goto(m, "delete"))
      <4>1. Goto(m, "delete") => move'[m].at = "delete"
        BY GotoKeeps DEF MoveStep, Working, Behind
      <4> QED
        BY <1>2, <4>1, WorkTells
    <3> QED
      BY <3>1, WorkPorts, ClaimKeeps
  <2>2. Leads'
    BY <1>2, <2>1, WorkLeads DEF Complete
  <2>3. Ready'
    BY WorkReady
  <2>4. WholeAtHome'
    <3>1. /\ move[m].at \in {"put", "restore", "unbuild"} => move[m].dst # node
          /\ move[m].at = "delete" => move[m].src # node
      BY DEF Complete, Leads, Ahead, Behind, Unwind
    <3>2. node \in Nodes
      BY DEF TypeOK
    <3> QED
      BY <2>1, <3>1, <3>2, WorkDisks DEF WholeAtHome, Complete
  <2>5. PortAtHome'
    <3>1. CASE move[m].dst # node
      BY <2>1, <3>1, WorkPort DEF Complete
    <3>2. CASE move[m].at \notin {"claim", "unclaim", "flip"}
      BY <2>1, <3>2, WorkPorts DEF PortAtHome, Complete
    <3> QED
      BY <3>1, <3>2 DEF Complete, Leads, Ahead, Unwind
  <2> QED
    BY <2>2, <2>3, <2>4, <2>5 DEF Complete
<1> QED
  BY <1>1, <1>2

LEMMA MovedStep == MovedInv /\ [Next]_vars => MovedInv'
<1> SUFFICES ASSUME MovedInv, [Next]_vars PROVE MovedInv'
  OBVIOUS
<1>1. TypeOK' /\ Claims' /\ Alone'
  BY TypeStep, ClaimsStep, AloneStep DEF MovedInv
<1>2. ASSUME lapses' = {} PROVE Complete'
  <2>1. ASSUME NEW m \in Moves, Work(m) \/ WorkerDies(m) PROVE Complete'
    <3>1. lapses = {}
      BY <1>2, <2>1, WorkPorts DEF MovedInv
    <3> QED
      BY <1>2, <2>1, <3>1, WorkComplete DEF MovedInv, Alone
  <2>2. ASSUME NEW m \in Moves, NEW dst \in Nodes, AskMove(m, dst) PROVE Complete'
    <3> DEFINE job == [move[m] EXCEPT !.at = "queued", !.dst = dst]
    <3>1. job \in Job /\ job.at = "queued" /\ TypeOK
      BY <2>2 DEF AskMove, MovedInv, TypeOK, Job, MoveStep
    <3>2. move' = [move EXCEPT ![m] = job] /\ UNCHANGED <<node, port, container, copy, given, lapses>>
      BY <2>2 DEF AskMove, rowVars, diskVars, history
    <3> HIDE DEF job
    <3>3. move'[m].at = "queued" /\ \A k \in Moves : k # m => move'[k] = move[k]
      BY <3>1, <3>2, NewJob
    <3>4. Complete
      BY <1>2, <3>2 DEF MovedInv
    <3>5. Leads' /\ Ready'
      BY <3>2, <3>3, <3>4 DEF Complete, Leads, Ready, Ahead, Behind, Unwind
    <3> QED
      BY <3>2, <3>4, <3>5 DEF Complete, WholeAtHome, PortAtHome
  <2>3. CASE Aside
    BY <1>2, <2>3, AsideComplete DEF MovedInv, Aside
  <2> QED
    BY <2>1, <2>2, <2>3, AsideStep DEF MovedInv
<1> QED
  BY <1>1, <1>2 DEF MovedInv

\* The server's node has its files, its container and a port of it at every moment,
\* before the flip, across it and after, however often moves fail, die and are done
\* again one after the other: unless a move begins while another is at work or where
\* it leads, or fails after its flip.
THEOREM HomeCompleteHolds == Spec => []HomeComplete
<1>1. MovedInv => HomeComplete
  BY DEF MovedInv, Complete, WholeAtHome, PortAtHome, HomeComplete
<1> QED
  BY MovedInit, MovedStep, <1>1, PTL DEF Spec
=============================================================================
