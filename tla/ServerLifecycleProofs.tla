------------------------ MODULE ServerLifecycleProofs ------------------------
(***************************************************************************)
(* What is proved of ServerLifecycle for any number of handlers, jobs,     *)
(* recoveries and reports in flight.                                       *)
(*                                                                         *)
(* NeverRunsUninstalled is not inductive: a handler that has passed        *)
(* sendPower's check starts the container a step later, so the invariant   *)
(* has to say that every handler past that check saw an installed server.  *)
(* HousekeepingSparesLive rests on two facts about the stamp: a stamp that *)
(* is four hours old has no attempt alive, and the stamp housekeeping read *)
(* and still finds in the row is such a stamp.                             *)
(***************************************************************************)
EXTENDS ServerLifecycle, TLAPS

Powering == \A r \in Requests : req[r].at \in {"send", "resend"} => installed
AgedIsDead == stamp = "old" => Live = {}
ReadIsAged == hk = "current" => stamp = "old"

LifecycleInv == TypeOK /\ NeverRunsUninstalled /\ Powering /\ AgedIsDead /\ ReadIsAged

LEMMA TypeInit == Init => TypeOK
<1> SUFFICES ASSUME Init PROVE TypeOK
  OBVIOUS
<1>1. status \in ServerStatus /\ suspended \in BOOLEAN /\ installed \in BOOLEAN
  BY DEF Init, ServerStatus, InstallBusy
<1>2. jobAt \in [Jobs -> JobStep]
  BY DEF Init, JobStep
<1>3. made \in [Jobs -> 0 .. (Attempts - 1)] /\ stalls \in [Jobs -> 0 .. MaxStalls]
  BY LifecycleAssumption DEF LifecycleAssumption, Init, Attempts
<1>4. req \in [Requests -> [at : ReqStep, task : Asked]]
  BY DEF Init, Idle, ReqStep, Asked
<1> QED
  BY <1>1, <1>2, <1>3, <1>4 DEF Init, TypeOK, Container, Report

LEMMA TypeStep == TypeOK /\ [Next]_vars => TypeOK'
<1> SUFFICES ASSUME TypeOK, [Next]_vars PROVE TypeOK'
  OBVIOUS
<1> USE LifecycleAssumption DEF LifecycleAssumption, TypeOK, rowVars, nodeVars, jobVars
<1>1. CASE GameExit \/ OrphanExit \/ SyncToNode
  BY <1>1 DEF GameExit, OrphanExit, SyncToNode, Container
<1>2. CASE EmitState \/ EmitBeat
  BY <1>2 DEF EmitState, EmitBeat, Report, Reported, Derived
<1>3. ASSUME NEW m \in mail, LoseReport(m) \/ ReadReport(m)
      PROVE  TypeOK'
  BY <1>3 DEF LoseReport, ReadReport, Report
<1>4. ASSUME NEW m \in mail, ApplyReport(m)
      PROVE  TypeOK'
  BY <1>4 DEF ApplyReport, Report, Reported, ServerStatus
<1>5. ASSUME NEW r \in Requests, Arrive(r)
      PROVE  TypeOK'
  <2>1. req' \in [Requests -> [at : ReqStep, task : Asked]]
    BY <1>5 DEF Arrive, PowerCheck, ReinstallCheck, SuspendCheck, Unsuspend, Begin,
       ReqStep, Asked
  <2>2. status' \in ServerStatus /\ suspended' \in BOOLEAN
    BY <1>5 DEF Arrive, PowerCheck, ReinstallCheck, SuspendCheck, Unsuspend, ServerStatus
  <2> QED
    BY <1>5, <2>1, <2>2 DEF Arrive, PowerCheck, ReinstallCheck, SuspendCheck, Unsuspend
<1>6. ASSUME NEW r \in Requests, Continue(r)
      PROVE  TypeOK'
  <2>1. CASE StatusWrite(r)
    BY <2>1 DEF StatusWrite, Finish, Idle, Outcome, ReqStep, Asked, ServerStatus, InstallBusy
  <2>2. CASE PowerSend(r) \/ PowerMissing(r) \/ SuspendStop(r)
    BY <2>2 DEF PowerSend, PowerMissing, SuspendStop, AfterPower, Finish, Proceed, Idle,
       ReqStep, Asked, Container
  <2>3. CASE SuspendWrite(r)
    BY <2>3 DEF SuspendWrite, Proceed, ReqStep, ServerStatus
  <2>4. CASE ReinstallEnqueue(r)
    BY <2>4 DEF ReinstallEnqueue, Proceed, Finish, Idle, ReqStep, Asked, JobStep
  <2> QED
    BY <1>6, <2>1, <2>2, <2>3, <2>4 DEF Continue
<1>7. ASSUME NEW j \in Jobs, Work(j)
      PROVE  TypeOK'
  <2>1. CASE TakeJob(j) \/ StampAttempt(j) \/ MarkInstalling(j)
    BY <2>1 DEF TakeJob, StampAttempt, MarkInstalling, Goto, JobStep, Working,
       ServerStatus, InstallBusy
  <2>2. CASE PushSpec(j) \/ BeginScript(j) \/ ScriptDone(j)
    BY <2>2 DEF PushSpec, BeginScript, ScriptDone, Goto, JobStep, Working, Container
  <2>3. CASE MarkInstalled(j) \/ SettleInstalled(j)
    BY <2>3 DEF MarkInstalled, SettleInstalled, Goto, JobStep, Working, ServerStatus
  <2>4. CASE CompleteJob(j)
    BY <2>4 DEF CompleteJob, Retire, Goto, Begin, JobStep, Attempts, ReqStep, Asked, PowerAction
  <2> QED
    BY <1>7, <2>1, <2>2, <2>3, <2>4 DEF Work
<1>8. ASSUME NEW j \in Jobs, FailAttempt(j)
      PROVE  TypeOK'
  <2>1. container' \in Container /\ script' \in Jobs \cup {NoJob}
    BY <1>8 DEF FailAttempt, NodeAfterFailure, Container
  <2>2. status' \in ServerStatus
    BY <1>8 DEF FailAttempt, ServerStatus, InstallBusy
  <2>3. jobAt' \in [Jobs -> JobStep] /\ made' \in [Jobs -> 0 .. (Attempts - 1)]
        /\ stalls' \in [Jobs -> 0 .. MaxStalls]
    BY <1>8 DEF FailAttempt, FinalAttempt, Retire, Goto, JobStep, Attempts
  <2> QED
    BY <1>8, <2>1, <2>2, <2>3 DEF FailAttempt
<1>9. ASSUME NEW j \in Jobs, WorkerDies(j)
      PROVE  TypeOK'
  BY <1>9 DEF WorkerDies, Retire, Goto, JobStep, Attempts
<1>10. CASE StampAges \/ ReadStalled \/ FailStalled
  BY <1>10 DEF StampAges, ReadStalled, FailStalled, ServerStatus, InstallBusy
<1>11. CASE UNCHANGED vars
  BY <1>11 DEF vars
<1> QED
  BY <1>1, <1>2, <1>3, <1>4, <1>5, <1>6, <1>7, <1>8, <1>9, <1>10, <1>11 DEF Next

\* Every variable keeps its type in every state of every behaviour: in
\* particular a job is never tried more than Attempts times nor recovered more
\* than MaxStalls times.
THEOREM TypeCorrect == Spec => []TypeOK
BY TypeInit, TypeStep, PTL DEF Spec

LEMMA InitInv == Init => LifecycleInv
<1> SUFFICES ASSUME Init PROVE LifecycleInv
  OBVIOUS
<1>1. TypeOK
  BY TypeInit
<1> QED
  BY <1>1 DEF Init, LifecycleInv, NeverRunsUninstalled, Powering, AgedIsDead, ReadIsAged, Idle

\* Only an attempt that has just put a fresh stamp in the row joins the living.
LEMMA LivingNeedFreshStamp ==
  ASSUME TypeOK, [Next]_vars
  PROVE  Live' \subseteq Live \/ stamp' = "fresh"
<1> SUFFICES ASSUME stamp' # "fresh" PROVE Live' \subseteq Live
  OBVIOUS
<1> USE DEF Live, Stamped, Working, TypeOK
<1>1. CASE UNCHANGED jobAt
  BY <1>1
<1>2. ASSUME NEW r \in Requests, ReinstallEnqueue(r)
      PROVE  Live' \subseteq Live
  BY <1>2 DEF ReinstallEnqueue
<1>3. ASSUME NEW j \in Jobs, Work(j)
      PROVE  Live' \subseteq Live
  BY <1>3 DEF Work, TakeJob, StampAttempt, MarkInstalling, PushSpec, BeginScript, ScriptDone,
     MarkInstalled, SettleInstalled, CompleteJob, Retire, Goto
<1>4. ASSUME NEW j \in Jobs, FailAttempt(j) \/ WorkerDies(j)
      PROVE  Live' \subseteq Live
  BY <1>4 DEF FailAttempt, WorkerDies, Retire, Goto
<1> QED
  BY <1>1, <1>2, <1>3, <1>4 DEF Next, vars, jobVars, GameExit, OrphanExit, EmitState, EmitBeat,
     SyncToNode, LoseReport, ReadReport, ApplyReport, Arrive, PowerCheck, ReinstallCheck,
     SuspendCheck, Unsuspend, Continue, StatusWrite, PowerSend, PowerMissing, SuspendStop,
     SuspendWrite, StampAges, ReadStalled, FailStalled

\* Who writes the stamp, and who moves housekeeping.
LEMMA StampAndHkWriters ==
  ASSUME [Next]_vars
  PROVE  /\ stamp' # stamp => StampAges \/ \E j \in Jobs : StampAttempt(j)
         /\ hk' # hk => ReadStalled \/ FailStalled \/ \E j \in Jobs : StampAttempt(j)
<1> USE DEF Next, vars, rowVars, GameExit, OrphanExit, EmitState, EmitBeat, SyncToNode, LoseReport,
      ReadReport, ApplyReport, Arrive, PowerCheck, ReinstallCheck, SuspendCheck, Unsuspend,
      Continue, StatusWrite, PowerSend, PowerMissing, ReinstallEnqueue, SuspendStop, SuspendWrite,
      Work, TakeJob, MarkInstalling, PushSpec, BeginScript, ScriptDone, MarkInstalled,
      SettleInstalled, CompleteJob, FailAttempt, WorkerDies
<1>1. stamp' # stamp => StampAges \/ \E j \in Jobs : StampAttempt(j)
  BY DEF ReadStalled, FailStalled
<1>2. hk' # hk => ReadStalled \/ FailStalled \/ \E j \in Jobs : StampAttempt(j)
  BY DEF StampAges
<1> QED
  BY <1>1, <1>2

\* No step takes installedAt back.
LEMMA InstalledStays ==
  ASSUME [Next]_vars, installed
  PROVE  installed'
BY DEF Next, vars, rowVars, GameExit, OrphanExit, EmitState, EmitBeat, SyncToNode, LoseReport,
   ReadReport, ApplyReport, Arrive, PowerCheck, ReinstallCheck, SuspendCheck, Unsuspend,
   Continue, StatusWrite, PowerSend, PowerMissing, ReinstallEnqueue, SuspendStop, SuspendWrite,
   Work, TakeJob, StampAttempt, MarkInstalling, PushSpec, BeginScript, ScriptDone,
   MarkInstalled, SettleInstalled, CompleteJob, FailAttempt, WorkerDies, StampAges,
   ReadStalled, FailStalled

\* Only sendPower's node call raises the container, for a handler past its check.
LEMMA OnlyPowerRaises ==
  ASSUME TypeOK, Powering, [Next]_vars, container' = "running", container # "running"
  PROVE  installed
<1>1. ASSUME NEW r \in Requests, Continue(r)
      PROVE  installed
  BY <1>1 DEF Continue, StatusWrite, PowerSend, PowerMissing, ReinstallEnqueue, SuspendStop,
     SuspendWrite, AfterPower, nodeVars, Powering
<1>2. ASSUME NEW j \in Jobs, Work(j)
      PROVE  FALSE
  BY <1>2 DEF Work, TakeJob, StampAttempt, MarkInstalling, PushSpec, BeginScript, ScriptDone,
     MarkInstalled, SettleInstalled, CompleteJob, nodeVars
<1>3. ASSUME NEW j \in Jobs, FailAttempt(j) \/ WorkerDies(j)
      PROVE  FALSE
  BY <1>3 DEF FailAttempt, NodeAfterFailure, WorkerDies, nodeVars
<1> QED
  BY <1>1, <1>2, <1>3 DEF Next, vars, nodeVars, GameExit, OrphanExit, EmitState, EmitBeat,
     SyncToNode, LoseReport, ReadReport, ApplyReport, Arrive, PowerCheck, ReinstallCheck,
     SuspendCheck, Unsuspend, StampAges, ReadStalled, FailStalled

\* A handler reaches the node only through MayPower, or was already on its way.
LEMMA PoweringStep ==
  ASSUME TypeOK, Powering, [Next]_vars
  PROVE  Powering'
<1> SUFFICES ASSUME NEW q \in Requests, req'[q].at \in {"send", "resend"}
             PROVE  installed'
  BY DEF Powering
<1> USE DEF TypeOK, Powering
<1>1. CASE UNCHANGED req
  BY <1>1, InstalledStays
<1>2. ASSUME NEW r \in Requests, Arrive(r)
      PROVE  installed
  BY <1>2 DEF Arrive, PowerCheck, ReinstallCheck, SuspendCheck, Unsuspend, Begin, MayPower
<1>3. ASSUME NEW r \in Requests, Continue(r)
      PROVE  installed
  BY <1>3 DEF Continue, StatusWrite, PowerSend, PowerMissing, ReinstallEnqueue, SuspendStop,
     SuspendWrite, Proceed, Finish, Idle
<1>4. ASSUME NEW j \in Jobs, CompleteJob(j)
      PROVE  installed
  BY <1>4 DEF CompleteJob, Begin, MayPower
<1> QED
  BY <1>1, <1>2, <1>3, <1>4, InstalledStays DEF Next, vars, GameExit, OrphanExit, EmitState,
     EmitBeat, SyncToNode, LoseReport, ReadReport, ApplyReport, Work, TakeJob, StampAttempt,
     MarkInstalling, PushSpec, BeginScript, ScriptDone, MarkInstalled, SettleInstalled,
     FailAttempt, WorkerDies, StampAges, ReadStalled, FailStalled

\* The stamp ages only over an install with nobody alive in it, and the stamp
\* that housekeeping holds stops being the row's when it is overwritten.
LEMMA StampStep ==
  ASSUME TypeOK, AgedIsDead, ReadIsAged, [Next]_vars
  PROVE  AgedIsDead' /\ ReadIsAged'
<1>1. AgedIsDead'
  <2> SUFFICES ASSUME stamp' = "old" PROVE Live' = {}
    BY DEF AgedIsDead
  <2>1. Live' \subseteq Live
    BY LivingNeedFreshStamp
  <2>2. stamp = "old" \/ Live = {}
    BY StampAndHkWriters DEF StampAges, StampAttempt
  <2> QED
    BY <2>1, <2>2 DEF AgedIsDead
<1>2. ReadIsAged'
  BY StampAndHkWriters DEF ReadIsAged, StampAges, StampAttempt, ReadStalled, Stalled, FailStalled
<1> QED
  BY <1>1, <1>2

LEMMA StepInv == LifecycleInv /\ [Next]_vars => LifecycleInv'
<1> SUFFICES ASSUME LifecycleInv, [Next]_vars PROVE LifecycleInv'
  OBVIOUS
<1>1. TypeOK'
  BY TypeStep DEF LifecycleInv
<1>2. NeverRunsUninstalled'
  BY OnlyPowerRaises, InstalledStays DEF LifecycleInv, NeverRunsUninstalled
<1>3. Powering' /\ AgedIsDead' /\ ReadIsAged'
  BY PoweringStep, StampStep DEF LifecycleInv
<1> QED
  BY <1>1, <1>2, <1>3 DEF LifecycleInv

\* The game server never runs before an install has come to its end
\* (sendPower's check of installedAt, made a node call earlier, still holds).
THEOREM NeverRunsUninstalledHolds == Spec => []NeverRunsUninstalled
<1>1. LifecycleInv => NeverRunsUninstalled
  BY DEF LifecycleInv
<1> QED
  BY InitInv, StepInv, <1>1, PTL DEF Spec

\* failStalledInstalls fails a server only when no attempt is alive, however
\* its read and its write interleave with the workers.
THEOREM HousekeepingSparesLiveHolds == Spec => HousekeepingSparesLive
<1>1. LifecycleInv /\ [Next]_vars
        => [hk # "none" /\ hk' = "none" /\ status' # status => Live = {}]_vars
  <2> SUFFICES ASSUME LifecycleInv, [Next]_vars,
                      hk # "none", hk' = "none", status' # status
               PROVE  Live = {}
    OBVIOUS
  <2>1. FailStalled
    BY StampAndHkWriters DEF ReadStalled, StampAttempt
  <2> QED
    BY <2>1 DEF FailStalled, Abandon, LifecycleInv, ReadIsAged, AgedIsDead
<1> QED
  BY InitInv, StepInv, <1>1, PTL DEF Spec, HousekeepingSparesLive
=============================================================================
