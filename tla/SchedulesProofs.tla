--------------------------- MODULE SchedulesProofs ---------------------------
(***************************************************************************)
(* What is proved of Schedules for any number of ticks, requests, jobs,     *)
(* tasks and redeliveries, however late runs are.                           *)
(*                                                                         *)
(* OneRun is not inductive: it rests on the claim. While the schedule       *)
(* exists, whoever is on its way in time has the claim standing and young,  *)
(* so neither another caller nor the tick's release gets at it; a late      *)
(* run's release does, and makes late whoever it robs.                      *)
(***************************************************************************)
EXTENDS Schedules, TLAPS

InTime == OnTheirWay \ late
HeldIsClaimed == exists /\ InTime # {} => processing /\ age = "young"
OldIsLost == age = "old" => InTime = {}
\* A tick read as lost what is still there only if it is lost.
SeenIsLost == \A t \in Ticks : seen[t] = "current" => age = "old"

\* A run at a task has one left.
TasksLeft == \A r \in Runs : run[r].at = "task" => run[r].left > 0

TypeInv == TypeOK /\ TasksLeft
ScheduleInv == TypeInv /\ OneRun /\ HeldIsClaimed /\ OldIsLost /\ SeenIsLost

LEMMA TypeInit == Init => TypeOK
<1> SUFFICES ASSUME Init PROVE TypeOK
  OBVIOUS
<1>1. run \in [Runs -> [at : RunStep, left : 0 .. Tasks]]
  BY SchedulesAssumption DEF SchedulesAssumption, Init, RunStep, NoRun
<1>2. caller \in [Callers -> CallStep] /\ seen \in [Ticks -> {"none", "current", "superseded"}]
  BY DEF Init, CallStep
<1>3. stalls \in [Runs -> 0 .. MaxStalls] /\ aborts \in 0 .. MaxAborts /\ edits \in 0 .. MaxEdits
  BY SchedulesAssumption DEF SchedulesAssumption, Init
<1>4. lates \in 0 .. MaxLates /\ late \subseteq Callers \cup Runs
  BY SchedulesAssumption DEF SchedulesAssumption, Init
<1> QED
  BY <1>1, <1>2, <1>3, <1>4 DEF TypeOK, Init

LEMMA TypeStep == TypeInv /\ [Next]_vars => TypeOK'
<1> SUFFICES ASSUME TypeOK, TasksLeft, [Next]_vars PROVE TypeOK'
  BY DEF TypeInv
<1> USE SchedulesAssumption DEF SchedulesAssumption
<1>1. CASE FallDue
  BY <1>1 DEF FallDue, TypeOK, jobVars, bounds
<1>2. CASE ClaimAges
  BY <1>2 DEF ClaimAges, FallBehind, OnTheirWay, Queuing, Living, TypeOK, jobVars
<1>3. CASE Edit
  <2>1. edits' \in 0 .. MaxEdits /\ UNCHANGED <<aborts, lates, late>>
    BY <1>3 DEF Edit, TypeOK
  <2>2. orphans' \subseteq Runs
    BY <1>3 DEF Edit, TypeOK, Begun
  <2>3. active' \in BOOLEAN /\ due' \in BOOLEAN
        /\ UNCHANGED <<exists, processing, age, caller, seen, run, stalls>>
    BY <1>3 DEF Edit
  <2> QED
    BY <2>1, <2>2, <2>3 DEF TypeOK
<1>4. CASE Delete
  <2>1. edits' \in 0 .. MaxEdits /\ UNCHANGED <<aborts, lates, late>>
    BY <1>4 DEF Delete, TypeOK
  <2>2. orphans' \subseteq Runs /\ seen' \in [Ticks -> {"none", "current", "superseded"}]
    BY <1>4 DEF Delete, Begun, Superseded
  <2>3. /\ exists' \in BOOLEAN /\ active' \in BOOLEAN /\ due' \in BOOLEAN
        /\ processing' \in BOOLEAN /\ age' = "null"
        /\ UNCHANGED <<caller, run, stalls>>
    BY <1>4 DEF Delete
  <2> QED
    BY <2>1, <2>2, <2>3 DEF TypeOK
<1>5. ASSUME NEW t \in Ticks, Tick(t) PROVE TypeOK'
  <2>1. CASE BeginTick(t)
    BY <2>1 DEF BeginTick, TypeOK, rowVars, jobVars, bounds, CallerAt, CallStep, Callers
  <2>2. CASE ReleaseLost(t)
    BY <2>2 DEF ReleaseLost, TypeOK, jobVars, bounds, CallerAt, CallStep, Callers, Superseded
  <2>3. CASE LookForDue(t)
    BY <2>3 DEF LookForDue, TypeOK, rowVars, jobVars, bounds, CallerAt, CallStep, Callers
  <2> QED
    BY <1>5, <2>1, <2>2, <2>3 DEF Tick
<1>6. ASSUME NEW q \in Requests, RunNow(q) PROVE TypeOK'
  BY <1>6 DEF RunNow, TypeOK, rowVars, jobVars, bounds, CallerAt, CallStep, Callers
<1>7. ASSUME NEW c \in Callers, Claim(c) \/ Enqueue(c) \/ Abort(c) PROVE TypeOK'
  <2>1. CASE Claim(c)
    BY <2>1 DEF Claim, TypeOK, jobVars, bounds, CallerAt, CallStep, Superseded
  <2>2. CASE Enqueue(c)
    BY <2>2 DEF Enqueue, TypeOK, rowVars, bounds, CallerAt, CallStep, RunStep
  <2>3. CASE Abort(c)
    BY <2>3 DEF Abort, TypeOK, rowVars, jobVars, CallerAt, CallStep
  <2> QED
    BY <1>7, <2>1, <2>2, <2>3
<1>8. ASSUME NEW r \in Runs, Work(r) \/ WorkerDies(r) PROVE TypeOK'
  <2> USE DEF TypeOK, RunStep, Running, rowVars, bounds, OnTheirWay, Queuing, Living
  <2>1. CASE TakeRun(r)
    BY <2>1 DEF TakeRun, Goto
  <2>2. CASE FindGone(r)
    BY <2>2 DEF FindGone, Retire, NoRun
  <2>3. CASE ReadSchedule(r)
    <3>1. run' \in [Runs -> [at : RunStep, left : 0 .. Tasks]]
      BY <2>3 DEF ReadSchedule, Goto
    <3> QED
      BY <2>3, <3>1 DEF ReadSchedule
  <2>4. CASE DoTask(r)
    <3>1. run' \in [Runs -> [at : RunStep, left : 0 .. Tasks]]
      <4>0. run[r].at = "task" /\ run[r].left \in 1 .. Tasks
        BY <2>4 DEF DoTask, TasksLeft
      <4>1. CASE Goto(r, "release")
        BY <4>1 DEF Goto
      <4>2. CASE run' = [run EXCEPT ![r] = [at |-> "write", left |-> 0]]
        <5>1. "write" \in RunStep /\ 0 \in 0 .. Tasks
          OBVIOUS
        <5> QED
          BY <4>2, <5>1
      <4>3. CASE run' = [run EXCEPT ![r] = [at |-> AfterTask(run[r].left), left |-> run[r].left - 1]]
        <5>1. AfterTask(run[r].left) \in RunStep /\ run[r].left - 1 \in 0 .. Tasks
          BY <4>0 DEF AfterTask
        <5> QED
          BY <4>3, <5>1
      <4> QED
        BY <2>4, <4>1, <4>2, <4>3 DEF DoTask
    <3> QED
      BY <2>4, <3>1 DEF DoTask
  <2>5. CASE WriteNext(r)
    BY <2>5 DEF WriteNext, Goto
  <2>6. CASE ReleaseClaim(r)
    BY <2>6 DEF ReleaseClaim, Goto, Superseded
  <2>7. CASE Acknowledge(r)
    BY <2>7 DEF Acknowledge, Retire, NoRun
  <2>8. CASE WorkerDies(r)
    <3>1. run' \in [Runs -> [at : RunStep, left : 0 .. Tasks]]
      BY <2>8 DEF WorkerDies, Retire, NoRun
    <3>2. stalls' \in [Runs -> 0 .. MaxStalls]
      BY <2>8 DEF WorkerDies, Retire
    <3>3. orphans' \subseteq Runs
      BY <2>8 DEF WorkerDies, Retire
    <3>4. late' \subseteq Callers \cup Runs /\ lates' \in 0 .. MaxLates
      BY <2>8 DEF WorkerDies, Retire, FallBehind
    <3> QED
      BY <2>8, <3>1, <3>2, <3>3, <3>4 DEF WorkerDies
  <2> QED
    BY <1>8, <2>1, <2>2, <2>3, <2>4, <2>5, <2>6, <2>7, <2>8 DEF Work
<1>9. CASE UNCHANGED vars
  BY <1>9 DEF vars, rowVars, jobVars, bounds, TypeOK
<1> QED
  BY <1>1, <1>2, <1>3, <1>4, <1>5, <1>6, <1>7, <1>8, <1>9 DEF Next

LEMMA TasksStep == TypeInv /\ [Next]_vars => TasksLeft'
<1> SUFFICES ASSUME TypeOK, TasksLeft, [Next]_vars, NEW r \in Runs, run'[r].at = "task"
             PROVE  run'[r].left > 0
  BY DEF TypeInv, TasksLeft
<1>1. CASE run'[r] = run[r]
  BY <1>1 DEF TasksLeft
<1>2. CASE run'[r] # run[r]
  <2>1. (\E s \in Runs : Work(s) \/ WorkerDies(s)) \/ (\E c \in Callers : Enqueue(c))
    BY <1>2 DEF Next, vars, rowVars, jobVars, FallDue, ClaimAges, Edit, Delete, Tick, BeginTick,
                ReleaseLost, LookForDue, RunNow, Claim, Abort
  <2>2. ReadSchedule(r) \/ DoTask(r)
    <3>1. ASSUME NEW c \in Callers, Enqueue(c) PROVE FALSE
      BY <1>2, <3>1 DEF Enqueue, TypeOK
    <3>2. ASSUME NEW s \in Runs, Work(s) \/ WorkerDies(s), s # r PROVE FALSE
      BY <1>2, <3>2 DEF Work, TakeRun, FindGone, ReadSchedule, DoTask, WriteNext, ReleaseClaim,
                        Acknowledge, WorkerDies, Goto, Retire, TypeOK
    <3>3. ASSUME TakeRun(r) \/ WriteNext(r) \/ ReleaseClaim(r) PROVE FALSE
      BY <3>3 DEF TakeRun, WriteNext, ReleaseClaim, Goto, TypeOK
    <3>4. ASSUME FindGone(r) \/ Acknowledge(r) \/ WorkerDies(r) PROVE FALSE
      BY <3>4 DEF FindGone, Acknowledge, WorkerDies, Retire, NoRun, TypeOK
    <3> QED
      BY <2>1, <3>1, <3>2, <3>3, <3>4 DEF Work
  <2>3. CASE ReadSchedule(r)
    BY <2>3, SchedulesAssumption DEF ReadSchedule, Goto, SchedulesAssumption, TypeOK
  <2>4. CASE DoTask(r)
    <3>1. run[r].left \in 1 .. Tasks
      BY <2>4, SchedulesAssumption DEF DoTask, TypeOK, TasksLeft, SchedulesAssumption
    <3>2. run' = [run EXCEPT ![r] = [at |-> AfterTask(run[r].left), left |-> run[r].left - 1]]
      BY <2>4 DEF DoTask, Goto, TypeOK
    <3>3. run[r].left # 1
      BY <3>2 DEF AfterTask, TypeOK
    <3> QED
      BY <3>1, <3>2, <3>3, SchedulesAssumption DEF TypeOK, SchedulesAssumption
  <2> QED
    BY <2>2, <2>3, <2>4
<1> QED
  BY <1>1, <1>2

\* The state stays typed: every caller and job is at one of its steps, and no
\* run counts its tasks below zero.
THEOREM TypeCorrect == Spec => []TypeOK
<1>1. Init => TypeInv
  BY TypeInit DEF TypeInv, TasksLeft, Init, NoRun
<1>2. TypeInv /\ [Next]_vars => TypeInv'
  BY TypeStep, TasksStep DEF TypeInv
<1>3. TypeInv => TypeOK
  BY DEF TypeInv
<1> QED
  BY <1>1, <1>2, <1>3, PTL DEF Spec

-----------------------------------------------------------------------------
LEMMA ScheduleInit == Init => ScheduleInv
<1> SUFFICES ASSUME Init PROVE ScheduleInv
  OBVIOUS
<1>1. OnTheirWay = {}
  BY DEF Init, OnTheirWay, Queuing, Living, NoRun
<1> QED
  BY <1>1, TypeInit
     DEF ScheduleInv, TypeInv, TasksLeft, NoRun, OneRun, InTime, HeldIsClaimed, OldIsLost, SeenIsLost, Init

Rest == OneRun /\ HeldIsClaimed /\ OldIsLost /\ SeenIsLost

\* A step that leaves the claim alone and puts nobody on its way in time.
LEMMA LeavesClaim ==
  ASSUME ScheduleInv, UNCHANGED <<exists, processing, age>>, InTime' \subseteq InTime,
         \A t \in Ticks : seen'[t] = "current" => seen[t] = "current" \/ age = "old"
  PROVE  Rest'
<1>1. OneRun'
  BY DEF ScheduleInv, OneRun, InTime
<1>2. HeldIsClaimed' /\ OldIsLost' /\ SeenIsLost'
  BY DEF ScheduleInv, HeldIsClaimed, OldIsLost, SeenIsLost
<1> QED
  BY <1>1, <1>2 DEF Rest

\* After a step that leaves nobody on its way in time, no claim is anybody's.
LEMMA NobodyInTime ==
  ASSUME ScheduleInv, InTime' = {},
         \/ age' = age /\ \A t \in Ticks : seen'[t] = "current" => seen[t] = "current"
         \/ age' = "old" \/ \A t \in Ticks : seen'[t] # "current"
  PROVE  Rest'
BY DEF Rest, OneRun, InTime, HeldIsClaimed, OldIsLost, SeenIsLost, ScheduleInv

LEMMA RestStep == ScheduleInv /\ [Next]_vars => Rest'
<1> SUFFICES ASSUME ScheduleInv, [Next]_vars PROVE Rest'
  OBVIOUS
<1>0. TypeOK /\ TypeOK'
  BY TypeStep DEF ScheduleInv, TypeInv
<1> USE DEF OnTheirWay
<1>1. CASE FallDue \/ Edit \/ UNCHANGED vars
  <2>1. UNCHANGED <<exists, processing, age, caller, seen, run, late>>
    BY <1>1 DEF FallDue, Edit, vars, rowVars, jobVars
  <2> QED
    BY <2>1, LeavesClaim DEF Queuing, Living, InTime
<1>2. CASE ClaimAges
  <2>1. OnTheirWay' \subseteq late' /\ age' = "old"
    BY <1>2 DEF ClaimAges, FallBehind, Queuing, Living, jobVars
  <2> QED
    BY <2>1, NobodyInTime DEF InTime
<1>3. CASE Delete
  <2>1. InTime' = InTime /\ ~exists' /\ age' = "null"
    BY <1>3 DEF Delete, Queuing, Living, InTime
  <2>2. \A t \in Ticks : seen'[t] # "current"
    BY <1>3 DEF Delete, Superseded
  <2> QED
    BY <2>1, <2>2 DEF Rest, ScheduleInv, OneRun, InTime, HeldIsClaimed, OldIsLost, SeenIsLost
<1>4. ASSUME NEW t \in Ticks, BeginTick(t) \/ LookForDue(t) PROVE Rest'
  <2>1. UNCHANGED <<exists, processing, age, run, late>>
    BY <1>4 DEF BeginTick, LookForDue, rowVars, jobVars
  <2>2. Queuing' \subseteq Queuing
    <3>1. /\ \A c \in Callers : c # t => caller'[c] = caller[c]
          /\ caller'[t] # "enqueue"
      BY <1>0, <1>4 DEF BeginTick, LookForDue, CallerAt, TypeOK, Callers
    <3> QED
      BY <3>1 DEF Queuing
  <2>3. \A u \in Ticks : seen'[u] = "current" => seen[u] = "current" \/ age = "old"
    BY <1>0, <1>4 DEF BeginTick, LookForDue, Expired, TypeOK
  <2> QED
    BY <2>1, <2>2, <2>3, LeavesClaim DEF Living, InTime
<1>5. ASSUME NEW t \in Ticks, ReleaseLost(t) PROVE Rest'
  <2>1. InTime' \subseteq InTime /\ exists' = exists
    BY <1>5 DEF ReleaseLost, Queuing, Living, CallerAt, jobVars, Callers, InTime
  <2>2. CASE Lost(t)
    <3>1. InTime = {}
      BY <2>2 DEF Lost, ScheduleInv, SeenIsLost, OldIsLost
    <3>2. \A u \in Ticks : seen'[u] # "current"
      BY <1>0, <1>5, <2>2 DEF ReleaseLost, Superseded, TypeOK
    <3> QED
      BY <2>1, <3>1, <3>2, NobodyInTime
  <2>3. CASE ~Lost(t)
    <3>1. /\ UNCHANGED <<processing, age>>
          /\ \A u \in Ticks : seen'[u] = "current" => seen[u] = "current"
      BY <1>0, <1>5, <2>3 DEF ReleaseLost, TypeOK
    <3> QED
      BY <2>1, <3>1, LeavesClaim
  <2> QED
    BY <2>2, <2>3
<1>6. ASSUME NEW q \in Requests, RunNow(q) PROVE Rest'
  <2>1. Queuing' \subseteq Queuing
    <3>1. /\ \A c \in Callers : c # q => caller'[c] = caller[c]
          /\ caller'[q] # "enqueue"
      BY <1>0, <1>6 DEF RunNow, CallerAt, TypeOK, Callers
    <3> QED
      BY <3>1 DEF Queuing
  <2> QED
    BY <1>6, <2>1, LeavesClaim DEF RunNow, rowVars, jobVars, Living, InTime
<1>7. ASSUME NEW c \in Callers, Claim(c) PROVE Rest'
  <2>1. Living' = Living /\ exists' = exists /\ late' = late
    BY <1>7 DEF Claim, jobVars, Living
  <2>2. CASE Free
    <3>1. InTime = {}
      BY <2>2 DEF Free, ScheduleInv, HeldIsClaimed
    <3>2. Queuing' \subseteq Queuing \cup {c}
      BY <1>0, <1>7 DEF Claim, CallerAt, Queuing, TypeOK
    <3>3. InTime' \subseteq {c}
      BY <2>1, <3>1, <3>2 DEF InTime
    <3>4. processing' /\ age' = "young" /\ \A u \in Ticks : seen'[u] # "current"
      BY <1>7, <2>2 DEF Claim, Superseded
    <3> QED
      BY <3>3, <3>4 DEF Rest, OneRun, InTime, HeldIsClaimed, OldIsLost, SeenIsLost
  <2>3. CASE ~Free
    <3>1. Queuing' \subseteq Queuing /\ UNCHANGED <<processing, age, seen>>
      BY <1>0, <1>7, <2>3 DEF Claim, CallerAt, Queuing, TypeOK
    <3> QED
      BY <2>1, <3>1, LeavesClaim DEF InTime
  <2> QED
    BY <2>2, <2>3
<1>8. ASSUME NEW c \in Callers, Enqueue(c) PROVE Rest'
  <2>1. PICK r \in Runs :
          /\ run' = [run EXCEPT ![r].at = "queued"]
          /\ late' = IF c \in late THEN (late \ {c}) \cup {r} ELSE late
    BY <1>8 DEF Enqueue
  <2>2. c \in Queuing /\ Queuing' = Queuing \ {c} /\ Living' \subseteq Living \cup {r}
    BY <1>0, <1>8, <2>1 DEF Enqueue, CallerAt, Queuing, Living, TypeOK
  <2>3. UNCHANGED <<exists, processing, age, seen>>
    BY <1>8 DEF Enqueue, rowVars
  <2>4. CASE c \in late
    BY <2>1, <2>2, <2>3, <2>4, LeavesClaim, SchedulesAssumption
       DEF InTime, Queuing, Living, Callers, SchedulesAssumption
  <2>5. CASE c \notin late
    <3>1. InTime = {c}
      BY <2>2, <2>5 DEF ScheduleInv, OneRun, InTime
    <3>2. InTime' \subseteq {r}
      BY <2>1, <2>2, <2>5, <3>1, SchedulesAssumption
         DEF InTime, Queuing, Living, Callers, SchedulesAssumption
    <3> QED
      BY <2>3, <3>1, <3>2 DEF Rest, OneRun, InTime, HeldIsClaimed, OldIsLost, SeenIsLost, ScheduleInv
  <2> QED
    BY <2>4, <2>5
<1>9. ASSUME NEW c \in Callers, Abort(c) PROVE Rest'
  <2>1. Queuing' = Queuing \ {c} /\ Living' = Living /\ late' = late \ {c}
    BY <1>0, <1>9 DEF Abort, CallerAt, Queuing, Living, jobVars, TypeOK
  <2>2. InTime' \subseteq InTime
    BY <2>1, SchedulesAssumption DEF InTime, Living, Callers, SchedulesAssumption
  <2> QED
    BY <1>9, <2>2, LeavesClaim DEF Abort, rowVars
<1>10. ASSUME NEW r \in Runs, ReleaseClaim(r) PROVE Rest'
  <2>1. r \in Living /\ Living' = Living \ {r} /\ Queuing' = Queuing /\ exists' = exists
    BY <1>0, <1>10 DEF ReleaseClaim, Goto, Living, Queuing, TypeOK
  <2>2. r \notin Queuing
    BY SchedulesAssumption DEF Queuing, Callers, SchedulesAssumption
  <2>3. CASE UNCHANGED <<processing, age, seen, late>>
    BY <2>1, <2>3, LeavesClaim DEF InTime
  <2>4. CASE late' = (IF r \in late THEN late \cup OnTheirWay ELSE late) /\ seen' = Superseded
    <3>1. InTime' = {}
      <4>1. CASE r \in late
        BY <2>1, <2>4, <4>1 DEF InTime
      <4>2. CASE r \notin late
        BY <2>1, <2>2, <2>4, <4>2 DEF InTime, ScheduleInv, OneRun
      <4> QED
        BY <4>1, <4>2
    <3> QED
      BY <2>4, <3>1, NobodyInTime DEF Superseded
  <2> QED
    BY <1>10, <2>3, <2>4 DEF ReleaseClaim
<1>11. ASSUME NEW r \in Runs,
              \/ TakeRun(r) \/ FindGone(r) \/ ReadSchedule(r) \/ DoTask(r) \/ WriteNext(r)
              \/ Acknowledge(r) \/ WorkerDies(r)
       PROVE  Rest'
  <2>1. UNCHANGED <<exists, processing, age, caller, seen>>
    BY <1>11 DEF TakeRun, FindGone, ReadSchedule, DoTask, WriteNext, Acknowledge,
                 WorkerDies, rowVars
  <2>2. run[r].at # "none"
    BY <1>11 DEF TakeRun, FindGone, ReadSchedule, DoTask, WriteNext, Acknowledge,
                 WorkerDies, Running
  <2>3. \A s \in Runs : s # r => run'[s] = run[s]
    BY <1>0, <1>11 DEF TakeRun, FindGone, ReadSchedule, DoTask, WriteNext, Acknowledge,
                       WorkerDies, Goto, Retire, TypeOK
  <2>4. \/ late' = late /\ (run[r].at = "ack" => run'[r].at = "none")
        \/ late' = late \cup {r}
        \/ late' = late \ {r} /\ run'[r].at = "none"
    <3>1. CASE TakeRun(r) \/ ReadSchedule(r) \/ DoTask(r) \/ WriteNext(r)
      BY <3>1 DEF TakeRun, ReadSchedule, DoTask, WriteNext
    <3>2. CASE FindGone(r) \/ Acknowledge(r)
      BY <1>0, <3>2 DEF FindGone, Acknowledge, Retire, NoRun, TypeOK
    <3>3. CASE WorkerDies(r)
      BY <1>0, <3>3 DEF WorkerDies, FallBehind, Retire, NoRun, TypeOK
    <3> QED
      BY <1>11, <3>1, <3>2, <3>3
  <2>5. InTime' \subseteq InTime
    <3>1. Queuing' = Queuing /\ r \notin Queuing
      BY <2>1, SchedulesAssumption DEF Queuing, Callers, SchedulesAssumption
    <3> QED
      BY <2>2, <2>3, <2>4, <3>1 DEF Living, InTime
  <2> QED
    BY <2>1, <2>5, LeavesClaim
<1> QED
  BY <1>1, <1>2, <1>3, <1>4, <1>5, <1>6, <1>7, <1>8, <1>9, <1>10, <1>11 DEF Next, Tick, Work

LEMMA InvStep == ScheduleInv /\ [Next]_vars => ScheduleInv'
BY RestStep, TypeStep, TasksStep DEF ScheduleInv, TypeInv, Rest

LEMMA Invariance == Spec => []ScheduleInv
BY ScheduleInit, InvStep, PTL DEF Spec

\* Claiming, aborting, redelivering, editing and deleting in any order, at most one
\* run of the schedule is on its way in time; whoever is beside it is late.
THEOREM OneRunHolds == Spec => []OneRun
BY Invariance, PTL DEF ScheduleInv

\* However late its write comes after its read, a tick takes back no claim of a run
\* that is in time.
THEOREM LostSparesLiveHolds == Spec => LostSparesLive
<1>1. ScheduleInv /\ [Next]_vars
        => [\A t \in Ticks :
              caller[t] = "swap" /\ caller'[t] = "look" /\ processing /\ ~processing'
                => OnTheirWay \subseteq late]_vars
  <2> SUFFICES ASSUME ScheduleInv, [Next]_vars, NEW t \in Ticks,
                      caller[t] = "swap", caller'[t] = "look", processing, ~processing'
               PROVE  OnTheirWay \subseteq late
    OBVIOUS
  <2>1. TypeOK
    BY DEF ScheduleInv, TypeInv
  <2>2. ReleaseLost(t)
    <3>1. caller' # caller /\ t \in Callers
      BY DEF Callers
    <3>2. \A c \in Callers : (\E s \in CallStep : CallerAt(c, s)) /\ c # t => FALSE
      BY <2>1 DEF CallerAt, TypeOK
    <3>3. \A u \in Ticks : Tick(u) => u = t
      BY <3>2 DEF Tick, BeginTick, ReleaseLost, LookForDue, Callers, CallStep
    <3>4. Tick(t) => ReleaseLost(t)
      BY <2>1 DEF Tick, BeginTick, LookForDue
    <3>5. \A c \in Callers : ~Claim(c) /\ ~Enqueue(c)
      BY <3>2 DEF Claim, Enqueue, CallStep
    <3>6. \A c \in Callers : ~Abort(c)
      BY <3>2 DEF Abort, CallStep, rowVars
    <3>7. \A q \in Requests : ~RunNow(q)
      BY DEF RunNow, rowVars
    <3>8. ~FallDue /\ ~ClaimAges /\ ~Edit /\ ~Delete
      BY <3>1 DEF FallDue, ClaimAges, Edit, Delete
    <3>9. \A r \in Runs : ~Work(r) /\ ~WorkerDies(r)
      BY <3>1 DEF Work, TakeRun, FindGone, ReadSchedule, DoTask, WriteNext, ReleaseClaim,
                  Acknowledge, WorkerDies
    <3> QED
      BY <3>1, <3>3, <3>4, <3>5, <3>6, <3>7, <3>8, <3>9 DEF Next, vars
  <2> QED
    BY <2>2 DEF ReleaseLost, Lost, ScheduleInv, SeenIsLost, OldIsLost, InTime
<1> QED
  BY <1>1, Invariance, PTL DEF Spec, LostSparesLive
=============================================================================
