------------------------------ MODULE Schedules ------------------------------
(***************************************************************************)
(* One schedule of one server: the minute tick that claims it when it is    *)
(* due and queues a run, the customer who runs it by hand, the run itself,  *)
(* and the tick's first act, which hands back claims whose run is gone.     *)
(*                                                                         *)
(* The claim is a flag and a timestamp on the row. Nobody who finds it set  *)
(* can tell whose it is: a run gives back whatever claim is there, also one *)
(* that was taken after its own was lost.                                   *)
(*                                                                         *)
(* Time is two facts: whether nextRunAt has come, and whether the claim is  *)
(* older than the tasks' offsets and the grace allow. Editing a schedule is *)
(* bounded by MaxEdits. Both writers of nextRunAt refuse a cron expression  *)
(* with no next time, so the tick's backfill of nulls finds nothing.        *)
(***************************************************************************)
EXTENDS Naturals, FiniteSets

CONSTANTS
  Ticks,      \* maintenance ticks that can be in progress at the same time
  Requests,   \* "run now" handlers that can be in progress at the same time
  Runs,       \* jobs that can be queued or in hand at the same time
  Tasks,      \* how many tasks the schedule has
  MaxStalls,  \* times BullMQ gives the job of a dead worker back to the queue
  MaxAborts,  \* ticks and handlers that die or fail half way; a bound
  MaxEdits,   \* edits and pauses by the customer; a bound
  MaxLates    \* times somebody falls behind his claim; a bound

ASSUME SchedulesAssumption ==
  /\ Ticks \cap Requests = {} /\ (Ticks \cup Requests) \cap Runs = {}
  /\ Tasks \in Nat /\ MaxStalls \in Nat /\ MaxAborts \in Nat
  /\ MaxEdits \in Nat /\ MaxLates \in Nat

VARIABLES
  exists, active,  \* the row, and its isActive
  processing,      \* isProcessing: the claim
  age,             \* claimedAt: null, or younger or older than its deadline
  due,             \* nextRunAt has come
  caller,          \* per tick and request: its step
  seen,            \* per tick: the claim it read is the row's, or no longer
  run,             \* per job: its step and the tasks it has left
  orphans,         \* runs whose task rows an edit has replaced
  stalls,          \* per job: times its worker died
  aborts, edits, lates,
  late             \* history: on its way, but with no right to the claim any more

rowVars == <<exists, active, processing, age, due>>
jobVars == <<run, orphans, stalls>>
bounds  == <<aborts, edits, lates>>
vars    == <<rowVars, caller, seen, jobVars, bounds, late>>

-----------------------------------------------------------------------------
Callers == Ticks \cup Requests
CallStep == {"idle", "swap", "look", "claim", "enqueue"}

\* schedule.worker.ts, in the order of its awaits.
Running == {"read", "task", "skip", "write", "release", "ack"}
RunStep == Running \cup {"none", "queued"}
NoRun == [at |-> "none", left |-> 0]

TypeOK ==
  /\ exists \in BOOLEAN /\ active \in BOOLEAN
  /\ processing \in BOOLEAN /\ age \in {"null", "young", "old"}
  /\ due \in BOOLEAN
  /\ caller \in [Callers -> CallStep]
  /\ seen \in [Ticks -> {"none", "current", "superseded"}]
  /\ run \in [Runs -> [at : RunStep, left : 0 .. Tasks]]
  /\ orphans \subseteq Runs
  /\ stalls \in [Runs -> 0 .. MaxStalls]
  /\ aborts \in 0 .. MaxAborts /\ edits \in 0 .. MaxEdits /\ lates \in 0 .. MaxLates
  /\ late \subseteq Callers \cup Runs

\* A schedule that has been created, paused or not.
Init ==
  /\ exists = TRUE /\ active \in BOOLEAN
  /\ processing = FALSE /\ age = "null"
  /\ due = FALSE
  /\ caller = [c \in Callers |-> "idle"]
  /\ seen = [t \in Ticks |-> "none"]
  /\ run = [r \in Runs |-> NoRun]
  /\ orphans = {}
  /\ stalls = [r \in Runs |-> 0]
  /\ aborts = 0 /\ edits = 0 /\ lates = 0
  /\ late = {}

\* Who has taken the claim and not given it back: a caller between its claim
\* and its job, and the job until its release.
Queuing == {c \in Callers : caller[c] = "enqueue"}
Living == {r \in Runs : run[r].at \notin {"none", "ack"}}
OnTheirWay == Queuing \cup Living

-----------------------------------------------------------------------------
(***************************************************************************)
(* Time.                                                                   *)
(***************************************************************************)
FallDue ==
  /\ exists /\ ~due
  /\ due' = TRUE
  /\ UNCHANGED <<exists, active, processing, age, caller, seen, jobVars, bounds, late>>

FallBehind(who) == lates < MaxLates /\ lates' = lates + 1 /\ late' = late \cup who

\* The deadline allows for the tasks' own offsets and ten minutes more. A job that
\* waits behind five sleeping runs is later than that, and so is one whose offsets
\* were edited away; from then on it is taken for dead.
ClaimAges ==
  /\ age = "young"
  /\ age' = "old"
  /\ IF OnTheirWay = {} THEN UNCHANGED <<late, lates>> ELSE FallBehind(OnTheirWay)
  /\ UNCHANGED <<exists, active, processing, due, caller, seen, jobVars, aborts, edits>>

-----------------------------------------------------------------------------
(***************************************************************************)
(* The tick: releaseLostClaims, then the due schedules.                    *)
(***************************************************************************)
CallerAt(c, step) == caller' = [caller EXCEPT ![c] = step]

\* Nobody holds what was read before: a new claim, or none.
Superseded == [t \in Ticks |-> IF seen[t] = "none" THEN "none" ELSE "superseded"]

\* Mutants: nobody looks for lost claims; or not on a paused schedule.
Expired_Never  == FALSE
Expired_Active == active /\ processing /\ age = "old"

Expired == exists /\ processing /\ age = "old"

BeginTick(t) ==
  /\ caller[t] = "idle"
  /\ IF Expired
     THEN CallerAt(t, "swap") /\ seen' = [seen EXCEPT ![t] = "current"]
     ELSE CallerAt(t, "look") /\ UNCHANGED seen
  /\ UNCHANGED <<rowVars, jobVars, bounds, late>>

\* Mutant: the write does not compare the timestamp.
Lost_NoSwap(t) == processing

\* The compare-and-swap on claimedAt.
Lost(t) == processing /\ seen[t] = "current"

ReleaseLost(t) ==
  /\ caller[t] = "swap"
  /\ IF Lost(t) THEN processing' = FALSE /\ age' = "null" ELSE UNCHANGED <<processing, age>>
  /\ seen' = [IF Lost(t) THEN Superseded ELSE seen EXCEPT ![t] = "none"]
  /\ CallerAt(t, "look")
  /\ UNCHANGED <<exists, active, due, jobVars, bounds, late>>

LookForDue(t) ==
  /\ caller[t] = "look"
  /\ CallerAt(t, IF exists /\ active /\ due /\ ~processing THEN "claim" ELSE "idle")
  /\ UNCHANGED <<rowVars, seen, jobVars, bounds, late>>

\* POST /servers/:id/schedules/:scheduleId/run reads the row the same way.
RunNow(q) ==
  /\ caller[q] = "idle"
  /\ exists /\ active
  /\ CallerAt(q, "claim")
  /\ UNCHANGED <<rowVars, seen, jobVars, bounds, late>>

\* Mutant: the update does not ask that the schedule be free.
Free_Unasked == exists

Free == exists /\ ~processing

Claim(c) ==
  /\ caller[c] = "claim"
  /\ IF Free
     THEN /\ processing' = TRUE /\ age' = "young"
          /\ seen' = Superseded
          /\ CallerAt(c, "enqueue")
     ELSE UNCHANGED <<processing, age, seen>> /\ CallerAt(c, "idle")
  /\ UNCHANGED <<exists, active, due, jobVars, bounds, late>>

\* One free slot is as good as another.
Enqueue(c) ==
  /\ caller[c] = "enqueue"
  /\ \E r \in Runs :
       /\ run[r].at = "none" /\ r = CHOOSE free \in Runs : run[free].at = "none"
       /\ run' = [run EXCEPT ![r].at = "queued"]
       /\ late' = IF c \in late THEN (late \ {c}) \cup {r} ELSE late
  /\ CallerAt(c, "idle")
  /\ UNCHANGED <<rowVars, seen, orphans, stalls, bounds>>

\* The process dies, or the queue does not answer: what was claimed stays so.
Abort(c) ==
  /\ caller[c] # "idle" /\ aborts < MaxAborts
  /\ CallerAt(c, "idle")
  /\ aborts' = aborts + 1
  /\ seen' = [t \in Ticks |-> IF t = c THEN "none" ELSE seen[t]]
  /\ late' = late \ {c}
  /\ UNCHANGED <<rowVars, jobVars, edits, lates>>

-----------------------------------------------------------------------------
(***************************************************************************)
(* The run.                                                                *)
(***************************************************************************)
Goto(r, step) == run' = [run EXCEPT ![r].at = step]
Retire(r) ==
  /\ run' = [run EXCEPT ![r] = NoRun]
  /\ orphans' = orphans \ {r}
  /\ stalls' = [stalls EXCEPT ![r] = 0]
  /\ late' = late \ {r}

TakeRun(r) ==
  /\ run[r].at = "queued"
  /\ Goto(r, "read")
  /\ orphans' = orphans \ {r}
  /\ UNCHANGED <<rowVars, caller, seen, stalls, bounds, late>>

\* A schedule that is gone has no claim to give back.
FindGone(r) ==
  /\ run[r].at = "read" /\ ~exists
  /\ Retire(r)
  /\ UNCHANGED <<rowVars, caller, seen, bounds>>

\* Paused, or its server is suspended: nothing is done and nextRunAt stays.
\* Only for an online server and it is not: the run is skipped.
ReadSchedule(r) ==
  /\ run[r].at = "read" /\ exists
  /\ \/ Goto(r, "release")
     \/ active /\ Goto(r, "skip")
     \/ active /\ run' = [run EXCEPT ![r] = [at |-> IF Tasks = 0 THEN "write" ELSE "task",
                                              left |-> Tasks]]
  /\ UNCHANGED <<rowVars, caller, seen, orphans, stalls, bounds, late>>

\* Mutant: one task too many.
AfterTask_OneMore(n) == IF n = 0 THEN "write" ELSE "task"

AfterTask(n) == IF n = 1 THEN "write" ELSE "task"

\* The offset, the task and the record of its outcome. A failure ends the run
\* unless the task says otherwise; a record that cannot be written throws.
DoTask(r) ==
  /\ run[r].at = "task"
  /\ \/ /\ r \notin orphans /\ exists
        /\ \/ run' = [run EXCEPT ![r] = [at |-> AfterTask(run[r].left), left |-> run[r].left - 1]]
           \/ run' = [run EXCEPT ![r] = [at |-> "write", left |-> 0]]
     \/ run' = [run EXCEPT ![r] = [at |-> "release", left |-> 0]]
  /\ UNCHANGED <<rowVars, caller, seen, orphans, stalls, bounds, late>>

\* The row's next run, reckoned from now; without the row the update throws.
WriteNext(r) ==
  /\ run[r].at \in {"skip", "write"}
  /\ due' \in IF exists THEN {FALSE, due} ELSE {due}
  /\ Goto(r, "release")
  /\ UNCHANGED <<exists, active, processing, age, caller, seen, orphans, stalls, bounds, late>>

\* The finally block: whatever claim is there is given back; an error is logged. A
\* run that is late gives back the claim of whoever came after it.
ReleaseClaim(r) ==
  /\ run[r].at = "release"
  /\ \/ /\ processing /\ processing' = FALSE /\ age' = "null" /\ seen' = Superseded
        /\ late' = IF r \in late THEN late \cup OnTheirWay ELSE late
     \/ UNCHANGED <<processing, age, seen, late>>
  /\ Goto(r, "ack")
  /\ UNCHANGED <<exists, active, due, caller, orphans, stalls, bounds>>

Acknowledge(r) ==
  /\ run[r].at = "ack"
  /\ Retire(r)
  /\ UNCHANGED <<rowVars, caller, seen, bounds>>

\* The worker's process dies: BullMQ queues the job again, or drops it. It knows
\* nothing of a claim the run has given back already: such a run starts late.
WorkerDies(r) ==
  /\ run[r].at \in Running
  /\ IF stalls[r] < MaxStalls
     THEN /\ run' = [run EXCEPT ![r] = [at |-> "queued", left |-> 0]]
          /\ stalls' = [stalls EXCEPT ![r] = @ + 1]
          /\ IF run[r].at = "ack" THEN FallBehind({r}) ELSE UNCHANGED <<late, lates>>
          /\ UNCHANGED orphans
     ELSE Retire(r) /\ UNCHANGED lates
  /\ UNCHANGED <<rowVars, caller, seen, aborts, edits>>

-----------------------------------------------------------------------------
(***************************************************************************)
(* The customer: PATCH reckons nextRunAt anew, may pause or resume, and     *)
(* may replace the task rows; DELETE takes the row and its tasks away.      *)
(***************************************************************************)
Begun == {r \in Runs : run[r].at \in Running}

Edit ==
  /\ exists /\ edits < MaxEdits
  /\ active' \in BOOLEAN
  /\ due' = FALSE
  /\ orphans' \in {orphans, Begun}
  /\ edits' = edits + 1
  /\ UNCHANGED <<exists, processing, age, caller, seen, run, stalls, aborts, lates, late>>

Delete ==
  /\ exists /\ edits < MaxEdits
  /\ exists' = FALSE /\ active' = FALSE /\ due' = FALSE
  /\ processing' = FALSE /\ age' = "null"
  /\ seen' = Superseded
  /\ orphans' = Begun
  /\ edits' = edits + 1
  /\ UNCHANGED <<caller, run, stalls, aborts, lates, late>>

-----------------------------------------------------------------------------
Tick(t) == BeginTick(t) \/ ReleaseLost(t) \/ LookForDue(t)
Work(r) ==
  \/ TakeRun(r) \/ FindGone(r) \/ ReadSchedule(r) \/ DoTask(r) \/ WriteNext(r)
  \/ ReleaseClaim(r) \/ Acknowledge(r)

Next ==
  \/ FallDue \/ ClaimAges \/ Edit \/ Delete
  \/ \E t \in Ticks : Tick(t)
  \/ \E q \in Requests : RunNow(q)
  \/ \E c \in Callers : Claim(c) \/ Enqueue(c) \/ Abort(c)
  \/ \E r \in Runs : Work(r) \/ WorkerDies(r)

Spec == Init /\ [][Next]_vars

(***************************************************************************)
(* Fairness. A tick comes every minute, and one that has begun goes on, as   *)
(* does a handler, but for the few that are aborted. Workers take what is    *)
(* queued and go on with it. Time passes.                                   *)
(***************************************************************************)
Fairness ==
  /\ \A t \in Ticks : WF_vars(Tick(t) \/ Claim(t) \/ Enqueue(t))
  /\ \A q \in Requests : WF_vars(Claim(q) \/ Enqueue(q))
  /\ \A r \in Runs : WF_vars(Work(r))
  /\ WF_vars(ClaimAges)

FairSpec == Spec /\ Fairness

-----------------------------------------------------------------------------
(***************************************************************************)
(* What holds.                                                             *)
(***************************************************************************)

\* The claim is exclusive: however many ticks and customers look at once, and
\* whoever aborts or dies, at most one of them has a run of this schedule on its
\* way with a right to its claim. Another beside it has outlived its deadline, was
\* begun again after giving its claim back, or lost its claim to such a run.
OneRun == \A c, d \in OnTheirWay \ late : c = d

\* releaseLostClaims takes back no claim of a run that is in time, though it reads
\* first and writes later: if the schedule was claimed anew in between, by a late
\* run's release too, the timestamps differ.
LostSparesLive ==
  [][\A t \in Ticks :
       caller[t] = "swap" /\ caller'[t] = "look" /\ processing /\ ~processing'
         => OnTheirWay \subseteq late]_vars

\* A claim comes back, whichever way its run ended or failed to begin: a
\* claimed schedule is filtered out of every later tick.
ClaimsComeBack == processing ~> ~processing

\* A schedule that is due and stays so is run: no abort, lost job or lost claim
\* keeps it from being looked at again.
DueGetsRun ==
  (exists /\ active /\ due)
    ~> (\/ ~(exists /\ active /\ due)
        \/ \E r \in Runs : run[r].at = "read")
=============================================================================
