-------------------------------- MODULE Ceilings --------------------------------
(***************************************************************************)
(* Telling an owner that the server runs into its own limits. The node's agent  *)
(* reports what a server uses, the panel keeps one reading a minute, and a tick  *)
(* of the maintenance worker, every minute, warns once and then keeps quiet for   *)
(* six hours. Ticks can overlap: the worker's concurrency is a setting, and       *)
(* more than one worker may run.                                              *)
(***************************************************************************)
EXTENDS Naturals, FiniteSets

CONSTANTS
  Tick,        \* ticks under way at once
  Metered,     \* the resources this server has a limit of
  Window,      \* minutes a warning looks back: five in the code
  MinSamples,  \* readings needed to judge: three in the code
  Unknown,     \* no reading
  MaxMoves,    \* changes of the load or of the status: a bound
  MaxFaults    \* readings lost, failed pushes, crashes: a bound

Resource == {"memory", "disk"}

CeilingsAssumption ==
  /\ Metered \subseteq Resource /\ MinSamples \in 1 .. Window /\ Window \in Nat
  /\ Unknown \notin [Resource -> BOOLEAN] /\ MaxMoves \in Nat /\ MaxFaults \in Nat

VARIABLES
  serving,  \* ONLINE and not suspended
  load,     \* per resource: at nine tenths of the limit or above
  walked,   \* the agent: what the last walk of the directory found, how old
  minute,   \* a reading of this minute was kept; the tick of it is still to come
  rows,     \* the readings kept, by age in minutes
  warned,   \* per resource: the key that keeps the warning quiet
  told,     \* per resource: notifications since the key was last absent
  tick,     \* per tick: where it is, what it still has to say
  moved, faulty

vars == <<serving, load, walked, minute, rows, warned, told, tick, moved, faulty>>

Reading == [Resource -> BOOLEAN]
Empty   == [at |-> "idle", todo |-> {}]

TypeOK ==
  /\ serving \in BOOLEAN /\ load \in Reading
  /\ walked \in [full : BOOLEAN, fresh : BOOLEAN, walking : BOOLEAN]
  /\ minute \in [kept : BOOLEAN, tick : BOOLEAN]
  /\ rows \in [1 .. Window -> Reading \cup {Unknown}]
  /\ warned \in [Resource -> BOOLEAN] /\ told \in [Resource -> Nat]
  /\ tick \in [Tick -> [at : {"idle", "samples", "claim", "push", "dispatch"}, todo : SUBSET Resource]]
  /\ moved \in 0 .. MaxMoves /\ faulty \in 0 .. MaxFaults

Init ==
  /\ serving = FALSE /\ load = [r \in Resource |-> FALSE]
  /\ walked = [full |-> FALSE, fresh |-> FALSE, walking |-> FALSE]
  /\ minute = [kept |-> FALSE, tick |-> FALSE] /\ rows = [a \in 1 .. Window |-> Unknown]
  /\ warned = [r \in Resource |-> FALSE] /\ told = [r \in Resource |-> 0]
  /\ tick = [t \in Tick |-> Empty] /\ moved = 0 /\ faulty = 0

Strained == faulty < MaxFaults /\ faulty' = faulty + 1

-----------------------------------------------------------------------------
(***************************************************************************)
(* The server, the agent and the readings.                                    *)
(***************************************************************************)
Move ==
  /\ moved < MaxMoves /\ moved' = moved + 1
  /\ \/ \E r \in Resource : load' = [load EXCEPT ![r] = ~@] /\ UNCHANGED serving
     \/ serving' = ~serving /\ UNCHANGED load
  /\ UNCHANGED <<walked, minute, rows, warned, told, tick, faulty>>

\* A frame carries the size the last walk found, or nothing before the first.
Frame == [load EXCEPT !["disk"] = walked.full]

RecordStats ==
  /\ serving /\ ~minute.kept
  /\ minute' = [minute EXCEPT !.kept = TRUE]
  /\ walked' = [walked EXCEPT !.walking = @ \/ ~walked.fresh]
  /\ \/ rows' = [rows EXCEPT ![1] = Frame] /\ UNCHANGED faulty
     \/ Strained /\ UNCHANGED rows
  /\ UNCHANGED <<serving, load, warned, told, tick, moved>>

DirectorySize ==
  /\ walked.walking
  /\ walked' = [full |-> load["disk"], fresh |-> TRUE, walking |-> FALSE]
  /\ UNCHANGED <<serving, load, minute, rows, warned, told, tick, moved, faulty>>

AgentRestarts ==
  /\ Strained /\ walked' = [full |-> FALSE, fresh |-> FALSE, walking |-> FALSE]
  /\ UNCHANGED <<serving, load, minute, rows, warned, told, tick, moved>>

\* A running server is reported every few seconds, so within every minute.
Minute ==
  /\ serving => minute.kept
  /\ minute' = [kept |-> FALSE, tick |-> TRUE]
  /\ rows' = [a \in 1 .. Window |-> IF a = 1 THEN Unknown ELSE rows[a - 1]]
  /\ walked' = [walked EXCEPT !.fresh = FALSE]
  /\ UNCHANGED <<serving, load, warned, told, tick, moved, faulty>>

-----------------------------------------------------------------------------
(***************************************************************************)
(* The tick.                                                               *)
(***************************************************************************)
FindServers(t) ==
  /\ minute.tick /\ tick[t].at = "idle" /\ minute' = [minute EXCEPT !.tick = FALSE]
  /\ tick' = IF serving /\ Metered # {} THEN [tick EXCEPT ![t].at = "samples"] ELSE tick
  /\ UNCHANGED <<serving, load, walked, rows, warned, told, moved, faulty>>

Readings == {a \in 1 .. Window : rows[a] # Unknown}

Enough   == Cardinality(Readings) >= MinSamples

\* Memory is judged by every reading, the disk by the highest.
AtCeiling(r) ==
  /\ r \in Metered
  /\ IF r = "memory" THEN \A a \in Readings : rows[a][r] ELSE \E a \in Readings : rows[a][r]

Judge(t) ==
  /\ tick[t].at = "samples"
  /\ LET todo == {r \in Resource : Enough /\ AtCeiling(r)}
     IN  tick' = [tick EXCEPT ![t] = IF todo = {} THEN Empty ELSE [at |-> "claim", todo |-> todo]]
  /\ UNCHANGED <<serving, load, walked, minute, rows, warned, told, moved, faulty>>

Now(t) == IF "memory" \in tick[t].todo THEN "memory" ELSE "disk"

After(t) ==
  LET rest == tick[t].todo \ {Now(t)}
  IN  [tick EXCEPT ![t] = IF rest = {} THEN Empty ELSE [at |-> "claim", todo |-> rest]]

\* As a careless change would write it.
First_GetThenSet(r) == told[r] = 0

\* SET ... NX: the tick that sets the key is the one that tells.
First(r) == ~warned[r]

WarnOnce(t) ==
  /\ tick[t].at = "claim" /\ warned' = [warned EXCEPT ![Now(t)] = TRUE]
  /\ tick' = IF First(Now(t)) THEN [tick EXCEPT ![t].at = "push"] ELSE After(t)
  /\ UNCHANGED <<serving, load, walked, minute, rows, told, moved, faulty>>

Push(t) ==
  /\ tick[t].at = "push"
  /\ told' = [told EXCEPT ![Now(t)] = @ + 1] /\ tick' = [tick EXCEPT ![t].at = "dispatch"]
  /\ UNCHANGED <<serving, load, walked, minute, rows, warned, moved, faulty>>

Dispatch(t) ==
  /\ tick[t].at = "dispatch" /\ tick' = After(t)
  /\ UNCHANGED <<serving, load, walked, minute, rows, warned, told, moved, faulty>>

\* A push that fails, or a worker that dies, ends the whole tick: the key stays.
TickDies(t) ==
  /\ tick[t].at # "idle" /\ Strained /\ tick' = [tick EXCEPT ![t] = Empty]
  /\ UNCHANGED <<serving, load, walked, minute, rows, warned, told, moved>>

\* Six hours: longer than any tick takes to tell what it claimed.
CooldownEnds(r) ==
  /\ warned[r] /\ \A t \in Tick : tick[t].at \in {"push", "dispatch"} => Now(t) # r
  /\ warned' = [warned EXCEPT ![r] = FALSE] /\ told' = [told EXCEPT ![r] = 0]
  /\ UNCHANGED <<serving, load, walked, minute, rows, tick, moved, faulty>>

-----------------------------------------------------------------------------
TickStep(t) == FindServers(t) \/ Judge(t) \/ WarnOnce(t) \/ Push(t) \/ Dispatch(t)

Next ==
  \/ Move \/ RecordStats \/ DirectorySize \/ AgentRestarts \/ Minute
  \/ \E t \in Tick : TickStep(t) \/ TickDies(t)
  \/ \E r \in Resource : CooldownEnds(r)

Spec == Init /\ [][Next]_vars

-----------------------------------------------------------------------------
\* However the ticks overlap, and whichever of them dies, an owner is told of a
\* resource at most once while the key stands: "says it once, not once a minute".
OncePerCooldown == \A r \in Resource : told[r] <= 1
================================================================================
