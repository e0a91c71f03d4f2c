--------------------------- MODULE MCServerDeletion ---------------------------
(***************************************************************************)
(* ServerDeletion on small instances. Each scene says which requests and     *)
(* faults may come, and what is there to begin with: backups on their own,   *)
(* databases on their own, and a deletion beside a little of both.          *)
(***************************************************************************)
EXTENDS ServerDeletion

ASSUME ScenesAssumption ==
  B!BackupsAssumption /\ D!DatabasesAssumption /\ MaxDeletions \in Nat

\* Two databases whose accounts are cut to the same name.
OneAccount == [n \in Name |-> CHOOSE a \in Account : TRUE]

Calls(b, r, d, l, x, o) ==
  [k \in B!Kinds |-> CASE k = "backups" -> b [] k = "restores" -> r [] k = "deletions" -> d
                       [] k = "locks" -> l [] k = "deaths" -> x [] k = "rot" -> o]

Requests(n) == request = [r \in Request |-> IF r <= n THEN D!NewRequest ELSE D!NeverAsked]
Held == {b \in Backup : B!Exists(b)}

\* A backup is made, retried, given back by a dead worker, restored, deleted.
Making ==
  /\ calls \in {Calls(1, 1, 1, 0, 0, 0), Calls(1, 0, 0, 0, 1, 0)}
  /\ Held = {} /\ Requests(0) /\ faults = 0 /\ asked = MaxDeletions

\* One that is there is restored, twice at once, locked, deleted and pruned.
Keeping ==
  /\ calls \in {Calls(0, 2, 0, 0, 0, 0), Calls(0, 1, 1, 0, 0, 1), Calls(0, 1, 0, 0, 1, 0)}
  /\ Cardinality(Held) = 1 /\ Requests(0) /\ faults = 0 /\ asked = MaxDeletions

Pruning ==
  /\ calls = Calls(0, 0, 1, 1, 0, 0)
  /\ Cardinality(Held) = 2 /\ Requests(0) /\ faults = 0 /\ asked = MaxDeletions

Hosting ==
  /\ calls = Calls(0, 0, 0, 0, 0, 0)
  /\ Held = {} /\ asked = MaxDeletions
  /\ \/ Requests(4) /\ faults = 0
     \/ Requests(3) /\ faults = 1

Removals ==
  /\ calls \in {Calls(1, 0, 0, 0, 0, 0), Calls(0, 1, 0, 0, 0, 0), Calls(0, 0, 1, 0, 0, 0)}
  /\ Cardinality(Held) = 1 - calls["backups"]
  /\ \A b \in Held : row[b].locked   \* not the prey of retention
  /\ Requests(IF calls["deletions"] = 1 THEN 2 ELSE 0)
  /\ faults = 1 /\ asked = MaxDeletions - 1

\* A deletion that stopped half way, and is asked for again.
Repeated ==
  /\ calls = Calls(0, 0, 0, 0, 0, 0)
  /\ Cardinality(Held) = 1
  /\ \A b \in Held : row[b].locked
  /\ Requests(1) /\ faults = 1 /\ asked = 0

Scene == Repeated \/ Making \/ Keeping \/ Pruning \/ Hosting \/ Removals
SceneInit == Init /\ Scene
SceneSpec == SceneInit /\ [][Next]_vars /\ Fairness

-----------------------------------------------------------------------------
\* The state is of its type; a backup that says it is complete has a whole archive with
\* its own sum (Backups), and the row of a database has the database (Databases).
RowsSound == TypeOK /\ CompletedIsWhole /\ RowHasDatabase
===============================================================================
