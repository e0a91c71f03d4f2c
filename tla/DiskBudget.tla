------------------------------- MODULE DiskBudget -------------------------------
(***************************************************************************)
(* The disk a server was sold, in blocks: what its directory holds, the last      *)
(* sample the panel has of it, and everything that adds to it: requests that only  *)
(* ask whether the server is over, requests that carry a budget to the node, SFTP   *)
(* sessions that were asked once, the game itself.                               *)
(***************************************************************************)
EXTENDS Naturals

CONSTANTS
  Limit,    \* server.diskLimit
  Disk,     \* blocks the node has: a bound
  Adding,   \* requests that run at once
  Visitor,  \* SFTP sessions
  MaxFiles, \* files of one request: a bound
  MaxTurns  \* deletions, stops, agents that restart: a bound

DiskAssumption == {Limit, Disk, MaxFiles, MaxTurns} \subseteq Nat /\ 0 < Limit /\ Limit < Disk

VARIABLES
  used,    \* blocks in the server's directory
  sample,  \* serverStat.diskBytes of the newest row, or None
  measure, \* the agent's last walk of the directory, or None
  up,      \* the game runs
  adding,  \* per request: what it still may add, what it added
  visitor, \* per session: closed, or whether it may write
  turns

vars == <<used, sample, measure, up, adding, visitor, turns>>

None   == Disk + 1
Blocks == 0 .. Disk
Kinds  == {"upload", "decompress", "plugin", "pack"}
Done   == [kind |-> "none", at |-> "idle", allowed |-> 0, budget |-> 0, added |-> 0, files |-> 0]

TypeOK ==
  /\ used \in Blocks /\ {sample, measure} \subseteq Blocks \cup {None} /\ up \in BOOLEAN
  /\ adding \in [Adding -> [kind : Kinds \cup {"none"}, at : {"idle", "add", "extract", "overrides", "mods"},
                            allowed : Blocks, budget : Blocks, added : 0 .. 3 * Disk, files : 0 .. MaxFiles]]
  /\ visitor \in [Visitor -> {"closed", "read", "write"}]
  /\ turns \in 0 .. MaxTurns

\* An installed server that never ran.
Init ==
  /\ used = 1 /\ sample = None /\ measure = None /\ up = FALSE
  /\ adding = [a \in Adding |-> Done] /\ visitor = [v \in Visitor |-> "closed"] /\ turns = 0

Turn == turns < MaxTurns /\ turns' = turns + 1

-----------------------------------------------------------------------------
\* A server without a sample cannot be shown to be over.
UsedMb    == IF sample = None THEN 0 ELSE sample
OverLimit == UsedMb >= Limit
Remaining == IF OverLimit THEN 0 ELSE Limit - UsedMb

Grow(n) == used + n <= Disk /\ used' = used + n

\* Asked, then not counted.
AssertDiskWithinLimit == ~OverLimit
Uncounted(n) == AssertDiskWithinLimit /\ Grow(n) /\ UNCHANGED <<sample, measure, up, adding, visitor, turns>>

WriteFile == Uncounted(1)
\* A directory may be copied, and packed, into as much again.
CopyFile == \E n \in 1 .. used : Uncounted(n)
Compress == \E n \in 0 .. used : Uncounted(n)

\* Deleting is always open.
DeleteFiles ==
  /\ Turn /\ \E n \in 1 .. used : used' = used - n
  /\ UNCHANGED <<sample, measure, up, adding, visitor>>

-----------------------------------------------------------------------------
(***************************************************************************)
(* Requests with a budget. The node stops a file that would go over what it was    *)
(* told is left; the panel takes what was written off that, file by file.          *)
(***************************************************************************)
Begin(a, kind) ==
  /\ adding[a].at = "idle" /\ ~OverLimit
  /\ kind = "pack" => ~up
  /\ \E n \in 1 .. MaxFiles :
       adding' = [adding EXCEPT ![a] = [kind |-> kind, at |-> "add", allowed |-> Remaining, budget |-> Remaining,
                                        added |-> 0, files |-> IF kind = "plugin" THEN 1 ELSE n]]
  /\ UNCHANGED <<used, sample, measure, up, visitor, turns>>

Spent(a, n) == IF adding[a].budget > n THEN adding[a].budget - n ELSE 0

Ends(a) == adding' = [adding EXCEPT ![a] = Done]

\* One file of n blocks. An upload that is too large is taken away again; so is a
\* download, but files an archive gave before the one too many stay.
AddFile(a) ==
  /\ adding[a].at = "add" /\ adding[a].kind # "pack" /\ adding[a].files > 0
  /\ \E n \in 1 .. adding[a].budget :
       /\ Grow(n)
       /\ adding' = [adding EXCEPT ![a] = [@ EXCEPT !.budget = Spent(a, n), !.added = adding[a].added + n, !.files = adding[a].files - 1]]
  /\ UNCHANGED <<sample, measure, up, visitor, turns>>

EndRequest(a) ==
  /\ adding[a].at # "idle" /\ Ends(a)
  /\ UNCHANGED <<used, sample, measure, up, visitor, turns>>

-----------------------------------------------------------------------------
(***************************************************************************)
(* A modpack: the archive, what it unpacks to, one download for every mod. What      *)
(* spend() answers is the budget before it takes anything off, and what unpacking    *)
(* wrote is never taken off.                                                   *)
(***************************************************************************)
Adds(a, n, at, budget, files) ==
  /\ Grow(n)
  /\ adding' = [adding EXCEPT ![a] = [@ EXCEPT !.at = at, !.budget = budget, !.added = adding[a].added + n, !.files = files]]
  /\ UNCHANGED <<sample, measure, up, visitor, turns>>

\* The step that follows is promised the budget as it was: n is kept beside it.
FetchPack(a) ==
  /\ adding[a].at = "add" /\ adding[a].kind = "pack"
  /\ \E n \in 1 .. adding[a].budget : Adds(a, n, "extract", adding[a].budget, adding[a].files)

ExtractPack(a) ==
  /\ adding[a].at = "extract"
  /\ \E n \in 1 .. adding[a].budget : Adds(a, n, "overrides", Spent(a, adding[a].added), adding[a].files)

\* The node answers with the entries, not with an object that has them: where the pack
\* has overrides the install ends here.
MoveOverrides(a) ==
  /\ adding[a].at = "overrides"
  /\ adding' = [adding EXCEPT ![a].at = "mods"]
  /\ UNCHANGED <<used, sample, measure, up, visitor, turns>>

FetchMod(a) ==
  /\ adding[a].at = "mods" /\ adding[a].files > 0
  /\ \E n \in 1 .. adding[a].budget : Adds(a, n, "mods", Spent(a, n), adding[a].files - 1)

InstallPack(a) == FetchPack(a) \/ ExtractPack(a) \/ MoveOverrides(a) \/ FetchMod(a)

-----------------------------------------------------------------------------
(***************************************************************************)
(* SFTP: asked once, when the session opens.                                  *)
(***************************************************************************)
Login(v) ==
  /\ visitor[v] = "closed" /\ visitor' = [visitor EXCEPT ![v] = IF OverLimit THEN "read" ELSE "write"]
  /\ UNCHANGED <<used, sample, measure, up, adding, turns>>

Put(v) ==
  /\ visitor[v] = "write" /\ Grow(1)
  /\ UNCHANGED <<sample, measure, up, adding, visitor, turns>>

Leave(v) ==
  /\ visitor[v] # "closed" /\ visitor' = [visitor EXCEPT ![v] = "closed"]
  /\ UNCHANGED <<used, sample, measure, up, adding, turns>>

-----------------------------------------------------------------------------
(***************************************************************************)
(* The game, and what is measured while it runs. A frame carries the walk before it. *)
(***************************************************************************)
Start ==
  /\ ~up /\ ~OverLimit /\ up' = TRUE
  /\ UNCHANGED <<used, sample, measure, adding, visitor, turns>>

Stop ==
  /\ up /\ Turn /\ up' = FALSE
  /\ UNCHANGED <<used, sample, measure, adding, visitor>>

GameWrites ==
  /\ up /\ Grow(1)
  /\ UNCHANGED <<sample, measure, up, adding, visitor, turns>>

ReportStats ==
  /\ up
  /\ sample' = IF measure = None THEN 0 ELSE measure
  /\ measure' = used
  /\ UNCHANGED <<used, up, adding, visitor, turns>>

AgentRestarts ==
  /\ measure # None /\ Turn /\ measure' = None
  /\ visitor' = [v \in Visitor |-> "closed"]
  /\ UNCHANGED <<used, sample, up, adding>>

\* After seven days without a newer one.
PruneStats ==
  /\ ~up /\ sample # None /\ Turn /\ sample' = None
  /\ UNCHANGED <<used, measure, up, adding, visitor>>

-----------------------------------------------------------------------------
Next ==
  \/ WriteFile \/ CopyFile \/ Compress \/ DeleteFiles
  \/ \E a \in Adding : \E kind \in Kinds : Begin(a, kind)
  \/ \E a \in Adding : AddFile(a) \/ EndRequest(a) \/ InstallPack(a)
  \/ \E v \in Visitor : Login(v) \/ Put(v) \/ Leave(v)
  \/ Start \/ Stop \/ GameWrites \/ ReportStats \/ AgentRestarts \/ PruneStats

Spec == Init /\ [][Next]_vars

-----------------------------------------------------------------------------
\* An upload of several files, an archive and a plugin add no more than what was left
\* of the limit when they began, by the sample the panel had then.
WithinBudget ==
  \A a \in Adding : adding[a].kind \in {"upload", "decompress", "plugin"} => adding[a].added <= adding[a].allowed

===============================================================================
