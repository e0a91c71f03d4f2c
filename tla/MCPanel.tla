-------------------------------- MODULE MCPanel --------------------------------
(***************************************************************************)
(* Allocations on small instances, and beside it the parts of the panel that need   *)
(* no fairness: what a node and the panel know each other by, the things          *)
(* administrators provide, a server's directory and its disk, the lists and the      *)
(* configuration of its game, imported eggs, warnings, updates. A scene is one of    *)
(* them; the rest stand still.                                               *)
(***************************************************************************)
EXTENDS Allocations

CONSTANTS
  Link, NoClaim, Installer, MaxTokens,
  Storage, Host, Template, Node, Use, NoThing, Clerk, Capacity, MaxChanges,
  Name, Jar, Fetch, Renaming, Handle, Batch, MaxOps,
  Disk, Adding, Visitor, MaxFiles, MaxTurns,
  List, Player, Call, Unread, MaxCalls, MaxPlays,
  Section, Field, Worth, Sectionless, MaxLines, MaxEdits,
  MaxPattern, Longest, Unset,
  Tick, Metered, Window, MinSamples, Unknown, MaxMoves, MaxDeaths,
  Admin, Updater, ByHand, MaxCommits, MaxFaults

VARIABLES
  scene,
  registered, token, shown, claim, issued, install, file, agent,
  there, active, default, sound, refers, orphan, clerk, changes,
  dir, part, fetch, move, handle, ops,
  used, sample, measure, up, adding, visitor, turns,
  status, playing, memory, disk, call, stdin, told, rested, page, plays, calls,
  parser, wanted, lines, tree, boot, holds, edits,
  egg, template, warnings, stored,
  serving, load, walked, minute, rows, warned, heard, tick, moved, faulty,
  branch, origin, checkout, lost, image, built, latest, admin, asked, job, service, run, faults

N == INSTANCE NodeCredentials
C == INSTANCE Catalogue
F == INSTANCE Files
D == INSTANCE DiskBudget
P == INSTANCE Players WITH up <- playing, turns <- plays, MaxTurns <- MaxPlays
G == INSTANCE ConfigFiles WITH file <- lines
E == INSTANCE Egg
W == INSTANCE Ceilings WITH told <- heard, MaxFaults <- MaxDeaths
U == INSTANCE Updates

ASSUME PanelAssumption ==
  /\ N!CredentialsAssumption /\ C!CatalogueAssumption /\ F!FilesAssumption
  /\ D!DiskAssumption /\ P!PlayersAssumption /\ G!ConfigFilesAssumption
  /\ E!EggAssumption /\ W!CeilingsAssumption /\ U!UpdatesAssumption

aVars == <<holder, primary, life, req>>
nVars == <<registered, token, shown, claim, issued, install, file, agent>>
cVars == <<there, active, default, sound, refers, orphan, clerk, changes>>
fVars == <<dir, part, fetch, move, handle, ops>>
dVars == <<used, sample, measure, up, adding, visitor, turns>>
pVars == <<status, playing, memory, disk, call, stdin, told, rested, page, plays, calls>>
gVars == <<parser, wanted, lines, tree, boot, holds, edits>>
eVars == <<egg, template, warnings, stored>>
wVars == <<serving, load, walked, minute, rows, warned, heard, tick, moved, faulty>>
uVars == <<branch, origin, checkout, lost, image, built, latest, admin, asked, job, service, run, faults>>
all   == <<scene, aVars, nVars, cVars, fVars, dVars, pVars, gVars, eVars, wVars, uVars>>

-----------------------------------------------------------------------------
Scenes == {"ports", "credentials", "catalogue", "files", "disk", "players", "config", "egg", "ceilings", "updates"}

\* Parts with more than one initial state have but one of them where they stand still.
PanelInit ==
  /\ scene \in Scenes
  /\ Init /\ N!Init /\ C!Init /\ F!Init /\ D!Init /\ P!Init /\ G!Init /\ E!Init /\ W!Init /\ U!Init
  /\ scene # "ports" => holder = [p \in Ports |-> Nobody]
  /\ scene # "files" => \A n \in Name : dir[n] = "none"
  /\ scene # "players" => \A l \in List : disk[l] = {}
  /\ scene # "config" => /\ parser = "json" /\ tree = G!Nothing
                         /\ wanted = CHOOSE w \in G!Trees : TRUE

PanelNext ==
  /\ UNCHANGED scene
  /\ \/ scene = "ports" /\ Next
        /\ UNCHANGED <<nVars, cVars, fVars, dVars, pVars, gVars, eVars, wVars, uVars>>
     \/ scene = "credentials" /\ N!Next
        /\ UNCHANGED <<aVars, cVars, fVars, dVars, pVars, gVars, eVars, wVars, uVars>>
     \/ scene = "catalogue" /\ C!Next
        /\ UNCHANGED <<aVars, nVars, fVars, dVars, pVars, gVars, eVars, wVars, uVars>>
     \/ scene = "files" /\ F!Next
        /\ UNCHANGED <<aVars, nVars, cVars, dVars, pVars, gVars, eVars, wVars, uVars>>
     \/ scene = "disk" /\ D!Next
        /\ UNCHANGED <<aVars, nVars, cVars, fVars, pVars, gVars, eVars, wVars, uVars>>
     \/ scene = "players" /\ P!Next
        /\ UNCHANGED <<aVars, nVars, cVars, fVars, dVars, gVars, eVars, wVars, uVars>>
     \/ scene = "config" /\ G!Next
        /\ UNCHANGED <<aVars, nVars, cVars, fVars, dVars, pVars, eVars, wVars, uVars>>
     \/ scene = "egg" /\ E!Next
        /\ UNCHANGED <<aVars, nVars, cVars, fVars, dVars, pVars, gVars, wVars, uVars>>
     \/ scene = "ceilings" /\ W!Next
        /\ UNCHANGED <<aVars, nVars, cVars, fVars, dVars, pVars, gVars, eVars, uVars>>
     \/ scene = "updates" /\ U!Next
        /\ UNCHANGED <<aVars, nVars, cVars, fVars, dVars, pVars, gVars, eVars, wVars>>

PanelSpec == PanelInit /\ [][PanelNext]_all

-----------------------------------------------------------------------------
\* The state of every part is of its type; a listing read to its end has every file
\* that stayed (Files).
ReadWhole ==
  /\ TypeOK /\ N!TypeOK /\ C!TypeOK /\ F!TypeOK
  /\ D!TypeOK /\ P!TypeOK /\ G!TypeOK /\ E!TypeOK /\ W!TypeOK /\ U!TypeOK
  /\ F!ListedWhole

\* A request adds what was left when it began (DiskBudget), a link gives its token once
\* (NodeCredentials), and an owner is told of a limit once in six hours (Ceilings).
NoMoreThanGranted == D!WithinBudget /\ N!ClaimOnce /\ W!OncePerCooldown

\* An update drops no work of the host's (Updates), what people were told of a game's
\* lists outlives the game (Players), and a game's own configuration keeps what the
\* panel was not asked for (ConfigFiles).
NothingLost == U!NothingLost /\ P!Outlives /\ G!OnlyVisiting

\* An imported egg, as the panel's validator reads it: no rule is torn, and what the egg
\* refuses is refused (Egg).
TextsKept == E!NoTornRule /\ E!StillRefused

\* A token a node uses is revoked by whoever means to (NodeCredentials), and no deletion
\* takes away what a customer's things refer to (Catalogue).
InServiceStays == N!InServiceStays
Findable       == C!Findable
===============================================================================
