--------------------------------- MODULE Players ---------------------------------
(***************************************************************************)
(* Operators, the whitelist and bans of a Minecraft server. The game has these lists  *)
(* in memory while it is up and writes its files itself, so the panel asks it on its   *)
(* console, and only reads the files. What is in a list is a name, an address, or     *)
(* that the whitelist is on.                                                  *)
(***************************************************************************)
EXTENDS FiniteSets, Naturals

CONSTANTS
  List, Player,
  Call,               \* requests on their way at once
  Unread,             \* a list the page has no answer for
  MaxCalls, MaxTurns  \* changes asked for; boots, saves, deaths, reports, edits: bounds

PlayersAssumption == {MaxCalls, MaxTurns} \subseteq Nat /\ List # {} /\ Player # {}

VARIABLES
  status, \* of the server's row, which lags behind
  up,     \* whether the game is
  memory, \* its lists
  disk,   \* its files
  call,   \* per slot: a change
  stdin,  \* changes on their way into the game
  told,   \* per entry: what somebody was told of it last
  rested, \* whether the game went down in order and nobody touched the files since
  page,   \* the answer the page is being given
  turns, calls

vars == <<status, up, memory, disk, call, stdin, told, rested, page, turns, calls>>

Lists  == [List -> SUBSET Player]
Change == [list : List, name : Player, add : BOOLEAN]
Idle   == [at |-> "idle", change |-> CHOOSE c \in Change : TRUE]
Blank  == [l \in List |-> Unread]

TypeOK ==
  /\ status \in {"ONLINE", "STARTING", "OFFLINE"} /\ up \in BOOLEAN
  /\ memory \in Lists /\ disk \in Lists
  /\ call \in [Call -> [at : {"idle", "send", "attached"}, change : Change]]
  /\ stdin \subseteq Change
  /\ told \in [List \X Player -> {"nothing", "open", "in", "out"}]
  /\ rested \in BOOLEAN
  /\ page \in [List -> (SUBSET Player) \cup {Unread}]
  /\ turns \in 0 .. MaxTurns /\ calls \in 0 .. MaxCalls

Init ==
  /\ status = "OFFLINE" /\ up = FALSE /\ disk \in Lists /\ memory = disk
  /\ call = [c \in Call |-> Idle] /\ stdin = {}
  /\ told = [k \in List \X Player |-> "nothing"] /\ rested = TRUE
  /\ page = Blank /\ turns = 0 /\ calls = 0

Turn == turns < MaxTurns /\ turns' = turns + 1
Key(c) == <<c.list, c.name>>
With(lists, c) == [lists EXCEPT ![c.list] = IF c.add THEN @ \cup {c.name} ELSE @ \ {c.name}]
UnderWay(c, but) == c \in {Key(x) : x \in stdin} \cup {Key(call[k].change) : k \in {j \in Call \ {but} : call[j].at # "idle"}}

-----------------------------------------------------------------------------
(***************************************************************************)
(* The game.                                                              *)
(***************************************************************************)
Boot ==
  /\ ~up /\ Turn /\ up' = TRUE /\ memory' = disk
  /\ told' = [k \in DOMAIN told |-> "nothing"]
  /\ UNCHANGED <<status, disk, call, stdin, rested, page, calls>>

Handles ==
  /\ up /\ \E c \in stdin : stdin' = stdin \ {c} /\ memory' = With(memory, c)
  /\ UNCHANGED <<status, up, disk, call, told, rested, page, turns, calls>>

Saves ==
  /\ up /\ Turn /\ disk' = memory
  /\ UNCHANGED <<status, up, memory, call, stdin, told, rested, page, calls>>

\* In order, with a last save, or not. What it has not read by then is lost.
GoesDown(inorder) ==
  /\ up /\ Turn /\ up' = FALSE
  /\ disk' = IF inorder THEN memory ELSE disk
  /\ rested' = inorder /\ stdin' = {}
  /\ told' = [k \in DOMAIN told |-> IF k \in {Key(c) : c \in stdin} THEN "open" ELSE told[k]]
  /\ UNCHANGED <<status, memory, call, page, calls>>

Reports ==
  /\ Turn /\ status' \in IF up THEN {"STARTING", "ONLINE"} ELSE {"OFFLINE"}
  /\ UNCHANGED <<up, memory, disk, call, stdin, told, rested, page, calls>>

\* The file manager stays open.
Underneath ==
  /\ Turn /\ disk' \in Lists /\ rested' = (rested /\ up)
  /\ UNCHANGED <<status, up, memory, call, stdin, told, page, calls>>

-----------------------------------------------------------------------------
(***************************************************************************)
(* A change: the row says the game is up, the node sees its container running, and the *)
(* line is written to its console.                                            *)
(***************************************************************************)
Run(k) ==
  /\ call[k].at = "idle" /\ calls < MaxCalls /\ calls' = calls + 1
  /\ status \in {"ONLINE", "STARTING"}
  /\ \E c \in Change :
       /\ call' = [call EXCEPT ![k] = [at |-> "send", change |-> c]]
       /\ told' = [told EXCEPT ![Key(c)] = "open"]
  /\ UNCHANGED <<status, up, memory, disk, stdin, rested, page, turns>>

SendCommand(k) ==
  /\ call[k].at = "send"
  /\ call' = [call EXCEPT ![k].at = IF up THEN "attached" ELSE "idle"]
  /\ UNCHANGED <<status, up, memory, disk, stdin, told, rested, page, turns, calls>>

\* A console command, as a player would type it.
Make(c) == stdin' = (IF up THEN stdin \cup {c} ELSE stdin) /\ UNCHANGED disk

Told(k) == LET c == call[k].change IN
  IF ~up \/ UnderWay(Key(c), k) THEN "open" ELSE IF c.add THEN "in" ELSE "out"

\* The answer says that it is done, and the page asks for the lists anew.
Written(k) ==
  /\ call[k].at = "attached" /\ Make(call[k].change)
  /\ call' = [call EXCEPT ![k] = Idle]
  /\ told' = [told EXCEPT ![Key(call[k].change)] = Told(k)]
  /\ page' = Blank
  /\ UNCHANGED <<status, up, memory, rested, turns, calls>>

-----------------------------------------------------------------------------
(***************************************************************************)
(* The page, which asks again and again. The node answers with the file; the panel's    *)
(* client makes what is JSON of it already, or gives up on what is not; and the route   *)
(* looks for the contents inside of that.                                     *)
(***************************************************************************)
ReadJson(l) ==
  /\ page[l] = Unread /\ page' = [page EXCEPT ![l] = {}]
  /\ UNCHANGED <<status, up, memory, disk, call, stdin, told, rested, turns, calls>>

Refetch ==
  /\ page # Blank /\ page' = Blank
  /\ UNCHANGED <<status, up, memory, disk, call, stdin, told, rested, turns, calls>>

Next ==
  \/ Boot \/ Handles \/ Saves \/ GoesDown(TRUE) \/ GoesDown(FALSE) \/ Reports \/ Underneath
  \/ \E k \in Call : Run(k) \/ SendCommand(k) \/ Written(k)
  \/ (\E l \in List : ReadJson(l)) \/ Refetch

Spec == Init /\ [][Next]_vars

-----------------------------------------------------------------------------
\* "Editing one underneath is either ignored or silently undone at shutdown ... Every
\* change is therefore the console command the game already understands"
\* (players.routes.ts): once the game has gone down in order its files say what people
\* were told, whoever edited them while it ran - unless the game went down before it had
\* read the line, or two changes of one entry crossed.
Outlives ==
  ~up /\ rested => \A k \in List \X Player :
    (told[k] = "in" => k[2] \in disk[k[1]]) /\ (told[k] = "out" => k[2] \notin disk[k[1]])

===============================================================================
