------------------------------- MODULE MCBrowser -------------------------------
(***************************************************************************)
(* What people have open in a browser, on small instances: who may watch what      *)
(* (Access), the settings and the notifications (Settings, LivePage), the pages that    *)
(* make a server, show its files, an account's security and the nodes (NewServer,      *)
(* FilesPage, SecurityPage, NodesPage). A scene is one of them, or one of the parts      *)
(* of a page that do not meet, with some of its initial states; the rest stand still.   *)
(***************************************************************************)
EXTENDS Naturals, FiniteSets

CONSTANTS
  User, Holder, NoUser, Edit, Relay, MaxEdits, MaxSent,
  Replica, Tab, Clerk, MaxWrites,
  Note, Untold, MaxMoves, MaxDrops,
  Template, Node, Variable, Nowhere, MaxTyped, MaxMade,
  Folder, Root, Name, BatchSize, MaxClicks,
  Permission, Asking, NoAsk, Device, MaxSecrets, MaxTurns,
  Slot, Address, Host, NoAlias, Newest, MaxActs

VARIABLES
  scene,
  row, login, key, share, edit, edits, console, typed, queue, sent, held, feed, relay,
  saved, cached, reads, shown, panelForm, writes,
  real, notes, wire, socket, live, fetched, drawn, guess, press, inbox, query, badge, moves, drops,
  step, picked, form, data, free, push, made, done,
  path, search, selected, dialog, requests, batch, reading, editor, clicks,
  may, offered, keyDialog, asks, issued, keys, factor, enrol, seen, signed, password, turns,
  nodes, cards, create, post, config, minted, fetching, text, ports, alloc, line, patch, acts

X == INSTANCE Access
P == INSTANCE Settings WITH row <- saved, query <- reads, form <- panelForm
L == INSTANCE LivePage
N == INSTANCE NewServer WITH typed <- done
F == INSTANCE FilesPage WITH sent <- requests
S == INSTANCE SecurityPage WITH held <- may, dialog <- keyDialog, key <- asks
D == INSTANCE NodesPage WITH NoNode <- Nowhere

ASSUME BrowserAssumption ==
  /\ X!AccessAssumption /\ P!SettingsAssumption /\ L!LivePageAssumption
  /\ N!NewServerAssumption /\ F!FilesPageAssumption /\ S!SecurityPageAssumption /\ D!NodesPageAssumption

xVars == <<row, login, key, share, edit, edits, console, typed, queue, sent, held, feed, relay>>
pVars == <<saved, cached, reads, shown, panelForm, writes>>
lVars == <<real, notes, wire, socket, live, fetched, drawn, guess, press, inbox, query, badge, moves, drops>>
nVars == <<step, picked, form, data, free, push, made, done>>
fVars == <<path, search, selected, dialog, requests, batch, reading, editor, clicks>>
sVars == <<may, offered, keyDialog, asks, issued, keys, factor, enrol, seen, signed, password, turns>>
dVars == <<nodes, cards, create, post, config, minted, fetching, text, ports, alloc, line, patch, acts>>
all   == <<scene, xVars, pVars, lVars, nVars, fVars, sVars, dVars>>

-----------------------------------------------------------------------------
Scenes == {"access", "settings", "live", "new", "files", "keys", "factor", "sessions", "nodes", "ports"}

Customers == {u \in User : row[u].there /\ row[u].role = "CUSTOMER"}
One(some) == Cardinality(some) = 1

\* Somebody watches, or follows, while a single edit comes; two owners delete.
Watching  == One(Customers) /\ One(X!Owners) /\ edits + 1 = MaxEdits /\ feed.at = "closed" /\ console.at = "shut"
Following == One(Customers) /\ One(X!Owners) /\ edits + 1 = MaxEdits /\ feed.at = "shut" /\ console.at = "closed"
Deleting  == Customers = {} /\ ~One(X!Owners) /\ edits = 0 /\ feed.at = "closed" /\ console.at = "closed"

\* Where nothing happens one initial state is enough.
Still ==
  /\ IF scene = "access" THEN Watching \/ Following \/ Deleting
     ELSE Customers = {} /\ One(X!Owners) /\ edits = MaxEdits /\ feed.at = "closed" /\ console.at = "closed"
  /\ \A t \in Tab : shown[t].on = CHOOSE r \in Replica : TRUE
  /\ scene # "live" => real = "OFFLINE"
  /\ scene # "new" => free.real = {}
  /\ scene = "ports" => Cardinality(nodes) = 1
  /\ scene # "ports" => \A r \in Slot : alloc[r] = D!Gone \/ (scene = "nodes" /\ One({q \in Slot : alloc[q] # D!Gone}))
  /\ scene \notin {"ports", "nodes"} => nodes = {}

Init ==
  /\ scene \in Scenes
  /\ X!Init /\ P!Init /\ L!Init /\ N!Init /\ F!Init /\ S!Init /\ D!Init
  /\ Still

Next ==
  /\ UNCHANGED scene
  /\ \/ scene = "access"   /\ X!Next /\ UNCHANGED <<pVars, lVars, nVars, fVars, sVars, dVars>>
     \/ scene = "settings" /\ P!Next /\ UNCHANGED <<xVars, lVars, nVars, fVars, sVars, dVars>>
     \/ scene = "live"     /\ L!Next /\ UNCHANGED <<xVars, pVars, nVars, fVars, sVars, dVars>>
     \/ scene = "new"      /\ N!Next /\ UNCHANGED <<xVars, pVars, lVars, fVars, sVars, dVars>>
     \/ scene = "files"    /\ F!Next /\ UNCHANGED <<xVars, pVars, lVars, nVars, sVars, dVars>>
     \/ scene = "keys"     /\ S!KeySteps /\ UNCHANGED <<xVars, pVars, lVars, nVars, fVars, dVars>>
     \/ scene = "factor"   /\ S!FactorSteps /\ UNCHANGED <<xVars, pVars, lVars, nVars, fVars, dVars>>
     \/ scene = "sessions" /\ S!SessionSteps /\ UNCHANGED <<xVars, pVars, lVars, nVars, fVars, dVars>>
     \/ scene = "nodes"    /\ D!NodeSteps /\ UNCHANGED <<xVars, pVars, lVars, nVars, fVars, sVars>>
     \/ scene = "ports"    /\ D!PortSteps /\ UNCHANGED <<xVars, pVars, lVars, nVars, fVars, sVars>>

\* That of Settings, as far as its scene is the one: a browser always asks again.
SettingsFairness ==
  /\ \A r \in Replica :
       /\ WF_pVars(scene = "settings" /\ P!Expires(r))
       /\ WF_pVars(scene = "settings" /\ (P!ReadSettings(r) \/ P!Read(r)))
  /\ \A t \in Tab :
       /\ WF_pVars(scene = "settings" /\ P!Arrive(t))
       /\ WF_pVars(scene = "settings" /\ \E r \in Replica : P!Ask(t, r))

\* Nothing fair can happen in the initial states of the others that stand still.
Spec == Init /\ [][Next]_all /\ X!Fairness /\ L!Fairness /\ SettingsFairness

-----------------------------------------------------------------------------
\* The state of every part is of its type; and what a page sends is of what it showed:
\* the variables are those of the game picked (NewServer), the files of one batch go
\* to one folder (FilesPage), a key does no more than was picked (SecurityPage), and a
\* port is bound to an address of its own, whatever was typed (NodesPage).
PagesSendWhatTheyShow ==
  /\ scene = "access" => X!TypeOK
  /\ scene = "settings" => P!TypeOK
  /\ scene = "live" => L!TypeOK
  /\ scene = "new" => N!TypeOK /\ N!OwnVariables
  /\ scene = "files" => F!TypeOK /\ F!BatchTogether
  /\ scene \in {"keys", "factor", "sessions"} => S!TypeOK /\ S!KeyAsPicked
  /\ scene \in {"nodes", "ports"} => D!TypeOK /\ D!BoundByAddress

\* What reaches the node through a console, stated in Access.
ConsoleObeys == X!ConsoleObeys

\* What an open page or socket shows follows what is there: a console that may not be
\* watched any more closes and a feed ends (Access), the settings are noticed
\* (Settings) and the notifications arrive (LivePage).
BrowsersFollow == X!WithdrawnIsClosed /\ X!FeedEnds /\ P!Noticed /\ L!InboxFollows
===============================================================================
