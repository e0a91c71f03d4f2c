--------------------------------- MODULE LivePage ---------------------------------
(***************************************************************************)
(* A browser that stays open: the account's socket, which brings every status and        *)
(* notification while it is up; the queries, which ask; and what the person sees of a     *)
(* server, its power buttons, and of the account's notifications. What the panel does    *)
(* with a press is in ServerLifecycle, what it sends whom in Access.                   *)
(***************************************************************************)
EXTENDS Naturals, Sequences, SequencesExt

CONSTANTS
  Note,      \* notifications
  Untold,    \* nothing was said of it
  MaxMoves,  \* changes of status and presses: a bound
  MaxDrops   \* of the socket: a bound

LivePageAssumption == {MaxMoves, MaxDrops} \subseteq Nat

VARIABLES
  real, notes, \* the server's row; the notifications', unread, read or gone
  wire,        \* events on their way to the browser, which the end of the socket loses
  socket,      \* connected or waiting to be again
  live,        \* what the socket last said of the server, as long as the tab is open
  fetched,     \* the row the page was given, and a fetch of it
  drawn,       \* what was last drawn as reported
  guess,       \* what a press of a button is hoped to come to
  press,       \* a power request: asked, done, to be answered
  inbox, query, badge, \* the notifications as fetched, the fetch of them, whether any is counted
  moves, drops

server == <<real, live, fetched, drawn, guess, press>>
notices == <<notes, inbox, query, badge>>
vars   == <<server, notices, wire, socket, moves, drops>>

-----------------------------------------------------------------------------
Status  == {"OFFLINE", "STARTING", "ONLINE", "STOPPING", "INSTALLING"}
Running == {"STARTING", "ONLINE", "STOPPING"}
Action  == {"start", "restart", "stop", "kill"}
HopedOf == [start |-> "STARTING", restart |-> "STARTING", stop |-> "STOPPING", kill |-> "OFFLINE"]
Notes   == [Note -> {"none", "unread", "read", "gone"}]
Events  == Status \cup Note

NoQuery == [at |-> "idle", copy |-> [n \in Note |-> "none"]]
Unread(ns) == \E n \in Note : ns[n] = "unread"

TypeOK ==
  /\ real \in Status /\ notes \in Notes /\ wire \in Seq(Events) /\ socket \in {"up", "down"}
  /\ live \in Status \cup {Untold}
  /\ fetched \in [row : Status, at : {"idle", "asked"}]
  /\ drawn \in Status /\ guess \in Status \cup {Untold}
  /\ press \in [at : {"idle", "asked", "answered"}, action : Action]
  /\ inbox \in Notes /\ query \in [at : {"idle", "asked", "read"}, copy : Notes] /\ badge \in BOOLEAN
  /\ moves \in 0 .. MaxMoves /\ drops \in 0 .. MaxDrops

Init ==
  /\ real \in {"OFFLINE", "ONLINE"} /\ notes = NoQuery.copy /\ wire = <<>> /\ socket = "up"
  /\ live = Untold /\ fetched = [row |-> real, at |-> "idle"] /\ drawn = real /\ guess = Untold
  /\ press = [at |-> "idle", action |-> "start"]
  /\ inbox = notes /\ query = NoQuery /\ badge = FALSE
  /\ moves = 0 /\ drops = 0

Move == moves < MaxMoves /\ moves' = moves + 1
\* An event finds the socket or nobody.
Send(event) == wire' = IF socket = "up" THEN Append(wire, event) ELSE wire
Invalidate  == query' = [NoQuery EXCEPT !.at = "asked"]

-----------------------------------------------------------------------------
(***************************************************************************)
(* The panel: a status changes, somebody is notified, and says so.                  *)
(***************************************************************************)
UpdateStatus ==
  /\ Move /\ \E s \in Status \ {real} : real' = s /\ Send(s)
  /\ UNCHANGED <<live, fetched, drawn, guess, press, notices, socket, drops>>

Push ==
  /\ \E n \in Note : notes[n] = "none" /\ notes' = [notes EXCEPT ![n] = "unread"] /\ Send(n)
  /\ UNCHANGED <<server, inbox, query, badge, socket, moves, drops>>

-----------------------------------------------------------------------------
(***************************************************************************)
(* The socket. What it missed it is not told when it is up again.                    *)
(***************************************************************************)
Drop ==
  /\ socket = "up" /\ drops < MaxDrops /\ drops' = drops + 1
  /\ socket' = "down" /\ wire' = <<>>
  /\ UNCHANGED <<server, notices, moves>>

Connect ==
  /\ socket = "down" /\ socket' = "up"
  /\ UNCHANGED <<server, notices, wire, moves, drops>>

\* Each event is relayed once it is known again what the account may see, so one may
\* overtake another.
OnMessage ==
  /\ \E i \in DOMAIN wire :
       /\ wire' = RemoveAt(wire, i)
       /\ IF wire[i] \in Status
          THEN live' = wire[i] /\ UNCHANGED <<query, badge>>
          ELSE badge' = TRUE /\ Invalidate /\ UNCHANGED live
  /\ UNCHANGED <<real, fetched, drawn, guess, press, notes, inbox, socket, moves, drops>>

-----------------------------------------------------------------------------
(***************************************************************************)
(* The server's page. What the socket said goes before the row that was fetched, and a   *)
(* guess before both.                                                         *)
(***************************************************************************)
Reported == IF live # Untold THEN live ELSE fetched.row
Shown    == IF guess # Untold THEN guess ELSE Reported

Fetch ==
  /\ fetched.at = "idle" /\ real # fetched.row /\ fetched' = [fetched EXCEPT !.at = "asked"]
  /\ UNCHANGED <<real, live, drawn, guess, press, notices, wire, socket, moves, drops>>

Fetched ==
  /\ fetched.at = "asked" /\ fetched' = [row |-> real, at |-> "idle"]
  /\ UNCHANGED <<real, live, drawn, guess, press, notices, wire, socket, moves, drops>>

\* "Anything real supersedes the guess."
Draw ==
  /\ drawn # Reported /\ drawn' = Reported /\ guess' = Untold
  /\ UNCHANGED <<real, live, fetched, press, notices, wire, socket, moves, drops>>

\* A button is lit by what is shown, and the answer comes when all is done: after the
\* events of what it did, perhaps.
Lit(a) ==
  CASE a = "start" -> Shown = "OFFLINE" [] a = "restart" -> Shown # "INSTALLING" [] OTHER -> Shown \in Running

Press ==
  /\ press.at = "idle" /\ Move
  /\ \E a \in Action : Lit(a) /\ press' = [at |-> "asked", action |-> a]
  /\ UNCHANGED <<real, live, fetched, drawn, guess, notices, wire, socket, drops>>

Power ==
  /\ press.at = "asked"
  /\ \/ /\ real # "INSTALLING" /\ real' = HopedOf[press.action] /\ Send(real')
        /\ press' = [press EXCEPT !.at = "answered"]
     \/ press' = [press EXCEPT !.at = "idle"] /\ UNCHANGED <<real, wire>>
  /\ UNCHANGED <<live, fetched, drawn, guess, notices, socket, moves, drops>>

SetLiveStatus ==
  /\ press.at = "answered" /\ press' = [press EXCEPT !.at = "idle"]
  /\ guess' = HopedOf[press.action]
  /\ UNCHANGED <<real, live, fetched, drawn, notices, wire, socket, moves, drops>>

-----------------------------------------------------------------------------
(***************************************************************************)
(* Notifications: fetched now and then, and when something was said to have changed.     *)
(* A copy like the last one is no news and leaves the number as it is.                 *)
(***************************************************************************)
\* Mutant: the socket will say when there is something new.
Due_Socket == FALSE
\* refetchInterval.
Due == TRUE

Refetch ==
  /\ Due /\ query.at = "idle" /\ inbox # notes /\ Invalidate
  /\ UNCHANGED <<server, notes, inbox, badge, wire, socket, moves, drops>>

Read ==
  /\ query.at = "asked" /\ query' = [at |-> "read", copy |-> notes]
  /\ UNCHANGED <<server, notes, inbox, badge, wire, socket, moves, drops>>

Arrives ==
  /\ query.at = "read" /\ query' = NoQuery
  /\ IF query.copy = inbox THEN UNCHANGED <<inbox, badge>>
     ELSE inbox' = query.copy /\ badge' = Unread(query.copy)
  /\ UNCHANGED <<server, notes, wire, socket, moves, drops>>

\* Here or in another tab; the bell counts none at once.
MarkRead(ns) == [n \in Note |-> IF n \in ns /\ notes[n] = "unread" THEN "read" ELSE notes[n]]

MarkAllRead ==
  /\ Unread(notes) /\ notes' = MarkRead(Note)
  /\ \/ badge' = FALSE /\ Invalidate
     \/ UNCHANGED <<query, badge>>
  /\ UNCHANGED <<server, inbox, wire, socket, moves, drops>>

MarkOrRemove ==
  /\ \E n \in Note :
       /\ inbox[n] \in {"unread", "read"} /\ notes[n] # "gone"
       /\ notes' \in {MarkRead({n}), [notes EXCEPT ![n] = "gone"]} /\ notes' # notes
  /\ Invalidate
  /\ UNCHANGED <<server, inbox, badge, wire, socket, moves, drops>>

-----------------------------------------------------------------------------
Next ==
  \/ UpdateStatus \/ Push \/ Drop \/ Connect \/ OnMessage
  \/ Fetch \/ Fetched \/ Draw \/ Press \/ Power \/ SetLiveStatus
  \/ Refetch \/ Read \/ Arrives \/ MarkAllRead \/ MarkOrRemove

\* Events that were not lost arrive, and queries are asked and answered.
Fairness == WF_vars(OnMessage) /\ WF_vars(Refetch) /\ WF_vars(Read \/ Arrives)

Spec == Init /\ [][Next]_vars /\ Fairness

-----------------------------------------------------------------------------
\* What the bell and the page list is in the end what there is, also when the socket was
\* down while it came, and when it was read in another tab.
InboxFollows == <>[](inbox = notes)
===============================================================================
