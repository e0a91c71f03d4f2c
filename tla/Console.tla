-------------------------------- MODULE Console --------------------------------
(***************************************************************************)
(* One server's console, from the container to a browser: the node keeps one   *)
(* attachment to the container and hands its lines to every socket the panel    *)
(* opened; the panel opens one for every socket of a browser; the browser's tab *)
(* opens a new one when its own is lost.                                     *)
(***************************************************************************)
EXTENDS Naturals

CONSTANTS
  Opening, NoOpening,  \* attachments the node opens, over time
  Socket, NoSocket,    \* sockets browser to panel, over time
  MaxUpstreamAttempts, \* MAX_UPSTREAM_ATTEMPTS
  MaxFaults            \* streams, links, sockets and agents lost: a bound

ConsoleAssumption ==
  NoOpening \notin Opening /\ NoSocket \notin Socket /\ MaxUpstreamAttempts \in Nat /\ MaxFaults \in Nat

VARIABLES
  agentUp,    \* the agent runs
  running,    \* the container runs
  attachment, \* the node's entry for the server, or NoOpening
  attaching,  \* the one being opened, or NoOpening
  opening,    \* per attachment: how far it is
  stream,     \* attachments whose stream publishes
  tab,        \* the browser's page: its socket, and whether a timer waits to connect
  socket,     \* per socket: the panel's end
  faults

vars == <<agentUp, running, attachment, attaching, opening, stream, tab, socket, faults>>
node == <<attachment, attaching, opening, stream>>

\* close: the browser's end has gone while nobody listened. upstream: the panel's socket to
\* the node. retry: a timer waits to open it again. told: the browser is told to reload.
Free == [at |-> "free", upstream |-> "none", attempts |-> 0, retry |-> FALSE, told |-> FALSE]

TypeOK ==
  /\ agentUp \in BOOLEAN /\ running \in BOOLEAN
  /\ attachment \in Opening \cup {NoOpening} /\ attaching \in Opening \cup {NoOpening}
  /\ opening \in [Opening -> {"none", "inspect", "attach", "stats", "logs", "done"}]
  /\ stream \subseteq Opening
  /\ tab \in [open : BOOLEAN, socket : Socket \cup {NoSocket}, timer : BOOLEAN]
  /\ socket \in [Socket -> [at : {"free", "setup", "open", "orphan"},
                            upstream : {"none", "dialling", "open"},
                            attempts : 0 .. MaxUpstreamAttempts + 1, retry : BOOLEAN, told : BOOLEAN]]
  /\ faults \in 0 .. MaxFaults

Init ==
  /\ agentUp = FALSE /\ running = FALSE
  /\ attachment = NoOpening /\ attaching = NoOpening /\ opening = [o \in Opening |-> "none"]
  /\ stream = {}
  /\ tab = [open |-> FALSE, socket |-> NoSocket, timer |-> FALSE]
  /\ socket = [k \in Socket |-> Free]
  /\ faults = 0

Fault == faults < MaxFaults /\ faults' = faults + 1

-----------------------------------------------------------------------------
(***************************************************************************)
(* ConsoleService.attach: for a socket that opens, half a second after a start, *)
(* with each heartbeat for a server that is ONLINE.                          *)
(***************************************************************************)
Unused(o) == opening[o] = "none" /\ o \notin stream

Shared_Unshared == attachment = NoOpening
Shared == attachment = NoOpening /\ attaching = NoOpening

Attach ==
  /\ agentUp /\ Shared
  /\ \E o \in Opening :
       /\ Unused(o)
       /\ attaching' = o /\ opening' = [opening EXCEPT ![o] = "inspect"]
  /\ UNCHANGED <<agentUp, running, attachment, stream, tab, socket, faults>>

\* The attempt is over, however it went.
Over(o) ==
  /\ opening' = [opening EXCEPT ![o] = "none"]
  /\ attaching' = IF attaching = o THEN NoOpening ELSE attaching

Inspect(o) ==
  /\ opening[o] = "inspect"
  /\ IF running THEN opening' = [opening EXCEPT ![o] = "attach"] /\ UNCHANGED attaching ELSE Over(o)
  /\ UNCHANGED <<agentUp, running, attachment, stream, tab, socket, faults>>

\* The stream, unless the daemon refuses: the container may have ended.
OpenStream(o) ==
  /\ opening[o] = "attach"
  /\ IF running
     THEN /\ attachment' = o /\ stream' = stream \cup {o}
          /\ opening' = [opening EXCEPT ![o] = "stats"] /\ UNCHANGED attaching
     ELSE Over(o) /\ UNCHANGED <<attachment, stream>>
  /\ UNCHANGED <<agentUp, running, tab, socket, faults>>

\* The samples, then the lines so far. Neither has to succeed, and nothing looks whether
\* the attachment still stands: samples asked for after detach are stopped by nobody.
OpenStats(o) ==
  /\ opening[o] = "stats" /\ opening' = [opening EXCEPT ![o] = "logs"]
  /\ UNCHANGED <<agentUp, running, attachment, attaching, stream, tab, socket, faults>>

ReadLogs(o) ==
  /\ opening[o] = "logs" /\ Over(o)
  /\ UNCHANGED <<agentUp, running, attachment, stream, tab, socket, faults>>

Detach(o) == attachment' = NoOpening /\ stream' = stream \ {o}

ContainerStarts ==
  /\ ~running /\ running' = TRUE
  /\ UNCHANGED <<agentUp, node, tab, socket, faults>>

\* Its streams end, and each takes away the attachment.
ContainerEnds ==
  /\ running /\ running' = FALSE /\ Fault
  /\ IF attachment = NoOpening THEN UNCHANGED <<attachment, stream>> ELSE Detach(attachment)
  /\ UNCHANGED <<agentUp, attaching, opening, tab, socket>>

\* The stream breaks, the container lives.
StreamError ==
  /\ attachment # NoOpening /\ Fault /\ Detach(attachment)
  /\ UNCHANGED <<agentUp, running, attaching, opening, tab, socket>>

-----------------------------------------------------------------------------
(***************************************************************************)
(* The panel's end of a browser's socket. The close of the browser's end is    *)
(* listened for once the first connection to the node has been tried.        *)
(***************************************************************************)
InUse == {k \in Socket : socket[k].at # "free"}

\* scheduleReconnect, for a socket that lost its connection to the node.
ScheduleReconnect(s) ==
  IF s.retry THEN [s EXCEPT !.upstream = "none"]
  ELSE IF s.attempts >= MaxUpstreamAttempts
       THEN [s EXCEPT !.upstream = "none", !.attempts = MaxUpstreamAttempts + 1, !.told = TRUE]
  ELSE [s EXCEPT !.upstream = "none", !.attempts = @ + 1, !.retry = TRUE]

\* connectUpstream returns when the socket is made, before it is open.
ConnectUpstream(k) ==
  /\ socket[k].at = "setup"
  /\ socket' = [socket EXCEPT ![k] = [@ EXCEPT !.at = IF tab.socket = k THEN "open" ELSE "orphan", !.upstream = "dialling"]]
  /\ UNCHANGED <<agentUp, running, node, tab, faults>>

\* The node answers the handshake, or it closes.
Handshake(k) ==
  /\ socket[k].upstream = "dialling"
  /\ socket' = [socket EXCEPT ![k] = IF agentUp THEN [@ EXCEPT !.upstream = "open", !.attempts = 0] ELSE ScheduleReconnect(@)]
  /\ UNCHANGED <<agentUp, running, node, tab, faults>>

RetryFires(k) ==
  /\ socket[k].retry /\ socket[k].upstream = "none"
  /\ socket' = [socket EXCEPT ![k] = [@ EXCEPT !.retry = FALSE, !.upstream = "dialling"]]
  /\ UNCHANGED <<agentUp, running, node, tab, faults>>

UpstreamCloses(k) ==
  /\ socket[k].upstream = "open" /\ Fault
  /\ socket' = [socket EXCEPT ![k] = ScheduleReconnect(@)]
  /\ UNCHANGED <<agentUp, running, node, tab>>

-----------------------------------------------------------------------------
(***************************************************************************)
(* The page. A socket that goes without being closed by the page is replaced    *)
(* after a while; the agent's restart takes every attachment along.           *)
(***************************************************************************)
OpenPage ==
  /\ ~tab.open
  /\ tab' = [open |-> TRUE, socket |-> NoSocket, timer |-> TRUE]
  /\ UNCHANGED <<agentUp, running, node, socket, faults>>

Connect ==
  /\ tab.open /\ tab.timer
  /\ \E k \in Socket \ InUse :
       /\ tab' = [tab EXCEPT !.timer = FALSE, !.socket = k]
       /\ socket' = [socket EXCEPT ![k] = [Free EXCEPT !.at = "setup"]]
  /\ UNCHANGED <<agentUp, running, node, faults>>

\* What the panel has of a socket whose browser went: all of it, if it was not listening.
Closed(k) == IF socket[k].at = "setup" THEN socket ELSE [socket EXCEPT ![k] = Free]

ClosePage ==
  /\ tab.open /\ Fault
  /\ tab' = [open |-> FALSE, socket |-> NoSocket, timer |-> FALSE]
  /\ socket' = IF tab.socket = NoSocket THEN socket ELSE Closed(tab.socket)
  /\ UNCHANGED <<agentUp, running, node>>

SocketLost ==
  /\ tab.open /\ tab.socket # NoSocket /\ Fault
  /\ tab' = [tab EXCEPT !.timer = TRUE, !.socket = NoSocket]
  /\ socket' = Closed(tab.socket)
  /\ UNCHANGED <<agentUp, running, node>>

AgentStarts ==
  /\ ~agentUp /\ agentUp' = TRUE
  /\ UNCHANGED <<running, node, tab, socket, faults>>

AgentStops ==
  /\ agentUp /\ agentUp' = FALSE /\ Fault
  /\ attachment' = NoOpening /\ attaching' = NoOpening /\ opening' = [o \in Opening |-> "none"]
  /\ stream' = {}
  /\ socket' = [k \in Socket |-> IF socket[k].upstream = "open" THEN ScheduleReconnect(socket[k]) ELSE socket[k]]
  /\ UNCHANGED <<running, tab>>

Open(o) == Inspect(o) \/ OpenStream(o) \/ OpenStats(o) \/ ReadLogs(o)
Serve(k) == ConnectUpstream(k) \/ Handshake(k) \/ RetryFires(k)

Next ==
  \/ Attach \/ ContainerStarts \/ ContainerEnds \/ StreamError
  \/ \E o \in Opening : Open(o)
  \/ \E k \in Socket : Serve(k) \/ UpstreamCloses(k)
  \/ OpenPage \/ Connect \/ ClosePage \/ SocketLost \/ AgentStarts \/ AgentStops

\* The heartbeat asks for an attachment again and again, a timer fires, what was
\* begun goes on.
Fairness ==
  /\ WF_vars(Attach /\ running) /\ WF_vars(Connect)
  /\ \A o \in Opening : WF_vars(Open(o))
  /\ \A k \in Socket : WF_vars(Serve(k))

Spec == Init /\ [][Next]_vars /\ Fairness

-----------------------------------------------------------------------------
\* However the three that attach land together, and whatever breaks meanwhile, the
\* container's output is published by one stream: no line comes twice.
OneStream == \A a, b \in stream : a = b

\* A page that stays open on a server that stays up shows its console in the end,
\* or says that it must be reloaded, whatever was lost before.
Watching == \E k \in Socket : tab.socket = k /\ (socket[k].told \/ (socket[k].upstream = "open" /\ attachment \in stream))
ConsoleReturns == <>[](agentUp /\ running /\ tab.open) => <>[]Watching
===============================================================================
