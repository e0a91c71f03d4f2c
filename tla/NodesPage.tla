------------------------------- MODULE NodesPage -------------------------------
(***************************************************************************)
(* The nodes page of the administrators: the list, the dialog that registers a     *)
(* node, the one that shows a node its configuration, and the one of its ports, where  *)
(* every line can be corrected. Dialogs close while requests are on the way, their     *)
(* answers still act, and a line's fields keep what they held when the line appeared.   *)
(***************************************************************************)
EXTENDS Naturals

CONSTANTS
  Node, NoNode,
  Slot,           \* rows of ports; each is of the same port number, on some address
  Address, Host, \* what may be typed as one: an address, or a name that is looked up
  NoAlias,
  Newest,        \* tokens minted for one node: a bound
  MaxActs        \* what people do: a bound

NodesPageAssumption ==
  /\ NoNode \notin Node /\ NoAlias \notin Address \cup Host /\ Address # {}
  /\ Newest \in Nat \ {0} /\ MaxActs \in Nat

VARIABLES
  nodes,    \* the rows of nodes there are
  cards,    \* those the page lists
  create,   \* the dialog that registers: open, filled in, the node asked for
  post,     \* per node: how far its registration is
  config,   \* whose configuration is open, and for whom a command was made and asked
  minted,   \* per node: the token of its newest configuration
  fetching, \* the nodes whose configuration was asked for
  text,     \* per node: the token of the configuration the page has, or 0
  ports,    \* the node whose ports are open, and what the range is to be added to
  alloc,    \* per row: the node it is on, its address and alias, whether a server has it
  line,     \* per row: what the page shows of it, and the fields of its form
  patch,    \* per row: the correction sent
  acts

vars == <<nodes, cards, create, post, config, minted, fetching, text, ports, alloc, line, patch, acts>>

\* The address of a node's own is what a range is offered for.
Typed   == Address \cup Host
Aliases == Host \cup {NoAlias}
NodeIp   == CHOOSE a \in Address : TRUE
Gone    == [on |-> NoNode, ip |-> NodeIp, alias |-> NoAlias, server |-> FALSE]
Unseen  == [seen |-> FALSE, ip |-> NodeIp, alias |-> NoAlias, editing |-> FALSE, typed |-> NodeIp, name |-> NoAlias]
Unsent  == [sent |-> FALSE, ip |-> NodeIp, alias |-> NoAlias]
Shut    == [of |-> NoNode, command |-> NoNode, asked |-> NoNode]
Closed  == [open |-> FALSE, filled |-> FALSE]

TypeOK ==
  /\ nodes \subseteq Node /\ cards \subseteq Node
  /\ create \in [open : BOOLEAN, filled : BOOLEAN]
  /\ post \in [Node -> {"none", "sent", "made", "over"}]
  /\ config \in [of : Node \cup {NoNode}, command : Node \cup {NoNode}, asked : Node \cup {NoNode}]
  /\ minted \in [Node -> 0 .. Newest] /\ text \in [Node -> 0 .. Newest] /\ fetching \subseteq Node
  /\ ports \in [of : Node \cup {NoNode}, ip : Typed, adding : SUBSET (Node \X Typed)]
  /\ alloc \in [Slot -> [on : Node \cup {NoNode}, ip : Typed, alias : Aliases, server : BOOLEAN]]
  /\ line \in [Slot -> [seen : BOOLEAN, ip : Typed, alias : Aliases, editing : BOOLEAN, typed : Typed, name : Aliases]]
  /\ patch \in [Slot -> [sent : BOOLEAN, ip : Typed, alias : Aliases]]
  /\ acts \in 0 .. MaxActs

Taken(n, ip, but) == \E r \in Slot \ but : alloc[r].on = n /\ alloc[r].ip = ip
NoTwins           == \A r \in Slot : alloc[r].on # NoNode => ~Taken(alloc[r].on, alloc[r].ip, {r})

Init ==
  /\ nodes \in SUBSET Node /\ cards = nodes /\ create = Closed
  /\ post = [n \in Node |-> IF n \in nodes THEN "over" ELSE "none"]
  /\ config = Shut /\ minted = [n \in Node |-> IF n \in nodes THEN 1 ELSE 0] /\ fetching = {} /\ text = [n \in Node |-> 0]
  /\ ports = [of |-> NoNode, ip |-> NodeIp, adding |-> {}]
  /\ alloc \in [Slot -> {Gone} \cup [on : nodes, ip : Address, alias : {NoAlias}, server : {FALSE}]] /\ NoTwins
  /\ line = [r \in Slot |-> Unseen] /\ patch = [r \in Slot |-> Unsent]
  /\ acts = 0

nodeVars   == <<nodes, create, post>>
configVars == <<config, minted, fetching, text>>
portVars   == <<ports, alloc, line, patch>>

Act == acts < MaxActs /\ acts' = acts + 1

\* Everything of nodes is asked for again: also the configuration that is open, which
\* mints once more.
Invalidates == fetching' = IF config.of # NoNode THEN fetching \cup {config.of} ELSE fetching

-----------------------------------------------------------------------------
(***************************************************************************)
(* The list and the registration.                                           *)
(***************************************************************************)
NodesArrive ==
  /\ cards' = nodes /\ UNCHANGED <<nodeVars, configVars, portVars, acts>>

SetCreating ==
  /\ create' = [open |-> ~create.open, filled |-> FALSE]
  /\ UNCHANGED <<nodes, post, cards, configVars, portVars, acts>>

FillIn ==
  /\ create.open /\ ~create.filled /\ create' = [create EXCEPT !.filled = TRUE]
  /\ UNCHANGED <<nodes, post, cards, configVars, portVars, acts>>

\* The dialog's own request; opened again it has none.
Create(n) ==
  /\ create.open /\ create.filled /\ post[n] = "none" /\ Act
  /\ create' = [create EXCEPT !.filled = FALSE] /\ post' = [post EXCEPT ![n] = "sent"]
  /\ UNCHANGED <<nodes, cards, configVars, portVars>>

\* Refused for a name that is taken; a node is born with a token.
PostNodes(n) ==
  /\ post[n] = "sent"
  /\ \/ /\ nodes' = nodes \cup {n} /\ post' = [post EXCEPT ![n] = "made"]
        /\ minted' = [minted EXCEPT ![n] = 1]
     \/ post' = [post EXCEPT ![n] = "over"] /\ UNCHANGED <<nodes, minted>>
  /\ UNCHANGED <<create, cards, config, fetching, text, portVars, acts>>

\* Whatever is open by then, the node's configuration opens: over another's it is the
\* same dialog, with the command it had.
Opens(n) ==
  /\ config' = [config EXCEPT !.of = n]
  /\ text' = [m \in Node |-> IF m = n THEN text[m] ELSE 0]

Created(n) ==
  /\ post[n] = "made" /\ post' = [post EXCEPT ![n] = "over"] /\ create' = Closed
  /\ Opens(n) /\ fetching' = fetching \cup ({config.of, n} \cap Node)
  /\ UNCHANGED <<nodes, cards, minted, portVars, acts>>

\* Asked with its name typed; not while it has servers. Its ports go with it.
Remove(n) ==
  /\ n \in cards \cap nodes /\ Act
  /\ \A r \in Slot : alloc[r].on = n => ~alloc[r].server
  /\ nodes' = nodes \ {n} /\ alloc' = [r \in Slot |-> IF alloc[r].on = n THEN Gone ELSE alloc[r]]
  /\ Invalidates
  /\ UNCHANGED <<create, post, cards, config, minted, text, ports, line, patch>>

CheckHealth(n) ==
  /\ n \in cards /\ Act /\ Invalidates
  /\ UNCHANGED <<nodeVars, cards, config, minted, text, portVars>>

-----------------------------------------------------------------------------
(***************************************************************************)
(* The configuration. It is never kept: it has a token that was minted for it.   *)
(***************************************************************************)
Configure(n) ==
  /\ config.of = NoNode /\ n \in cards /\ Act
  /\ Opens(n) /\ fetching' = fetching \cup {n}
  /\ UNCHANGED <<nodeVars, cards, minted, portVars>>

\* Each answer has a new token, and the one before it ends if no agent used it.
ConfigurationArrives(n) ==
  /\ n \in fetching /\ fetching' = fetching \ {n}
  /\ IF n \in nodes /\ minted[n] < Newest
     THEN /\ minted' = [minted EXCEPT ![n] = @ + 1]
          /\ text' = IF config.of = n THEN [text EXCEPT ![n] = minted'[n]] ELSE text
     ELSE UNCHANGED <<minted, text>>
  /\ UNCHANGED <<nodeVars, cards, config, portVars, acts>>

Install ==
  /\ config.of # NoNode /\ config.command = NoNode /\ config.asked = NoNode /\ Act
  /\ config' = [config EXCEPT !.asked = config.of]
  /\ UNCHANGED <<nodeVars, cards, minted, fetching, text, portVars>>

\* Also after the dialog was closed: then the answer goes nowhere.
Installed ==
  /\ config.asked # NoNode
  /\ config' = [config EXCEPT !.asked = NoNode,
                              !.command = IF config.asked \in nodes THEN config.asked ELSE NoNode]
  /\ UNCHANGED <<nodeVars, cards, minted, fetching, text, portVars, acts>>

CloseConfiguration ==
  /\ config.of # NoNode /\ config' = Shut /\ text' = [n \in Node |-> 0]
  /\ UNCHANGED <<nodeVars, cards, minted, fetching, portVars, acts>>

-----------------------------------------------------------------------------
(***************************************************************************)
(* The ports of a node.                                                     *)
(***************************************************************************)
\* A name is looked up once; what it answers with, if anything, is what is stored.
ResolveBindAddress(value) == IF value \in Address THEN {value} ELSE Address

SetAllocationFor ==
  /\ line' = [r \in Slot |-> Unseen]
  /\ \E n \in (IF ports.of = NoNode THEN cards ELSE {NoNode}) : ports' = [ports EXCEPT !.of = n, !.ip = NodeIp]
  /\ UNCHANGED <<nodeVars, cards, configVars, alloc, patch, acts>>

\* A line that was there keeps its form; one that appears takes it from the row.
Shows(r) ==
  IF alloc[r].on # ports.of THEN Unseen
  ELSE IF line[r].seen THEN [line[r] EXCEPT !.ip = alloc[r].ip, !.alias = alloc[r].alias]
  ELSE [Unseen EXCEPT !.seen = TRUE, !.ip = alloc[r].ip, !.alias = alloc[r].alias,
                      !.typed = alloc[r].ip, !.name = alloc[r].alias]

AllocationsArrive ==
  /\ ports.of # NoNode /\ line' = [r \in Slot |-> Shows(r)]
  /\ UNCHANGED <<nodeVars, cards, configVars, ports, alloc, patch, acts>>

SetIp ==
  /\ ports.of # NoNode /\ \E ip \in Typed \ {ports.ip} : ports' = [ports EXCEPT !.ip = ip]
  /\ UNCHANGED <<nodeVars, cards, configVars, alloc, line, patch, acts>>

Add ==
  /\ ports.of # NoNode /\ ports.adding = {} /\ Act
  /\ ports' = [ports EXCEPT !.adding = {<<ports.of, ports.ip>>}]
  /\ UNCHANGED <<nodeVars, cards, configVars, alloc, line, patch>>

\* A name that leads nowhere is refused, a port the address has is skipped. A name typed becomes the alias.
PostAllocations ==
  \E asked \in ports.adding :
    /\ ports' = [ports EXCEPT !.adding = {}]
    /\ \/ UNCHANGED alloc /\ (Invalidates \/ UNCHANGED fetching)
       \/ \E ip \in ResolveBindAddress(asked[2]), r \in Slot :
            /\ asked[1] \in nodes /\ alloc[r] = Gone /\ ~Taken(asked[1], ip, {}) /\ Invalidates
            /\ alloc' = [alloc EXCEPT ![r] = [on |-> asked[1], ip |-> ip, server |-> FALSE,
                                              alias |-> IF ip = asked[2] THEN NoAlias ELSE asked[2]]]
    /\ UNCHANGED <<nodeVars, cards, config, minted, text, line, patch, acts>>

\* Whatever the page shows as free: what no server has by then.
Prune ==
  /\ ports.of # NoNode /\ Act /\ Invalidates
  /\ alloc' = [r \in Slot |-> IF alloc[r].on = ports.of /\ ~alloc[r].server THEN Gone ELSE alloc[r]]
  /\ UNCHANGED <<nodeVars, cards, config, minted, text, ports, line, patch>>

\* Cancelled, the form shows what the line shows by then; closed by a save it stays.
EditLine(r) ==
  /\ line[r].seen
  /\ \/ line' = [line EXCEPT ![r].editing = TRUE] /\ UNCHANGED acts
     \/ line[r].editing /\ Act /\ \E ip \in Typed : line' = [line EXCEPT ![r].typed = ip]
     \/ line[r].editing /\ Act /\ \E name \in Aliases : line' = [line EXCEPT ![r].name = name]
     \/ /\ line[r].editing /\ UNCHANGED acts
        /\ line' = [line EXCEPT ![r] = [@ EXCEPT !.editing = FALSE, !.typed = line[r].ip, !.name = line[r].alias]]
  /\ UNCHANGED <<nodeVars, cards, configVars, ports, alloc, patch>>

\* Both fields go, whichever was touched.
Save(r) ==
  /\ line[r].editing /\ ~patch[r].sent /\ Act
  /\ patch' = [patch EXCEPT ![r] = [sent |-> TRUE, ip |-> line[r].typed, alias |-> line[r].name]]
  /\ UNCHANGED <<nodeVars, cards, configVars, ports, alloc, line>>

\* A port a server has can be corrected as well; not onto one that is there.
PatchAllocation(r) ==
  /\ patch[r].sent /\ patch' = [patch EXCEPT ![r].sent = FALSE]
  /\ \/ \E ip \in ResolveBindAddress(patch[r].ip) :
          /\ alloc[r].on # NoNode /\ ~Taken(alloc[r].on, ip, {r})
          /\ alloc' = [alloc EXCEPT ![r] = [@ EXCEPT !.ip = ip, !.alias = patch[r].alias]]
          /\ line' = [line EXCEPT ![r].editing = FALSE] /\ Invalidates
     \/ UNCHANGED <<alloc, line, fetching>>
  /\ UNCHANGED <<nodeVars, cards, config, minted, text, ports, acts>>

-----------------------------------------------------------------------------
\* Elsewhere a server is given a free port, or gives it back.
ServerTakes(r) ==
  /\ alloc[r].on # NoNode /\ Act /\ alloc' = [alloc EXCEPT ![r].server = ~@]
  /\ UNCHANGED <<nodeVars, cards, configVars, ports, line, patch>>

NodeSteps ==
  \/ NodesArrive \/ SetCreating \/ FillIn \/ Install \/ Installed \/ CloseConfiguration
  \/ \E n \in Node : \/ Create(n) \/ PostNodes(n) \/ Created(n) \/ Remove(n) \/ CheckHealth(n)
                     \/ Configure(n) \/ ConfigurationArrives(n)

PortSteps ==
  \/ SetAllocationFor \/ AllocationsArrive \/ SetIp \/ Add \/ PostAllocations \/ Prune
  \/ \E r \in Slot : EditLine(r) \/ Save(r) \/ PatchAllocation(r) \/ ServerTakes(r)

Next == NodeSteps \/ PortSteps

Spec == Init /\ [][Next]_vars

-----------------------------------------------------------------------------
\* Whatever is typed, by however many and in whichever order it is saved, a port is
\* bound to an address, and to one that no other row has.
BoundByAddress == NoTwins /\ \A r \in Slot : alloc[r].on # NoNode => alloc[r].ip \in Address

=============================================================================
