------------------------------ MODULE Allocations ------------------------------
(***************************************************************************)
(* The ports of a node: servers that are created with some, claim and give  *)
(* back others, choose a primary one and are deleted; and the operator, who *)
(* provides ports, deletes single ones and prunes those nobody has.         *)
(*                                                                         *)
(* Each request reads first and writes later. A claim asks again, in its    *)
(* write, that the port be nobody's; a removal, a choice of the primary and *)
(* the operator's deletion do not. A transaction that finds a claim short   *)
(* is rolled back. Pushing the new ports to the node (syncToNode) is part   *)
(* of module ServerLifecycle.                                               *)
(***************************************************************************)
EXTENDS Naturals, FiniteSets

CONSTANTS
  Ports, Servers,
  Nobody, Absent,  \* of a port without a server, of a port not provided
  Requests,        \* requests that can be in progress at the same time
  Limit            \* owner.allocationLimit; 0 is unlimited

ASSUME AllocationsAssumption ==
  /\ Nobody \notin Servers /\ Absent \notin Servers /\ Nobody # Absent
  /\ Limit \in Nat

VARIABLES
  holder,   \* allocation.serverId, or Absent without a row
  primary,  \* the ports whose row says isPrimary
  life,     \* per server
  req       \* per request: what it is about to write

vars == <<holder, primary, life, req>>

-----------------------------------------------------------------------------
Ops == {"create", "claim", "remove", "choose", "withdraw"}
Request ==
  [op : Ops \ {"withdraw"}, server : Servers, port : Ports, more : SUBSET Ports]
    \cup [op : {"withdraw"}, server : {Nobody}, port : Ports, more : {{}}]
Idle == [op |-> "idle"]

PortsOf(s) == {p \in Ports : holder[p] = s}

TypeOK ==
  /\ holder \in [Ports -> Servers \cup {Nobody, Absent}]
  /\ primary \subseteq {p \in Ports : holder[p] # Absent}
  /\ life \in [Servers -> {"unborn", "live", "gone"}]
  /\ req \in [Requests -> Request \cup {Idle}]

\* A node with its first ports and no server.
Init ==
  /\ holder \in [Ports -> {Nobody, Absent}]
  /\ primary = {}
  /\ life = [s \in Servers |-> "unborn"]
  /\ req = [r \in Requests |-> Idle]

-----------------------------------------------------------------------------
Asks(r, op, s, p, more) ==
  /\ req[r] = Idle
  /\ req' = [req EXCEPT ![r] = [op |-> op, server |-> s, port |-> p, more |-> more]]
  /\ UNCHANGED <<holder, primary, life>>

\* The request writes, or fails: what it would have written is rolled back.
Answers(r, op) == req[r] # Idle /\ req[r].op = op /\ req' = [req EXCEPT ![r] = Idle]
Fails(r) == \E op \in Ops : Answers(r, op) /\ UNCHANGED <<holder, primary, life>>

Hold(ports, h) == holder' = [p \in Ports |-> IF p \in ports THEN h ELSE holder[p]]

\* POST /servers: the ports the customer names, or a primary one found free.
AskCreate(r) ==
  \E s \in Servers, p \in Ports, more \in SUBSET Ports :
    /\ life[s] = "unborn"
    /\ Asks(r, "create", s, p, more)

\* Mutant: the claim's predicate does not ask for a free port.
Claimable_Unasked(p) == holder[p] # Absent

Claimable(p) == holder[p] = Nobody

\* Mutant: the number of claimed rows is not compared.
Complete_Uncounted(ports) == TRUE

Complete(ports) == \A p \in ports : Claimable(p)

Create(r) ==
  LET s == req[r].server
      wanted == {req[r].port} \cup req[r].more
  IN /\ Answers(r, "create")
     /\ life[s] = "unborn" /\ Complete(wanted)
     /\ Hold({p \in wanted : Claimable(p)}, s)
     /\ primary' = primary \cup {req[r].port}
     /\ life' = [life EXCEPT ![s] = "live"]

\* POST /servers/:id/allocations: the limit, then a free port, then the claim.
AskClaim(r) ==
  \E s \in Servers, p \in Ports :
    /\ life[s] = "live" /\ holder[p] = Nobody
    /\ Limit = 0 \/ Cardinality(PortsOf(s)) < Limit
    /\ Asks(r, "claim", s, p, {})

Claim(r) ==
  /\ Answers(r, "claim")
  /\ Claimable(req[r].port) /\ life[req[r].server] = "live"
  /\ Hold({req[r].port}, req[r].server)
  /\ UNCHANGED <<primary, life>>

\* DELETE /servers/:id/allocations/:allocationId: never the primary one, as read.
AskRemove(r) ==
  \E s \in Servers : \E p \in PortsOf(s) \ primary :
    life[s] = "live" /\ Asks(r, "remove", s, p, {})

Remove(r) ==
  /\ Answers(r, "remove")
  /\ holder[req[r].port] # Absent
  /\ Hold({req[r].port}, Nobody)
  /\ primary' = primary \ {req[r].port}
  /\ UNCHANGED life

\* POST /servers/:id/allocations/:allocationId/primary.
AskChoose(r) ==
  \E s \in Servers : \E p \in PortsOf(s) :
    life[s] = "live" /\ Asks(r, "choose", s, p, {})

Choosable(p) == holder[p] # Absent

Choose(r) ==
  /\ Answers(r, "choose")
  /\ Choosable(req[r].port)
  /\ primary' = (primary \ PortsOf(req[r].server)) \cup {req[r].port}
  /\ UNCHANGED <<holder, life>>

\* The transaction that ends DELETE /servers/:id.
DeleteServer(s) ==
  /\ life[s] = "live"
  /\ Hold(PortsOf(s), Nobody)
  /\ primary' = primary \ PortsOf(s)
  /\ life' = [life EXCEPT ![s] = "gone"]
  /\ UNCHANGED req

-----------------------------------------------------------------------------
\* The operator: a port that is assigned, as read, is not deleted.
AskWithdraw(r) ==
  \E p \in Ports : holder[p] = Nobody /\ Asks(r, "withdraw", Nobody, p, {})

Withdraw(r) ==
  /\ Answers(r, "withdraw")
  /\ Hold({req[r].port}, Absent)
  /\ primary' = primary \ {req[r].port}
  /\ UNCHANGED life

Pruned == {p \in Ports : holder[p] = Nobody}

Prune ==
  /\ Pruned # {}
  /\ Hold(Pruned, Absent)
  /\ primary' = primary \ Pruned
  /\ UNCHANGED <<life, req>>

Provide ==
  /\ \E ports \in SUBSET {p \in Ports : holder[p] = Absent} :
       ports # {} /\ Hold(ports, Nobody)
  /\ UNCHANGED <<primary, life, req>>

-----------------------------------------------------------------------------
Ask(r) == AskCreate(r) \/ AskClaim(r) \/ AskRemove(r) \/ AskChoose(r) \/ AskWithdraw(r)
Write(r) == Create(r) \/ Claim(r) \/ Remove(r) \/ Choose(r) \/ Withdraw(r)

Next ==
  \/ \E r \in Requests : Ask(r) \/ Write(r) \/ Fails(r)
  \/ \E s \in Servers : DeleteServer(s)
  \/ Prune \/ Provide

Spec == Init /\ [][Next]_vars

-----------------------------------------------------------------------------
Ownership == INSTANCE PortOwnership WITH owner <- holder

\* Ports keep the promise of PortOwnership, whatever reads are stale by the
\* time of their writes: two servers never hold one port, nor does one server
\* take what another has.
Exclusive == Ownership!Spec

\* A creation is whole or not at all: the server that comes to life holds every
\* port it asked for, and its primary one is marked.
BornWhole ==
  [][\A s \in Servers : life[s] = "unborn" /\ life'[s] = "live" =>
       \E r \in Requests :
         /\ req[r] # Idle /\ req[r].op = "create" /\ req[r].server = s
         /\ \A p \in {req[r].port} \cup req[r].more : holder'[p] = s
         /\ req[r].port \in primary']_vars
=============================================================================
