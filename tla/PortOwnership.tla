----------------------------- MODULE PortOwnership -----------------------------
(***************************************************************************)
(* What the panel promises about ports, without saying how: a server is     *)
(* given ports that are nobody's, all of what it asked for at once, and a   *)
(* port reaches another server only by way of nobody. A port may be given   *)
(* back, provided or withdrawn at any time.                                 *)
(***************************************************************************)
CONSTANTS Ports, Servers, Nobody, Absent

VARIABLE owner   \* per port: its server, Nobody, or Absent while not provided

Init == owner \in [Ports -> {Nobody, Absent}]

Given(ports, to) == owner' = [p \in Ports |-> IF p \in ports THEN to ELSE owner[p]]

Grant(s, ports) ==
  /\ \A p \in ports : owner[p] = Nobody
  /\ Given(ports, s)

Return(ports) ==
  /\ \A p \in ports : owner[p] # Absent
  /\ Given(ports, Nobody)

Provide(ports) ==
  /\ \A p \in ports : owner[p] = Absent
  /\ Given(ports, Nobody)

Withdraw(ports) == Given(ports, Absent)

Next ==
  \E ports \in SUBSET Ports :
    \/ \E s \in Servers : Grant(s, ports)
    \/ Return(ports) \/ Provide(ports) \/ Withdraw(ports)

Spec == Init /\ [][Next]_owner
=============================================================================
