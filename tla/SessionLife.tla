----------------------------- MODULE SessionLife -----------------------------
(***************************************************************************)
(* What becomes of the sessions of an account: each is opened once, may be   *)
(* ended, alone or together with others, and is forgotten in the end. One    *)
(* that has ended never works again.                                       *)
(***************************************************************************)
CONSTANT Session

VARIABLE life

Init == life = [s \in Session |-> "unborn"]

Become(some, from, to) ==
  /\ \A s \in some : life[s] \in from
  /\ life' = [s \in Session |-> IF s \in some THEN to ELSE life[s]]

Open(s)      == Become({s}, {"unborn"}, "live")
End(some)    == Become(some, {"live"}, "ended")
Forget(some) == Become(some, {"live", "ended"}, "gone")

Next ==
  \/ \E s \in Session : Open(s)
  \/ \E some \in SUBSET Session : End(some) \/ Forget(some)

Spec == Init /\ [][Next]_life
===============================================================================
