-------------------------------- MODULE Webhooks --------------------------------
(***************************************************************************)
(* One webhook: deliveries that are queued, posted and recorded by workers that  *)
(* run side by side, tried again after a failure, and an endpoint the panel      *)
(* stops writing to after too many failures in a row.                          *)
(***************************************************************************)
EXTENDS Naturals

CONSTANTS
  Delivery,     \* jobs in the queue or at a worker at once
  MaxAttempts,  \* RETRY.attempts
  Limit,        \* FAILURES_BEFORE_DISABLED
  MaxEdits,     \* an administrator's changes: a bound
  MaxTroubles   \* workers that die, an endpoint that breaks or recovers: a bound

WebhooksAssumption ==
  /\ {MaxAttempts, Limit} \subseteq Nat \ {0} /\ {MaxEdits, MaxTroubles} \subseteq Nat

VARIABLES
  hook,      \* the row: there, isActive, failureCount (up to Limit + 1), disabledAt set
  endpoint,  \* whether it answers below 400
  delivery,  \* per job: where it is, its attempt, what the endpoint answered
  told,      \* announcements of a switch-off since the hook was last switched on
  hookEdits, troubles

vars == <<hook, endpoint, delivery, told, hookEdits, troubles>>

Free   == [at |-> "free", attempt |-> 1, ok |-> TRUE]
NoHook == [exists |-> FALSE, active |-> FALSE, failures |-> 0, disabled |-> FALSE]

TypeOK ==
  /\ hook \in [exists : BOOLEAN, active : BOOLEAN, failures : 0 .. Limit + 1, disabled : BOOLEAN]
  /\ endpoint \in BOOLEAN
  /\ delivery \in [Delivery -> [at : {"free", "queued", "posting", "posted", "disable"},
                                attempt : 1 .. MaxAttempts, ok : BOOLEAN]]
  /\ told \in 0 .. 2
  /\ hookEdits \in 0 .. MaxEdits /\ troubles \in 0 .. MaxTroubles

Init ==
  /\ hook = NoHook /\ endpoint = TRUE
  /\ delivery = [d \in Delivery |-> Free]
  /\ told = 0 /\ hookEdits = 0 /\ troubles = 0

Edit    == hookEdits < MaxEdits /\ hookEdits' = hookEdits + 1
Trouble == troubles < MaxTroubles /\ troubles' = troubles + 1
Goes(d, at) == delivery' = [delivery EXCEPT ![d].at = at]

-----------------------------------------------------------------------------
(***************************************************************************)
(* The administrator, and the endpoint.                                      *)
(***************************************************************************)
\* One made after a deletion is another hook.
Create ==
  /\ hookEdits = 0 /\ Edit
  /\ \E active \in BOOLEAN : hook' = [NoHook EXCEPT !.exists = TRUE, !.active = active]
  /\ told' = 0
  /\ UNCHANGED <<endpoint, delivery, troubles>>

\* Either way a fresh start: the count and the reason go.
Switched(active) == [hook EXCEPT !.active = active, !.failures = 0, !.disabled = FALSE]

Update ==
  /\ hook.exists /\ Edit
  /\ \E active \in BOOLEAN : hook' = Switched(active) /\ told' = IF active THEN 0 ELSE told
  /\ UNCHANGED <<endpoint, delivery, troubles>>

Delete ==
  /\ hook.exists /\ Edit /\ hook' = NoHook
  /\ UNCHANGED <<endpoint, delivery, told, troubles>>

EndpointTurns ==
  /\ Trouble /\ endpoint' = ~endpoint
  /\ UNCHANGED <<hook, delivery, told, hookEdits>>

-----------------------------------------------------------------------------
(***************************************************************************)
(* A delivery: the hook is read, the payload posted, the outcome written down;   *)
(* a failed one is tried again.                                              *)
(***************************************************************************)
Dispatch(d) ==
  /\ delivery[d].at = "free" /\ hook.exists /\ hook.active
  /\ Goes(d, "queued")
  /\ UNCHANGED <<hook, endpoint, told, hookEdits, troubles>>

ReadHook(d) ==
  /\ delivery[d].at = "queued"
  /\ delivery' = [delivery EXCEPT ![d] = IF hook.exists /\ hook.active THEN [@ EXCEPT !.at = "posting"] ELSE Free]
  /\ UNCHANGED <<hook, endpoint, told, hookEdits, troubles>>

Post(d) ==
  /\ delivery[d].at = "posting"
  /\ delivery' = [delivery EXCEPT ![d] = [@ EXCEPT !.at = "posted", !.ok = endpoint]]
  /\ UNCHANGED <<hook, endpoint, told, hookEdits, troubles>>

\* What BullMQ makes of a job that throws.
Throws(d) ==
  delivery' = [delivery EXCEPT ![d] = IF @.attempt = MaxAttempts THEN Free
                                      ELSE [Free EXCEPT !.at = "queued", !.attempt = delivery[d].attempt + 1]]

Counted == IF hook.failures > Limit THEN hook.failures ELSE hook.failures + 1

\* Mutant: only the job that meets the limit exactly.
Enough_Exactly(n) == n = Limit
Enough(n) == n >= Limit

\* The outcome and the count in one transaction; without the row it fails as a whole.
Record(d) ==
  /\ delivery[d].at = "posted"
  /\ IF ~hook.exists THEN Throws(d) /\ UNCHANGED hook
     ELSE IF delivery[d].ok
     THEN /\ hook' = [hook EXCEPT !.failures = 0, !.disabled = FALSE]
          /\ delivery' = [delivery EXCEPT ![d] = Free]
     ELSE /\ hook' = [hook EXCEPT !.failures = Counted]
          /\ IF Enough(Counted) THEN Goes(d, "disable") ELSE Throws(d)
  /\ UNCHANGED <<endpoint, told, hookEdits, troubles>>

Claimed == hook.exists /\ hook.active

\* The one whose update found the hook on records it and notifies.
Disable(d) ==
  /\ delivery[d].at = "disable" /\ Throws(d)
  /\ IF Claimed THEN hook' = [hook EXCEPT !.active = FALSE, !.disabled = TRUE] /\ told' = IF told = 2 THEN 2 ELSE told + 1
     ELSE UNCHANGED <<hook, told>>
  /\ UNCHANGED <<endpoint, hookEdits, troubles>>

\* The job is found stalled and is taken up from its start.
WorkerDies(d) ==
  /\ delivery[d].at \in {"posting", "posted", "disable"} /\ Trouble
  /\ Goes(d, "queued")
  /\ UNCHANGED <<hook, endpoint, told, hookEdits>>

-----------------------------------------------------------------------------
Works(d) == ReadHook(d) \/ Post(d) \/ Record(d) \/ Disable(d)

Next ==
  \/ Create \/ Update \/ Delete \/ EndpointTurns
  \/ \E d \in Delivery : Dispatch(d) \/ Works(d) \/ WorkerDies(d)

\* Events keep happening, and workers get to their jobs.
Fairness ==
  /\ \A d \in Delivery : WF_vars(Works(d))
  /\ WF_vars(\E d \in Delivery : Dispatch(d))

Spec == Init /\ [][Next]_vars /\ Fairness

-----------------------------------------------------------------------------
\* However many deliveries fail at the same time, one switch-off is announced
\* once before the hook is switched on again.
OncePerSpell == told <= 1

\* Nobody's events are posted for ever to an endpoint that stopped answering, also
\* when the worker that was to switch it off died.
GivenUp == <>[](~endpoint) => <>[](~hook.active)
===============================================================================
