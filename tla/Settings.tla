-------------------------------- MODULE Settings --------------------------------
(***************************************************************************)
(* The panel's settings: rows that administrators change from a form, a copy that   *)
(* every replica of the API keeps for a few seconds and asks on each request        *)
(* whether the panel is closed for maintenance, and the copy a browser keeps.       *)
(***************************************************************************)
EXTENDS Naturals

CONSTANTS
  Replica,   \* API processes behind one address
  Tab,       \* browsers with the panel open
  Clerk,     \* administrators with the settings form open
  MaxWrites  \* forms that are saved: a bound

SettingsAssumption == MaxWrites \in Nat

VARIABLES
  row,    \* the settings: whether maintenance is on, and the edit of everything else
  cached, \* per replica: its copy, or Unread
  query,  \* per replica: its read of the table, shared by all who wait for it
  shown,  \* per browser: what it goes by, and the answer under way to it
  form,   \* per administrator: what the form holds, where its saving is
  writes

vars == <<row, cached, query, shown, form, writes>>

Values == [maintenance : BOOLEAN, edit : 0 .. MaxWrites]
Unread == [maintenance |-> FALSE, edit |-> MaxWrites + 1]
Copies == Values \cup {Unread}

\* DEFAULT_SETTINGS, which is also what the browser starts from.
Default == [maintenance |-> FALSE, edit |-> 0]

TypeOK ==
  /\ row \in Values
  /\ cached \in [Replica -> Copies]
  /\ query \in [Replica -> [at : {"idle", "asked", "read"}, copy : Copies]]
  /\ shown \in [Tab -> [copy : Values, at : {"idle", "waiting", "answered"}, on : Replica, answer : Copies]]
  /\ form \in [Clerk -> [at : {"closed", "open", "saving"}, on : Replica, copy : Copies]]
  /\ writes \in 0 .. MaxWrites

Init ==
  /\ row = Default
  /\ cached = [r \in Replica |-> Unread]
  /\ query = [r \in Replica |-> [at |-> "idle", copy |-> Unread]]
  /\ \E r \in Replica :
       /\ shown = [t \in Tab |-> [copy |-> Default, at |-> "idle", on |-> r, answer |-> Unread]]
       /\ form = [c \in Clerk |-> [at |-> "closed", on |-> r, copy |-> Unread]]
  /\ writes = 0

-----------------------------------------------------------------------------
(***************************************************************************)
(* A replica's copy. Whoever misses it joins the query under way or starts one;     *)
(* what the query found is the copy from then on, also when the copy was dropped   *)
(* while it was under way.                                                   *)
(***************************************************************************)
Expires(r) ==
  /\ cached[r] # Unread /\ cached' = [cached EXCEPT ![r] = Unread]
  /\ UNCHANGED <<row, query, shown, form, writes>>

ReadSettings(r) ==
  /\ query[r].at = "asked" /\ query' = [query EXCEPT ![r] = [at |-> "read", copy |-> row]]
  /\ UNCHANGED <<row, cached, shown, form, writes>>

Read(r) ==
  /\ query[r].at = "read"
  /\ cached' = [cached EXCEPT ![r] = query[r].copy]
  /\ query' = [query EXCEPT ![r] = [at |-> "idle", copy |-> Unread]]
  /\ shown' = [t \in Tab |-> IF shown[t].at = "waiting" /\ shown[t].on = r
                             THEN [shown[t] EXCEPT !.at = "answered", !.answer = query[r].copy] ELSE shown[t]]
  /\ UNCHANGED <<row, form, writes>>

-----------------------------------------------------------------------------
(***************************************************************************)
(* A browser asks again after a while, more often while it is locked out.           *)
(***************************************************************************)
\* Nobody has stopped asking.
Asks(t) == TRUE

Ask(t, r) ==
  /\ shown[t].at = "idle" /\ Asks(t)
  /\ IF cached[r] # Unread
     THEN /\ shown' = [shown EXCEPT ![t] = [@ EXCEPT !.at = "answered", !.on = r, !.answer = cached[r]]]
          /\ UNCHANGED query
     ELSE /\ shown' = [shown EXCEPT ![t] = [@ EXCEPT !.at = "waiting", !.on = r]]
          /\ query' = IF query[r].at = "idle" THEN [query EXCEPT ![r].at = "asked"] ELSE query
  /\ UNCHANGED <<row, cached, form, writes>>

Arrive(t) ==
  /\ shown[t].at = "answered"
  /\ shown' = [shown EXCEPT ![t] = [@ EXCEPT !.at = "idle", !.copy = shown[t].answer, !.answer = Unread]]
  /\ UNCHANGED <<row, cached, query, form, writes>>

-----------------------------------------------------------------------------
(***************************************************************************)
(* The form is read from the table, and saved whole: also the fields that were not  *)
(* touched, as they were when it was opened.                                   *)
(***************************************************************************)
OpenForm(c) ==
  /\ form[c].at = "closed" /\ writes < MaxWrites
  /\ form' = [form EXCEPT ![c] = [@ EXCEPT !.at = "open", !.copy = row]]
  /\ UNCHANGED <<row, cached, query, shown, writes>>

WriteSettings(c, r) ==
  /\ form[c].at = "open" /\ writes < MaxWrites /\ writes' = writes + 1
  /\ row' \in {[form[c].copy EXCEPT !.edit = writes + 1], [form[c].copy EXCEPT !.maintenance = ~@]}
  /\ form' = [form EXCEPT ![c] = [at |-> "saving", on |-> r, copy |-> Unread]]
  /\ UNCHANGED <<cached, query, shown>>

\* On the replica that wrote, no other.
Invalidate(c) ==
  /\ form[c].at = "saving" /\ form' = [form EXCEPT ![c].at = "closed"]
  /\ cached' = [cached EXCEPT ![form[c].on] = Unread]
  /\ UNCHANGED <<row, query, shown, writes>>

-----------------------------------------------------------------------------
Next ==
  \/ \E r \in Replica : Expires(r) \/ ReadSettings(r) \/ Read(r)
  \/ \E t \in Tab : Arrive(t) \/ \E r \in Replica : Ask(t, r)
  \/ \E c \in Clerk : OpenForm(c) \/ Invalidate(c) \/ \E r \in Replica : WriteSettings(c, r)

\* Copies grow old, queries answer, an open browser asks again.
Fairness ==
  /\ \A r \in Replica : WF_vars(Expires(r)) /\ WF_vars(ReadSettings(r) \/ Read(r))
  /\ \A t \in Tab : WF_vars(Arrive(t)) /\ WF_vars(\E r \in Replica : Ask(t, r))

Spec == Init /\ [][Next]_vars /\ Fairness

-----------------------------------------------------------------------------
\* "Maintenance mode ... the panel has to notice it going on and off without the customer
\* reloading the page" (panel-settings.tsx): once nobody changes the settings any more
\* every browser goes by them, whichever replica answers it, however copies and queries
\* crossed the writes.
Noticed == \A t \in Tab : <>[](shown[t].copy = row)
===============================================================================
