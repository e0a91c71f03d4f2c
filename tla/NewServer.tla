-------------------------------- MODULE NewServer --------------------------------
(***************************************************************************)
(* The page that makes a server: a game is picked, then a node, then the name,    *)
(* the limits and the game's variables are typed, and one button sends it all.    *)
(* What the steps show comes from queries that arrive when they do; a form is      *)
(* filled from the template by an effect that runs when the template's data or     *)
(* the name changed. A server can also be copied from one there is.               *)
(***************************************************************************)
EXTENDS Naturals

CONSTANTS
  Template, Node,
  Variable,  \* the variables of a template
  Nowhere,   \* nothing picked
  MaxTyped,  \* what a person types or picks: a bound
  MaxMade    \* servers made: a bound

NewServerAssumption ==
  Nowhere \notin Template \cup Node /\ MaxTyped \in Nat /\ MaxMade \in Nat \ {0}

VARIABLES
  step,   \* 0 the game, 1 the node, 2 the resources, 3 the review
  picked, \* the template and the node
  form,   \* the name, whose defaults the variables were filled with, which were typed
  data,   \* per template: what the page has of it
  free,   \* the nodes with a free port that are online, and what the page was told of them
  push,   \* the request to make the server
  made,   \* the servers: what each was made with
  typed   \* what the person did so far

vars == <<step, picked, form, data, free, push, made, typed>>

Servers == [template : Template, node : Node, of : Template \cup {Nowhere}, own : SUBSET Variable]
Asleep  == [at |-> "idle", sent |-> {}]

TypeOK ==
  /\ step \in 0 .. 3 /\ picked \in [template : Template \cup {Nowhere}, node : Node \cup {Nowhere}]
  /\ form \in [name : {"", "given", "own"}, of : Template \cup {Nowhere}, own : SUBSET Variable]
  /\ data \in [Template -> {"none", "loading", "here"}]
  /\ free \in [real : SUBSET Node, told : SUBSET Node]
  /\ push \in [at : {"idle", "sent", "made", "refused", "left"}, sent : SUBSET Servers]
  /\ made \subseteq [it : Servers, id : 1 .. MaxMade] /\ typed \in 0 .. MaxTyped

Init ==
  /\ step = 0 /\ picked = [template |-> Nowhere, node |-> Nowhere]
  /\ form = [name |-> "", of |-> Nowhere, own |-> {}] /\ data = [t \in Template |-> "none"]
  /\ \E nodes \in SUBSET Node : free = [real |-> nodes, told |-> nodes]
  /\ push = Asleep /\ made = {} /\ typed = 0

\* The steps above the form stay open while the request is on its way.
Does == push.at # "left" /\ typed < MaxTyped /\ typed' = typed + 1

-----------------------------------------------------------------------------
(***************************************************************************)
(* The form.                                                               *)
(***************************************************************************)

\* Whatever is there is written over; an empty name is given one.
Seed(f, t) == [name |-> IF f.name = "" THEN "given" ELSE f.name, of |-> t, own |-> {}]

\* After a render in which the data or the name is another than before.
Effect(f, t, there) == IF t # Nowhere /\ there[t] = "here" THEN Seed(f, t) ELSE f

SetTemplateId(t) ==
  /\ step = 0 /\ t # picked.template /\ Does
  /\ picked' = [picked EXCEPT !.template = t]
  /\ data' = [data EXCEPT ![t] = IF @ = "none" THEN "loading" ELSE @]
  /\ form' = Effect(form, t, data')
  /\ UNCHANGED <<step, free, push, made>>

TemplateArrives(t) ==
  /\ data[t] = "loading" /\ data' = [data EXCEPT ![t] = "here"]
  /\ form' = IF picked.template = t THEN Effect(form, t, data') ELSE form
  /\ UNCHANGED <<step, picked, free, push, made, typed>>

\* What was asked for again has changed meanwhile: what was typed goes.
TemplateChanges(t) ==
  /\ data[t] = "here" /\ picked.template = t /\ form.own # {}
  /\ form' = Effect(form, t, data)
  /\ UNCHANGED <<step, picked, data, free, push, made, typed>>

\* A template that nobody looks at is forgotten after five minutes.
TemplateForgotten(t) ==
  /\ data[t] = "here" /\ picked.template # t /\ data' = [data EXCEPT ![t] = "none"]
  /\ UNCHANGED <<step, picked, form, free, push, made, typed>>

\* A node that has no free port, or is not online, cannot be clicked.
SetNodeId(n) ==
  /\ step = 1 /\ n \in free.told /\ Does /\ picked' = [picked EXCEPT !.node = n]
  /\ UNCHANGED <<step, form, data, free, push, made>>

SetName ==
  /\ step = 2 /\ Does
  /\ \E name \in {"", "own"} :
       /\ ~(name = "" /\ form.name = "")
       /\ form' = Effect([form EXCEPT !.name = name], picked.template, data)
  /\ UNCHANGED <<step, picked, data, free, push, made>>

SetVariables(v) ==
  /\ step = 2 /\ data[picked.template] = "here" /\ Does
  /\ form' = [form EXCEPT !.own = @ \cup {v}]
  /\ UNCHANGED <<step, picked, data, free, push, made>>

CanAdvance ==
  \/ step = 0 /\ picked.template # Nowhere
  \/ step = 1 /\ picked.node # Nowhere
  \/ step = 2 /\ form.name # ""

\* Forward one step at a time; back to any that is done.
SetStep ==
  /\ push.at # "left"
  /\ step' \in (IF CanAdvance THEN {step + 1} ELSE {}) \cup {s \in 0 .. 3 : s < step}
  /\ UNCHANGED <<picked, form, data, free, push, made, typed>>

-----------------------------------------------------------------------------
(***************************************************************************)
(* The request.                                                            *)
(***************************************************************************)
Create ==
  /\ step = 3 /\ push.at \in {"idle", "refused"}
  /\ push' = [at |-> "sent", sent |-> {[template |-> picked.template, node |-> picked.node,
                                        of |-> form.of, own |-> form.own]}]
  /\ UNCHANGED <<step, picked, form, data, free, made, typed>>

Adds(it) ==
  \E id \in 1 .. MaxMade : {m.id : m \in made} = 1 .. id - 1 /\ made' = made \cup {[it |-> it, id |-> id]}

\* The server is there, also when the answer that says so is lost.
PostServers ==
  /\ push.at = "sent"
  /\ \E it \in push.sent, at \in {"made", "refused"} :
       it.node \in free.real /\ Adds(it) /\ push' = [push EXCEPT !.at = at]
  /\ UNCHANGED <<step, picked, form, data, free, typed>>

\* The node has no port left or is not online, the owner has what the account may have,
\* or the request never came: the page says so and stays.
Refused ==
  /\ push.at = "sent" /\ push' = [push EXCEPT !.at = "refused"]
  /\ UNCHANGED <<step, picked, form, data, free, made, typed>>

\* The page leaves for the new server.
Answered ==
  /\ push.at = "made" /\ push' = [push EXCEPT !.at = "left"]
  /\ UNCHANGED <<step, picked, form, data, free, made, typed>>

\* The owner of a server, or who may act for owners, copies it as it stands.
Clone ==
  /\ \E m \in made, n \in free.real : Adds([m.it EXCEPT !.node = n])
  /\ UNCHANGED <<step, picked, form, data, free, push, typed>>

NodesChange ==
  /\ typed < MaxTyped /\ typed' = typed + 1
  /\ \E nodes \in SUBSET Node : free' = [free EXCEPT !.real = nodes]
  /\ UNCHANGED <<step, picked, form, data, push, made>>

\* The page asks again when it is back on line.
NodesArrive ==
  /\ free.told # free.real /\ free' = [free EXCEPT !.told = free.real]
  /\ UNCHANGED <<step, picked, form, data, push, made, typed>>

Next ==
  \/ \E t \in Template : SetTemplateId(t) \/ TemplateArrives(t) \/ TemplateChanges(t) \/ TemplateForgotten(t)
  \/ \E n \in Node : SetNodeId(n)
  \/ \E v \in Variable : SetVariables(v)
  \/ SetName \/ SetStep \/ Create \/ PostServers \/ Refused \/ Answered \/ Clone
  \/ NodesChange \/ NodesArrive

Spec == Init /\ [][Next]_vars

-----------------------------------------------------------------------------
\* However often another game is picked, and whenever its data comes, the variables
\* on the page are those of the game picked, once its data is there.
OwnVariables == picked.template # Nowhere /\ data[picked.template] = "here" => form.of = picked.template

=============================================================================
