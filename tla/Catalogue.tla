-------------------------------- MODULE Catalogue --------------------------------
(***************************************************************************)
(* What administrators provide and customers' things refer to: backup storages,    *)
(* database hosts, game templates, nodes. A thing nobody refers to, as read, may be  *)
(* deleted; a thing that is there and active, as read, may be referred to. What      *)
(* happens when both meet is for the database's foreign keys to decide.            *)
(***************************************************************************)
EXTENDS Naturals, FiniteSets

CONSTANTS
  Storage, Host, Template, Node, \* things of the four kinds
  Use,       \* backups, databases, servers, which refer to things
  NoThing,
  Clerk,     \* requests that run at once
  Capacity,  \* servers a node has room for
  MaxChanges \* things made, changed or deleted: a bound

Thing == Storage \cup Host \cup Template \cup Node

CatalogueAssumption ==
  /\ Cardinality(Thing) = Cardinality(Storage) + Cardinality(Host) + Cardinality(Template) + Cardinality(Node)
  /\ {Capacity, MaxChanges} \subseteq Nat /\ NoThing \notin Thing

VARIABLES
  there,   \* the rows
  active,  \* isActive; of a node: public, online, not in maintenance
  default, \* storages that say they are the default one
  sound,   \* templates whose default image is one of their images
  refers,  \* per use: the thing its row names
  orphan,  \* uses whose thing the database took from them
  clerk,   \* per request: what it read and is about to write
  changes

vars == <<there, active, default, sound, refers, orphan, clerk, changes>>

NoClerk == [does |-> "nothing", thing |-> NoThing, use |-> NoThing, seen |-> {}]

TypeOK ==
  /\ active \subseteq there /\ there \subseteq Thing
  /\ default \subseteq Storage \cap there /\ sound \subseteq Template \cap there
  /\ refers \in [Use -> Thing \cup {NoThing}] /\ orphan \subseteq Use
  /\ clerk \in [Clerk -> [does : {"nothing", "make", "edit", "delete", "use"}, thing : Thing \cup {NoThing},
                          use : Use \cup {NoThing}, seen : SUBSET Storage]]
  /\ changes \in 0 .. MaxChanges

\* As seeded, and set up since.
Init ==
  /\ there = Thing /\ active = there
  /\ default = {} /\ sound = Template
  /\ refers = [u \in Use |-> NoThing] /\ orphan = {}
  /\ clerk = [c \in Clerk |-> NoClerk] /\ changes = 0

Change == changes < MaxChanges /\ changes' = changes + 1
UsesOf(t) == {u \in Use : refers[u] = t}

Reads(c, does, t, u) ==
  /\ clerk[c] = NoClerk
  /\ clerk' = [clerk EXCEPT ![c] = [does |-> does, thing |-> t, use |-> u,
                                   seen |-> IF t \in Storage THEN there \cap Storage ELSE {}]]
  /\ UNCHANGED <<there, active, default, sound, refers, orphan>>

Writes(c, does) == clerk[c].does = does /\ clerk' = [clerk EXCEPT ![c] = NoClerk]

\* Refused on what was read, or by the database.
Fails(c) ==
  /\ clerk[c] # NoClerk /\ clerk' = [clerk EXCEPT ![c] = NoClerk]
  /\ UNCHANGED <<there, active, default, sound, refers, orphan, changes>>

-----------------------------------------------------------------------------
(***************************************************************************)
(* Making and changing. A storage that becomes the default one takes that from the   *)
(* rows its statement can see; the images of a template are checked against the row   *)
(* as it was read.                                                          *)
(***************************************************************************)
AskMake(c) == \E t \in Thing \ there : Change /\ Reads(c, "make", t, NoThing)

Makes(c, kind) ==
  /\ Writes(c, "make") /\ clerk[c].thing \in kind \ there
  /\ there' = there \cup {clerk[c].thing}
  /\ UNCHANGED <<refers, orphan, changes>>

Offered(t, may) == active' \in {active \cup {t}} \cup (IF may THEN {} ELSE {active})
BecomesDefault(t, seen) == default' = (default \ seen) \cup {t}

CreateStorage(c) ==
  /\ Makes(c, Storage) /\ Offered(clerk[c].thing, FALSE)
  /\ BecomesDefault(clerk[c].thing, clerk[c].seen) \/ UNCHANGED default
  /\ UNCHANGED sound

CreateHost(c) == Makes(c, Host) /\ Offered(clerk[c].thing, FALSE) /\ UNCHANGED <<default, sound>>

CreateTemplate(c) ==
  /\ Makes(c, Template) /\ Offered(clerk[c].thing, FALSE)
  /\ sound' = sound \cup {clerk[c].thing} /\ UNCHANGED default

\* Everything of the source but whether it is active.
CloneTemplate(c) ==
  /\ Makes(c, Template) /\ Offered(clerk[c].thing, TRUE)
  /\ \E source \in there \cap Template :
       sound' = IF source \in sound THEN sound \cup {clerk[c].thing} ELSE sound
  /\ UNCHANGED default

\* The first of an egg's images is its default one; one without any is refused.
ConvertEgg(t) == sound' = sound \cup {t} /\ Offered(t, TRUE)

\* An export of a panel is not asked whether its default image is one of its images.
ImportTemplate(c) ==
  /\ Makes(c, Template)
  /\ ConvertEgg(clerk[c].thing) \/ (Offered(clerk[c].thing, FALSE) /\ sound' \in {sound, sound \cup {clerk[c].thing}})
  /\ UNCHANGED default

CreateNode(c) == Makes(c, Node) /\ Offered(clerk[c].thing, FALSE) /\ UNCHANGED <<default, sound>>

\* On the command line, with a first token; whoever types it is not asked for anything.
CreateNodeCli ==
  /\ Change
  /\ \E t \in Node \ there : there' = there \cup {t}
  /\ UNCHANGED <<active, default, sound, refers, orphan, clerk>>

AskEdit(c) == \E t \in there : Change /\ Reads(c, "edit", t, NoThing)

Edits(c, kind) ==
  /\ Writes(c, "edit") /\ clerk[c].thing \in kind \cap there
  /\ active' \in {active \ {clerk[c].thing}, active \cup {clerk[c].thing}}
  /\ UNCHANGED <<there, refers, orphan, changes>>

UpdateStorage(c) ==
  /\ Edits(c, Storage)
  /\ BecomesDefault(clerk[c].thing, clerk[c].seen) \/ default' = default \ {clerk[c].thing}
  /\ UNCHANGED sound

UpdateHost(c) == Edits(c, Host) /\ UNCHANGED <<default, sound>>
UpdateNode(c) == Edits(c, Node) /\ UNCHANGED <<default, sound>>

\* Two edits at once, of the images and of the default one, each right by what it read.
UpdateTemplate(c) ==
  LET t == clerk[c].thing IN
  /\ Edits(c, Template)
  /\ IF \E d \in Clerk \ {c} : clerk[d].does = "edit" /\ clerk[d].thing = t
     THEN sound' \in {sound, sound \ {t}} ELSE UNCHANGED sound
  /\ UNCHANGED default

-----------------------------------------------------------------------------
(***************************************************************************)
(* Deleting and referring.                                                  *)
(***************************************************************************)
AskDelete(c) == \E t \in there : UsesOf(t) = {} /\ Change /\ Reads(c, "delete", t, NoThing)

\* Mutant: a storage's backups go without it.
Restricts_Others(t) == t \in Host \cup Node
\* onDelete: Restrict; a template is SetNull.
Restricts(t) == t \in Storage \cup Host \cup Node

Deletes(c, kind) ==
  LET t == clerk[c].thing IN
  /\ Writes(c, "delete") /\ t \in kind \cap there
  /\ Restricts(t) => UsesOf(t) = {}
  /\ there' = there \ {t} /\ active' = active \ {t} /\ default' = default \ {t} /\ sound' = sound \ {t}
  /\ orphan' = orphan \cup UsesOf(t)
  /\ refers' = [u \in Use |-> IF refers[u] = t THEN NoThing ELSE refers[u]]
  /\ UNCHANGED changes

DeleteStorage(c)  == Deletes(c, Storage)
DeleteHost(c)     == Deletes(c, Host)
DeleteTemplate(c) == Deletes(c, Template)
DeleteNode(c)     == Deletes(c, Node)

\* A server is only put on a node that has room for it, as summed up before.
AssertNodeHasCapacity(t) == t \in Node => Cardinality(UsesOf(t)) < Capacity

AskUse(c) ==
  \E u \in Use, t \in active :
    /\ refers[u] = NoThing /\ u \notin orphan /\ AssertNodeHasCapacity(t)
    /\ Reads(c, "use", t, u) /\ UNCHANGED changes

Refer(c) ==
  /\ Writes(c, "use") /\ clerk[c].thing \in there /\ refers[clerk[c].use] = NoThing
  /\ refers' = [refers EXCEPT ![clerk[c].use] = clerk[c].thing]
  /\ UNCHANGED <<there, active, default, sound, orphan, changes>>

EndUse ==
  /\ \E u \in Use : refers[u] # NoThing /\ refers' = [refers EXCEPT ![u] = NoThing]
  /\ UNCHANGED <<there, active, default, sound, orphan, clerk, changes>>

-----------------------------------------------------------------------------
Ask(c)    == AskMake(c) \/ AskEdit(c) \/ AskDelete(c) \/ AskUse(c)
Make(c)   == CreateStorage(c) \/ CreateHost(c) \/ CreateTemplate(c) \/ CloneTemplate(c) \/ ImportTemplate(c) \/ CreateNode(c)
Edit(c)   == UpdateStorage(c) \/ UpdateHost(c) \/ UpdateTemplate(c) \/ UpdateNode(c)
Delete(c) == DeleteStorage(c) \/ DeleteHost(c) \/ DeleteTemplate(c) \/ DeleteNode(c)

Next ==
  \/ \E c \in Clerk : Ask(c) \/ Make(c) \/ Edit(c) \/ Delete(c) \/ Refer(c) \/ Fails(c)
  \/ CreateNodeCli \/ EndUse

Spec == Init /\ [][Next]_vars

-----------------------------------------------------------------------------
\* No deletion, however it meets a creation it could not see, takes a backup's storage,
\* a database's host or a server's node away from it.
Findable ==
  [][\A u \in Use : refers[u] \in Storage \cup Host \cup Node => refers[u] \in there']_vars
===============================================================================
