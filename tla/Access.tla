-------------------------------- MODULE Access --------------------------------
(***************************************************************************)
(* Who may do what on one server, now, and the two connections that outlive   *)
(* the answer: the console of the server, and the account's own feed.         *)
(*                                                                         *)
(* What somebody may do is not stored. It is derived on each request from the  *)
(* session or key, the account's row and the share, which are read one after   *)
(* the other while others write them. A console derives it again for every     *)
(* command and on a timer; the feed keeps what it derived for a while.         *)
(***************************************************************************)
EXTENDS Naturals, Sequences, FiniteSets

CONSTANTS
  User, Holder,      \* the accounts; the owner of the server
  NoUser,
  Edit,              \* requests of administrators on their way at once
  Relay,             \* events the feed works on at once
  MaxEdits, MaxSent  \* edits made, commands typed: bounds

AccessAssumption ==
  Holder \in User /\ NoUser \notin User /\ MaxEdits \in Nat /\ MaxSent \in Nat

VARIABLES
  row,      \* per account: its row
  login,  \* per account: its session
  key,      \* per account: its API key
  share,    \* per account: the sub-user's permissions on the server
  edit,     \* per slot: an administrator's request
  edits,    \* edits made
  console,  \* the console socket
  typed,    \* commands typed into it
  queue,    \* those, and the timer's question, that wait their turn
  sent,     \* commands that reached the node
  held,     \* per command: what its sender held at some moment since it was typed
  feed,     \* the account socket
  relay     \* per slot: an event on its way through it

rights  == <<row, login, key, share>>
conn    == <<console, typed, queue, sent>>
feeding == <<feed, relay>>
vars    == <<rights, edit, edits, conn, held, feeding>>

-----------------------------------------------------------------------------
Perm == {"console", "command"}
Role == {"OWNER", "STAFF", "CUSTOMER"}
Priority == [OWNER |-> 3, STAFF |-> 2, CUSTOMER |-> 1]

Row == [there : BOOLEAN, role : Role, allowed : SUBSET Perm, suspended : BOOLEAN]
Gone == [there |-> FALSE, role |-> "CUSTOMER", allowed |-> {}, suspended |-> FALSE]

\* loadUser: the account's own permissions, or nobody.
Loads(u) == row[u].there /\ ~row[u].suspended

\* fromJwt and fromApiKey: the credential is asked for every time.
Alive(u, by) == IF by = "key" THEN key[u].live ELSE login[u] = "live"

\* narrowToKey: a key without a scope narrows nothing.
NarrowToKey(u, by) ==
  IF by = "key" /\ key[u].scope # {} THEN row[u].allowed \cap key[u].scope ELSE row[u].allowed

\* refreshUser: TRUE when it throws.
Refused(u, by) == ~Alive(u, by) \/ ~Loads(u)

\* resolve: an owner, of the panel or of the server, is bounded by what he holds;
\* a share is a ceiling and no source.
Resolve(u, own) == IF u = Holder \/ row[u].role = "OWNER" THEN own ELSE share[u] \cap own

Idle == [at |-> "idle", actor |-> Holder, target |-> Holder, kind |-> "unsuspend", row |-> Gone]
Question == [id |-> 0, own |-> {}, at |-> "wait"]

TypeOK ==
  /\ row \in [User -> Row]
  /\ login \in [User -> {"none", "live", "ended"}]
  /\ key \in [User -> [live : BOOLEAN, scope : SUBSET Perm]]
  /\ share \in [User -> SUBSET Perm]
  /\ edit \in [Edit -> [at : {"idle", "write", "count", "revoke"}, actor : User, target : User,
                     kind : {"patch", "suspend", "unsuspend", "delete"}, row : Row]]
  /\ edits \in 0 .. MaxEdits
  /\ console \in [at : {"shut", "open", "closed"}, user : User \cup {NoUser},
                  by : {"session", "key"}, first : SUBSET Perm]
  /\ typed \in 0 .. MaxSent
  /\ queue \in Seq([id : 0 .. MaxSent, own : SUBSET Perm, at : {"wait", "resolve"}])
  /\ sent \in Seq(1 .. MaxSent)
  /\ held \in [1 .. MaxSent -> SUBSET {"account", "share"}]
  /\ feed \in [at : {"shut", "open", "closed"}, user : User \cup {NoUser},
               known : {"nothing", "sees", "blind"}, stale : BOOLEAN]
  /\ relay \in [Relay -> {"idle", "asked", "sees", "blind"}]

\* Accounts that are there or not, signed in; sub-users with a full share; nobody
\* has a connection, or nobody is going to have one.
Init ==
  /\ row \in [User -> {Gone} \cup {[there |-> TRUE, role |-> o, allowed |-> Perm, suspended |-> FALSE] :
                                   o \in {"OWNER", "CUSTOMER"}}]
  /\ row[Holder].role = "OWNER"
  /\ login = [u \in User |-> IF row[u].there THEN "live" ELSE "none"]
  /\ key = [u \in User |-> [live |-> row[u].role = "CUSTOMER" /\ row[u].there, scope |-> {"console"}]]
  /\ share = [u \in User |-> IF row[u].role = "CUSTOMER" /\ row[u].there THEN Perm ELSE {}]
  /\ edit = [e \in Edit |-> Idle] /\ edits \in 0 .. MaxEdits
  /\ console \in [at : {"shut", "closed"}, user : {NoUser}, by : {"session"}, first : {{}}]
  /\ typed = 0 /\ queue = <<>> /\ sent = <<>>
  /\ held = [i \in 1 .. MaxSent |-> {}]
  /\ feed \in [at : {"shut", "closed"}, user : {NoUser}, known : {"nothing"}, stale : {FALSE}]
  /\ relay = [e \in Relay |-> "idle"]

-----------------------------------------------------------------------------
(***************************************************************************)
(* Administrators. A request reads the target, is refused or goes on, writes   *)
(* the row, and then ends the sessions.                                       *)
(***************************************************************************)
Owners == {u \in User : row[u].there /\ row[u].role = "OWNER"}

\* assertOutranks, and that nobody suspends or deletes himself.
Outranks(a, u) == row[a].role = "OWNER" \/ Priority[row[a].role] > Priority[row[u].role]

AskEdit(e, a, u, kind) ==
  /\ edit[e].at = "idle" /\ edits < MaxEdits
  /\ login[a] = "live" /\ Loads(a) /\ row[a].role # "CUSTOMER" /\ row[u].there
  /\ Outranks(a, u)
  /\ \/ kind \in {"suspend", "unsuspend"} /\ (kind = "suspend" => a # u)
        /\ edit' = [edit EXCEPT ![e] = [at |-> "write", actor |-> a, target |-> u, kind |-> kind,
                      row |-> [row[u] EXCEPT !.suspended = kind = "suspend"]]]
     \/ /\ kind = "patch"
        /\ \E to \in Role, allowed \in SUBSET Perm :
             /\ row[a].role = "OWNER" \/ Priority[row[a].role] > Priority[to]
             /\ to = row[u].role \/ allowed = row[u].allowed       \* enough of the inputs
             /\ allowed \ row[u].allowed \subseteq row[a].allowed   \* assertCanGrant
             /\ edit' = [edit EXCEPT ![e] = [at |-> "write", actor |-> a, target |-> u, kind |-> kind,
                           row |-> [row[u] EXCEPT !.role = to, !.allowed = allowed]]]
     \/ /\ kind = "delete" /\ a # u /\ u # Holder
        /\ edit' = [edit EXCEPT ![e] = [at |-> IF row[u].role = "OWNER" THEN "count" ELSE "write",
                      actor |-> a, target |-> u, kind |-> kind, row |-> Gone]]
  /\ edits' = edits + 1
  /\ UNCHANGED <<rights, conn, feeding>>

\* The last owner stays: two owners who delete each other at once both count two.
CountOwners(e) ==
  /\ edit[e].at = "count"
  /\ edit' = [edit EXCEPT ![e].at = IF Cardinality(Owners) > 1 THEN "write" ELSE "idle"]
  /\ UNCHANGED <<rights, edits, conn, feeding>>

\* An update sets the fields it was given; one of a row that is gone throws. A
\* deleted account's sessions, keys and shares go with it.
WriteEdit(e) ==
  LET u == edit[e].target new == edit[e].row IN
  /\ edit[e].at = "write"
  /\ IF ~row[u].there THEN UNCHANGED rights
     ELSE /\ row' = [row EXCEPT ![u] =
               CASE edit[e].kind = "patch"  -> [@ EXCEPT !.role = new.role, !.allowed = new.allowed]
                 [] edit[e].kind = "delete" -> Gone
                 [] OTHER                   -> [@ EXCEPT !.suspended = new.suspended]]
          /\ login' = [login EXCEPT ![u] = IF edit[e].kind = "delete" THEN "none" ELSE @]
          /\ key' = [key EXCEPT ![u].live = @ /\ edit[e].kind # "delete"]
          /\ share' = [share EXCEPT ![u] = IF edit[e].kind = "delete" THEN {} ELSE @]
  /\ edit' = [edit EXCEPT ![e] = IF edit[e].kind \in {"patch", "suspend"} /\ row[u].there
                               THEN [@ EXCEPT !.at = "revoke"] ELSE Idle]
  /\ UNCHANGED <<edits, conn, feeding>>

RevokeAllSessions(e) ==
  LET u == edit[e].target IN
  /\ edit[e].at = "revoke"
  /\ login' = [login EXCEPT ![u] = IF @ = "live" THEN "ended" ELSE @]
  /\ edit' = [edit EXCEPT ![e] = Idle]
  /\ UNCHANGED <<row, key, share, edits, conn, feeding>>

-----------------------------------------------------------------------------
\* The account itself: it signs in again, revokes its key; and the sub-users of
\* the server are set and removed by somebody who holds what he gives.
SignIn(u) ==
  /\ login[u] # "live" /\ Loads(u)
  /\ edits < MaxEdits /\ edits' = edits + 1
  /\ login' = [login EXCEPT ![u] = "live"]
  /\ UNCHANGED <<row, key, share, edit, conn, feeding>>

RevokeKey(u) ==
  /\ key[u].live /\ Loads(u)
  /\ edits < MaxEdits /\ edits' = edits + 1
  /\ key' = [key EXCEPT ![u].live = FALSE]
  /\ UNCHANGED <<row, login, share, edit, conn, feeding>>

SetSubuser(u) ==
  /\ u # Holder /\ row[u].there /\ Loads(Holder)
  /\ edits < MaxEdits /\ edits' = edits + 1
  /\ \E some \in SUBSET row[Holder].allowed :
       some # share[u] /\ share' = [share EXCEPT ![u] = some]
  /\ UNCHANGED <<row, login, key, edit, conn, feeding>>

-----------------------------------------------------------------------------
(***************************************************************************)
(* The console of the server.                                              *)
(***************************************************************************)
MayWatch(u, by) == ~Refused(u, by) /\ "console" \in Resolve(u, NarrowToKey(u, by))

OpenConsole(u, by) ==
  /\ console.at = "shut" /\ MayWatch(u, by)
  /\ console' = [at |-> "open", user |-> u, by |-> by, first |-> Resolve(u, NarrowToKey(u, by))]
  /\ UNCHANGED <<rights, edit, edits, typed, queue, sent, feeding>>

Type ==
  /\ console.at = "open" /\ typed < MaxSent
  /\ typed' = typed + 1
  /\ queue' = Append(queue, [Question EXCEPT !.id = typed + 1])
  /\ UNCHANGED <<rights, edit, edits, console, sent, feeding>>

\* The heartbeat asks what the commands ask.
Heartbeat == console.at = "open" /\ queue = <<>> /\ queue' = <<Question>>

Beat ==
  /\ Heartbeat
  /\ UNCHANGED <<rights, edit, edits, console, typed, sent, feeding>>

\* One at a time: only the first of the queue is worked on.
Turns == {i \in DOMAIN queue : i = 1}

Without(i) == [j \in 1 .. Len(queue) - 1 |-> IF j < i THEN queue[j] ELSE queue[j + 1]]
ShutOut    == console' = [console EXCEPT !.at = "closed"] /\ queue' = <<>>

\* What somebody may do by the account is asked first, ...
Refreshed_Once(i) == [queue EXCEPT ![i] = [@ EXCEPT !.at = "resolve", !.own = console.first]]
Refreshed(i) ==
  [queue EXCEPT ![i] = [@ EXCEPT !.at = "resolve", !.own = NarrowToKey(console.user, console.by)]]

RefreshUser(i) ==
  /\ console.at = "open" /\ queue[i].at = "wait"
  /\ IF Refused(console.user, console.by) THEN ShutOut
     ELSE queue' = Refreshed(i) /\ UNCHANGED console
  /\ UNCHANGED <<rights, edit, edits, typed, sent, feeding>>

\* ... and then on the server, and the command goes to the node.
Require(i) ==
  LET may == Resolve(console.user, queue[i].own) IN
  /\ console.at = "open" /\ queue[i].at = "resolve"
  /\ IF "console" \notin may THEN ShutOut /\ UNCHANGED sent
     ELSE /\ queue' = Without(i)
          /\ sent' = IF queue[i].id # 0 /\ "command" \in may THEN Append(sent, queue[i].id) ELSE sent
          /\ UNCHANGED console
  /\ UNCHANGED <<rights, edit, edits, typed, feeding>>

CloseConsole ==
  /\ console.at = "open" /\ ShutOut
  /\ UNCHANGED <<rights, edit, edits, typed, sent, feeding>>

-----------------------------------------------------------------------------
(***************************************************************************)
(* The account's feed. It hears of every server, and asks what it may pass on   *)
(* when what it knows is older than VISIBILITY_TTL_MS.                         *)
(***************************************************************************)
CanSee(u) == u = Holder \/ row[u].role = "OWNER" \/ share[u] # {}

OpenFeed(u) ==
  /\ feed.at = "shut" /\ ~Refused(u, "session")
  /\ feed' = [feed EXCEPT !.at = "open", !.user = u]
  /\ UNCHANGED <<rights, edit, edits, conn, relay>>

\* What is known grows old.
Fresh == feed.known # "nothing" /\ ~feed.stale

Age ==
  /\ feed.at = "open" /\ feed.known # "nothing" /\ ~feed.stale
  /\ feed' = [feed EXCEPT !.stale = TRUE]
  /\ UNCHANGED <<rights, edit, edits, conn, relay>>

\* An event is passed on, dropped, or waits for a question, of which several may
\* be asked at once; the last to be answered is kept.
Hear(e) ==
  /\ feed.at = "open" /\ relay[e] = "idle" /\ ~Fresh
  /\ IF Refused(feed.user, "session") THEN feed' = [feed EXCEPT !.at = "closed"] /\ UNCHANGED relay
     ELSE relay' = [relay EXCEPT ![e] = "asked"] /\ UNCHANGED feed
  /\ UNCHANGED <<rights, edit, edits, conn>>

ReadServers(e) ==
  /\ relay[e] = "asked"
  /\ relay' = [relay EXCEPT ![e] = IF CanSee(feed.user) THEN "sees" ELSE "blind"]
  /\ UNCHANGED <<rights, edit, edits, conn, feed>>

Know(e) ==
  /\ relay[e] \in {"sees", "blind"}
  /\ relay' = [relay EXCEPT ![e] = "idle"]
  /\ feed' = [feed EXCEPT !.known = relay[e], !.stale = FALSE]
  /\ UNCHANGED <<rights, edit, edits, conn>>

Passes == feed.at = "open" /\ Fresh /\ feed.known = "sees"

-----------------------------------------------------------------------------
\* For the properties: what each waiting command's sender holds, now.
Holds(who) == who.at = "open" /\ ~Refused(who.user, who.by)
Now ==
  (IF Holds(console) /\ "command" \in NarrowToKey(console.user, console.by) THEN {"account"} ELSE {})
  \cup (IF console.at = "open" /\ (console.user = Holder \/ row[console.user].role = "OWNER"
                                   \/ "command" \in share[console.user]) THEN {"share"} ELSE {})

Waiting == {queue[i].id : i \in DOMAIN queue} \ {0}
Witness == held' = [i \in DOMAIN held |-> IF i \in Waiting' THEN held[i] \cup Now' ELSE held[i]]

Administer ==
  \/ \E e \in Edit :
       \/ \E a, u \in User, kind \in {"patch", "suspend", "unsuspend", "delete"} : AskEdit(e, a, u, kind)
       \/ CountOwners(e) \/ WriteEdit(e) \/ RevokeAllSessions(e)
  \/ \E u \in User : SignIn(u) \/ RevokeKey(u) \/ SetSubuser(u)

Work == \E i \in Turns : RefreshUser(i) \/ Require(i)
Watch ==
  \/ \E u \in User, by \in {"session", "key"} : OpenConsole(u, by)
  \/ Type \/ Beat \/ Work \/ CloseConsole

Listen == \E e \in Relay : Hear(e) \/ ReadServers(e) \/ Know(e)
Follow == (\E u \in User : OpenFeed(u)) \/ Age \/ Listen

Next == (Administer \/ Watch \/ Follow) /\ Witness

Fairness == WF_vars(Work /\ Witness) /\ WF_vars(Beat /\ Witness) /\ WF_vars(Age /\ Witness)
Spec == Init /\ [][Next]_vars /\ Fairness

-----------------------------------------------------------------------------
\* A command that reaches the node was its sender's to give after it was typed:
\* the account held the permission, and the share did, at some moment while the
\* command waited. And commands arrive in the order in which they were typed.
ConsoleObeys ==
  /\ \A i \in DOMAIN sent : held[sent[i]] = {"account", "share"}
  /\ \A i, j \in DOMAIN sent : i < j => sent[i] < sent[j]

\* A console whose watcher may not watch it any more is closed, without a command
\* being typed, unless he is let in again first.
WithdrawnIsClosed ==
  console.at = "open" /\ ~MayWatch(console.user, console.by)
    ~> console.at # "open" \/ MayWatch(console.user, console.by)

\* A feed stops passing on what its account has lost sight of for good.
FeedEnds ==
  (<>[](feed.at = "open" => ~CanSee(feed.user))) => <>[]~Passes
===============================================================================
