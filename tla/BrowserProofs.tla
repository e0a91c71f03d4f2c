----------------------------- MODULE BrowserProofs -----------------------------
(***************************************************************************)
(* What is proved of MCBrowser, for any number of users, edits, commands, replicas,   *)
(* notifications, templates, folders, keys and ports: that a console passes on what   *)
(* its watcher may send (ConsoleObeys), and that each page's state is of its type and  *)
(* what it sends of what it showed (PagesSendWhatTheyShow). Each part has an invariant  *)
(* of its own; a part that stands still keeps it.                                *)
(***************************************************************************)
EXTENDS MCBrowser, Sequences, TLAPS

-----------------------------------------------------------------------------
(***************************************************************************)
(* Access. A command that waits was recorded with whatever its sender has held since   *)
(* it was typed; commands wait, and were sent, in the order in which they were typed.  *)
(***************************************************************************)
Waits == [id : 0 .. MaxSent, own : SUBSET X!Perm, at : {"wait", "resolve"}]
Both  == {"account", "share"}

\* A console that is open is somebody's.
Watched == console.at = "open" => console.user \in User

InOrder ==
  /\ \A i, j \in DOMAIN queue : i < j => queue[i].id < queue[j].id
  /\ \A i, j \in DOMAIN sent : i < j => sent[i] < sent[j]
  /\ \A i \in DOMAIN sent, j \in DOMAIN queue : queue[j].id # 0 => sent[i] < queue[j].id
  /\ \A i \in DOMAIN queue : queue[i].id <= typed
  /\ \A i \in DOMAIN sent : sent[i] <= typed

\* What the sender holds now was recorded, and so was what the account held when the
\* command was first looked at.
Recorded ==
  /\ \A i \in DOMAIN queue : queue[i].id # 0 => X!Now \subseteq held[queue[i].id]
  /\ \A i \in DOMAIN queue :
       queue[i].id # 0 /\ queue[i].at = "resolve" /\ "command" \in queue[i].own => "account" \in held[queue[i].id]
  /\ \A i \in DOMAIN sent : held[sent[i]] = Both

AccessInv == X!TypeOK /\ Watched /\ InOrder /\ Recorded

\* Nobody has a connection yet.
LEMMA AccessStart == ASSUME X!AccessAssumption, X!Init PROVE AccessInv
<1>1. X!TypeOK
  <2>1. row \in [User -> X!Row]
    <3>1. X!Gone \in X!Row BY DEF X!Gone, X!Row, X!Role
    <3>2. \A o \in {"OWNER", "CUSTOMER"} : [there |-> TRUE, role |-> o, allowed |-> X!Perm, suspended |-> FALSE] \in X!Row
      BY DEF X!Row, X!Role
    <3>3. {X!Gone} \cup {[there |-> TRUE, role |-> o, allowed |-> X!Perm, suspended |-> FALSE] : o \in {"OWNER", "CUSTOMER"}}
            \subseteq X!Row BY <3>1, <3>2
    <3>4. row \in [User -> {X!Gone} \cup {[there |-> TRUE, role |-> o, allowed |-> X!Perm, suspended |-> FALSE] :
                                       o \in {"OWNER", "CUSTOMER"}}] BY DEF X!Init
    <3> HIDE DEF X!Row
    <3> QED BY <3>3, <3>4
  <2>2. X!Idle.row \in X!Row /\ Holder \in User BY DEF X!Idle, X!Gone, X!Row, X!Role, X!AccessAssumption
  <2>3. queue = <<>> /\ sent = <<>> BY DEF X!Init
  <2>4. edit \in [Edit -> [at : {"idle", "write", "count", "revoke"}, actor : User, target : User,
                     kind : {"patch", "suspend", "unsuspend", "delete"}, row : X!Row]]
    BY <2>2 DEF X!Init, X!Idle
  <2>5. key \in [User -> [live : BOOLEAN, scope : SUBSET X!Perm]] /\ share \in [User -> SUBSET X!Perm]
        /\ login \in [User -> {"none", "live", "ended"}]
    BY DEF X!Init, X!Perm
  <2>6. edits \in 0 .. MaxEdits /\ typed \in 0 .. MaxSent BY DEF X!Init, X!AccessAssumption
  <2>7. console \in [at : {"shut", "open", "closed"}, user : User \cup {NoUser}, by : {"session", "key"}, first : SUBSET X!Perm]
    BY DEF X!Init
  <2>8. held \in [1 .. MaxSent -> SUBSET {"account", "share"}] /\ relay \in [Relay -> {"idle", "asked", "sees", "blind"}]
    BY DEF X!Init
  <2>9. feed \in [at : {"shut", "open", "closed"}, user : User \cup {NoUser}, known : {"nothing", "sees", "blind"}, stale : BOOLEAN]
    BY DEF X!Init
  <2>10. queue \in Seq([id : 0 .. MaxSent, own : SUBSET X!Perm, at : {"wait", "resolve"}]) /\ sent \in Seq(1 .. MaxSent)
    BY <2>3
  <2> QED BY <2>1, <2>4, <2>5, <2>6, <2>7, <2>8, <2>9, <2>10 DEF X!TypeOK
<1>2. Watched /\ InOrder /\ Recorded BY DEF X!Init, Watched, InOrder, Recorded
<1> QED BY <1>1, <1>2 DEF AccessInv

\* What a step records of those that wait after it.
LEMMA WitnessKeeps ==
  ASSUME X!TypeOK, X!Witness
  PROVE  /\ held' \in [1 .. MaxSent -> SUBSET Both]
         /\ \A n \in 1 .. MaxSent : held[n] \subseteq held'[n]
         /\ \A n \in 1 .. MaxSent : n \in X!Waiting' => X!Now' \subseteq held'[n]
<1>1. X!Now' \subseteq Both BY DEF X!Now, Both
<1>2. held \in [1 .. MaxSent -> SUBSET Both] BY DEF X!TypeOK, Both
<1>3. held' = [n \in 1 .. MaxSent |-> IF n \in X!Waiting' THEN held[n] \cup X!Now' ELSE held[n]]
  BY <1>2 DEF X!Witness
<1> HIDE DEF Both
<1> QED BY <1>1, <1>2, <1>3

\* What a sequence is of.
LEMMA InSeq == ASSUME NEW Of, NEW s \in Seq(Of), NEW i \in DOMAIN s PROVE s[i] \in Of
OBVIOUS

\* A step that leaves the queue and what was sent alone.
LEMMA QueueStill ==
  ASSUME AccessInv, X!TypeOK', X!Witness, UNCHANGED <<queue, sent, typed>>,
         Watched'
  PROVE  AccessInv'
<1>1. X!TypeOK BY DEF AccessInv
<1>2. queue \in Seq(Waits) /\ sent \in Seq(1 .. MaxSent) BY <1>1 DEF X!TypeOK, Waits
<1>3. InOrder' BY DEF AccessInv, InOrder
<1>4. ASSUME NEW i \in DOMAIN queue, queue[i].id # 0 PROVE queue[i].id \in 1 .. MaxSent /\ queue[i].id \in X!Waiting'
  <2>1. queue[i] \in Waits BY <1>2
  <2> QED BY <1>4, <2>1 DEF Waits, X!Waiting
<1>5. \A i \in DOMAIN sent : sent[i] \in 1 .. MaxSent BY <1>2, InSeq
<1>6. /\ held' \in [1 .. MaxSent -> SUBSET Both]
      /\ \A n \in 1 .. MaxSent : held[n] \subseteq held'[n]
      /\ \A n \in 1 .. MaxSent : n \in X!Waiting' => X!Now' \subseteq held'[n]
  BY <1>1, WitnessKeeps
<1>7. Recorded'
  <2>1. \A i \in DOMAIN queue : queue[i].id # 0 => X!Now' \subseteq held'[queue[i].id] BY <1>4, <1>6
  <2>2. \A i \in DOMAIN queue :
         queue[i].id # 0 /\ queue[i].at = "resolve" /\ "command" \in queue[i].own => "account" \in held'[queue[i].id]
    BY <1>4, <1>6 DEF AccessInv, Recorded
  <2>3. ASSUME NEW i \in DOMAIN sent PROVE held'[sent[i]] = Both
    <3>1. sent[i] \in 1 .. MaxSent /\ held[sent[i]] = Both BY <1>5 DEF AccessInv, Recorded
    <3>2. held'[sent[i]] \in SUBSET Both /\ held[sent[i]] \subseteq held'[sent[i]] BY <3>1, <1>6
    <3> QED BY <3>1, <3>2
  <2> QED BY <2>1, <2>2, <2>3 DEF Recorded
<1> QED BY <1>3, <1>7 DEF AccessInv

-----------------------------------------------------------------------------
(***************************************************************************)
(* Administrators and accounts: they change who may do what, and no connection.      *)
(***************************************************************************)
EditRecord == [at : {"idle", "write", "count", "revoke"}, actor : User, target : User,
               kind : {"patch", "suspend", "unsuspend", "delete"}, row : X!Row]

RightsTyped ==
  /\ row \in [User -> X!Row]
  /\ login \in [User -> {"none", "live", "ended"}]
  /\ key \in [User -> [live : BOOLEAN, scope : SUBSET X!Perm]]
  /\ share \in [User -> SUBSET X!Perm]
  /\ edit \in [Edit -> EditRecord]
  /\ edits \in 0 .. MaxEdits

\* Nobody's edit, and a row that is gone.
LEMMA IdleEdit == ASSUME X!AccessAssumption PROVE X!Idle \in EditRecord /\ X!Gone \in X!Row
BY DEF X!AccessAssumption, X!Idle, EditRecord, X!Gone, X!Row, X!Role

\* A key that is revoked, or not, is still one.
LEMMA KeyCell ==
  ASSUME NEW Rest, key \in [User -> [live : BOOLEAN, scope : Rest]], NEW u \in User, NEW lives \in BOOLEAN
  PROVE  [key EXCEPT ![u].live = lives] \in [User -> [live : BOOLEAN, scope : Rest]]
<1>1. [key[u] EXCEPT !.live = lives] \in [live : BOOLEAN, scope : Rest] OBVIOUS
<1> QED BY <1>1

\* A request that is taken names a row that could be written.
LEMMA AskTyped ==
  ASSUME X!AccessAssumption, RightsTyped, NEW e \in Edit, NEW a \in User, NEW u \in User,
         NEW kind \in {"patch", "suspend", "unsuspend", "delete"}, X!AskEdit(e, a, u, kind)
  PROVE  RightsTyped'
<1>1. row[u] \in X!Row BY DEF RightsTyped
<1>2. PICK at \in {"write", "count"}, new \in X!Row :
        edit' = [edit EXCEPT ![e] = [at |-> at, actor |-> a, target |-> u, kind |-> kind, row |-> new]]
  <2>1. CASE kind \in {"suspend", "unsuspend"}
    <3>1. [row[u] EXCEPT !.suspended = kind = "suspend"] \in X!Row BY <1>1 DEF X!Row
    <3> QED BY <2>1, <3>1 DEF X!AskEdit
  <2>2. CASE kind = "patch"
    <3>1. PICK to \in X!Role, allowed \in SUBSET X!Perm :
            edit' = [edit EXCEPT ![e] = [at |-> "write", actor |-> a, target |-> u, kind |-> kind,
                           row |-> [row[u] EXCEPT !.role = to, !.allowed = allowed]]]
      BY <2>2 DEF X!AskEdit
    <3>2. [row[u] EXCEPT !.role = to, !.allowed = allowed] \in X!Row BY <1>1 DEF X!Row
    <3> QED BY <3>1, <3>2
  <2>3. CASE kind = "delete"
    BY <2>3, IdleEdit DEF X!AskEdit
  <2> QED BY <2>1, <2>2, <2>3
<1>3. edit' \in [Edit -> EditRecord] BY <1>2 DEF RightsTyped, EditRecord
<1>4. edits' \in 0 .. MaxEdits
  <2>1. edits < MaxEdits /\ edits' = edits + 1 BY Zenon DEF X!AskEdit
  <2> QED BY <2>1 DEF RightsTyped, X!AccessAssumption
<1>5. UNCHANGED <<row, login, key, share>> BY DEF X!AskEdit, X!rights
<1> QED BY <1>3, <1>4, <1>5 DEF RightsTyped

\* The rest of a request writes rows that could be.
LEMMA EditTyped ==
  ASSUME X!AccessAssumption, RightsTyped, NEW e \in Edit,
         X!CountOwners(e) \/ X!WriteEdit(e) \/ X!RevokeAllSessions(e)
  PROVE  RightsTyped'
<1>0. edit[e] \in EditRecord BY DEF RightsTyped
<1> DEFINE u == edit[e].target
           new == edit[e].row
<1>1. u \in User /\ new \in X!Row BY <1>0 DEF EditRecord
<1>2. CASE X!CountOwners(e)
  <2>1. edit' \in [Edit -> EditRecord]
    <3>1. PICK at \in {"write", "idle"} : edit' = [edit EXCEPT ![e] = [edit[e] EXCEPT !.at = at]]
      BY <1>2 DEF X!CountOwners, RightsTyped
    <3>2. [edit[e] EXCEPT !.at = at] \in EditRecord BY <1>0 DEF EditRecord
    <3> QED BY <3>1, <3>2 DEF RightsTyped
  <2> QED BY <1>2, <2>1 DEF X!CountOwners, RightsTyped, X!rights
<1>3. CASE X!WriteEdit(e)
  <2>1. edit' \in [Edit -> EditRecord]
    <3>1. [edit[e] EXCEPT !.at = "revoke"] \in EditRecord BY <1>0 DEF EditRecord
    <3>2. edit' \in {[edit EXCEPT ![e] = [edit[e] EXCEPT !.at = "revoke"]], [edit EXCEPT ![e] = X!Idle]}
      BY <1>3 DEF X!WriteEdit, RightsTyped
    <3> QED BY <3>1, <3>2, IdleEdit DEF RightsTyped
  <2>2. CASE ~row[u].there
    BY <1>3, <2>1, <2>2 DEF X!WriteEdit, RightsTyped, X!rights
  <2>3. CASE row[u].there
    <3>1. PICK w \in X!Row : row' = [row EXCEPT ![u] = w]
      <4>1. row[u] \in X!Row BY <1>1 DEF RightsTyped
      <4>2. [row[u] EXCEPT !.role = new.role, !.allowed = new.allowed] \in X!Row BY <4>1, <1>1 DEF X!Row
      <4>3. [row[u] EXCEPT !.suspended = new.suspended] \in X!Row BY <4>1, <1>1 DEF X!Row
      <4>4. edit[e].kind \in {"patch", "suspend", "unsuspend", "delete"} BY <1>0 DEF EditRecord
      <4>5. CASE edit[e].kind = "patch"
        <5>1. row' = [row EXCEPT ![u] = [row[u] EXCEPT !.role = new.role, !.allowed = new.allowed]]
          BY <1>3, <2>3, <4>5, <1>1 DEF X!WriteEdit, RightsTyped
        <5> QED BY <5>1, <4>2
      <4>6. CASE edit[e].kind = "delete"
        <5>1. row' = [row EXCEPT ![u] = X!Gone] BY <1>3, <2>3, <4>6 DEF X!WriteEdit
        <5> QED BY <5>1, IdleEdit
      <4>7. CASE edit[e].kind \in {"suspend", "unsuspend"}
        <5>1. row' = [row EXCEPT ![u] = [row[u] EXCEPT !.suspended = new.suspended]]
          BY <1>3, <2>3, <4>7, <1>1 DEF X!WriteEdit, RightsTyped
        <5> QED BY <5>1, <4>3
      <4> QED BY <4>4, <4>5, <4>6, <4>7
    <3>2. row' \in [User -> X!Row] BY <3>1 DEF RightsTyped
    <3>3. login' \in [User -> {"none", "live", "ended"}] BY <1>3, <2>3 DEF X!WriteEdit, RightsTyped
    <3>4. key' \in [User -> [live : BOOLEAN, scope : SUBSET X!Perm]]
      <4>1. PICK lives \in BOOLEAN : key' = [key EXCEPT ![u].live = lives]
        <5>1. key' = [key EXCEPT ![u].live = key[u].live /\ edit[e].kind # "delete"] BY <1>3, <2>3 DEF X!WriteEdit
        <5> QED BY <5>1
      <4> QED BY <4>1, <1>1, KeyCell DEF RightsTyped
    <3>5. share' \in [User -> SUBSET X!Perm] BY <1>3, <2>3 DEF X!WriteEdit, RightsTyped
    <3> QED BY <1>3, <2>1, <3>2, <3>3, <3>4, <3>5 DEF X!WriteEdit, RightsTyped
  <2> QED BY <2>2, <2>3
<1>4. CASE X!RevokeAllSessions(e)
  BY <1>4, IdleEdit DEF X!RevokeAllSessions, RightsTyped
<1> QED BY <1>2, <1>3, <1>4

\* Whoever administers, or an account itself, leaves every connection as it is.
LEMMA AdministerTyped ==
  ASSUME X!AccessAssumption, RightsTyped, X!Administer
  PROVE  RightsTyped' /\ UNCHANGED <<console, typed, queue, sent, feed, relay>>
<1> USE DEF X!conn, X!feeding
<1>1. ASSUME NEW e \in Edit, NEW a \in User, NEW u \in User, NEW kind \in {"patch", "suspend", "unsuspend", "delete"},
             X!AskEdit(e, a, u, kind)
      PROVE  RightsTyped' /\ UNCHANGED <<console, typed, queue, sent, feed, relay>>
  BY <1>1, AskTyped DEF X!AskEdit
<1>2. ASSUME NEW e \in Edit, X!CountOwners(e) \/ X!WriteEdit(e) \/ X!RevokeAllSessions(e)
      PROVE  RightsTyped' /\ UNCHANGED <<console, typed, queue, sent, feed, relay>>
  BY <1>2, EditTyped DEF X!CountOwners, X!WriteEdit, X!RevokeAllSessions
<1>3. ASSUME NEW u \in User, X!SignIn(u) \/ X!RevokeKey(u)
      PROVE  RightsTyped' /\ UNCHANGED <<console, typed, queue, sent, feed, relay>>
  <2>1. edits' \in 0 .. MaxEdits BY <1>3 DEF X!SignIn, X!RevokeKey, RightsTyped, X!AccessAssumption
  <2>2. CASE X!SignIn(u) BY <2>1, <2>2 DEF X!SignIn, RightsTyped
  <2>3. CASE X!RevokeKey(u)
    <3>1. key' \in [User -> [live : BOOLEAN, scope : SUBSET X!Perm]] BY <2>3, KeyCell DEF X!RevokeKey, RightsTyped
    <3> QED BY <2>1, <2>3, <3>1 DEF X!RevokeKey, RightsTyped
  <2> QED BY <1>3, <2>2, <2>3
<1>4. ASSUME NEW u \in User, X!SetSubuser(u)
      PROVE  RightsTyped' /\ UNCHANGED <<console, typed, queue, sent, feed, relay>>
  <2>1. row[Holder].allowed \subseteq X!Perm BY DEF RightsTyped, X!Row, X!AccessAssumption
  <2> QED BY <1>4, <2>1 DEF X!SetSubuser, RightsTyped, X!AccessAssumption
<1> QED BY <1>1, <1>2, <1>3, <1>4 DEF X!Administer

-----------------------------------------------------------------------------
(***************************************************************************)
(* The connections: the feed, which carries nothing of the console, and the console.  *)
(***************************************************************************)
ConsoleTyped ==
  /\ console \in [at : {"shut", "open", "closed"}, user : User \cup {NoUser}, by : {"session", "key"}, first : SUBSET X!Perm]
  /\ typed \in 0 .. MaxSent /\ queue \in Seq(Waits) /\ sent \in Seq(1 .. MaxSent)

FeedTyped ==
  /\ feed \in [at : {"shut", "open", "closed"}, user : User \cup {NoUser}, known : {"nothing", "sees", "blind"}, stale : BOOLEAN]
  /\ relay \in [Relay -> {"idle", "asked", "sees", "blind"}]

HeldTyped == held \in [1 .. MaxSent -> SUBSET Both]

LEMMA AccessParts == X!TypeOK <=> RightsTyped /\ ConsoleTyped /\ FeedTyped /\ HeldTyped
BY DEF X!TypeOK, RightsTyped, EditRecord, ConsoleTyped, FeedTyped, HeldTyped, Waits, Both

LEMMA AccessPartsAfter == (X!TypeOK <=> RightsTyped /\ ConsoleTyped /\ FeedTyped /\ HeldTyped)'
BY DEF X!TypeOK, RightsTyped, EditRecord, ConsoleTyped, FeedTyped, HeldTyped, Waits, Both, X!Row, X!Role, X!Perm

\* A feed opens, hears, asks and grows old, and nothing else moves.
LEMMA FollowTyped ==
  ASSUME FeedTyped, X!Follow
  PROVE  FeedTyped' /\ UNCHANGED <<row, login, key, share, edit, edits, console, typed, queue, sent>>
<1> USE DEF X!rights, X!conn
<1>1. ASSUME NEW u \in User, X!OpenFeed(u)
      PROVE  FeedTyped' /\ UNCHANGED <<row, login, key, share, edit, edits, console, typed, queue, sent>>
  BY <1>1 DEF X!OpenFeed, FeedTyped
<1>2. CASE X!Age BY <1>2 DEF X!Age, FeedTyped
<1>3. ASSUME NEW e \in Relay, X!Hear(e) \/ X!ReadServers(e) \/ X!Know(e)
      PROVE  FeedTyped' /\ UNCHANGED <<row, login, key, share, edit, edits, console, typed, queue, sent>>
  <2>1. CASE X!Hear(e) BY <2>1 DEF X!Hear, FeedTyped
  <2>2. CASE X!ReadServers(e) BY <2>2 DEF X!ReadServers, FeedTyped
  <2>3. CASE X!Know(e) BY <2>3 DEF X!Know, FeedTyped
  <2> QED BY <1>3, <2>1, <2>2, <2>3
<1> QED BY <1>1, <1>2, <1>3 DEF X!Follow, X!Listen

\* What a step records is enough: of what waits after it, what was decided of it before
\* is recorded, and what was sent had been recorded whole.
LEMMA RecordedStep ==
  ASSUME X!TypeOK, X!TypeOK', X!Witness,
         \A i \in DOMAIN queue' :
           queue'[i].id # 0 /\ queue'[i].at = "resolve" /\ "command" \in queue'[i].own => "account" \in held'[queue'[i].id],
         \A i \in DOMAIN sent' : held[sent'[i]] = Both
  PROVE  Recorded'
<1>1. queue' \in Seq(Waits) /\ sent' \in Seq(1 .. MaxSent) BY DEF X!TypeOK, Waits
<1>2. ASSUME NEW i \in DOMAIN queue', queue'[i].id # 0 PROVE queue'[i].id \in 1 .. MaxSent /\ queue'[i].id \in X!Waiting'
  <2>1. queue'[i] \in Waits BY <1>1, InSeq
  <2> QED BY <1>2, <2>1 DEF Waits, X!Waiting
<1>3. \A i \in DOMAIN sent' : sent'[i] \in 1 .. MaxSent BY <1>1, InSeq
<1>4. /\ held' \in [1 .. MaxSent -> SUBSET Both]
      /\ \A n \in 1 .. MaxSent : held[n] \subseteq held'[n]
      /\ \A n \in 1 .. MaxSent : n \in X!Waiting' => X!Now' \subseteq held'[n]
  BY WitnessKeeps
<1>5. \A i \in DOMAIN queue' : queue'[i].id # 0 => X!Now' \subseteq held'[queue'[i].id] BY <1>2, <1>4
<1>6. ASSUME NEW i \in DOMAIN sent' PROVE held'[sent'[i]] = Both
  <2>1. sent'[i] \in 1 .. MaxSent /\ held[sent'[i]] = Both BY <1>3
  <2>2. held'[sent'[i]] \in SUBSET Both /\ held[sent'[i]] \subseteq held'[sent'[i]] BY <2>1, <1>4
  <2> QED BY <2>1, <2>2
<1> QED BY <1>5, <1>6 DEF Recorded

LEMMA QuestionIs == ASSUME NEW n PROVE [X!Question EXCEPT !.id = n] = [id |-> n, own |-> {}, at |-> "wait"]
BY DEF X!Question

\* One more waits, at the end.
LEMMA TypeKeeps ==
  ASSUME X!AccessAssumption, AccessInv, X!Type, X!Witness
  PROVE  AccessInv'
<1>1. X!TypeOK /\ RightsTyped /\ ConsoleTyped /\ FeedTyped BY AccessParts DEF AccessInv
<1>2. typed < MaxSent /\ typed' = typed + 1 /\ typed' \in 1 .. MaxSent
  BY <1>1 DEF X!Type, ConsoleTyped, X!AccessAssumption
<1> DEFINE new == [id |-> typed + 1, own |-> {}, at |-> "wait"]
<1>3. queue' = Append(queue, new) BY Zenon, QuestionIs DEF X!Type
<1>4. new \in Waits BY <1>2 DEF Waits
<1>5. queue \in Seq(Waits) /\ sent \in Seq(1 .. MaxSent) /\ sent' = sent BY <1>1 DEF ConsoleTyped, X!Type
<1>6. queue' \in Seq(Waits) /\ Len(queue') = Len(queue) + 1 /\ queue'[Len(queue) + 1] = new
      /\ (\A i \in DOMAIN queue : queue'[i] = queue[i])
      /\ DOMAIN queue' = DOMAIN queue \cup {Len(queue) + 1}
  BY <1>3, <1>4, <1>5
<1>7. X!TypeOK'
  <2>1. RightsTyped' BY <1>1 DEF X!Type, X!rights, RightsTyped
  <2>2. ConsoleTyped' BY <1>1, <1>2, <1>5, <1>6 DEF X!Type, ConsoleTyped
  <2>3. FeedTyped' BY <1>1 DEF X!Type, X!feeding, FeedTyped
  <2>4. HeldTyped' BY <1>1, WitnessKeeps DEF HeldTyped
  <2> QED BY <2>1, <2>2, <2>3, <2>4, AccessPartsAfter
<1>8. Watched' BY DEF X!Type, Watched, AccessInv
<1>9. InOrder'
  <2>1. ASSUME NEW i \in DOMAIN queue PROVE queue[i].id \in 0 .. MaxSent
    <3>1. queue[i] \in Waits BY <1>5, InSeq
    <3> QED BY <3>1 DEF Waits
  <2>2. \A i \in DOMAIN sent : sent[i] \in 1 .. MaxSent BY <1>5, InSeq
  <2>3. InOrder BY DEF AccessInv
  <2>4. typed \in 0 .. MaxSent BY <1>1 DEF ConsoleTyped
  <2>5. \A i \in DOMAIN queue : i < Len(queue) + 1 /\ i \in Nat BY <1>5
  <2>6. \A i, j \in DOMAIN queue' : i < j => queue'[i].id < queue'[j].id
    <3> SUFFICES ASSUME NEW i \in DOMAIN queue', NEW j \in DOMAIN queue', i < j PROVE queue'[i].id < queue'[j].id OBVIOUS
    <3>1. i \in DOMAIN queue BY <1>6, <2>5, <1>5
    <3>2. CASE j \in DOMAIN queue BY <3>1, <3>2, <1>6, <2>3 DEF InOrder
    <3>3. CASE j = Len(queue) + 1 BY <3>1, <3>3, <1>6, <2>1, <2>3, <2>4 DEF InOrder
    <3> QED BY <3>2, <3>3, <1>6
  <2>7. \A i \in DOMAIN sent, j \in DOMAIN queue' : queue'[j].id # 0 => sent[i] < queue'[j].id
    <3> SUFFICES ASSUME NEW i \in DOMAIN sent, NEW j \in DOMAIN queue', queue'[j].id # 0 PROVE sent[i] < queue'[j].id OBVIOUS
    <3>1. CASE j \in DOMAIN queue BY <3>1, <1>6, <2>3 DEF InOrder
    <3>2. CASE j = Len(queue) + 1 BY <3>2, <1>6, <2>2, <2>3, <2>4 DEF InOrder
    <3> QED BY <3>1, <3>2, <1>6
  <2>8. \A i \in DOMAIN queue' : queue'[i].id <= typed'
    BY <1>2, <1>6, <2>1, <2>3, <2>4 DEF InOrder
  <2>9. \A i \in DOMAIN sent : sent[i] <= typed' BY <1>2, <2>2, <2>3, <2>4 DEF InOrder
  <2> QED BY <1>5, <2>3, <2>6, <2>7, <2>8, <2>9 DEF InOrder
<1>10. Recorded'
  <2>1. ASSUME NEW i \in DOMAIN queue', queue'[i].id # 0, queue'[i].at = "resolve", "command" \in queue'[i].own
        PROVE  "account" \in held'[queue'[i].id]
    <3>1. i \in DOMAIN queue BY <1>6, <2>1
    <3>2. queue[i] \in Waits /\ queue'[i] = queue[i] BY <3>1, <1>5, <1>6
    <3>3. queue[i].id \in 1 .. MaxSent BY <2>1, <3>2 DEF Waits
    <3>4. "account" \in held[queue[i].id] BY <2>1, <3>1, <3>2 DEF AccessInv, Recorded
    <3> QED BY <1>1, <3>2, <3>3, <3>4, WitnessKeeps
  <2>2. \A i \in DOMAIN sent' : held[sent'[i]] = Both BY <1>5 DEF AccessInv, Recorded
  <2> QED BY <1>1, <1>7, <2>1, <2>2, RecordedStep
<1> QED BY <1>7, <1>8, <1>9, <1>10 DEF AccessInv

\* Nothing waits any more; or the timer's question alone.
LEMMA EmptyKeeps ==
  ASSUME AccessInv, X!TypeOK', X!Witness, UNCHANGED <<sent, typed>>, queue' \in {<<>>, <<X!Question>>}, Watched'
  PROVE  AccessInv'
<1>1. X!TypeOK BY DEF AccessInv
<1>2. \A i \in DOMAIN queue' : i = 1 /\ queue'[i] = [id |-> 0, own |-> {}, at |-> "wait"] BY DEF X!Question
<1>3. ConsoleTyped BY <1>1, AccessParts
<1>4. InOrder'
  <2>1. InOrder BY DEF AccessInv
  <2>2. \A i \in DOMAIN queue' : i = 1 /\ queue'[i].id = 0 BY <1>2
  <2>3. typed \in Nat BY <1>3 DEF ConsoleTyped
  <2> QED BY <2>1, <2>2, <2>3 DEF InOrder
<1>5. Recorded'
  <2>1. \A i \in DOMAIN sent' : held[sent'[i]] = Both BY DEF AccessInv, Recorded
  <2> QED BY <1>1, <1>2, <2>1, RecordedStep
<1> QED BY <1>4, <1>5 DEF AccessInv

\* A step of the console that leaves the rest alone.
LEMMA ConsoleMoves ==
  ASSUME X!TypeOK, X!Witness, ConsoleTyped', UNCHANGED <<row, login, key, share, edit, edits, feed, relay>>
  PROVE  X!TypeOK'
<1>1. RightsTyped /\ FeedTyped BY AccessParts
<1>2. RightsTyped' BY <1>1 DEF RightsTyped
<1>3. FeedTyped' BY <1>1 DEF FeedTyped
<1>4. HeldTyped' BY WitnessKeeps DEF HeldTyped
<1> QED BY <1>2, <1>3, <1>4, AccessPartsAfter

LEMMA LookedAt ==
  ASSUME NEW q \in Waits, NEW own \in SUBSET X!Perm
  PROVE  LET new == [q EXCEPT !.at = "resolve", !.own = own] IN new \in Waits /\ new.id = q.id /\ new.own = own
<1> DEFINE new == [q EXCEPT !.at = "resolve", !.own = own]
<1>1. new \in Waits
  <2> HIDE DEF X!Perm
  <2> QED BY DEF Waits
<1>2. new.id = q.id /\ new.own = own BY DEF Waits
<1> QED BY <1>1, <1>2

\* What the account and the key allow is asked: it is what the sender holds just then.
LEMMA RefreshKeeps ==
  ASSUME X!AccessAssumption, AccessInv, 1 \in DOMAIN queue, X!RefreshUser(1), X!Witness
  PROVE  AccessInv'
<1> USE DEF X!rights, X!feeding
<1>1. X!TypeOK /\ ConsoleTyped /\ RightsTyped BY AccessParts DEF AccessInv
<1>2. UNCHANGED <<row, login, key, share, edit, edits, typed, sent, feed, relay>> /\ console.at = "open"
  BY DEF X!RefreshUser
<1>3. CASE X!Refused(console.user, console.by)
  <2>1. queue' = <<>> /\ console' = [console EXCEPT !.at = "closed"] BY <1>3 DEF X!RefreshUser, X!ShutOut
  <2>2. ConsoleTyped' BY <1>1, <1>2, <2>1 DEF ConsoleTyped
  <2>3. Watched' BY <1>1, <2>1 DEF Watched, ConsoleTyped
  <2> QED BY <1>1, <1>2, <2>1, <2>2, <2>3, ConsoleMoves, EmptyKeeps
<1>4. CASE ~X!Refused(console.user, console.by)
  <2> DEFINE own == X!NarrowToKey(console.user, console.by)
             first == [queue[1] EXCEPT !.at = "resolve", !.own = own]
  <2>1. queue' = X!Refreshed(1) /\ console' = console BY <1>4 DEF X!RefreshUser
  <2>2. queue \in Seq(Waits) /\ queue[1] \in Waits BY <1>1, InSeq DEF ConsoleTyped
  <2>3. own \subseteq X!Perm
    <3>1. console.user \in User BY <1>2 DEF AccessInv, Watched
    <3>2. row[console.user].allowed \subseteq X!Perm BY <1>1, <3>1 DEF RightsTyped, X!Row
    <3> QED BY <3>2 DEF X!NarrowToKey
  <2>4. first \in Waits /\ first.id = queue[1].id /\ first.own = own
    BY <2>2, <2>3, LookedAt
  <2>5. queue' = [queue EXCEPT ![1] = first]
    <3>1. queue' = [queue EXCEPT ![1] = [@ EXCEPT !.at = "resolve", !.own = own]] BY <2>1 DEF X!Refreshed
    <3> HIDE DEF own
    <3> QED BY <3>1, <2>2
  <2> HIDE DEF own, first
  <2>6. queue' \in Seq(Waits) /\ DOMAIN queue' = DOMAIN queue /\ queue'[1] = first
        /\ \A i \in DOMAIN queue : i # 1 => queue'[i] = queue[i]
    BY <2>2, <2>4, <2>5
  <2>7. ConsoleTyped' BY <1>1, <1>2, <2>1, <2>6 DEF ConsoleTyped
  <2>8. X!TypeOK' BY <1>1, <1>2, <2>7, ConsoleMoves
  <2>9. Watched' BY <2>1 DEF AccessInv, Watched
  <2>10. \A i \in DOMAIN queue : queue'[i].id = queue[i].id BY <2>4, <2>6
  <2>11. InOrder' BY <1>2, <2>6, <2>10 DEF AccessInv, InOrder
  <2>12. ASSUME NEW i \in DOMAIN queue', queue'[i].id # 0, queue'[i].at = "resolve", "command" \in queue'[i].own
         PROVE  "account" \in held'[queue'[i].id]
    <3>1. i \in DOMAIN queue /\ queue[i] \in Waits /\ queue'[i].id = queue[i].id BY <2>2, <2>6, <2>10, <2>12
    <3>2. queue[i].id \in 1 .. MaxSent BY <2>12, <3>1 DEF Waits
    <3>3. CASE i = 1
      <4>1. "command" \in own BY <2>4, <2>6, <2>12, <3>3
      <4>2. "account" \in X!Now BY <1>2, <1>4, <4>1 DEF X!Now, X!Holds, own
      <4>3. "account" \in held[queue[i].id] BY <2>12, <3>1, <4>2 DEF AccessInv, Recorded
      <4> QED BY <1>1, <3>1, <3>2, <4>3, WitnessKeeps
    <3>4. CASE i # 1
      <4>1. queue'[i] = queue[i] BY <2>6, <3>1, <3>4
      <4>2. "account" \in held[queue[i].id] BY <2>12, <3>1, <4>1 DEF AccessInv, Recorded
      <4> QED BY <1>1, <3>1, <3>2, <4>2, WitnessKeeps
    <3> QED BY <3>3, <3>4
  <2>13. \A i \in DOMAIN sent' : held[sent'[i]] = Both BY <1>2 DEF AccessInv, Recorded
  <2>14. Recorded' BY <1>1, <2>8, <2>12, <2>13, RecordedStep
  <2> QED BY <2>8, <2>9, <2>11, <2>14 DEF AccessInv
<1> QED BY <1>3, <1>4

\* The share is asked as well, and the command that goes to the node had both recorded.
LEMMA RequireKeeps ==
  ASSUME X!AccessAssumption, AccessInv, 1 \in DOMAIN queue, X!Require(1), X!Witness
  PROVE  AccessInv'
<1> USE DEF X!rights, X!feeding
<1> DEFINE can == X!Resolve(console.user, queue[1].own)
<1>1. X!TypeOK /\ ConsoleTyped /\ RightsTyped BY AccessParts DEF AccessInv
<1>2. UNCHANGED <<row, login, key, share, edit, edits, typed, feed, relay>> /\ console.at = "open" /\ queue[1].at = "resolve"
  BY DEF X!Require
<1>3. CASE "console" \notin can
  <2>1. queue' = <<>> /\ console' = [console EXCEPT !.at = "closed"] /\ sent' = sent BY <1>3 DEF X!Require, X!ShutOut
  <2>2. ConsoleTyped' BY <1>1, <1>2, <2>1 DEF ConsoleTyped
  <2>3. Watched' BY <1>1, <2>1 DEF Watched, ConsoleTyped
  <2> QED BY <1>1, <1>2, <2>1, <2>2, <2>3, ConsoleMoves, EmptyKeeps
<1>4. CASE "console" \in can
  <2> DEFINE goes == queue[1].id # 0 /\ "command" \in can
  <2>1. queue' = X!Without(1) /\ console' = console /\ sent' = IF goes THEN Append(sent, queue[1].id) ELSE sent
    BY <1>4 DEF X!Require
  <2>2. queue \in Seq(Waits) /\ queue[1] \in Waits /\ sent \in Seq(1 .. MaxSent) BY <1>1, InSeq DEF ConsoleTyped
  <2>3. queue' = [j \in 1 .. Len(queue) - 1 |-> queue[j + 1]]
    <3>1. \A j \in 1 .. Len(queue) - 1 : ~(j < 1) BY <2>2
    <3> QED BY <2>1, <3>1 DEF X!Without
  <2>4. queue' \in Seq(Waits) /\ \A j \in DOMAIN queue' : j + 1 \in DOMAIN queue /\ j \in Nat /\ j # 0 /\ queue'[j] = queue[j + 1]
    <3>1. Len(queue) \in Nat \ {0} /\ DOMAIN queue = 1 .. Len(queue) BY <2>2
    <3>2. \A j \in 1 .. Len(queue) - 1 : queue[j + 1] \in Waits BY <2>2, <3>1
    <3> QED BY <2>3, <3>1, <3>2
  <2>5. ASSUME goes PROVE held[queue[1].id] = Both /\ queue[1].id \in 1 .. MaxSent
    <3>1. queue[1].id \in 1 .. MaxSent /\ held[queue[1].id] \subseteq Both
      BY <1>1, <2>2, <2>5, AccessParts DEF Waits, HeldTyped
    <3>2. "command" \in queue[1].own BY <2>5 DEF X!Resolve
    <3>3. "account" \in held[queue[1].id] BY <1>2, <2>5, <3>2 DEF AccessInv, Recorded
    <3>4. "share" \in X!Now BY <1>2, <2>5 DEF X!Resolve, X!Now
    <3>5. "share" \in held[queue[1].id] BY <2>5, <3>4 DEF AccessInv, Recorded
    <3> QED BY <3>1, <3>3, <3>5 DEF Both
  <2>6. /\ sent' \in Seq(1 .. MaxSent)
        /\ \A i \in DOMAIN sent' : \/ i \in DOMAIN sent /\ sent'[i] = sent[i]
                                   \/ goes /\ i = Len(sent) + 1 /\ sent'[i] = queue[1].id
    <3>1. CASE goes
      <4>1. queue[1].id \in 1 .. MaxSent BY <2>5, <3>1
      <4>2. sent' = Append(sent, queue[1].id) BY <2>1, <3>1
      <4> DEFINE head == queue[1].id
      <4> HIDE DEF head
      <4>3. head \in 1 .. MaxSent /\ sent' = Append(sent, head) BY <4>1, <4>2 DEF head
      <4>4. sent' \in Seq(1 .. MaxSent) /\ \A i \in DOMAIN sent' : (i \in DOMAIN sent /\ sent'[i] = sent[i]) \/ (i = Len(sent) + 1 /\ sent'[i] = head)
        BY <2>2, <4>3
      <4> QED BY <3>1, <4>4 DEF head
    <3>2. CASE ~goes BY <2>1, <2>2, <3>2
    <3> QED BY <3>1, <3>2
  <2> HIDE DEF goes
  <2>7. ConsoleTyped' BY <1>1, <1>2, <2>1, <2>4, <2>6 DEF ConsoleTyped
  <2>8. X!TypeOK' BY <1>1, <1>2, <2>7, ConsoleMoves
  <2>9. Watched' BY <2>1 DEF AccessInv, Watched
  <2>10. InOrder'
    <3> USE DEF InOrder
    <3>1. InOrder /\ DOMAIN queue \subseteq Nat /\ DOMAIN sent = 1 .. Len(sent) /\ Len(sent) \in Nat BY <2>2 DEF AccessInv
    <3>2. \A i, j \in DOMAIN queue' : i < j => queue'[i].id < queue'[j].id
      <4> SUFFICES ASSUME NEW i \in DOMAIN queue', NEW j \in DOMAIN queue', i < j PROVE queue'[i].id < queue'[j].id OBVIOUS
      <4>1. i + 1 \in DOMAIN queue /\ j + 1 \in DOMAIN queue /\ i + 1 < j + 1 BY <2>4
      <4> QED BY <2>4, <3>1, <4>1
    <3>3. \A i \in DOMAIN queue' : queue'[i].id <= typed' BY <1>2, <2>4, <3>1
    <3>4. 1 \in DOMAIN queue /\ \A j \in DOMAIN queue' : queue[1].id < queue'[j].id
      <4> SUFFICES ASSUME NEW j \in DOMAIN queue' PROVE queue[1].id < queue'[j].id OBVIOUS
      <4>1. j + 1 \in DOMAIN queue /\ 1 < j + 1 BY <2>4
      <4> QED BY <2>4, <3>1, <4>1
    <3>5. \A i \in DOMAIN sent' : sent'[i] <= typed' BY <1>2, <2>6, <3>1, <3>4
    <3>6. \A i \in DOMAIN sent', j \in DOMAIN queue' : queue'[j].id # 0 => sent'[i] < queue'[j].id
      <4> SUFFICES ASSUME NEW i \in DOMAIN sent', NEW j \in DOMAIN queue', queue'[j].id # 0 PROVE sent'[i] < queue'[j].id OBVIOUS
      <4>1. j + 1 \in DOMAIN queue /\ queue'[j] = queue[j + 1] BY <2>4
      <4>2. CASE i \in DOMAIN sent /\ sent'[i] = sent[i] BY <3>1, <4>1, <4>2
      <4>3. CASE sent'[i] = queue[1].id BY <3>4, <4>3
      <4> QED BY <2>6, <4>2, <4>3
    <3>7. \A i, j \in DOMAIN sent' : i < j => sent'[i] < sent'[j]
      <4> SUFFICES ASSUME NEW i \in DOMAIN sent', NEW j \in DOMAIN sent', i < j PROVE sent'[i] < sent'[j] OBVIOUS
      <4>1. CASE i \in DOMAIN sent /\ sent'[i] = sent[i] /\ j \in DOMAIN sent /\ sent'[j] = sent[j] BY <3>1, <4>1
      <4>2. CASE i \in DOMAIN sent /\ sent'[i] = sent[i] /\ goes /\ sent'[j] = queue[1].id
        <5>1. queue[1].id # 0 BY <4>2 DEF goes
        <5> QED BY <3>1, <3>4, <4>2, <5>1
      <4>3. i # Len(sent) + 1 BY <2>6, <3>1
      <4> QED BY <2>6, <4>1, <4>2, <4>3
    <3> QED BY <3>2, <3>3, <3>5, <3>6, <3>7
  <2>11. ASSUME NEW i \in DOMAIN queue', queue'[i].id # 0, queue'[i].at = "resolve", "command" \in queue'[i].own
         PROVE  "account" \in held'[queue'[i].id]
    <3>1. i + 1 \in DOMAIN queue /\ queue'[i] = queue[i + 1] BY <2>4
    <3>2. queue[i + 1] \in Waits BY <2>2, <3>1, InSeq
    <3>3. queue[i + 1].id \in 1 .. MaxSent BY <2>11, <3>1, <3>2 DEF Waits
    <3>4. "account" \in held[queue[i + 1].id] BY <2>11, <3>1 DEF AccessInv, Recorded
    <3> QED BY <1>1, <3>1, <3>3, <3>4, WitnessKeeps
  <2>12. \A i \in DOMAIN sent' : held[sent'[i]] = Both BY <2>5, <2>6 DEF AccessInv, Recorded
  <2>13. Recorded' BY <1>1, <2>8, <2>11, <2>12, RecordedStep
  <2> QED BY <2>8, <2>9, <2>10, <2>13 DEF AccessInv
<1> QED BY <1>3, <1>4

\* Whoever does something.
LEMMA AccessStep == ASSUME X!AccessAssumption, AccessInv, X!Next PROVE AccessInv'
<1> USE DEF X!rights, X!feeding
<1>1. X!Witness /\ X!TypeOK /\ RightsTyped /\ ConsoleTyped /\ FeedTyped BY AccessParts DEF X!Next, AccessInv
<1>2. CASE X!Administer
  <2>1. RightsTyped' /\ UNCHANGED <<console, typed, queue, sent, feed, relay>> BY <1>1, <1>2, AdministerTyped
  <2>2. ConsoleTyped' /\ FeedTyped' /\ HeldTyped' BY <1>1, <2>1, WitnessKeeps DEF ConsoleTyped, FeedTyped, HeldTyped
  <2>3. X!TypeOK' BY <2>1, <2>2, AccessPartsAfter
  <2>4. Watched' BY <2>1 DEF AccessInv, Watched
  <2> QED BY <1>1, <2>1, <2>3, <2>4, QueueStill
<1>3. CASE X!Follow
  <2>1. FeedTyped' /\ UNCHANGED <<row, login, key, share, edit, edits, console, typed, queue, sent>>
    BY <1>1, <1>3, FollowTyped
  <2>2. RightsTyped' BY <1>1, <2>1 DEF RightsTyped
  <2>3. ConsoleTyped' /\ HeldTyped' BY <1>1, <2>1, WitnessKeeps DEF ConsoleTyped, HeldTyped
  <2>4. X!TypeOK' BY <2>1, <2>2, <2>3, AccessPartsAfter
  <2>5. Watched' BY <2>1 DEF AccessInv, Watched
  <2> QED BY <1>1, <2>1, <2>4, <2>5, QueueStill
<1>4. ASSUME NEW u \in User, NEW by \in {"session", "key"}, X!OpenConsole(u, by) PROVE AccessInv'
  <2>1. UNCHANGED <<row, login, key, share, edit, edits, typed, queue, sent, feed, relay>> BY <1>4 DEF X!OpenConsole
  <2>2. X!Resolve(u, X!NarrowToKey(u, by)) \subseteq X!Perm
    <3>1. row[u].allowed \subseteq X!Perm /\ share[u] \subseteq X!Perm BY <1>1 DEF RightsTyped, X!Row
    <3> QED BY <3>1 DEF X!Resolve, X!NarrowToKey
  <2>3. console' \in [at : {"shut", "open", "closed"}, user : User \cup {NoUser}, by : {"session", "key"}, first : SUBSET X!Perm]
        /\ console'.user = u
    <3> DEFINE first == X!Resolve(u, X!NarrowToKey(u, by))
    <3>1. console' = [at |-> "open", user |-> u, by |-> by, first |-> first] BY <1>4 DEF X!OpenConsole
    <3>2. first \subseteq X!Perm BY <2>2
    <3> HIDE DEF first
    <3> QED BY <3>1, <3>2
  <2>4. ConsoleTyped' BY <1>1, <2>1, <2>3 DEF ConsoleTyped
  <2>5. Watched' BY <2>3 DEF Watched
  <2>6. X!TypeOK' BY <1>1, <2>1, <2>4, ConsoleMoves
  <2> QED BY <1>1, <2>1, <2>5, <2>6, QueueStill
<1>5. CASE X!Type BY <1>1, <1>5, TypeKeeps
<1>6. CASE X!Beat
  <2>1. UNCHANGED <<row, login, key, share, edit, edits, console, typed, sent, feed, relay>> /\ queue' = <<X!Question>>
    BY <1>6 DEF X!Beat, X!Heartbeat
  <2>2. ConsoleTyped'
    <3>1. X!Question \in Waits BY DEF X!Question, Waits, X!AccessAssumption
    <3>2. queue' \in Seq(Waits) BY <2>1, <3>1
    <3> QED BY <1>1, <2>1, <3>2 DEF ConsoleTyped
  <2>3. X!TypeOK' BY <1>1, <2>1, <2>2, ConsoleMoves
  <2>4. Watched' BY <2>1 DEF AccessInv, Watched
  <2> QED BY <1>1, <2>1, <2>3, <2>4, EmptyKeeps
<1>7. CASE X!Work
  <2>1. 1 \in DOMAIN queue /\ (X!RefreshUser(1) \/ X!Require(1)) BY <1>7 DEF X!Work, X!Turns
  <2> QED BY <1>1, <2>1, RefreshKeeps, RequireKeeps
<1>8. CASE X!CloseConsole
  <2>1. UNCHANGED <<row, login, key, share, edit, edits, typed, sent, feed, relay>> /\ queue' = <<>>
        /\ console' = [console EXCEPT !.at = "closed"]
    BY <1>8 DEF X!CloseConsole, X!ShutOut
  <2>2. ConsoleTyped' BY <1>1, <2>1 DEF ConsoleTyped
  <2>3. X!TypeOK' BY <1>1, <2>1, <2>2, ConsoleMoves
  <2>4. Watched' BY <1>1, <2>1 DEF Watched, ConsoleTyped
  <2> QED BY <1>1, <2>1, <2>3, <2>4, EmptyKeeps
<1> QED BY <1>2, <1>3, <1>4, <1>5, <1>6, <1>7, <1>8 DEF X!Next, X!Watch

\* A part that stands still keeps what held of it.
LEMMA AccessStill == ASSUME AccessInv, UNCHANGED xVars PROVE AccessInv'
<1> USE DEF xVars
<1>1. X!TypeOK' BY DEF AccessInv, X!TypeOK, X!Row, X!Role, X!Perm
<1>2. Watched' /\ InOrder' BY DEF AccessInv, Watched, InOrder
<1>3. X!Now' = X!Now BY DEF X!Now, X!Holds, X!Refused, X!Alive, X!Loads, X!NarrowToKey
<1>4. Recorded' BY <1>3 DEF AccessInv, Recorded
<1> QED BY <1>1, <1>2, <1>4 DEF AccessInv

-----------------------------------------------------------------------------
(***************************************************************************)
(* Settings. A copy that is used, of an open form, a query or an answer, is of settings *)
(* there were and never the mark that there is none.                           *)
(***************************************************************************)
SettingsInv ==
  /\ P!TypeOK
  /\ \A r \in Replica : reads[r].at = "read" => reads[r].copy \in P!Values
  /\ \A t \in Tab : shown[t].at = "answered" => shown[t].answer \in P!Values
  /\ \A c \in Clerk : panelForm[c].at = "open" => panelForm[c].copy \in P!Values

Queries == [at : {"idle", "asked", "read"}, copy : P!Copies]
Views   == [copy : P!Values, at : {"idle", "waiting", "answered"}, on : Replica, answer : P!Copies]
Forms   == [at : {"closed", "open", "saving"}, on : Replica, copy : P!Copies]

LEMMA SettingsStart == ASSUME P!SettingsAssumption, P!Init PROVE SettingsInv
<1>1. P!Default \in P!Values /\ P!Unread \in P!Copies BY DEF P!Default, P!Values, P!Unread, P!Copies, P!SettingsAssumption
<1>2. saved \in P!Values /\ cached \in [Replica -> P!Copies] /\ writes \in 0 .. MaxWrites
  BY <1>1 DEF P!Init, P!SettingsAssumption
<1>3. reads \in [Replica -> Queries] /\ \A r \in Replica : reads[r].at = "idle" BY <1>1 DEF P!Init, Queries
<1>4. shown \in [Tab -> Views] /\ \A t \in Tab : shown[t].at = "idle" BY <1>1 DEF P!Init, Views
<1>5. panelForm \in [Clerk -> Forms] /\ \A c \in Clerk : panelForm[c].at = "closed" BY <1>1 DEF P!Init, Forms
<1> QED BY <1>2, <1>3, <1>4, <1>5 DEF SettingsInv, P!TypeOK, Queries, Views, Forms

\* A query finds the settings; its copy is the replica's and every waiting browser's.
LEMMA QueryKeeps ==
  ASSUME P!SettingsAssumption, SettingsInv, NEW r \in Replica, P!Expires(r) \/ P!ReadSettings(r) \/ P!Read(r)
  PROVE  SettingsInv'
<1>1. /\ saved \in P!Values /\ cached \in [Replica -> P!Copies] /\ writes \in 0 .. MaxWrites
      /\ reads \in [Replica -> Queries] /\ shown \in [Tab -> Views] /\ panelForm \in [Clerk -> Forms]
  BY DEF SettingsInv, P!TypeOK, Queries, Views, Forms
<1>2. P!Unread \in P!Copies /\ P!Values \subseteq P!Copies BY DEF P!Copies
<1>3. /\ \A s \in Replica : reads[s].at = "read" => reads[s].copy \in P!Values
      /\ \A t \in Tab : shown[t].at = "answered" => shown[t].answer \in P!Values
  BY DEF SettingsInv
<1>4. /\ UNCHANGED <<saved, writes, panelForm>>
      /\ cached' \in [Replica -> P!Copies]
      /\ reads' \in [Replica -> Queries] /\ \A s \in Replica : reads'[s].at = "read" => reads'[s].copy \in P!Values
      /\ shown' \in [Tab -> Views] /\ \A t \in Tab : shown'[t].at = "answered" => shown'[t].answer \in P!Values
  <2>1. CASE P!Expires(r) BY <1>1, <1>2, <1>3, <2>1 DEF P!Expires
  <2>2. CASE P!ReadSettings(r)
    <3>1. [at |-> "read", copy |-> saved] \in Queries BY <1>1, <1>2 DEF Queries
    <3> QED BY <1>1, <1>3, <2>2, <3>1 DEF P!ReadSettings
  <2>3. CASE P!Read(r)
    <3>1. reads[r].copy \in P!Values /\ reads[r].copy \in P!Copies BY <1>2, <1>3, <2>3 DEF P!Read
    <3>2. [at |-> "idle", copy |-> P!Unread] \in Queries BY <1>2 DEF Queries
    <3>3. \A t \in Tab : shown[t] \in Views /\ shown'[t] = IF shown[t].at = "waiting" /\ shown[t].on = r
                             THEN [shown[t] EXCEPT !.at = "answered", !.answer = reads[r].copy] ELSE shown[t]
      BY <1>1, <2>3 DEF P!Read
    <3>4. \A t \in Tab : [shown[t] EXCEPT !.at = "answered", !.answer = reads[r].copy] \in Views
          /\ [shown[t] EXCEPT !.at = "answered", !.answer = reads[r].copy].answer = reads[r].copy
      BY <3>1, <3>3 DEF Views
    <3>5. shown' = [t \in Tab |-> shown'[t]] BY <2>3 DEF P!Read
    <3>6. shown' \in [Tab -> Views] BY <3>3, <3>4, <3>5
    <3>7. \A t \in Tab : shown'[t].at = "answered" => shown'[t].answer \in P!Values BY <1>3, <3>1, <3>3, <3>4
    <3>8. cached' \in [Replica -> P!Copies] /\ reads' \in [Replica -> Queries] BY <1>1, <2>3, <3>1, <3>2 DEF P!Read
    <3>9. \A s \in Replica : reads'[s].at = "read" => reads'[s].copy \in P!Values BY <1>1, <1>3, <2>3 DEF P!Read
    <3> QED BY <2>3, <3>6, <3>7, <3>8, <3>9 DEF P!Read
  <2> QED BY <2>1, <2>2, <2>3
<1> QED BY <1>1, <1>4 DEF SettingsInv, P!TypeOK, Queries, Views, Forms, P!Values, P!Copies, P!Unread

\* A browser is answered from a copy, or waits for one.
LEMMA BrowserKeeps ==
  ASSUME P!SettingsAssumption, SettingsInv, NEW t \in Tab, P!Arrive(t) \/ \E r \in Replica : P!Ask(t, r)
  PROVE  SettingsInv'
<1>1. /\ cached \in [Replica -> P!Copies] /\ reads \in [Replica -> Queries] /\ shown \in [Tab -> Views]
  BY DEF SettingsInv, P!TypeOK, Queries, Views
<1>2. P!Unread \in P!Copies /\ P!Values \subseteq P!Copies BY DEF P!Copies
<1>3. /\ \A s \in Replica : reads[s].at = "read" => reads[s].copy \in P!Values
      /\ \A u \in Tab : shown[u].at = "answered" => shown[u].answer \in P!Values
  BY DEF SettingsInv
<1>4. shown[t] \in Views BY <1>1
<1>5. /\ UNCHANGED <<saved, cached, writes, panelForm>>
      /\ reads' \in [Replica -> Queries] /\ \A s \in Replica : reads'[s].at = "read" => reads'[s].copy \in P!Values
      /\ shown' \in [Tab -> Views] /\ \A u \in Tab : shown'[u].at = "answered" => shown'[u].answer \in P!Values
  <2>1. CASE P!Arrive(t)
    <3> DEFINE new == [shown[t] EXCEPT !.at = "idle", !.copy = shown[t].answer, !.answer = P!Unread]
    <3>1. shown' = [shown EXCEPT ![t] = new] BY <1>1, <2>1 DEF P!Arrive
    <3>2. shown[t].answer \in P!Values BY <1>3, <2>1 DEF P!Arrive
    <3>3. new \in Views /\ new.at = "idle" BY <1>2, <1>4, <3>2 DEF Views
    <3> HIDE DEF new
    <3> QED BY <1>1, <1>3, <2>1, <3>1, <3>3 DEF P!Arrive
  <2>2. ASSUME NEW r \in Replica, P!Ask(t, r), cached[r] # P!Unread
        PROVE  /\ UNCHANGED <<saved, cached, writes, panelForm, reads>>
               /\ shown' \in [Tab -> Views] /\ \A u \in Tab : shown'[u].at = "answered" => shown'[u].answer \in P!Values
    <3> DEFINE new == [shown[t] EXCEPT !.at = "answered", !.on = r, !.answer = cached[r]]
    <3>1. shown' = [shown EXCEPT ![t] = new] BY <1>1, <2>2 DEF P!Ask
    <3>2. cached[r] \in P!Values BY <1>1, <2>2 DEF P!Copies
    <3>3. new \in Views /\ new.answer = cached[r] BY <1>2, <1>4, <3>2 DEF Views
    <3> HIDE DEF new
    <3> QED BY <1>1, <1>3, <2>2, <3>1, <3>2, <3>3 DEF P!Ask
  <2>3. ASSUME NEW r \in Replica, P!Ask(t, r), cached[r] = P!Unread
        PROVE  /\ UNCHANGED <<saved, cached, writes, panelForm>>
               /\ reads' \in [Replica -> Queries] /\ \A s \in Replica : reads'[s].at = "read" => reads'[s].copy \in P!Values
               /\ shown' \in [Tab -> Views] /\ \A u \in Tab : shown'[u].at = "answered" => shown'[u].answer \in P!Values
    <3> DEFINE new == [shown[t] EXCEPT !.at = "waiting", !.on = r]
               asked == [reads[r] EXCEPT !.at = "asked"]
    <3>1. shown' = [shown EXCEPT ![t] = new] BY <1>1, <2>3 DEF P!Ask
    <3>2. new \in Views /\ new.at = "waiting" BY <1>4 DEF Views
    <3>3. reads' \in {reads, [reads EXCEPT ![r] = asked]} BY <1>1, <2>3 DEF P!Ask
    <3>4. reads[r] \in Queries BY <1>1
    <3>5. asked \in Queries /\ asked.at = "asked" BY <3>4 DEF Queries
    <3> HIDE DEF new, asked
    <3>6. reads' \in [Replica -> Queries] /\ \A s \in Replica : reads'[s].at = "read" => reads'[s].copy \in P!Values
      BY <1>1, <1>3, <3>3, <3>5
    <3>7. shown' \in [Tab -> Views] /\ \A u \in Tab : shown'[u].at = "answered" => shown'[u].answer \in P!Values
      BY <1>1, <1>3, <3>1, <3>2
    <3> QED BY <2>3, <3>6, <3>7 DEF P!Ask
  <2> QED BY <1>1, <1>3, <2>1, <2>2, <2>3
<1> QED BY <1>5 DEF SettingsInv, P!TypeOK, Queries, Views, Forms, P!Values, P!Copies, P!Unread

\* A form is filled from the settings, saved, and its replica's copy dropped.
LEMMA FormKeeps ==
  ASSUME P!SettingsAssumption, SettingsInv, NEW c \in Clerk,
         P!OpenForm(c) \/ P!Invalidate(c) \/ \E r \in Replica : P!WriteSettings(c, r)
  PROVE  SettingsInv'
<1>1. /\ saved \in P!Values /\ cached \in [Replica -> P!Copies] /\ writes \in 0 .. MaxWrites /\ panelForm \in [Clerk -> Forms]
  BY DEF SettingsInv, P!TypeOK, Forms
<1>2. P!Unread \in P!Copies /\ P!Values \subseteq P!Copies BY DEF P!Copies
<1>3. \A d \in Clerk : panelForm[d].at = "open" => panelForm[d].copy \in P!Values BY DEF SettingsInv
<1>4. panelForm[c] \in Forms BY <1>1
<1>5. /\ UNCHANGED <<reads, shown>> /\ saved' \in P!Values /\ cached' \in [Replica -> P!Copies] /\ writes' \in 0 .. MaxWrites
      /\ panelForm' \in [Clerk -> Forms] /\ \A d \in Clerk : panelForm'[d].at = "open" => panelForm'[d].copy \in P!Values
  <2>1. CASE P!OpenForm(c)
    <3> DEFINE new == [panelForm[c] EXCEPT !.at = "open", !.copy = saved]
    <3>1. panelForm' = [panelForm EXCEPT ![c] = new] BY <1>1, <2>1 DEF P!OpenForm
    <3>2. new \in Forms /\ new.copy = saved BY <1>1, <1>2, <1>4 DEF Forms
    <3> HIDE DEF new
    <3> QED BY <1>1, <1>3, <2>1, <3>1, <3>2 DEF P!OpenForm
  <2>2. CASE P!Invalidate(c)
    <3> DEFINE new == [panelForm[c] EXCEPT !.at = "closed"]
    <3>1. panelForm' = [panelForm EXCEPT ![c] = new] BY <1>1, <2>2 DEF P!Invalidate
    <3>2. new \in Forms /\ new.at = "closed" BY <1>4 DEF Forms
    <3> HIDE DEF new
    <3> QED BY <1>1, <1>2, <1>3, <2>2, <3>1, <3>2 DEF P!Invalidate
  <2>3. ASSUME NEW r \in Replica, P!WriteSettings(c, r)
        PROVE  /\ UNCHANGED <<reads, shown, cached>> /\ saved' \in P!Values /\ writes' \in 0 .. MaxWrites
               /\ panelForm' \in [Clerk -> Forms] /\ \A d \in Clerk : panelForm'[d].at = "open" => panelForm'[d].copy \in P!Values
    <3> DEFINE new == [at |-> "saving", on |-> r, copy |-> P!Unread]
               old == panelForm[c].copy
    <3>1. panelForm' = [panelForm EXCEPT ![c] = new] BY <2>3 DEF P!WriteSettings
    <3>2. new \in Forms /\ new.at = "saving" BY <1>2 DEF Forms
    <3>3. writes' = writes + 1 /\ writes' \in 0 .. MaxWrites BY <1>1, <2>3 DEF P!WriteSettings, P!SettingsAssumption
    <3>4. old \in P!Values BY <1>3, <2>3 DEF P!WriteSettings
    <3>5. saved' \in {[old EXCEPT !.edit = writes'], [old EXCEPT !.maintenance = ~old.maintenance]}
      BY <2>3, <3>3, <3>4 DEF P!WriteSettings, P!Values
    <3> HIDE DEF new, old
    <3>6. saved' \in P!Values BY <3>3, <3>4, <3>5 DEF P!Values
    <3> QED BY <1>1, <1>3, <2>3, <3>1, <3>2, <3>3, <3>6 DEF P!WriteSettings
  <2> QED BY <1>1, <2>1, <2>2, <2>3
<1> QED BY <1>5 DEF SettingsInv, P!TypeOK, Queries, Views, Forms, P!Values, P!Copies, P!Unread

LEMMA SettingsStep == ASSUME P!SettingsAssumption, SettingsInv, P!Next PROVE SettingsInv'
BY QueryKeeps, BrowserKeeps, FormKeeps DEF P!Next

LEMMA SettingsStill == ASSUME SettingsInv, UNCHANGED pVars PROVE SettingsInv'
BY DEF SettingsInv, pVars, P!TypeOK, P!Values, P!Copies, P!Unread

-----------------------------------------------------------------------------
(***************************************************************************)
(* The page that stays open: whatever overtakes what, it shows a status there is.     *)
(***************************************************************************)
ServerTyped ==
  /\ real \in L!Status /\ live \in L!Status \cup {Untold} /\ fetched \in [row : L!Status, at : {"idle", "asked"}]
  /\ drawn \in L!Status /\ guess \in L!Status \cup {Untold}
  /\ press \in [at : {"idle", "asked", "answered"}, action : L!Action]

NoticesTyped ==
  /\ notes \in L!Notes /\ inbox \in L!Notes /\ badge \in BOOLEAN
  /\ query \in [at : {"idle", "asked", "read"}, copy : L!Notes]

SocketTyped == wire \in Seq(L!Events) /\ socket \in {"up", "down"} /\ moves \in 0 .. MaxMoves /\ drops \in 0 .. MaxDrops

LEMMA LiveParts == L!TypeOK <=> ServerTyped /\ NoticesTyped /\ SocketTyped
BY DEF L!TypeOK, ServerTyped, NoticesTyped, SocketTyped

LEMMA LivePartsAfter == (L!TypeOK <=> ServerTyped /\ NoticesTyped /\ SocketTyped)'
BY DEF L!TypeOK, ServerTyped, NoticesTyped, SocketTyped, L!Status, L!Action, L!Notes, L!Events

LEMMA LiveStart == ASSUME L!LivePageAssumption, L!Init PROVE L!TypeOK
<1> USE DEF L!Init, L!LivePageAssumption
<1>1. L!NoQuery.copy \in L!Notes /\ L!NoQuery \in [at : {"idle", "asked", "read"}, copy : L!Notes] BY DEF L!NoQuery, L!Notes
<1>2. ServerTyped BY DEF ServerTyped, L!Status, L!Action
<1>3. NoticesTyped BY <1>1 DEF NoticesTyped
<1>4. SocketTyped BY DEF SocketTyped
<1> QED BY <1>2, <1>3, <1>4, LiveParts

\* What is hoped of a press is a status, and a query that is asked for is one.
LEMMA Hoped ==
  /\ \A a \in L!Action : L!HopedOf[a] \in L!Status
  /\ [L!NoQuery EXCEPT !.at = "asked"] \in [at : {"idle", "asked", "read"}, copy : L!Notes]
  /\ L!NoQuery \in [at : {"idle", "asked", "read"}, copy : L!Notes]
BY DEF L!Action, L!HopedOf, L!Status, L!NoQuery, L!Notes

LEMMA OneLess ==
  ASSUME NEW Of, NEW s \in Seq(Of), NEW i \in DOMAIN s PROVE L!RemoveAt(s, i) \in Seq(Of)
BY DEF L!RemoveAt

LEMMA EmptySeq == ASSUME NEW Of PROVE <<>> \in Seq(Of)
OBVIOUS

\* An event is said to the socket or to nobody.
LEMMA SendTyped ==
  ASSUME wire \in Seq(L!Events), NEW event \in L!Events, L!Send(event) PROVE wire' \in Seq(L!Events)
BY DEF L!Send

LEMMA LiveStep == ASSUME L!LivePageAssumption, L!TypeOK, L!Next PROVE L!TypeOK'
<1> USE DEF L!server, L!notices
<1>1. ServerTyped /\ NoticesTyped /\ SocketTyped BY LiveParts
<1>2. CASE L!UpdateStatus
  <2>1. PICK s \in L!Status : real' = s /\ L!Send(s) BY <1>2 DEF L!UpdateStatus
  <2>2. wire' \in Seq(L!Events) BY <1>1, <2>1, SendTyped DEF SocketTyped, L!Events
  <2>3. ServerTyped' BY <1>1, <1>2, <2>1 DEF L!UpdateStatus, ServerTyped
  <2>4. NoticesTyped' BY <1>1, <1>2 DEF L!UpdateStatus, NoticesTyped
  <2>5. SocketTyped' BY <1>1, <1>2, <2>2 DEF L!UpdateStatus, L!Move, SocketTyped, L!LivePageAssumption
  <2> QED BY <2>3, <2>4, <2>5, LivePartsAfter
<1>3. CASE L!Push
  <2>1. PICK n \in Note : notes' = [notes EXCEPT ![n] = "unread"] /\ L!Send(n) BY <1>3 DEF L!Push
  <2>2. wire' \in Seq(L!Events) BY <1>1, <2>1, SendTyped DEF SocketTyped, L!Events
  <2>3. ServerTyped' BY <1>1, <1>3 DEF L!Push, ServerTyped
  <2>4. NoticesTyped' BY <1>1, <1>3, <2>1 DEF L!Push, NoticesTyped, L!Notes
  <2>5. SocketTyped' BY <1>1, <1>3, <2>2 DEF L!Push, SocketTyped
  <2> QED BY <2>3, <2>4, <2>5, LivePartsAfter
<1>4. CASE L!Drop \/ L!Connect
  <2>1. ServerTyped' BY <1>1, <1>4 DEF L!Drop, L!Connect, ServerTyped
  <2>2. NoticesTyped' BY <1>1, <1>4 DEF L!Drop, L!Connect, NoticesTyped
  <2>3. wire' \in Seq(L!Events)
    <3>1. wire' = <<>> \/ wire' = wire BY <1>4 DEF L!Drop, L!Connect
    <3>2. wire \in Seq(L!Events) BY <1>1 DEF SocketTyped
    <3>3. CASE wire' = <<>> BY <3>3, EmptySeq
    <3> QED BY <3>1, <3>2, <3>3
  <2>4. drops' \in 0 .. MaxDrops BY <1>1, <1>4 DEF L!Drop, L!Connect, SocketTyped, L!LivePageAssumption
  <2>5. SocketTyped' BY <1>1, <1>4, <2>3, <2>4 DEF L!Drop, L!Connect, SocketTyped
  <2> QED BY <2>1, <2>2, <2>5, LivePartsAfter
<1>5. CASE L!OnMessage
  <2>1. PICK i \in DOMAIN wire :
          /\ wire' = L!RemoveAt(wire, i)
          /\ \/ wire[i] \in L!Status /\ live' = wire[i] /\ UNCHANGED <<query, badge>>
             \/ badge' = TRUE /\ L!Invalidate /\ UNCHANGED live
    BY <1>5 DEF L!OnMessage
  <2>2. wire' \in Seq(L!Events) BY <1>1, <2>1, OneLess DEF SocketTyped
  <2>3. ServerTyped' BY <1>1, <1>5, <2>1 DEF L!OnMessage, ServerTyped
  <2>4. NoticesTyped' BY <1>1, <1>5, <2>1, Hoped DEF L!OnMessage, L!Invalidate, NoticesTyped
  <2>5. SocketTyped' BY <1>1, <1>5, <2>2 DEF L!OnMessage, SocketTyped
  <2> QED BY <2>3, <2>4, <2>5, LivePartsAfter
<1>6. CASE L!Fetch \/ L!Fetched \/ L!Draw
  <2>1. ServerTyped' BY <1>1, <1>6 DEF L!Fetch, L!Fetched, L!Draw, L!Reported, ServerTyped
  <2>2. NoticesTyped' BY <1>1, <1>6 DEF L!Fetch, L!Fetched, L!Draw, NoticesTyped
  <2>3. SocketTyped' BY <1>1, <1>6 DEF L!Fetch, L!Fetched, L!Draw, SocketTyped
  <2> QED BY <2>1, <2>2, <2>3, LivePartsAfter
<1>7. CASE L!Press
  <2>1. ServerTyped' BY <1>1, <1>7 DEF L!Press, ServerTyped
  <2>2. NoticesTyped' BY <1>1, <1>7 DEF L!Press, NoticesTyped
  <2>3. SocketTyped' BY <1>1, <1>7 DEF L!Press, L!Move, SocketTyped, L!LivePageAssumption
  <2> QED BY <2>1, <2>2, <2>3, LivePartsAfter
<1>8. CASE L!Power
  <2>1. press.action \in L!Action BY <1>1 DEF ServerTyped
  <2>2. \/ real' = L!HopedOf[press.action] /\ L!Send(real')
        \/ UNCHANGED <<real, wire>>
    BY <1>8 DEF L!Power
  <2>3. real' \in L!Status BY <1>1, <2>1, <2>2, Hoped DEF ServerTyped
  <2>4. wire' \in Seq(L!Events)
    <3>1. CASE L!Send(real') BY <1>1, <2>3, <3>1 DEF L!Send, SocketTyped, L!Events
    <3> QED BY <1>1, <2>2, <3>1 DEF SocketTyped
  <2>5. press' \in [at : {"idle", "asked", "answered"}, action : L!Action] BY <1>1, <1>8 DEF L!Power, ServerTyped
  <2>6. ServerTyped' BY <1>1, <1>8, <2>3, <2>5 DEF L!Power, ServerTyped
  <2>7. NoticesTyped' BY <1>1, <1>8 DEF L!Power, NoticesTyped
  <2>8. SocketTyped' BY <1>1, <1>8, <2>4 DEF L!Power, SocketTyped
  <2> QED BY <2>6, <2>7, <2>8, LivePartsAfter
<1>9. CASE L!SetLiveStatus
  <2>1. press.action \in L!Action BY <1>1 DEF ServerTyped
  <2>2. guess' \in L!Status BY <1>9, <2>1, Hoped DEF L!SetLiveStatus
  <2>3. ServerTyped' BY <1>1, <1>9, <2>2 DEF L!SetLiveStatus, ServerTyped
  <2>4. NoticesTyped' BY <1>1, <1>9 DEF L!SetLiveStatus, NoticesTyped
  <2>5. SocketTyped' BY <1>1, <1>9 DEF L!SetLiveStatus, SocketTyped
  <2> QED BY <2>3, <2>4, <2>5, LivePartsAfter
<1>10. CASE L!Refetch \/ L!Read \/ L!Arrives
  <2>1. ServerTyped' BY <1>1, <1>10 DEF L!Refetch, L!Read, L!Arrives, ServerTyped
  <2>2. NoticesTyped'
    <3>1. query.copy \in L!Notes /\ notes \in L!Notes BY <1>1 DEF NoticesTyped
    <3>2. \A ns : L!Unread(ns) \in BOOLEAN BY DEF L!Unread
    <3>3. CASE L!Refetch BY <1>1, <3>3, Hoped DEF L!Refetch, L!Invalidate, NoticesTyped
    <3>4. CASE L!Read BY <1>1, <3>1, <3>4 DEF L!Read, NoticesTyped
    <3>5. CASE L!Arrives
      <4>1. inbox' \in L!Notes /\ badge' \in BOOLEAN BY <1>1, <3>1, <3>2, <3>5 DEF L!Arrives, NoticesTyped
      <4> QED BY <1>1, <3>5, <4>1, Hoped DEF L!Arrives, NoticesTyped
    <3> QED BY <1>10, <3>3, <3>4, <3>5
  <2>3. SocketTyped' BY <1>1, <1>10 DEF L!Refetch, L!Read, L!Arrives, SocketTyped
  <2> QED BY <2>1, <2>2, <2>3, LivePartsAfter
<1>11. CASE L!MarkAllRead \/ L!MarkOrRemove
  <2>1. ServerTyped' BY <1>1, <1>11 DEF L!MarkAllRead, L!MarkOrRemove, ServerTyped
  <2>2. notes' \in L!Notes
    <3>1. \A some : L!MarkRead(some) \in L!Notes BY <1>1 DEF L!MarkRead, NoticesTyped, L!Notes
    <3>2. \A n \in Note : [notes EXCEPT ![n] = "gone"] \in L!Notes BY <1>1 DEF NoticesTyped, L!Notes
    <3> QED BY <1>11, <3>1, <3>2 DEF L!MarkAllRead, L!MarkOrRemove
  <2>3. NoticesTyped' BY <1>1, <1>11, <2>2, Hoped DEF L!MarkAllRead, L!MarkOrRemove, L!Invalidate, NoticesTyped
  <2>4. SocketTyped' BY <1>1, <1>11 DEF L!MarkAllRead, L!MarkOrRemove, SocketTyped
  <2> QED BY <2>1, <2>3, <2>4, LivePartsAfter
<1> QED BY <1>2, <1>3, <1>4, <1>5, <1>6, <1>7, <1>8, <1>9, <1>10, <1>11 DEF L!Next

LEMMA LiveStill == ASSUME L!TypeOK, UNCHANGED lVars PROVE L!TypeOK'
BY DEF lVars, L!TypeOK, L!Status, L!Action, L!Notes, L!Events

-----------------------------------------------------------------------------
(***************************************************************************)
(* The page that makes a server. A step is reached by what the ones before it ask for. *)
(***************************************************************************)
PickedSofar ==
  /\ step >= 1 => picked.template # Nowhere
  /\ step >= 2 => picked.node # Nowhere

NewInv == N!TypeOK /\ N!OwnVariables /\ PickedSofar

Drafts == [name : {"", "given", "own"}, of : Template \cup {Nowhere}, own : SUBSET Variable]
Data   == [Template -> {"none", "loading", "here"}]

LEMMA NewStart == ASSUME N!NewServerAssumption, N!Init PROVE NewInv
<1>1. step = 0 /\ picked = [template |-> Nowhere, node |-> Nowhere] /\ made = {} /\ done = 0 BY DEF N!Init
<1>2. form \in Drafts /\ data \in Data BY DEF N!Init, Drafts, Data
<1>3. free \in [real : SUBSET Node, told : SUBSET Node]
  <2>1. PICK some \in SUBSET Node : free = [real |-> some, told |-> some] BY DEF N!Init
  <2> QED BY <2>1
<1>4. push \in [at : {"idle", "sent", "made", "refused", "left"}, sent : SUBSET N!Servers] BY DEF N!Init, N!Asleep
<1>5. MaxTyped \in Nat BY DEF N!NewServerAssumption
<1>6. step \in 0 .. 3 /\ done \in 0 .. MaxTyped BY <1>1, <1>5
<1>7. N!TypeOK BY <1>1, <1>2, <1>3, <1>4, <1>6 DEF N!TypeOK, Drafts, Data
<1>8. N!OwnVariables BY <1>1 DEF N!OwnVariables
<1>9. PickedSofar BY <1>1 DEF PickedSofar
<1> QED BY <1>7, <1>8, <1>9 DEF NewInv

\* The effect fills the form from the game picked, if its data is there.
LEMMA Filled ==
  ASSUME NEW f \in Drafts, NEW t \in Template \cup {Nowhere}, NEW there
  PROVE  /\ N!Effect(f, t, there) \in Drafts
         /\ t # Nowhere /\ there[t] = "here" => N!Effect(f, t, there).of = t
BY DEF N!Effect, N!Seed, Drafts

\* The game, its data, the node and the form: what a person does before the request.
LEMMA FormSteps ==
  ASSUME N!NewServerAssumption, NewInv,
         \/ \E t \in Template : N!SetTemplateId(t) \/ N!TemplateArrives(t) \/ N!TemplateChanges(t) \/ N!TemplateForgotten(t)
         \/ \E n \in Node : N!SetNodeId(n)
         \/ \E v \in Variable : N!SetVariables(v)
         \/ N!SetName \/ N!SetStep
  PROVE  NewInv'
<1>1. /\ step \in 0 .. 3 /\ picked \in [template : Template \cup {Nowhere}, node : Node \cup {Nowhere}]
      /\ form \in Drafts /\ data \in Data /\ done \in 0 .. MaxTyped
      /\ free \in [real : SUBSET Node, told : SUBSET Node]
  BY DEF NewInv, N!TypeOK, Drafts, Data
<1>2. N!OwnVariables /\ PickedSofar BY DEF NewInv
<1>3. Nowhere \notin Template /\ Nowhere \notin Node BY DEF N!NewServerAssumption
<1>4. SUFFICES /\ step' \in 0 .. 3 /\ picked' \in [template : Template \cup {Nowhere}, node : Node \cup {Nowhere}]
               /\ form' \in Drafts /\ data' \in Data /\ done' \in 0 .. MaxTyped
               /\ UNCHANGED <<free, push, made>> /\ N!OwnVariables' /\ PickedSofar'
  BY DEF NewInv, N!TypeOK, Drafts, Data, N!Servers
<1>5. ASSUME N!Does PROVE done' \in 0 .. MaxTyped BY <1>1, <1>5 DEF N!Does, N!NewServerAssumption
<1>6. ASSUME NEW t \in Template, N!SetTemplateId(t)
      PROVE  /\ step' \in 0 .. 3 /\ picked' \in [template : Template \cup {Nowhere}, node : Node \cup {Nowhere}]
             /\ form' \in Drafts /\ data' \in Data /\ done' \in 0 .. MaxTyped
             /\ UNCHANGED <<free, push, made>> /\ N!OwnVariables' /\ PickedSofar'
  <2>1. picked' = [picked EXCEPT !.template = t] /\ form' = N!Effect(form, t, data') /\ step = 0 /\ step' = 0
        /\ UNCHANGED <<free, push, made>>
    BY <1>6 DEF N!SetTemplateId
  <2>2. picked' \in [template : Template \cup {Nowhere}, node : Node \cup {Nowhere}] /\ picked'.template = t
    BY <1>1, <2>1
  <2>3. data' \in Data BY <1>1, <1>6 DEF N!SetTemplateId, Data
  <2>4. form' \in Drafts /\ (data'[t] = "here" => form'.of = t) BY <1>1, <1>3, <2>1, Filled
  <2>5. done' \in 0 .. MaxTyped BY <1>5, <1>6 DEF N!SetTemplateId
  <2> QED BY <2>1, <2>2, <2>3, <2>4, <2>5 DEF N!OwnVariables, PickedSofar
<1>7. ASSUME NEW t \in Template, N!TemplateArrives(t) \/ N!TemplateChanges(t) \/ N!TemplateForgotten(t)
      PROVE  /\ step' \in 0 .. 3 /\ picked' \in [template : Template \cup {Nowhere}, node : Node \cup {Nowhere}]
             /\ form' \in Drafts /\ data' \in Data /\ done' \in 0 .. MaxTyped
             /\ UNCHANGED <<free, push, made>> /\ N!OwnVariables' /\ PickedSofar'
  <2>1. UNCHANGED <<step, picked, done, free, push, made>> BY <1>7 DEF N!TemplateArrives, N!TemplateChanges, N!TemplateForgotten
  <2>2. CASE N!TemplateArrives(t)
    <3>1. data' = [data EXCEPT ![t] = "here"] /\ data' \in Data BY <1>1, <2>2 DEF N!TemplateArrives, Data
    <3>2. CASE picked.template = t
      <4>1. form' = N!Effect(form, t, data') BY <2>2, <3>2 DEF N!TemplateArrives
      <4>2. form' \in Drafts /\ (data'[t] = "here" => form'.of = t) BY <1>1, <1>3, <4>1, Filled
      <4> QED BY <1>1, <1>2, <2>1, <3>1, <3>2, <4>2 DEF N!OwnVariables, PickedSofar
    <3>3. CASE picked.template # t
      BY <1>1, <1>2, <2>1, <2>2, <3>1, <3>3 DEF N!TemplateArrives, N!OwnVariables, PickedSofar, Data
    <3> QED BY <3>2, <3>3
  <2>3. CASE N!TemplateChanges(t)
    <3>1. form' = N!Effect(form, t, data) /\ data' = data /\ picked.template = t BY <2>3 DEF N!TemplateChanges
    <3>2. form' \in Drafts /\ (data[t] = "here" => form'.of = t) BY <1>1, <1>3, <3>1, Filled
    <3> QED BY <1>1, <1>2, <2>1, <3>1, <3>2 DEF N!OwnVariables, PickedSofar
  <2>4. CASE N!TemplateForgotten(t)
    BY <1>1, <1>2, <2>1, <2>4 DEF N!TemplateForgotten, N!OwnVariables, PickedSofar, Data
  <2> QED BY <1>7, <2>2, <2>3, <2>4
<1>8. ASSUME NEW n \in Node, N!SetNodeId(n)
      PROVE  /\ step' \in 0 .. 3 /\ picked' \in [template : Template \cup {Nowhere}, node : Node \cup {Nowhere}]
             /\ form' \in Drafts /\ data' \in Data /\ done' \in 0 .. MaxTyped
             /\ UNCHANGED <<free, push, made>> /\ N!OwnVariables' /\ PickedSofar'
  <2>1. picked' = [picked EXCEPT !.node = n] /\ UNCHANGED <<step, form, data, free, push, made>> BY <1>8 DEF N!SetNodeId
  <2>2. picked' \in [template : Template \cup {Nowhere}, node : Node \cup {Nowhere}]
        /\ picked'.template = picked.template /\ picked'.node = n
    BY <1>1, <2>1
  <2>3. done' \in 0 .. MaxTyped BY <1>5, <1>8 DEF N!SetNodeId
  <2> QED BY <1>1, <1>2, <1>3, <2>1, <2>2, <2>3 DEF N!OwnVariables, PickedSofar
<1>9. ASSUME NEW v \in Variable, N!SetVariables(v)
      PROVE  /\ step' \in 0 .. 3 /\ picked' \in [template : Template \cup {Nowhere}, node : Node \cup {Nowhere}]
             /\ form' \in Drafts /\ data' \in Data /\ done' \in 0 .. MaxTyped
             /\ UNCHANGED <<free, push, made>> /\ N!OwnVariables' /\ PickedSofar'
  <2>1. form' = [form EXCEPT !.own = form.own \cup {v}] /\ UNCHANGED <<step, picked, data, free, push, made>>
    BY <1>1, <1>9 DEF N!SetVariables, Drafts
  <2>2. form' \in Drafts /\ form'.of = form.of BY <1>1, <2>1 DEF Drafts
  <2>3. done' \in 0 .. MaxTyped BY <1>5, <1>9 DEF N!SetVariables
  <2> QED BY <1>1, <1>2, <2>1, <2>2, <2>3 DEF N!OwnVariables, PickedSofar
<1>10. ASSUME N!SetName
      PROVE  /\ step' \in 0 .. 3 /\ picked' \in [template : Template \cup {Nowhere}, node : Node \cup {Nowhere}]
             /\ form' \in Drafts /\ data' \in Data /\ done' \in 0 .. MaxTyped
             /\ UNCHANGED <<free, push, made>> /\ N!OwnVariables' /\ PickedSofar'
  <2>1. PICK name \in {"", "own"} : form' = N!Effect([form EXCEPT !.name = name], picked.template, data) BY <1>10 DEF N!SetName
  <2>2. [form EXCEPT !.name = name] \in Drafts BY <1>1 DEF Drafts
  <2>3. picked.template \in Template \cup {Nowhere} BY <1>1
  <2>4. form' \in Drafts /\ (picked.template # Nowhere /\ data[picked.template] = "here" => form'.of = picked.template)
    BY <2>1, <2>2, <2>3, Filled
  <2>5. done' \in 0 .. MaxTyped BY <1>5, <1>10 DEF N!SetName
  <2>6. UNCHANGED <<step, picked, data, free, push, made>> BY <1>10 DEF N!SetName
  <2> QED BY <1>1, <1>2, <2>4, <2>5, <2>6 DEF N!OwnVariables, PickedSofar
<1>11. ASSUME N!SetStep
      PROVE  /\ step' \in 0 .. 3 /\ picked' \in [template : Template \cup {Nowhere}, node : Node \cup {Nowhere}]
             /\ form' \in Drafts /\ data' \in Data /\ done' \in 0 .. MaxTyped
             /\ UNCHANGED <<free, push, made>> /\ N!OwnVariables' /\ PickedSofar'
  <2>1. UNCHANGED <<picked, form, data, free, push, made, done>> BY <1>11 DEF N!SetStep
  <2>2. \/ step' = step + 1 /\ N!CanAdvance
        \/ step' \in 0 .. 3 /\ step' < step
    BY <1>11 DEF N!SetStep
  <2>3. step' \in 0 .. 3 /\ PickedSofar'
    <3>1. CASE step' = step + 1 /\ N!CanAdvance
      <4>1. \/ step = 0 /\ picked.template # Nowhere
            \/ step = 1 /\ picked.node # Nowhere
            \/ step = 2
        BY <3>1 DEF N!CanAdvance
      <4> QED BY <1>2, <2>1, <3>1, <4>1 DEF PickedSofar
    <3>2. CASE step' \in 0 .. 3 /\ step' < step
      <4>1. step \in Nat /\ step' \in Nat /\ (step' >= 1 => step >= 1) /\ (step' >= 2 => step >= 2) BY <1>1, <3>2
      <4> QED BY <1>2, <2>1, <3>2, <4>1 DEF PickedSofar
    <3> QED BY <2>2, <3>1, <3>2
  <2> QED BY <1>1, <1>2, <2>1, <2>3 DEF N!OwnVariables
<1> QED BY <1>6, <1>7, <1>8, <1>9, <1>10, <1>11

\* The request, its answers, copies, and the nodes.
LEMMA RequestSteps ==
  ASSUME N!NewServerAssumption, NewInv,
         N!Create \/ N!PostServers \/ N!Refused \/ N!Answered \/ N!Clone \/ N!NodesChange \/ N!NodesArrive
  PROVE  NewInv'
<1> DEFINE Pushes == [at : {"idle", "sent", "made", "refused", "left"}, sent : SUBSET N!Servers]
           Makes  == [it : N!Servers, id : 1 .. MaxMade]
           Ports  == [real : SUBSET Node, told : SUBSET Node]
<1>1. push \in Pushes /\ made \subseteq Makes /\ free \in Ports /\ done \in 0 .. MaxTyped BY DEF NewInv, N!TypeOK
<1>2. UNCHANGED <<step, picked, form, data>>
  BY DEF N!Create, N!PostServers, N!Refused, N!Answered, N!Clone, N!NodesChange, N!NodesArrive
<1>3. SUFFICES push' \in Pushes /\ made' \subseteq Makes /\ free' \in Ports /\ done' \in 0 .. MaxTyped
  <2>1. N!OwnVariables' /\ PickedSofar' BY <1>2 DEF NewInv, N!OwnVariables, PickedSofar
  <2> QED BY <1>2, <2>1 DEF NewInv, N!TypeOK, N!Servers
<1>4. ASSUME NEW it \in N!Servers, N!Adds(it) PROVE made' \subseteq Makes
  <2>1. PICK id \in 1 .. MaxMade : made' = made \cup {[it |-> it, id |-> id]} BY <1>4 DEF N!Adds
  <2> QED BY <1>1, <2>1
<1>5. CASE N!Create
  <2> DEFINE new == [template |-> picked.template, node |-> picked.node, of |-> form.of, own |-> form.own]
  <2>1. new \in N!Servers
    <3>1. picked.template # Nowhere /\ picked.node # Nowhere BY <1>5 DEF N!Create, NewInv, PickedSofar
    <3>2. picked \in [template : Template \cup {Nowhere}, node : Node \cup {Nowhere}]
          /\ form \in [name : {"", "given", "own"}, of : Template \cup {Nowhere}, own : SUBSET Variable]
      BY DEF NewInv, N!TypeOK
    <3> QED BY <3>1, <3>2 DEF N!Servers
  <2>2. push' = [at |-> "sent", sent |-> {new}] /\ UNCHANGED <<made, free, done>> BY <1>5 DEF N!Create
  <2> HIDE DEF new
  <2> QED BY <1>1, <2>1, <2>2
<1>6. CASE N!PostServers \/ N!Refused \/ N!Answered
  <2>1. PICK at \in {"made", "refused", "left"} : push' = [push EXCEPT !.at = at]
    BY <1>6 DEF N!PostServers, N!Refused, N!Answered
  <2>2. push' \in Pushes BY <1>1, <2>1
  <2>3. made' \subseteq Makes
    <3>1. CASE N!PostServers
      <4>1. PICK it \in push.sent : N!Adds(it) BY <3>1 DEF N!PostServers
      <4>2. it \in N!Servers BY <1>1
      <4> QED BY <1>4, <4>1, <4>2
    <3> QED BY <1>1, <1>6, <3>1 DEF N!Refused, N!Answered
  <2> QED BY <1>1, <1>6, <2>2, <2>3 DEF N!PostServers, N!Refused, N!Answered
<1>7. CASE N!Clone
  <2>1. PICK m \in made, n \in free.real : N!Adds([m.it EXCEPT !.node = n]) BY <1>7 DEF N!Clone
  <2>2. m.it \in N!Servers /\ n \in Node BY <1>1
  <2>3. [m.it EXCEPT !.node = n] \in N!Servers BY <2>2 DEF N!Servers
  <2>4. made' \subseteq Makes BY <1>4, <2>1, <2>3
  <2> QED BY <1>1, <1>7, <2>4 DEF N!Clone
<1>8. CASE N!NodesChange \/ N!NodesArrive
  BY <1>1, <1>8 DEF N!NodesChange, N!NodesArrive, N!NewServerAssumption
<1> QED BY <1>5, <1>6, <1>7, <1>8

LEMMA NewStep == ASSUME N!NewServerAssumption, NewInv, N!Next PROVE NewInv'
BY FormSteps, RequestSteps DEF N!Next

LEMMA NewStill == ASSUME NewInv, UNCHANGED nVars PROVE NewInv'
BY DEF nVars, NewInv, PickedSofar, N!TypeOK, N!OwnVariables, N!Servers

-----------------------------------------------------------------------------
(***************************************************************************)
(* The file manager. Files that are still to go have a folder to go to, and an editor  *)
(* that is open shows a place.                                                *)
(***************************************************************************)
Dialogs  == [kind : {"none", "delete", "create", "rename", "discard"}, places : SUBSET F!Place, folder : Folder \cup {Nowhere}]
Requests == [kind : F!Kinds, places : SUBSET F!Place, folder : Folder \cup {Nowhere}]
Batches  == [folder : Folder \cup {Nowhere}, left : 0 .. BatchSize, went : SUBSET Folder]
Editors  == [title : F!Place \cup {F!None}, text : F!Place \cup {F!None}, typed : BOOLEAN, saving : BOOLEAN]

AroundTyped == path \in Folder /\ search \in BOOLEAN /\ selected \subseteq F!Place /\ clicks \in 0 .. MaxClicks
AskedTyped  == dialog \in Dialogs /\ requests \subseteq Requests
BatchGoes   == batch \in Batches /\ F!BatchTogether /\ (batch.left > 0 => batch.folder \in Folder)
EditorShows == editor \in Editors /\ reading \subseteq F!Place /\ (editor = F!NoEditor \/ editor.title \in F!Place)

FilesInv == AroundTyped /\ AskedTyped /\ BatchGoes /\ EditorShows

LEMMA FilesIs ==
  /\ FilesInv => F!TypeOK /\ F!BatchTogether
  /\ AroundTyped /\ UNCHANGED <<path, search, selected, clicks>> => AroundTyped'
  /\ AskedTyped /\ UNCHANGED <<dialog, requests>> => AskedTyped'
  /\ BatchGoes /\ UNCHANGED batch => BatchGoes'
  /\ EditorShows /\ UNCHANGED <<editor, reading>> => EditorShows'
<1>1. FilesInv => F!TypeOK /\ F!BatchTogether
  BY DEF FilesInv, AroundTyped, AskedTyped, BatchGoes, EditorShows, F!TypeOK, Dialogs, Requests, Batches, Editors
<1>2. AroundTyped /\ UNCHANGED <<path, search, selected, clicks>> => AroundTyped' BY DEF AroundTyped, F!Place
<1>3. AskedTyped /\ UNCHANGED <<dialog, requests>> => AskedTyped' BY DEF AskedTyped, Dialogs, Requests, F!Place, F!Kinds
<1>4. BatchGoes /\ UNCHANGED batch => BatchGoes' BY DEF BatchGoes, Batches, F!BatchTogether
<1>5. EditorShows /\ UNCHANGED <<editor, reading>> => EditorShows' BY DEF EditorShows, Editors, F!Place, F!None, F!NoEditor
<1> QED BY <1>1, <1>2, <1>3, <1>4, <1>5

LEMMA FilesStart == ASSUME F!FilesPageAssumption, F!Init PROVE FilesInv
<1> USE DEF F!Init, F!FilesPageAssumption
<1>1. AroundTyped
  <2>1. MaxClicks \in Nat /\ Root \in Folder OBVIOUS
  <2>2. path \in Folder /\ clicks \in 0 .. MaxClicks BY <2>1
  <2> QED BY <2>2 DEF AroundTyped
<1>2. AskedTyped BY DEF AskedTyped, Dialogs, F!NoDialog
<1>3. BatchGoes BY DEF BatchGoes, Batches, F!NoBatch, F!BatchTogether
<1>4. EditorShows BY DEF EditorShows, Editors, F!NoEditor
<1> QED BY <1>1, <1>2, <1>3, <1>4 DEF FilesInv

\* What the page lists are places; in the folder shown they still are.
LEMMA RowsArePlaces ==
  ASSUME path \in Folder
  PROVE  /\ F!Rows \subseteq F!Place
         /\ \A p \in F!Place : p[1] \in Folder
         /\ \A some \in SUBSET F!Place : F!Here(some) \subseteq F!Place
BY DEF F!Rows, F!Place, F!Here

LEMMA ClickTyped == ASSUME F!FilesPageAssumption, AroundTyped, F!Click PROVE clicks' \in 0 .. MaxClicks
BY DEF F!FilesPageAssumption, AroundTyped, F!Click

LEMMA LookSteps ==
  ASSUME F!FilesPageAssumption, FilesInv, F!OpenFolder \/ F!Breadcrumb \/ F!Search \/ F!Tick
  PROVE  FilesInv'
<1>1. UNCHANGED <<dialog, requests, batch, reading, editor>> BY DEF F!OpenFolder, F!Breadcrumb, F!Search, F!Tick
<1>2. clicks' \in 0 .. MaxClicks BY ClickTyped DEF F!OpenFolder, F!Breadcrumb, F!Search, F!Tick, FilesInv
<1>3. AroundTyped BY DEF FilesInv
<1>4. path' \in Folder BY <1>3 DEF F!OpenFolder, F!Breadcrumb, F!Search, F!Tick, AroundTyped
<1>5. search' \in BOOLEAN BY <1>3 DEF F!OpenFolder, F!Breadcrumb, F!Search, F!Tick, AroundTyped
<1>6. selected' \subseteq F!Place
  <2>1. F!Rows \subseteq F!Place /\ selected \subseteq F!Place BY <1>3, RowsArePlaces DEF AroundTyped
  <2>2. selected' \in {selected, {}, F!Rows} \/ \E p \in F!Rows : selected' \in {selected \ {p}, selected \cup {p}}
    BY DEF F!OpenFolder, F!Breadcrumb, F!Search, F!Tick
  <2> QED BY <2>1, <2>2
<1>7. AroundTyped' BY <1>2, <1>4, <1>5, <1>6 DEF AroundTyped, F!Place
<1> QED BY <1>1, <1>7, FilesIs DEF FilesInv

\* A dialog asks, and the answer is what it asked; menus ask for themselves.
LEMMA DialogSteps ==
  ASSUME F!FilesPageAssumption, FilesInv,
         \/ F!RemoveEntries \/ F!AskCreate \/ F!AskRename \/ F!Answer \/ F!Dismiss
         \/ F!Duplicate \/ F!Archive \/ F!Extract
  PROVE  FilesInv'
<1>1. UNCHANGED <<path, search, selected, batch, reading, editor>>
  BY DEF F!RemoveEntries, F!AskCreate, F!AskRename, F!Ask, F!Answer, F!Dismiss, F!Duplicate, F!Archive, F!Extract
<1>2. AroundTyped /\ AskedTyped /\ path \in Folder /\ selected \subseteq F!Place BY DEF FilesInv, AroundTyped
<1>3. clicks' \in 0 .. MaxClicks
  <2>1. F!Click \/ clicks' = clicks
    BY DEF F!RemoveEntries, F!AskCreate, F!AskRename, F!Ask, F!Answer, F!Dismiss, F!Duplicate, F!Archive, F!Extract
  <2> QED BY <1>2, <2>1, ClickTyped DEF AroundTyped
<1>4. AroundTyped' BY <1>1, <1>2, <1>3 DEF AroundTyped, F!Place
<1>5. F!Rows \subseteq F!Place /\ (\A p \in F!Place : p[1] \in Folder) /\ \A some \in SUBSET F!Place : F!Here(some) \subseteq F!Place
  BY <1>2, RowsArePlaces
<1>6. ASSUME NEW kind \in {"delete", "create", "rename"}, NEW some \in SUBSET F!Place, NEW to \in Folder \cup {Nowhere},
             F!Ask(kind, some, to)
      PROVE  dialog' \in Dialogs /\ requests' \subseteq Requests
  BY <1>2, <1>6 DEF F!Ask, Dialogs, AskedTyped
<1>7. ASSUME NEW kind \in F!Kinds, NEW some \in SUBSET F!Place, NEW to \in Folder \cup {Nowhere}, F!Mutate(kind, some, to)
      PROVE  requests' \subseteq Requests
  BY <1>2, <1>7 DEF F!Mutate, Requests, AskedTyped
<1>8. dialog' \in Dialogs /\ requests' \subseteq Requests
  <2>1. CASE F!RemoveEntries \/ F!AskCreate \/ F!AskRename
    BY <1>2, <1>5, <1>6, <2>1 DEF F!RemoveEntries, F!AskCreate, F!AskRename
  <2>2. F!NoDialog \in Dialogs BY DEF F!NoDialog, Dialogs
  <2>3. CASE F!Answer
    <3>1. dialog.kind \in F!Kinds /\ dialog.places \in SUBSET F!Place /\ dialog.folder \in Folder \cup {Nowhere}
      BY <1>2, <2>3 DEF F!Answer, F!Kinds, AskedTyped, Dialogs
    <3>2. F!Mutate(dialog.kind, dialog.places, dialog.folder) /\ dialog' = F!NoDialog BY <2>3 DEF F!Answer
    <3> QED BY <1>7, <2>2, <3>1, <3>2
  <2>4. CASE F!Dismiss BY <1>2, <2>2, <2>4 DEF F!Dismiss, AskedTyped
  <2>5. CASE F!Duplicate \/ F!Archive \/ F!Extract
    <3>1. dialog' \in Dialogs BY <1>2, <2>5 DEF F!Duplicate, F!Archive, F!Extract, AskedTyped
    <3>2. \A p \in F!Rows : {p} \in SUBSET F!Place /\ p[1] \in Folder BY <1>5
    <3>3. {"copy", "compress", "decompress"} \subseteq F!Kinds BY DEF F!Kinds
    <3>4. \/ \E p \in F!Rows : F!Mutate("copy", {p}, p[1])
          \/ F!Mutate("compress", F!Here(selected), path)
          \/ \E p \in F!Rows : F!Mutate("decompress", F!Here({p}), path)
      BY <2>5 DEF F!Duplicate, F!Archive, F!Extract
    <3> QED BY <1>2, <1>5, <1>7, <3>1, <3>2, <3>3, <3>4
  <2> QED BY <2>1, <2>3, <2>4, <2>5
<1>9. AskedTyped' BY <1>8 DEF AskedTyped, Dialogs, Requests, F!Place, F!Kinds
<1> QED BY <1>1, <1>4, <1>9, FilesIs DEF FilesInv

LEMMA UnsavedIs ==
  ASSUME NEW T, NEW e \in [title : T, text : T, typed : BOOLEAN, saving : BOOLEAN], e.saving = FALSE
  PROVE  [e EXCEPT !.saving = FALSE] = e
OBVIOUS

\* An answer comes; a saving closes the editor or gives it back.
LEMMA AnswerSteps == ASSUME F!FilesPageAssumption, FilesInv, F!Succeeds \/ F!Fails PROVE FilesInv'
<1>1. UNCHANGED <<path, search, dialog, batch, reading, clicks>> BY DEF F!Succeeds, F!Fails
<1>2. AroundTyped /\ AskedTyped /\ EditorShows BY DEF FilesInv
<1>3. selected' \in {selected, {}} BY DEF F!Succeeds, F!Fails, F!Refreshed
<1>4. requests' \subseteq requests BY DEF F!Succeeds, F!Fails
<1>5. editor' \in {editor, F!NoEditor, [editor EXCEPT !.saving = FALSE]} BY DEF F!Succeeds, F!Fails
<1>6. F!NoEditor \in Editors /\ [F!NoEditor EXCEPT !.saving = FALSE] = F!NoEditor
  <2>1. F!NoEditor \in Editors BY DEF F!NoEditor, Editors
  <2>2. F!NoEditor.saving = FALSE BY DEF F!NoEditor
  <2> QED BY <2>1, <2>2, UnsavedIs DEF Editors
<1>7. [editor EXCEPT !.saving = FALSE] \in Editors /\ [editor EXCEPT !.saving = FALSE].title = editor.title
  BY <1>2 DEF EditorShows, Editors
<1>8. editor' \in Editors /\ (editor' = F!NoEditor \/ editor'.title \in F!Place) BY <1>2, <1>5, <1>6, <1>7 DEF EditorShows
<1>9. EditorShows' BY <1>1, <1>2, <1>8 DEF EditorShows, Editors, F!Place, F!None, F!NoEditor
<1>10. AroundTyped' BY <1>1, <1>2, <1>3 DEF AroundTyped, F!Place
<1>11. AskedTyped' BY <1>1, <1>2, <1>4 DEF AskedTyped, Dialogs, Requests, F!Place, F!Kinds
<1> QED BY <1>1, <1>9, <1>10, <1>11, FilesIs DEF FilesInv

\* A batch goes where it was to go.
LEMMA BatchSteps ==
  ASSUME F!FilesPageAssumption, FilesInv, F!ChooseFiles \/ F!UploadOne \/ F!UploadEnds PROVE FilesInv'
<1>1. UNCHANGED <<path, search, dialog, requests, reading, editor>> BY DEF F!ChooseFiles, F!UploadOne, F!UploadEnds
<1>2. AroundTyped /\ BatchGoes BY DEF FilesInv
<1>3. selected' \in {selected, {}} BY DEF F!ChooseFiles, F!UploadOne, F!UploadEnds, F!Refreshed
<1>4. clicks' \in 0 .. MaxClicks BY <1>2, ClickTyped DEF F!ChooseFiles, F!UploadOne, F!UploadEnds, AroundTyped
<1>5. AroundTyped' BY <1>1, <1>2, <1>3, <1>4 DEF AroundTyped, F!Place
<1>6. batch' \in Batches /\ batch'.went \subseteq {batch'.folder} /\ (batch'.left > 0 => batch'.folder \in Folder)
  <2>1. CASE F!ChooseFiles
    <3>1. batch' = [folder |-> path, left |-> BatchSize, went |-> {}] BY <2>1 DEF F!ChooseFiles
    <3> QED BY <1>2, <3>1 DEF AroundTyped, Batches, F!FilesPageAssumption
  <2>2. CASE F!UploadOne
    <3>1. batch' = [batch EXCEPT !.left = batch.left - 1, !.went = batch.went \cup {batch.folder}] /\ batch.left > 0
      BY <1>2, <2>2 DEF F!UploadOne, F!Target, BatchGoes, Batches
    <3>2. batch.folder \in Folder /\ batch \in Batches /\ batch.went \subseteq {batch.folder}
      BY <1>2, <3>1 DEF BatchGoes, F!BatchTogether
    <3>3. batch'.folder = batch.folder /\ batch'.went = batch.went \cup {batch.folder} BY <3>1, <3>2 DEF Batches
    <3>4. batch' \in Batches
      <4>1. BatchSize \in Nat BY DEF F!FilesPageAssumption
      <4>2. batch.left - 1 \in 0 .. BatchSize BY <3>1, <3>2, <4>1 DEF Batches
      <4>3. batch.went \cup {batch.folder} \in SUBSET Folder BY <3>2 DEF Batches
      <4> QED BY <3>1, <3>2, <4>2, <4>3 DEF Batches
    <3> QED BY <3>2, <3>3, <3>4
  <2>3. CASE F!UploadEnds
    <3>1. batch' = [folder |-> Nowhere, left |-> 0, went |-> {}] BY <2>3 DEF F!UploadEnds, F!NoBatch
    <3> QED BY <3>1 DEF Batches, F!FilesPageAssumption
  <2> QED BY <2>1, <2>2, <2>3
<1>7. BatchGoes' BY <1>6 DEF BatchGoes, Batches, F!BatchTogether
<1> QED BY <1>1, <1>5, <1>7, FilesIs DEF FilesInv

\* Contents arrive, are typed over, saved, discarded.
LEMMA EditorSteps ==
  ASSUME F!FilesPageAssumption, FilesInv,
         \/ F!OpenEntry \/ F!ContentsArrive \/ F!ContentsFail \/ F!Type \/ F!Save \/ F!RequestClose \/ F!Discard
  PROVE  FilesInv'
<1> USE DEF F!OpenEntry, F!ContentsArrive, F!ContentsFail, F!Type, F!Save, F!RequestClose, F!Discard
<1>1. UNCHANGED <<path, search, selected, batch>> OBVIOUS
<1>2. AroundTyped /\ AskedTyped /\ EditorShows /\ path \in Folder BY DEF FilesInv, AroundTyped
<1>3. AroundTyped'
  <2>1. F!Click \/ clicks' = clicks OBVIOUS
  <2>2. clicks' \in 0 .. MaxClicks BY <1>2, <2>1, ClickTyped DEF AroundTyped
  <2> QED BY <1>1, <1>2, <2>2 DEF AroundTyped, F!Place
<1>4. reading' \subseteq F!Place
  <2>1. reading' \subseteq reading \cup F!Rows OBVIOUS
  <2> QED BY <1>2, <2>1, RowsArePlaces DEF EditorShows
<1>5. editor' \in Editors /\ (editor' = F!NoEditor \/ editor'.title \in F!Place)
  <2>1. F!NoEditor \in Editors BY DEF F!NoEditor, Editors
  <2>2. ASSUME NEW p \in F!Place
        PROVE  /\ [F!NoEditor EXCEPT !.title = p, !.text = p] \in Editors
               /\ [F!NoEditor EXCEPT !.title = p, !.text = p].title = p
               /\ [editor EXCEPT !.title = p] \in Editors /\ [editor EXCEPT !.title = p].title = p
    BY <1>2 DEF F!NoEditor, Editors, EditorShows
  <2>3. /\ [editor EXCEPT !.typed = TRUE] \in Editors /\ [editor EXCEPT !.typed = TRUE].title = editor.title
        /\ [editor EXCEPT !.saving = TRUE] \in Editors /\ [editor EXCEPT !.saving = TRUE].title = editor.title
    BY <1>2 DEF Editors, EditorShows
  <2>4. CASE F!ContentsArrive
    <3>1. PICK p \in reading : editor' \in {[F!NoEditor EXCEPT !.title = p, !.text = p], [editor EXCEPT !.title = p]}
      BY <2>4
    <3> QED BY <1>2, <2>2, <3>1 DEF EditorShows
  <2>5. CASE F!Type \/ F!Save
    <3>1. editor # F!NoEditor /\ editor' \in {[editor EXCEPT !.typed = TRUE], [editor EXCEPT !.saving = TRUE]} BY <2>5
    <3> QED BY <1>2, <2>3, <3>1 DEF EditorShows
  <2>6. CASE ~(F!ContentsArrive \/ F!Type \/ F!Save)
    <3>1. editor' \in {editor, F!NoEditor} BY <2>6
    <3> QED BY <1>2, <2>1, <3>1 DEF EditorShows
  <2> QED BY <2>4, <2>5, <2>6
<1>6. EditorShows' BY <1>4, <1>5 DEF EditorShows, Editors, F!Place, F!None, F!NoEditor
<1>7. dialog' \in Dialogs
  <2>1. F!NoDialog \in Dialogs /\ [F!NoDialog EXCEPT !.kind = "discard"] \in Dialogs BY DEF F!NoDialog, Dialogs
  <2>2. dialog' \in {dialog, F!NoDialog, [F!NoDialog EXCEPT !.kind = "discard"]} OBVIOUS
  <2> QED BY <1>2, <2>1, <2>2 DEF AskedTyped
<1>8. requests' \subseteq Requests
  <2>1. CASE F!Save
    <3>1. editor.title \in F!Place BY <1>2, <2>1 DEF EditorShows
    <3>2. editor.title[1] \in Folder BY <1>2, <3>1, RowsArePlaces
    <3>3. requests' = requests \cup {[kind |-> "save", places |-> {editor.title}, folder |-> editor.title[1]]}
      BY <2>1 DEF F!Mutate
    <3> DEFINE new == [kind |-> "save", places |-> {editor.title}, folder |-> editor.title[1]]
    <3>4. {editor.title} \in SUBSET F!Place /\ "save" \in F!Kinds BY <3>1 DEF F!Kinds
    <3>5. new \in Requests BY <3>2, <3>4 DEF Requests
    <3>6. requests' = requests \cup {new} BY <3>3
    <3> HIDE DEF new
    <3> QED BY <1>2, <3>5, <3>6 DEF AskedTyped
  <2>2. CASE ~F!Save
    <3>1. requests' = requests BY <2>2
    <3> QED BY <1>2, <3>1 DEF AskedTyped
  <2> QED BY <2>1, <2>2
<1>9. AskedTyped' BY <1>7, <1>8 DEF AskedTyped, Dialogs, Requests, F!Place, F!Kinds
<1> QED BY <1>1, <1>3, <1>6, <1>9, FilesIs DEF FilesInv

LEMMA FilesStep == ASSUME F!FilesPageAssumption, FilesInv, F!Next PROVE FilesInv'
BY LookSteps, DialogSteps, AnswerSteps, BatchSteps, EditorSteps DEF F!Next

LEMMA FilesStill == ASSUME FilesInv, UNCHANGED fVars PROVE FilesInv'
BY FilesIs DEF fVars, FilesInv

-----------------------------------------------------------------------------
(***************************************************************************)
(* The security page: a key that stands is what was granted of what was picked.       *)
(***************************************************************************)
KeyDialogs == [open : BOOLEAN, scoped : BOOLEAN, chosen : SUBSET Permission, named : BOOLEAN, ask : Asking \cup {NoAsk}]
KeyRows    == [at : {"none", "sent", "made", "over"}, asked : SUBSET Permission, list : SUBSET Permission, stands : BOOLEAN]
Factors    == [secret : 0 .. MaxSecrets, on : BOOLEAN, codes : 0 .. MaxSecrets]
Enrols     == [secret : 0 .. MaxSecrets, sent : BOOLEAN, codes : 0 .. MaxSecrets]
Signed     == [real : SUBSET Device, listed : SUBSET Device]

KeysTyped     == /\ may \subseteq Permission /\ offered \subseteq Permission /\ keyDialog \in KeyDialogs
                 /\ asks \in [Asking -> KeyRows] /\ issued \in Asking \cup {NoAsk} /\ keys \subseteq Asking
FactorTyped   == factor \in Factors /\ enrol \in Enrols /\ seen \in BOOLEAN
SessionsTyped == signed \in Signed /\ password \in {"blank", "mismatch", "ready"}
TurnsTyped    == turns \in 0 .. MaxTurns

SecurityInv == KeysTyped /\ S!KeyAsPicked /\ FactorTyped /\ SessionsTyped /\ TurnsTyped

LEMMA SecurityIs ==
  /\ SecurityInv => S!TypeOK /\ S!KeyAsPicked
  /\ KeysTyped /\ S!KeyAsPicked /\ UNCHANGED <<may, offered, keyDialog, asks, issued, keys>> => KeysTyped' /\ S!KeyAsPicked'
  /\ FactorTyped /\ UNCHANGED <<factor, enrol, seen>> => FactorTyped'
  /\ SessionsTyped /\ UNCHANGED <<signed, password>> => SessionsTyped'
  /\ TurnsTyped /\ UNCHANGED turns => TurnsTyped'
<1>1. SecurityInv => S!TypeOK /\ S!KeyAsPicked
  BY DEF SecurityInv, KeysTyped, FactorTyped, SessionsTyped, TurnsTyped, S!TypeOK, KeyDialogs, KeyRows, Factors, Enrols, Signed
<1>2. KeysTyped /\ UNCHANGED <<may, offered, keyDialog, asks, issued, keys>> => KeysTyped'
  BY DEF KeysTyped, KeyDialogs, KeyRows
<1>3. S!KeyAsPicked /\ UNCHANGED asks => S!KeyAsPicked' BY DEF S!KeyAsPicked, S!Everything
<1>4. FactorTyped /\ UNCHANGED <<factor, enrol, seen>> => FactorTyped' BY DEF FactorTyped, Factors, Enrols
<1>5. SessionsTyped /\ UNCHANGED <<signed, password>> => SessionsTyped' BY DEF SessionsTyped, Signed
<1>6. TurnsTyped /\ UNCHANGED turns => TurnsTyped' BY DEF TurnsTyped
<1> QED BY <1>1, <1>2, <1>3, <1>4, <1>5, <1>6

LEMMA SecurityStart == ASSUME S!SecurityPageAssumption, S!Init PROVE SecurityInv
<1> USE DEF S!Init, S!SecurityPageAssumption
<1>1. KeysTyped
  <2>1. S!Shut \in KeyDialogs BY DEF S!Shut, KeyDialogs
  <2>2. S!Unasked \in KeyRows BY DEF S!Unasked, KeyRows
  <2> QED BY <2>1, <2>2 DEF KeysTyped
<1>2. S!KeyAsPicked BY DEF S!KeyAsPicked, S!Unasked
<1>3. FactorTyped
  <2>1. 0 \in 0 .. MaxSecrets OBVIOUS
  <2> QED BY <2>1 DEF FactorTyped, Factors, Enrols, S!NoFactor
<1>4. SessionsTyped /\ TurnsTyped BY DEF SessionsTyped, Signed, TurnsTyped
<1> QED BY <1>1, <1>2, <1>3, <1>4 DEF SecurityInv

LEMMA TurnTyped == ASSUME S!SecurityPageAssumption, TurnsTyped, S!Turn \/ turns' = turns PROVE TurnsTyped'
BY DEF S!SecurityPageAssumption, TurnsTyped, S!Turn

\* The dialog, the lists and the token, and nothing of the keys themselves.
LEMMA KeyDialogSteps ==
  ASSUME S!SecurityPageAssumption, SecurityInv,
         \/ S!SetKeyDialog \/ S!PermissionsArrive \/ S!FillIn \/ S!CloseIssued \/ S!KeysArrive \/ S!HeldChanges
  PROVE  SecurityInv'
<1> USE DEF S!SetKeyDialog, S!PermissionsArrive, S!FillIn, S!CloseIssued, S!KeysArrive, S!HeldChanges, S!factorVars, S!sessionVars
<1>1. UNCHANGED <<asks, factor, enrol, seen, signed, password>> OBVIOUS
<1>2. KeysTyped /\ S!KeyAsPicked /\ FactorTyped /\ SessionsTyped /\ TurnsTyped BY DEF SecurityInv
<1>3. may' \subseteq Permission /\ offered' \subseteq Permission BY <1>2 DEF KeysTyped
<1>4. keyDialog' \in KeyDialogs
  <2>1. S!Shut \in KeyDialogs /\ [S!Shut EXCEPT !.open = TRUE] \in KeyDialogs BY DEF S!Shut, KeyDialogs
  <2>2. keyDialog \in KeyDialogs BY <1>2 DEF KeysTyped
  <2>3. CASE ~S!FillIn
    <3>1. keyDialog' \in {keyDialog, S!Shut, [S!Shut EXCEPT !.open = TRUE]} BY <2>3
    <3> QED BY <2>1, <2>2, <3>1
  <2>4. CASE S!FillIn
    <3>1. \/ keyDialog' = [keyDialog EXCEPT !.named = ~keyDialog.named]
          \/ keyDialog' = [keyDialog EXCEPT !.scoped = ~keyDialog.scoped]
          \/ \E p \in offered : keyDialog' = [keyDialog EXCEPT !.chosen =
               IF p \in keyDialog.chosen THEN keyDialog.chosen \ {p} ELSE keyDialog.chosen \cup {p}]
      BY <2>2, <2>4 DEF KeyDialogs
    <3>2. offered \subseteq Permission BY <1>2 DEF KeysTyped
    <3>3. ASSUME NEW some \in SUBSET Permission PROVE [keyDialog EXCEPT !.chosen = some] \in KeyDialogs
      BY <2>2 DEF KeyDialogs
    <3>4. [keyDialog EXCEPT !.named = ~keyDialog.named] \in KeyDialogs
          /\ [keyDialog EXCEPT !.scoped = ~keyDialog.scoped] \in KeyDialogs
      BY <2>2 DEF KeyDialogs
    <3>5. \A p \in offered : (IF p \in keyDialog.chosen THEN keyDialog.chosen \ {p} ELSE keyDialog.chosen \cup {p}) \in SUBSET Permission
      BY <2>2, <3>2 DEF KeyDialogs
    <3> QED BY <3>1, <3>3, <3>4, <3>5
  <2> QED BY <2>3, <2>4
<1>5. issued' \in Asking \cup {NoAsk} BY <1>2 DEF KeysTyped
<1>6. keys' \subseteq Asking BY <1>2 DEF KeysTyped, S!Standing
<1>7. KeysTyped' BY <1>1, <1>2, <1>3, <1>4, <1>5, <1>6 DEF KeysTyped, KeyDialogs, KeyRows
<1>8. S!KeyAsPicked' BY <1>1, <1>2 DEF S!KeyAsPicked, S!Everything
<1>9. TurnsTyped'
  <2>1. S!Turn \/ turns' = turns OBVIOUS
  <2> QED BY <1>2, <2>1, TurnTyped
<1> QED BY <1>1, <1>2, <1>7, <1>8, <1>9, SecurityIs DEF SecurityInv

\* One request: what it asks for stays what was picked, and its row grants no more.
LEMMA KeyRowSteps ==
  ASSUME S!SecurityPageAssumption, SecurityInv, NEW a \in Asking,
         S!CreateKey(a) \/ S!PostApiKeys(a) \/ S!Created(a) \/ S!CreateFails(a) \/ S!RevokeKey(a)
  PROVE  SecurityInv'
<1> USE DEF S!factorVars, S!sessionVars
<1>1. UNCHANGED <<may, offered, keys, factor, enrol, seen, signed, password, turns>>
  BY DEF S!CreateKey, S!PostApiKeys, S!Created, S!CreateFails, S!RevokeKey
<1>2. KeysTyped /\ S!KeyAsPicked /\ FactorTyped /\ SessionsTyped /\ TurnsTyped BY DEF SecurityInv
<1>3. asks[a] \in KeyRows /\ keyDialog \in KeyDialogs /\ may \subseteq Permission BY <1>2 DEF KeysTyped
<1>4. asks[a].stands /\ asks[a].asked # {} => asks[a].list # {} /\ asks[a].list \subseteq asks[a].asked
  BY <1>2 DEF S!KeyAsPicked, S!Everything
<1>5. PICK new \in KeyRows :
        /\ asks' = [asks EXCEPT ![a] = new]
        /\ new.stands /\ new.asked # {} => new.list # {} /\ new.list \subseteq new.asked
  <2>1. CASE S!CreateKey(a)
    <3> DEFINE picks == IF keyDialog.scoped THEN keyDialog.chosen ELSE {}
               new == [S!Unasked EXCEPT !.at = "sent", !.asked = picks]
    <3>1. asks' = [asks EXCEPT ![a] = new] BY <2>1 DEF S!CreateKey, S!Everything
    <3>2. picks \subseteq Permission BY <1>3 DEF KeyDialogs
    <3>3. new \in KeyRows /\ ~new.stands
      <4> HIDE DEF picks
      <4> QED BY <3>2 DEF S!Unasked, KeyRows
    <3> HIDE DEF new
    <3> QED BY <3>1, <3>3
  <2>2. CASE S!PostApiKeys(a)
    <3> DEFINE granted == asks[a].asked \cap may
               new == [asks[a] EXCEPT !.at = "made", !.list = granted, !.stands = TRUE]
    <3>1. asks' = [asks EXCEPT ![a] = new]
      <4>1. asks' = [asks EXCEPT ![a] = [@ EXCEPT !.at = "made", !.list = granted, !.stands = TRUE]]
        BY <2>2 DEF S!PostApiKeys, S!Granted
      <4> HIDE DEF granted
      <4> QED BY <1>2, <1>3, <4>1 DEF KeysTyped
    <3>2. granted \subseteq Permission /\ granted \subseteq asks[a].asked BY <1>3
    <3>3. asks[a].asked # {} => granted # {} BY <2>2 DEF S!PostApiKeys, S!Refused, S!Granted
    <3> HIDE DEF granted
    <3>4. new \in KeyRows /\ new.asked = asks[a].asked /\ new.list = granted BY <1>3, <3>2 DEF KeyRows
    <3> HIDE DEF new
    <3> QED BY <3>1, <3>2, <3>3, <3>4
  <2>3. CASE S!Created(a) \/ S!CreateFails(a)
    <3> DEFINE new == [asks[a] EXCEPT !.at = "over"]
    <3>1. asks' = [asks EXCEPT ![a] = new] BY <1>2, <2>3 DEF S!Created, S!CreateFails, KeysTyped
    <3>2. new \in KeyRows /\ new.asked = asks[a].asked /\ new.list = asks[a].list /\ new.stands = asks[a].stands
      BY <1>3 DEF KeyRows
    <3> HIDE DEF new
    <3> QED BY <1>4, <3>1, <3>2
  <2>4. CASE S!RevokeKey(a)
    <3> DEFINE new == [asks[a] EXCEPT !.stands = FALSE]
    <3>1. asks' = [asks EXCEPT ![a] = new] BY <1>2, <2>4 DEF S!RevokeKey, KeysTyped
    <3>2. new \in KeyRows /\ ~new.stands BY <1>3 DEF KeyRows
    <3> HIDE DEF new
    <3> QED BY <3>1, <3>2
  <2> QED BY <2>1, <2>2, <2>3, <2>4
<1>6. asks' \in [Asking -> KeyRows] BY <1>2, <1>5 DEF KeysTyped
<1>7. S!KeyAsPicked'
  <2>1. asks'[a] = new BY <1>2, <1>5 DEF KeysTyped
  <2>2. \A b \in Asking : b # a => asks'[b] = asks[b] BY <1>2, <1>5 DEF KeysTyped
  <2> QED BY <1>2, <1>5, <2>1, <2>2 DEF S!KeyAsPicked, S!Everything
<1>8. keyDialog' \in KeyDialogs
  <2>1. S!Shut \in KeyDialogs BY DEF S!Shut, KeyDialogs
  <2>2. keyDialog' \in {keyDialog, S!Shut, [keyDialog EXCEPT !.ask = a], [keyDialog EXCEPT !.ask = NoAsk]}
    BY DEF S!CreateKey, S!PostApiKeys, S!Created, S!CreateFails, S!RevokeKey
  <2> QED BY <1>3, <2>1, <2>2 DEF KeyDialogs
<1>9. issued' \in Asking \cup {NoAsk}
  BY <1>2 DEF S!CreateKey, S!PostApiKeys, S!Created, S!CreateFails, S!RevokeKey, KeysTyped
<1>10. KeysTyped' BY <1>1, <1>2, <1>6, <1>8, <1>9 DEF KeysTyped, KeyDialogs, KeyRows
<1> QED BY <1>1, <1>2, <1>7, <1>10, SecurityIs DEF SecurityInv

LEMMA KeyStep == ASSUME S!SecurityPageAssumption, SecurityInv, S!KeySteps PROVE SecurityInv'
BY KeyDialogSteps, KeyRowSteps DEF S!KeySteps

\* The second factor: there are no more secrets and codes than were made.
LEMMA FactorStep == ASSUME S!SecurityPageAssumption, SecurityInv, S!FactorSteps PROVE SecurityInv'
<1> USE DEF S!keyVars, S!sessionVars
<1> USE DEF S!BeginTwoFactor, S!Enable, S!Enabled, S!CloseTwoFactor, S!CloseBackupCodes, S!DisableTwoFactor, S!FactorChanges
<1>1. UNCHANGED <<may, offered, keyDialog, asks, issued, keys, signed, password>> BY DEF S!FactorSteps
<1>2. KeysTyped /\ S!KeyAsPicked /\ FactorTyped /\ SessionsTyped /\ TurnsTyped BY DEF SecurityInv
<1>3. factor \in Factors /\ enrol \in Enrols /\ seen \in BOOLEAN BY <1>2 DEF FactorTyped
<1>4. \A on \in BOOLEAN, codes \in 0 .. MaxSecrets : S!Turns(on, codes) => factor' \in Factors
  BY <1>3 DEF S!Turns, Factors
<1>5. S!SetsUp => factor' \in Factors
  <2> SUFFICES ASSUME S!SetsUp PROVE factor' \in Factors OBVIOUS
  <2>1. factor' = [factor EXCEPT !.secret = factor.secret + 1] BY <1>3 DEF S!SetsUp, Factors
  <2>2. factor.secret + 1 \in 0 .. MaxSecrets BY <1>3 DEF S!SetsUp, S!Next1, Factors
  <2> QED BY <1>3, <2>1, <2>2 DEF Factors
<1>6. factor.codes \in 0 .. MaxSecrets /\ (S!Next1(factor.codes) => factor.codes + 1 \in 0 .. MaxSecrets)
  BY <1>3 DEF Factors, S!Next1
<1>7. factor' \in Factors
  <2>1. \/ S!SetsUp
        \/ S!Next1(factor.codes) /\ S!Turns(TRUE, factor.codes + 1)
        \/ S!Turns(FALSE, factor.codes)
        \/ factor' = factor
    BY DEF S!FactorSteps
  <2> QED BY <1>3, <1>4, <1>5, <1>6, <2>1
<1>8. enrol' \in Enrols
  <2>1. factor'.secret \in 0 .. MaxSecrets BY <1>7 DEF Factors
  <2>2. 0 \in 0 .. MaxSecrets BY DEF S!SecurityPageAssumption
  <2>3. \/ enrol' = [enrol EXCEPT !.secret = factor'.secret]
        \/ enrol' = [enrol EXCEPT !.sent = TRUE]
        \/ enrol' = [secret |-> 0, sent |-> FALSE, codes |-> factor.codes]
        \/ enrol' = [enrol EXCEPT !.sent = FALSE]
        \/ enrol' = [enrol EXCEPT !.secret = 0]
        \/ enrol' = [enrol EXCEPT !.codes = 0]
        \/ enrol' = enrol
    BY DEF S!FactorSteps
  <2>4. ASSUME NEW n \in 0 .. MaxSecrets
        PROVE  /\ [enrol EXCEPT !.secret = n] \in Enrols /\ [enrol EXCEPT !.codes = n] \in Enrols
               /\ [secret |-> 0, sent |-> FALSE, codes |-> n] \in Enrols
    BY <1>3, <2>2 DEF Enrols
  <2>5. [enrol EXCEPT !.sent = TRUE] \in Enrols /\ [enrol EXCEPT !.sent = FALSE] \in Enrols BY <1>3 DEF Enrols
  <2> QED BY <1>3, <1>6, <2>1, <2>2, <2>3, <2>4, <2>5
<1>9. seen' \in BOOLEAN BY <1>3 DEF S!FactorSteps, Factors
<1>10. FactorTyped' BY <1>7, <1>8, <1>9 DEF FactorTyped, Factors, Enrols
<1>11. TurnsTyped'
  <2>1. S!Turn \/ turns' = turns BY DEF S!FactorSteps
  <2> QED BY <1>2, <2>1, TurnTyped
<1> QED BY <1>1, <1>2, <1>10, <1>11, SecurityIs DEF SecurityInv

LEMMA SessionStep == ASSUME S!SecurityPageAssumption, SecurityInv, S!SessionSteps PROVE SecurityInv'
<1> USE DEF S!keyVars, S!factorVars
<1> USE DEF S!TypePassword, S!ChangePassword, S!RevokeAll, S!SessionsArrive, S!RevokeSession, S!SignsIn
<1>1. UNCHANGED <<may, offered, keyDialog, asks, issued, keys, factor, enrol, seen>> BY DEF S!SessionSteps
<1>2. KeysTyped /\ S!KeyAsPicked /\ FactorTyped /\ SessionsTyped /\ TurnsTyped BY DEF SecurityInv
<1>3. signed \in Signed /\ signed.real \subseteq Device /\ signed.listed \subseteq Device BY <1>2 DEF SessionsTyped, Signed
<1>4. signed' \in Signed
  <2>1. \/ signed' = signed
        \/ \E some \in SUBSET Device : signed' = [signed EXCEPT !.real = some]
        \/ \E some \in SUBSET Device : signed' = [signed EXCEPT !.listed = some]
    <3>1. CASE S!TypePassword BY <3>1
    <3>2. CASE S!ChangePassword \/ S!RevokeAll
      <4>1. signed' = [signed EXCEPT !.real = {}] /\ {} \in SUBSET Device BY <3>2
      <4> QED BY <4>1
    <3>3. CASE S!SessionsArrive BY <1>3, <3>3
    <3>4. ASSUME NEW d \in Device, S!RevokeSession(d) PROVE \E some \in SUBSET Device : signed' = [signed EXCEPT !.real = some]
      <4>1. signed' = [signed EXCEPT !.real = signed.real \ {d}] BY <1>3, <3>4 DEF Signed
      <4> QED BY <1>3, <4>1
    <3>5. ASSUME NEW d \in Device, S!SignsIn(d) PROVE \E some \in SUBSET Device : signed' = [signed EXCEPT !.real = some]
      <4>1. signed' = [signed EXCEPT !.real = signed.real \cup {d}] BY <1>3, <3>5 DEF Signed
      <4> QED BY <1>3, <4>1
    <3> QED BY <3>1, <3>2, <3>3, <3>4, <3>5 DEF S!SessionSteps
  <2> QED BY <1>3, <2>1 DEF Signed
<1>5. password' \in {"blank", "mismatch", "ready"} BY <1>2 DEF S!SessionSteps, SessionsTyped
<1>6. SessionsTyped' BY <1>4, <1>5 DEF SessionsTyped, Signed
<1>7. TurnsTyped'
  <2>1. S!Turn \/ turns' = turns BY DEF S!SessionSteps
  <2> QED BY <1>2, <2>1, TurnTyped
<1> QED BY <1>1, <1>2, <1>6, <1>7, SecurityIs DEF SecurityInv

LEMMA SecurityStill == ASSUME SecurityInv, UNCHANGED sVars PROVE SecurityInv'
BY SecurityIs DEF sVars, SecurityInv

-----------------------------------------------------------------------------
(***************************************************************************)
(* The nodes and their ports.                                               *)
(***************************************************************************)
Some    == Node \cup {Nowhere}
Cells   == [on : Some, ip : D!Typed, alias : D!Aliases, server : BOOLEAN]
Lines   == [seen : BOOLEAN, ip : D!Typed, alias : D!Aliases, editing : BOOLEAN, typed : D!Typed, name : D!Aliases]
Patches == [sent : BOOLEAN, ip : D!Typed, alias : D!Aliases]
Configs == [of : Some, command : Some, asked : Some]
Opened  == [of : Some, ip : D!Typed, adding : SUBSET (Node \X D!Typed)]

NodesListed  == nodes \subseteq Node /\ cards \subseteq Node /\ create \in [open : BOOLEAN, filled : BOOLEAN]
                /\ post \in [Node -> {"none", "sent", "made", "over"}]
ConfigsTyped == config \in Configs /\ minted \in [Node -> 0 .. Newest] /\ text \in [Node -> 0 .. Newest] /\ fetching \subseteq Node
LinesTyped   == ports \in Opened /\ line \in [Slot -> Lines] /\ patch \in [Slot -> Patches]
PortsBound   == alloc \in [Slot -> Cells] /\ D!BoundByAddress
ActsTyped    == acts \in 0 .. MaxActs

NodesInv == NodesListed /\ ConfigsTyped /\ LinesTyped /\ PortsBound /\ ActsTyped

LEMMA NodesIs ==
  /\ NodesInv => D!TypeOK /\ D!BoundByAddress
  /\ NodesListed /\ UNCHANGED <<nodes, cards, create, post>> => NodesListed'
  /\ ConfigsTyped /\ UNCHANGED <<config, minted, text, fetching>> => ConfigsTyped'
  /\ LinesTyped /\ UNCHANGED <<ports, line, patch>> => LinesTyped'
  /\ PortsBound /\ UNCHANGED alloc => PortsBound'
  /\ ActsTyped /\ UNCHANGED acts => ActsTyped'
<1>1. NodesInv => D!TypeOK /\ D!BoundByAddress
  BY DEF NodesInv, NodesListed, ConfigsTyped, LinesTyped, PortsBound, ActsTyped, D!TypeOK, Some, Cells, Lines, Patches, Configs, Opened
<1>2. NodesListed /\ UNCHANGED <<nodes, cards, create, post>> => NodesListed' BY DEF NodesListed
<1>3. ConfigsTyped /\ UNCHANGED <<config, minted, text, fetching>> => ConfigsTyped' BY DEF ConfigsTyped, Configs, Some
<1>4. LinesTyped /\ UNCHANGED <<ports, line, patch>> => LinesTyped'
  BY DEF LinesTyped, Opened, Lines, Patches, Some, D!Typed, D!Aliases
<1>5. PortsBound /\ UNCHANGED alloc => PortsBound'
  BY DEF PortsBound, Cells, Some, D!Typed, D!Aliases, D!BoundByAddress, D!NoTwins, D!Taken
<1>6. ActsTyped /\ UNCHANGED acts => ActsTyped' BY DEF ActsTyped
<1> QED BY <1>1, <1>2, <1>3, <1>4, <1>5, <1>6

\* The address a range is offered for is one, and so are those of rows nobody has.
LEMMA Defaults ==
  ASSUME D!NodesPageAssumption
  PROVE  D!NodeIp \in Address /\ D!Gone \in Cells /\ D!Gone.on = Nowhere /\ D!Unseen \in Lines /\ D!Unsent \in Patches
         /\ D!Shut \in Configs /\ Nowhere \notin Node
<1>1. D!NodeIp \in Address BY DEF D!NodesPageAssumption, D!NodeIp
<1>2. D!NodeIp \in D!Typed /\ NoAlias \in D!Aliases BY <1>1 DEF D!Typed, D!Aliases
<1> HIDE DEF D!Typed, D!Aliases
<1> QED BY <1>1, <1>2 DEF D!Gone, Cells, D!Unseen, Lines, D!Unsent, Patches, D!Shut, Configs, Some, D!NodesPageAssumption

LEMMA NodesStart == ASSUME D!NodesPageAssumption, D!Init PROVE NodesInv
<1>1. NodesListed BY DEF D!Init, NodesListed, D!Closed
<1>2. ConfigsTyped
  <2>1. 0 \in 0 .. Newest /\ 1 \in 0 .. Newest BY DEF D!NodesPageAssumption
  <2>2. config = D!Shut /\ fetching = {} /\ text = [n \in Node |-> 0] /\ minted = [n \in Node |-> IF n \in nodes THEN 1 ELSE 0]
    BY DEF D!Init
  <2> QED BY <2>1, <2>2, Defaults DEF ConfigsTyped
<1>3. LinesTyped
  <2>1. ports = [of |-> Nowhere, ip |-> D!NodeIp, adding |-> {}] /\ line = [r \in Slot |-> D!Unseen] /\ patch = [r \in Slot |-> D!Unsent]
    BY DEF D!Init
  <2>2. ports \in Opened BY <2>1, Defaults DEF Opened, Some, D!Typed
  <2> QED BY <2>1, <2>2, Defaults DEF LinesTyped
<1>4. PortsBound
  <2> DEFINE fresh == [on : nodes, ip : Address, alias : {NoAlias}, server : {FALSE}]
  <2>1. alloc \in [Slot -> {D!Gone} \cup fresh] /\ D!NoTwins BY DEF D!Init
  <2>2. fresh \subseteq Cells BY <1>1 DEF NodesListed, Cells, Some, D!Typed, D!Aliases
  <2>3. \A c \in fresh : c.ip \in Address OBVIOUS
  <2>4. alloc \in [Slot -> Cells] BY <2>1, <2>2, Defaults
  <2>5. \A r \in Slot : alloc[r] = D!Gone \/ alloc[r] \in fresh BY <2>1
  <2> HIDE DEF fresh
  <2>6. \A r \in Slot : alloc[r].on # Nowhere => alloc[r].ip \in Address BY <2>3, <2>5, Defaults
  <2> QED BY <2>1, <2>4, <2>6 DEF PortsBound, D!BoundByAddress
<1>5. ActsTyped BY DEF D!Init, ActsTyped, D!NodesPageAssumption
<1> QED BY <1>1, <1>2, <1>3, <1>4, <1>5 DEF NodesInv

LEMMA ActTyped == ASSUME D!NodesPageAssumption, ActsTyped, D!Act \/ acts' = acts PROVE ActsTyped'
BY DEF D!NodesPageAssumption, ActsTyped, D!Act

LEMMA InvalidatesTyped ==
  ASSUME ConfigsTyped, D!Invalidates PROVE fetching' \subseteq Node
BY DEF ConfigsTyped, Configs, Some, D!Invalidates

\* Rows that go leave the others where they are bound.
LEMMA RowsGo ==
  ASSUME D!NodesPageAssumption, PortsBound, alloc' = [r \in Slot |-> alloc'[r]],
         \A r \in Slot : alloc'[r] \in {alloc[r], D!Gone}
  PROVE  PortsBound'
<1>1. D!Gone \in Cells /\ D!Gone.on = Nowhere BY Defaults
<1>2. alloc' \in [Slot -> Cells]
  <2>1. \A r \in Slot : alloc'[r] \in Cells BY <1>1 DEF PortsBound
  <2> QED BY <2>1
<1>3. \A r \in Slot : alloc'[r].on # Nowhere => alloc'[r] = alloc[r] BY <1>1
<1>4. D!BoundByAddress' BY <1>3 DEF PortsBound, D!BoundByAddress, D!NoTwins, D!Taken
<1> QED BY <1>2, <1>4 DEF PortsBound, Cells, Some, D!Typed, D!Aliases

\* A row that is written is bound to an address that no other has.
LEMMA RowBound ==
  ASSUME PortsBound, NEW r \in Slot, NEW cell \in Cells, alloc' = [alloc EXCEPT ![r] = cell],
         cell.on # Nowhere => cell.ip \in Address /\ ~D!Taken(cell.on, cell.ip, {r})
  PROVE  PortsBound'
<1>1. alloc' \in [Slot -> Cells] BY DEF PortsBound
<1>2. alloc'[r] = cell /\ \A q \in Slot : q # r => alloc'[q] = alloc[q] BY DEF PortsBound
<1>3. D!BoundByAddress' BY <1>2 DEF PortsBound, D!BoundByAddress, D!NoTwins, D!Taken
<1> QED BY <1>1, <1>3 DEF PortsBound, Cells, Some, D!Typed, D!Aliases

\* A configuration that opens is a node's, and shows nothing yet.
LEMMA OpensTyped ==
  ASSUME D!NodesPageAssumption, ConfigsTyped, NEW n \in Node, D!Opens(n), minted' = minted, fetching' \subseteq fetching \cup Node
  PROVE  ConfigsTyped'
<1>1. config' \in Configs BY DEF D!Opens, ConfigsTyped, Configs, Some
<1>2. text' \in [Node -> 0 .. Newest]
  <2>1. 0 \in 0 .. Newest BY DEF D!NodesPageAssumption
  <2> QED BY <2>1 DEF D!Opens, ConfigsTyped
<1> QED BY <1>1, <1>2 DEF ConfigsTyped, Configs, Some

\* The list, the registration and the configurations.
LEMMA ListSteps ==
  ASSUME D!NodesPageAssumption, NodesInv,
         \/ D!NodesArrive \/ D!SetCreating \/ D!FillIn
         \/ \E n \in Node : D!Create(n) \/ D!PostNodes(n) \/ D!Created(n) \/ D!Remove(n) \/ D!CheckHealth(n)
  PROVE  NodesInv'
<1> USE DEF D!nodeVars, D!configVars, D!portVars
<1>1. NodesListed /\ ConfigsTyped /\ LinesTyped /\ PortsBound /\ ActsTyped BY DEF NodesInv
<1>2. CASE D!NodesArrive \/ D!SetCreating \/ D!FillIn
  <2>1. NodesListed'
    <3>1. CASE D!NodesArrive BY <1>1, <3>1 DEF D!NodesArrive, NodesListed
    <3>2. CASE D!SetCreating \/ D!FillIn
      <4>1. create' \in {[open |-> ~create.open, filled |-> FALSE], [create EXCEPT !.filled = TRUE]}
        BY <3>2 DEF D!SetCreating, D!FillIn
      <4>2. create \in [open : BOOLEAN, filled : BOOLEAN] BY <1>1 DEF NodesListed
      <4>3. create' \in [open : BOOLEAN, filled : BOOLEAN]
        <5>1. \A b \in BOOLEAN : [open |-> b, filled |-> FALSE] \in [open : BOOLEAN, filled : BOOLEAN] OBVIOUS
        <5>2. (~create.open) \in BOOLEAN OBVIOUS
        <5>3. [create EXCEPT !.filled = TRUE] \in [open : BOOLEAN, filled : BOOLEAN] BY <4>2
        <5> QED BY <4>1, <5>1, <5>2, <5>3
      <4>4. UNCHANGED <<nodes, cards, post>> BY <3>2 DEF D!SetCreating, D!FillIn
      <4> QED BY <1>1, <4>3, <4>4 DEF NodesListed
    <3> QED BY <1>2, <3>1, <3>2
  <2>2. UNCHANGED <<config, minted, text, fetching, ports, line, patch, alloc, acts>>
    BY <1>2 DEF D!NodesArrive, D!SetCreating, D!FillIn
  <2> QED BY <1>1, <2>1, <2>2, NodesIs DEF NodesInv
<1>3. ASSUME NEW n \in Node, D!Create(n) PROVE NodesInv'
  <2>1. NodesListed' BY <1>1, <1>3 DEF D!Create, NodesListed
  <2>2. UNCHANGED <<config, minted, text, fetching, ports, line, patch, alloc>> /\ D!Act BY <1>3 DEF D!Create
  <2> QED BY <1>1, <2>1, <2>2, NodesIs, ActTyped DEF NodesInv
<1>4. ASSUME NEW n \in Node, D!PostNodes(n) PROVE NodesInv'
  <2>1. NodesListed' BY <1>1, <1>4 DEF D!PostNodes, NodesListed
  <2>2. UNCHANGED <<config, text, fetching, ports, line, patch, alloc, acts>> BY <1>4 DEF D!PostNodes
  <2>3. minted' \in [Node -> 0 .. Newest]
    <3>1. 1 \in 0 .. Newest BY DEF D!NodesPageAssumption
    <3> QED BY <1>1, <1>4, <3>1 DEF D!PostNodes, ConfigsTyped
  <2>4. ConfigsTyped' BY <1>1, <2>2, <2>3 DEF ConfigsTyped, Configs, Some
  <2> QED BY <1>1, <2>1, <2>2, <2>4, NodesIs DEF NodesInv
<1>5. ASSUME NEW n \in Node, D!Created(n) PROVE NodesInv'
  <2>1. NodesListed' BY <1>1, <1>5 DEF D!Created, NodesListed, D!Closed
  <2>2. UNCHANGED <<minted, ports, line, patch, alloc, acts>> BY <1>5 DEF D!Created
  <2>3. D!Opens(n) /\ fetching' \subseteq fetching \cup Node BY <1>5 DEF D!Created
  <2>4. ConfigsTyped' BY <1>1, <2>2, <2>3, OpensTyped
  <2> QED BY <1>1, <2>1, <2>2, <2>4, NodesIs DEF NodesInv
<1>6. ASSUME NEW n \in Node, D!Remove(n) PROVE NodesInv'
  <2>1. NodesListed' BY <1>1, <1>6 DEF D!Remove, NodesListed
  <2>2. UNCHANGED <<config, minted, text, ports, line, patch>> /\ D!Act /\ D!Invalidates BY <1>6 DEF D!Remove
  <2>3. ConfigsTyped' BY <1>1, <2>2, InvalidatesTyped DEF ConfigsTyped, Configs, Some
  <2>4. alloc' = [r \in Slot |-> IF alloc[r].on = n THEN D!Gone ELSE alloc[r]] BY <1>6 DEF D!Remove
  <2>5. PortsBound' BY <1>1, <2>4, RowsGo
  <2> QED BY <1>1, <2>1, <2>2, <2>3, <2>5, NodesIs, ActTyped DEF NodesInv
<1>7. ASSUME NEW n \in Node, D!CheckHealth(n) PROVE NodesInv'
  <2>1. UNCHANGED <<nodes, cards, create, post, config, minted, text, ports, line, patch, alloc>> /\ D!Act /\ D!Invalidates
    BY <1>7 DEF D!CheckHealth
  <2>2. ConfigsTyped' BY <1>1, <2>1, InvalidatesTyped DEF ConfigsTyped, Configs, Some
  <2> QED BY <1>1, <2>1, <2>2, NodesIs, ActTyped DEF NodesInv
<1> QED BY <1>2, <1>3, <1>4, <1>5, <1>6, <1>7

LEMMA ConfigSteps ==
  ASSUME D!NodesPageAssumption, NodesInv,
         \/ D!Install \/ D!Installed \/ D!CloseConfiguration
         \/ \E n \in Node : D!Configure(n) \/ D!ConfigurationArrives(n)
  PROVE  NodesInv'
<1> USE DEF D!nodeVars, D!configVars, D!portVars
<1>1. NodesListed /\ ConfigsTyped /\ LinesTyped /\ PortsBound /\ ActsTyped BY DEF NodesInv
<1>2. UNCHANGED <<nodes, cards, create, post, ports, line, patch, alloc>>
  BY DEF D!Install, D!Installed, D!CloseConfiguration, D!Configure, D!ConfigurationArrives
<1>3. D!Act \/ acts' = acts
  BY DEF D!Install, D!Installed, D!CloseConfiguration, D!Configure, D!ConfigurationArrives
<1>4. config \in Configs /\ config.of \in Some /\ config.asked \in Some BY <1>1 DEF ConfigsTyped, Configs
<1>5. ConfigsTyped'
  <2>1. CASE D!Install \/ D!Installed
    <3>1. UNCHANGED <<minted, text, fetching>> BY <2>1 DEF D!Install, D!Installed
    <3>2. \/ config' = [config EXCEPT !.asked = config.of]
          \/ \E to \in {config.asked, Nowhere} : config' = [config EXCEPT !.asked = Nowhere, !.command = to]
      BY <2>1 DEF D!Install, D!Installed
    <3>3. config' \in Configs BY <1>4, <3>2 DEF Configs, Some
    <3> QED BY <1>1, <3>1, <3>3 DEF ConfigsTyped, Configs, Some
  <2>2. CASE D!CloseConfiguration
    <3>1. UNCHANGED <<minted, fetching>> /\ config' = D!Shut /\ text' = [n \in Node |-> 0] BY <2>2 DEF D!CloseConfiguration
    <3>2. text' \in [Node -> 0 .. Newest] BY <3>1 DEF D!NodesPageAssumption
    <3> QED BY <1>1, <3>1, <3>2, Defaults DEF ConfigsTyped, Configs, Some
  <2>3. ASSUME NEW n \in Node, D!Configure(n) PROVE ConfigsTyped'
    BY <1>1, <2>3, OpensTyped DEF D!Configure
  <2>4. ASSUME NEW n \in Node, D!ConfigurationArrives(n) PROVE ConfigsTyped'
    <3>1. config' = config /\ fetching' \subseteq Node BY <1>1, <2>4 DEF D!ConfigurationArrives, ConfigsTyped
    <3>2. minted' \in [Node -> 0 .. Newest] /\ text' \in [Node -> 0 .. Newest]
      <4>1. CASE n \in nodes /\ minted[n] < Newest
        <5>1. minted' = [minted EXCEPT ![n] = minted[n] + 1]
              /\ (text' = [text EXCEPT ![n] = minted'[n]] \/ text' = text)
          BY <1>1, <2>4, <4>1 DEF D!ConfigurationArrives, ConfigsTyped
        <5>2. minted[n] + 1 \in 0 .. Newest BY <1>1, <4>1 DEF ConfigsTyped, D!NodesPageAssumption
        <5>3. minted' \in [Node -> 0 .. Newest] BY <1>1, <5>1, <5>2 DEF ConfigsTyped
        <5>4. minted'[n] \in 0 .. Newest BY <5>3
        <5> QED BY <1>1, <5>1, <5>3, <5>4 DEF ConfigsTyped
      <4>2. CASE ~(n \in nodes /\ minted[n] < Newest)
        BY <1>1, <2>4, <4>2 DEF D!ConfigurationArrives, ConfigsTyped
      <4> QED BY <4>1, <4>2
    <3> QED BY <1>1, <3>1, <3>2 DEF ConfigsTyped, Configs, Some
  <2> QED BY <2>1, <2>2, <2>3, <2>4
<1> QED BY <1>1, <1>2, <1>3, <1>5, NodesIs, ActTyped DEF NodesInv

LEMMA NodeStep == ASSUME D!NodesPageAssumption, NodesInv, D!NodeSteps PROVE NodesInv'
BY ListSteps, ConfigSteps DEF D!NodeSteps

\* What a name leads to is an address.
LEMMA Resolved == \A value : D!ResolveBindAddress(value) \subseteq Address
BY DEF D!ResolveBindAddress

\* The dialog of ports and its lines.
LEMMA LineSteps ==
  ASSUME D!NodesPageAssumption, NodesInv,
         \/ D!SetAllocationFor \/ D!AllocationsArrive \/ D!SetIp \/ D!Add
         \/ \E r \in Slot : D!EditLine(r) \/ D!Save(r)
  PROVE  NodesInv'
<1> USE DEF D!nodeVars, D!configVars, D!portVars
<1>1. NodesListed /\ ConfigsTyped /\ LinesTyped /\ PortsBound /\ ActsTyped BY DEF NodesInv
<1>2. UNCHANGED <<nodes, cards, create, post, config, minted, text, fetching, alloc>>
  BY DEF D!SetAllocationFor, D!AllocationsArrive, D!SetIp, D!Add, D!EditLine, D!Save
<1>3. D!Act \/ acts' = acts BY DEF D!SetAllocationFor, D!AllocationsArrive, D!SetIp, D!Add, D!EditLine, D!Save
<1>4. ports \in Opened /\ line \in [Slot -> Lines] /\ patch \in [Slot -> Patches] BY <1>1 DEF LinesTyped
<1>5. D!NodeIp \in D!Typed BY Defaults DEF D!Typed
<1>6. ports' \in Opened
  <2>1. CASE D!SetAllocationFor
    <3>1. PICK n \in Some : ports' = [ports EXCEPT !.of = n, !.ip = D!NodeIp]
      BY <1>1, <2>1 DEF D!SetAllocationFor, NodesListed, Some
    <3> QED BY <1>4, <1>5, <3>1 DEF Opened
  <2>2. CASE D!SetIp
    <3>1. PICK ip \in D!Typed : ports' = [ports EXCEPT !.ip = ip] BY <2>2 DEF D!SetIp
    <3> QED BY <1>4, <3>1 DEF Opened
  <2>3. CASE D!Add
    <3>1. ports.of \in Node /\ ports.ip \in D!Typed BY <1>4, <2>3 DEF D!Add, Opened, Some
    <3>2. {<<ports.of, ports.ip>>} \in SUBSET (Node \X D!Typed) BY <3>1
    <3>3. ports' = [ports EXCEPT !.adding = {<<ports.of, ports.ip>>}] BY <2>3 DEF D!Add
    <3> QED BY <1>4, <3>2, <3>3 DEF Opened
  <2>4. CASE ~(D!SetAllocationFor \/ D!SetIp \/ D!Add)
    BY <1>4, <2>4 DEF D!AllocationsArrive, D!EditLine, D!Save
  <2> QED BY <2>1, <2>2, <2>3, <2>4
<1>7. line' \in [Slot -> Lines]
  <2>1. CASE D!SetAllocationFor BY <2>1, Defaults DEF D!SetAllocationFor
  <2>2. CASE D!AllocationsArrive
    <3>1. \A r \in Slot : D!Shows(r) \in Lines
      <4> SUFFICES ASSUME NEW r \in Slot PROVE D!Shows(r) \in Lines OBVIOUS
      <4>1. alloc[r].ip \in D!Typed /\ alloc[r].alias \in D!Aliases BY <1>1 DEF PortsBound, Cells
      <4>2. line[r] \in Lines /\ D!Unseen \in Lines BY <1>4, Defaults
      <4>3. [line[r] EXCEPT !.ip = alloc[r].ip, !.alias = alloc[r].alias] \in Lines BY <4>1, <4>2 DEF Lines
      <4>4. [D!Unseen EXCEPT !.seen = TRUE, !.ip = alloc[r].ip, !.alias = alloc[r].alias,
                             !.typed = alloc[r].ip, !.name = alloc[r].alias] \in Lines
        BY <4>1, <4>2 DEF Lines
      <4> QED BY <4>2, <4>3, <4>4 DEF D!Shows
    <3> QED BY <2>2, <3>1 DEF D!AllocationsArrive
  <2>3. ASSUME NEW r \in Slot, D!EditLine(r) PROVE line' \in [Slot -> Lines]
    <3>1. line[r] \in Lines /\ line[r].ip \in D!Typed /\ line[r].alias \in D!Aliases BY <1>4 DEF Lines
    <3>2. \/ line' = [line EXCEPT ![r].editing = TRUE]
          \/ \E ip \in D!Typed : line' = [line EXCEPT ![r].typed = ip]
          \/ \E name \in D!Aliases : line' = [line EXCEPT ![r].name = name]
          \/ line' = [line EXCEPT ![r] = [@ EXCEPT !.editing = FALSE, !.typed = line[r].ip, !.name = line[r].alias]]
      BY <2>3 DEF D!EditLine
    <3>3. PICK new \in Lines : line' = [line EXCEPT ![r] = new]
      <4>1. CASE line' = [line EXCEPT ![r].editing = TRUE]
        <5>1. [line[r] EXCEPT !.editing = TRUE] \in Lines BY <3>1 DEF Lines
        <5> QED BY <1>4, <4>1, <5>1
      <4>2. ASSUME NEW ip \in D!Typed, line' = [line EXCEPT ![r].typed = ip] PROVE \E new \in Lines : line' = [line EXCEPT ![r] = new]
        <5>1. [line[r] EXCEPT !.typed = ip] \in Lines BY <3>1 DEF Lines
        <5> QED BY <1>4, <4>2, <5>1
      <4>3. ASSUME NEW name \in D!Aliases, line' = [line EXCEPT ![r].name = name] PROVE \E new \in Lines : line' = [line EXCEPT ![r] = new]
        <5>1. [line[r] EXCEPT !.name = name] \in Lines BY <3>1 DEF Lines
        <5> QED BY <1>4, <4>3, <5>1
      <4>4. CASE line' = [line EXCEPT ![r] = [@ EXCEPT !.editing = FALSE, !.typed = line[r].ip, !.name = line[r].alias]]
        <5>1. [line[r] EXCEPT !.editing = FALSE, !.typed = line[r].ip, !.name = line[r].alias] \in Lines BY <3>1 DEF Lines
        <5> QED BY <1>4, <4>4, <5>1
      <4> QED BY <3>2, <4>1, <4>2, <4>3, <4>4
    <3> QED BY <1>4, <3>3
  <2>4. CASE ~(D!SetAllocationFor \/ D!AllocationsArrive \/ \E r \in Slot : D!EditLine(r))
    BY <1>4, <2>4 DEF D!SetIp, D!Add, D!Save
  <2> QED BY <2>1, <2>2, <2>3, <2>4
<1>8. patch' \in [Slot -> Patches]
  <2>1. ASSUME NEW r \in Slot, D!Save(r) PROVE patch' \in [Slot -> Patches]
    <3>1. line[r] \in Lines BY <1>4
    <3>2. [sent |-> TRUE, ip |-> line[r].typed, alias |-> line[r].name] \in Patches BY <3>1 DEF Lines, Patches
    <3> QED BY <1>4, <2>1, <3>2 DEF D!Save
  <2>2. CASE ~\E r \in Slot : D!Save(r)
    BY <1>4, <2>2 DEF D!SetAllocationFor, D!AllocationsArrive, D!SetIp, D!Add, D!EditLine
  <2> QED BY <2>1, <2>2
<1>9. LinesTyped' BY <1>6, <1>7, <1>8 DEF LinesTyped, Opened, Lines, Patches, Some, D!Typed, D!Aliases
<1> QED BY <1>1, <1>2, <1>3, <1>9, NodesIs, ActTyped DEF NodesInv

\* The rows of ports: added, pruned, corrected, given.
LEMMA AllocationSteps ==
  ASSUME D!NodesPageAssumption, NodesInv,
         \/ D!PostAllocations \/ D!Prune
         \/ \E r \in Slot : D!PatchAllocation(r) \/ D!ServerTakes(r)
  PROVE  NodesInv'
<1> USE DEF D!nodeVars, D!configVars, D!portVars
<1>1. NodesListed /\ ConfigsTyped /\ LinesTyped /\ PortsBound /\ ActsTyped BY DEF NodesInv
<1>2. UNCHANGED <<nodes, cards, create, post, config, minted, text>>
  BY DEF D!PostAllocations, D!Prune, D!PatchAllocation, D!ServerTakes
<1>3. D!Act \/ acts' = acts BY DEF D!PostAllocations, D!Prune, D!PatchAllocation, D!ServerTakes
<1>4. ports \in Opened /\ line \in [Slot -> Lines] /\ patch \in [Slot -> Patches] /\ alloc \in [Slot -> Cells]
  BY <1>1 DEF LinesTyped, PortsBound
<1>5. ConfigsTyped'
  <2>1. D!Invalidates \/ fetching' = fetching BY DEF D!PostAllocations, D!Prune, D!PatchAllocation, D!ServerTakes
  <2>2. fetching' \subseteq Node BY <1>1, <2>1, InvalidatesTyped DEF ConfigsTyped
  <2> QED BY <1>1, <1>2, <2>2 DEF ConfigsTyped, Configs, Some
<1>6. LinesTyped' /\ PortsBound'
  <2> HIDE DEF D!nodeVars, D!configVars, D!portVars
  <2> USE DEF D!portVars
  <2>1. CASE D!PostAllocations
    <3>1. PICK asked \in ports.adding :
            /\ ports' = [ports EXCEPT !.adding = {}] /\ UNCHANGED <<line, patch>>
            /\ \/ UNCHANGED alloc
               \/ \E ip \in D!ResolveBindAddress(asked[2]), r \in Slot :
                    /\ asked[1] \in nodes /\ ~D!Taken(asked[1], ip, {})
                    /\ alloc' = [alloc EXCEPT ![r] = [on |-> asked[1], ip |-> ip, server |-> FALSE,
                                              alias |-> IF ip = asked[2] THEN NoAlias ELSE asked[2]]]
      BY <2>1 DEF D!PostAllocations
    <3>2. ports' \in Opened BY <1>4, <3>1 DEF Opened
    <3>3. LinesTyped' BY <1>1, <3>1, <3>2 DEF LinesTyped, Opened, Lines, Patches, Some, D!Typed, D!Aliases
    <3>4. ASSUME NEW ip \in D!ResolveBindAddress(asked[2]), NEW r \in Slot,
                 asked[1] \in nodes, ~D!Taken(asked[1], ip, {}),
                 alloc' = [alloc EXCEPT ![r] = [on |-> asked[1], ip |-> ip, server |-> FALSE,
                                              alias |-> IF ip = asked[2] THEN NoAlias ELSE asked[2]]]
          PROVE  PortsBound'
      <4> DEFINE name == IF ip = asked[2] THEN NoAlias ELSE asked[2]
                 cell == [on |-> asked[1], ip |-> ip, server |-> FALSE, alias |-> name]
      <4>1. asked[1] \in Node /\ asked[2] \in D!Typed BY <1>4, <3>1 DEF Opened
      <4>2. ip \in Address BY <3>4, Resolved
      <4>3. name \in D!Aliases
        <5>1. asked[2] \in Address => ip = asked[2] BY <3>4 DEF D!ResolveBindAddress
        <5> QED BY <4>1, <5>1 DEF D!Aliases, D!Typed
      <4>4. ~D!Taken(asked[1], ip, {r}) BY <3>4 DEF D!Taken
      <4>5. cell.on = asked[1] /\ cell.ip = ip OBVIOUS
      <4>6. alloc' = [alloc EXCEPT ![r] = cell] BY <3>4
      <4>7. cell \in Cells
        <5> HIDE DEF name
        <5> QED BY <4>1, <4>2, <4>3 DEF Cells, Some, D!Typed
      <4> HIDE DEF cell
      <4> QED BY <1>1, <4>2, <4>4, <4>5, <4>6, <4>7, RowBound
    <3> QED BY <1>1, <3>1, <3>3, <3>4, NodesIs
  <2>2. CASE D!Prune
    <3>1. UNCHANGED <<ports, line, patch>>
          /\ alloc' = [r \in Slot |-> IF alloc[r].on = ports.of /\ ~alloc[r].server THEN D!Gone ELSE alloc[r]]
      BY <2>2 DEF D!Prune
    <3>2. \A r \in Slot : alloc'[r] \in {alloc[r], D!Gone} BY <3>1
    <3>3. alloc' = [r \in Slot |-> alloc'[r]] BY <3>1
    <3> QED BY <1>1, <3>1, <3>2, <3>3, RowsGo, NodesIs
  <2>3. ASSUME NEW r \in Slot, D!PatchAllocation(r) PROVE LinesTyped' /\ PortsBound'
    <3>1. ports' = ports /\ patch' = [patch EXCEPT ![r].sent = FALSE] BY <2>3 DEF D!PatchAllocation
    <3>2. patch' \in [Slot -> Patches]
      <4>1. [patch[r] EXCEPT !.sent = FALSE] \in Patches
        <5>1. patch[r] \in Patches BY <1>4
        <5> QED BY <5>1 DEF Patches
      <4> QED BY <1>4, <3>1, <4>1
    <3>3. line' \in [Slot -> Lines]
      <4>1. line' = [line EXCEPT ![r].editing = FALSE] \/ line' = line BY <2>3 DEF D!PatchAllocation
      <4>2. [line[r] EXCEPT !.editing = FALSE] \in Lines
        <5>1. line[r] \in Lines BY <1>4
        <5> QED BY <5>1 DEF Lines
      <4> QED BY <1>4, <4>1, <4>2
    <3>4. LinesTyped' BY <1>4, <3>1, <3>2, <3>3 DEF LinesTyped, Opened, Lines, Patches, Some, D!Typed, D!Aliases
    <3>5. ASSUME NEW ip \in D!ResolveBindAddress(patch[r].ip), ~D!Taken(alloc[r].on, ip, {r}),
                 alloc' = [alloc EXCEPT ![r] = [@ EXCEPT !.ip = ip, !.alias = patch[r].alias]]
          PROVE  PortsBound'
      <4> DEFINE cell == [alloc[r] EXCEPT !.ip = ip, !.alias = patch[r].alias]
      <4>1. alloc[r] \in Cells /\ patch[r] \in Patches /\ ip \in Address BY <1>4, <3>5, Resolved
      <4>2. ip \in D!Typed /\ patch[r].alias \in D!Aliases BY <4>1 DEF Patches, D!Typed
      <4>3. cell \in Cells /\ cell.on = alloc[r].on /\ cell.ip = ip BY <4>1, <4>2 DEF Cells
      <4>4. alloc' = [alloc EXCEPT ![r] = cell] BY <1>4, <3>5
      <4> HIDE DEF cell
      <4> QED BY <1>1, <3>5, <4>1, <4>3, <4>4, RowBound
    <3>6. \/ UNCHANGED alloc
          \/ \E ip \in D!ResolveBindAddress(patch[r].ip) :
               /\ ~D!Taken(alloc[r].on, ip, {r})
               /\ alloc' = [alloc EXCEPT ![r] = [@ EXCEPT !.ip = ip, !.alias = patch[r].alias]]
      BY <2>3 DEF D!PatchAllocation
    <3> QED BY <1>1, <3>4, <3>5, <3>6, NodesIs
  <2>4. ASSUME NEW r \in Slot, D!ServerTakes(r) PROVE LinesTyped' /\ PortsBound'
    <3> DEFINE cell == [alloc[r] EXCEPT !.server = ~alloc[r].server]
    <3>1. UNCHANGED <<ports, line, patch>> /\ alloc' = [alloc EXCEPT ![r].server = ~alloc[r].server]
      BY <1>4, <2>4 DEF D!ServerTakes
    <3>2. alloc' = [alloc EXCEPT ![r] = cell] BY <1>4, <3>1
    <3>3. alloc[r] \in Cells BY <1>4
    <3>4. cell \in Cells /\ cell.on = alloc[r].on /\ cell.ip = alloc[r].ip BY <3>3 DEF Cells
    <3>5. alloc[r].on # Nowhere => alloc[r].ip \in Address /\ ~D!Taken(alloc[r].on, alloc[r].ip, {r})
      BY <1>1 DEF PortsBound, D!BoundByAddress, D!NoTwins
    <3> HIDE DEF cell
    <3> QED BY <1>1, <3>1, <3>2, <3>4, <3>5, RowBound, NodesIs
  <2> QED BY <2>1, <2>2, <2>3, <2>4
<1> QED BY <1>1, <1>2, <1>3, <1>5, <1>6, NodesIs, ActTyped DEF NodesInv

LEMMA PortStep == ASSUME D!NodesPageAssumption, NodesInv, D!PortSteps PROVE NodesInv'
BY LineSteps, AllocationSteps DEF D!PortSteps

LEMMA NodesStill == ASSUME NodesInv, UNCHANGED dVars PROVE NodesInv'
BY NodesIs DEF dVars, NodesInv

-----------------------------------------------------------------------------
(***************************************************************************)
(* The browser as a whole: a step is of one part, and the others stand still.       *)
(***************************************************************************)
BrowserInv ==
  AccessInv /\ SettingsInv /\ L!TypeOK /\ NewInv /\ FilesInv /\ SecurityInv /\ NodesInv

LEMMA BrowserStart == Init => BrowserInv
BY BrowserAssumption, AccessStart, SettingsStart, LiveStart, NewStart, FilesStart, SecurityStart, NodesStart
   DEF BrowserAssumption, Init, BrowserInv

LEMMA BrowserStep == BrowserInv /\ [Next]_all => BrowserInv'
<1> SUFFICES ASSUME BrowserInv, [Next]_all PROVE BrowserInv' OBVIOUS
<1>1. /\ AccessInv /\ (UNCHANGED xVars => AccessInv')
      /\ SettingsInv /\ (UNCHANGED pVars => SettingsInv')
      /\ L!TypeOK /\ (UNCHANGED lVars => L!TypeOK')
      /\ NewInv /\ (UNCHANGED nVars => NewInv')
      /\ FilesInv /\ (UNCHANGED fVars => FilesInv')
      /\ SecurityInv /\ (UNCHANGED sVars => SecurityInv')
      /\ NodesInv /\ (UNCHANGED dVars => NodesInv')
  BY AccessStill, SettingsStill, LiveStill, NewStill, FilesStill, SecurityStill, NodesStill DEF BrowserInv
<1>2. X!AccessAssumption /\ P!SettingsAssumption /\ L!LivePageAssumption /\ N!NewServerAssumption
      /\ F!FilesPageAssumption /\ S!SecurityPageAssumption /\ D!NodesPageAssumption
  BY BrowserAssumption DEF BrowserAssumption
<1>3. CASE UNCHANGED all BY <1>1, <1>3 DEF all, BrowserInv
<1>4. CASE X!Next /\ UNCHANGED <<pVars, lVars, nVars, fVars, sVars, dVars>> BY <1>1, <1>2, <1>4, AccessStep DEF BrowserInv
<1>5. CASE P!Next /\ UNCHANGED <<xVars, lVars, nVars, fVars, sVars, dVars>> BY <1>1, <1>2, <1>5, SettingsStep DEF BrowserInv
<1>6. CASE L!Next /\ UNCHANGED <<xVars, pVars, nVars, fVars, sVars, dVars>> BY <1>1, <1>2, <1>6, LiveStep DEF BrowserInv
<1>7. CASE N!Next /\ UNCHANGED <<xVars, pVars, lVars, fVars, sVars, dVars>> BY <1>1, <1>2, <1>7, NewStep DEF BrowserInv
<1>8. CASE F!Next /\ UNCHANGED <<xVars, pVars, lVars, nVars, sVars, dVars>> BY <1>1, <1>2, <1>8, FilesStep DEF BrowserInv
<1>9. CASE (S!KeySteps \/ S!FactorSteps \/ S!SessionSteps) /\ UNCHANGED <<xVars, pVars, lVars, nVars, fVars, dVars>>
  BY <1>1, <1>2, <1>9, KeyStep, FactorStep, SessionStep DEF BrowserInv
<1>10. CASE (D!NodeSteps \/ D!PortSteps) /\ UNCHANGED <<xVars, pVars, lVars, nVars, fVars, sVars>>
  BY <1>1, <1>2, <1>10, NodeStep, PortStep DEF BrowserInv
<1> QED BY <1>3, <1>4, <1>5, <1>6, <1>7, <1>8, <1>9, <1>10 DEF Next

LEMMA BrowserHolds == Spec => []BrowserInv
<1> QED BY BrowserStart, BrowserStep, PTL DEF Spec

\* For any number of users, edits and commands: what a console passes to the node was
\* its sender's to give, account and share, after it was typed; and in the order typed.
THEOREM ConsoleObeysHolds == Spec => []ConsoleObeys
<1>1. BrowserInv => ConsoleObeys
  <2> SUFFICES ASSUME BrowserInv PROVE ConsoleObeys OBVIOUS
  <2>1. InOrder /\ Recorded BY DEF BrowserInv, AccessInv
  <2> QED BY <2>1 DEF ConsoleObeys, X!ConsoleObeys, InOrder, Recorded, Both
<1> QED BY <1>1, BrowserHolds, PTL

\* For any number of them: the state of each page is of its type, a new server's
\* variables are those of the game picked, one batch goes to one folder, a key stands
\* for no more than was picked, and no two ports of a node are bound to one address.
THEOREM PagesSendWhatTheyShowHolds == Spec => []PagesSendWhatTheyShow
<1>1. BrowserInv => PagesSendWhatTheyShow
  <2> SUFFICES ASSUME BrowserInv PROVE PagesSendWhatTheyShow OBVIOUS
  <2>1. X!TypeOK /\ P!TypeOK BY DEF BrowserInv, AccessInv, SettingsInv
  <2>2. N!TypeOK /\ N!OwnVariables BY DEF BrowserInv, NewInv
  <2>3. F!TypeOK /\ F!BatchTogether BY FilesIs DEF BrowserInv
  <2>4. S!TypeOK /\ S!KeyAsPicked BY SecurityIs DEF BrowserInv
  <2>5. D!TypeOK /\ D!BoundByAddress BY NodesIs DEF BrowserInv
  <2> QED BY <2>1, <2>2, <2>3, <2>4, <2>5 DEF PagesSendWhatTheyShow, BrowserInv
<1> QED BY <1>1, BrowserHolds, PTL
=============================================================================
