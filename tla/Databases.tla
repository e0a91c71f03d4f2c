------------------------------ MODULE Databases ------------------------------
(***************************************************************************)
(* The databases of one server: a row in the panel for each, and what        *)
(* stands on a database host that other servers share, a database and the    *)
(* account that opens it.                                                   *)
(*                                                                         *)
(* Names carry the server's prefix, so only this server asks for them. An    *)
(* account's name is cut shorter than its database's: two databases may      *)
(* share one. A password is the number of the request that set it.           *)
(***************************************************************************)
EXTENDS Naturals, FiniteSets

CONSTANTS
  Host, Postgres,  \* database hosts, and those that run PostgreSQL, not MySQL
  Name, Account,   \* database names, and the names their accounts are cut to
  Cut,             \* the account of each name
  Request,         \* 1 .. n: requests, in the order they may begin
  NoName, NoHost

DatabasesAssumption ==
  /\ Postgres \subseteq Host /\ Cut \in [Name -> Account]
  /\ Request \subseteq Nat \ {0}
  /\ NoName \notin Name /\ NoHost \notin Host

VARIABLES
  server,     \* the server's row exists
  record,     \* per name: its row, or NoRecord
  database,   \* per host and name: the request that made it, or 0
  account,    \* per host and account: its password, or 0 when there is none
  request,    \* per request: its step and what it has read
  faults,     \* rows and hosts that will still fail: a bound
  collateral  \* databases dropped for a row they were not made for, or in
              \* a deletion of the server that got no answer

databaseVars == <<server, record, database, account, request, faults, collateral>>

-----------------------------------------------------------------------------
NoRecord == [id |-> 0, host |-> NoHost, password |-> 0]
Recorded(n) == record[n] # NoRecord

Steps == {"new", "first", "second", "record", "undo", "reset", "save", "destroy", "drop", "erase", "halted", "done"}
NewRequest == [at |-> "new", name |-> NoName, row |-> NoRecord]
NeverAsked == [NewRequest EXCEPT !.at = "done"]

TypeOK ==
  /\ server \in BOOLEAN
  /\ record \in [Name -> [id : Request \cup {0}, host : Host \cup {NoHost}, password : Request \cup {0}]]
  /\ database \in [Host -> [Name -> Request \cup {0}]]
  /\ account \in [Host -> [Account -> Request \cup {0}]]
  /\ request \in [Request -> [at : Steps, name : Name \cup {NoName},
                    row : [id : Request \cup {0}, host : Host \cup {NoHost}, password : Request \cup {0}]]]
  /\ faults \in Nat
  /\ collateral \subseteq Host \X Name

Init ==
  /\ server = TRUE
  /\ record = [n \in Name |-> NoRecord]
  /\ database = [h \in Host |-> [n \in Name |-> 0]]
  /\ account = [h \in Host |-> [a \in Account |-> 0]]
  /\ request \in [Request -> {NewRequest, NeverAsked}]
  /\ collateral = {}

At(r, s) == request[r].at = s
Go(r, s) == request' = [request EXCEPT ![r].at = s]
Begin(r, s, n, row) ==
  /\ At(r, "new") /\ \A q \in Request : q < r => ~At(q, "new")
  /\ request' = [request EXCEPT ![r] = [at |-> s, name |-> n, row |-> row]]

\* A host that does not answer, a write that fails.
Fault == faults > 0 /\ faults' = faults - 1

-----------------------------------------------------------------------------
(***************************************************************************)
(* Creation. The limits and the name are checked on rows read beforehand.   *)
(***************************************************************************)
RequestCreate(r, n, h) ==
  /\ server /\ ~Recorded(n)
  /\ Begin(r, "first", n, [id |-> r, host |-> h, password |-> r])
  /\ UNCHANGED <<server, record, database, account, faults, collateral>>

\* CREATE ROLE and then CREATE DATABASE, or the other way round on MySQL. What
\* exists is refused, and a refusal leaves what the statement before it made.
CreateAccount(r) ==
  LET h == request[r].row.host
      a == Cut[request[r].name] IN
  IF account[h][a] = 0
  THEN /\ account' = [account EXCEPT ![h][a] = r]
       /\ Go(r, IF h \in Postgres THEN "second" ELSE "record")
  ELSE Go(r, "done") /\ UNCHANGED account

CreateDatabase_IfNotExists(r) ==
  LET h == request[r].row.host
      n == request[r].name IN
  /\ database' = IF database[h][n] = 0 THEN [database EXCEPT ![h][n] = r] ELSE database
  /\ Go(r, IF h \in Postgres THEN "record" ELSE "second")

CreateDatabase(r) ==
  LET h == request[r].row.host
      n == request[r].name IN
  IF database[h][n] = 0
  THEN /\ database' = [database EXCEPT ![h][n] = r]
       /\ Go(r, IF h \in Postgres THEN "record" ELSE "second")
  ELSE Go(r, "done") /\ UNCHANGED database

Provision(r) ==
  LET h == request[r].row.host IN
  /\ At(r, "first") \/ At(r, "second")
  /\ IF At(r, "first") <=> h \in Postgres
     THEN CreateAccount(r) /\ UNCHANGED database
     ELSE CreateDatabase(r) /\ UNCHANGED account
  /\ UNCHANGED <<server, record, faults, collateral>>

ProvisionFails(r) ==
  /\ At(r, "first") \/ At(r, "second")
  /\ Fault
  /\ Go(r, "done")
  /\ UNCHANGED <<server, record, database, account, collateral>>

\* The row's name and account are both unique. A loser leaves what it made: by
\* name it could be another's.
Record(r) ==
  LET n == request[r].name IN
  /\ At(r, "record")
  /\ \/ /\ server
        /\ IF \E m \in Name : Recorded(m) /\ Cut[m] = Cut[n]
           THEN Go(r, "done") /\ UNCHANGED record
           ELSE record' = [record EXCEPT ![n] = request[r].row] /\ Go(r, "done")
        /\ UNCHANGED faults
     \/ ~server /\ Go(r, "undo") /\ UNCHANGED <<record, faults>>
     \/ Fault /\ Go(r, "undo") /\ UNCHANGED record
  /\ UNCHANGED <<server, database, account, collateral>>

-----------------------------------------------------------------------------
(***************************************************************************)
(* destroy: the database, then its account; nothing when they are not there.*)
(***************************************************************************)
DropDatabase(h, n) == database' = [database EXCEPT ![h][n] = 0]

\* A deletion that comes late drops whatever has the name by now.
NoteStale(h, n, id) ==
  collateral' = IF database[h][n] \notin {0, id} THEN collateral \cup {<<h, n>>} ELSE collateral

DropAccount(h, n) == account' = [account EXCEPT ![h][Cut[n]] = 0]

\* A creation that could not be recorded takes back what it made; a failure is
\* swallowed.
Undo(r) ==
  LET w == request[r].row IN
  /\ At(r, "undo")
  /\ \/ DropDatabase(w.host, request[r].name) /\ DropAccount(w.host, request[r].name) /\ UNCHANGED faults
     \/ Fault /\ UNCHANGED <<database, account>>
  /\ Go(r, "done")
  /\ UNCHANGED <<server, record, collateral>>

-----------------------------------------------------------------------------
(***************************************************************************)
(* Rotation of the password, on the host and then in the row.              *)
(***************************************************************************)
RequestRotate(r, n) ==
  /\ Recorded(n)
  /\ Begin(r, "reset", n, record[n])
  /\ UNCHANGED <<server, record, database, account, faults, collateral>>

Reset(r) ==
  LET h == request[r].row.host
      a == Cut[request[r].name] IN
  /\ At(r, "reset")
  /\ \/ /\ account[h][a] # 0
        /\ account' = [account EXCEPT ![h][a] = r]
        /\ Go(r, "save")
        /\ UNCHANGED faults
     \/ /\ (account[h][a] = 0 /\ UNCHANGED faults) \/ Fault
        /\ Go(r, "done")
        /\ UNCHANGED account
  /\ UNCHANGED <<server, record, database, collateral>>

Save(r) ==
  LET n == request[r].name IN
  /\ At(r, "save")
  /\ \/ /\ record' = [record EXCEPT ![n].password =
                        IF record[n].id = request[r].row.id THEN r ELSE @]
        /\ UNCHANGED faults
     \/ Fault /\ UNCHANGED record
  /\ Go(r, "done")
  /\ UNCHANGED <<server, database, account, collateral>>

-----------------------------------------------------------------------------
(***************************************************************************)
(* Deletion of one database: on the host, and then the row it read.         *)
(***************************************************************************)
RequestDrop(r, n) ==
  /\ Recorded(n)
  /\ Begin(r, "destroy", n, record[n])
  /\ UNCHANGED <<server, record, database, account, faults, collateral>>

Destroy(r) ==
  LET w == request[r].row
      n == request[r].name IN
  /\ \/ /\ At(r, "destroy")
        /\ DropDatabase(w.host, n) /\ NoteStale(w.host, n, w.id) /\ Go(r, "drop")
        /\ UNCHANGED account
     \/ /\ At(r, "drop")
        /\ DropAccount(w.host, n) /\ Go(r, "erase")
        /\ UNCHANGED <<database, collateral>>
  /\ UNCHANGED <<server, record, faults>>

\* The connection breaks, before the statement is done or after.
DestroyFails(r) ==
  LET w == request[r].row
      n == request[r].name IN
  /\ Fault
  /\ \/ At(r, "destroy") /\ Go(r, "done") /\ UNCHANGED <<database, collateral>>
     \/ At(r, "destroy") /\ Go(r, "halted") /\ DropDatabase(w.host, n) /\ NoteStale(w.host, n, w.id)
     \/ At(r, "drop") /\ Go(r, "halted") /\ UNCHANGED <<database, collateral>>
  /\ UNCHANGED <<server, record, account>>

Erased(n, id) == IF record[n].id = id THEN [record EXCEPT ![n] = NoRecord] ELSE record

Erase(r) ==
  /\ At(r, "erase")
  /\ \/ record' = Erased(request[r].name, request[r].row.id) /\ Go(r, "done") /\ UNCHANGED faults
     \/ Fault /\ Go(r, "halted") /\ UNCHANGED record
  /\ UNCHANGED <<server, database, account, collateral>>

-----------------------------------------------------------------------------
RequestStep(r) ==
  \/ Provision(r) \/ ProvisionFails(r) \/ Record(r) \/ Undo(r)
  \/ Reset(r) \/ Save(r)
  \/ Destroy(r) \/ DestroyFails(r) \/ Erase(r)

Next ==
  \E r \in Request :
    \/ \E n \in Name : \/ \E h \in Host : RequestCreate(r, n, h)
                       \/ RequestRotate(r, n) \/ RequestDrop(r, n)
    \/ RequestStep(r)

-----------------------------------------------------------------------------
(***************************************************************************)
(* Properties.                                                             *)
(***************************************************************************)
Dropping(h, n) ==
  \E r \in Request : request[r].name = n /\ request[r].row.host = h /\ request[r].at \in {"drop", "erase", "halted"}

\* A database the panel shows is on its host, and the one that was made for it:
\* whoever else asks for the name, loses the race for it or takes back a
\* creation. Except when its own deletion is on the way or stopped half way, or
\* one that began on an earlier row of the name came late.
RowHasDatabase ==
  \A n \in Name :
    Recorded(n) /\ database[record[n].host][n] # record[n].id =>
      \/ Dropping(record[n].host, n)
      \/ <<record[n].host, n>> \in collateral
=============================================================================
