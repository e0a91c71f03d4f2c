--------------------------------- MODULE Members ---------------------------------
(***************************************************************************)
(* How accounts come into existence - somebody signs up, an administrator makes one,    *)
(* the command line does, the seed makes the first owner - with the limits the settings  *)
(* promise and the proof that the address is theirs. What becomes of an account later     *)
(* is in Access and Account.                                                *)
(***************************************************************************)
EXTENDS Naturals, FiniteSets

CONSTANTS
  Name,        \* addresses and user names
  Maker,       \* requests and commands at work at once
  Letter,      \* links that can be sent
  MaxChanges   \* settings saved, accounts asked for: a bound

MembersAssumption == Name # {} /\ MaxChanges \in Nat

VARIABLES
  settings, \* as they are: open to newcomers, whose address is asked for; the default limit
  cached,   \* the copy the API goes by, and every limit in force since a maker read last
  account,  \* per name: its account
  role,     \* the roles that have a row
  seed,     \* a run of the seed: roles to go
  maker,    \* per slot
  letter,   \* per link: whose it is and what became of it
  changes

vars == <<settings, cached, account, role, seed, maker, letter, changes>>

-----------------------------------------------------------------------------
Role     == {"OWNER", "STAFF", "CUSTOMER"}
Priority == [OWNER |-> 3, STAFF |-> 2, CUSTOMER |-> 1]
Limit    == 0 .. MaxChanges + 1  \* 0 is none; the settings begin with 1
Settings == [open : BOOLEAN, verify : BOOLEAN, limit : Limit]

\* defaultAccountLimits and UNLIMITED_ACCOUNT_LIMITS.
DefaultAccountLimits(s) == s.limit
UnlimitedAccountLimits  == 0

Nobody == [role |-> "none", limit |-> 0, promised |-> {}, verified |-> FALSE, by |-> "none"]
Idle   == [at |-> "idle", way |-> "register", name |-> CHOOSE n \in Name : TRUE, role |-> "CUSTOMER",
           limit |-> 0, chosen |-> FALSE, verified |-> FALSE, seen |-> {}]
Ways   == {"register", "create", "cli", "seed"}
Unsent == [of |-> CHOOSE n \in Name : TRUE, at |-> "unsent"]

TypeOK ==
  /\ settings \in Settings /\ cached \in Settings
  /\ account \in [Name -> [role : Role \cup {"none"}, limit : Limit, promised : SUBSET Limit, verified : BOOLEAN, by : Ways \cup {"none"}]]
  /\ role \subseteq Role
  /\ seed \subseteq Role \cup {"owner"}
  /\ maker \in [Maker -> [at : {"idle", "look", "make", "letter"}, way : Ways, name : Name, role : Role, limit : Limit,
                          chosen : BOOLEAN, verified : BOOLEAN, seen : SUBSET Limit]]
  /\ letter \in [Letter -> [of : Name, at : {"unsent", "sent", "used"}]]
  /\ changes \in 0 .. MaxChanges

\* The migrations have run and nothing else has.
Init ==
  /\ settings \in [open : {TRUE}, verify : BOOLEAN, limit : {1}] /\ cached = settings
  /\ account = [n \in Name |-> Nobody]
  /\ role = {}
  /\ seed = Role \cup {"owner"}
  /\ maker = [m \in Maker |-> Idle] /\ letter = [l \in Letter |-> Unsent] /\ changes = 0

Change == changes < MaxChanges /\ changes' = changes + 1

-----------------------------------------------------------------------------
(***************************************************************************)
(* The settings, of which the API keeps a copy for a while.                       *)
(***************************************************************************)
SaveSettings ==
  /\ Change
  /\ \E s \in Settings : s.limit = changes + 2 /\ settings' = s
  /\ UNCHANGED <<cached, account, role, seed, maker, letter>>

Refresh ==
  /\ cached # settings /\ cached' = settings
  /\ maker' = [m \in Maker |-> IF maker[m].at = "idle" THEN maker[m] ELSE [maker[m] EXCEPT !.seen = @ \cup {settings.limit}]]
  /\ UNCHANGED <<settings, account, role, seed, letter, changes>>

-----------------------------------------------------------------------------
(***************************************************************************)
(* The seed, which can be run again: permissions, then one role after the other, then   *)
(* the first owner, if its variables are set. It may die anywhere.                   *)
(***************************************************************************)
Reseed ==
  /\ seed = {} /\ Change /\ seed' = Role \cup {"owner"}
  /\ UNCHANGED <<settings, cached, account, role, maker, letter>>

SeedRoles ==
  /\ \E r \in seed \cap Role :
       /\ role' = role \cup {r}
       /\ seed' = seed \ {r}
  /\ UNCHANGED <<settings, cached, account, maker, letter, changes>>

SeedDies ==
  /\ seed # {} /\ seed' = {}
  /\ UNCHANGED <<settings, cached, account, role, maker, letter, changes>>

\* Who has neither a limit on memory nor one on the disk; the address is taken as proved.
SeedAdmin(m) ==
  /\ seed = {"owner"} /\ seed' = {} /\ maker[m].at = "idle"
  /\ \/ \E n \in Name : maker' = [maker EXCEPT ![m] = [Idle EXCEPT !.at = "look", !.way = "seed", !.name = n, !.role = "OWNER",
                                    !.limit = UnlimitedAccountLimits, !.verified = TRUE]]
     \/ UNCHANGED maker
  /\ UNCHANGED <<settings, cached, account, role, letter, changes>>

-----------------------------------------------------------------------------
(***************************************************************************)
(* Making one: what was asked for and read, whether the name is free, and the row.      *)
(***************************************************************************)
Ask(m, how) == maker[m].at = "idle" /\ Change /\ maker' = [maker EXCEPT ![m] = how]

Register(m) ==
  /\ cached.open
  /\ \E n \in Name : Ask(m, [Idle EXCEPT !.at = "look", !.name = n, !.verified = ~cached.verify,
                               !.limit = DefaultAccountLimits(cached), !.seen = {cached.limit}])
  /\ UNCHANGED <<settings, cached, account, role, seed, letter>>

\* assertOutranks: an owner makes anybody, the others somebody below them.
Outranks(a, r) == account[a].role = "OWNER" \/ Priority[account[a].role] > Priority[r]

\* What is said of the limits goes before what the settings say.
CreateUser(m) ==
  /\ \E a, n \in Name, r \in Role, verified, chosen \in BOOLEAN :
       /\ account[a].role \in {"OWNER", "STAFF"} /\ Outranks(a, r)
       /\ Ask(m, [Idle EXCEPT !.at = "look", !.way = "create", !.name = n, !.role = r, !.verified = verified,
                                !.chosen = chosen, !.limit = 0, !.seen = {cached.limit}])
  /\ UNCHANGED <<settings, cached, account, role, seed, letter>>

CliCreate(m) ==
  /\ \E n \in Name, r \in Role :
       Ask(m, [Idle EXCEPT !.at = "look", !.way = "cli", !.name = n, !.role = r, !.verified = TRUE, !.seen = {settings.limit}])
  /\ UNCHANGED <<settings, cached, account, role, seed, letter>>

\* Somebody has the name, or there is no such role yet.
Look(m) ==
  /\ maker[m].at = "look"
  /\ LET mk == maker[m] free == account[mk.name].role = "none" /\ mk.role \in role IN
     maker' = [maker EXCEPT ![m] = IF free THEN [mk EXCEPT !.at = "make"] ELSE Idle]
  /\ UNCHANGED <<settings, cached, account, role, seed, letter, changes>>

\* Mutant: what the columns default to, unless somebody signed up.
LimitOf_Column(m) == IF maker[m].way = "register" THEN maker[m].limit ELSE 0
\* What a customer gets is read when he signs up, and otherwise when the row is made: on
\* the command line from the table.
LimitOf(m) ==
  IF maker[m].chosen THEN 0
  ELSE IF maker[m].way = "register" THEN maker[m].limit
  ELSE IF maker[m].role # "CUSTOMER" THEN UnlimitedAccountLimits
  ELSE DefaultAccountLimits(IF maker[m].way = "create" THEN cached ELSE settings)

\* An address and a user name are one account's, whatever was looked up before.
Create(m) ==
  LET mk == maker[m]
      seen == mk.seen \cup {IF mk.way = "cli" THEN settings.limit ELSE cached.limit}
  IN
  /\ mk.at = "make"
  /\ IF account[mk.name].role # "none" THEN maker' = [maker EXCEPT ![m] = Idle] /\ UNCHANGED account
     ELSE /\ account' = [account EXCEPT ![mk.name] =
                [role |-> mk.role, limit |-> LimitOf(m), verified |-> mk.verified, by |-> mk.way,
                 promised |-> IF mk.chosen \/ mk.way = "seed" \/ mk.role # "CUSTOMER" THEN {0} ELSE seen]]
          /\ maker' = [maker EXCEPT ![m] = IF mk.way = "register" /\ ~mk.verified THEN [mk EXCEPT !.at = "letter"] ELSE Idle]
  /\ UNCHANGED <<settings, cached, role, seed, letter, changes>>

-----------------------------------------------------------------------------
(***************************************************************************)
(* The proof of an address.                                                *)
(***************************************************************************)
SendVerificationEmail(l, n) == letter[l] = Unsent /\ letter' = [letter EXCEPT ![l] = [of |-> n, at |-> "sent"]]

SendLetter(m) ==
  /\ maker[m].at = "letter" /\ maker' = [maker EXCEPT ![m] = Idle]
  /\ (\E l \in Letter : SendVerificationEmail(l, maker[m].name)) \/ UNCHANGED letter
  /\ UNCHANGED <<settings, cached, account, role, seed, changes>>

Resend ==
  /\ \E n \in Name, l \in Letter :
       account[n].role # "none" /\ ~account[n].verified /\ SendVerificationEmail(l, n)
  /\ UNCHANGED <<settings, cached, account, role, seed, maker, changes>>

Follow ==
  /\ \E l \in Letter :
       /\ letter[l].at = "sent" /\ letter' = [letter EXCEPT ![l].at = "used"]
       /\ account' = [account EXCEPT ![letter[l].of].verified = TRUE]
  /\ UNCHANGED <<settings, cached, role, seed, maker, changes>>

\* Another address is one nobody has, and opens the question again where it is asked.
UpdateProfile ==
  /\ Change
  /\ \E n, to \in Name :
       /\ account[n].role # "none" /\ account[to].role = "none"
       /\ account' = [account EXCEPT ![n] = Nobody, ![to] =
                       [account[n] EXCEPT !.verified = account[n].verified /\ ~cached.verify]]
       /\ letter' = [l \in Letter |-> IF letter[l].of = n /\ letter[l].at = "sent"
                                      THEN [letter[l] EXCEPT !.of = to] ELSE letter[l]]
       /\ maker' = [m \in Maker |-> IF maker[m].at = "letter" /\ maker[m].name = n
                                    THEN [maker[m] EXCEPT !.name = to] ELSE maker[m]]
  /\ UNCHANGED <<settings, cached, role, seed>>

-----------------------------------------------------------------------------
Next ==
  \/ SaveSettings \/ Refresh \/ Reseed \/ SeedRoles \/ SeedDies
  \/ \E m \in Maker :
       SeedAdmin(m) \/ Register(m) \/ CreateUser(m) \/ CliCreate(m) \/ Look(m) \/ Create(m) \/ SendLetter(m)
  \/ Resend \/ Follow \/ UpdateProfile

Spec == Init /\ [][Next]_vars

-----------------------------------------------------------------------------
\* "There are three ways an account comes into existence ... and only the first read
\* these" (settings.ts): a customer has a limit that the settings set while the account
\* was being made, whichever way that was, unless somebody chose another; whoever runs
\* the panel has none.
LimitsPromised == \A n \in Name : account[n].role # "none" => account[n].limit \in account[n].promised
===============================================================================
