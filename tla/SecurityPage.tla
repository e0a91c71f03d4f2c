------------------------------ MODULE SecurityPage ------------------------------
(***************************************************************************)
(* The security page of an account, beside whatever else happens to the account:   *)
(* the password, the second factor and its dialogs, the sessions, the keys of the   *)
(* API and the dialog that makes one. What the page knows is what queries told it; a  *)
(* dialog may be closed while its request is on the way, and the answer still comes.  *)
(***************************************************************************)
EXTENDS Naturals

CONSTANTS
  Permission, \* what an account may be allowed
  Asking,     \* requests to make a key, over time
  NoAsk,
  Device,     \* other devices, signed in or not
  MaxSecrets, \* secrets and sets of backup codes made: a bound
  MaxTurns    \* what others do: a bound

SecurityPageAssumption == NoAsk \notin Asking /\ MaxSecrets \in Nat /\ MaxTurns \in Nat

VARIABLES
  held,    \* what the account may do
  offered, \* what the key dialog was told of it
  dialog,  \* the key dialog
  key,     \* per request: how far it is, what it asks for, what the key's row says
  issued,  \* the key whose token is shown
  keys,    \* the keys the page lists
  factor,  \* the account's: the secret, whether it is on, its backup codes
  enrol,   \* the page's: the secret its dialog shows, the request, the codes it shows
  seen,    \* whether the page believes the factor is on
  signed,  \* the other devices: those signed in, those the page lists
  password,
  turns

vars == <<held, offered, dialog, key, issued, keys, factor, enrol, seen, signed, password, turns>>

\* An empty list, on the wire and in the row, is all that the account may do.
Everything == {}
Shut       == [open |-> FALSE, scoped |-> FALSE, chosen |-> {}, named |-> FALSE, ask |-> NoAsk]
Unasked    == [at |-> "none", asked |-> {}, list |-> {}, stands |-> FALSE]
NoFactor   == [secret |-> 0, on |-> FALSE, codes |-> 0]

TypeOK ==
  /\ {held, offered} \subseteq SUBSET Permission
  /\ dialog \in [open : BOOLEAN, scoped : BOOLEAN, chosen : SUBSET Permission, named : BOOLEAN, ask : Asking \cup {NoAsk}]
  /\ key \in [Asking -> [at : {"none", "sent", "made", "over"}, asked : SUBSET Permission,
                      list : SUBSET Permission, stands : BOOLEAN]]
  /\ issued \in Asking \cup {NoAsk} /\ keys \subseteq Asking
  /\ factor \in [secret : 0 .. MaxSecrets, on : BOOLEAN, codes : 0 .. MaxSecrets]
  /\ enrol \in [secret : 0 .. MaxSecrets, sent : BOOLEAN, codes : 0 .. MaxSecrets]
  /\ seen \in BOOLEAN /\ signed \in [real : SUBSET Device, listed : SUBSET Device]
  /\ password \in {"blank", "mismatch", "ready"} /\ turns \in 0 .. MaxTurns

Init ==
  /\ held = Permission /\ offered = {}
  /\ dialog = Shut /\ key = [a \in Asking |-> Unasked] /\ issued = NoAsk /\ keys = {}
  /\ factor = NoFactor /\ enrol = [secret |-> 0, sent |-> FALSE, codes |-> 0] /\ seen = FALSE
  /\ signed = [real |-> Device, listed |-> Device] /\ password = "blank" /\ turns = 0

keyVars     == <<held, offered, dialog, key, issued, keys>>
factorVars  == <<factor, enrol, seen>>
sessionVars == <<signed, password>>

-----------------------------------------------------------------------------
(***************************************************************************)
(* Keys.                                                                    *)
(***************************************************************************)
Standing == {a \in Asking : key[a].stands}

SetKeyDialog ==
  /\ dialog' = IF dialog.open THEN Shut ELSE [Shut EXCEPT !.open = TRUE]
  /\ UNCHANGED <<held, offered, key, issued, keys, factorVars, sessionVars, turns>>

PermissionsArrive ==
  /\ dialog.open /\ offered' = held
  /\ UNCHANGED <<held, dialog, key, issued, keys, factorVars, sessionVars, turns>>

\* The name, everything or only what is picked, and the picks among what is offered.
FillIn ==
  /\ dialog.open
  /\ \/ dialog' = [dialog EXCEPT !.named = ~@]
     \/ dialog' = [dialog EXCEPT !.scoped = ~@]
     \/ \E p \in offered : /\ dialog.scoped
                           /\ dialog' = [dialog EXCEPT !.chosen = IF p \in @ THEN @ \ {p} ELSE @ \cup {p}]
  /\ UNCHANGED <<held, offered, key, issued, keys, factorVars, sessionVars, turns>>

Incomplete == ~dialog.named \/ (dialog.scoped /\ dialog.chosen = {})

CreateKey(a) ==
  /\ dialog.open /\ ~Incomplete /\ dialog.ask = NoAsk /\ key[a].at = "none"
  /\ dialog' = [dialog EXCEPT !.ask = a]
  /\ key' = [key EXCEPT ![a] = [Unasked EXCEPT !.at = "sent",
                                               !.asked = IF dialog.scoped THEN dialog.chosen ELSE Everything]]
  /\ UNCHANGED <<held, offered, issued, keys, factorVars, sessionVars, turns>>

\* What the account may not do is left out of the list.
Granted(a) == key[a].asked \cap held
Refused(a) == key[a].asked # {} /\ Granted(a) = {}

PostApiKeys(a) ==
  /\ key[a].at = "sent" /\ ~Refused(a)
  /\ key' = [key EXCEPT ![a] = [@ EXCEPT !.at = "made", !.list = Granted(a), !.stands = TRUE]]
  /\ UNCHANGED <<held, offered, dialog, issued, keys, factorVars, sessionVars, turns>>

\* The answer shuts whatever dialog is open now and shows the token, once.
Created(a) ==
  /\ key[a].at = "made"
  /\ key' = [key EXCEPT ![a].at = "over"] /\ dialog' = Shut /\ issued' = a
  /\ UNCHANGED <<held, offered, keys, factorVars, sessionVars, turns>>

\* Refused by the panel, or the answer is lost and nobody ever sees the token.
CreateFails(a) ==
  /\ key[a].at = "made" \/ (key[a].at = "sent" /\ Refused(a))
  /\ key' = [key EXCEPT ![a].at = "over"]
  /\ dialog' = IF dialog.ask = a THEN [dialog EXCEPT !.ask = NoAsk] ELSE dialog
  /\ UNCHANGED <<held, offered, issued, keys, factorVars, sessionVars, turns>>

CloseIssued ==
  /\ issued # NoAsk /\ issued' = NoAsk
  /\ UNCHANGED <<held, offered, dialog, key, keys, factorVars, sessionVars, turns>>

KeysArrive ==
  /\ keys' = Standing
  /\ UNCHANGED <<held, offered, dialog, key, issued, factorVars, sessionVars, turns>>

RevokeKey(a) ==
  /\ a \in keys /\ key' = [key EXCEPT ![a].stands = FALSE]
  /\ UNCHANGED <<held, offered, dialog, issued, keys, factorVars, sessionVars, turns>>

-----------------------------------------------------------------------------
(***************************************************************************)
(* The second factor. A code comes from the secret that was scanned here.      *)
(***************************************************************************)
Next1(n) == n < MaxSecrets /\ n + 1 \in 1 .. MaxSecrets

\* A new secret is written over one that was not confirmed.
SetsUp == ~factor.on /\ Next1(factor.secret) /\ factor' = [factor EXCEPT !.secret = @ + 1]

BeginTwoFactor ==
  /\ ~seen /\ enrol.secret = 0 /\ enrol.codes = 0 /\ SetsUp
  /\ enrol' = [enrol EXCEPT !.secret = factor'.secret]
  /\ UNCHANGED <<seen, keyVars, sessionVars, turns>>

Turns(on, codes) == factor' = [factor EXCEPT !.on = on, !.codes = codes]

\* The code is of the secret the account has, and the factor not on yet.
Enable ==
  /\ enrol.secret # 0 /\ ~enrol.sent
  /\ ~factor.on /\ enrol.secret = factor.secret /\ Next1(factor.codes)
  /\ Turns(TRUE, factor.codes + 1) /\ enrol' = [enrol EXCEPT !.sent = TRUE]
  /\ UNCHANGED <<seen, keyVars, sessionVars, turns>>

\* onEnabled: the codes are in the answer, and in no other; lost, they stay unknown.
Enabled ==
  /\ enrol.sent
  /\ \/ enrol' = [secret |-> 0, sent |-> FALSE, codes |-> factor.codes] /\ seen' = factor.on
     \/ enrol' = [enrol EXCEPT !.sent = FALSE] /\ UNCHANGED seen
  /\ UNCHANGED <<factor, keyVars, sessionVars, turns>>

CloseTwoFactor ==
  /\ enrol.secret # 0 /\ enrol' = [enrol EXCEPT !.secret = 0]
  /\ UNCHANGED <<factor, seen, keyVars, sessionVars, turns>>

CloseBackupCodes ==
  /\ enrol.codes # 0 /\ enrol' = [enrol EXCEPT !.codes = 0]
  /\ UNCHANGED <<factor, seen, keyVars, sessionVars, turns>>

\* With the password and a code, asked for in prompts; then the page looks again.
DisableTwoFactor ==
  /\ seen /\ factor.on /\ Turns(FALSE, factor.codes) /\ seen' = FALSE
  /\ UNCHANGED <<enrol, keyVars, sessionVars, turns>>

-----------------------------------------------------------------------------
(***************************************************************************)
(* The password and the sessions. Nobody is signed out of the page itself.     *)
(***************************************************************************)
TypePassword ==
  /\ password' \in {"blank", "mismatch", "ready"} \ {password}
  /\ UNCHANGED <<signed, keyVars, factorVars, turns>>

\* The list is asked for again after each of these, and comes when it comes.
ChangePassword ==
  /\ password = "ready" /\ password' = "blank" /\ signed' = [signed EXCEPT !.real = {}]
  /\ UNCHANGED <<keyVars, factorVars, turns>>

RevokeSession(d) ==
  /\ d \in signed.listed /\ signed' = [signed EXCEPT !.real = @ \ {d}]
  /\ UNCHANGED <<password, keyVars, factorVars, turns>>

RevokeAll ==
  /\ signed' = [signed EXCEPT !.real = {}]
  /\ UNCHANGED <<password, keyVars, factorVars, turns>>

SessionsArrive ==
  /\ signed' = [signed EXCEPT !.listed = signed.real]
  /\ UNCHANGED <<password, keyVars, factorVars, turns>>

-----------------------------------------------------------------------------
(***************************************************************************)
(* Elsewhere: an administrator, another device.                             *)
(***************************************************************************)
Turn == turns < MaxTurns /\ turns' = turns + 1

HeldChanges ==
  /\ Turn /\ \E may \in SUBSET Permission : held' = may
  /\ UNCHANGED <<offered, dialog, key, issued, keys, factorVars, sessionVars>>

FactorChanges ==
  /\ Turn
  /\ \/ SetsUp
     \/ ~factor.on /\ factor.secret # 0 /\ Next1(factor.codes) /\ Turns(TRUE, factor.codes + 1)
     \/ factor.on /\ Next1(factor.codes) /\ Turns(TRUE, factor.codes + 1)
     \/ factor.on /\ Turns(FALSE, factor.codes)
  /\ UNCHANGED <<enrol, seen, keyVars, sessionVars>>

SignsIn(d) ==
  /\ Turn /\ d \notin signed.real /\ signed' = [signed EXCEPT !.real = @ \cup {d}]
  /\ UNCHANGED <<password, keyVars, factorVars>>

KeySteps ==
  \/ SetKeyDialog \/ PermissionsArrive \/ FillIn \/ CloseIssued \/ KeysArrive \/ HeldChanges
  \/ \E a \in Asking : CreateKey(a) \/ PostApiKeys(a) \/ Created(a) \/ CreateFails(a) \/ RevokeKey(a)

FactorSteps ==
  \/ BeginTwoFactor \/ Enable \/ Enabled \/ CloseTwoFactor \/ CloseBackupCodes \/ DisableTwoFactor
  \/ FactorChanges

SessionSteps ==
  \/ TypePassword \/ ChangePassword \/ RevokeAll \/ SessionsArrive
  \/ \E d \in Device : RevokeSession(d) \/ SignsIn(d)

Next == KeySteps \/ FactorSteps \/ SessionSteps

Spec == Init /\ [][Next]_vars

-----------------------------------------------------------------------------
\* A key for what was picked can do no more than that: whatever the account lost
\* between the list, the click and the row, it never becomes one for everything.
KeyAsPicked ==
  \A a \in Asking : key[a].stands /\ key[a].asked # Everything => key[a].list # Everything /\ key[a].list \subseteq key[a].asked

=============================================================================
