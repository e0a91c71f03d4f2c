-------------------------------- MODULE Account --------------------------------
(***************************************************************************)
(* One account: signing in with a password and a second factor, the throttle  *)
(* on failed attempts, changing and resetting the password, and enrolling,    *)
(* disabling and renewing the second factor. Every request reads rows, works  *)
(* on what it read, and writes later; rows and keys are shared with whatever  *)
(* else is going on. The rotation of the sessions is in Sessions.            *)
(*                                                                         *)
(* Passwords and secrets are numbered as they are set. A code of the          *)
(* authenticator is known by its secret: those of one time step.             *)
(***************************************************************************)
EXTENDS Naturals, FiniteSets

CONSTANTS
  Request,          \* requests on their way at once
  Link, BackupCode, \* reset links that can be sent; the codes of one printed list
  MaxAttempts,      \* LOGIN_RATE_LIMIT_MAX
  MaxSets,          \* passwords, secrets and lists of codes set: a bound
  MaxRequests       \* requests made: a bound

AccountAssumption ==
  Link # {} /\ MaxAttempts \in Nat \ {0} /\ MaxSets \in Nat \ {0} /\ MaxRequests \in Nat

VARIABLES
  password,  \* the current one, and whether its hash is to be made again
  factor,    \* the second factor's row, if there is one, and the numbers it got to
  spent,     \* secrets whose current code was claimed in Redis
  throttle,  \* failed attempts counted, and whether the count will run out
  link,      \* reset links
  opened,    \* per slot: the password its session was opened with, 0 when none lives
  request,   \* per slot: the request
  asked,     \* requests made so far
  confirmed, \* the last secret a person proved to hold
  uses,      \* codes accepted, with the request that used each
  crossings  \* what two requests did to each other, remembered for the properties

vars == <<password, factor, spent, throttle, link, opened, request, asked, confirmed, uses, crossings>>

-----------------------------------------------------------------------------
Number == 0 .. MaxSets
Listed == Number \X BackupCode

NoFactor == [there |-> FALSE, secret |-> 0, enabled |-> FALSE, codes |-> {}, list |-> 0]
Factor   == [there : BOOLEAN, secret : Number, enabled : BOOLEAN, codes : SUBSET Listed, list : Number]

NoCode == <<"none", 0>>
Codes  == {NoCode} \cup ({"totp"} \X Number) \cup ({"printed"} \X Listed)

Steps == {"idle", "verify", "factor", "claim", "spend", "fail", "expire", "rehash", "open",
          "change", "revoke", "reset", "setup", "confirm", "enable", "disable", "renew"}
Kinds == {"login", "change", "reset", "setup", "enable", "disable", "renew"}

Idle == [at |-> "idle", id |-> 0, kind |-> "login", typed |-> 0, code |-> NoCode, read |-> NoFactor, weak |-> FALSE,
         link |-> CHOOSE l \in Link : TRUE]

TypeOK ==
  /\ password \in [v : Number, weak : BOOLEAN]
  /\ factor \in Factor
  /\ spent \subseteq Number
  /\ throttle \in [count : Nat, ends : BOOLEAN]
  /\ link \in [Link -> {"unsent", "sent", "used", "late"}]
  /\ opened \in [Request -> Number]
  /\ request \in [Request -> [at : Steps, id : 0 .. MaxRequests, kind : Kinds, typed : Number,
                           code : Codes, read : Factor, weak : BOOLEAN, link : Link]]
  /\ asked \in 0 .. MaxRequests
  /\ confirmed \in Number
  /\ uses \subseteq Codes \X (1 .. MaxRequests)
  /\ crossings \subseteq {"setup", "opening", "halted", "printed", "rehash", "link", "stranded"}

Enrolled == [there |-> TRUE, secret |-> 1, enabled |-> TRUE, codes |-> {1} \X BackupCode, list |-> 1]

\* An account with or without a second factor, signed in or not.
Init ==
  /\ password \in [v : {1}, weak : BOOLEAN]
  /\ factor \in {NoFactor, Enrolled} /\ confirmed = factor.secret
  /\ spent = {} /\ throttle = [count |-> 0, ends |-> FALSE]
  /\ link = [l \in Link |-> "unsent"]
  /\ opened \in [Request -> {0, password.v}]
  /\ request = [r \in Request |-> Idle]
  /\ asked = 0 /\ uses = {} /\ crossings = {}

At(r, step) == request[r].at = step
Go(r, step) == request' = [request EXCEPT ![r].at = step]
Done(r)     == request' = [request EXCEPT ![r] = Idle]

Begin(r, asking) ==
  /\ At(r, "idle") /\ asked < MaxRequests
  /\ asked' = asked + 1
  /\ request' = [request EXCEPT ![r] = [asking EXCEPT !.id = asked + 1]]

Cross(some) == crossings' = crossings \cup some

-----------------------------------------------------------------------------
(***************************************************************************)
(* Signing in: authenticate, and issueSession.                             *)
(***************************************************************************)
\* A person types a password, the current one or not, and perhaps a code.
AssertNotLockedOut(r) ==
  /\ opened[r] = 0 /\ throttle.count < MaxAttempts
  /\ \E typed \in {password.v, password.v - 1}, code \in
          {NoCode, <<"totp", factor.secret>>} \cup {<<"printed", c>> : c \in factor.codes} :
       Begin(r, [Idle EXCEPT !.at = "verify", !.typed = typed, !.code = code])
  /\ UNCHANGED <<password, factor, spent, throttle, link, opened, confirmed, uses, crossings>>

\* The user is read with the factor; a code that is missing is asked for.
Verify(r) ==
  /\ At(r, "verify")
  /\ \/ request[r].typed # password.v /\ Go(r, "fail")
     \/ request[r].typed = password.v /\ factor.enabled /\ request[r].code = NoCode /\ Done(r)
     \/ /\ request[r].typed = password.v /\ factor.enabled /\ request[r].code # NoCode
        /\ request' = [request EXCEPT ![r] = [@ EXCEPT !.at = "factor", !.weak = password.weak]]
     \/ request[r].typed = password.v /\ ~factor.enabled /\ Go(r, IF password.weak THEN "rehash" ELSE "open")
  /\ UNCHANGED <<password, factor, spent, throttle, link, opened, asked, confirmed, uses, crossings>>

\* verifySecondFactor reads the row again, and first takes the code for one of
\* the authenticator's.
ReadFactor(r) ==
  LET code == request[r].code IN
  /\ At(r, "factor")
  /\ request' = [request EXCEPT ![r] = [@ EXCEPT !.read = factor,
       !.at = IF ~factor.enabled THEN "fail"
              ELSE IF code[1] = "totp" /\ code[2] = factor.secret THEN "claim"
              ELSE IF code[1] = "printed" /\ code[2] \in factor.codes THEN "spend"
              ELSE "fail"]]
  /\ UNCHANGED <<password, factor, spent, throttle, link, opened, asked, confirmed, uses, crossings>>

\* What an accepted code leads to.
Accepted(r) ==
  /\ Go(r, IF request[r].kind = "disable" THEN "disable" ELSE IF request[r].weak THEN "rehash" ELSE "open")
  /\ uses' = uses \cup {<<request[r].code, request[r].id>>}

\* A refusal counts against a login, and just ends the rest.
Rejected(r) == IF request[r].kind = "login" THEN Go(r, "fail") ELSE Done(r)

\* SET ... NX: the digest is there or it is not.
ClaimTotp_Set(r) == spent' = spent \cup {request[r].code[2]} /\ Accepted(r)

ClaimTotp(r) ==
  IF request[r].code[2] \in spent THEN Rejected(r) /\ UNCHANGED <<spent, uses>>
  ELSE spent' = spent \cup {request[r].code[2]} /\ Accepted(r)

Claim(r) ==
  /\ At(r, "claim") /\ request[r].kind \in {"login", "disable"}
  /\ ClaimTotp(r)
  /\ UNCHANGED <<password, factor, throttle, link, opened, asked, confirmed, crossings>>

\* The list is written back as it was read, less the code. A row that is gone
\* fails the request.
SpendPrinted(r) ==
  LET left == request[r].read.codes \ {request[r].code[2]} IN
  /\ At(r, "spend")
  /\ IF ~factor.there THEN Done(r) /\ UNCHANGED <<factor, uses, crossings>>
     ELSE /\ factor' = [factor EXCEPT !.codes = left]
          /\ Accepted(r)
          /\ Cross(IF factor.codes # request[r].read.codes THEN {"printed"} ELSE {})
  /\ UNCHANGED <<password, spent, throttle, link, opened, asked, confirmed>>

\* recordFailedLogin: INCR, and then EXPIRE.
CountFailure(r) ==
  /\ At(r, "fail") /\ request[r].kind = "login"
  /\ throttle' = [throttle EXCEPT !.count = @ + 1]
  /\ Go(r, "expire")
  /\ UNCHANGED <<password, factor, spent, link, opened, asked, confirmed, uses, crossings>>

ExpireCount(r) ==
  /\ At(r, "expire")
  /\ throttle' = [throttle EXCEPT !.ends = throttle.count > 0]
  /\ Done(r)
  /\ UNCHANGED <<password, factor, spent, link, opened, asked, confirmed, uses, crossings>>

NoCount == [count |-> 0, ends |-> FALSE]

CountRunsOut ==
  /\ throttle.ends
  /\ throttle' = NoCount
  /\ UNCHANGED <<password, factor, spent, link, opened, request, asked, confirmed, uses, crossings>>

\* A hash of an older cost is made again from what was typed, and written over
\* the one there is.
Rehash(r) ==
  /\ At(r, "rehash")
  /\ password' = [v |-> request[r].typed, weak |-> FALSE]
  /\ Cross(IF password.v # request[r].typed THEN {"rehash"} ELSE {})
  /\ Go(r, "open")
  /\ UNCHANGED <<factor, spent, throttle, link, opened, asked, confirmed, uses>>

IssueSession(r) ==
  /\ At(r, "open")
  /\ throttle' = NoCount
  /\ opened' = [opened EXCEPT ![r] = request[r].typed]
  /\ Cross(IF request[r].typed # password.v THEN {"opening"} ELSE {})
  /\ Done(r)
  /\ UNCHANGED <<password, factor, spent, link, asked, confirmed, uses>>

-----------------------------------------------------------------------------
(***************************************************************************)
(* The password. assertPassword reads it, as does every request below that    *)
(* asks for it.                                                            *)
(***************************************************************************)
Proven(r) == opened[r] # 0 /\ password.v < MaxSets

\* The new password, and then the end of all other sessions: two writes.
AskChange(r) ==
  /\ Proven(r)
  /\ Begin(r, [Idle EXCEPT !.at = "change", !.kind = "change"])
  /\ UNCHANGED <<password, factor, spent, throttle, link, opened, confirmed, uses, crossings>>

\* The command line sets one for whoever asks the operator, and ends every session.
AdminPassword(r) ==
  /\ opened[r] = 0 /\ password.v < MaxSets
  /\ Begin(r, [Idle EXCEPT !.at = "change", !.kind = "change"])
  /\ UNCHANGED <<password, factor, spent, throttle, link, opened, confirmed, uses, crossings>>

Change(r) ==
  /\ At(r, "change") /\ password.v < MaxSets
  /\ password' = [v |-> password.v + 1, weak |-> FALSE]
  /\ opened' = [opened EXCEPT ![r] = IF @ = 0 THEN 0 ELSE password.v + 1]
  /\ Go(r, "revoke")
  /\ UNCHANGED <<factor, spent, throttle, link, asked, confirmed, uses, crossings>>

RevokeOthers(r) ==
  /\ At(r, "revoke")
  /\ opened' = [q \in Request |-> IF q = r THEN opened[q] ELSE 0]
  /\ Done(r)
  /\ UNCHANGED <<password, factor, spent, throttle, link, asked, confirmed, uses, crossings>>

\* Forgotten: a link is sent, lasts an hour, and is read before it is used.
ForgotPassword(l) ==
  /\ link[l] = "unsent"
  /\ link' = [link EXCEPT ![l] = "sent"]
  /\ UNCHANGED <<password, factor, spent, throttle, opened, request, asked, confirmed, uses, crossings>>

LinkRunsOut(l) ==
  /\ link[l] = "sent"
  /\ link' = [link EXCEPT ![l] = "late"]
  /\ UNCHANGED <<password, factor, spent, throttle, opened, request, asked, confirmed, uses, crossings>>

AskReset(r, l) ==
  /\ link[l] = "sent"
  /\ Begin(r, [Idle EXCEPT !.at = "reset", !.kind = "reset", !.link = l])
  /\ UNCHANGED <<password, factor, spent, throttle, link, opened, confirmed, uses, crossings>>

\* One transaction: the password, the link, and every session.
SignOutAll_One(r) == [opened EXCEPT ![r] = 0]
SignOutAll(r) == [q \in Request |-> 0]

Reset(r) ==
  /\ At(r, "reset") /\ password.v < MaxSets
  /\ password' = [v |-> password.v + 1, weak |-> FALSE]
  /\ link' = [link EXCEPT ![request[r].link] = "used"]
  /\ opened' = SignOutAll(r)
  /\ Cross(IF link[request[r].link] = "used" THEN {"link"} ELSE {})
  /\ Done(r)
  /\ UNCHANGED <<factor, spent, throttle, asked, confirmed, uses>>

-----------------------------------------------------------------------------
(***************************************************************************)
(* The second factor.                                                      *)
(***************************************************************************)
\* A new secret is shown; one that is enabled, as read, is refused.
AskSetup(r) ==
  /\ opened[r] # 0 /\ ~factor.enabled /\ factor.secret < MaxSets
  /\ Begin(r, [Idle EXCEPT !.at = "setup", !.kind = "setup", !.read = factor])
  /\ UNCHANGED <<password, factor, spent, throttle, link, opened, confirmed, uses, crossings>>

Setup(r) ==
  /\ At(r, "setup") /\ factor.secret < MaxSets
  /\ factor' = [factor EXCEPT !.there = TRUE, !.secret = @ + 1, !.enabled = FALSE]
  /\ Cross(IF \E q \in Request \ {r} : request[q].kind \in {"setup", "enable", "renew"} \/ factor # request[r].read
           THEN {"setup"} ELSE {})
  /\ Done(r)
  /\ UNCHANGED <<password, spent, throttle, link, opened, asked, confirmed, uses>>

\* The code is of a secret that was shown, this one or an earlier one.
AskEnable(r) ==
  /\ opened[r] # 0 /\ factor.there /\ ~factor.enabled
  /\ \E shown \in 1 .. factor.secret :
       Begin(r, [Idle EXCEPT !.at = "confirm", !.kind = "enable", !.code = <<"totp", shown>>, !.read = factor])
  /\ UNCHANGED <<password, factor, spent, throttle, link, opened, confirmed, uses, crossings>>

\* acceptEnrolmentCode.
MatchesSecret(r) == request[r].code[2] = request[r].read.secret

Confirm(r) ==
  /\ At(r, "confirm")
  /\ \/ /\ MatchesSecret(r) /\ request[r].code[2] \notin spent
        /\ spent' = spent \cup {request[r].code[2]}
        /\ uses' = uses \cup {<<request[r].code, request[r].id>>}
        /\ confirmed' = request[r].code[2]
        /\ Go(r, "enable")
     \/ /\ ~MatchesSecret(r) \/ request[r].code[2] \in spent
        /\ Done(r)
        /\ UNCHANGED <<spent, uses, confirmed>>
  /\ UNCHANGED <<password, factor, throttle, link, opened, asked, crossings>>

\* completeTwoFactorEnrolment: ten new codes, and enabled whatever the secret is.
Complete(r) ==
  /\ At(r, "enable") \/ At(r, "renew")
  /\ IF ~factor.there \/ factor.list = MaxSets THEN UNCHANGED factor
     ELSE factor' = [factor EXCEPT !.enabled = TRUE, !.list = @ + 1, !.codes = {factor.list + 1} \X BackupCode]
  /\ Done(r)
  /\ UNCHANGED <<password, spent, throttle, link, opened, asked, confirmed, uses, crossings>>

AskRenew(r) ==
  /\ opened[r] # 0 /\ factor.enabled /\ factor.list < MaxSets
  /\ Begin(r, [Idle EXCEPT !.at = "renew", !.kind = "renew"])
  /\ UNCHANGED <<password, factor, spent, throttle, link, opened, confirmed, uses, crossings>>

\* Disabling takes a code as signing in does, and then deletes the row.
AskDisable(r) ==
  /\ opened[r] # 0 /\ factor.there
  /\ \E code \in {<<"totp", factor.secret>>} \cup {<<"printed", c>> : c \in factor.codes} :
       Begin(r, [Idle EXCEPT !.at = "factor", !.kind = "disable", !.code = code])
  /\ UNCHANGED <<password, factor, spent, throttle, link, opened, confirmed, uses, crossings>>

\* The command line takes the factor off an account that is locked out, without a code.
AdminDisable(r) ==
  /\ opened[r] = 0
  /\ Begin(r, [Idle EXCEPT !.at = "disable", !.kind = "disable"])
  /\ UNCHANGED <<password, factor, spent, throttle, link, opened, confirmed, uses, crossings>>

Disable(r) ==
  /\ At(r, "disable")
  /\ factor' = [factor EXCEPT !.there = FALSE, !.enabled = FALSE, !.codes = {}]
  /\ Done(r)
  /\ UNCHANGED <<password, spent, throttle, link, opened, asked, confirmed, uses, crossings>>

RejectedCode(r) ==
  /\ At(r, "fail") /\ request[r].kind = "disable"
  /\ Done(r)
  /\ UNCHANGED <<password, factor, spent, throttle, link, opened, asked, confirmed, uses, crossings>>

-----------------------------------------------------------------------------
\* The panel restarts: a request ends where it is.
Halt(r) ==
  /\ ~At(r, "idle")
  /\ asked < MaxRequests /\ asked' = asked + 1
  /\ Cross((IF At(r, "revoke") THEN {"halted"} ELSE {}) \cup (IF At(r, "expire") THEN {"stranded"} ELSE {}))
  /\ Done(r)
  /\ UNCHANGED <<password, factor, spent, throttle, link, opened, confirmed, uses>>

Step(r) ==
  \/ Verify(r) \/ ReadFactor(r) \/ Claim(r) \/ SpendPrinted(r)
  \/ CountFailure(r) \/ ExpireCount(r) \/ Rehash(r) \/ IssueSession(r)
  \/ Change(r) \/ RevokeOthers(r) \/ Reset(r)
  \/ Setup(r) \/ Confirm(r) \/ Complete(r) \/ Disable(r) \/ RejectedCode(r)

Ask(r) ==
  \/ AssertNotLockedOut(r) \/ AskChange(r) \/ \E l \in Link : AskReset(r, l)
  \/ AskSetup(r) \/ AskEnable(r) \/ AskRenew(r) \/ AskDisable(r)
  \/ AdminPassword(r) \/ AdminDisable(r)

Next ==
  \/ \E r \in Request : Ask(r) \/ Step(r) \/ Halt(r)
  \/ \E l \in Link : ForgotPassword(l) \/ LinkRunsOut(l)
  \/ CountRunsOut

Spec == Init /\ [][Next]_vars

-----------------------------------------------------------------------------
\* A changed or reset password ends the sessions that were opened with an earlier
\* one: whoever is signed in has the password of now. Except in the middle of a
\* change, for a login that was between its check and its session, for a change
\* cut short, and where a rehash wrote the password of before over the new one.
OldPasswordOut ==
  \A r \in Request :
    \/ opened[r] \in {0, password.v}
    \/ \E q \in Request : At(q, "revoke")
    \/ crossings \cap {"opening", "halted", "rehash"} # {}

\* The second factor is one. A code opens the account, or takes the factor off it,
\* once: of two requests that hold it at the same time one is refused. Printed codes
\* promise it only where no two of them are spent at once. And a factor that is
\* enabled is one whose secret somebody proved to hold, unless two enrolments, or one
\* and a renewal of codes, ran into each other.
FactorSound ==
  /\ \A u, w \in uses : u[1] = w[1] => u = w \/ (u[1][1] = "printed" /\ "printed" \in crossings)
  /\ factor.enabled => factor.secret = confirmed \/ "setup" \in crossings

\* An account that is locked out does not stay so: the count that locks it has its
\* end, or is just being given it, unless the panel went down between the two.
LockoutEnds ==
  throttle.count >= MaxAttempts =>
    throttle.ends \/ (\E r \in Request : At(r, "expire")) \/ "stranded" \in crossings
=============================================================================
