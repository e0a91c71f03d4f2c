---------------------------- MODULE IdentityProofs ----------------------------
(***************************************************************************)
(* The properties of MCIdentity, for any number of browsers, tabs, sessions,       *)
(* requests and accounts: sessions first, then one account, then how accounts come  *)
(* to be.                                                                  *)
(***************************************************************************)
EXTENDS MCIdentity, TLAPS

-----------------------------------------------------------------------------
(***************************************************************************)
(* Sessions. A token is presented by a browser that has it in its jar, or by a      *)
(* request that took it from there. Whatever happens, a tab has one request at a     *)
(* time, no token is ahead of the count, and a session that was rotated remembers    *)
(* the token it was rotated from.                                             *)
(***************************************************************************)
Busy(r)  == refresh[r].req.at # "idle"
From(r)  == JarOf[refresh[r].tab]
Sent(r)  == refresh[r].req.token
For(r)   == refresh[r].req.sid
Knows(r) == refresh[r].req.at \in {"write", "answer"}
Yields(r, s) == refresh[r].req.at = "answer" /\ For(r) = s

OneRequestPerTab ==
  /\ \A r \in Renewal : Busy(r) => refresh[r].tab \in inFlight
  /\ \A r, q \in Renewal : Busy(r) /\ Busy(q) /\ refresh[r].tab = refresh[q].tab => r = q

TokensAreMinted ==
  /\ \A s \in Session : session[s].token <= minted /\ session[s].prev <= minted
  /\ \A j \in Jar : jar[j].token <= minted
  /\ \A r \in Renewal : Sent(r) <= minted /\ (Busy(r) => Sent(r) # 0)

SessionsAreBorn ==
  /\ \A j \in Jar : jar[j].access \in Session => session[jar[j].access] # S!Unborn
  /\ \A r \in Renewal : Knows(r) => For(r) \in Session /\ session[For(r)] # S!Unborn

RotationsRemembered ==
  \A s \in Session : /\ session[s] = S!Unborn => replaced[s] = 0
                     /\ S!Stands(s) /\ replaced[s] # 0 => session[s].prev = replaced[s]

EndsHaveCauses == alarmed \/ (\E s \in Session : S!Stands(s) /\ session[s].revoked) => causes # {}

(***************************************************************************)
(* Without two tabs that overlap, a copied profile or a lost answer: a browser has    *)
(* one request at a time and shares no token, a token that was rotated away is held    *)
(* by nobody but the browser whose answer is on its way, and a browser holds the      *)
(* newest token of the session it is signed in to, or is about to.                 *)
(***************************************************************************)
Undisturbed == causes \subseteq {"ended"}

OneRequestPerJar == \A r, q \in Renewal : Busy(r) /\ Busy(q) /\ From(r) = From(q) => r = q

TokensAreOneBrowsers ==
  /\ \A j, k \in Jar : jar[j].token # 0 /\ jar[j].token = jar[k].token => j = k
  /\ \A r \in Renewal, j \in Jar : Busy(r) /\ jar[j].token = Sent(r) => j = From(r)
  /\ \A r, q \in Renewal : Busy(r) /\ Busy(q) /\ Sent(r) = Sent(q) => From(r) = From(q)

SpentTokensAreGone ==
  \A s \in Session : S!Stands(s) /\ session[s].prev # 0 =>
    /\ \A r \in Renewal : Busy(r) /\ refresh[r].req.at # "fail" => Sent(r) # session[s].prev
    /\ \A j \in Jar : jar[j].token = session[s].prev => \E r \in Renewal : From(r) = j /\ Yields(r, s)

NewestTokenHeld ==
  /\ \A r \in Renewal : Knows(r) /\ S!Stands(For(r)) => Sent(r) = session[For(r)].token
  /\ \A j \in Jar, s \in Session : jar[j].access = s /\ S!Stands(s) =>
       jar[j].token = session[s].token \/ \E r \in Renewal : From(r) = j /\ Yields(r, s)

SessionsInv ==
  /\ S!TypeOK /\ OneRequestPerTab /\ TokensAreMinted /\ SessionsAreBorn
  /\ RotationsRemembered /\ EndsHaveCauses
  /\ Undisturbed => OneRequestPerJar /\ TokensAreOneBrowsers /\ SpentTokensAreGone /\ NewestTokenHeld

-----------------------------------------------------------------------------
(***************************************************************************)
(* One account.                                                            *)
(***************************************************************************)
\* A request in its steps: it has a number, what its person typed is a password there was,
\* and its code is of the kind its step takes.
RequestSound(r) ==
  /\ ~A!At(r, "idle") => request[r].id >= 1
  /\ request[r].at \in {"factor", "claim", "spend", "rehash", "open"} /\ request[r].kind = "login" => request[r].typed >= 1
  /\ request[r].at \in {"verify", "rehash", "open"} => request[r].kind = "login"
  /\ request[r].at \in {"factor", "claim", "spend"} => request[r].kind \in {"login", "disable"}
  /\ request[r].at \in {"claim", "confirm"} => request[r].code \in {"totp"} \X A!Number
  /\ A!At(r, "spend") => request[r].code \in {"printed"} \X A!Listed /\ request[r].code[2] \in request[r].read.codes
  /\ request[r].at \in {"confirm", "enable"} => request[r].kind = "enable"
  /\ A!At(r, "renew") => request[r].kind = "renew"

RequestsSound == password.v >= 1 /\ \A r \in Request : RequestSound(r)

\* Whoever is signed in with a password of before is about to be signed out.
OldPasswordLeaving ==
  crossings \cap {"opening", "halted", "rehash"} = {} =>
    \A r \in Request : opened[r] \in {0, password.v} \/ \E q \in Request \ {r} : A!At(q, "revoke")

\* A used code of the authenticator is spent; a printed one has left the list for good.
UsedCodesSpent ==
  /\ \A u \in uses : u[1] \in {"totp"} \X spent \/ u[1] \in {"printed"} \X A!Listed
  /\ "printed" \notin crossings =>
       /\ \A c \in factor.codes : c[1] <= factor.list
       /\ \A u \in uses : u[1][1] = "printed" => u[1][2][1] <= factor.list /\ u[1][2] \notin factor.codes

\* Enrolments that do not run into each other read the secret there is.
EnrolmentsApart ==
  "setup" \notin crossings =>
    /\ factor.enabled => factor.secret = confirmed
    /\ \A r \in Request :
         /\ request[r].at \in {"confirm", "enable"} => request[r].read.secret = factor.secret
         /\ request[r].at \in {"enable", "renew"} => factor.secret = confirmed

AccountInv ==
  /\ A!TypeOK /\ RequestsSound
  /\ OldPasswordLeaving
  /\ UsedCodesSpent /\ EnrolmentsApart /\ FactorSound
  /\ A!LockoutEnds

-----------------------------------------------------------------------------
(***************************************************************************)
(* How accounts come to be.                                                  *)
(***************************************************************************)
\* Who signs up is a customer, with a limit he was promised; the seed makes an owner.
MakersSound ==
  \A m \in Maker : maker[m].at # "idle" =>
    /\ maker[m].way = "register" => maker[m].role = "CUSTOMER" /\ ~maker[m].chosen /\ maker[m].limit \in maker[m].seen
    /\ maker[m].way = "seed" => maker[m].role = "OWNER" /\ ~maker[m].chosen

MembersInv == M!TypeOK /\ MakersSound /\ M!LimitsPromised

\* A part keeps its invariant whichever scene it is: one that stands still is as it began.
IdentityInv == SessionsInv /\ AccountInv /\ MembersInv

-----------------------------------------------------------------------------
(***************************************************************************)
(* Sessions: what is known of a row.                                          *)
(***************************************************************************)
\* A row stands exactly if it has a token.
LEMMA RowsHaveTokens ==
  ASSUME S!TypeOK
  PROVE  \A s \in Session :
           /\ S!Stands(s) <=> session[s].token # 0
           /\ S!Stands(s) <=> session[s] \in S!Row
           /\ S!Stands(s) => session[s] # S!Unborn
           /\ session[s].token \in Nat /\ session[s].prev \in Nat
           /\ session[s] = S!Unborn \/ session[s] = S!Gone => session[s].token = 0 /\ session[s].prev = 0
<1>1. \A row \in S!Row : row # S!Unborn /\ row # S!Gone /\ row.token # 0 /\ row.token \in Nat /\ row.prev \in Nat
  BY IdentityAssumption DEF S!SessionsAssumption, S!Row, S!Unborn, S!Gone, S!Token
<1>2. S!Unborn.token = 0 /\ S!Gone.token = 0 /\ S!Unborn.prev = 0 /\ S!Gone.prev = 0
  BY DEF S!Unborn, S!Gone
<1>3. \A s \in Session : session[s] \in S!Row \cup {S!Unborn, S!Gone} BY DEF S!TypeOK
<1> QED BY <1>1, <1>2, <1>3 DEF S!Stands

\* Unborn and Gone are told apart by revoked.
LEMMA UnbornIsNotGone == S!Unborn # S!Gone
BY DEF S!Unborn, S!Gone

(***************************************************************************)
(* Steps in which no token goes anywhere: sessions end or are forgotten, a jar is     *)
(* emptied, a request finds its session or fails.                              *)
(***************************************************************************)
NoTokenMoves ==
  /\ UNCHANGED <<minted, replaced, inFlight>>
  /\ \A s \in Session :
       /\ (session[s] = S!Unborn)' <=> session[s] = S!Unborn
       /\ S!Stands(s)' => S!Stands(s) /\ session'[s].token = session[s].token /\ session'[s].prev = session[s].prev
  /\ \A j \in Jar : jar'[j] = S!Empty \/ (jar'[j].token = jar[j].token /\ jar'[j].access = jar[j].access)
  /\ \A r \in Renewal :
       /\ UNCHANGED <<refresh[r].tab, Sent(r), Busy(r)>>
       /\ \/ UNCHANGED refresh[r]
          \/ refresh'[r].req.at \in {"reuse", "fail"} /\ refresh[r].req.at \notin {"answer", "fail"}
          \/ /\ refresh'[r].req.at = "write" /\ refresh[r].req.at = "find"
             /\ \E s \in Session : refresh'[r].req.sid = s /\ S!Stands(s)' /\ session'[s].token = Sent(r)

\* Such a step keeps the invariant, if it gives its reason for what it ends.
LEMMA TokensStay ==
  ASSUME SessionsInv, S!TypeOK', NoTokenMoves, causes \subseteq causes', EndsHaveCauses'
  PROVE  SessionsInv'
<1>1. \A s \in Session : S!Stands(s) <=> session[s].token # 0 BY RowsHaveTokens DEF SessionsInv
<1>2. NoSession \notin Session BY IdentityAssumption DEF S!SessionsAssumption
<1>3. S!Empty.token = 0 /\ S!Empty.access = NoSession BY DEF S!Empty
<1>4. OneRequestPerTab'
  BY DEF SessionsInv, NoTokenMoves, OneRequestPerTab, Busy
<1>5. TokensAreMinted'
  <2>1. \A s \in Session : session'[s].token <= minted' /\ session'[s].prev <= minted'
    <3> TAKE s \in Session
    <3>1. CASE S!Stands(s)' BY <3>1 DEF SessionsInv, TokensAreMinted, NoTokenMoves
    <3>2. CASE ~S!Stands(s)'
      <4>1. session'[s].token = 0 /\ session'[s].prev = 0 BY <3>2 DEF S!Stands, S!Unborn, S!Gone
      <4> QED BY <4>1 DEF NoTokenMoves, SessionsInv, S!TypeOK
    <3> QED BY <3>1, <3>2
  <2>2. \A j \in Jar : jar'[j].token <= minted'
    BY <1>3 DEF SessionsInv, TokensAreMinted, NoTokenMoves, S!TypeOK
  <2>3. \A r \in Renewal : Sent(r)' <= minted' /\ (Busy(r)' => Sent(r)' # 0)
    BY DEF SessionsInv, TokensAreMinted, NoTokenMoves
  <2> QED BY <2>1, <2>2, <2>3 DEF TokensAreMinted
<1>6. SessionsAreBorn'
  <2>1. \A s \in Session : S!Stands(s)' => session'[s] # S!Unborn BY DEF S!Stands
  <2> QED BY <1>2, <1>3, <2>1 DEF SessionsInv, SessionsAreBorn, NoTokenMoves, Knows, For
<1>7. RotationsRemembered'
  BY DEF SessionsInv, RotationsRemembered, NoTokenMoves
<1>8. ASSUME Undisturbed' PROVE (OneRequestPerJar /\ TokensAreOneBrowsers /\ SpentTokensAreGone /\ NewestTokenHeld)'
  <2>1. Undisturbed /\ OneRequestPerJar /\ TokensAreOneBrowsers /\ SpentTokensAreGone /\ NewestTokenHeld
    BY <1>8 DEF SessionsInv, Undisturbed
  <2>2. OneRequestPerJar' BY <2>1 DEF NoTokenMoves, OneRequestPerJar, From, Busy
  <2>3. TokensAreOneBrowsers'
    BY <1>3, <2>1 DEF SessionsInv, TokensAreMinted, NoTokenMoves, TokensAreOneBrowsers, From, Busy, Sent
  <2>4. \A r \in Renewal, s \in Session : Yields(r, s) => Yields(r, s)' BY DEF NoTokenMoves, Yields, For
  <2>5. SpentTokensAreGone'
    <3> SUFFICES ASSUME NEW s \in Session, S!Stands(s)', session'[s].prev # 0
                 PROVE  /\ \A r \in Renewal : Busy(r)' /\ refresh'[r].req.at # "fail" => Sent(r)' # session'[s].prev
                        /\ \A j \in Jar : jar'[j].token = session'[s].prev => \E r \in Renewal : From(r)' = j /\ Yields(r, s)'
      BY DEF SpentTokensAreGone
    <3>1. S!Stands(s) /\ session'[s].prev = session[s].prev BY DEF NoTokenMoves
    <3>2. \A r \in Renewal : Busy(r)' /\ refresh'[r].req.at # "fail" => Sent(r)' # session'[s].prev
      BY <2>1, <3>1 DEF SpentTokensAreGone, NoTokenMoves
    <3>3. \A j \in Jar : jar'[j].token = session'[s].prev => \E r \in Renewal : From(r)' = j /\ Yields(r, s)'
      BY <1>3, <2>1, <2>4, <3>1 DEF SpentTokensAreGone, NoTokenMoves, From
    <3> QED BY <3>2, <3>3
  <2>6. NewestTokenHeld'
    <3>1. \A r \in Renewal : Knows(r)' /\ S!Stands(For(r))' => Sent(r)' = session'[refresh'[r].req.sid].token
      BY <2>1 DEF SessionsInv, SessionsAreBorn, NewestTokenHeld, NoTokenMoves, Knows, For, Sent
    <3>2. \A j \in Jar, s \in Session : jar'[j].access = s /\ S!Stands(s)' =>
            jar'[j].token = session'[s].token \/ \E r \in Renewal : From(r)' = j /\ Yields(r, s)'
      BY <1>2, <1>3, <2>1, <2>4 DEF NewestTokenHeld, NoTokenMoves, From
    <3> QED BY <3>1, <3>2 DEF NewestTokenHeld, For
  <2> QED BY <2>2, <2>3, <2>5, <2>6
<1> QED BY <1>4, <1>5, <1>6, <1>7, <1>8 DEF SessionsInv

-----------------------------------------------------------------------------
(***************************************************************************)
(* The types of Sessions.                                                   *)
(***************************************************************************)
JarState == [token : S!Token \cup {0}, access : Session \cup {NoSession}, fresh : BOOLEAN]
RefreshRow == [tab : Tab, req : S!RefreshState]

\* Ending sessions keeps their rows.
LEMMA EndedTyped ==
  ASSUME S!TypeOK, NEW some PROVE S!Ended(some) \in [Session -> S!Row \cup {S!Unborn, S!Gone}]
<1> SUFFICES ASSUME NEW s \in Session, S!Stands(s)
             PROVE  [session[s] EXCEPT !.revoked = TRUE] \in S!Row
  BY DEF S!TypeOK, S!Ended
<1>1. session[s] \in S!Row BY DEF S!TypeOK, S!Stands
<1> QED BY <1>1 DEF S!Row

RefreshSteps == {"idle", "find", "reuse", "write", "answer", "fail"}

\* A request that goes on, or is over.
LEMMA GoTyped ==
  ASSUME S!TypeOK, NEW r \in Renewal, NEW at \in RefreshSteps, S!Go(r, at)
  PROVE  refresh' \in [Renewal -> RefreshRow]
<1>1. refresh \in [Renewal -> RefreshRow] BY DEF S!TypeOK, RefreshRow
<1>2. [refresh[r].req EXCEPT !.at = at] \in S!RefreshState BY <1>1 DEF RefreshRow, S!RefreshState, RefreshSteps
<1> QED BY <1>1, <1>2 DEF RefreshRow, S!Go

\* One that found its session.
LEMMA FoundTyped ==
  ASSUME S!TypeOK, NEW r \in Renewal, NEW s \in Session,
         refresh' = [refresh EXCEPT ![r].req = [@ EXCEPT !.at = "write", !.sid = s]]
  PROVE  refresh' \in [Renewal -> RefreshRow]
<1>1. refresh \in [Renewal -> RefreshRow] BY DEF S!TypeOK, RefreshRow
<1>2. refresh[r].req \in S!RefreshState BY <1>1 DEF RefreshRow
<1>3. [refresh[r].req EXCEPT !.at = "write", !.sid = s] \in S!RefreshState BY <1>2 DEF S!RefreshState
<1> QED BY <1>1, <1>3 DEF RefreshRow

\* One that has a new token to answer with.
LEMMA AnswerTyped ==
  ASSUME S!TypeOK, NEW r \in Renewal, NEW token \in S!Token,
         refresh' = [refresh EXCEPT ![r].req = [@ EXCEPT !.at = "answer", !.token = token]]
  PROVE  refresh' \in [Renewal -> RefreshRow]
<1>1. refresh \in [Renewal -> RefreshRow] BY DEF S!TypeOK, RefreshRow
<1>2. [refresh[r].req EXCEPT !.at = "answer", !.token = token] \in S!RefreshState BY <1>1 DEF RefreshRow, S!RefreshState
<1> QED BY <1>1, <1>2 DEF RefreshRow

\* One that is sent, by a tab, with what its jar holds.
LEMMA SentTyped ==
  ASSUME S!TypeOK, NEW r \in Renewal, NEW t \in Tab, NEW token \in S!Token \cup {0},
         refresh' = [refresh EXCEPT ![r] = [tab |-> t, req |-> [at |-> "find", token |-> token, sid |-> NoSession]]]
  PROVE  refresh' \in [Renewal -> RefreshRow]
BY DEF S!TypeOK, RefreshRow, S!RefreshState

\* One that is over.
LEMMA SettleTyped ==
  ASSUME S!TypeOK, NEW r \in Renewal, S!Settle(r)
  PROVE  refresh' \in [Renewal -> RefreshRow] /\ inFlight' \subseteq Tab
<1>1. refresh \in [Renewal -> RefreshRow] BY DEF S!TypeOK, RefreshRow
<1>2. S!Idle \in S!RefreshState BY DEF S!Idle, S!RefreshState
<1>3. refresh' \in [Renewal -> RefreshRow] BY <1>1, <1>2 DEF RefreshRow, S!Settle
<1> QED BY <1>3 DEF S!TypeOK, S!Settle

\* The parts of the state a step may change, each of its type.
LEMMA SessionsTypedBy ==
  ASSUME S!TypeOK,
         session' \in [Session -> S!Row \cup {S!Unborn, S!Gone}], minted' \in 0 .. MaxTokens,
         jar' \in [Jar -> JarState], inFlight' \subseteq Tab, refresh' \in [Renewal -> RefreshRow],
         acts' \in 0 .. MaxActs, alarmed' \in BOOLEAN, spared' \in Session \cup {NoSession},
         replaced' \in [Session -> S!Token \cup {0}], causes' \subseteq {"tabs", "copy", "lost", "ended"}
  PROVE  S!TypeOK'
BY DEF S!TypeOK, JarState, RefreshRow

\* The types at hand.
LEMMA SessionsTypes ==
  ASSUME S!TypeOK
  PROVE  /\ session \in [Session -> S!Row \cup {S!Unborn, S!Gone}] /\ minted \in 0 .. MaxTokens
         /\ jar \in [Jar -> JarState] /\ inFlight \subseteq Tab /\ refresh \in [Renewal -> RefreshRow]
         /\ acts \in 0 .. MaxActs /\ alarmed \in BOOLEAN /\ spared \in Session \cup {NoSession}
         /\ replaced \in [Session -> S!Token \cup {0}] /\ causes \subseteq {"tabs", "copy", "lost", "ended"}
         /\ MaxTokens \in Nat /\ MaxActs \in Nat /\ JarOf \in [Tab -> Jar]
BY IdentityAssumption DEF S!TypeOK, JarState, RefreshRow, S!SessionsAssumption

\* One act is spent.
LEMMA ActTyped == ASSUME S!TypeOK, S!Act PROVE acts' \in 0 .. MaxActs
BY SessionsTypes DEF S!Act

\* What happens to sessions and jars, but for the requests to refresh.
LEMMA SessionsKeptTyped ==
  ASSUME S!TypeOK,
         \/ \E j \in Jar : S!AccessExpires(j) \/ S!Logout(j) \/ S!RevokeOthers(j)
         \/ \E j \in Jar, s \in Session : S!IssueSession(j, s) \/ S!RevokeSession(j, s)
         \/ \E j, to \in Jar : S!CopyJar(j, to)
         \/ \E s \in Session : S!SessionExpires(s)
         \/ S!RevokeAll \/ S!PruneExpiredSessions
  PROVE  S!TypeOK'
<1> USE SessionsTypes
<1>1. ASSUME NEW j \in Jar, S!AccessExpires(j) PROVE S!TypeOK'
  <2>1. jar' \in [Jar -> JarState] BY <1>1 DEF S!AccessExpires, JarState
  <2> QED BY <1>1, <2>1, SessionsTypedBy DEF S!AccessExpires
<1>2. ASSUME NEW j \in Jar, S!Logout(j) PROVE S!TypeOK'
  <2>1. jar' \in [Jar -> JarState] BY <1>2 DEF S!Logout, JarState, S!Empty
  <2> QED BY <1>2, <2>1, EndedTyped, ActTyped, SessionsTypedBy DEF S!Logout
<1>3. ASSUME NEW j \in Jar, S!RevokeOthers(j) PROVE S!TypeOK'
  <2>1. spared' \in Session \cup {NoSession} BY <1>3 DEF S!RevokeOthers, JarState
  <2> QED BY <1>3, <2>1, EndedTyped, ActTyped, SessionsTypedBy DEF S!RevokeOthers
<1>4. ASSUME NEW j \in Jar, NEW s \in Session, S!IssueSession(j, s) PROVE S!TypeOK'
  <2>1. minted + 1 \in S!Token /\ minted' \in 0 .. MaxTokens BY <1>4 DEF S!IssueSession, S!Token
  <2>2. [token |-> minted + 1, prev |-> 0, revoked |-> FALSE, expired |-> FALSE] \in S!Row BY <2>1 DEF S!Row
  <2>3. session' \in [Session -> S!Row \cup {S!Unborn, S!Gone}] BY <1>4, <2>2 DEF S!IssueSession
  <2>4. jar' \in [Jar -> JarState] BY <1>4, <2>1 DEF S!IssueSession, JarState
  <2> QED BY <1>4, <2>1, <2>3, <2>4, SessionsTypedBy DEF S!IssueSession
<1>5. ASSUME NEW j \in Jar, NEW s \in Session, S!RevokeSession(j, s) PROVE S!TypeOK'
  BY <1>5, EndedTyped, ActTyped, SessionsTypedBy DEF S!RevokeSession
<1>6. ASSUME NEW j \in Jar, NEW to \in Jar, S!CopyJar(j, to) PROVE S!TypeOK'
  BY <1>6, ActTyped, SessionsTypedBy DEF S!CopyJar
<1>7. ASSUME NEW s \in Session, S!SessionExpires(s) PROVE S!TypeOK'
  <2>1. session[s] \in S!Row BY <1>7 DEF S!SessionExpires, S!Stands
  <2>2. [session[s] EXCEPT !.expired = TRUE] \in S!Row BY <2>1 DEF S!Row
  <2>3. session' \in [Session -> S!Row \cup {S!Unborn, S!Gone}] BY <1>7, <2>2 DEF S!SessionExpires
  <2> QED BY <1>7, <2>3, ActTyped, SessionsTypedBy DEF S!SessionExpires
<1>8. CASE S!RevokeAll
  BY <1>8, EndedTyped, ActTyped, SessionsTypedBy DEF S!RevokeAll
<1>9. CASE S!PruneExpiredSessions
  <2>1. session' \in [Session -> S!Row \cup {S!Unborn, S!Gone}] BY <1>9 DEF S!PruneExpiredSessions
  <2> QED BY <1>9, <2>1, ActTyped, SessionsTypedBy DEF S!PruneExpiredSessions
<1> QED BY <1>1, <1>2, <1>3, <1>4, <1>5, <1>6, <1>7, <1>8, <1>9

\* The requests to refresh.
LEMMA RefreshTyped ==
  ASSUME S!TypeOK,
         \/ \E t \in Tab : S!RefreshSession(t)
         \/ \E r \in Renewal : S!RefreshStep(r) \/ S!Lose(r)
  PROVE  S!TypeOK'
<1> USE SessionsTypes
<1>1. ASSUME NEW t \in Tab, S!RefreshSession(t) PROVE S!TypeOK'
  <2>1. JarOf[t] \in Jar /\ jar[JarOf[t]].token \in S!Token \cup {0} BY DEF JarState
  <2>2. refresh' \in [Renewal -> RefreshRow]
    BY <1>1, <2>1, SentTyped DEF S!RefreshSession
  <2>3. causes' \subseteq {"tabs", "copy", "lost", "ended"} /\ inFlight' \subseteq Tab
    BY <1>1 DEF S!RefreshSession
  <2> QED BY <1>1, <2>2, <2>3, SessionsTypedBy DEF S!RefreshSession
<1>2. ASSUME NEW r \in Renewal, S!Find(r) PROVE S!TypeOK'
  <2>1. refresh' \in [Renewal -> RefreshRow]
    <3>1. \/ S!Go(r, "reuse") \/ S!Go(r, "fail")
          \/ \E s \in Session : refresh' = [refresh EXCEPT ![r].req = [@ EXCEPT !.at = "write", !.sid = s]]
      BY <1>2 DEF S!Find, S!Holding
    <3> QED BY <3>1, GoTyped, FoundTyped DEF RefreshSteps
  <2>2. session' \in [Session -> S!Row \cup {S!Unborn, S!Gone}] /\ alarmed' \in BOOLEAN
    BY <1>2, EndedTyped DEF S!Find, S!Reused
  <2> QED BY <1>2, <2>1, <2>2, SessionsTypedBy DEF S!Find
<1>3. ASSUME NEW r \in Renewal, S!HandleTokenReuse(r) PROVE S!TypeOK'
  <2>1. refresh' \in [Renewal -> RefreshRow] BY <1>3, GoTyped DEF S!HandleTokenReuse, RefreshSteps
  <2> QED BY <1>3, <2>1, EndedTyped, SessionsTypedBy DEF S!HandleTokenReuse, S!Reused
<1>4. ASSUME NEW r \in Renewal, S!Rotate(r) PROVE S!TypeOK'
  <2> DEFINE s == refresh[r].req.sid
  <2>0. refresh[r].req.token \in S!Token \cup {0} BY DEF RefreshRow, S!RefreshState
  <2>1. CASE ~S!Stands(s) /\ S!Go(r, "fail") /\ UNCHANGED <<session, minted, replaced>>
    <3>1. refresh' \in [Renewal -> RefreshRow] BY <2>1, GoTyped DEF RefreshSteps
    <3> QED BY <1>4, <2>1, <3>1, SessionsTypedBy DEF S!Rotate
  <2>2. CASE S!Stands(s) /\ minted < MaxTokens
             /\ session' = [session EXCEPT ![s] = S!Rotated(@, refresh[r].req.token)]
             /\ minted' = minted + 1
             /\ refresh' = [refresh EXCEPT ![r].req = [@ EXCEPT !.at = "answer", !.token = minted + 1]]
             /\ replaced' = [replaced EXCEPT ![s] = IF session[s].token = refresh[r].req.token THEN session[s].token ELSE 0]
    <3>1. minted + 1 \in S!Token /\ minted' \in 0 .. MaxTokens BY <2>2 DEF S!Token
    <3>2. refresh' \in [Renewal -> RefreshRow] BY <2>2, <3>1, AnswerTyped
    <3>3. s \in Session => session[s] \in S!Row BY <2>2 DEF S!Stands
    <3>4. s \in Session => S!Rotated(session[s], refresh[r].req.token) \in S!Row BY <2>0, <3>1, <3>3 DEF S!Rotated, S!Row
    <3>5. session' \in [Session -> S!Row \cup {S!Unborn, S!Gone}] BY <2>2, <3>4
    <3>6. replaced' \in [Session -> S!Token \cup {0}] BY <2>0, <2>2
    <3> QED BY <1>4, <3>1, <3>2, <3>5, <3>6, SessionsTypedBy DEF S!Rotate
  <2> QED BY <1>4, <2>1, <2>2 DEF S!Rotate
<1>5. ASSUME NEW r \in Renewal, S!Answer(r) PROVE S!TypeOK'
  <2>1. refresh' \in [Renewal -> RefreshRow] BY <1>5, SettleTyped DEF S!Answer
  <2>2. refresh[r].req.token \in S!Token \cup {0} /\ refresh[r].req.sid \in Session \cup {NoSession}
    BY DEF RefreshRow, S!RefreshState
  <2>3. jar' \in [Jar -> JarState] BY <1>5, <2>2 DEF S!Answer, JarState
  <2> QED BY <1>5, <2>1, <2>3, SessionsTypedBy DEF S!Answer, S!Settle
<1>6. ASSUME NEW r \in Renewal, S!Lose(r) \/ S!Refuse(r) PROVE S!TypeOK'
  <2>1. refresh' \in [Renewal -> RefreshRow] BY <1>6, SettleTyped DEF S!Lose, S!Refuse
  <2>2. acts' \in 0 .. MaxActs BY <1>6, ActTyped DEF S!Lose, S!Refuse
  <2> QED BY <1>6, <2>1, <2>2, SessionsTypedBy DEF S!Lose, S!Refuse, S!Settle
<1> QED BY <1>1, <1>2, <1>3, <1>4, <1>5, <1>6 DEF S!RefreshStep

\* Together: a step of the sessions keeps their types.
LEMMA SessionsTyped == ASSUME S!TypeOK, S!Next PROVE S!TypeOK'
BY SessionsKeptTyped, RefreshTyped DEF S!Next

-----------------------------------------------------------------------------
(***************************************************************************)
(* The steps in which no token moves.                                          *)
(***************************************************************************)
\* Sessions that are ended keep their tokens.
LEMMA EndedKeepsTokens ==
  ASSUME S!TypeOK, NEW some, session' = S!Ended(some)
  PROVE  \A s \in Session :
           /\ (session[s] = S!Unborn)' <=> session[s] = S!Unborn
           /\ S!Stands(s)' <=> S!Stands(s)
           /\ session'[s].token = session[s].token /\ session'[s].prev = session[s].prev
<1> SUFFICES ASSUME NEW s \in Session
             PROVE  /\ (session[s] = S!Unborn)' <=> session[s] = S!Unborn
                    /\ S!Stands(s)' <=> S!Stands(s)
                    /\ session'[s].token = session[s].token /\ session'[s].prev = session[s].prev
  OBVIOUS
<1>1. CASE session'[s] = session[s] BY <1>1 DEF S!Stands
<1>2. CASE session'[s] # session[s]
  <2>1. S!Stands(s) /\ session'[s] = [session[s] EXCEPT !.revoked = TRUE] BY <1>2 DEF S!Ended
  <2>2. session[s] \in S!Row /\ session[s].token # 0 BY <2>1, RowsHaveTokens
  <2>3. session'[s].token = session[s].token /\ session'[s].prev = session[s].prev BY <2>1, <2>2 DEF S!Row
  <2>4. session'[s].token # 0 BY <2>2, <2>3
  <2>5. S!Stands(s)' BY <2>4 DEF S!Stands, S!Unborn, S!Gone
  <2> QED BY <2>1, <2>3, <2>5 DEF S!Stands
<1> QED BY <1>1, <1>2

\* A session that is ended on purpose or by an alarm keeps the invariant, if the reason is
\* told and everything else rests.
LEMMA EndStep ==
  ASSUME SessionsInv, S!TypeOK', NEW some, session' = S!Ended(some),
         UNCHANGED <<minted, inFlight, refresh, replaced>>,
         \A j \in Jar : jar'[j] = S!Empty \/ jar'[j] = jar[j],
         causes \subseteq causes', "ended" \in causes'
  PROVE  SessionsInv'
<1>1. NoTokenMoves BY EndedKeepsTokens DEF SessionsInv, NoTokenMoves, Busy, Sent
<1>2. EndsHaveCauses' BY DEF EndsHaveCauses
<1> QED BY <1>1, <1>2, TokensStay

\* Sessions are ended, run out or are forgotten; a cookie runs out.
LEMMA QuietStep ==
  ASSUME SessionsInv, S!TypeOK',
         \/ \E j \in Jar : S!AccessExpires(j) \/ S!Logout(j) \/ S!RevokeOthers(j)
         \/ \E j \in Jar, s \in Session : S!RevokeSession(j, s)
         \/ \E s \in Session : S!SessionExpires(s)
         \/ S!RevokeAll \/ S!PruneExpiredSessions
  PROVE  SessionsInv'
<1>0. S!TypeOK BY DEF SessionsInv
<1>1. ASSUME NEW j \in Jar, S!AccessExpires(j) PROVE SessionsInv'
  <2>1. \A k \in Jar : jar'[k].token = jar[k].token /\ jar'[k].access = jar[k].access
    BY <1>0, <1>1, SessionsTypes DEF S!AccessExpires, JarState
  <2>2. NoTokenMoves BY <1>1, <2>1 DEF S!AccessExpires, NoTokenMoves, Busy, Sent, S!Stands
  <2>3. EndsHaveCauses' BY <1>1 DEF SessionsInv, EndsHaveCauses, S!AccessExpires, S!Stands
  <2> QED BY <1>1, <2>2, <2>3, TokensStay DEF S!AccessExpires
<1>2. ASSUME NEW j \in Jar, S!Logout(j) PROVE SessionsInv'
  <2>1. \A k \in Jar : jar'[k] = S!Empty \/ jar'[k] = jar[k]
    BY <1>0, <1>2, SessionsTypes DEF S!Logout
  <2> QED BY <1>2, <2>1, EndStep DEF S!Logout
<1>3. ASSUME NEW j \in Jar, S!RevokeOthers(j) PROVE SessionsInv'
  BY <1>3, EndStep DEF S!RevokeOthers
<1>4. ASSUME NEW j \in Jar, NEW s \in Session, S!RevokeSession(j, s) PROVE SessionsInv'
  BY <1>4, EndStep DEF S!RevokeSession
<1>5. CASE S!RevokeAll
  BY <1>5, EndStep DEF S!RevokeAll
<1>6. ASSUME NEW s \in Session, S!SessionExpires(s) PROVE SessionsInv'
  <2>1. session[s] \in S!Row /\ session[s].token # 0 BY <1>0, <1>6, RowsHaveTokens DEF S!SessionExpires
  <2>2. session' = [session EXCEPT ![s] = [session[s] EXCEPT !.expired = TRUE]]
    BY <1>0, <1>6, <2>1, SessionsTypes DEF S!SessionExpires, S!Row
  <2>3. \A q \in Session : /\ session'[q].token = session[q].token /\ session'[q].prev = session[q].prev
                           /\ session'[q].revoked = session[q].revoked
                           /\ q # s => session'[q] = session[q]
    BY <1>0, <2>1, <2>2, SessionsTypes DEF S!Row
  <2>4. S!Stands(s)' BY <2>1, <2>3 DEF S!Stands, S!Unborn, S!Gone
  <2>5. NoTokenMoves BY <1>6, <2>3, <2>4 DEF S!SessionExpires, NoTokenMoves, Busy, Sent, S!Stands
  <2>6. EndsHaveCauses' BY <1>6, <2>3, <2>4 DEF SessionsInv, EndsHaveCauses, S!SessionExpires, S!Stands
  <2> QED BY <1>6, <2>5, <2>6, TokensStay DEF S!SessionExpires
<1>7. CASE S!PruneExpiredSessions
  <2>1. \A s \in Session : session'[s] = session[s] \/ (S!Stands(s) /\ session'[s] = S!Gone)
    BY <1>7 DEF S!PruneExpiredSessions
  <2>2. NoTokenMoves BY <1>7, <2>1, UnbornIsNotGone DEF S!PruneExpiredSessions, NoTokenMoves, Busy, Sent, S!Stands
  <2>3. EndsHaveCauses' BY <1>7, <2>1 DEF SessionsInv, EndsHaveCauses, S!PruneExpiredSessions, S!Stands
  <2> QED BY <1>7, <2>2, <2>3, TokensStay DEF S!PruneExpiredSessions
<1> QED BY <1>1, <1>2, <1>3, <1>4, <1>5, <1>6, <1>7

\* A request to refresh that goes on without a new token.
LEMMA GoesOn ==
  ASSUME S!TypeOK, NEW r \in Renewal, NEW at, S!Go(r, at)
  PROVE  /\ \A q \in Renewal : q # r => refresh'[q] = refresh[q]
         /\ refresh'[r].tab = refresh[r].tab /\ refresh'[r].req.token = refresh[r].req.token
         /\ refresh'[r].req.sid = refresh[r].req.sid /\ refresh'[r].req.at = at
BY SessionsTypes DEF S!Go, RefreshRow, S!RefreshState

\* rotateSession reads the row: the alarm it may set off has its cause.
LEMMA FindStep ==
  ASSUME SessionsInv, S!TypeOK', NEW r \in Renewal, S!Find(r)
  PROVE  SessionsInv'
<1>0. S!TypeOK BY DEF SessionsInv
<1>1. refresh[r].req.at = "find" BY DEF S!Find, S!At
<1>2. UNCHANGED <<minted, jar, inFlight, acts, spared, replaced, causes>> BY DEF S!Find
<1>3. CASE S!Go(r, "reuse") /\ UNCHANGED <<session, alarmed>>
  <2>1. NoTokenMoves BY <1>0, <1>1, <1>2, <1>3, GoesOn DEF NoTokenMoves, Busy, Sent, S!Stands
  <2>2. EndsHaveCauses' BY <1>2, <1>3 DEF SessionsInv, EndsHaveCauses, S!Stands
  <2> QED BY <1>2, <2>1, <2>2, TokensStay
<1>4. ASSUME NEW s \in S!Holding(refresh[r].req.token), session[s].revoked, S!Reused, S!Go(r, "fail") PROVE SessionsInv'
  <2>1. NoTokenMoves BY <1>0, <1>1, <1>2, <1>4, GoesOn, EndedKeepsTokens DEF NoTokenMoves, Busy, Sent, S!Reused
  <2>2. causes # {} BY <1>4 DEF S!Holding, SessionsInv, EndsHaveCauses
  <2>3. EndsHaveCauses' BY <1>2, <2>2 DEF EndsHaveCauses
  <2> QED BY <1>2, <2>1, <2>3, TokensStay
<1>5. ASSUME NEW s \in S!Holding(refresh[r].req.token), session' = [session EXCEPT ![s] = S!Gone],
             S!Go(r, "fail"), UNCHANGED alarmed PROVE SessionsInv'
  <2>1. s \in Session /\ S!Stands(s) BY <1>5 DEF S!Holding
  <2>2. session'[s] = S!Gone /\ \A q \in Session : q # s => session'[q] = session[q] BY <1>0, <1>5, <2>1, SessionsTypes
  <2>3. NoTokenMoves
    BY <1>0, <1>1, <1>2, <1>5, <2>1, <2>2, GoesOn, UnbornIsNotGone DEF NoTokenMoves, Busy, Sent, S!Stands
  <2>4. EndsHaveCauses' BY <1>2, <1>5, <2>1, <2>2 DEF SessionsInv, EndsHaveCauses, S!Stands
  <2> QED BY <1>2, <2>3, <2>4, TokensStay
<1>6. ASSUME NEW s \in S!Holding(refresh[r].req.token), refresh' = [refresh EXCEPT ![r].req = [@ EXCEPT !.at = "write", !.sid = s]],
             UNCHANGED <<session, alarmed>> PROVE SessionsInv'
  <2>1. s \in Session /\ S!Stands(s) /\ session[s].token = refresh[r].req.token BY <1>6 DEF S!Holding
  <2>2. /\ \A q \in Renewal : q # r => refresh'[q] = refresh[q]
        /\ refresh'[r].tab = refresh[r].tab /\ refresh'[r].req.token = refresh[r].req.token
        /\ refresh'[r].req.sid = s /\ refresh'[r].req.at = "write"
    BY <1>0, <1>6, SessionsTypes DEF RefreshRow, S!RefreshState
  <2>3. NoTokenMoves BY <1>1, <1>2, <1>6, <2>1, <2>2 DEF NoTokenMoves, Busy, Sent, S!Stands
  <2>4. EndsHaveCauses' BY <1>2, <1>6 DEF SessionsInv, EndsHaveCauses, S!Stands
  <2> QED BY <1>2, <2>3, <2>4, TokensStay
<1> QED BY <1>3, <1>4, <1>5, <1>6 DEF S!Find

\* A token nobody holds: the alarm goes off for the one a session was rotated from, which
\* an undisturbed browser does not present.
LEMMA ReuseStep ==
  ASSUME SessionsInv, S!TypeOK', NEW r \in Renewal, S!HandleTokenReuse(r)
  PROVE  SessionsInv'
<1>0. S!TypeOK BY DEF SessionsInv
<1>1. refresh[r].req.at = "reuse" /\ S!Go(r, "fail") /\ UNCHANGED <<minted, jar, inFlight, acts, spared, replaced, causes>>
  BY DEF S!HandleTokenReuse, S!At
<1>2. CASE S!Held(refresh[r].req.token) # {}
  <2>1. S!Reused BY <1>2 DEF S!HandleTokenReuse
  <2>2. causes # {}
    <3> SUFFICES ASSUME causes = {} PROVE FALSE OBVIOUS
    <3>1. PICK s \in Session : S!Stands(s) /\ session[s].prev = Sent(r) BY <1>2 DEF S!Held, Sent
    <3>2. Busy(r) /\ Sent(r) # 0 BY <1>1 DEF Busy, SessionsInv, TokensAreMinted
    <3> QED BY <1>1, <3>1, <3>2 DEF SessionsInv, Undisturbed, SpentTokensAreGone
  <2>3. NoTokenMoves BY <1>0, <1>1, <2>1, GoesOn, EndedKeepsTokens DEF NoTokenMoves, Busy, Sent, S!Reused
  <2>4. EndsHaveCauses' BY <1>1, <2>2 DEF EndsHaveCauses
  <2> QED BY <1>1, <2>3, <2>4, TokensStay
<1>3. CASE S!Held(refresh[r].req.token) = {}
  <2>1. UNCHANGED <<session, alarmed>> BY <1>3 DEF S!HandleTokenReuse
  <2>2. NoTokenMoves BY <1>0, <1>1, <2>1, GoesOn DEF NoTokenMoves, Busy, Sent, S!Stands
  <2>3. EndsHaveCauses' BY <1>1, <2>1 DEF SessionsInv, EndsHaveCauses, S!Stands
  <2> QED BY <1>1, <2>2, <2>3, TokensStay
<1> QED BY <1>2, <1>3

-----------------------------------------------------------------------------
(***************************************************************************)
(* The steps in which a token moves: a sign-in, a request sent, a rotation, an       *)
(* answer that arrives, is lost or is a refusal, a copied profile.                *)
(***************************************************************************)
\* A sign-in brings a token nobody has seen.
LEMMA IssueStep ==
  ASSUME SessionsInv, S!TypeOK', NEW j \in Jar, NEW s \in Session, S!IssueSession(j, s)
  PROVE  SessionsInv'
<1>0. S!TypeOK /\ minted \in Nat BY SessionsTypes DEF SessionsInv
<1>1. /\ session[s] = S!Unborn /\ minted' = minted + 1
      /\ session'[s] = [token |-> minted + 1, prev |-> 0, revoked |-> FALSE, expired |-> FALSE]
      /\ \A q \in Session : q # s => session'[q] = session[q]
      /\ jar'[j].token = minted + 1 /\ jar'[j].access = s /\ \A k \in Jar : k # j => jar'[k] = jar[k]
      /\ UNCHANGED <<inFlight, refresh, acts, alarmed, spared, replaced, causes>>
  BY <1>0, SessionsTypes DEF S!IssueSession
<1>2. S!Stands(s)' /\ session'[s] # S!Unborn /\ ~S!Stands(s)
  BY <1>0, <1>1 DEF S!Stands, S!Unborn, S!Gone
<1>3. \A q \in Session : q # s => (S!Stands(q)' <=> S!Stands(q)) BY <1>1 DEF S!Stands
<1>4. \A q \in Session : session[q].token \in Nat /\ session[q].prev \in Nat BY <1>0, RowsHaveTokens
<1>5. \A k \in Jar : jar[k].token \in Nat BY <1>0, SessionsTypes DEF JarState, S!Token
<1>6. \A r \in Renewal : Sent(r) \in Nat BY <1>0, SessionsTypes DEF RefreshRow, S!RefreshState, S!Token, Sent
<1>7. OneRequestPerTab' BY <1>1 DEF SessionsInv, OneRequestPerTab, Busy
<1>8. TokensAreMinted' BY <1>0, <1>1, <1>4, <1>5, <1>6 DEF SessionsInv, TokensAreMinted, Busy, Sent
<1>9. SessionsAreBorn' BY <1>1, <1>2 DEF SessionsInv, SessionsAreBorn, Knows, For
<1>10. RotationsRemembered' BY <1>1, <1>2, <1>3 DEF SessionsInv, RotationsRemembered
<1>11. EndsHaveCauses' BY <1>1, <1>3 DEF SessionsInv, EndsHaveCauses
<1>12. ASSUME Undisturbed' PROVE (OneRequestPerJar /\ TokensAreOneBrowsers /\ SpentTokensAreGone /\ NewestTokenHeld)'
  <2>1. OneRequestPerJar /\ TokensAreOneBrowsers /\ SpentTokensAreGone /\ NewestTokenHeld
    BY <1>1, <1>12 DEF SessionsInv, Undisturbed
  <2>2. OneRequestPerJar' BY <1>1, <2>1 DEF OneRequestPerJar, From, Busy
  <2>3. TokensAreOneBrowsers'
    BY <1>0, <1>1, <1>5, <1>6, <2>1 DEF SessionsInv, TokensAreMinted, TokensAreOneBrowsers, From, Busy, Sent
  <2>4. SpentTokensAreGone'
    BY <1>0, <1>1, <1>2, <1>3, <1>4, <2>1 DEF SessionsInv, TokensAreMinted, SpentTokensAreGone, From, Busy, Sent, Yields, For
  <2>5. NewestTokenHeld'
    <3>1. \A r \in Renewal : Knows(r) => For(r) \in Session /\ For(r) # s BY <1>1 DEF SessionsInv, SessionsAreBorn
    <3>2. \A r \in Renewal : (Knows(r) /\ S!Stands(For(r)) => Sent(r) = session[For(r)].token)'
      BY <1>1, <2>1, <3>1 DEF NewestTokenHeld, Knows, For, Sent, S!Stands
    <3>3. \A k \in Jar, q \in Session : jar'[k].access = q /\ S!Stands(q)' =>
            jar'[k].token = session'[q].token \/ \E r \in Renewal : From(r)' = k /\ Yields(r, q)'
      BY <1>1, <1>3, <2>1 DEF SessionsInv, SessionsAreBorn, NewestTokenHeld, From, Yields, For
    <3> QED BY <3>2, <3>3 DEF NewestTokenHeld
  <2> QED BY <2>2, <2>3, <2>4, <2>5
<1> QED BY <1>7, <1>8, <1>9, <1>10, <1>11, <1>12 DEF SessionsInv

\* What is known of the tokens in the jars and on their way.
LEMMA TokensAreNumbers ==
  ASSUME S!TypeOK
  PROVE  /\ minted \in Nat
         /\ \A k \in Jar : jar[k].token \in Nat
         /\ \A r \in Renewal : Sent(r) \in Nat /\ refresh[r].tab \in Tab /\ From(r) \in Jar
BY SessionsTypes DEF JarState, S!Token, RefreshRow, S!RefreshState, Sent, From

\* A tab asks for a new token, with the one in its jar: while it is undisturbed no other
\* request of that jar is on its way, so that the token is not one rotated away.
LEMMA SendStep ==
  ASSUME SessionsInv, S!TypeOK', NEW t \in Tab, S!RefreshSession(t)
  PROVE  SessionsInv'
<1>0. S!TypeOK BY DEF SessionsInv
<1> DEFINE j == JarOf[t]
<1>1. PICK r \in Renewal :
        /\ ~Busy(r)
        /\ refresh' = [refresh EXCEPT ![r] = [tab |-> t, req |-> [at |-> "find", token |-> jar[j].token, sid |-> NoSession]]]
        /\ causes' = IF \E q \in Renewal : refresh[q].tab # t /\ JarOf[refresh[q].tab] = j /\ ~S!At(q, "idle")
                     THEN causes \cup {"tabs"} ELSE causes
  BY DEF S!RefreshSession, S!At, Busy
<1>2. /\ jar[j].token # 0 /\ t \notin inFlight /\ inFlight' = inFlight \cup {t} /\ j \in Jar
      /\ UNCHANGED <<session, minted, jar, acts, alarmed, spared, replaced>>
  BY <1>0, SessionsTypes DEF S!RefreshSession, S!Coalesced
<1>3. /\ refresh'[r].tab = t /\ refresh'[r].req.at = "find" /\ refresh'[r].req.token = jar[j].token
      /\ \A q \in Renewal : q # r => refresh'[q] = refresh[q]
  BY <1>0, <1>1, SessionsTypes
<1>4. OneRequestPerTab' BY <1>1, <1>2, <1>3 DEF SessionsInv, OneRequestPerTab, Busy
<1>5. TokensAreMinted' BY <1>2, <1>3 DEF SessionsInv, TokensAreMinted, Busy, Sent
<1>6. SessionsAreBorn' BY <1>2, <1>3 DEF SessionsInv, SessionsAreBorn, Knows, For
<1>7. RotationsRemembered' /\ EndsHaveCauses'
  BY <1>1, <1>2 DEF SessionsInv, RotationsRemembered, EndsHaveCauses, S!Stands
<1>8. ASSUME Undisturbed' PROVE (OneRequestPerJar /\ TokensAreOneBrowsers /\ SpentTokensAreGone /\ NewestTokenHeld)'
  <2>1. OneRequestPerJar /\ TokensAreOneBrowsers /\ SpentTokensAreGone /\ NewestTokenHeld
    BY <1>1, <1>8 DEF SessionsInv, Undisturbed
  <2>2. \A q \in Renewal : Busy(q) => From(q) # j
    BY <1>1, <1>2, <1>8 DEF SessionsInv, OneRequestPerTab, Undisturbed, S!At, Busy, From
  <2>3. OneRequestPerJar' BY <1>3, <2>1, <2>2 DEF OneRequestPerJar, From, Busy
  <2>4. TokensAreOneBrowsers' BY <1>2, <1>3, <2>1 DEF TokensAreOneBrowsers, From, Busy, Sent
  <2>5. \A q \in Renewal, s \in Session : Yields(q, s) => q # r /\ Yields(q, s)' /\ UNCHANGED From(q)
    BY <1>1, <1>3 DEF Yields, For, Busy, From
  <2>6. SpentTokensAreGone'
    <3> SUFFICES ASSUME NEW s \in Session, S!Stands(s)', session'[s].prev # 0
                 PROVE  /\ \A q \in Renewal : Busy(q)' /\ refresh'[q].req.at # "fail" => Sent(q)' # session'[s].prev
                        /\ \A k \in Jar : jar'[k].token = session'[s].prev => \E q \in Renewal : From(q)' = k /\ Yields(q, s)'
      BY DEF SpentTokensAreGone
    <3>1. S!Stands(s) /\ session' = session /\ jar' = jar BY <1>2 DEF S!Stands
    <3>2. jar[j].token # session[s].prev
      BY <1>2, <2>1, <2>2, <3>1 DEF SpentTokensAreGone, Yields, Busy
    <3>3. \A q \in Renewal : Busy(q)' /\ refresh'[q].req.at # "fail" => Sent(q)' # session'[s].prev
      BY <1>3, <2>1, <3>1, <3>2 DEF SpentTokensAreGone, Sent, Busy
    <3>4. \A k \in Jar : jar'[k].token = session'[s].prev => \E q \in Renewal : From(q)' = k /\ Yields(q, s)'
      BY <2>1, <2>5, <3>1 DEF SpentTokensAreGone
    <3> QED BY <3>3, <3>4
  <2>7. NewestTokenHeld'
    <3>1. \A q \in Renewal : (Knows(q) /\ S!Stands(For(q)) => Sent(q) = session[For(q)].token)'
      BY <1>2, <1>3, <2>1 DEF NewestTokenHeld, Knows, For, Sent, S!Stands
    <3>2. \A k \in Jar, s \in Session : jar'[k].access = s /\ S!Stands(s)' =>
            jar'[k].token = session'[s].token \/ \E q \in Renewal : From(q)' = k /\ Yields(q, s)'
      BY <1>2, <2>1, <2>5 DEF NewestTokenHeld, S!Stands
    <3> QED BY <3>1, <3>2 DEF NewestTokenHeld
  <2> QED BY <2>3, <2>4, <2>6, <2>7
<1> QED BY <1>4, <1>5, <1>6, <1>7, <1>8 DEF SessionsInv

\* rotateSession writes the row it read, whatever it holds by now.
LEMMA RotateStep ==
  ASSUME SessionsInv, S!TypeOK', NEW r \in Renewal, S!Rotate(r)
  PROVE  SessionsInv'
<1>0. S!TypeOK /\ refresh[r].req.at = "write" BY DEF SessionsInv, S!Rotate, S!At
<1> DEFINE s == refresh[r].req.sid
<1>1. UNCHANGED <<jar, inFlight, acts, alarmed, spared, causes>> BY DEF S!Rotate
<1>2. s \in Session BY <1>0 DEF SessionsInv, SessionsAreBorn, Knows, For
<1>3. CASE ~S!Stands(s) /\ S!Go(r, "fail") /\ UNCHANGED <<session, minted, replaced>>
  <2>1. NoTokenMoves BY <1>0, <1>1, <1>3, GoesOn DEF NoTokenMoves, Busy, Sent, S!Stands
  <2>2. EndsHaveCauses' BY <1>1, <1>3 DEF SessionsInv, EndsHaveCauses, S!Stands
  <2> QED BY <1>1, <2>1, <2>2, TokensStay
<1>4. CASE S!Stands(s) /\ minted < MaxTokens
           /\ session' = [session EXCEPT ![s] = S!Rotated(@, refresh[r].req.token)]
           /\ minted' = minted + 1
           /\ refresh' = [refresh EXCEPT ![r].req = [@ EXCEPT !.at = "answer", !.token = minted + 1]]
           /\ replaced' = [replaced EXCEPT ![s] = IF session[s].token = refresh[r].req.token THEN session[s].token ELSE 0]
  <2>1. session[s] \in S!Row BY <1>0, <1>2, <1>4, RowsHaveTokens
  <2>2. /\ session'[s].token = minted + 1 /\ session'[s].prev = Sent(r) /\ session'[s].revoked = session[s].revoked
        /\ \A q \in Session : q # s => session'[q] = session[q]
    BY <1>0, <1>2, <1>4, <2>1, SessionsTypes DEF S!Rotated, S!Row, Sent
  <2>3. /\ refresh'[r].tab = refresh[r].tab /\ refresh'[r].req.at = "answer" /\ refresh'[r].req.token = minted + 1
        /\ refresh'[r].req.sid = s /\ \A q \in Renewal : q # r => refresh'[q] = refresh[q]
    BY <1>0, <1>4, SessionsTypes DEF RefreshRow, S!RefreshState
  <2>4. minted \in Nat /\ minted' = minted + 1 /\ (\A k \in Jar : jar[k].token \in Nat) /\ (\A q \in Renewal : Sent(q) \in Nat)
    BY <1>0, <1>4, TokensAreNumbers
  <2>5. \A q \in Session : session[q].token \in Nat /\ session[q].prev \in Nat BY <1>0, RowsHaveTokens
  <2>6. S!Stands(s) /\ S!Stands(s)' /\ session'[s] # S!Unborn /\ \A q \in Session : S!Stands(q)' <=> S!Stands(q)
    BY <1>4, <2>2, <2>4 DEF S!Stands, S!Unborn, S!Gone
  <2>7. OneRequestPerTab' BY <1>0, <1>1, <2>3 DEF SessionsInv, OneRequestPerTab, Busy
  <2>8. TokensAreMinted' BY <1>0, <1>1, <2>2, <2>3, <2>4, <2>5 DEF SessionsInv, TokensAreMinted, Busy, Sent
  <2>9. SessionsAreBorn' BY <1>1, <1>2, <2>2, <2>3, <2>6 DEF SessionsInv, SessionsAreBorn, Knows, For
  <2>10. RotationsRemembered'
    <3>1. /\ replaced'[s] # 0 => replaced'[s] = Sent(r)
          /\ \A q \in Session : q # s => replaced'[q] = replaced[q]
      BY <1>0, <1>2, <1>4, SessionsTypes DEF Sent
    <3> QED BY <2>2, <2>6, <3>1 DEF SessionsInv, RotationsRemembered
  <2>11. EndsHaveCauses' BY <1>1, <1>2, <2>2, <2>6 DEF SessionsInv, EndsHaveCauses
  <2>12. ASSUME Undisturbed' PROVE (OneRequestPerJar /\ TokensAreOneBrowsers /\ SpentTokensAreGone /\ NewestTokenHeld)'
    <3>1. OneRequestPerJar /\ TokensAreOneBrowsers /\ SpentTokensAreGone /\ NewestTokenHeld
      BY <1>1, <2>12 DEF SessionsInv, Undisturbed
    <3>2. Busy(r) /\ Busy(r)' /\ Sent(r) = session[s].token /\ Sent(r) <= minted
      BY <1>0, <2>3, <2>6, <3>1 DEF Busy, NewestTokenHeld, Knows, For, SessionsInv, TokensAreMinted
    <3>3. \A q \in Renewal : Busy(q) /\ Sent(q) = Sent(r) => q = r
      BY <3>1, <3>2 DEF OneRequestPerJar, TokensAreOneBrowsers
    <3>4. OneRequestPerJar' BY <2>3, <3>1, <3>2 DEF OneRequestPerJar, From, Busy
    <3>5. TokensAreOneBrowsers'
      BY <1>1, <2>3, <2>4, <3>1, <3>2 DEF SessionsInv, TokensAreMinted, TokensAreOneBrowsers, From, Busy, Sent
    <3>6. \A q \in Renewal, x \in Session : Yields(q, x) => q # r /\ Yields(q, x)' /\ UNCHANGED From(q)
      BY <1>0, <2>3 DEF Yields, For, From
    <3>7. \A x \in Session, k \in Jar : x = s /\ k = From(r) => From(r)' = k /\ Yields(r, x)' BY <2>3 DEF Yields, For, From
    <3>8. SpentTokensAreGone'
      <4> SUFFICES ASSUME NEW x \in Session, S!Stands(x)', session'[x].prev # 0
                   PROVE  /\ \A q \in Renewal : Busy(q)' /\ refresh'[q].req.at # "fail" => Sent(q)' # session'[x].prev
                          /\ \A k \in Jar : jar'[k].token = session'[x].prev => \E q \in Renewal : From(q)' = k /\ Yields(q, x)'
        BY DEF SpentTokensAreGone
      <4>1. CASE x = s
        <5>1. \A q \in Renewal : Busy(q)' => Sent(q)' # session'[x].prev
          BY <2>2, <2>3, <2>4, <3>2, <3>3, <4>1 DEF Sent, Busy
        <5>2. \A k \in Jar : jar'[k].token = session'[x].prev => From(r)' = k /\ Yields(r, x)'
          <6> SUFFICES ASSUME NEW k \in Jar, jar'[k].token = session'[x].prev PROVE From(r)' = k /\ Yields(r, x)'
            OBVIOUS
          <6>1. jar[k].token = Sent(r) BY <1>1, <2>2, <4>1
          <6>2. k = From(r) BY <3>1, <3>2, <6>1 DEF TokensAreOneBrowsers
          <6> QED BY <3>7, <4>1, <6>2
        <5> QED BY <5>1, <5>2
      <4>2. CASE x # s
        <5>1. session'[x] = session[x] /\ S!Stands(x) /\ session[x].prev <= minted
          BY <2>2, <2>6, <4>2 DEF SessionsInv, TokensAreMinted
        <5>2. \A q \in Renewal : Busy(q)' /\ refresh'[q].req.at # "fail" => Sent(q)' # session'[x].prev
          BY <2>3, <2>4, <2>5, <3>1, <5>1 DEF SpentTokensAreGone, Sent, Busy
        <5>3. \A k \in Jar : jar'[k].token = session'[x].prev => \E q \in Renewal : From(q)' = k /\ Yields(q, x)'
          BY <1>1, <3>1, <3>6, <5>1 DEF SpentTokensAreGone
        <5> QED BY <5>2, <5>3
      <4> QED BY <4>1, <4>2
    <3>9. NewestTokenHeld'
      <4>1. \A q \in Renewal : (Knows(q) /\ S!Stands(For(q)) => Sent(q) = session[For(q)].token)'
        <5> SUFFICES ASSUME NEW q \in Renewal, Knows(q)', S!Stands(For(q))'
                     PROVE  refresh'[q].req.token = session'[refresh'[q].req.sid].token
          BY DEF Sent, For
        <5>1. CASE q = r BY <2>2, <2>3, <5>1
        <5>2. CASE q # r
          <6>1. refresh'[q] = refresh[q] /\ Knows(q) /\ For(q) \in Session /\ Busy(q)
            BY <2>3, <5>2 DEF Knows, SessionsInv, SessionsAreBorn, Busy
          <6>2. S!Stands(For(q)) BY <2>6, <6>1 DEF For, S!Stands
          <6>3. Sent(q) = session[For(q)].token BY <3>1, <6>1, <6>2 DEF NewestTokenHeld
          <6>4. For(q) # s BY <3>2, <3>3, <5>2, <6>1, <6>3
          <6> QED BY <2>2, <6>1, <6>3, <6>4 DEF Sent, For
        <5> QED BY <5>1, <5>2
      <4>2. \A k \in Jar, x \in Session : jar'[k].access = x /\ S!Stands(x)' =>
              jar'[k].token = session'[x].token \/ \E q \in Renewal : From(q)' = k /\ Yields(q, x)'
        <5> SUFFICES ASSUME NEW k \in Jar, NEW x \in Session, jar'[k].access = x, S!Stands(x)'
                     PROVE  jar'[k].token = session'[x].token \/ \E q \in Renewal : From(q)' = k /\ Yields(q, x)'
          OBVIOUS
        <5>1. jar[k].token = session[x].token \/ \E q \in Renewal : From(q) = k /\ Yields(q, x)
          BY <1>1, <2>6, <3>1 DEF NewestTokenHeld
        <5>2. CASE \E q \in Renewal : From(q) = k /\ Yields(q, x) BY <3>6, <5>2
        <5>3. CASE jar[k].token = session[x].token /\ x = s
          <6>1. k = From(r) BY <3>1, <3>2, <5>3 DEF TokensAreOneBrowsers
          <6>2. From(r)' = k /\ Yields(r, x)' BY <3>7, <5>3, <6>1
          <6> QED BY <6>2
        <5>4. CASE jar[k].token = session[x].token /\ x # s BY <1>1, <2>2, <5>4
        <5> QED BY <5>1, <5>2, <5>3, <5>4
      <4> QED BY <4>1, <4>2 DEF NewestTokenHeld
    <3> QED BY <3>4, <3>5, <3>8, <3>9
  <2> QED BY <2>7, <2>8, <2>9, <2>10, <2>11, <2>12 DEF SessionsInv
<1> QED BY <1>0, <1>3, <1>4 DEF S!Rotate

\* The answer reaches its jar: it brings the newest token of its session there.
LEMMA AnswerStep ==
  ASSUME SessionsInv, S!TypeOK', NEW r \in Renewal, S!Answer(r)
  PROVE  SessionsInv'
<1>0. S!TypeOK /\ refresh[r].req.at = "answer" BY DEF SessionsInv, S!Answer, S!At
<1> DEFINE j == From(r)
<1>1. /\ j \in Jar /\ jar'[j].token = Sent(r) /\ jar'[j].access = For(r) /\ \A k \in Jar : k # j => jar'[k] = jar[k]
      /\ UNCHANGED <<session, minted, acts, alarmed, spared, replaced, causes>>
  BY <1>0, SessionsTypes, TokensAreNumbers DEF S!Answer, From, Sent, For
<1>2. /\ ~Busy(r)' /\ ~Knows(r)' /\ (\A q \in Renewal : q # r => refresh'[q] = refresh[q])
      /\ Sent(r)' <= minted /\ inFlight' = inFlight \ {refresh[r].tab}
  BY <1>0, SessionsTypes DEF S!Answer, S!Settle, RefreshRow, S!Idle, Busy, Knows, Sent
<1>3. Busy(r) /\ Knows(r) /\ Sent(r) # 0 /\ Sent(r) <= minted /\ For(r) \in Session /\ session[For(r)] # S!Unborn
  BY <1>0 DEF Busy, Knows, SessionsInv, TokensAreMinted, SessionsAreBorn
<1>4. OneRequestPerTab' BY <1>2, <1>3 DEF SessionsInv, OneRequestPerTab, Busy
<1>5. TokensAreMinted' BY <1>1, <1>2, <1>3 DEF SessionsInv, TokensAreMinted, Busy, Sent
<1>6. SessionsAreBorn' BY <1>1, <1>2, <1>3 DEF SessionsInv, SessionsAreBorn, Knows, For
<1>7. RotationsRemembered' /\ EndsHaveCauses' BY <1>1 DEF SessionsInv, RotationsRemembered, EndsHaveCauses, S!Stands
<1>8. ASSUME Undisturbed' PROVE (OneRequestPerJar /\ TokensAreOneBrowsers /\ SpentTokensAreGone /\ NewestTokenHeld)'
  <2>1. OneRequestPerJar /\ TokensAreOneBrowsers /\ SpentTokensAreGone /\ NewestTokenHeld
    BY <1>1, <1>8 DEF SessionsInv, Undisturbed
  <2>2. OneRequestPerJar' BY <1>2, <2>1 DEF OneRequestPerJar, From, Busy
  <2>3. TokensAreOneBrowsers'
    <3>1. \A k \in Jar : jar[k].token = Sent(r) => k = j BY <1>3, <2>1 DEF TokensAreOneBrowsers
    <3>2. \A q \in Renewal : Busy(q)' => q # r /\ Busy(q) /\ Sent(q)' = Sent(q) /\ From(q)' = From(q)
      BY <1>2 DEF Busy, Sent, From
    <3>3. \A q \in Renewal : Busy(q) /\ Sent(q) = Sent(r) => From(q) = j BY <1>3, <2>1 DEF TokensAreOneBrowsers
    <3>4. \A k, l \in Jar : jar'[k].token # 0 /\ jar'[k].token = jar'[l].token => k = l
      BY <1>1, <2>1, <3>1 DEF TokensAreOneBrowsers
    <3>5. \A q \in Renewal, k \in Jar : Busy(q)' /\ jar'[k].token = Sent(q)' => k = From(q)'
      BY <1>1, <2>1, <3>2, <3>3 DEF TokensAreOneBrowsers
    <3>6. \A p, q \in Renewal : Busy(p)' /\ Busy(q)' /\ Sent(p)' = Sent(q)' => From(p)' = From(q)'
      BY <2>1, <3>2 DEF TokensAreOneBrowsers
    <3> QED BY <3>4, <3>5, <3>6 DEF TokensAreOneBrowsers
  <2>4. \A q \in Renewal, x \in Session : Yields(q, x) /\ From(q) # j => Yields(q, x)' /\ From(q)' = From(q)
    BY <1>2 DEF Yields, For, From
  <2>5. SpentTokensAreGone'
    <3> SUFFICES ASSUME NEW x \in Session, S!Stands(x)', session'[x].prev # 0
                 PROVE  /\ \A q \in Renewal : Busy(q)' /\ refresh'[q].req.at # "fail" => Sent(q)' # session'[x].prev
                        /\ \A k \in Jar : jar'[k].token = session'[x].prev => \E q \in Renewal : From(q)' = k /\ Yields(q, x)'
      BY DEF SpentTokensAreGone
    <3>1. S!Stands(x) /\ session' = session BY <1>1 DEF S!Stands
    <3>2. \A q \in Renewal : Busy(q)' /\ refresh'[q].req.at # "fail" => Sent(q)' # session'[x].prev
      BY <1>2, <2>1, <3>1 DEF SpentTokensAreGone, Sent, Busy
    <3>3. Sent(r) # session[x].prev BY <1>0, <1>3, <2>1, <3>1 DEF SpentTokensAreGone
    <3>4. \A k \in Jar : jar'[k].token = session'[x].prev => \E q \in Renewal : From(q)' = k /\ Yields(q, x)'
      BY <1>1, <2>1, <2>4, <3>1, <3>3 DEF SpentTokensAreGone
    <3> QED BY <3>2, <3>4
  <2>6. NewestTokenHeld'
    <3>1. \A q \in Renewal : (Knows(q) /\ S!Stands(For(q)) => Sent(q) = session[For(q)].token)'
      BY <1>1, <1>2, <2>1 DEF NewestTokenHeld, Knows, For, Sent, S!Stands
    <3>2. \A k \in Jar, x \in Session : jar'[k].access = x /\ S!Stands(x)' =>
            jar'[k].token = session'[x].token \/ \E q \in Renewal : From(q)' = k /\ Yields(q, x)'
      <4> SUFFICES ASSUME NEW k \in Jar, NEW x \in Session, jar'[k].access = x, S!Stands(x)'
                   PROVE  jar'[k].token = session'[x].token \/ \E q \in Renewal : From(q)' = k /\ Yields(q, x)'
        OBVIOUS
      <4>1. S!Stands(x) /\ session' = session BY <1>1 DEF S!Stands
      <4>2. CASE k = j
        <5>1. x = For(r) BY <1>1, <4>2
        <5> QED BY <1>1, <1>3, <2>1, <4>1, <4>2, <5>1 DEF NewestTokenHeld
      <4>3. CASE k # j BY <1>1, <2>1, <2>4, <4>1, <4>3 DEF NewestTokenHeld
      <4> QED BY <4>2, <4>3
    <3> QED BY <3>1, <3>2 DEF NewestTokenHeld
  <2> QED BY <2>2, <2>3, <2>5, <2>6
<1> QED BY <1>4, <1>5, <1>6, <1>7, <1>8 DEF SessionsInv

\* A refusal, or an answer that is lost: the request is over. A copied profile.
LEMMA OverStep ==
  ASSUME SessionsInv, S!TypeOK',
         (\E r \in Renewal : S!Refuse(r) \/ S!Lose(r)) \/ (\E j, to \in Jar : S!CopyJar(j, to))
  PROVE  SessionsInv'
<1>0. S!TypeOK BY DEF SessionsInv
<1>1. ASSUME NEW r \in Renewal, S!Refuse(r) \/ S!Lose(r) PROVE SessionsInv'
  <2>1. /\ ~Busy(r)' /\ ~Knows(r)' /\ (\A q \in Renewal : q # r => refresh'[q] = refresh[q])
        /\ Sent(r)' <= minted /\ inFlight' = inFlight \ {refresh[r].tab} /\ Busy(r)
        /\ UNCHANGED <<session, minted, jar, alarmed, spared, replaced>>
    BY <1>0, <1>1, SessionsTypes DEF S!Refuse, S!Lose, S!Settle, S!At, RefreshRow, S!Idle, Busy, Knows, Sent
  <2>2. OneRequestPerTab' BY <2>1 DEF SessionsInv, OneRequestPerTab, Busy
  <2>3. TokensAreMinted' BY <2>1 DEF SessionsInv, TokensAreMinted, Busy, Sent
  <2>4. SessionsAreBorn' BY <2>1 DEF SessionsInv, SessionsAreBorn, Knows, For
  <2>5. causes \subseteq causes' BY <1>1 DEF S!Refuse, S!Lose
  <2>6. RotationsRemembered' /\ EndsHaveCauses'
    BY <2>1, <2>5 DEF SessionsInv, RotationsRemembered, EndsHaveCauses, S!Stands
  <2>7. ASSUME Undisturbed' PROVE (OneRequestPerJar /\ TokensAreOneBrowsers /\ SpentTokensAreGone /\ NewestTokenHeld)'
    <3>1. OneRequestPerJar /\ TokensAreOneBrowsers /\ SpentTokensAreGone /\ NewestTokenHeld
      BY <2>5, <2>7 DEF SessionsInv, Undisturbed
    <3>2. refresh[r].req.at = "fail"
      BY <1>1, <2>7 DEF S!Refuse, S!Lose, S!At, Undisturbed
    <3>3. OneRequestPerJar' /\ TokensAreOneBrowsers'
      BY <2>1, <3>1 DEF OneRequestPerJar, TokensAreOneBrowsers, From, Busy, Sent
    <3>4. \A q \in Renewal, x \in Session : Yields(q, x) => Yields(q, x)' /\ From(q)' = From(q)
      BY <2>1, <3>2 DEF Yields, For, From
    <3>5. \A q \in Renewal : Busy(q)' \/ Knows(q)' => refresh'[q] = refresh[q] BY <2>1
    <3>6. SpentTokensAreGone'
      <4>1. \A x \in Session, q \in Renewal : S!Stands(x)' /\ session'[x].prev # 0 /\ Busy(q)' /\ refresh'[q].req.at # "fail"
              => Sent(q)' # session'[x].prev
        BY <2>1, <3>1, <3>5 DEF SpentTokensAreGone, Sent, Busy, S!Stands
      <4>2. \A x \in Session, k \in Jar : S!Stands(x)' /\ session'[x].prev # 0 /\ jar'[k].token = session'[x].prev
              => \E q \in Renewal : From(q)' = k /\ Yields(q, x)'
        BY <2>1, <3>1, <3>4 DEF SpentTokensAreGone, S!Stands
      <4> QED BY <4>1, <4>2 DEF SpentTokensAreGone
    <3>7. NewestTokenHeld'
      <4>1. \A q \in Renewal : (Knows(q) /\ S!Stands(For(q)) => Sent(q) = session[For(q)].token)'
        BY <2>1, <3>1, <3>5 DEF NewestTokenHeld, Knows, For, Sent, S!Stands
      <4>2. \A k \in Jar, x \in Session : jar'[k].access = x /\ S!Stands(x)' =>
              jar'[k].token = session'[x].token \/ \E q \in Renewal : From(q)' = k /\ Yields(q, x)'
        BY <2>1, <3>1, <3>4 DEF NewestTokenHeld, S!Stands
      <4> QED BY <4>1, <4>2 DEF NewestTokenHeld
    <3> QED BY <3>3, <3>6, <3>7
  <2> QED BY <2>2, <2>3, <2>4, <2>6, <2>7 DEF SessionsInv
<1>2. ASSUME NEW j \in Jar, NEW to \in Jar, S!CopyJar(j, to) PROVE SessionsInv'
  <2>1. /\ \A k \in Jar : jar'[k] = jar[k] \/ jar'[k] = jar[j]
        /\ UNCHANGED <<session, minted, inFlight, refresh, alarmed, spared, replaced>> /\ "copy" \in causes'
    BY <1>0, <1>2, SessionsTypes DEF S!CopyJar
  <2>2. OneRequestPerTab' BY <2>1 DEF SessionsInv, OneRequestPerTab, Busy
  <2>3. TokensAreMinted' BY <2>1 DEF SessionsInv, TokensAreMinted, Busy, Sent
  <2>4. SessionsAreBorn' BY <2>1 DEF SessionsInv, SessionsAreBorn, Knows, For
  <2>5. RotationsRemembered' /\ EndsHaveCauses' BY <2>1 DEF SessionsInv, RotationsRemembered, EndsHaveCauses, S!Stands
  <2>6. ~Undisturbed' BY <2>1 DEF Undisturbed
  <2> QED BY <2>2, <2>3, <2>4, <2>5, <2>6 DEF SessionsInv
<1> QED BY <1>1, <1>2

\* Together: the invariant of the sessions is inductive, whoever steps.
LEMMA SessionsStep == ASSUME SessionsInv, S!Next PROVE SessionsInv'
<1>1. S!TypeOK' BY SessionsTyped DEF SessionsInv
<1> QED BY <1>1, QuietStep, FindStep, ReuseStep, IssueStep, SendStep, RotateStep, AnswerStep, OverStep DEF S!Next, S!RefreshStep

\* A browser all of whose requests were answered has the newest token.
LEMMA NobodyDisturbed == ASSUME SessionsInv PROVE S!OneBrowserUndisturbed
<1>1. alarmed => causes # {} BY DEF SessionsInv, EndsHaveCauses
<1>2. ASSUME NEW j \in Jar, NEW s \in Session, jar[j].access = s, S!Works(s), Undisturbed,
             \A r \in Renewal : From(r) # j \/ ~Busy(r)
      PROVE  jar[j].token = session[s].token
  <2>1. \A r \in Renewal : ~(From(r) = j /\ Yields(r, s)) BY <1>2 DEF Yields, Busy
  <2> QED BY <1>2, <2>1 DEF SessionsInv, NewestTokenHeld, S!Works
<1> QED BY <1>1, <1>2 DEF S!OneBrowserUndisturbed, Undisturbed, From, Busy, S!At

\* Nothing has happened yet.
LEMMA SessionsStart == ASSUME S!Init PROVE SessionsInv
<1> USE IdentityAssumption DEF S!SessionsAssumption
<1>1. S!TypeOK
  <2>1. S!Empty \in JarState /\ S!Idle \in S!RefreshState BY DEF S!Empty, JarState, S!Idle, S!RefreshState
  <2>2. (CHOOSE t \in Tab : TRUE) \in Tab OBVIOUS
  <2>3. refresh \in [Renewal -> RefreshRow] BY <2>1, <2>2 DEF S!Init, RefreshRow
  <2>4. jar \in [Jar -> JarState] BY <2>1 DEF S!Init
  <2>5. minted \in 0 .. MaxTokens /\ acts \in 0 .. MaxActs BY DEF S!Init
  <2> QED BY <2>3, <2>4, <2>5 DEF S!TypeOK, S!Init, JarState, RefreshRow
<1>2. \A r \in Renewal : refresh[r].req.at = "idle" /\ refresh[r].req.token = 0 BY DEF S!Init, S!Idle
<1>3. \A j \in Jar : jar[j].token = 0 /\ jar[j].access = NoSession BY DEF S!Init, S!Empty
<1>4. \A s \in Session : session[s] = S!Unborn /\ session[s].token = 0 /\ session[s].prev = 0 /\ ~S!Stands(s)
  BY DEF S!Init, S!Unborn, S!Stands
<1>5. minted = 0 /\ ~alarmed /\ causes = {} /\ \A s \in Session : replaced[s] = 0 BY DEF S!Init
<1>6. OneRequestPerTab /\ OneRequestPerJar /\ TokensAreOneBrowsers BY <1>2, <1>3 DEF OneRequestPerTab, OneRequestPerJar, TokensAreOneBrowsers, Busy
<1>7. TokensAreMinted /\ SessionsAreBorn BY <1>2, <1>3, <1>4, <1>5 DEF TokensAreMinted, SessionsAreBorn, Busy, Sent, Knows
<1>8. RotationsRemembered /\ EndsHaveCauses BY <1>4, <1>5 DEF RotationsRemembered, EndsHaveCauses
<1>9. SpentTokensAreGone /\ NewestTokenHeld BY <1>2, <1>3, <1>4 DEF SpentTokensAreGone, NewestTokenHeld, Knows
<1> QED BY <1>1, <1>6, <1>7, <1>8, <1>9 DEF SessionsInv

-----------------------------------------------------------------------------
(***************************************************************************)
(* Sessions implement SessionLife: one is opened, some end, some are forgotten, or       *)
(* nothing that SessionLife knows of happens.                                    *)
(***************************************************************************)
Fate(s) == IF session[s] = S!Unborn THEN "unborn" ELSE IF session[s] = S!Gone THEN "gone"
           ELSE IF session[s].revoked THEN "ended" ELSE "live"
Fates == [s \in Session |-> Fate(s)]

\* Some sessions that live are ended, the others are as they were.
LEMMA LifeEnds ==
  ASSUME S!TypeOK, NEW some, session' = S!Ended(some)
  PROVE  S!Life!Next
<1>0. PICK those \in SUBSET Session : those = {s \in Session : s \in some /\ Fate(s) = "live"} OBVIOUS
<1>1. \A s \in Session : S!Stands(s) => session[s] \in S!Row BY RowsHaveTokens
<1>2. \A s \in those : Fate(s)' = "ended"
  <2> SUFFICES ASSUME NEW s \in those PROVE Fate(s)' = "ended" OBVIOUS
  <2>1. S!Stands(s) /\ s \in Session /\ s \in some BY <1>0 DEF Fate, S!Stands
  <2>2. session'[s] = [session[s] EXCEPT !.revoked = TRUE] BY <2>1 DEF S!Ended
  <2>3. session'[s].token = session[s].token /\ session'[s].revoked = TRUE BY <1>1, <2>1, <2>2 DEF S!Row
  <2>4. session[s].token # 0 BY <2>1, RowsHaveTokens
  <2> QED BY <2>3, <2>4 DEF Fate, S!Unborn, S!Gone
<1>3. \A s \in Session \ those : Fate(s)' = Fate(s)
  <2> SUFFICES ASSUME NEW s \in Session, s \notin those PROVE Fate(s)' = Fate(s) OBVIOUS
  <2>1. CASE s \in some /\ S!Stands(s)
    <3>1. session[s].revoked = TRUE /\ session[s] \in S!Row BY <1>0, <1>1, <2>1 DEF Fate, S!Stands, S!Row
    <3>2. session'[s] = session[s] BY <2>1, <3>1 DEF S!Ended, S!Row
    <3> QED BY <3>2 DEF Fate
  <2>2. CASE ~(s \in some /\ S!Stands(s))
    <3>1. session'[s] = session[s] BY <2>2 DEF S!Ended
    <3> QED BY <3>1 DEF Fate
  <2> QED BY <2>1, <2>2
<1>4. S!Life!End(those) BY <1>0, <1>2, <1>3 DEF S!Life!End, S!Life!Become, Fate
<1> QED BY <1>4 DEF S!Life!Next

\* Some sessions that stand are forgotten, the others are as they were.
LEMMA LifeForgets ==
  ASSUME NEW those \in SUBSET Session, \A s \in those : S!Stands(s),
         \A s \in Session : session'[s] = IF s \in those THEN S!Gone ELSE session[s]
  PROVE  S!Life!Next
<1>1. \A s \in those : Fate(s) \in {"live", "ended"} /\ Fate(s)' = "gone" BY UnbornIsNotGone DEF Fate, S!Stands
<1>2. \A s \in Session \ those : Fate(s)' = Fate(s) BY DEF Fate
<1>3. S!Life!Forget(those) BY <1>1, <1>2 DEF S!Life!Forget, S!Life!Become, Fate
<1> QED BY <1>3 DEF S!Life!Next

\* A step that changes neither who stands nor who was ended.
LEMMA LifeStays ==
  ASSUME \A s \in Session : \/ session'[s] = session[s]
                            \/ S!Stands(s) /\ S!Stands(s)' /\ session'[s].revoked = session[s].revoked
  PROVE  Fates' = Fates
<1>1. \A s \in Session : Fate(s)' = Fate(s) BY DEF Fate, S!Stands
<1> QED BY <1>1 DEF Fates

\* Every step of the sessions is one of these.
LEMMA LifeStep == ASSUME SessionsInv, S!TypeOK', S!Next PROVE S!Life!Next \/ Fates' = Fates
<1>0. S!TypeOK BY DEF SessionsInv
<1>1. ASSUME session' = session PROVE Fates' = Fates BY <1>1, LifeStays
<1>2. ASSUME NEW j \in Jar, NEW s \in Session, S!IssueSession(j, s) PROVE S!Life!Next
  <2>1. session[s] = S!Unborn /\ session' = [session EXCEPT ![s] = [token |-> minted + 1, prev |-> 0, revoked |-> FALSE, expired |-> FALSE]]
    BY <1>2 DEF S!IssueSession
  <2>2. session'[s].token = minted + 1 /\ session'[s].revoked = FALSE /\ minted + 1 # 0 BY <1>0, <2>1, SessionsTypes
  <2>3. Fate(s) = "unborn" /\ Fate(s)' = "live" BY <2>1, <2>2 DEF Fate, S!Unborn, S!Gone
  <2>4. \A q \in Session \ {s} : Fate(q)' = Fate(q) BY <2>1 DEF Fate
  <2>5. S!Life!Open(s) BY <2>3, <2>4 DEF S!Life!Open, S!Life!Become, Fate
  <2> QED BY <2>5 DEF S!Life!Next
<1>3. ASSUME NEW s \in Session, S!SessionExpires(s) PROVE Fates' = Fates
  <2>1. session[s] \in S!Row /\ session' = [session EXCEPT ![s].expired = TRUE] /\ S!Stands(s)
    BY <1>0, <1>3, RowsHaveTokens DEF S!SessionExpires
  <2>2. session'[s].token = session[s].token /\ session'[s].revoked = session[s].revoked BY <1>0, <2>1, SessionsTypes DEF S!Row
  <2>3. session[s].token # 0 BY <1>0, <2>1, RowsHaveTokens
  <2>4. S!Stands(s)' BY <2>2, <2>3 DEF S!Stands, S!Unborn, S!Gone
  <2> QED BY <2>1, <2>2, <2>4, LifeStays
<1>4. ASSUME S!PruneExpiredSessions PROVE S!Life!Next
  <2>1. PICK old \in SUBSET {s \in Session : S!Stands(s) /\ session[s].revoked} :
          session' = [s \in Session |-> IF s \in old \/ (S!Stands(s) /\ session[s].expired) THEN S!Gone ELSE session[s]]
    BY <1>4 DEF S!PruneExpiredSessions
  <2> DEFINE those == {s \in Session : s \in old \/ (S!Stands(s) /\ session[s].expired)}
  <2>2. those \in SUBSET Session /\ \A s \in those : S!Stands(s) OBVIOUS
  <2>3. \A s \in Session : session'[s] = IF s \in those THEN S!Gone ELSE session[s] BY <2>1
  <2> QED BY <2>2, <2>3, LifeForgets
<1>5. ASSUME NEW r \in Renewal, S!Find(r) PROVE S!Life!Next \/ Fates' = Fates
  <2>1. CASE session' = session BY <1>1, <2>1
  <2>2. CASE session' = S!Ended(S!Live) BY <1>0, <2>2, LifeEnds
  <2>3. ASSUME NEW s \in Session, S!Stands(s), session' = [session EXCEPT ![s] = S!Gone] PROVE S!Life!Next
    <3>1. {s} \in SUBSET Session /\ \A q \in {s} : S!Stands(q) BY <2>3
    <3>2. \A q \in Session : session'[q] = IF q \in {s} THEN S!Gone ELSE session[q] BY <1>0, <2>3, SessionsTypes
    <3> QED BY <3>1, <3>2, LifeForgets
  <2> QED BY <1>5, <2>1, <2>2, <2>3 DEF S!Find, S!Reused, S!Holding
<1>6. ASSUME NEW r \in Renewal, S!HandleTokenReuse(r) PROVE S!Life!Next \/ Fates' = Fates
  BY <1>0, <1>1, <1>6, LifeEnds DEF S!HandleTokenReuse, S!Reused
<1>7. ASSUME NEW r \in Renewal, S!Rotate(r) PROVE Fates' = Fates
  <2> DEFINE s == refresh[r].req.sid
  <2>1. CASE session' = session BY <1>1, <2>1
  <2>2. CASE /\ S!Stands(s) /\ minted < MaxTokens
             /\ session' = [session EXCEPT ![s] = S!Rotated(@, refresh[r].req.token)]
    <3>1. s \in Session => session[s] \in S!Row BY <1>0, <2>2, RowsHaveTokens
    <3>2. s \in Session => session'[s].token = minted + 1 /\ session'[s].revoked = session[s].revoked
      BY <1>0, <2>2, <3>1, SessionsTypes DEF S!Rotated, S!Row
    <3>3. minted + 1 # 0 BY <1>0, SessionsTypes
    <3>4. s \in Session => session'[s] # S!Unborn /\ session'[s] # S!Gone BY <3>2, <3>3 DEF S!Unborn, S!Gone
    <3>5. \A q \in Session : q # s => session'[q] = session[q] BY <1>0, <2>2, SessionsTypes
    <3>6. \A q \in Session : session'[q] = session[q] \/ (S!Stands(q) /\ S!Stands(q)' /\ session'[q].revoked = session[q].revoked)
      <4> TAKE q \in Session
      <4>1. CASE q = s BY <2>2, <3>2, <3>4, <4>1 DEF S!Stands
      <4>2. CASE q # s BY <3>5, <4>2
      <4> QED BY <4>1, <4>2
    <3> HIDE DEF s
    <3> QED BY <3>6, LifeStays
  <2> QED BY <1>7, <2>1, <2>2 DEF S!Rotate
<1>8. ASSUME (\E j \in Jar : S!Logout(j) \/ S!RevokeOthers(j) \/ (\E s \in Session : S!RevokeSession(j, s))) \/ S!RevokeAll
      PROVE  S!Life!Next
  BY <1>0, <1>8, LifeEnds DEF S!Logout, S!RevokeOthers, S!RevokeSession, S!RevokeAll
<1>9. ASSUME (\E j \in Jar : S!AccessExpires(j) \/ (\E to \in Jar : S!CopyJar(j, to))) \/ (\E t \in Tab : S!RefreshSession(t))
             \/ (\E r \in Renewal : S!Answer(r) \/ S!Refuse(r) \/ S!Lose(r))
      PROVE  session' = session
  BY <1>9 DEF S!AccessExpires, S!CopyJar, S!RefreshSession, S!Answer, S!Refuse, S!Lose
<1> QED BY <1>1, <1>2, <1>3, <1>4, <1>5, <1>6, <1>7, <1>8, <1>9 DEF S!Next, S!RefreshStep

\* A request that presents a token its session was rotated away from is dealt with, and
\* then nothing works.
LEMMA ReplayStep ==
  ASSUME SessionsInv, S!TypeOK', S!Next, NEW r \in Renewal, NEW s \in Session,
         S!At(r, "reuse"), ~S!At(r, "reuse")', S!Stands(s), replaced[s] = refresh[r].req.token
  PROVE  \A q \in Session : ~S!Works(q)'
<1>0. S!TypeOK /\ refresh \in [Renewal -> RefreshRow] BY SessionsTypes DEF SessionsInv
<1>1. S!HandleTokenReuse(r)
  <2>1. ASSUME NEW q \in Renewal, q # r, \A p \in Renewal : p # q => refresh'[p] = refresh[p] PROVE FALSE
    BY <2>1 DEF S!At
  <2>2. refresh' # refresh BY DEF S!At
  <2>3. ASSUME NEW t \in Tab, S!RefreshSession(t) PROVE FALSE
    <3>1. PICK q \in Renewal : S!At(q, "idle") /\ \A p \in Renewal : p # q => refresh'[p] = refresh[p]
      BY <1>0, <2>3 DEF S!RefreshSession
    <3> QED BY <2>1, <3>1 DEF S!At
  <2>4. ASSUME NEW q \in Renewal, S!Find(q) \/ S!Rotate(q) \/ S!Answer(q) \/ S!Refuse(q) \/ S!Lose(q) PROVE FALSE
    <3>1. ~S!At(q, "reuse") BY <2>4 DEF S!Find, S!Rotate, S!Answer, S!Refuse, S!Lose, S!At
    <3>2. \A p \in Renewal : p # q => refresh'[p] = refresh[p]
      BY <1>0, <2>4 DEF S!Find, S!Rotate, S!Answer, S!Refuse, S!Lose, S!Settle, S!Go
    <3> QED BY <2>1, <3>1, <3>2
  <2>5. ASSUME NEW q \in Renewal, S!HandleTokenReuse(q) PROVE q = r
    <3>1. \A p \in Renewal : p # q => refresh'[p] = refresh[p] BY <1>0, <2>5 DEF S!HandleTokenReuse, S!Go
    <3> QED BY <2>1, <3>1
  <2>6. ASSUME S!RevokeAll \/ S!PruneExpiredSessions \/ (\E q \in Session : S!SessionExpires(q))
               \/ \E j \in Jar : \/ S!AccessExpires(j) \/ S!Logout(j) \/ S!RevokeOthers(j)
                                 \/ \E q \in Session : S!IssueSession(j, q) \/ S!RevokeSession(j, q)
                                 \/ \E to \in Jar : S!CopyJar(j, to)
        PROVE  FALSE
    BY <2>2, <2>6 DEF S!RevokeAll, S!PruneExpiredSessions, S!SessionExpires, S!AccessExpires, S!Logout, S!RevokeOthers,
                      S!IssueSession, S!RevokeSession, S!CopyJar
  <2> QED BY <2>3, <2>4, <2>5, <2>6 DEF S!Next, S!RefreshStep
<1>2. Sent(r) # 0 BY DEF SessionsInv, TokensAreMinted, Busy, S!At
<1>3. s \in S!Held(refresh[r].req.token) BY <1>2 DEF S!Held, SessionsInv, RotationsRemembered, Sent
<1>4. session' = S!Ended(S!Live) BY <1>1, <1>3 DEF S!HandleTokenReuse, S!Reused
<1>5. ASSUME NEW q \in Session, S!Stands(q) PROVE session'[q].revoked = TRUE
  <2>1. session[q] \in S!Row BY <1>0, <1>5, RowsHaveTokens
  <2>2. CASE session[q].revoked = TRUE BY <1>4, <2>1, <2>2 DEF S!Ended, S!Row
  <2>3. CASE session[q].revoked # TRUE
    <3>1. q \in S!Live BY <1>5, <2>1, <2>3 DEF S!Live, S!Row
    <3> QED BY <1>4, <1>5, <2>1, <3>1 DEF S!Ended, S!Row
  <2> QED BY <2>2, <2>3
<1>6. \A q \in Session : ~S!Stands(q) => session'[q] = session[q] BY <1>4 DEF S!Ended
<1> QED BY <1>5, <1>6 DEF S!Works, S!Stands

-----------------------------------------------------------------------------
(***************************************************************************)
(* One account: its types, and what a step does to the request that takes it.          *)
(***************************************************************************)
AccountRequest == [at : A!Steps, id : 0 .. MaxRequests, kind : A!Kinds, typed : A!Number,
                   code : A!Codes, read : A!Factor, weak : BOOLEAN, link : Link]

LEMMA AccountTypes ==
  ASSUME A!TypeOK
  PROVE  /\ password \in [v : A!Number, weak : BOOLEAN] /\ factor \in A!Factor /\ spent \subseteq A!Number
         /\ throttle \in [count : Nat, ends : BOOLEAN] /\ opened \in [Request -> A!Number]
         /\ link \in [Link -> {"unsent", "sent", "used", "late"}]
         /\ request \in [Request -> AccountRequest] /\ asked \in 0 .. MaxRequests /\ confirmed \in A!Number
         /\ uses \subseteq A!Codes \X (1 .. MaxRequests)
         /\ crossings \subseteq {"setup", "opening", "halted", "printed", "rehash", "link", "stranded"}
         /\ MaxSets \in Nat \ {0} /\ MaxRequests \in Nat /\ MaxAttempts \in Nat \ {0} /\ Link # {}
BY IdentityAssumption DEF A!TypeOK, AccountRequest, A!AccountAssumption

LEMMA AccountTypedBy ==
  ASSUME password' \in [v : A!Number, weak : BOOLEAN], factor' \in A!Factor, spent' \subseteq A!Number,
         throttle' \in [count : Nat, ends : BOOLEAN], opened' \in [Request -> A!Number],
         link' \in [Link -> {"unsent", "sent", "used", "late"}],
         request' \in [Request -> AccountRequest], asked' \in 0 .. MaxRequests, confirmed' \in A!Number,
         uses' \subseteq A!Codes \X (1 .. MaxRequests),
         crossings' \subseteq {"setup", "opening", "halted", "printed", "rehash", "link", "stranded"}
  PROVE  A!TypeOK'
BY DEF A!TypeOK, AccountRequest

\* A request that waits for nothing.
LEMMA IdleAccount ==
  ASSUME A!TypeOK
  PROVE  A!Idle \in AccountRequest /\ A!Idle.at = "idle" /\ A!Idle.id = 0 /\ A!Idle.kind = "login" /\ A!NoFactor \in A!Factor
<1>1. (CHOOSE l \in Link : TRUE) \in Link BY AccountTypes
<1>2. A!NoFactor \in A!Factor BY AccountTypes DEF A!NoFactor, A!Factor, A!Number
<1>3. A!NoCode \in A!Codes BY DEF A!Codes
<1>4. "idle" \in A!Steps /\ "login" \in A!Kinds /\ 0 \in 0 .. MaxRequests /\ 0 \in A!Number
  BY AccountTypes DEF A!Steps, A!Kinds, A!Number
<1> QED BY <1>1, <1>2, <1>3, <1>4 DEF A!Idle, AccountRequest

\* One that goes on, and keeps what it knows.
LEMMA AccountGoes ==
  ASSUME A!TypeOK, NEW r \in Request, NEW at \in A!Steps, A!Go(r, at)
  PROVE  /\ request' \in [Request -> AccountRequest]
         /\ request'[r].at = at /\ request'[r].id = request[r].id /\ request'[r].kind = request[r].kind
         /\ request'[r].typed = request[r].typed /\ request'[r].code = request[r].code /\ request'[r].read = request[r].read
         /\ \A q \in Request : q # r => request'[q] = request[q]
<1>1. request \in [Request -> AccountRequest] BY AccountTypes
<1>2. request'[r] = [request[r] EXCEPT !.at = at] BY <1>1 DEF A!Go
<1>3. request[r] \in AccountRequest BY <1>1
<1>4. request'[r] \in AccountRequest BY <1>2, <1>3 DEF AccountRequest
<1>5. \A q \in Request : q # r => request'[q] = request[q] BY <1>1 DEF A!Go
<1>6. request' \in [Request -> AccountRequest] BY <1>1, <1>4, <1>5 DEF A!Go
<1> QED BY <1>2, <1>3, <1>5, <1>6 DEF AccountRequest

\* One that is over.
LEMMA AccountDone ==
  ASSUME A!TypeOK, NEW r \in Request, A!Done(r)
  PROVE  /\ request' \in [Request -> AccountRequest] /\ request'[r].at = "idle" /\ RequestSound(r)'
         /\ \A q \in Request : q # r => request'[q] = request[q]
<1>1. request \in [Request -> AccountRequest] BY AccountTypes
<1>2. request'[r] = A!Idle BY <1>1 DEF A!Done
<1>3. request' \in [Request -> AccountRequest] BY <1>1, <1>2, IdleAccount DEF A!Done
<1>4. \A q \in Request : q # r => request'[q] = request[q] BY <1>1 DEF A!Done
<1>5. request'[r].at = "idle" BY <1>2, IdleAccount
<1> QED BY <1>3, <1>4, <1>5 DEF RequestSound, A!At

\* One that is made.
LEMMA AccountBegun ==
  ASSUME A!TypeOK, NEW r \in Request, NEW asking \in AccountRequest, A!Begin(r, asking)
  PROVE  /\ request' \in [Request -> AccountRequest] /\ asked' \in 0 .. MaxRequests /\ A!At(r, "idle")
         /\ request'[r].id >= 1 /\ request'[r].at = asking.at /\ request'[r].kind = asking.kind
         /\ request'[r].code = asking.code /\ request'[r].read = asking.read
         /\ \A q \in Request : q # r => request'[q] = request[q]
<1>1. request \in [Request -> AccountRequest] /\ asked \in 0 .. MaxRequests /\ MaxRequests \in Nat BY AccountTypes
<1>2. asked + 1 \in 0 .. MaxRequests /\ asked' = asked + 1 BY <1>1 DEF A!Begin
<1>3. request'[r] = [asking EXCEPT !.id = asked + 1] BY <1>1 DEF A!Begin
<1>4. request'[r] \in AccountRequest /\ request'[r].id = asked + 1 BY <1>2, <1>3 DEF AccountRequest
<1>5. \A q \in Request : q # r => request'[q] = request[q] BY <1>1 DEF A!Begin
<1>6. request' \in [Request -> AccountRequest] BY <1>1, <1>4, <1>5 DEF A!Begin
<1>7. request'[r].at = asking.at /\ request'[r].kind = asking.kind /\ request'[r].code = asking.code /\ request'[r].read = asking.read
  BY <1>3 DEF AccountRequest
<1> QED BY <1>1, <1>2, <1>4, <1>5, <1>6, <1>7 DEF A!Begin

(***************************************************************************)
(* What a step leaves alone. Each part of the invariant has its own condition, so that    *)
(* a step that does more than go on argues for the part it disturbs.                 *)
(***************************************************************************)
OnlyOne(r) == \A q \in Request : q # r => request'[q] = request[q]

PasswordStays ==
  /\ password'.v = password.v /\ crossings \subseteq crossings'
  /\ \A q \in Request : opened'[q] \in {0, password.v, opened[q]} /\ (A!At(q, "revoke") => A!At(q, "revoke")')

CodesStay ==
  /\ uses' = uses /\ spent \subseteq spent' /\ crossings \subseteq crossings'
  /\ factor'.list = factor.list /\ factor'.codes \subseteq factor.codes

SecretStays ==
  /\ confirmed' = confirmed /\ factor'.secret = factor.secret /\ (factor'.enabled => factor.enabled)
  /\ crossings \subseteq crossings'
  /\ \A q \in Request : request'[q].at \in {"confirm", "enable", "renew"} =>
       request'[q].at = request[q].at /\ request'[q].read = request[q].read

CountStays ==
  /\ throttle' = throttle /\ crossings \subseteq crossings'
  /\ \A q \in Request : A!At(q, "expire") => A!At(q, "expire")'

UsedOnce == \A u, w \in uses : u[1] = w[1] => u = w \/ (u[1][1] = "printed" /\ "printed" \in crossings)

LEMMA PasswordKept == ASSUME OldPasswordLeaving, PasswordStays PROVE OldPasswordLeaving'
BY DEF OldPasswordLeaving, PasswordStays

LEMMA CodesKept == ASSUME UsedCodesSpent, UsedOnce, CodesStay PROVE UsedCodesSpent' /\ UsedOnce'
BY DEF UsedCodesSpent, UsedOnce, CodesStay

LEMMA SecretKept == ASSUME EnrolmentsApart, SecretStays PROVE EnrolmentsApart'
<1>1. SUFFICES ASSUME "setup" \notin crossings' PROVE EnrolmentsApart' BY DEF EnrolmentsApart
<1>2. "setup" \notin crossings BY <1>1 DEF SecretStays
<1> QED BY <1>2 DEF EnrolmentsApart, SecretStays

LEMMA CountKept == ASSUME A!LockoutEnds, CountStays PROVE A!LockoutEnds'
BY DEF A!LockoutEnds, CountStays

\* The parts together: that an enabled factor is a proved one follows.
LEMMA AccountParts ==
  ASSUME A!TypeOK', RequestsSound', OldPasswordLeaving', UsedCodesSpent', UsedOnce', EnrolmentsApart', A!LockoutEnds'
  PROVE  AccountInv'
<1>1. A!FactorSound' BY DEF A!FactorSound, UsedOnce, EnrolmentsApart
<1> QED BY <1>1 DEF AccountInv, FactorSound

LEMMA AccountHas ==
  ASSUME AccountInv
  PROVE  /\ A!TypeOK /\ RequestsSound /\ OldPasswordLeaving /\ UsedCodesSpent /\ UsedOnce /\ EnrolmentsApart /\ A!LockoutEnds
         /\ password.v \in Nat /\ password.v >= 1 /\ \A r \in Request : RequestSound(r)
BY AccountTypes DEF AccountInv, FactorSound, A!FactorSound, UsedOnce, RequestsSound, A!Number

\* The requests that did not step are as sound as they were.
LEMMA OthersSound ==
  ASSUME RequestsSound, NEW r \in Request, OnlyOne(r), password'.v \in Nat, password'.v >= 1, RequestSound(r)'
  PROVE  RequestsSound'
<1>1. \A q \in Request : q # r => RequestSound(q)' BY DEF RequestsSound, RequestSound, OnlyOne, A!At
<1> QED BY <1>1 DEF RequestsSound

-----------------------------------------------------------------------------
\* Requests are made.
LEMMA AskStep == ASSUME AccountInv, NEW r \in Request, A!Ask(r) PROVE AccountInv'
<1> USE AccountHas, AccountTypes
<1>0. A!Idle \in AccountRequest /\ A!NoFactor \in A!Factor BY IdleAccount
<1>1. ASSUME NEW asking \in AccountRequest, A!Begin(r, asking), asking.at \in {"verify", "change", "reset", "setup", "factor", "disable"},
             asking.at = "verify" => asking.kind = "login", asking.at = "factor" => asking.kind = "disable",
             UNCHANGED <<password, factor, spent, throttle, link, opened, confirmed, uses, crossings>>
      PROVE  AccountInv'
  <2>1. /\ request' \in [Request -> AccountRequest] /\ asked' \in 0 .. MaxRequests /\ A!At(r, "idle") /\ OnlyOne(r)
        /\ request'[r].id >= 1 /\ request'[r].at = asking.at /\ request'[r].kind = asking.kind
    BY <1>1, AccountBegun DEF OnlyOne
  <2>2. A!TypeOK' BY <1>1, <2>1, AccountTypedBy
  <2>3. RequestSound(r)' BY <1>1, <2>1 DEF RequestSound, A!At
  <2>4. RequestsSound' BY <1>1, <2>1, <2>3, OthersSound
  <2>5. PasswordStays /\ CodesStay /\ CountStays
    BY <1>1, <2>1 DEF PasswordStays, CodesStay, CountStays, OnlyOne, A!At
  <2>6. SecretStays BY <1>1, <2>1 DEF SecretStays, OnlyOne
  <2> QED BY <2>2, <2>4, <2>5, <2>6, PasswordKept, CodesKept, SecretKept, CountKept, AccountParts
<1>2. CASE A!AssertNotLockedOut(r)
  <2>1. PICK typed \in {password.v, password.v - 1}, code \in
          {A!NoCode, <<"totp", factor.secret>>} \cup {<<"printed", c>> : c \in factor.codes} :
          A!Begin(r, [A!Idle EXCEPT !.at = "verify", !.typed = typed, !.code = code])
    BY <1>2 DEF A!AssertNotLockedOut
  <2>2. typed \in A!Number BY DEF A!Number
  <2>3. code \in A!Codes BY DEF A!Codes, A!Factor
  <2>4. [A!Idle EXCEPT !.at = "verify", !.typed = typed, !.code = code] \in AccountRequest
    BY <1>0, <2>2, <2>3 DEF AccountRequest, A!Steps
  <2>5. /\ [A!Idle EXCEPT !.at = "verify", !.typed = typed, !.code = code].at = "verify"
        /\ [A!Idle EXCEPT !.at = "verify", !.typed = typed, !.code = code].kind = "login"
    BY <1>0, IdleAccount DEF AccountRequest
  <2> QED BY <1>1, <1>2, <2>1, <2>4, <2>5 DEF A!AssertNotLockedOut
<1>3. CASE A!AskChange(r) \/ A!AdminPassword(r)
  <2>1. [A!Idle EXCEPT !.at = "change", !.kind = "change"] \in AccountRequest
    BY <1>0 DEF AccountRequest, A!Steps, A!Kinds
  <2>2. [A!Idle EXCEPT !.at = "change", !.kind = "change"].at = "change" BY <1>0 DEF AccountRequest
  <2> QED BY <1>1, <1>3, <2>1, <2>2 DEF A!AskChange, A!AdminPassword
<1>4. CASE \E l \in Link : A!AskReset(r, l)
  <2>1. PICK l \in Link : A!AskReset(r, l) BY <1>4
  <2>2. [A!Idle EXCEPT !.at = "reset", !.kind = "reset", !.link = l] \in AccountRequest
    BY <1>0 DEF AccountRequest, A!Steps, A!Kinds
  <2>3. [A!Idle EXCEPT !.at = "reset", !.kind = "reset", !.link = l].at = "reset" BY <1>0 DEF AccountRequest
  <2> QED BY <1>1, <2>1, <2>2, <2>3 DEF A!AskReset
<1>5. CASE A!AskSetup(r)
  <2>1. [A!Idle EXCEPT !.at = "setup", !.kind = "setup", !.read = factor] \in AccountRequest
    BY <1>0 DEF AccountRequest, A!Steps, A!Kinds
  <2>2. [A!Idle EXCEPT !.at = "setup", !.kind = "setup", !.read = factor].at = "setup" BY <1>0 DEF AccountRequest
  <2> QED BY <1>1, <1>5, <2>1, <2>2 DEF A!AskSetup
<1>6. CASE A!AskDisable(r)
  <2>1. PICK code \in {<<"totp", factor.secret>>} \cup {<<"printed", c>> : c \in factor.codes} :
          A!Begin(r, [A!Idle EXCEPT !.at = "factor", !.kind = "disable", !.code = code])
    BY <1>6 DEF A!AskDisable
  <2>2. code \in A!Codes BY DEF A!Codes, A!Factor
  <2>3. [A!Idle EXCEPT !.at = "factor", !.kind = "disable", !.code = code] \in AccountRequest
    BY <1>0, <2>2 DEF AccountRequest, A!Steps, A!Kinds
  <2>4. /\ [A!Idle EXCEPT !.at = "factor", !.kind = "disable", !.code = code].at = "factor"
        /\ [A!Idle EXCEPT !.at = "factor", !.kind = "disable", !.code = code].kind = "disable"
    BY <1>0 DEF AccountRequest
  <2> QED BY <1>1, <1>6, <2>1, <2>3, <2>4 DEF A!AskDisable
<1>7. CASE A!AdminDisable(r)
  <2>1. [A!Idle EXCEPT !.at = "disable", !.kind = "disable"] \in AccountRequest
    BY <1>0 DEF AccountRequest, A!Steps, A!Kinds
  <2>2. [A!Idle EXCEPT !.at = "disable", !.kind = "disable"].at = "disable" BY <1>0 DEF AccountRequest
  <2> QED BY <1>1, <1>7, <2>1, <2>2 DEF A!AdminDisable
<1>8. CASE A!AskEnable(r)
  <2>1. PICK shown \in 1 .. factor.secret :
          A!Begin(r, [A!Idle EXCEPT !.at = "confirm", !.kind = "enable", !.code = <<"totp", shown>>, !.read = factor])
    BY <1>8 DEF A!AskEnable
  <2> DEFINE asking == [A!Idle EXCEPT !.at = "confirm", !.kind = "enable", !.code = <<"totp", shown>>, !.read = factor]
  <2>2. shown \in A!Number BY DEF A!Factor, A!Number
  <2>3. asking \in AccountRequest BY <1>0, <2>2 DEF AccountRequest, A!Steps, A!Kinds, A!Codes
  <2>4. asking.at = "confirm" /\ asking.kind = "enable" /\ asking.code = <<"totp", shown>> /\ asking.read = factor
    BY <1>0 DEF AccountRequest
  <2>0. A!Begin(r, asking) BY <2>1
  <2> HIDE DEF asking
  <2>5. /\ request' \in [Request -> AccountRequest] /\ asked' \in 0 .. MaxRequests /\ A!At(r, "idle") /\ OnlyOne(r)
        /\ request'[r].id >= 1 /\ request'[r].at = "confirm" /\ request'[r].kind = "enable"
        /\ request'[r].code = <<"totp", shown>> /\ request'[r].read = factor
    BY <2>0, <2>3, <2>4, AccountBegun DEF OnlyOne
  <2>6. UNCHANGED <<password, factor, spent, throttle, link, opened, confirmed, uses, crossings>> BY <1>8 DEF A!AskEnable
  <2>7. A!TypeOK' BY <2>5, <2>6, AccountTypedBy
  <2>8. RequestSound(r)' BY <2>2, <2>5 DEF RequestSound, A!At
  <2>9. RequestsSound' BY <2>5, <2>6, <2>8, OthersSound
  <2>10. PasswordStays /\ CodesStay /\ CountStays
    BY <2>5, <2>6 DEF PasswordStays, CodesStay, CountStays, OnlyOne, A!At
  <2>11. EnrolmentsApart' BY <2>5, <2>6 DEF EnrolmentsApart, OnlyOne
  <2> QED BY <2>7, <2>9, <2>10, <2>11, PasswordKept, CodesKept, CountKept, AccountParts
<1>9. CASE A!AskRenew(r)
  <2> DEFINE asking == [A!Idle EXCEPT !.at = "renew", !.kind = "renew"]
  <2>1. asking \in AccountRequest /\ asking.at = "renew" /\ asking.kind = "renew"
    BY <1>0 DEF AccountRequest, A!Steps, A!Kinds
  <2>2. /\ request' \in [Request -> AccountRequest] /\ asked' \in 0 .. MaxRequests /\ A!At(r, "idle") /\ OnlyOne(r)
        /\ request'[r].id >= 1 /\ request'[r].at = "renew" /\ request'[r].kind = "renew"
    BY <1>9, <2>1, AccountBegun DEF OnlyOne, A!AskRenew
  <2>3. factor.enabled /\ UNCHANGED <<password, factor, spent, throttle, link, opened, confirmed, uses, crossings>>
    BY <1>9 DEF A!AskRenew
  <2>4. A!TypeOK' BY <2>2, <2>3, AccountTypedBy
  <2>5. RequestSound(r)' BY <2>2 DEF RequestSound, A!At
  <2>6. RequestsSound' BY <2>2, <2>3, <2>5, OthersSound
  <2>7. PasswordStays /\ CodesStay /\ CountStays
    BY <2>2, <2>3 DEF PasswordStays, CodesStay, CountStays, OnlyOne, A!At
  <2>8. EnrolmentsApart' BY <2>2, <2>3 DEF EnrolmentsApart, OnlyOne
  <2> QED BY <2>4, <2>6, <2>7, <2>8, PasswordKept, CodesKept, CountKept, AccountParts
<1> QED BY <1>2, <1>3, <1>4, <1>5, <1>6, <1>7, <1>8, <1>9 DEF A!Ask

\* The request that steps is sound, is in no enrolment, and was about to end neither sessions
\* nor a count.
GoesOnSoundly(r) ==
  /\ request' \in [Request -> AccountRequest] /\ OnlyOne(r) /\ RequestSound(r)'
  /\ ~A!At(r, "revoke") /\ ~A!At(r, "expire")
  /\ request'[r].at \notin {"confirm", "enable", "renew"}

\* Signing in, up to the code: nothing is written.
LEMMA SignInStep ==
  ASSUME AccountInv, NEW r \in Request, A!Verify(r) \/ A!ReadFactor(r) \/ A!RejectedCode(r)
  PROVE  AccountInv'
<1> USE AccountHas, AccountTypes
<1>1. UNCHANGED <<password, factor, spent, throttle, link, opened, asked, confirmed, uses, crossings>>
  BY DEF A!Verify, A!ReadFactor, A!RejectedCode
<1>2. GoesOnSoundly(r)
  <2>0. request[r] \in AccountRequest OBVIOUS
  <2>1. ASSUME A!Done(r), A!At(r, "verify") \/ A!At(r, "fail") PROVE GoesOnSoundly(r)
    BY <2>1, AccountDone DEF GoesOnSoundly, OnlyOne, A!At
  <2>2. ASSUME A!At(r, "verify"), request[r].typed = password.v, NEW at \in {"fail", "open", "rehash"}, A!Go(r, at) PROVE GoesOnSoundly(r)
    <3>1. at \in A!Steps /\ request[r].id >= 1 /\ request[r].kind = "login" BY <2>2 DEF A!Steps, RequestSound, A!At
    <3> QED BY <2>2, <3>1, AccountGoes DEF GoesOnSoundly, OnlyOne, A!At, RequestSound
  <2>3. ASSUME A!At(r, "verify"), A!Go(r, "fail") PROVE GoesOnSoundly(r)
    <3>1. "fail" \in A!Steps /\ request[r].id >= 1 BY <2>3 DEF A!Steps, RequestSound, A!At
    <3> QED BY <2>3, <3>1, AccountGoes DEF GoesOnSoundly, OnlyOne, A!At, RequestSound
  <2>4. ASSUME A!At(r, "verify"), request[r].typed = password.v,
               request' = [request EXCEPT ![r] = [@ EXCEPT !.at = "factor", !.weak = password.weak]] PROVE GoesOnSoundly(r)
    <3>1. request'[r] = [request[r] EXCEPT !.at = "factor", !.weak = password.weak] /\ OnlyOne(r)
      BY <2>4 DEF OnlyOne
    <3>2. request'[r] \in AccountRequest /\ request'[r].at = "factor" /\ request'[r].id = request[r].id
          /\ request'[r].kind = request[r].kind /\ request'[r].typed = request[r].typed
      BY <2>0, <3>1 DEF AccountRequest, A!Steps
    <3>3. request[r].id >= 1 /\ request[r].kind = "login" BY <2>4 DEF RequestSound, A!At
    <3>4. request' \in [Request -> AccountRequest] BY <2>4, <3>1, <3>2 DEF OnlyOne
    <3> QED BY <2>4, <3>1, <3>2, <3>3, <3>4 DEF GoesOnSoundly, A!At, RequestSound
  <2>5. ASSUME A!ReadFactor(r) PROVE GoesOnSoundly(r)
    <3> DEFINE code == request[r].code
    <3>1. PICK at \in {"fail", "claim", "spend"} :
            /\ request' = [request EXCEPT ![r] = [@ EXCEPT !.read = factor, !.at = at]]
            /\ at = "claim" => code[1] = "totp"
            /\ at = "spend" => code[1] = "printed" /\ code[2] \in factor.codes
      BY <2>5 DEF A!ReadFactor
    <3>2. request'[r] = [request[r] EXCEPT !.read = factor, !.at = at] /\ OnlyOne(r) BY <3>1 DEF OnlyOne
    <3>3. request'[r] \in AccountRequest /\ request'[r].at = at /\ request'[r].id = request[r].id /\ request'[r].read = factor
          /\ request'[r].kind = request[r].kind /\ request'[r].typed = request[r].typed /\ request'[r].code = code
      <4>1. at \in A!Steps /\ factor \in A!Factor BY DEF A!Steps
      <4>2. request'[r] \in AccountRequest BY <2>0, <3>2, <4>1 DEF AccountRequest
      <4>3. request'[r].at = at /\ request'[r].id = request[r].id /\ request'[r].read = factor
        BY <2>0, <3>2 DEF AccountRequest
      <4>4. request'[r].kind = request[r].kind /\ request'[r].typed = request[r].typed /\ request'[r].code = code
        BY <2>0, <3>2 DEF AccountRequest
      <4> QED BY <4>2, <4>3, <4>4
    <3>4. code \in A!Codes BY <2>0 DEF AccountRequest
    <3>5. at = "claim" => code \in {"totp"} \X A!Number BY <3>1, <3>4 DEF A!Codes, A!NoCode
    <3>6. at = "spend" => code \in {"printed"} \X A!Listed BY <3>1, <3>4 DEF A!Codes, A!NoCode
    <3>7. request[r].at = "factor" BY <2>5 DEF A!ReadFactor, A!At
    <3>8. request[r].id >= 1 /\ (request[r].kind = "login" => request[r].typed >= 1) /\ request[r].kind \in {"login", "disable"}
      BY <3>7 DEF RequestSound, A!At
    <3>9. request' \in [Request -> AccountRequest] BY <3>1, <3>2, <3>3 DEF OnlyOne
    <3>10. RequestSound(r)'
      BY <3>1, <3>3, <3>5, <3>6, <3>8 DEF A!At, RequestSound
    <3> QED BY <3>1, <3>2, <3>3, <3>7, <3>9, <3>10 DEF GoesOnSoundly, A!At
  <2> QED BY <2>1, <2>2, <2>3, <2>4, <2>5 DEF A!Verify, A!RejectedCode
<1>3. A!TypeOK' BY <1>1, <1>2, AccountTypedBy DEF GoesOnSoundly
<1>4. RequestsSound' BY <1>1, <1>2, OthersSound DEF GoesOnSoundly
<1>5. PasswordStays /\ CodesStay /\ CountStays
  BY <1>1, <1>2 DEF PasswordStays, CodesStay, CountStays, GoesOnSoundly, OnlyOne, A!At
<1>6. SecretStays BY <1>1, <1>2 DEF SecretStays, GoesOnSoundly, OnlyOne
<1> QED BY <1>3, <1>4, <1>5, <1>6, PasswordKept, CodesKept, SecretKept, CountKept, AccountParts


\* One that goes on to a step without a code, or is over.
LEMMA GoesOnSound ==
  ASSUME AccountInv, NEW r \in Request, ~A!At(r, "idle"), ~A!At(r, "revoke"), ~A!At(r, "expire"),
         NEW at \in {"fail", "expire", "rehash", "open", "revoke", "disable"}, A!Go(r, at),
         at \in {"rehash", "open"} => request[r].kind = "login" /\ request[r].typed >= 1
  PROVE  GoesOnSoundly(r) /\ request'[r].at = at
<1>1. at \in A!Steps BY DEF A!Steps
<1> QED BY <1>1, AccountHas, AccountGoes DEF GoesOnSoundly, OnlyOne, RequestSound, A!At

LEMMA EndsSound ==
  ASSUME AccountInv, NEW r \in Request, ~A!At(r, "revoke"), ~A!At(r, "expire"), A!Done(r)
  PROVE  GoesOnSoundly(r) /\ request'[r].at = "idle"
BY AccountHas, AccountDone DEF GoesOnSoundly, OnlyOne

\* An accepted code leads on, and is remembered.
LEMMA AcceptedSound ==
  ASSUME AccountInv, NEW r \in Request, A!At(r, "claim") \/ A!At(r, "spend"), A!Accepted(r)
  PROVE  GoesOnSoundly(r) /\ request[r].id \in 1 .. MaxRequests
<1>1. request[r].id >= 1 /\ (request[r].kind = "login" => request[r].typed >= 1) /\ request[r].kind \in {"login", "disable"}
  BY AccountHas DEF RequestSound, A!At
<1>2. PICK at \in {"disable", "rehash", "open"} : A!Go(r, at) /\ (at # "disable" => request[r].kind = "login")
  BY <1>1 DEF A!Accepted
<1>3. GoesOnSoundly(r) BY <1>1, <1>2, GoesOnSound DEF A!At
<1>4. request[r].id \in 0 .. MaxRequests BY AccountHas, AccountTypes DEF AccountRequest
<1> QED BY <1>1, <1>3, <1>4, AccountTypes, AccountHas

\* A code of the authenticator is claimed once.
LEMMA ClaimStep == ASSUME AccountInv, NEW r \in Request, A!Claim(r) PROVE AccountInv'
<1> USE AccountHas, AccountTypes
<1>1. UNCHANGED <<password, factor, throttle, link, opened, asked, confirmed, crossings>> /\ A!At(r, "claim")
  BY DEF A!Claim
<1>2. request[r].code \in {"totp"} \X A!Number BY <1>1 DEF RequestSound, A!At
<1>3. CASE A!Rejected(r) /\ UNCHANGED <<spent, uses>>
  <2>1. GoesOnSoundly(r) BY <1>1, <1>3, GoesOnSound, EndsSound DEF A!Rejected, A!At
  <2>2. A!TypeOK' BY <1>1, <1>3, <2>1, AccountTypedBy DEF GoesOnSoundly
  <2>3. RequestsSound' BY <1>1, <2>1, OthersSound DEF GoesOnSoundly
  <2>4. PasswordStays /\ CodesStay /\ CountStays
    BY <1>1, <1>3, <2>1 DEF PasswordStays, CodesStay, CountStays, GoesOnSoundly, OnlyOne, A!At
  <2>5. SecretStays BY <1>1, <2>1 DEF SecretStays, GoesOnSoundly, OnlyOne
  <2> QED BY <2>2, <2>3, <2>4, <2>5, PasswordKept, CodesKept, SecretKept, CountKept, AccountParts
<1>4. CASE request[r].code[2] \notin spent /\ spent' = spent \cup {request[r].code[2]} /\ A!Accepted(r)
  <2>1. GoesOnSoundly(r) /\ request[r].id \in 1 .. MaxRequests BY <1>1, <1>4, AcceptedSound
  <2>2. uses' = uses \cup {<<request[r].code, request[r].id>>} BY <1>4 DEF A!Accepted
  <2>3. request[r].code \in A!Codes BY <1>2 DEF A!Codes
  <2>4. spent' \subseteq A!Number /\ uses' \subseteq A!Codes \X (1 .. MaxRequests) BY <1>2, <1>4, <2>1, <2>2, <2>3
  <2>5. A!TypeOK' BY <1>1, <2>1, <2>4, AccountTypedBy DEF GoesOnSoundly
  <2>6. RequestsSound' BY <1>1, <2>1, OthersSound DEF GoesOnSoundly
  <2>7. PasswordStays /\ CountStays
    BY <1>1, <2>1 DEF PasswordStays, CountStays, GoesOnSoundly, OnlyOne, A!At
  <2>8. SecretStays BY <1>1, <2>1 DEF SecretStays, GoesOnSoundly, OnlyOne
  <2>9. UsedCodesSpent' BY <1>1, <1>2, <1>4, <2>2 DEF UsedCodesSpent
  <2>10. UsedOnce'
    <3>1. \A u \in uses : u[1] # request[r].code BY <1>2, <1>4 DEF UsedCodesSpent
    <3> QED BY <1>1, <2>2, <3>1 DEF UsedOnce
  <2> QED BY <2>5, <2>6, <2>7, <2>8, <2>9, <2>10, PasswordKept, SecretKept, CountKept, AccountParts
<1> QED BY <1>3, <1>4 DEF A!Claim, A!ClaimTotp

\* A printed one leaves the list, unless two are spent at once.
LEMMA SpendStep == ASSUME AccountInv, NEW r \in Request, A!SpendPrinted(r) PROVE AccountInv'
<1> USE AccountHas, AccountTypes
<1>1. UNCHANGED <<password, spent, throttle, link, opened, asked, confirmed>> /\ A!At(r, "spend")
  BY DEF A!SpendPrinted
<1>2. request[r].code \in {"printed"} \X A!Listed /\ request[r].code[2] \in request[r].read.codes /\ request[r].code \in A!Codes
  BY <1>1 DEF RequestSound, A!At, A!Codes
<1>3. CASE A!Done(r) /\ UNCHANGED <<factor, uses, crossings>>
  <2>1. GoesOnSoundly(r) BY <1>1, <1>3, EndsSound DEF A!At
  <2>2. A!TypeOK' BY <1>1, <1>3, <2>1, AccountTypedBy DEF GoesOnSoundly
  <2>3. RequestsSound' BY <1>1, <2>1, OthersSound DEF GoesOnSoundly
  <2>4. PasswordStays /\ CodesStay /\ CountStays
    BY <1>1, <1>3, <2>1 DEF PasswordStays, CodesStay, CountStays, GoesOnSoundly, OnlyOne, A!At
  <2>5. SecretStays BY <1>1, <1>3, <2>1 DEF SecretStays, GoesOnSoundly, OnlyOne
  <2> QED BY <2>2, <2>3, <2>4, <2>5, PasswordKept, CodesKept, SecretKept, CountKept, AccountParts
<1>4. CASE /\ factor' = [factor EXCEPT !.codes = request[r].read.codes \ {request[r].code[2]}]
           /\ A!Accepted(r)
           /\ A!Cross(IF factor.codes # request[r].read.codes THEN {"printed"} ELSE {})
  <2>1. GoesOnSoundly(r) /\ request[r].id \in 1 .. MaxRequests BY <1>1, <1>4, AcceptedSound
  <2>2. uses' = uses \cup {<<request[r].code, request[r].id>>} BY <1>4 DEF A!Accepted
  <2>3. request[r].read.codes \subseteq A!Listed BY DEF AccountRequest, A!Factor
  <2>4. /\ factor' \in A!Factor /\ factor'.codes = request[r].read.codes \ {request[r].code[2]}
        /\ factor'.list = factor.list /\ factor'.secret = factor.secret /\ factor'.enabled = factor.enabled
    BY <1>4, <2>3 DEF A!Factor
  <2>5. /\ crossings \subseteq crossings' /\ crossings' \subseteq crossings \cup {"printed"}
        /\ "printed" \notin crossings' => factor.codes = request[r].read.codes
    BY <1>4 DEF A!Cross
  <2>6. uses' \subseteq A!Codes \X (1 .. MaxRequests) BY <1>2, <2>1, <2>2
  <2>7. A!TypeOK' BY <1>1, <2>1, <2>4, <2>5, <2>6, AccountTypedBy DEF GoesOnSoundly
  <2>8. RequestsSound' BY <1>1, <2>1, OthersSound DEF GoesOnSoundly
  <2>9. PasswordStays /\ CountStays
    BY <1>1, <2>1, <2>5 DEF PasswordStays, CountStays, GoesOnSoundly, OnlyOne, A!At
  <2>10. SecretStays BY <1>1, <2>1, <2>4, <2>5 DEF SecretStays, GoesOnSoundly, OnlyOne
  <2>11. UsedCodesSpent'
    <3>1. \A u \in uses' : u[1] \in {"totp"} \X spent' \/ u[1] \in {"printed"} \X A!Listed
      BY <1>1, <1>2, <2>2 DEF UsedCodesSpent
    <3>2. ASSUME "printed" \notin crossings' PROVE \A c \in factor'.codes : c[1] <= factor'.list
      BY <2>4, <2>5, <3>2 DEF UsedCodesSpent
    <3>3. ASSUME "printed" \notin crossings'
          PROVE  \A u \in uses' : u[1][1] = "printed" => u[1][2][1] <= factor'.list /\ u[1][2] \notin factor'.codes
      BY <1>2, <2>2, <2>4, <2>5, <3>3 DEF UsedCodesSpent
    <3> QED BY <3>1, <3>2, <3>3 DEF UsedCodesSpent
  <2>12. UsedOnce'
    <3>1. "printed" \notin crossings' => \A u \in uses : u[1] # request[r].code BY <1>2, <2>5 DEF UsedCodesSpent
    <3> QED BY <1>2, <2>2, <2>5, <3>1 DEF UsedOnce
  <2> QED BY <2>7, <2>8, <2>9, <2>10, <2>11, <2>12, PasswordKept, SecretKept, CountKept, AccountParts
<1> QED BY <1>3, <1>4 DEF A!SpendPrinted

\* The count of failed attempts: who counts is about to give the count its end.
LEMMA CountStep ==
  ASSUME AccountInv, (\E r \in Request : A!CountFailure(r) \/ A!ExpireCount(r)) \/ A!CountRunsOut
  PROVE  AccountInv'
<1> USE AccountHas, AccountTypes
<1>0. throttle.count \in Nat /\ throttle.ends \in BOOLEAN OBVIOUS
<1>1. ASSUME NEW r \in Request, A!CountFailure(r) PROVE AccountInv'
  <2>1. UNCHANGED <<password, factor, spent, link, opened, asked, confirmed, uses, crossings>> /\ A!At(r, "fail")
    BY <1>1 DEF A!CountFailure
  <2>2. GoesOnSoundly(r) /\ A!At(r, "expire")' BY <1>1, GoesOnSound DEF A!CountFailure, A!At
  <2>3. throttle' \in [count : Nat, ends : BOOLEAN] BY <1>0, <1>1 DEF A!CountFailure
  <2>4. A!TypeOK' BY <2>1, <2>2, <2>3, AccountTypedBy DEF GoesOnSoundly
  <2>5. RequestsSound' BY <2>1, <2>2, OthersSound DEF GoesOnSoundly
  <2>6. PasswordStays /\ CodesStay BY <2>1, <2>2 DEF PasswordStays, CodesStay, GoesOnSoundly, OnlyOne, A!At
  <2>7. SecretStays BY <2>1, <2>2 DEF SecretStays, GoesOnSoundly, OnlyOne
  <2>8. A!LockoutEnds' BY <2>2 DEF A!LockoutEnds
  <2> QED BY <2>4, <2>5, <2>6, <2>7, <2>8, PasswordKept, CodesKept, SecretKept, AccountParts
<1>2. ASSUME NEW r \in Request, A!ExpireCount(r) PROVE AccountInv'
  <2>1. UNCHANGED <<password, factor, spent, link, opened, asked, confirmed, uses, crossings>> /\ A!At(r, "expire")
    BY <1>2 DEF A!ExpireCount
  <2>2. request' \in [Request -> AccountRequest] /\ request'[r].at = "idle" /\ RequestSound(r)' /\ OnlyOne(r)
    BY <1>2, AccountDone DEF A!ExpireCount, OnlyOne
  <2>0. PICK more \in BOOLEAN : more = (throttle.count > 0)
    <3>1. (throttle.count > 0) \in BOOLEAN OBVIOUS
    <3> QED BY <3>1, Zenon
  <2>9. throttle' = [throttle EXCEPT !.ends = more] BY <1>2, <2>0, Zenon DEF A!ExpireCount
  <2>3. throttle' \in [count : Nat, ends : BOOLEAN] /\ throttle'.count = throttle.count /\ throttle'.ends = more
    BY <1>0, <2>9
  <2>10. throttle.count >= MaxAttempts => more
    <3>1. throttle.count >= MaxAttempts => throttle.count > 0 BY <1>0
    <3> QED BY <2>0, <3>1, Zenon
  <2>4. A!TypeOK' BY <2>1, <2>2, <2>3, AccountTypedBy
  <2>5. RequestsSound' BY <2>1, <2>2, OthersSound
  <2>6. PasswordStays /\ CodesStay BY <2>1, <2>2 DEF PasswordStays, CodesStay, OnlyOne, A!At
  <2>7. SecretStays BY <2>1, <2>2 DEF SecretStays, OnlyOne
  <2>8. A!LockoutEnds' BY <1>0, <2>3, <2>10 DEF A!LockoutEnds
  <2> QED BY <2>4, <2>5, <2>6, <2>7, <2>8, PasswordKept, CodesKept, SecretKept, AccountParts
<1>3. CASE A!CountRunsOut
  <2>1. UNCHANGED <<password, factor, spent, link, opened, request, asked, confirmed, uses, crossings>>
    BY <1>3 DEF A!CountRunsOut
  <2>2. throttle' \in [count : Nat, ends : BOOLEAN] /\ throttle'.count = 0 BY <1>3 DEF A!CountRunsOut, A!NoCount
  <2>3. A!TypeOK' BY <2>1, <2>2, AccountTypedBy
  <2>4. RequestsSound' BY <2>1 DEF RequestsSound, RequestSound, A!At
  <2>5. PasswordStays /\ CodesStay /\ SecretStays BY <2>1 DEF PasswordStays, CodesStay, SecretStays, A!At
  <2>6. A!LockoutEnds' BY <2>2 DEF A!LockoutEnds
  <2> QED BY <2>3, <2>4, <2>5, <2>6, PasswordKept, CodesKept, SecretKept, AccountParts
<1> QED BY <1>1, <1>2, <1>3

\* A sign-in comes to its end: what it found is by now the password, or it is remembered.
LEMMA OpenStep == ASSUME AccountInv, NEW r \in Request, A!Rehash(r) \/ A!IssueSession(r) PROVE AccountInv'
<1> USE AccountHas, AccountTypes
<1>1. CASE A!Rehash(r)
  <2>1. UNCHANGED <<factor, spent, throttle, link, opened, asked, confirmed, uses>> /\ A!At(r, "rehash")
        /\ password' = [v |-> request[r].typed, weak |-> FALSE]
    BY <1>1 DEF A!Rehash
  <2>2. request[r].kind = "login" /\ request[r].typed >= 1 /\ request[r].typed \in A!Number
    BY <2>1 DEF RequestSound, A!At, AccountRequest
  <2>3. GoesOnSoundly(r) BY <1>1, <2>2, GoesOnSound DEF A!Rehash, A!At
  <2>4. /\ crossings \subseteq crossings' /\ crossings' \subseteq crossings \cup {"rehash"}
        /\ password'.v # password.v => "rehash" \in crossings'
    BY <1>1, <2>1 DEF A!Rehash, A!Cross
  <2>5. A!TypeOK' BY <2>1, <2>2, <2>3, <2>4, AccountTypedBy DEF GoesOnSoundly
  <2>6. password'.v \in Nat /\ password'.v >= 1 BY <2>1, <2>2 DEF A!Number
  <2>7. RequestsSound' BY <2>3, <2>6, OthersSound DEF GoesOnSoundly
  <2>8. CodesStay /\ CountStays BY <2>1, <2>3, <2>4 DEF CodesStay, CountStays, GoesOnSoundly, OnlyOne, A!At
  <2>9. SecretStays BY <2>1, <2>3, <2>4 DEF SecretStays, GoesOnSoundly, OnlyOne
  <2>10. CASE password'.v = password.v
    <3>1. PasswordStays BY <2>1, <2>3, <2>4, <2>10 DEF PasswordStays, GoesOnSoundly, OnlyOne, A!At
    <3> QED BY <2>5, <2>7, <2>8, <2>9, <3>1, PasswordKept, CodesKept, SecretKept, CountKept, AccountParts
  <2>11. CASE password'.v # password.v
    <3>1. OldPasswordLeaving' BY <2>4, <2>11 DEF OldPasswordLeaving
    <3> QED BY <2>5, <2>7, <2>8, <2>9, <3>1, CodesKept, SecretKept, CountKept, AccountParts
  <2> QED BY <2>10, <2>11
<1>2. CASE A!IssueSession(r)
  <2>1. UNCHANGED <<password, factor, spent, link, asked, confirmed, uses>> /\ A!At(r, "open")
        /\ throttle' = A!NoCount /\ opened' = [opened EXCEPT ![r] = request[r].typed]
    BY <1>2 DEF A!IssueSession
  <2>2. request[r].typed \in A!Number BY DEF AccountRequest
  <2>3. GoesOnSoundly(r) BY <1>2, <2>1, EndsSound DEF A!IssueSession, A!At
  <2>4. /\ crossings \subseteq crossings' /\ crossings' \subseteq crossings \cup {"opening"}
        /\ request[r].typed # password.v => "opening" \in crossings'
    BY <1>2 DEF A!IssueSession, A!Cross
  <2>5. throttle' \in [count : Nat, ends : BOOLEAN] /\ throttle'.count = 0 BY <2>1 DEF A!NoCount
  <2>6. A!TypeOK' BY <2>1, <2>2, <2>3, <2>4, <2>5, AccountTypedBy DEF GoesOnSoundly
  <2>7. RequestsSound' BY <2>1, <2>3, OthersSound DEF GoesOnSoundly
  <2>8. CodesStay BY <2>1, <2>4 DEF CodesStay
  <2>9. SecretStays BY <2>1, <2>3, <2>4 DEF SecretStays, GoesOnSoundly, OnlyOne
  <2>10. A!LockoutEnds' BY <2>5 DEF A!LockoutEnds
  <2>11. OldPasswordLeaving'
    <3>1. CASE request[r].typed = password.v
      <4>1. PasswordStays BY <2>1, <2>3, <2>4, <3>1 DEF PasswordStays, GoesOnSoundly, OnlyOne, A!At
      <4> QED BY <4>1, PasswordKept
    <3>2. CASE request[r].typed # password.v BY <2>4, <3>2 DEF OldPasswordLeaving
    <3> QED BY <3>1, <3>2
  <2> QED BY <2>6, <2>7, <2>8, <2>9, <2>10, <2>11, CodesKept, SecretKept, AccountParts
<1> QED BY <1>1, <1>2

\* A new password: whoever holds it is about to end all other sessions, or has.
LEMMA PasswordStep ==
  ASSUME AccountInv, NEW r \in Request, A!Change(r) \/ A!RevokeOthers(r) \/ A!Reset(r)
  PROVE  AccountInv'
<1> USE AccountHas, AccountTypes
<1>1. CASE A!Change(r)
  <2>1. UNCHANGED <<factor, spent, throttle, link, asked, confirmed, uses, crossings>> /\ A!At(r, "change")
        /\ password' = [v |-> password.v + 1, weak |-> FALSE] /\ password.v < MaxSets
    BY <1>1 DEF A!Change
  <2>2. /\ opened' \in [Request -> A!Number] /\ opened'[r] \in {0, password'.v}
    BY <1>1, <2>1 DEF A!Change, A!Number
  <2>3. GoesOnSoundly(r) /\ A!At(r, "revoke")' BY <1>1, GoesOnSound DEF A!Change, A!At
  <2>4. password' \in [v : A!Number, weak : BOOLEAN] /\ password'.v \in Nat /\ password'.v >= 1 BY <2>1 DEF A!Number
  <2>5. A!TypeOK' BY <2>1, <2>2, <2>3, <2>4, AccountTypedBy DEF GoesOnSoundly
  <2>6. RequestsSound' BY <2>3, <2>4, OthersSound DEF GoesOnSoundly
  <2>7. CodesStay /\ CountStays BY <2>1, <2>3 DEF CodesStay, CountStays, GoesOnSoundly, OnlyOne, A!At
  <2>8. SecretStays BY <2>1, <2>3 DEF SecretStays, GoesOnSoundly, OnlyOne
  <2>9. OldPasswordLeaving' BY <2>2, <2>3 DEF OldPasswordLeaving
  <2> QED BY <2>5, <2>6, <2>7, <2>8, <2>9, CodesKept, SecretKept, CountKept, AccountParts
<1>2. CASE A!RevokeOthers(r)
  <2>1. UNCHANGED <<password, factor, spent, throttle, link, asked, confirmed, uses, crossings>> /\ A!At(r, "revoke")
        /\ opened' = [q \in Request |-> IF q = r THEN opened[q] ELSE 0]
    BY <1>2 DEF A!RevokeOthers
  <2>2. request' \in [Request -> AccountRequest] /\ request'[r].at = "idle" /\ RequestSound(r)' /\ OnlyOne(r)
    BY <1>2, AccountDone DEF A!RevokeOthers, OnlyOne
  <2>3. opened' \in [Request -> A!Number] BY <2>1 DEF A!Number
  <2>4. A!TypeOK' BY <2>1, <2>2, <2>3, AccountTypedBy
  <2>5. RequestsSound' BY <2>1, <2>2, OthersSound
  <2>6. CodesStay /\ CountStays BY <2>1, <2>2 DEF CodesStay, CountStays, OnlyOne, A!At
  <2>7. SecretStays BY <2>1, <2>2 DEF SecretStays, OnlyOne
  <2>8. OldPasswordLeaving'
    <3> SUFFICES ASSUME crossings \cap {"opening", "halted", "rehash"} = {}
                 PROVE  \A p \in Request : opened'[p] \in {0, password.v} \/ \E q \in Request \ {p} : A!At(q, "revoke")'
      BY <2>1 DEF OldPasswordLeaving
    <3>1. opened[r] \in {0, password.v} \/ \E q \in Request \ {r} : A!At(q, "revoke") BY DEF OldPasswordLeaving
    <3>2. \A q \in Request \ {r} : A!At(q, "revoke") => A!At(q, "revoke")' BY <2>2 DEF OnlyOne, A!At
    <3> QED BY <2>1, <3>1, <3>2
  <2> QED BY <2>4, <2>5, <2>6, <2>7, <2>8, CodesKept, SecretKept, CountKept, AccountParts
<1>3. CASE A!Reset(r)
  <2>1. UNCHANGED <<factor, spent, throttle, asked, confirmed, uses>> /\ A!At(r, "reset")
        /\ password' = [v |-> password.v + 1, weak |-> FALSE] /\ password.v < MaxSets
        /\ opened' = [q \in Request |-> 0] /\ link' = [link EXCEPT ![request[r].link] = "used"]
    BY <1>3 DEF A!Reset, A!SignOutAll
  <2>2. GoesOnSoundly(r) BY <1>3, <2>1, EndsSound DEF A!Reset, A!At
  <2>3. crossings \subseteq crossings' /\ crossings' \subseteq crossings \cup {"link"} BY <1>3 DEF A!Reset, A!Cross
  <2>4. password' \in [v : A!Number, weak : BOOLEAN] /\ password'.v \in Nat /\ password'.v >= 1 BY <2>1 DEF A!Number
  <2>5. opened' \in [Request -> A!Number] /\ link' \in [Link -> {"unsent", "sent", "used", "late"}]
    <3>1. opened' \in [Request -> A!Number] BY <2>1 DEF A!Number
    <3>2. link' \in [Link -> {"unsent", "sent", "used", "late"}] BY <2>1
    <3> QED BY <3>1, <3>2
  <2>6. A!TypeOK' BY <2>1, <2>2, <2>3, <2>4, <2>5, AccountTypedBy DEF GoesOnSoundly
  <2>7. RequestsSound' BY <2>2, <2>4, OthersSound DEF GoesOnSoundly
  <2>8. CodesStay /\ CountStays BY <2>1, <2>2, <2>3 DEF CodesStay, CountStays, GoesOnSoundly, OnlyOne, A!At
  <2>9. SecretStays BY <2>1, <2>2, <2>3 DEF SecretStays, GoesOnSoundly, OnlyOne
  <2>10. OldPasswordLeaving' BY <2>1 DEF OldPasswordLeaving
  <2> QED BY <2>6, <2>7, <2>8, <2>9, <2>10, CodesKept, SecretKept, CountKept, AccountParts
<1> QED BY <1>1, <1>2, <1>3

\* Enrolments: a new secret runs into every other enrolment there is, or is remembered.
LEMMA EnrolStep ==
  ASSUME AccountInv, NEW r \in Request, A!Setup(r) \/ A!Confirm(r) \/ A!Complete(r) \/ A!Disable(r)
  PROVE  AccountInv'
<1> USE AccountHas, AccountTypes
<1>0. factor.secret \in Nat /\ factor.list \in Nat /\ factor.codes \subseteq A!Listed BY DEF A!Factor, A!Number
<1>1. CASE A!Setup(r)
  <2>1. UNCHANGED <<password, spent, throttle, link, opened, asked, confirmed, uses>> /\ A!At(r, "setup")
    BY <1>1 DEF A!Setup
  <2>2. GoesOnSoundly(r) /\ request'[r].at = "idle" BY <1>1, <2>1, EndsSound DEF A!Setup, A!At
  <2>3. /\ factor' \in A!Factor /\ factor'.enabled = FALSE /\ factor'.codes = factor.codes /\ factor'.list = factor.list
    <3>1. factor.secret + 1 \in A!Number BY <1>0, <1>1 DEF A!Setup, A!Number
    <3>2. factor' = [factor EXCEPT !.there = TRUE, !.secret = @ + 1, !.enabled = FALSE] BY <1>1 DEF A!Setup
    <3> QED BY <3>1, <3>2 DEF A!Factor
  <2>4. /\ crossings \subseteq crossings' /\ crossings' \subseteq crossings \cup {"setup"}
        /\ "setup" \notin crossings' => \A q \in Request \ {r} : request[q].kind \notin {"setup", "enable", "renew"}
    BY <1>1 DEF A!Setup, A!Cross
  <2>5. A!TypeOK' BY <2>1, <2>2, <2>3, <2>4, AccountTypedBy DEF GoesOnSoundly
  <2>6. RequestsSound' BY <2>1, <2>2, OthersSound DEF GoesOnSoundly
  <2>7. PasswordStays /\ CodesStay /\ CountStays
    BY <2>1, <2>2, <2>3, <2>4 DEF PasswordStays, CodesStay, CountStays, GoesOnSoundly, OnlyOne, A!At
  <2>8. EnrolmentsApart'
    <3> SUFFICES ASSUME "setup" \notin crossings'
                 PROVE  \A q \in Request : request'[q].at \notin {"confirm", "enable", "renew"}
      BY <2>3 DEF EnrolmentsApart
    <3>1. \A q \in Request : RequestSound(q)' BY <2>6 DEF RequestsSound
    <3>2. \A q \in Request \ {r} : request'[q].kind \notin {"enable", "renew"} BY <2>2, <2>4 DEF GoesOnSoundly, OnlyOne
    <3> QED BY <2>2, <3>1, <3>2 DEF RequestSound, A!At
  <2> QED BY <2>5, <2>6, <2>7, <2>8, PasswordKept, CodesKept, CountKept, AccountParts
<1>2. CASE A!Confirm(r)
  <2>1. UNCHANGED <<password, factor, throttle, link, opened, asked, crossings>> /\ A!At(r, "confirm")
    BY <1>2 DEF A!Confirm
  <2>2. request[r].code \in {"totp"} \X A!Number /\ request[r].kind = "enable" /\ request[r].id \in 1 .. MaxRequests
        /\ request[r].code \in A!Codes
    BY <2>1 DEF RequestSound, A!At, AccountRequest
  <2>3. CASE A!Done(r) /\ UNCHANGED <<spent, uses, confirmed>>
    <3>1. GoesOnSoundly(r) BY <2>1, <2>3, EndsSound DEF A!At
    <3>2. A!TypeOK' BY <2>1, <2>3, <3>1, AccountTypedBy DEF GoesOnSoundly
    <3>3. RequestsSound' BY <2>1, <3>1, OthersSound DEF GoesOnSoundly
    <3>4. PasswordStays /\ CodesStay /\ CountStays
      BY <2>1, <2>3, <3>1 DEF PasswordStays, CodesStay, CountStays, GoesOnSoundly, OnlyOne, A!At
    <3>5. SecretStays BY <2>1, <2>3, <3>1 DEF SecretStays, GoesOnSoundly, OnlyOne
    <3> QED BY <3>2, <3>3, <3>4, <3>5, PasswordKept, CodesKept, SecretKept, CountKept, AccountParts
  <2>4. CASE /\ A!MatchesSecret(r) /\ request[r].code[2] \notin spent
             /\ spent' = spent \cup {request[r].code[2]}
             /\ uses' = uses \cup {<<request[r].code, request[r].id>>}
             /\ confirmed' = request[r].code[2]
             /\ A!Go(r, "enable")
    <3>1. /\ request' \in [Request -> AccountRequest] /\ request'[r].at = "enable" /\ request'[r].id = request[r].id
          /\ request'[r].kind = "enable" /\ request'[r].read = request[r].read /\ OnlyOne(r)
      BY <2>2, <2>4, AccountGoes DEF A!Steps, OnlyOne
    <3>2. RequestSound(r)' BY <2>2, <3>1 DEF RequestSound, A!At
    <3>3. spent' \subseteq A!Number /\ confirmed' \in A!Number /\ uses' \subseteq A!Codes \X (1 .. MaxRequests)
      BY <2>2, <2>4
    <3>4. A!TypeOK' BY <2>1, <3>1, <3>3, AccountTypedBy
    <3>5. RequestsSound' BY <2>1, <3>1, <3>2, OthersSound
    <3>6. PasswordStays /\ CountStays BY <2>1, <3>1 DEF PasswordStays, CountStays, OnlyOne, A!At
    <3>7. UsedCodesSpent' BY <2>1, <2>2, <2>4 DEF UsedCodesSpent
    <3>8. UsedOnce'
      <4>1. \A u \in uses : u[1] # request[r].code BY <2>2, <2>4 DEF UsedCodesSpent
      <4> QED BY <2>1, <2>4, <4>1 DEF UsedOnce
    <3>9. EnrolmentsApart'
      <4> SUFFICES ASSUME "setup" \notin crossings'
                   PROVE  /\ factor.secret = confirmed'
                          /\ \A q \in Request : request'[q].at \in {"confirm", "enable"} => request'[q].read.secret = factor.secret
        BY <2>1 DEF EnrolmentsApart
      <4>1. request[r].read.secret = factor.secret BY <2>1 DEF EnrolmentsApart, A!At
      <4>2. confirmed' = factor.secret BY <2>4, <4>1 DEF A!MatchesSecret
      <4> QED BY <2>1, <3>1, <4>1, <4>2 DEF EnrolmentsApart, OnlyOne
    <3> QED BY <3>4, <3>5, <3>6, <3>7, <3>8, <3>9, PasswordKept, CountKept, AccountParts
  <2> QED BY <1>2, <2>3, <2>4 DEF A!Confirm
<1>3. CASE A!Complete(r)
  <2>1. UNCHANGED <<password, spent, throttle, link, opened, asked, confirmed, uses, crossings>>
        /\ (A!At(r, "enable") \/ A!At(r, "renew"))
    BY <1>3 DEF A!Complete
  <2>2. GoesOnSoundly(r) /\ request'[r].at = "idle" BY <1>3, <2>1, EndsSound DEF A!Complete, A!At
  <2>3. RequestsSound' BY <2>1, <2>2, OthersSound DEF GoesOnSoundly
  <2>4. PasswordStays /\ CountStays BY <2>1, <2>2 DEF PasswordStays, CountStays, GoesOnSoundly, OnlyOne, A!At
  <2>5. CASE factor' = factor
    <3>1. A!TypeOK' BY <2>1, <2>2, <2>5, AccountTypedBy DEF GoesOnSoundly
    <3>2. CodesStay BY <2>1, <2>5 DEF CodesStay
    <3>3. SecretStays BY <2>1, <2>2, <2>5 DEF SecretStays, GoesOnSoundly, OnlyOne
    <3> QED BY <2>3, <2>4, <3>1, <3>2, <3>3, PasswordKept, CodesKept, SecretKept, CountKept, AccountParts
  <2>6. CASE /\ factor.list # MaxSets
             /\ factor' = [factor EXCEPT !.enabled = TRUE, !.list = @ + 1, !.codes = {factor.list + 1} \X BackupCode]
    <3>1. factor.list + 1 \in A!Number BY <2>6 DEF A!Factor, A!Number
    <3>2. {factor.list + 1} \X BackupCode \subseteq A!Listed BY <3>1 DEF A!Listed
    <3>3. /\ factor' \in A!Factor /\ factor'.list = factor.list + 1 /\ factor'.codes = {factor.list + 1} \X BackupCode
          /\ factor'.secret = factor.secret
      BY <2>6, <3>1, <3>2 DEF A!Factor
    <3>4. A!TypeOK' BY <2>1, <2>2, <3>3, AccountTypedBy DEF GoesOnSoundly
    <3>5. UsedCodesSpent'
      <4>1. \A c \in factor'.codes : c[1] = factor.list + 1 BY <3>3
      <4>2. \A u \in uses : u[1] \in {"printed"} \X A!Listed => u[1][2] \in A!Listed /\ u[1][2][1] \in Nat
        BY DEF A!Listed, A!Number
      <4>3. ASSUME NEW u \in uses, u[1][1] = "printed", "printed" \notin crossings
            PROVE  u[1][2][1] <= factor'.list /\ u[1][2] \notin factor'.codes
        <5>1. u[1] \in {"printed"} \X A!Listed BY <4>3 DEF UsedCodesSpent
        <5>2. u[1][2][1] <= factor.list /\ u[1][2][1] \in Nat BY <4>2, <4>3, <5>1 DEF UsedCodesSpent
        <5> QED BY <1>0, <3>3, <4>1, <5>2
      <4>4. \A c \in factor'.codes : c[1] <= factor'.list BY <1>0, <3>3, <4>1
      <4> QED BY <2>1, <4>3, <4>4 DEF UsedCodesSpent
    <3>6. UsedOnce' BY <2>1 DEF UsedOnce
    <3>7. EnrolmentsApart' BY <2>1, <2>2, <3>3 DEF EnrolmentsApart, GoesOnSoundly, OnlyOne, A!At
    <3> QED BY <2>3, <2>4, <3>4, <3>5, <3>6, <3>7, PasswordKept, CountKept, AccountParts
  <2> QED BY <1>3, <2>5, <2>6 DEF A!Complete
<1>4. CASE A!Disable(r)
  <2>1. UNCHANGED <<password, spent, throttle, link, opened, asked, confirmed, uses, crossings>> /\ A!At(r, "disable")
    BY <1>4 DEF A!Disable
  <2>2. GoesOnSoundly(r) BY <1>4, <2>1, EndsSound DEF A!Disable, A!At
  <2>3. factor' \in A!Factor /\ factor'.enabled = FALSE /\ factor'.codes = {} /\ factor'.list = factor.list /\ factor'.secret = factor.secret
    BY <1>4 DEF A!Disable, A!Factor
  <2>4. A!TypeOK' BY <2>1, <2>2, <2>3, AccountTypedBy DEF GoesOnSoundly
  <2>5. RequestsSound' BY <2>1, <2>2, OthersSound DEF GoesOnSoundly
  <2>6. PasswordStays /\ CodesStay /\ CountStays
    BY <2>1, <2>2, <2>3 DEF PasswordStays, CodesStay, CountStays, GoesOnSoundly, OnlyOne, A!At
  <2>7. SecretStays BY <2>1, <2>2, <2>3 DEF SecretStays, GoesOnSoundly, OnlyOne
  <2> QED BY <2>4, <2>5, <2>6, <2>7, PasswordKept, CodesKept, SecretKept, CountKept, AccountParts
<1> QED BY <1>1, <1>2, <1>3, <1>4

\* A reset link is sent or runs out. The panel goes down: what it was about to end is remembered.
LEMMA HaltStep ==
  ASSUME AccountInv, (\E r \in Request : A!Halt(r)) \/ (\E l \in Link : A!ForgotPassword(l) \/ A!LinkRunsOut(l))
  PROVE  AccountInv'
<1> USE AccountHas, AccountTypes
<1>1. ASSUME NEW r \in Request, A!Halt(r) PROVE AccountInv'
  <2>1. UNCHANGED <<password, factor, spent, throttle, link, opened, confirmed, uses>> /\ asked' \in 0 .. MaxRequests
    BY <1>1 DEF A!Halt
  <2>2. request' \in [Request -> AccountRequest] /\ request'[r].at = "idle" /\ RequestSound(r)' /\ OnlyOne(r)
    BY <1>1, AccountDone DEF A!Halt, OnlyOne
  <2>3. /\ crossings \subseteq crossings' /\ crossings' \subseteq crossings \cup {"halted", "stranded"}
        /\ A!At(r, "revoke") => "halted" \in crossings'
        /\ A!At(r, "expire") => "stranded" \in crossings'
    BY <1>1 DEF A!Halt, A!Cross
  <2>4. A!TypeOK' BY <2>1, <2>2, <2>3, AccountTypedBy
  <2>5. RequestsSound' BY <2>1, <2>2, OthersSound
  <2>6. CodesStay /\ SecretStays BY <2>1, <2>2, <2>3 DEF CodesStay, SecretStays, OnlyOne
  <2>7. OldPasswordLeaving'
    <3>1. CASE A!At(r, "revoke") BY <2>3, <3>1 DEF OldPasswordLeaving
    <3>2. CASE ~A!At(r, "revoke")
      <4>1. PasswordStays BY <2>1, <2>2, <2>3, <3>2 DEF PasswordStays, OnlyOne, A!At
      <4> QED BY <4>1, PasswordKept
    <3> QED BY <3>1, <3>2
  <2>8. A!LockoutEnds'
    <3>1. CASE A!At(r, "expire") BY <2>3, <3>1 DEF A!LockoutEnds
    <3>2. CASE ~A!At(r, "expire")
      <4>1. CountStays BY <2>1, <2>2, <2>3, <3>2 DEF CountStays, OnlyOne, A!At
      <4> QED BY <4>1, CountKept
    <3> QED BY <3>1, <3>2
  <2> QED BY <2>4, <2>5, <2>6, <2>7, <2>8, CodesKept, SecretKept, AccountParts
<1>2. ASSUME NEW l \in Link, A!ForgotPassword(l) \/ A!LinkRunsOut(l) PROVE AccountInv'
  <2>1. UNCHANGED <<password, factor, spent, throttle, opened, request, asked, confirmed, uses, crossings>>
        /\ link' \in [Link -> {"unsent", "sent", "used", "late"}]
    BY <1>2 DEF A!ForgotPassword, A!LinkRunsOut
  <2>2. A!TypeOK' BY <2>1, AccountTypedBy
  <2>3. RequestsSound' BY <2>1 DEF RequestsSound, RequestSound, A!At
  <2>4. PasswordStays /\ CodesStay /\ SecretStays /\ CountStays
    BY <2>1 DEF PasswordStays, CodesStay, SecretStays, CountStays, A!At
  <2> QED BY <2>2, <2>3, <2>4, PasswordKept, CodesKept, SecretKept, CountKept, AccountParts
<1> QED BY <1>1, <1>2

\* Together: the invariant of one account is inductive.
LEMMA AccountStep == ASSUME AccountInv, A!Next PROVE AccountInv'
BY AskStep, SignInStep, ClaimStep, SpendStep, CountStep, OpenStep, PasswordStep, EnrolStep, HaltStep DEF A!Next, A!Step

\* An account at rest, with or without a factor, signed in or not.
LEMMA AccountStart == ASSUME A!Init PROVE AccountInv
<1> USE IdentityAssumption DEF A!AccountAssumption
<1>1. (CHOOSE l \in Link : TRUE) \in Link OBVIOUS
<1>2. 0 \in A!Number /\ 1 \in A!Number /\ password.v = 1 BY DEF A!Number, A!Init
<1>3. A!NoFactor \in A!Factor /\ A!Enrolled \in A!Factor
  <2>1. {1} \X BackupCode \subseteq A!Listed BY <1>2 DEF A!Listed
  <2> QED BY <1>2, <2>1 DEF A!NoFactor, A!Enrolled, A!Factor
<1>4. A!Idle \in AccountRequest /\ A!Idle.at = "idle"
  BY <1>1, <1>2, <1>3 DEF A!Idle, AccountRequest, A!Steps, A!Kinds, A!Codes, A!NoCode
<1>5. request \in [Request -> AccountRequest] /\ \A r \in Request : request[r].at = "idle" BY <1>4 DEF A!Init
<1>6. /\ password \in [v : A!Number, weak : BOOLEAN] /\ factor \in A!Factor /\ confirmed \in A!Number
      /\ opened \in [Request -> A!Number] /\ \A r \in Request : opened[r] \in {0, password.v}
  BY <1>2, <1>3 DEF A!Init, A!Factor
<1>7. throttle \in [count : Nat, ends : BOOLEAN] /\ throttle.count = 0 BY DEF A!Init
<1>8. A!TypeOK BY <1>5, <1>6, <1>7 DEF A!TypeOK, A!Init, AccountRequest
<1>9. RequestsSound BY <1>2, <1>5 DEF RequestsSound, RequestSound, A!At
<1>10. OldPasswordLeaving BY <1>6 DEF OldPasswordLeaving
<1>11. UsedCodesSpent BY DEF UsedCodesSpent, A!Init, A!NoFactor, A!Enrolled
<1>12. EnrolmentsApart BY <1>5 DEF EnrolmentsApart, A!Init
<1>13. FactorSound BY DEF FactorSound, A!FactorSound, A!Init
<1>14. A!LockoutEnds BY <1>7 DEF A!LockoutEnds
<1> QED BY <1>8, <1>9, <1>10, <1>11, <1>12, <1>13, <1>14 DEF AccountInv

-----------------------------------------------------------------------------
(***************************************************************************)
(* How accounts come to be.                                                  *)
(***************************************************************************)
MemberAccount == [role : M!Role \cup {"none"}, limit : M!Limit, promised : SUBSET M!Limit, verified : BOOLEAN, by : M!Ways \cup {"none"}]
MakerState == [at : {"idle", "look", "make", "letter"}, way : M!Ways, name : Name, role : M!Role, limit : M!Limit,
               chosen : BOOLEAN, verified : BOOLEAN, seen : SUBSET M!Limit]
LetterState == [of : Name, at : {"unsent", "sent", "used"}]

LEMMA MembersTypes ==
  ASSUME M!TypeOK
  PROVE  /\ settings \in M!Settings /\ cached \in M!Settings /\ account \in [Name -> MemberAccount] /\ role \subseteq M!Role
         /\ seed \subseteq M!Role \cup {"owner"} /\ maker \in [Maker -> MakerState] /\ letter \in [Letter -> LetterState]
         /\ changes \in 0 .. MaxChanges /\ MaxChanges \in Nat /\ Name # {}
         /\ settings.limit \in M!Limit /\ cached.limit \in M!Limit /\ 0 \in M!Limit
         /\ cached.verify \in BOOLEAN
BY IdentityAssumption DEF M!TypeOK, M!MembersAssumption, MemberAccount, MakerState, LetterState, M!Settings, M!Limit

LEMMA MembersTypedBy ==
  ASSUME settings' \in M!Settings, cached' \in M!Settings, account' \in [Name -> MemberAccount], role' \subseteq M!Role,
         seed' \subseteq M!Role \cup {"owner"}, maker' \in [Maker -> MakerState], letter' \in [Letter -> LetterState],
         changes' \in 0 .. MaxChanges
  PROVE  M!TypeOK'
BY DEF M!TypeOK, MemberAccount, MakerState, LetterState

LEMMA ChangeTyped == ASSUME M!TypeOK, M!Change PROVE changes' \in 0 .. MaxChanges
BY MembersTypes DEF M!Change

LEMMA IdleMaker == ASSUME M!TypeOK PROVE M!Idle \in MakerState /\ M!Idle.at = "idle"
<1>1. (CHOOSE n \in Name : TRUE) \in Name BY MembersTypes
<1> QED BY <1>1, MembersTypes DEF M!Idle, MakerState, M!Ways, M!Role

\* Who signs up keeps what he was promised; the seed makes an owner.
MakerSound(mk) ==
  mk.at # "idle" =>
    /\ mk.way = "register" => mk.role = "CUSTOMER" /\ ~mk.chosen /\ mk.limit \in mk.seen
    /\ mk.way = "seed" => mk.role = "OWNER" /\ ~mk.chosen

\* A maker that steps, or starts: nothing else of the accounts changes.
LEMMA MakerStep ==
  ASSUME MembersInv, NEW m \in Maker, NEW mk \in MakerState, MakerSound(mk), maker' = [maker EXCEPT ![m] = mk],
         seed' \subseteq M!Role \cup {"owner"}, changes' \in 0 .. MaxChanges, letter' \in [Letter -> LetterState],
         UNCHANGED <<settings, cached, account, role>>
  PROVE  MembersInv'
<1>0. M!TypeOK BY DEF MembersInv
<1>1. maker' \in [Maker -> MakerState] /\ maker'[m] = mk /\ \A q \in Maker : q # m => maker'[q] = maker[q] BY <1>0, MembersTypes
<1>2. M!TypeOK' BY <1>0, <1>1, MembersTypes, MembersTypedBy
<1>3. MakersSound' BY <1>1 DEF MembersInv, MakersSound, MakerSound
<1>4. M!LimitsPromised' BY DEF MembersInv, M!LimitsPromised
<1> QED BY <1>2, <1>3, <1>4 DEF MembersInv

\* The limit a maker gives is one that it was promised.
LEMMA LimitPromised ==
  ASSUME MembersInv, NEW m \in Maker, maker[m].at = "make"
  PROVE  LET mk == maker[m]
             seen == mk.seen \cup {IF mk.way = "cli" THEN settings.limit ELSE cached.limit}
         IN  M!LimitOf(m) \in IF mk.chosen \/ mk.way = "seed" \/ mk.role # "CUSTOMER" THEN {0} ELSE seen
<1> DEFINE mk == maker[m]
<1>1. mk \in MakerState /\ M!TypeOK BY MembersTypes DEF MembersInv
<1>2. MakerSound(mk) BY DEF MembersInv, MakersSound, MakerSound
<1>3. CASE mk.chosen BY <1>3 DEF M!LimitOf
<1>4. CASE ~mk.chosen /\ mk.way = "register" BY <1>2, <1>4 DEF MakerSound, M!LimitOf
<1>5. CASE ~mk.chosen /\ mk.way # "register" /\ mk.role # "CUSTOMER"
  BY <1>5 DEF M!LimitOf, M!UnlimitedAccountLimits
<1>6. CASE ~mk.chosen /\ mk.way = "create" /\ mk.role = "CUSTOMER"
  BY <1>6 DEF M!LimitOf, M!DefaultAccountLimits
<1>7. CASE ~mk.chosen /\ mk.way \in {"cli", "seed"} /\ mk.role = "CUSTOMER"
  <2>1. mk.way = "cli" BY <1>2, <1>7 DEF MakerSound
  <2> QED BY <1>7, <2>1 DEF M!LimitOf, M!DefaultAccountLimits
<1> QED BY <1>1, <1>3, <1>4, <1>5, <1>6, <1>7 DEF MakerState, M!Ways

\* An account is made, with that limit, or the name was taken.
LEMMA CreateStep == ASSUME MembersInv, NEW m \in Maker, M!Create(m) PROVE MembersInv'
<1> DEFINE mk == maker[m]
<1>0. M!TypeOK /\ mk \in MakerState /\ mk.at = "make" BY MembersTypes DEF MembersInv, M!Create
<1>1. UNCHANGED <<settings, cached, role, seed, letter, changes>> BY DEF M!Create
<1>2. CASE maker' = [maker EXCEPT ![m] = M!Idle] /\ UNCHANGED account
  BY <1>0, <1>1, <1>2, IdleMaker, MembersTypes, MakerStep DEF MakerSound
<1>3. ASSUME NEW limit, limit = M!LimitOf(m), NEW promised,
             promised = IF mk.chosen \/ mk.way = "seed" \/ mk.role # "CUSTOMER" THEN {0}
                        ELSE mk.seen \cup {IF mk.way = "cli" THEN settings.limit ELSE cached.limit},
             account' = [account EXCEPT ![mk.name] =
               [role |-> mk.role, limit |-> limit, verified |-> mk.verified, by |-> mk.way, promised |-> promised]],
             maker' = [maker EXCEPT ![m] = IF mk.way = "register" /\ ~mk.verified THEN [mk EXCEPT !.at = "letter"] ELSE M!Idle]
      PROVE  MembersInv'
  <2>1. limit \in promised BY <1>0, <1>3, LimitPromised
  <2>2. promised \subseteq M!Limit BY <1>0, <1>3, MembersTypes DEF MakerState
  <2>3. mk.name \in Name /\ mk.role \in M!Role /\ mk.way \in M!Ways /\ mk.verified \in BOOLEAN BY <1>0 DEF MakerState
  <2>4. [role |-> mk.role, limit |-> limit, verified |-> mk.verified, by |-> mk.way, promised |-> promised] \in MemberAccount
    BY <2>1, <2>2, <2>3 DEF MemberAccount
  <2>5. account' \in [Name -> MemberAccount] BY <1>0, <1>3, <2>4, MembersTypes
  <2>6. PICK nxt \in MakerState : maker' = [maker EXCEPT ![m] = nxt] /\ (nxt.at = "idle" \/ nxt = [mk EXCEPT !.at = "letter"])
    <3>1. [mk EXCEPT !.at = "letter"] \in MakerState BY <1>0 DEF MakerState
    <3> QED BY <1>0, <1>3, <3>1, IdleMaker
  <2>7. MakerSound(mk) BY DEF MembersInv, MakersSound, MakerSound
  <2>8. MakerSound(nxt) BY <1>0, <2>6, <2>7 DEF MakerSound, MakerState
  <2>9. maker' \in [Maker -> MakerState] /\ maker'[m] = nxt /\ \A q \in Maker : q # m => maker'[q] = maker[q]
    BY <1>0, <2>6, MembersTypes
  <2>10. M!TypeOK' BY <1>0, <1>1, <2>5, <2>9, MembersTypes, MembersTypedBy
  <2>11. MakersSound' BY <2>8, <2>9 DEF MembersInv, MakersSound, MakerSound
  <2>12. M!LimitsPromised' BY <1>0, <1>3, <2>1, <2>3, MembersTypes DEF MembersInv, M!LimitsPromised
  <2> QED BY <2>10, <2>11, <2>12 DEF MembersInv
<1> QED BY <1>2, <1>3 DEF M!Create

\* Requests for an account, and the steps before and after its making.
LEMMA MakersStep ==
  ASSUME MembersInv, NEW m \in Maker,
         M!SeedAdmin(m) \/ M!Register(m) \/ M!CreateUser(m) \/ M!CliCreate(m) \/ M!Look(m) \/ M!SendLetter(m)
  PROVE  MembersInv'
<1>0. M!TypeOK BY DEF MembersInv
<1> USE <1>0, MembersTypes, IdleMaker
<1>1. M!Idle.way = "register" /\ M!Idle.role = "CUSTOMER" /\ M!Idle.chosen = FALSE BY DEF M!Idle
<1>2. CASE M!SeedAdmin(m)
  <2>1. seed' \subseteq M!Role \cup {"owner"} /\ UNCHANGED <<settings, cached, account, role, letter, changes>> BY <1>2 DEF M!SeedAdmin
  <2>2. CASE UNCHANGED maker
    <3>1. M!TypeOK' BY <2>1, <2>2, MembersTypedBy
    <3> QED BY <2>1, <2>2, <3>1 DEF MembersInv, MakersSound, M!LimitsPromised
  <2>3. ASSUME NEW n \in Name, maker' = [maker EXCEPT ![m] = [M!Idle EXCEPT !.at = "look", !.way = "seed", !.name = n, !.role = "OWNER",
                                    !.limit = M!UnlimitedAccountLimits, !.verified = TRUE]]
        PROVE  MembersInv'
    <3> DEFINE mk == [M!Idle EXCEPT !.at = "look", !.way = "seed", !.name = n, !.role = "OWNER",
                                    !.limit = M!UnlimitedAccountLimits, !.verified = TRUE]
    <3>1. mk \in MakerState BY DEF MakerState, M!Ways, M!Role, M!UnlimitedAccountLimits
    <3>2. mk.way = "seed" /\ mk.role = "OWNER" /\ mk.chosen = FALSE BY <1>1 DEF MakerState
    <3>3. MakerSound(mk) BY <3>2 DEF MakerSound
    <3>4. maker' = [maker EXCEPT ![m] = mk] BY <2>3
    <3> HIDE DEF mk
    <3> QED BY <2>1, <3>1, <3>3, <3>4, MakerStep
  <2> QED BY <1>2, <2>2, <2>3 DEF M!SeedAdmin
<1>3. CASE M!Register(m)
  <2>1. PICK n \in Name : M!Ask(m, [M!Idle EXCEPT !.at = "look", !.name = n, !.verified = ~cached.verify,
                               !.limit = M!DefaultAccountLimits(cached), !.seen = {cached.limit}])
    BY <1>3 DEF M!Register
  <2> DEFINE mk == [M!Idle EXCEPT !.at = "look", !.name = n, !.verified = ~cached.verify,
                               !.limit = M!DefaultAccountLimits(cached), !.seen = {cached.limit}]
  <2>2. mk \in MakerState BY DEF MakerState, M!DefaultAccountLimits
  <2>3. mk.way = "register" /\ mk.role = "CUSTOMER" /\ mk.chosen = FALSE /\ mk.limit \in mk.seen
    BY <1>1 DEF MakerState, M!DefaultAccountLimits
  <2>4. MakerSound(mk) BY <2>3 DEF MakerSound
  <2>5. M!Change /\ maker' = [maker EXCEPT ![m] = mk] BY <2>1 DEF M!Ask
  <2> HIDE DEF mk
  <2> QED BY <1>3, <2>2, <2>4, <2>5, ChangeTyped, MakerStep DEF M!Register
<1>4. CASE M!CreateUser(m)
  <2>1. PICK n \in Name, r \in M!Role, verified, chosen \in BOOLEAN :
          M!Ask(m, [M!Idle EXCEPT !.at = "look", !.way = "create", !.name = n, !.role = r, !.verified = verified,
                                !.chosen = chosen, !.limit = 0, !.seen = {cached.limit}])
    BY <1>4 DEF M!CreateUser
  <2> DEFINE mk == [M!Idle EXCEPT !.at = "look", !.way = "create", !.name = n, !.role = r, !.verified = verified,
                                !.chosen = chosen, !.limit = 0, !.seen = {cached.limit}]
  <2>2. mk \in MakerState BY DEF MakerState, M!Ways
  <2>3. mk.way = "create" BY DEF MakerState
  <2>4. MakerSound(mk) BY <2>3 DEF MakerSound
  <2>5. M!Change /\ maker' = [maker EXCEPT ![m] = mk] BY <2>1 DEF M!Ask
  <2> HIDE DEF mk
  <2> QED BY <1>4, <2>2, <2>4, <2>5, ChangeTyped, MakerStep DEF M!CreateUser
<1>5. CASE M!CliCreate(m)
  <2>1. PICK n \in Name, r \in M!Role :
          M!Ask(m, [M!Idle EXCEPT !.at = "look", !.way = "cli", !.name = n, !.role = r, !.verified = TRUE, !.seen = {settings.limit}])
    BY <1>5 DEF M!CliCreate
  <2> DEFINE mk == [M!Idle EXCEPT !.at = "look", !.way = "cli", !.name = n, !.role = r, !.verified = TRUE, !.seen = {settings.limit}]
  <2>2. mk \in MakerState BY DEF MakerState, M!Ways
  <2>3. mk.way = "cli" BY DEF MakerState
  <2>4. MakerSound(mk) BY <2>3 DEF MakerSound
  <2>5. M!Change /\ maker' = [maker EXCEPT ![m] = mk] BY <2>1 DEF M!Ask
  <2> HIDE DEF mk
  <2> QED BY <1>5, <2>2, <2>4, <2>5, ChangeTyped, MakerStep DEF M!CliCreate
<1>6. CASE M!Look(m)
  <2>1. maker[m] \in MakerState /\ MakerSound(maker[m]) /\ maker[m].at = "look" BY <1>6 DEF MembersInv, MakersSound, MakerSound, M!Look
  <2>2. PICK mk \in {[maker[m] EXCEPT !.at = "make"], M!Idle} : maker' = [maker EXCEPT ![m] = mk] BY <1>6 DEF M!Look
  <2>3. mk \in MakerState BY <2>1, <2>2 DEF MakerState
  <2>4. MakerSound(mk) BY <2>1, <2>2 DEF MakerSound, MakerState
  <2> QED BY <1>6, <2>2, <2>3, <2>4, MakerStep DEF M!Look
<1>7. CASE M!SendLetter(m)
  <2>1. letter' \in [Letter -> LetterState]
    <3>1. CASE UNCHANGED letter BY <3>1
    <3>2. ASSUME NEW l \in Letter, letter' = [letter EXCEPT ![l] = [of |-> maker[m].name, at |-> "sent"]] PROVE letter' \in [Letter -> LetterState]
      <4>1. [of |-> maker[m].name, at |-> "sent"] \in LetterState BY DEF LetterState, MakerState
      <4> QED BY <3>2, <4>1
    <3> QED BY <1>7, <3>1, <3>2 DEF M!SendLetter, M!SendVerificationEmail
  <2>2. maker' = [maker EXCEPT ![m] = M!Idle] /\ UNCHANGED <<settings, cached, account, role, seed, changes>> BY <1>7 DEF M!SendLetter
  <2> QED BY <2>1, <2>2, MakerStep DEF MakerSound
<1> QED BY <1>2, <1>3, <1>4, <1>5, <1>6, <1>7

\* Settings saved and read, the seed, letters and addresses.
LEMMA SettingsStep ==
  ASSUME MembersInv,
         M!SaveSettings \/ M!Refresh \/ M!Reseed \/ M!SeedRoles \/ M!SeedDies \/ M!Resend \/ M!Follow \/ M!UpdateProfile
  PROVE  MembersInv'
<1>0. M!TypeOK BY DEF MembersInv
<1> USE <1>0, MembersTypes
<1>1. CASE M!SaveSettings
  <2>1. settings' \in M!Settings /\ UNCHANGED <<cached, account, role, seed, maker, letter>> BY <1>1 DEF M!SaveSettings
  <2>2. M!TypeOK' BY <1>1, <2>1, ChangeTyped, MembersTypedBy DEF M!SaveSettings
  <2> QED BY <2>1, <2>2 DEF MembersInv, MakersSound, M!LimitsPromised
<1>2. CASE M!Refresh
  <2>1. UNCHANGED <<settings, account, role, seed, letter, changes>> /\ cached' = settings BY <1>2 DEF M!Refresh
  <2>2. ASSUME NEW q \in Maker
        PROVE  maker'[q] \in MakerState /\ MakerSound(maker'[q])
    <3>1. maker[q] \in MakerState /\ MakerSound(maker[q]) BY DEF MembersInv, MakersSound, MakerSound
    <3>2. CASE maker'[q] = maker[q] BY <3>1, <3>2
    <3>3. CASE maker'[q] = [maker[q] EXCEPT !.seen = @ \cup {settings.limit}]
      BY <3>1, <3>3 DEF MakerState, MakerSound
    <3> QED BY <1>2, <3>2, <3>3 DEF M!Refresh
  <2>3. maker' \in [Maker -> MakerState]
    <3>1. maker' = [q \in Maker |-> maker'[q]] BY <1>2 DEF M!Refresh
    <3> QED BY <2>2, <3>1
  <2>4. M!TypeOK' BY <2>1, <2>3, MembersTypedBy
  <2>5. MakersSound' BY <2>2 DEF MakersSound, MakerSound
  <2> QED BY <2>1, <2>4, <2>5 DEF MembersInv, M!LimitsPromised
<1>3. CASE M!Reseed \/ M!SeedRoles \/ M!SeedDies
  <2>1. UNCHANGED <<settings, cached, account, maker, letter>> /\ role' \subseteq M!Role /\ seed' \subseteq M!Role \cup {"owner"}
        /\ changes' \in 0 .. MaxChanges
    <3>1. CASE M!Reseed BY <3>1, ChangeTyped DEF M!Reseed
    <3>2. CASE M!SeedRoles \/ M!SeedDies BY <3>2 DEF M!SeedRoles, M!SeedDies
    <3> QED BY <1>3, <3>1, <3>2
  <2>2. M!TypeOK' BY <2>1, MembersTypedBy
  <2> QED BY <2>1, <2>2 DEF MembersInv, MakersSound, M!LimitsPromised
<1>4. CASE M!Resend
  <2>1. UNCHANGED <<settings, cached, account, role, seed, maker, changes>> BY <1>4 DEF M!Resend
  <2>2. PICK n \in Name, l \in Letter : letter' = [letter EXCEPT ![l] = [of |-> n, at |-> "sent"]]
    BY <1>4 DEF M!Resend, M!SendVerificationEmail
  <2>3. [of |-> n, at |-> "sent"] \in LetterState BY DEF LetterState
  <2>4. M!TypeOK' BY <2>1, <2>2, <2>3, MembersTypedBy
  <2> QED BY <2>1, <2>4 DEF MembersInv, MakersSound, M!LimitsPromised
<1>5. CASE M!Follow
  <2>1. UNCHANGED <<settings, cached, role, seed, maker, changes>> BY <1>5 DEF M!Follow
  <2>2. PICK l \in Letter : /\ letter' = [letter EXCEPT ![l].at = "used"]
                            /\ account' = [account EXCEPT ![letter[l].of].verified = TRUE]
    BY <1>5 DEF M!Follow
  <2>3. letter[l] \in LetterState OBVIOUS
  <2>4. [letter[l] EXCEPT !.at = "used"] \in LetterState BY <2>3 DEF LetterState
  <2>5. letter[l].of \in Name /\ account[letter[l].of] \in MemberAccount BY <2>3 DEF LetterState
  <2>6. [account[letter[l].of] EXCEPT !.verified = TRUE] \in MemberAccount BY <2>5 DEF MemberAccount
  <2>7. account' \in [Name -> MemberAccount] /\ letter' \in [Letter -> LetterState] BY <2>2, <2>4, <2>5, <2>6
  <2>8. M!TypeOK' BY <2>1, <2>7, MembersTypedBy
  <2>9. \A n \in Name : account'[n].role = account[n].role /\ account'[n].limit = account[n].limit
                        /\ account'[n].promised = account[n].promised
    BY <2>2, <2>5 DEF MemberAccount
  <2> QED BY <2>1, <2>8, <2>9 DEF MembersInv, MakersSound, M!LimitsPromised
<1>6. CASE M!UpdateProfile
  <2>1. UNCHANGED <<settings, cached, role, seed>> /\ changes' \in 0 .. MaxChanges BY <1>6, ChangeTyped DEF M!UpdateProfile
  <2>2. PICK n \in Name, to \in Name :
          /\ account[n].role # "none" /\ account[to].role = "none"
          /\ account' = [account EXCEPT ![n] = M!Nobody, ![to] =
                          [account[n] EXCEPT !.verified = account[n].verified /\ ~cached.verify]]
          /\ letter' = [l \in Letter |-> IF letter[l].of = n /\ letter[l].at = "sent"
                                         THEN [letter[l] EXCEPT !.of = to] ELSE letter[l]]
          /\ maker' = [m \in Maker |-> IF maker[m].at = "letter" /\ maker[m].name = n
                                       THEN [maker[m] EXCEPT !.name = to] ELSE maker[m]]
    BY <1>6 DEF M!UpdateProfile
  <2>3. account[n] \in MemberAccount /\ account[n].verified \in BOOLEAN BY DEF MemberAccount
  <2>4. PICK verified \in BOOLEAN : verified = (account[n].verified /\ ~cached.verify)
    <3>1. (account[n].verified /\ ~cached.verify) \in BOOLEAN BY <2>3
    <3> QED BY <3>1, Zenon
  <2>5. account' = [account EXCEPT ![n] = M!Nobody, ![to] = [account[n] EXCEPT !.verified = verified]] BY <2>2, <2>4, Zenon
  <2>6. [account[n] EXCEPT !.verified = verified] \in MemberAccount /\ M!Nobody \in MemberAccount
    BY <2>3 DEF MemberAccount, M!Nobody
  <2>7. account' \in [Name -> MemberAccount] BY <2>5, <2>6
  <2>8. letter' \in [Letter -> LetterState]
    <3>1. \A l \in Letter : letter[l] \in LetterState /\ [letter[l] EXCEPT !.of = to] \in LetterState
      <4> TAKE l \in Letter
      <4>1. letter[l] \in LetterState OBVIOUS
      <4> QED BY <4>1 DEF LetterState
    <3> QED BY <2>2, <3>1
  <2>9. \A m \in Maker : /\ maker[m] \in MakerState /\ [maker[m] EXCEPT !.name = to] \in MakerState
                         /\ MakerSound(maker[m]) /\ MakerSound([maker[m] EXCEPT !.name = to])
    <3> TAKE m \in Maker
    <3>1. maker[m] \in MakerState /\ MakerSound(maker[m]) BY DEF MembersInv, MakersSound, MakerSound
    <3>2. [maker[m] EXCEPT !.name = to] \in MakerState BY <3>1 DEF MakerState
    <3>3. MakerSound([maker[m] EXCEPT !.name = to]) BY <3>1 DEF MakerState, MakerSound
    <3> QED BY <3>1, <3>2, <3>3
  <2>10. maker' \in [Maker -> MakerState] BY <2>2, <2>9
  <2>11. \A m \in Maker : MakerSound(maker'[m]) BY <2>2, <2>9
  <2>12. M!TypeOK' BY <2>1, <2>7, <2>8, <2>10, MembersTypedBy
  <2>13. MakersSound' BY <2>11 DEF MakersSound, MakerSound
  <2>14. M!LimitsPromised'
    <3> SUFFICES ASSUME NEW p \in Name, account'[p].role # "none" PROVE account'[p].limit \in account'[p].promised
      BY DEF M!LimitsPromised
    <3>1. CASE p = to
      <4>1. account'[p] = [account[n] EXCEPT !.verified = verified] BY <2>5, <3>1
      <4>2. account'[p].limit = account[n].limit /\ account'[p].promised = account[n].promised BY <2>3, <4>1 DEF MemberAccount
      <4> QED BY <2>2, <4>2 DEF MembersInv, M!LimitsPromised
    <3>2. CASE p = n /\ p # to
      <4>1. account'[p] = M!Nobody BY <2>5, <3>2
      <4> QED BY <4>1 DEF M!Nobody
    <3>3. CASE p # n /\ p # to BY <2>5, <3>3 DEF MembersInv, M!LimitsPromised
    <3> QED BY <3>1, <3>2, <3>3
  <2> QED BY <2>12, <2>13, <2>14 DEF MembersInv
<1> QED BY <1>1, <1>2, <1>3, <1>4, <1>5, <1>6

LEMMA MembersStep == ASSUME MembersInv, M!Next PROVE MembersInv'
BY SettingsStep, MakersStep, CreateStep DEF M!Next

LEMMA MembersStart == ASSUME M!Init PROVE MembersInv
<1> USE IdentityAssumption DEF M!MembersAssumption
<1>1. (CHOOSE n \in Name : TRUE) \in Name OBVIOUS
<1>2. 0 \in M!Limit /\ 1 \in M!Limit /\ changes \in 0 .. MaxChanges BY DEF M!Limit, M!Init
<1>3. settings \in M!Settings /\ cached \in M!Settings BY <1>2 DEF M!Init, M!Settings
<1>4. M!Nobody \in MemberAccount /\ M!Nobody.role = "none" BY <1>2 DEF M!Nobody, MemberAccount
<1>5. M!Idle \in MakerState /\ M!Idle.at = "idle" BY <1>1, <1>2 DEF M!Idle, MakerState, M!Ways, M!Role
<1>6. M!Unsent \in LetterState BY <1>1 DEF M!Unsent, LetterState
<1>7. account \in [Name -> MemberAccount] /\ maker \in [Maker -> MakerState] /\ letter \in [Letter -> LetterState]
  BY <1>4, <1>5, <1>6 DEF M!Init
<1>8. M!TypeOK BY <1>2, <1>3, <1>7 DEF M!TypeOK, M!Init, MemberAccount, MakerState, LetterState
<1>9. MakersSound BY <1>5 DEF MakersSound, M!Init
<1>10. M!LimitsPromised BY <1>4 DEF M!LimitsPromised, M!Init
<1> QED BY <1>8, <1>9, <1>10 DEF MembersInv

-----------------------------------------------------------------------------
(***************************************************************************)
(* The whole: one part steps, the other two stand still.                       *)
(***************************************************************************)
LEMMA IdentityInit == Init => IdentityInv
BY SessionsStart, AccountStart, MembersStart DEF Init, IdentityInv

\* Whoever does not step stays as it is.
LEMMA SessionsStill == ASSUME SessionsInv, UNCHANGED sVars PROVE SessionsInv'
<1> USE DEF SessionsInv, sVars
<1>1. S!TypeOK' BY DEF S!TypeOK
<1>2. OneRequestPerTab' /\ TokensAreMinted' BY DEF OneRequestPerTab, TokensAreMinted, Busy, Sent
<1>3. SessionsAreBorn' BY DEF SessionsAreBorn, Knows, For
<1>4. RotationsRemembered' /\ EndsHaveCauses' BY DEF RotationsRemembered, EndsHaveCauses, S!Stands
<1>5. (Undisturbed => OneRequestPerJar /\ TokensAreOneBrowsers)'
  BY DEF Undisturbed, OneRequestPerJar, TokensAreOneBrowsers, Busy, Sent, From
<1>6. (Undisturbed => SpentTokensAreGone)' BY DEF Undisturbed, SpentTokensAreGone, S!Stands, Busy, Sent, From, Yields, For
<1>7. (Undisturbed => NewestTokenHeld)' BY DEF Undisturbed, NewestTokenHeld, S!Stands, Knows, Sent, From, Yields, For
<1> QED BY <1>1, <1>2, <1>3, <1>4, <1>5, <1>6, <1>7

LEMMA AccountStill == ASSUME AccountInv, UNCHANGED aVars PROVE AccountInv'
<1> USE AccountHas DEF aVars
<1>1. A!TypeOK' BY DEF A!TypeOK
<1>2. RequestsSound' BY DEF RequestsSound, RequestSound, A!At
<1>3. PasswordStays /\ CodesStay /\ SecretStays /\ CountStays
  BY DEF PasswordStays, CodesStay, SecretStays, CountStays, A!At
<1> QED BY <1>1, <1>2, <1>3, PasswordKept, CodesKept, SecretKept, CountKept, AccountParts

LEMMA MembersStill == ASSUME MembersInv, UNCHANGED mVars PROVE MembersInv'
BY DEF MembersInv, mVars, M!TypeOK, MakersSound, M!LimitsPromised

LEMMA IdentityStep == IdentityInv /\ [Next]_all => IdentityInv'
<1> SUFFICES ASSUME IdentityInv, [Next]_all PROVE IdentityInv' OBVIOUS
<1>1. SessionsInv'
  <2>1. S!Next \/ UNCHANGED sVars BY DEF Next, all
  <2> QED BY <2>1, SessionsStep, SessionsStill DEF IdentityInv
<1>2. AccountInv'
  <2>1. A!Next \/ UNCHANGED aVars BY DEF Next, all
  <2> QED BY <2>1, AccountStep, AccountStill DEF IdentityInv
<1>3. MembersInv'
  <2>1. M!Next \/ UNCHANGED mVars BY DEF Next, all
  <2> QED BY <2>1, MembersStep, MembersStill DEF IdentityInv
<1> QED BY <1>1, <1>2, <1>3 DEF IdentityInv

\* For every number of sessions, accounts and requests: every part's state is of its type,
\* an account has a limit it was promised, and one that is locked out does not stay so.
THEOREM AccountsSoundHolds == Spec => []AccountsSound
<1>1. IdentityInv => AccountsSound BY DEF IdentityInv, AccountsSound, SessionsInv, AccountInv, MembersInv
<1> QED BY <1>1, IdentityInit, IdentityStep, PTL DEF Spec

\* For any number of browsers, tabs, sessions and refreshes: rotation disturbs no browser
\* whose tabs do not overlap and who hears every answer.
THEOREM OneBrowserUndisturbedHolds == Spec => []OneBrowserUndisturbed
<1>1. IdentityInv => OneBrowserUndisturbed BY NobodyDisturbed DEF OneBrowserUndisturbed, IdentityInv
<1> QED BY <1>1, IdentityInit, IdentityStep, PTL DEF Spec

\* For any number of requests and passwords: whoever is signed in has the password of now,
\* but in the crossings the property names.
THEOREM OldPasswordOutHolds == Spec => []OldPasswordOut
<1>1. IdentityInv => OldPasswordOut BY DEF IdentityInv, AccountInv, OldPasswordLeaving, OldPasswordOut, A!OldPasswordOut
<1> QED BY <1>1, IdentityInit, IdentityStep, PTL DEF Spec

\* For any number of requests, secrets and codes: a code is used once, and an enabled
\* factor is one that was proved, but in the crossings the property names.
THEOREM FactorSoundHolds == Spec => []FactorSound
<1>1. IdentityInv => FactorSound BY DEF IdentityInv, AccountInv
<1> QED BY <1>1, IdentityInit, IdentityStep, PTL DEF Spec

\* For any number of sessions and refreshes: sessions live as SessionLife says, so that one
\* that was ended never works again; and a token its session was rotated away from ends all.
THEOREM SessionsEndHolds == Spec => SessionsEnd
<1>1. Init => S!Life!Init
  BY DEF Init, S!Init, S!Life!Init
<1>2. IdentityInv /\ IdentityInv' /\ [Next]_all => [S!Life!Next]_Fates
  <2> SUFFICES ASSUME SessionsInv, SessionsInv', [Next]_all PROVE S!Life!Next \/ Fates' = Fates BY DEF IdentityInv
  <2>1. CASE UNCHANGED sVars BY <2>1 DEF Fates, Fate, sVars
  <2>2. CASE S!Next BY <2>2, LifeStep DEF SessionsInv
  <2> QED BY <2>1, <2>2 DEF Next, all
<1>3. IdentityInv /\ IdentityInv' /\ [Next]_all =>
        [\A r \in Renewal, s \in Session :
           /\ S!At(r, "reuse") /\ ~S!At(r, "reuse")'
           /\ S!Stands(s) /\ replaced[s] = refresh[r].req.token
           => \A q \in Session : ~S!Works(q)']_(S!vars)
  <2>1. ASSUME SessionsInv, SessionsInv', S!Next, NEW r \in Renewal, NEW s \in Session,
               S!At(r, "reuse"), ~S!At(r, "reuse")', S!Stands(s), replaced[s] = refresh[r].req.token
        PROVE  \A q \in Session : ~S!Works(q)'
    <3>1. S!TypeOK' BY <2>1 DEF SessionsInv
    <3> QED BY <2>1, <3>1, ReplayStep
  <2>2. UNCHANGED sVars => UNCHANGED S!vars BY DEF sVars, S!vars
  <2> QED BY <2>1, <2>2 DEF IdentityInv, Next, all
<1>4. Spec => []IdentityInv BY IdentityInit, IdentityStep, PTL DEF Spec
<1>5. Spec => S!EndedForGood BY <1>1, <1>2, <1>4, PTL DEF Spec, S!EndedForGood, S!Life!Spec, Fates, Fate
<1>6. Spec => S!ReplayEndsAll BY <1>3, <1>4, PTL DEF Spec, S!ReplayEndsAll
<1> QED BY <1>5, <1>6 DEF SessionsEnd
===============================================================================
