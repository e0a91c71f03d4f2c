------------------------------- MODULE Sessions -------------------------------
(***************************************************************************)
(* The sessions of one account: their rows, the rotation of their refresh    *)
(* tokens, and the browsers that hold the tokens in cookies.                *)
(*                                                                         *)
(* A jar is the cookies of one browser, shared by its tabs. Tokens are       *)
(* numbered as they are made. A request to refresh carries the token the jar  *)
(* had when it was sent; the panel reads the row, and writes it later; the    *)
(* answer puts the new token in the jar. Requests of several tabs, a sign-out *)
(* and a sign-in may all happen in between.                                 *)
(***************************************************************************)
EXTENDS Naturals, FiniteSets

CONSTANTS
  Session, NoSession,
  Jar, Tab, JarOf,    \* browsers, their tabs
  Renewal,            \* refreshes on their way at once
  MaxTokens, MaxActs  \* tokens made; sign-outs, copies and lost answers: bounds

SessionsAssumption ==
  /\ NoSession \notin Session
  /\ Tab # {} /\ JarOf \in [Tab -> Jar]
  /\ MaxTokens \in Nat /\ MaxActs \in Nat

VARIABLES
  session,  \* per session: its row, Unborn or Gone
  minted,   \* tokens made so far
  jar,      \* per browser: its cookies
  inFlight, \* tabs whose refreshInFlight is set
  refresh,  \* per slot: a request for /auth/refresh, or Idle
  acts,     \* acts spent
  alarmed,  \* somebody was told that a token was used again
  spared,   \* the session that last ended all others, until it is ended on purpose
  replaced, \* per session: the token its last rotation took it from, or 0 when
            \* another rotation had come between
  causes    \* why a token that is not good may be presented, for the properties

vars == <<session, minted, jar, inFlight, refresh, acts, alarmed, spared, replaced, causes>>

-----------------------------------------------------------------------------
Token  == 1 .. MaxTokens
Row    == [token : Token, prev : Token \cup {0}, revoked : BOOLEAN, expired : BOOLEAN]
Unborn == [token |-> 0, prev |-> 0, revoked |-> FALSE, expired |-> FALSE]
Gone   == [token |-> 0, prev |-> 0, revoked |-> TRUE, expired |-> TRUE]
Stands(s) == session[s] \notin {Unborn, Gone}
Works(s)  == Stands(s) /\ ~session[s].revoked /\ ~session[s].expired

\* fresh is the access cookie not being past its quarter of an hour.
Empty   == [token |-> 0, access |-> NoSession, fresh |-> FALSE]
Idle    == [at |-> "idle", token |-> 0, sid |-> NoSession]
RefreshState == [at : {"idle", "find", "reuse", "write", "answer", "fail"},
            token : Token \cup {0}, sid : Session \cup {NoSession}]

TypeOK ==
  /\ session \in [Session -> Row \cup {Unborn, Gone}]
  /\ minted \in 0 .. MaxTokens
  /\ jar \in [Jar -> [token : Token \cup {0}, access : Session \cup {NoSession}, fresh : BOOLEAN]]
  /\ inFlight \subseteq Tab
  /\ refresh \in [Renewal -> [tab : Tab, req : RefreshState]]
  /\ acts \in 0 .. MaxActs
  /\ alarmed \in BOOLEAN
  /\ spared \in Session \cup {NoSession}
  /\ replaced \in [Session -> Token \cup {0}]
  /\ causes \subseteq {"tabs", "copy", "lost", "ended"}

Init ==
  /\ session = [s \in Session |-> Unborn]
  /\ minted = 0
  /\ jar = [j \in Jar |-> Empty]
  /\ inFlight = {}
  /\ refresh = [r \in Renewal |-> [tab |-> CHOOSE t \in Tab : TRUE, req |-> Idle]]
  /\ acts = 0 /\ alarmed = FALSE /\ causes = {}
  /\ spared = NoSession /\ replaced = [s \in Session |-> 0]

Act == acts < MaxActs /\ acts' = acts + 1
At(r, step) == refresh[r].req.at = step
Go(r, step) == refresh' = [refresh EXCEPT ![r].req.at = step]

\* revokeAllSessions, perhaps but one.
Ended(some) == [s \in Session |-> IF s \in some /\ Stands(s) THEN [session[s] EXCEPT !.revoked = TRUE] ELSE session[s]]
Live        == {s \in Session : Stands(s) /\ ~session[s].revoked}

-----------------------------------------------------------------------------
\* issueSession and setAuthCookies, after a login or a registration.
IssueSession(j, s) ==
  /\ session[s] = Unborn /\ minted < MaxTokens
  /\ minted' = minted + 1
  /\ session' = [session EXCEPT ![s] = [token |-> minted + 1, prev |-> 0, revoked |-> FALSE, expired |-> FALSE]]
  /\ jar' = [jar EXCEPT ![j] = [token |-> minted + 1, access |-> s, fresh |-> TRUE]]
  /\ UNCHANGED <<inFlight, refresh, acts, alarmed, spared, replaced, causes>>

\* The access token runs out; the session does; a month goes by.
AccessExpires(j) ==
  /\ jar[j].fresh
  /\ jar' = [jar EXCEPT ![j].fresh = FALSE]
  /\ UNCHANGED <<session, minted, inFlight, refresh, acts, alarmed, spared, replaced, causes>>

SessionExpires(s) ==
  /\ Stands(s) /\ ~session[s].expired
  /\ Act
  /\ session' = [session EXCEPT ![s].expired = TRUE]
  /\ UNCHANGED <<minted, jar, inFlight, refresh, alarmed, spared, replaced, causes>>

PruneExpiredSessions ==
  /\ \E s \in Session : Stands(s) /\ (session[s].expired \/ session[s].revoked)
  /\ Act
  /\ \E old \in SUBSET {s \in Session : Stands(s) /\ session[s].revoked} :
       session' = [s \in Session |-> IF s \in old \/ (Stands(s) /\ session[s].expired) THEN Gone ELSE session[s]]
  /\ UNCHANGED <<minted, jar, inFlight, refresh, alarmed, spared, replaced, causes>>

\* A profile restored from a backup, or moved to another machine.
CopyJar(from, to) ==
  /\ from # to /\ jar[from] # Empty
  /\ Act
  /\ jar' = [jar EXCEPT ![to] = jar[from]]
  /\ causes' = causes \cup {"copy"}
  /\ UNCHANGED <<session, minted, inFlight, refresh, alarmed, spared, replaced>>

-----------------------------------------------------------------------------
(***************************************************************************)
(* fromJwt: the row is asked on every request. A request that is refused     *)
(* makes its tab refresh, once at a time, whichever requests want it.        *)
(***************************************************************************)
Signed(j) == jar[j].fresh /\ jar[j].access # NoSession /\ Works(jar[j].access)

Coalesced_Not(t) == TRUE
Coalesced(t) == t \notin inFlight

RefreshSession(t) ==
  LET j == JarOf[t] IN
  /\ ~Signed(j) /\ jar[j].token # 0
  /\ Coalesced(t)
  /\ \E r \in Renewal :
       /\ At(r, "idle") /\ refresh' = [refresh EXCEPT ![r] = [tab |-> t,
                                         req |-> [at |-> "find", token |-> jar[j].token, sid |-> NoSession]]]
       /\ causes' = IF \E q \in Renewal : refresh[q].tab # t /\ JarOf[refresh[q].tab] = j /\ ~At(q, "idle")
                     THEN causes \cup {"tabs"} ELSE causes
  /\ inFlight' = inFlight \cup {t}
  /\ UNCHANGED <<session, minted, jar, acts, alarmed, spared, replaced>>

-----------------------------------------------------------------------------
(***************************************************************************)
(* rotateSession.                                                          *)
(***************************************************************************)
Holding(token) == {s \in Session : Stands(s) /\ session[s].token = token}
Held(token)    == {s \in Session : Stands(s) /\ session[s].prev = token}

Reused ==
  /\ session' = Ended(Live)
  /\ alarmed' = TRUE

Find(r) ==
  LET found == Holding(refresh[r].req.token) IN
  /\ At(r, "find")
  /\ \/ found = {} /\ Go(r, "reuse") /\ UNCHANGED <<session, alarmed>>
     \/ \E s \in found :
          \/ session[s].revoked /\ Reused /\ Go(r, "fail")
          \/ /\ ~session[s].revoked /\ session[s].expired
             /\ session' = [session EXCEPT ![s] = Gone] /\ Go(r, "fail")
             /\ UNCHANGED alarmed
          \/ /\ Works(s)
             /\ refresh' = [refresh EXCEPT ![r].req = [@ EXCEPT !.at = "write", !.sid = s]]
             /\ UNCHANGED <<session, alarmed>>
  /\ UNCHANGED <<minted, jar, inFlight, acts, spared, replaced, causes>>

HandleTokenReuse(r) ==
  /\ At(r, "reuse") /\ Go(r, "fail")
  /\ IF Held(refresh[r].req.token) # {} THEN Reused ELSE UNCHANGED <<session, alarmed>>
  /\ UNCHANGED <<minted, jar, inFlight, acts, spared, replaced, causes>>

\* The row is updated by its id, whatever it holds by now; one that is gone throws.
Rotated_Forgets(row, token) == [row EXCEPT !.token = minted + 1]

Rotated(row, token) == [row EXCEPT !.token = minted + 1, !.prev = token]

Rotate(r) ==
  LET s == refresh[r].req.sid IN
  /\ At(r, "write")
  /\ \/ /\ Stands(s) /\ minted < MaxTokens
        /\ session' = [session EXCEPT ![s] = Rotated(@, refresh[r].req.token)]
        /\ minted' = minted + 1
        /\ refresh' = [refresh EXCEPT ![r].req = [@ EXCEPT !.at = "answer", !.token = minted + 1]]
        /\ replaced' = [replaced EXCEPT ![s] = IF session[s].token = refresh[r].req.token THEN session[s].token ELSE 0]
     \/ ~Stands(s) /\ Go(r, "fail") /\ UNCHANGED <<session, minted, replaced>>
  /\ UNCHANGED <<jar, inFlight, acts, alarmed, spared, causes>>

\* The answer reaches the browser, or does not.
Settle(r) ==
  /\ refresh' = [refresh EXCEPT ![r].req = Idle]
  /\ inFlight' = inFlight \ {refresh[r].tab}

Answer(r) ==
  /\ At(r, "answer")
  /\ jar' = [jar EXCEPT ![JarOf[refresh[r].tab]] =
               [token |-> refresh[r].req.token, access |-> refresh[r].req.sid, fresh |-> TRUE]]
  /\ Settle(r)
  /\ UNCHANGED <<session, minted, acts, alarmed, spared, replaced, causes>>

Lose(r) ==
  /\ At(r, "answer")
  /\ Act /\ Settle(r)
  /\ causes' = causes \cup {"lost"}
  /\ UNCHANGED <<session, minted, jar, alarmed, spared, replaced>>

Refuse(r) ==
  /\ At(r, "fail") /\ Settle(r)
  /\ UNCHANGED <<session, minted, jar, acts, alarmed, spared, replaced, causes>>

-----------------------------------------------------------------------------
(***************************************************************************)
(* Sessions ended on purpose. Their browsers still hold the token, and will  *)
(* present it.                                                             *)
(***************************************************************************)
\* By the cookie: a token that was rotated away ends nothing.
Logout(j) ==
  /\ jar[j].token # 0
  /\ Act
  /\ session' = Ended(Holding(jar[j].token))
  /\ jar' = [jar EXCEPT ![j] = Empty]
  /\ causes' = causes \cup {"ended"}
  /\ spared' = IF spared \in Holding(jar[j].token) THEN NoSession ELSE spared
  /\ UNCHANGED <<minted, inFlight, refresh, alarmed, replaced>>

RevokeSession(j, s) ==
  /\ Signed(j) /\ Stands(s)
  /\ Act
  /\ session' = Ended({s})
  /\ causes' = causes \cup {"ended"}
  /\ spared' = IF spared = s THEN NoSession ELSE spared
  /\ UNCHANGED <<minted, jar, inFlight, refresh, alarmed, replaced>>

\* "Sign out everywhere else", and a change of password.
RevokeOthers(j) ==
  /\ Signed(j)
  /\ Act
  /\ session' = Ended(Live \ {jar[j].access})
  /\ spared' = jar[j].access
  /\ causes' = causes \cup {"ended"}
  /\ UNCHANGED <<minted, jar, inFlight, refresh, alarmed, replaced>>

\* A reset password; an administrator's suspension or new password.
RevokeAll ==
  /\ Live # {}
  /\ Act
  /\ session' = Ended(Live)
  /\ spared' = NoSession
  /\ causes' = causes \cup {"ended"}
  /\ UNCHANGED <<minted, jar, inFlight, refresh, alarmed, replaced>>

-----------------------------------------------------------------------------
RefreshStep(r) == Find(r) \/ HandleTokenReuse(r) \/ Rotate(r) \/ Answer(r) \/ Refuse(r)

Next ==
  \/ \E j \in Jar : \/ AccessExpires(j) \/ Logout(j) \/ RevokeOthers(j)
                    \/ \E s \in Session : IssueSession(j, s) \/ RevokeSession(j, s)
                    \/ \E to \in Jar : CopyJar(j, to)
  \/ \E s \in Session : SessionExpires(s)
  \/ \E t \in Tab : RefreshSession(t)
  \/ \E r \in Renewal : RefreshStep(r) \/ Lose(r)
  \/ RevokeAll \/ PruneExpiredSessions

Spec == Init /\ [][Next]_vars

-----------------------------------------------------------------------------
Life == INSTANCE SessionLife WITH
          life <- [s \in Session |-> IF session[s] = Unborn THEN "unborn"
                                     ELSE IF session[s] = Gone THEN "gone"
                                     ELSE IF session[s].revoked THEN "ended" ELSE "live"]

\* A session that was revoked stays so, whichever rotation read it before: the
\* write of a refresh that is late does not bring it back.
EndedForGood == Life!Spec

\* A token that its session was rotated away from, presented again, ends every
\* session there is: of two holders of one token neither goes on. Except where
\* two rotations of one token overlapped, which leaves a token nobody remembers.
ReplayEndsAll ==
  [][\A r \in Renewal, s \in Session :
       /\ At(r, "reuse") /\ ~At(r, "reuse")'
       /\ Stands(s) /\ replaced[s] = refresh[r].req.token
       => \A q \in Session : ~Works(q)']_vars

\* Rotation disturbs no browser with one tab that hears every answer, however many
\* of its requests are refused at once. The alarm of a token used again, which ends
\* every session of the account, is not set off; and the cookie, once all requests
\* have been answered, is the newest token of its session.
OneBrowserUndisturbed ==
  /\ alarmed => causes # {}
  /\ \A j \in Jar, s \in Session :
       /\ jar[j].access = s /\ Works(s) /\ causes \subseteq {"ended"}
       /\ \A r \in Renewal : JarOf[refresh[r].tab] # j \/ At(r, "idle")
       => jar[j].token = session[s].token

\* account-sessions.test.ts: "The session making the request survives, or "sign
\* out everywhere else" would be "sign out"".
SparedSurvives ==
  spared # NoSession /\ causes \subseteq {"ended"} => ~session[spared].revoked
===============================================================================
