------------------------------ MODULE MCIdentity ------------------------------
(***************************************************************************)
(* People on small instances: their sessions, one account, and how accounts come    *)
(* to be. A scene is one of the three; the other two stand still.                *)
(***************************************************************************)
EXTENDS Naturals, FiniteSets, TLC

CONSTANTS
  Session, NoSession, Jar, Tab, JarOf, Renewal, MaxTokens, MaxActs,
  j1, j2, t1, t2, t3, \* the jars and the tabs of the instance
  Request, Link, BackupCode, MaxAttempts, MaxSets, MaxRequests,
  Name, Maker, Letter, MaxChanges

VARIABLES
  scene,
  session, minted, jar, inFlight, refresh, acts, alarmed, spared, replaced, causes,
  password, factor, spent, throttle, link, opened, request, asked, confirmed, uses, crossings,
  settings, cached, account, role, seed, maker, letter, changes

\* Two tabs of one browser, and one of another.
MCJar   == {j1, j2}
MCTab   == {t1, t2, t3}
MCJarOf == (t1 :> j1) @@ (t2 :> j1) @@ (t3 :> j2)

S == INSTANCE Sessions
A == INSTANCE Account
M == INSTANCE Members

ASSUME IdentityAssumption == S!SessionsAssumption /\ A!AccountAssumption /\ M!MembersAssumption

sVars == <<session, minted, jar, inFlight, refresh, acts, alarmed, spared, replaced, causes>>
aVars == <<password, factor, spent, throttle, link, opened, request, asked, confirmed, uses, crossings>>
mVars == <<settings, cached, account, role, seed, maker, letter, changes>>
all   == <<scene, sVars, aVars, mVars>>

-----------------------------------------------------------------------------
Scenes == {"sessions", "account", "members"}

\* Where nothing happens one initial state is enough.
Still ==
  /\ scene # "account" => factor = A!NoFactor /\ ~password.weak /\ \A r \in Request : opened[r] = 0
  /\ scene # "members" => ~settings.verify

Init ==
  /\ scene \in Scenes
  /\ S!Init /\ A!Init /\ M!Init
  /\ Still

Next ==
  /\ UNCHANGED scene
  /\ \/ scene = "sessions" /\ S!Next /\ UNCHANGED <<aVars, mVars>>
     \/ scene = "account"  /\ A!Next /\ UNCHANGED <<sVars, mVars>>
     \/ scene = "members"  /\ M!Next /\ UNCHANGED <<sVars, aVars>>

Spec == Init /\ [][Next]_all

-----------------------------------------------------------------------------
\* The state of every part is of its type; what the settings promise an account it
\* has (Members); an account that is locked out does not stay so (Account).
AccountsSound ==
  /\ scene = "sessions" => S!TypeOK
  /\ scene = "account" => A!TypeOK /\ A!LockoutEnds
  /\ scene = "members" => M!TypeOK /\ M!LimitsPromised

\* The promises of Sessions, stated there: what was revoked stays so, and a token
\* used again ends all; a browser alone is never disturbed.
SessionsEnd           == S!EndedForGood /\ S!ReplayEndsAll
OneBrowserUndisturbed == S!OneBrowserUndisturbed
\* What a test says of "sign out everywhere else": the session asking survives.
SparedSurvives        == S!SparedSurvives

\* Those of Account.
OldPasswordOut == A!OldPasswordOut
FactorSound    == A!FactorSound
===============================================================================
