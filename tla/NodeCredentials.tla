---------------------------- MODULE NodeCredentials ----------------------------
(***************************************************************************)
(* What a node and the panel know each other by. A token is made by an        *)
(* administrator, by the page that shows the agent's configuration, by a      *)
(* claim the installer redeems, or on the command line; the installer puts one *)
(* on the machine, and the agent runs with it. The agent presents its token;   *)
(* the panel signs with the newest one that stands.                         *)
(*                                                                         *)
(* Tokens are numbered as they are made; a configuration is its token.       *)
(***************************************************************************)
EXTENDS Naturals, FiniteSets

CONSTANTS
  Link, NoClaim,     \* installation links, each for fifteen minutes
  Installer,          \* runs of install-node.sh
  MaxTokens           \* tokens made: a bound

\* A node is created with a token.
CredentialsAssumption == NoClaim \notin Link /\ MaxTokens \in Nat \ {0}

VARIABLES
  registered, \* the node has a row
  token,    \* per number: NodeToken, or Unmade
  shown,    \* tokens that a page or a terminal showed somebody
  claim,    \* per link
  issued,   \* per link: tokens given for it
  install,  \* per installer
  file,     \* the token in /etc/storm/agent.env, or 0
  agent     \* the token the agent runs with, or 0

vars == <<registered, token, shown, claim, issued, install, file, agent>>

Number == 1 .. MaxTokens
Unmade == [name |-> "none", stands |-> FALSE, used |-> FALSE]
Names  == {"none", "initial", "default", "configuration", "cli-rotation"}

TypeOK ==
  /\ registered \in BOOLEAN
  /\ token \in [Number -> [name : Names, stands : BOOLEAN, used : BOOLEAN]]
  /\ shown \subseteq Number
  /\ claim \in [Link -> {"unmade", "live", "taken", "expired"}]
  /\ issued \in [Link -> 0 .. MaxTokens]
  /\ install \in [Installer -> [at : {"idle", "asking", "issue", "fetched", "failed", "done"},
                                claim : Link \cup {NoClaim}, token : Number \cup {0}]]
  /\ file \in Number \cup {0} /\ agent \in Number \cup {0}

Made     == {t \in Number : token[t] # Unmade}
Standing == {t \in Number : token[t].stands}
Next1    == Cardinality(Made) + 1

\* The node is created with one token, so that it is of some use.
Init ==
  /\ registered = TRUE
  /\ token = [t \in Number |-> IF t = 1 THEN [name |-> "initial", stands |-> TRUE, used |-> FALSE] ELSE Unmade]
  /\ shown = {1}
  /\ claim = [c \in Link |-> "unmade"] /\ issued = [c \in Link |-> 0]
  /\ install = [i \in Installer |-> [at |-> "idle", claim |-> NoClaim, token |-> 0]]
  /\ file = 0 /\ agent = 0

-----------------------------------------------------------------------------
(***************************************************************************)
(* Making and revoking tokens.                                             *)
(***************************************************************************)
Mint(name, revoked) ==
  /\ registered /\ Next1 \in Number
  /\ token' = [t \in Number |-> IF t = Next1 THEN [name |-> name, stands |-> TRUE, used |-> FALSE]
                                ELSE IF t \in revoked THEN [token[t] EXCEPT !.stands = FALSE] ELSE token[t]]

\* Configuration tokens that no node ever presented go when the next is made.
NeverUsed_All == {t \in Standing : token[t].name = "configuration"}
NeverUsed     == {t \in Standing : token[t].name = "configuration" /\ ~token[t].used}

MintToken ==
  /\ Mint("default", {}) /\ shown' = shown \cup {Next1}
  /\ UNCHANGED <<registered, claim, issued, install, file, agent>>

IssueNodeConfiguration == Mint("configuration", NeverUsed)

ReadConfiguration ==
  /\ IssueNodeConfiguration /\ shown' = shown \cup {Next1}
  /\ UNCHANGED <<registered, claim, issued, install, file, agent>>

\* storm node token, perhaps with --keep-existing.
RotateToken ==
  /\ \E revoked \in {Standing, {}} : Mint("cli-rotation", revoked)
  /\ shown' = shown \cup {Next1}
  /\ UNCHANGED <<registered, claim, issued, install, file, agent>>

RevokeToken(t) ==
  /\ registered /\ t \in Standing
  /\ token' = [token EXCEPT ![t].stands = FALSE]
  /\ UNCHANGED <<registered, shown, claim, issued, install, file, agent>>

\* Its tokens go with the node; its links do not.
DeleteNode ==
  /\ registered
  /\ registered' = FALSE
  /\ token' = [t \in Number |-> [token[t] EXCEPT !.stands = FALSE]]
  /\ UNCHANGED <<shown, claim, issued, install, file, agent>>

-----------------------------------------------------------------------------
(***************************************************************************)
(* A link, and the installers it may be pasted into.                         *)
(***************************************************************************)
CreateBootstrapClaim(c) ==
  /\ registered /\ claim[c] = "unmade"
  /\ claim' = [claim EXCEPT ![c] = "live"]
  /\ UNCHANGED <<registered, token, shown, issued, install, file, agent>>

ClaimExpires(c) ==
  /\ claim[c] = "live" /\ claim' = [claim EXCEPT ![c] = "expired"]
  /\ UNCHANGED <<registered, token, shown, issued, install, file, agent>>

Step(i, at) == install' = [install EXCEPT ![i].at = at]

Paste(i, c) ==
  /\ install[i].at = "idle" /\ claim[c] # "unmade"
  /\ install' = [install EXCEPT ![i] = [at |-> "asking", claim |-> c, token |-> 0]]
  /\ UNCHANGED <<registered, token, shown, claim, issued, file, agent>>

\* GETDEL.
Taken(c) == [claim EXCEPT ![c] = "taken"]

RedeemBootstrapClaim(i) ==
  LET c == install[i].claim IN
  /\ install[i].at = "asking"
  /\ IF claim[c] = "live" THEN claim' = Taken(c) /\ Step(i, "issue")
                          ELSE Step(i, "failed") /\ UNCHANGED claim
  /\ UNCHANGED <<registered, token, shown, issued, file, agent>>

\* Issued, unless the node has gone; the answer may be lost on its way.
IssueToInstaller(i) ==
  LET c == install[i].claim IN
  /\ install[i].at = "issue"
  /\ \/ /\ IssueNodeConfiguration
        /\ issued' = [issued EXCEPT ![c] = @ + 1]
        /\ \/ install' = [install EXCEPT ![i] = [@ EXCEPT !.at = "fetched", !.token = Next1]]
           \/ Step(i, "failed")
     \/ ~registered /\ Step(i, "failed") /\ UNCHANGED <<token, issued>>
  /\ UNCHANGED <<registered, shown, claim, file, agent>>

\* The configuration by hand: a file from the page, or values typed in.
ReadConfigFile(i) ==
  /\ install[i].at = "idle"
  /\ \E t \in shown : install' = [install EXCEPT ![i] = [at |-> "fetched", claim |-> NoClaim, token |-> t]]
  /\ UNCHANGED <<registered, token, shown, claim, issued, file, agent>>

\* agent.env is written at once, the service restarted a while later.
WriteConfiguration(i) ==
  /\ install[i].at = "fetched" /\ Step(i, "done")
  /\ file' = install[i].token
  /\ UNCHANGED <<registered, token, shown, claim, issued, agent>>

StartAgent ==
  /\ file # 0 /\ agent # file /\ agent' = file
  /\ UNCHANGED <<registered, token, shown, claim, issued, install, file>>

-----------------------------------------------------------------------------
(***************************************************************************)
(* Each side's credentials in use. That a token was used may fail to be       *)
(* written down.                                                           *)
(***************************************************************************)
AuthenticateNode ==
  /\ agent \in Standing /\ ~token[agent].used
  /\ token' = [token EXCEPT ![agent].used = TRUE]
  /\ UNCHANGED <<registered, shown, claim, issued, install, file, agent>>

\* What the panel signs its own requests with, and whether the agent knows it.
Credentials == IF Standing = {} THEN 0 ELSE CHOOSE t \in Standing : \A u \in Standing : u <= t
VerifyPanel == Credentials # 0 /\ Credentials = agent

Next ==
  \/ MintToken \/ ReadConfiguration \/ RotateToken \/ DeleteNode
  \/ \E t \in Number : RevokeToken(t)
  \/ \E c \in Link : CreateBootstrapClaim(c) \/ ClaimExpires(c) \/ \E i \in Installer : Paste(i, c)
  \/ \E i \in Installer : RedeemBootstrapClaim(i) \/ IssueToInstaller(i) \/ ReadConfigFile(i) \/ WriteConfiguration(i)
  \/ StartAgent \/ AuthenticateNode

Spec == Init /\ [][Next]_vars

-----------------------------------------------------------------------------
\* Two installers that race for one link do not both get credentials for it.
ClaimOnce == \A c \in Link : issued[c] <= 1

\* A token that a node has presented is revoked by nobody who did not mean to:
\* not by the page, and not by another installer.
InServiceStays ==
  [][\A t \in Number :
       token[t].used /\ token[t].stands /\ ~token'[t].stands
         => RevokeToken(t) \/ RotateToken \/ DeleteNode]_vars

\* docs/NODE-AGENT.md: "The token a running node is authenticating with is left
\* alone, so looking at the page cannot take a node offline." The panel can give
\* orders to a node in service, if all that happened since is that somebody read
\* the configuration.
LookingIsHarmless ==
  /\ agent \in Standing /\ token[agent].used
  /\ \A t \in Made : t > agent => token[t].name = "configuration" /\ t \in shown
  => VerifyPanel
===============================================================================
