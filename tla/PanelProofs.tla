------------------------------ MODULE PanelProofs ------------------------------
(***************************************************************************)
(* What is proved of MCPanel, for any number of ports, requests, links, tokens,   *)
(* things, files, players, lines, characters, ticks and commits: that claims of       *)
(* ports implement PortOwnership; that every part's state is of its type; and what the *)
(* parts promise (ReadWhole, NoMoreThanGranted, NothingLost, TextsKept, InServiceStays, *)
(* Findable). A part has its invariant, inductive by itself, and its step keeps it.    *)
(***************************************************************************)
EXTENDS MCPanel, FiniteSetTheorems, SequenceTheorems, TLAPS

-----------------------------------------------------------------------------
(***************************************************************************)
(* Ports. A step that writes holder grants what the claim's predicate found free,     *)
(* or returns, provides or withdraws ports; every other step leaves holder alone.     *)
(* The type invariant says whom a request on its way is for.                       *)
(***************************************************************************)
\* Before anything happened the rows are of their type.
LEMMA TypeInit == Init => TypeOK
BY DEF Init, TypeOK

\* No step of the ports leaves their type.
LEMMA TypeStep == TypeOK /\ [Next]_vars => TypeOK'
<1> SUFFICES ASSUME TypeOK, [Next]_vars PROVE TypeOK'
  OBVIOUS
<1>1. ASSUME NEW r \in Requests, Ask(r) PROVE TypeOK'
  <2>1. \/ \E op \in Ops \ {"withdraw"}, s \in Servers, p \in Ports, more \in SUBSET Ports :
             Asks(r, op, s, p, more)
        \/ \E p \in Ports : Asks(r, "withdraw", Nobody, p, {})
    BY <1>1 DEF Ask, AskCreate, AskClaim, AskRemove, AskChoose, AskWithdraw, Ops, PortsOf
  <2>2. \E asks \in Request : req' = [req EXCEPT ![r] = asks]
    BY <2>1 DEF Asks, Request
  <2>3. UNCHANGED <<holder, primary, life>>
    BY <2>1 DEF Asks
  <2> QED
    BY <2>2, <2>3 DEF TypeOK
<1>2. ASSUME NEW r \in Requests, Write(r) PROVE TypeOK'
  <2>1. PICK op \in Ops : Answers(r, op)
    BY <1>2 DEF Write, Create, Claim, Remove, Choose, Withdraw, Ops
  <2>2. /\ req[r] \in Request
        /\ req' \in [Requests -> Request \cup {Idle}]
    BY <2>1 DEF Answers, TypeOK
  <2>3. /\ req[r].port \in Ports /\ req[r].more \subseteq Ports
        /\ req[r].server \in Servers \cup {Nobody}
    BY <2>2 DEF Request
  <2>4. CASE Create(r)
    <3> DEFINE s == req[r].server
               whole == {req[r].port} \cup req[r].more
    <3>1. Complete(whole) /\ Hold({p \in whole : Claimable(p)}, s)
          /\ primary' = primary \cup {req[r].port} /\ life' = [life EXCEPT ![s] = "live"]
      BY <2>4 DEF Create
    <3>2. whole \subseteq Ports /\ {p \in whole : Claimable(p)} = whole
      BY <2>3, <3>1 DEF Complete
    <3>3. holder' = [p \in Ports |-> IF p \in whole THEN s ELSE holder[p]]
      BY <3>1, <3>2 DEF Hold
    <3>4. holder' \in [Ports -> Servers \cup {Nobody, Absent}]
      BY <2>3, <3>3 DEF TypeOK
    <3>5. primary' \subseteq {p \in Ports : holder'[p] # Absent}
      BY <2>3, <3>1, <3>3, AllocationsAssumption DEF TypeOK, AllocationsAssumption
    <3> QED
      BY <2>2, <3>1, <3>4, <3>5 DEF TypeOK
  <2>5. CASE Claim(r)
    BY <2>2, <2>3, <2>5, AllocationsAssumption DEF Claim, Hold, TypeOK, AllocationsAssumption
  <2>6. CASE Remove(r)
    BY <2>2, <2>3, <2>6, AllocationsAssumption DEF Remove, Hold, TypeOK, AllocationsAssumption
  <2>7. CASE Choose(r)
    BY <2>2, <2>3, <2>7 DEF Choose, Choosable, TypeOK
  <2>8. CASE Withdraw(r)
    BY <2>2, <2>3, <2>8 DEF Withdraw, Hold, TypeOK
  <2> QED
    BY <1>2, <2>4, <2>5, <2>6, <2>7, <2>8 DEF Write
<1>3. ASSUME NEW r \in Requests, Fails(r) PROVE TypeOK'
  BY <1>3 DEF Fails, Answers, TypeOK
<1>4. ASSUME NEW s \in Servers, DeleteServer(s) PROVE TypeOK'
  BY <1>4, AllocationsAssumption DEF DeleteServer, Hold, PortsOf, TypeOK, AllocationsAssumption
<1>5. CASE Prune
  BY <1>5 DEF Prune, Pruned, Hold, TypeOK
<1>6. CASE Provide
  <2>1. PICK ports \in SUBSET {p \in Ports : holder[p] = Absent} : Hold(ports, Nobody)
    BY <1>6 DEF Provide
  <2> QED
    BY <1>6, <2>1, AllocationsAssumption DEF Provide, Hold, TypeOK, AllocationsAssumption
<1>7. CASE UNCHANGED vars
  BY <1>7 DEF vars, TypeOK
<1> QED
  BY <1>1, <1>2, <1>3, <1>4, <1>5, <1>6, <1>7 DEF Next

\* Every step grants, returns, provides or withdraws ports, or leaves them.
LEMMA StepMaps == TypeOK /\ [Next]_vars => [Ownership!Next]_holder
<1> SUFFICES ASSUME TypeOK, [Next]_vars, holder' # holder PROVE Ownership!Next
  OBVIOUS
<1> USE DEF Ownership!Given, Hold
<1>1. ASSUME NEW r \in Requests, Ask(r) PROVE FALSE
  BY <1>1 DEF Ask, AskCreate, AskClaim, AskRemove, AskChoose, AskWithdraw, Asks
<1>2. ASSUME NEW r \in Requests, Write(r) PROVE Ownership!Next
  <2>1. PICK op \in Ops : Answers(r, op)
    BY <1>2 DEF Write, Create, Claim, Remove, Choose, Withdraw, Ops
  <2>2. req[r] \in Request
    BY <2>1 DEF Answers, TypeOK
  <2>3. req[r].port \in Ports /\ req[r].more \subseteq Ports
    BY <2>2 DEF Request
  <2>4. CASE Create(r)
    <3> DEFINE s == req[r].server
               whole == {p \in {req[r].port} \cup req[r].more : Claimable(p)}
    <3>1. s \in Servers
      BY <2>2, <2>4 DEF Create, Answers, Request
    <3>2. whole \in SUBSET Ports /\ \A p \in whole : holder[p] = Nobody
      BY <2>3 DEF Claimable
    <3>3. Hold(whole, s)
      BY <2>4 DEF Create
    <3>4. Ownership!Grant(s, whole)
      BY <3>2, <3>3 DEF Ownership!Grant
    <3> QED
      BY <3>1, <3>2, <3>4 DEF Ownership!Next
  <2>5. CASE Claim(r)
    <3>1. req[r].server \in Servers
      BY <2>2, <2>5 DEF Claim, Answers, Request
    <3>2. {req[r].port} \in SUBSET Ports
          /\ Ownership!Grant(req[r].server, {req[r].port})
      BY <2>3, <2>5 DEF Claim, Claimable, Ownership!Grant
    <3> QED
      BY <3>1, <3>2 DEF Ownership!Next
  <2>6. CASE Remove(r)
    <3>1. {req[r].port} \in SUBSET Ports /\ Ownership!Return({req[r].port})
      BY <2>3, <2>6 DEF Remove, Ownership!Return
    <3> QED
      BY <3>1 DEF Ownership!Next
  <2>7. CASE Choose(r)
    BY <2>7 DEF Choose
  <2>8. CASE Withdraw(r)
    <3>1. {req[r].port} \in SUBSET Ports /\ Ownership!Withdraw({req[r].port})
      BY <2>3, <2>8 DEF Withdraw, Ownership!Withdraw
    <3> QED
      BY <3>1 DEF Ownership!Next
  <2> QED
    BY <1>2, <2>4, <2>5, <2>6, <2>7, <2>8 DEF Write
<1>3. ASSUME NEW r \in Requests, Fails(r) PROVE FALSE
  BY <1>3 DEF Fails
<1>4. ASSUME NEW s \in Servers, DeleteServer(s) PROVE Ownership!Next
  <2>1. PortsOf(s) \in SUBSET Ports /\ Ownership!Return(PortsOf(s))
    BY <1>4, AllocationsAssumption
       DEF DeleteServer, PortsOf, Ownership!Return, AllocationsAssumption
  <2> QED
    BY <2>1 DEF Ownership!Next
<1>5. CASE Prune
  <2>1. Pruned \in SUBSET Ports /\ Ownership!Withdraw(Pruned)
    BY <1>5 DEF Prune, Pruned, Ownership!Withdraw
  <2> QED
    BY <2>1 DEF Ownership!Next
<1>6. CASE Provide
  <2>1. PICK ports \in SUBSET {p \in Ports : holder[p] = Absent} : Hold(ports, Nobody)
    BY <1>6 DEF Provide
  <2>2. ports \in SUBSET Ports /\ Ownership!Provide(ports)
    BY <2>1 DEF Ownership!Provide
  <2> QED
    BY <2>2 DEF Ownership!Next
<1>7. CASE UNCHANGED vars
  BY <1>7 DEF vars
<1> QED
  BY <1>1, <1>2, <1>3, <1>4, <1>5, <1>6, <1>7 DEF Next

\* Only a creation brings a server to life, and it finds everything it asked for
\* free in the step that claims it.
LEMMA BornStep ==
  ASSUME TypeOK, [Next]_vars, NEW s \in Servers, life[s] = "unborn", life'[s] = "live"
  PROVE  \E r \in Requests :
           /\ req[r] # Idle /\ req[r].op = "create" /\ req[r].server = s
           /\ \A p \in {req[r].port} \cup req[r].more : holder'[p] = s
           /\ req[r].port \in primary'
<1>1. PICK r \in Requests : Create(r)
  <2>1. ASSUME NEW r \in Requests, Ask(r) \/ Fails(r) PROVE FALSE
    BY <2>1 DEF Ask, AskCreate, AskClaim, AskRemove, AskChoose, AskWithdraw, Asks, Fails
  <2>2. ASSUME NEW q \in Servers, DeleteServer(q) PROVE FALSE
    BY <2>2 DEF DeleteServer, TypeOK
  <2> QED
    BY <2>1, <2>2 DEF Next, vars, Write, Claim, Remove, Choose, Withdraw, Prune, Provide
<1>2. req[r] # Idle /\ req[r].op = "create" /\ req[r] \in Request
  BY <1>1 DEF Create, Answers, TypeOK
<1>3. req[r].server = s
  BY <1>1, <1>2 DEF Create, TypeOK
<1>4. {req[r].port} \cup req[r].more \subseteq Ports
  BY <1>2 DEF Request
<1>5. \A p \in {req[r].port} \cup req[r].more : holder'[p] = s
  BY <1>1, <1>3, <1>4 DEF Create, Complete, Hold
<1>6. req[r].port \in primary'
  BY <1>1 DEF Create
<1> QED
  BY <1>2, <1>3, <1>5, <1>6

-----------------------------------------------------------------------------
(***************************************************************************)
(* Node credentials. A link that somebody took has given at most one token, and an     *)
(* installer that may still be given one is the only such installer of its link.      *)
(***************************************************************************)
\* Whoever redeems a link, or is about to be issued a token for it, has one.
HasLink == \A i \in Installer : install[i].at \in {"asking", "issue"} => install[i].claim \in Link

\* Until a link is taken nothing is issued for it; the installer that took it is alone
\* with it, and nothing is issued for it before that installer is.
TakenOnce ==
  /\ \A c \in Link : claim[c] # "taken" => issued[c] = 0
  /\ \A i \in Installer : install[i].at = "issue" => /\ claim[install[i].claim] = "taken"
                                                     /\ issued[install[i].claim] = 0
  /\ \A i, k \in Installer : install[i].at = "issue" /\ install[k].at = "issue" /\ i # k =>
       install[i].claim # install[k].claim

CredentialsInv == N!TypeOK /\ HasLink /\ TakenOnce /\ N!ClaimOnce

\* Nothing is issued yet.
LEMMA CredentialsStart == ASSUME N!CredentialsAssumption, N!Init PROVE CredentialsInv
BY DEF N!CredentialsAssumption, N!Init, N!TypeOK, N!Number, N!Names, N!Unmade, HasLink, TakenOnce, N!ClaimOnce, CredentialsInv

\* A token is made with a number of its own, and those of the revoked stop standing.
LEMMA MintTyped ==
  ASSUME N!TypeOK, NEW name \in N!Names, NEW revoked, N!Mint(name, revoked)
  PROVE  /\ token' \in [N!Number -> [name : N!Names, stands : BOOLEAN, used : BOOLEAN]]
         /\ N!Next1 \in N!Number
BY DEF N!TypeOK, N!Mint

\* A step of the tokens keeps the invariant (nodes.routes.ts, install-node.sh).
LEMMA CredentialsStep == ASSUME N!CredentialsAssumption, CredentialsInv, N!Next PROVE CredentialsInv'
<1> USE DEF CredentialsInv, N!ClaimOnce
<1>1. CASE N!MintToken \/ N!ReadConfiguration \/ N!RotateToken
  <2>1. /\ token' \in [N!Number -> [name : N!Names, stands : BOOLEAN, used : BOOLEAN]]
        /\ N!Next1 \in N!Number
    BY <1>1, MintTyped DEF N!MintToken, N!ReadConfiguration, N!IssueNodeConfiguration, N!RotateToken, N!Names
  <2>2. shown' = shown \cup {N!Next1} /\ UNCHANGED <<registered, claim, issued, install, file, agent>>
    BY <1>1 DEF N!MintToken, N!ReadConfiguration, N!RotateToken
  <2> QED BY <2>1, <2>2 DEF N!TypeOK, HasLink, TakenOnce
<1>2. ASSUME NEW t \in N!Number, N!RevokeToken(t) PROVE CredentialsInv'
  BY <1>2 DEF N!RevokeToken, N!TypeOK, HasLink, TakenOnce
<1>3. CASE N!DeleteNode
  BY <1>3 DEF N!DeleteNode, N!TypeOK, HasLink, TakenOnce
<1>4. ASSUME NEW c \in Link, N!CreateBootstrapClaim(c) \/ N!ClaimExpires(c) PROVE CredentialsInv'
  BY <1>4 DEF N!CreateBootstrapClaim, N!ClaimExpires, N!TypeOK, HasLink, TakenOnce
<1>5. ASSUME NEW c \in Link, NEW i \in Installer, N!Paste(i, c) PROVE CredentialsInv'
  BY <1>5 DEF N!Paste, N!TypeOK, HasLink, TakenOnce
<1>6. ASSUME NEW i \in Installer, N!RedeemBootstrapClaim(i) PROVE CredentialsInv'
  <2> DEFINE c == install[i].claim
  <2>1. c \in Link BY <1>6 DEF N!RedeemBootstrapClaim, HasLink
  <2>2. UNCHANGED <<registered, token, shown, issued, file, agent>> BY <1>6 DEF N!RedeemBootstrapClaim
  <2>3. CASE claim[c] = "live"
    <3>1. claim' = [claim EXCEPT ![c] = "taken"] /\ install' = [install EXCEPT ![i].at = "issue"]
      BY <1>6, <2>3 DEF N!RedeemBootstrapClaim, N!Taken, N!Step
    <3>2. N!TypeOK' BY <2>1, <2>2, <3>1 DEF N!TypeOK
    <3>3. \A k \in Installer : install'[k].claim = install[k].claim BY <3>1 DEF N!TypeOK
    <3>4. \A k \in Installer : install'[k].at = IF k = i THEN "issue" ELSE install[k].at BY <3>1 DEF N!TypeOK
    <3>5. \A k \in Installer : install[k].at = "issue" => install[k].claim # c BY <2>3 DEF TakenOnce
    <3>6. HasLink' BY <2>1, <3>3, <3>4 DEF HasLink
    <3>7. \A d \in Link : claim'[d] = IF d = c THEN "taken" ELSE claim[d] BY <3>1 DEF N!TypeOK
    <3>8. issued[c] = 0 BY <2>1, <2>3 DEF TakenOnce
    <3>9. TakenOnce' BY <2>1, <2>2, <3>3, <3>4, <3>5, <3>7, <3>8 DEF TakenOnce, HasLink
    <3> QED BY <2>2, <3>2, <3>6, <3>9
  <2>4. CASE claim[c] # "live"
    <3>1. claim' = claim /\ install' = [install EXCEPT ![i].at = "failed"]
      BY <1>6, <2>4 DEF N!RedeemBootstrapClaim, N!Step
    <3>2. N!TypeOK' BY <2>2, <3>1 DEF N!TypeOK
    <3>3. \A k \in Installer : install'[k].claim = install[k].claim BY <3>1 DEF N!TypeOK
    <3>4. \A k \in Installer : install'[k].at = IF k = i THEN "failed" ELSE install[k].at BY <3>1 DEF N!TypeOK
    <3>5. HasLink' /\ TakenOnce' BY <2>2, <3>1, <3>3, <3>4 DEF HasLink, TakenOnce
    <3> QED BY <2>2, <3>2, <3>5
  <2> QED BY <2>3, <2>4
<1>7. ASSUME NEW i \in Installer, N!IssueToInstaller(i) PROVE CredentialsInv'
  <2> DEFINE c == install[i].claim
  <2>1. c \in Link /\ claim[c] = "taken" /\ issued[c] = 0 BY <1>7 DEF N!IssueToInstaller, HasLink, TakenOnce
  <2>2. UNCHANGED <<registered, shown, claim, file, agent>> /\ install[i].at = "issue" BY <1>7 DEF N!IssueToInstaller
  <2>3. CASE N!IssueNodeConfiguration /\ issued' = [issued EXCEPT ![c] = @ + 1]
    <3>1. /\ token' \in [N!Number -> [name : N!Names, stands : BOOLEAN, used : BOOLEAN]]
          /\ N!Next1 \in N!Number
      BY <2>3, MintTyped DEF N!IssueNodeConfiguration, N!Names
    <3>2. PICK at \in {"fetched", "failed"}, t \in N!Number \cup {0} :
            install' = [install EXCEPT ![i] = [@ EXCEPT !.at = at, !.token = t]]
      <4>1. CASE install' = [install EXCEPT ![i] = [@ EXCEPT !.at = "fetched", !.token = N!Next1]] BY <3>1, <4>1
      <4>2. CASE N!Step(i, "failed")
        <5>1. install[i].token \in N!Number \cup {0} BY DEF N!TypeOK
        <5>2. install' = [install EXCEPT ![i] = [@ EXCEPT !.at = "failed", !.token = install[i].token]]
          BY <4>2 DEF N!Step, N!TypeOK
        <5> QED BY <5>1, <5>2
      <4> QED BY <1>7, <2>3, <4>1, <4>2 DEF N!IssueToInstaller
    <3>3. \A k \in Installer : install'[k].claim = install[k].claim BY <3>2 DEF N!TypeOK
    <3>4. \A k \in Installer : install'[k].at = IF k = i THEN at ELSE install[k].at BY <3>2 DEF N!TypeOK
    <3>5. \A d \in Link : issued'[d] = IF d = c THEN 1 ELSE issued[d] BY <2>1, <2>3 DEF N!TypeOK
    <3>6. issued' \in [Link -> 0 .. MaxTokens] BY <2>1, <2>3 DEF N!CredentialsAssumption, N!TypeOK
    <3>7. N!TypeOK'
      <4>1. install' \in [Installer -> [at : {"idle", "asking", "issue", "fetched", "failed", "done"},
                                        claim : Link \cup {NoClaim}, token : N!Number \cup {0}]]
        BY <3>2 DEF N!TypeOK
      <4> QED BY <2>2, <3>1, <3>6, <4>1 DEF N!TypeOK
    <3>8. HasLink' BY <3>3, <3>4 DEF HasLink
    <3>9. TakenOnce' BY <2>1, <2>2, <3>3, <3>4, <3>5 DEF TakenOnce, HasLink
    <3> QED BY <3>5, <3>7, <3>8, <3>9
  <2>4. CASE N!Step(i, "failed") /\ UNCHANGED <<token, issued>>
    BY <2>2, <2>4 DEF N!Step, N!TypeOK, HasLink, TakenOnce
  <2> QED BY <1>7, <2>3, <2>4 DEF N!IssueToInstaller
<1>8. ASSUME NEW i \in Installer, N!ReadConfigFile(i) \/ N!WriteConfiguration(i) PROVE CredentialsInv'
  BY <1>8 DEF N!ReadConfigFile, N!WriteConfiguration, N!Step, N!TypeOK, HasLink, TakenOnce
<1>9. CASE N!StartAgent
  BY <1>9 DEF N!StartAgent, N!TypeOK, HasLink, TakenOnce
<1>10. CASE N!AuthenticateNode
  <2>1. agent \in N!Number /\ token' = [token EXCEPT ![agent].used = TRUE]
        /\ UNCHANGED <<registered, shown, claim, issued, install, file, agent>>
    BY <1>10 DEF N!AuthenticateNode, N!Standing
  <2>2. token' \in [N!Number -> [name : N!Names, stands : BOOLEAN, used : BOOLEAN]] BY <2>1 DEF N!TypeOK
  <2> QED BY <2>1, <2>2 DEF N!TypeOK, HasLink, TakenOnce
<1> QED BY <1>1, <1>2, <1>3, <1>4, <1>5, <1>6, <1>7, <1>8, <1>9, <1>10 DEF N!Next

\* The invariant is about the node and its tokens alone.
LEMMA CredentialsStill == ASSUME CredentialsInv, UNCHANGED nVars PROVE CredentialsInv'
BY DEF nVars, CredentialsInv, N!TypeOK, N!ClaimOnce, HasLink, TakenOnce

\* What takes a token in use out of service is meant to: the page and an installer revoke
\* configuration tokens no node ever presented.
LEMMA ServiceStep ==
  ASSUME N!TypeOK, [N!Next]_nVars, NEW t \in N!Number, token[t].used, token[t].stands, ~token'[t].stands
  PROVE  N!RevokeToken(t) \/ N!RotateToken \/ N!DeleteNode
<1>1. ASSUME NEW name, NEW revoked, N!Mint(name, revoked) PROVE t \in revoked
  BY <1>1 DEF N!Mint
<1>2. ~N!MintToken BY <1>1 DEF N!MintToken
<1>3. ~N!IssueNodeConfiguration BY <1>1 DEF N!IssueNodeConfiguration, N!NeverUsed
<1>4. ASSUME NEW u \in N!Number, N!RevokeToken(u) PROVE u = t
  BY <1>4 DEF N!RevokeToken, N!TypeOK
<1>5. ~UNCHANGED token OBVIOUS
<1>6. ~N!AuthenticateNode BY DEF N!AuthenticateNode, N!TypeOK
<1>7. ASSUME NEW i \in Installer, NEW c \in Link PROVE ~(N!CreateBootstrapClaim(c) \/ N!ClaimExpires(c) \/ N!Paste(i, c))
  BY <1>5 DEF N!CreateBootstrapClaim, N!ClaimExpires, N!Paste
<1>8. ASSUME NEW i \in Installer
      PROVE ~(N!RedeemBootstrapClaim(i) \/ N!IssueToInstaller(i) \/ N!ReadConfigFile(i) \/ N!WriteConfiguration(i))
  BY <1>3, <1>5 DEF N!RedeemBootstrapClaim, N!IssueToInstaller, N!ReadConfigFile, N!WriteConfiguration
<1>9. ~N!ReadConfiguration /\ ~N!StartAgent BY <1>3, <1>5 DEF N!ReadConfiguration, N!StartAgent
<1>10. \A c \in Link : ~N!CreateBootstrapClaim(c) /\ ~N!ClaimExpires(c)
  BY <1>5 DEF N!CreateBootstrapClaim, N!ClaimExpires
<1>11. N!Next BY <1>5 DEF nVars
<1> QED BY <1>2, <1>4, <1>6, <1>7, <1>8, <1>9, <1>10, <1>11 DEF N!Next

-----------------------------------------------------------------------------
(***************************************************************************)
(* The catalogue. What a thing of a customer's refers to is there.               *)
(***************************************************************************)
\* Whatever a row refers to has a row.
Referred == \A u \in Use : refers[u] \in there \cup {NoThing}

CatalogueInv == C!TypeOK /\ Referred

\* Nothing refers to anything yet.
LEMMA CatalogueStart == ASSUME C!CatalogueAssumption, C!Init PROVE CatalogueInv
BY DEF C!CatalogueAssumption, C!Init, C!TypeOK, C!Thing, C!NoClerk, Referred, CatalogueInv

\* A request that reads remembers what it read.
LEMMA ReadsTyped ==
  ASSUME C!TypeOK, NEW c \in Clerk, NEW does \in {"make", "edit", "delete", "use"},
         NEW t \in C!Thing, NEW u \in Use \cup {NoThing}, C!Reads(c, does, t, u), changes' \in 0 .. MaxChanges
  PROVE  C!TypeOK' /\ UNCHANGED <<there, refers>>
BY DEF C!TypeOK, C!Reads

\* A request asks only about things that there are.
LEMMA AskStep == ASSUME C!CatalogueAssumption, CatalogueInv, NEW c \in Clerk, C!Ask(c) PROVE CatalogueInv'
<1>1. PICK does \in {"make", "edit", "delete", "use"}, t \in C!Thing, u \in Use \cup {NoThing} : C!Reads(c, does, t, u)
  BY DEF CatalogueInv, C!TypeOK, C!Ask, C!AskMake, C!AskEdit, C!AskDelete, C!AskUse
<1>2. changes' \in 0 .. MaxChanges
  BY DEF CatalogueInv, C!TypeOK, C!Ask, C!AskMake, C!AskEdit, C!AskDelete, C!AskUse, C!Change, C!CatalogueAssumption
<1> QED BY <1>1, <1>2, ReadsTyped DEF CatalogueInv, Referred

\* A request that is done forgets what it read.
LEMMA WritesTyped ==
  ASSUME C!TypeOK, NEW c \in Clerk, NEW does, C!Writes(c, does)
  PROVE  clerk' \in [Clerk -> [does : {"nothing", "make", "edit", "delete", "use"}, thing : C!Thing \cup {NoThing},
                               use : Use \cup {NoThing}, seen : SUBSET Storage]]
BY DEF C!TypeOK, C!Writes, C!NoClerk

\* A creation adds a row, and what it says of the thing it says of a row.
LEMMA MakeStep == ASSUME C!CatalogueAssumption, CatalogueInv, NEW c \in Clerk, C!Make(c) PROVE CatalogueInv'
<1> DEFINE t == clerk[c].thing
<1> USE DEF CatalogueInv, C!Makes, C!Offered
<1>1. /\ C!Writes(c, "make") /\ t \in C!Thing /\ there' = there \cup {t}
      /\ active' \in {active \cup {t}, active} /\ UNCHANGED <<refers, orphan, changes>>
  BY DEF C!Make, C!CreateStorage, C!CreateHost, C!CreateTemplate, C!CloneTemplate, C!ImportTemplate, C!CreateNode, C!ConvertEgg, C!Thing
<1>2. default' \subseteq Storage \cap there'
  <2>1. CASE C!CreateStorage(c)
    <3>1. t \in Storage /\ default' \subseteq default \cup {t} BY <2>1 DEF C!CreateStorage, C!BecomesDefault
    <3> QED BY <1>1, <3>1 DEF C!TypeOK
  <2>2. CASE ~C!CreateStorage(c)
    BY <1>1, <2>2 DEF C!TypeOK, C!Make, C!CreateHost, C!CreateTemplate, C!CloneTemplate, C!ImportTemplate, C!CreateNode
  <2> QED BY <2>1, <2>2
<1>3. sound' \subseteq Template \cap there'
  <2>1. CASE C!CreateTemplate(c) \/ C!CloneTemplate(c) \/ C!ImportTemplate(c)
    <3>1. t \in Template /\ sound' \subseteq sound \cup {t}
      BY <2>1 DEF C!CreateTemplate, C!CloneTemplate, C!ImportTemplate, C!ConvertEgg
    <3> QED BY <1>1, <3>1 DEF C!TypeOK
  <2>2. CASE C!CreateStorage(c) \/ C!CreateHost(c) \/ C!CreateNode(c)
    BY <1>1, <2>2 DEF C!TypeOK, C!CreateStorage, C!CreateHost, C!CreateNode
  <2> QED BY <2>1, <2>2 DEF C!Make
<1>4. C!TypeOK' BY <1>1, <1>2, <1>3, WritesTyped DEF C!TypeOK
<1> QED BY <1>1, <1>4 DEF Referred

\* An edit changes what is said of a row that is there.
LEMMA EditStep == ASSUME C!CatalogueAssumption, CatalogueInv, NEW c \in Clerk, C!Edit(c) PROVE CatalogueInv'
<1> DEFINE t == clerk[c].thing
<1> USE DEF CatalogueInv, C!Edits
<1>1. /\ C!Writes(c, "edit") /\ t \in there
      /\ active' \in {active \ {t}, active \cup {t}} /\ UNCHANGED <<there, refers, orphan, changes>>
  BY DEF C!Edit, C!UpdateStorage, C!UpdateHost, C!UpdateTemplate, C!UpdateNode
<1>2. default' \subseteq Storage \cap there
  <2>1. CASE C!UpdateStorage(c)
    <3>1. t \in Storage /\ default' \subseteq default \cup {t} BY <2>1 DEF C!UpdateStorage, C!BecomesDefault
    <3> QED BY <1>1, <3>1 DEF C!TypeOK
  <2>2. CASE ~C!UpdateStorage(c)
    BY <2>2 DEF C!TypeOK, C!Edit, C!UpdateHost, C!UpdateTemplate, C!UpdateNode
  <2> QED BY <2>1, <2>2
<1>3. sound' \subseteq sound
  BY DEF C!Edit, C!UpdateStorage, C!UpdateHost, C!UpdateTemplate, C!UpdateNode
<1>4. C!TypeOK' BY <1>1, <1>2, <1>3, WritesTyped DEF C!TypeOK
<1> QED BY <1>1, <1>4 DEF Referred

\* A deletion is refused while something refers to the thing, or takes the reference away.
LEMMA DeleteStep == ASSUME C!CatalogueAssumption, CatalogueInv, NEW c \in Clerk, C!Delete(c) PROVE CatalogueInv'
<1> DEFINE t == clerk[c].thing
<1> USE DEF CatalogueInv
<1>1. /\ C!Writes(c, "delete") /\ t \in there /\ there' = there \ {t}
      /\ active' = active \ {t} /\ default' = default \ {t} /\ sound' = sound \ {t}
      /\ orphan' = orphan \cup C!UsesOf(t) /\ UNCHANGED changes
      /\ refers' = [u \in Use |-> IF refers[u] = t THEN NoThing ELSE refers[u]]
  BY DEF C!Delete, C!DeleteStorage, C!DeleteHost, C!DeleteTemplate, C!DeleteNode, C!Deletes
<1>2. C!TypeOK' BY <1>1, WritesTyped DEF C!TypeOK, C!UsesOf
<1>3. Referred' BY <1>1 DEF Referred
<1> QED BY <1>2, <1>3

\* A step of the catalogue keeps the invariant (storages, database hosts, templates and
\* nodes; backups, databases and servers).
LEMMA CatalogueStep == ASSUME C!CatalogueAssumption, CatalogueInv, C!Next PROVE CatalogueInv'
<1> USE DEF CatalogueInv
<1>1. ASSUME NEW c \in Clerk, C!Refer(c) PROVE CatalogueInv'
  <2>1. /\ C!Writes(c, "use") /\ clerk[c].thing \in there /\ UNCHANGED <<there, active, default, sound, orphan, changes>>
        /\ refers' = [refers EXCEPT ![clerk[c].use] = clerk[c].thing]
    BY <1>1 DEF C!Refer
  <2>2. C!TypeOK' BY <2>1, WritesTyped DEF C!TypeOK
  <2> QED BY <2>1, <2>2 DEF Referred, C!TypeOK
<1>2. ASSUME NEW c \in Clerk, C!Fails(c) PROVE CatalogueInv'
  BY <1>2 DEF C!Fails, C!TypeOK, C!NoClerk, Referred
<1>3. CASE C!CreateNodeCli
  BY <1>3 DEF C!CreateNodeCli, C!Change, C!CatalogueAssumption, C!TypeOK, C!Thing, Referred
<1>4. CASE C!EndUse
  BY <1>4 DEF C!EndUse, C!TypeOK, Referred
<1> QED BY <1>1, <1>2, <1>3, <1>4, AskStep, MakeStep, EditStep, DeleteStep DEF C!Next

\* The invariant is about the catalogue alone.
LEMMA CatalogueStill == ASSUME CatalogueInv, UNCHANGED cVars PROVE CatalogueInv'
BY DEF cVars, CatalogueInv, C!TypeOK, Referred

\* Nobody deletes a storage with backups, a host with databases or a node with servers:
\* the database restricts it (onDelete: Restrict), however little the request could see.
LEMMA FindableStep ==
  ASSUME C!CatalogueAssumption, CatalogueInv, [C!Next]_cVars, NEW u \in Use, refers[u] \in Storage \cup Host \cup Node
  PROVE  refers[u] \in there'
<1>1. refers[u] \in there
  BY DEF CatalogueInv, Referred, C!CatalogueAssumption, C!Thing
<1>2. ASSUME NEW c \in Clerk, C!Delete(c) PROVE refers[u] \in there'
  BY <1>1, <1>2 DEF C!Delete, C!DeleteStorage, C!DeleteHost, C!DeleteTemplate, C!DeleteNode, C!Deletes, C!Restricts, C!UsesOf
<1>3. ASSUME NEW c \in Clerk, C!Ask(c) PROVE there' = there
  BY <1>3 DEF C!Ask, C!AskMake, C!AskEdit, C!AskDelete, C!AskUse, C!Reads
<1>4. ASSUME NEW c \in Clerk, C!Make(c) PROVE there \subseteq there'
  BY <1>4 DEF C!Make, C!CreateStorage, C!CreateHost, C!CreateTemplate, C!CloneTemplate, C!ImportTemplate, C!CreateNode, C!Makes
<1>5. ASSUME NEW c \in Clerk, C!Edit(c) \/ C!Refer(c) \/ C!Fails(c) PROVE there' = there
  BY <1>5 DEF C!Edit, C!UpdateStorage, C!UpdateHost, C!UpdateTemplate, C!UpdateNode, C!Edits, C!Refer, C!Fails
<1>6. ASSUME C!CreateNodeCli \/ C!EndUse PROVE there \subseteq there'
  BY <1>6 DEF C!CreateNodeCli, C!EndUse
<1>7. ASSUME UNCHANGED cVars PROVE there' = there
  BY <1>7 DEF cVars
<1> QED BY <1>1, <1>2, <1>3, <1>4, <1>5, <1>6, <1>7 DEF C!Next

-----------------------------------------------------------------------------
(***************************************************************************)
(* Files. What was there when a listing began and still is was answered or is left    *)
(* to answer: a batch takes no name off but one it answers, or one that is gone.     *)
(***************************************************************************)
\* A listing under way owes the client the names it has left.
NothingSkipped ==
  \A h \in Handle :
    /\ handle[h].there \subseteq F!Present
    /\ handle[h].there \subseteq handle[h].got \cup handle[h].left
    /\ handle[h].at = "eof" => handle[h].left = {}

\* A download that was begun has a jar's name.
Fetching == \A f \in Fetch : fetch[f].at # "idle" => fetch[f].name \in Jar

FilesInv == F!TypeOK /\ Fetching /\ NothingSkipped

Fetches == [at : {"idle", "writing", "written"}, name : Jar \cup {""}, on : {"part", "target", "gone"}, alone : BOOLEAN]

\* A download that learns what it writes to is otherwise what it was.
LEMMA FetchMarked ==
  ASSUME NEW f \in Fetches, NEW on \in {"part", "target", "gone"}
  PROVE  /\ [f EXCEPT !.on = on] \in Fetches
         /\ [f EXCEPT !.on = on].at = f.at /\ [f EXCEPT !.on = on].name = f.name
BY DEF Fetches

\* No listing is under way yet.
LEMMA FilesStart == ASSUME F!FilesAssumption, F!Init PROVE FilesInv
<1>1. MaxOps \in Nat BY DEF F!FilesAssumption
<1>2. dir \in [Name -> F!State] /\ part \in [Jar -> F!State] BY DEF F!Init, F!State
<1>3. F!TypeOK
  <2>1. fetch \in [Fetch -> Fetches] BY DEF F!Init, F!NoFetch, Fetches
  <2>2. move \in [Renaming -> [at : {"idle", "checked"}, from : Name \cup {""}, to : Name \cup {""}]] BY DEF F!Init, F!NoMove
  <2>3. handle \in [Handle -> [at : {"closed", "open", "eof"}, left : SUBSET Name, got : SUBSET Name, there : SUBSET Name]]
    BY DEF F!Init, F!Closed
  <2>4. ops \in 0 .. MaxOps BY <1>1 DEF F!Init
  <2> QED BY <1>2, <2>1, <2>2, <2>3, <2>4 DEF F!TypeOK, Fetches
<1>4. Fetching /\ NothingSkipped BY DEF F!Init, F!NoFetch, F!Closed, Fetching, NothingSkipped
<1> QED BY <1>3, <1>4 DEF FilesInv

\* Whatever becomes of the directory, listings forget what is not there any more.
LEMMA BecomesKeeps ==
  ASSUME FilesInv, NEW new \in [Name -> F!State], F!Becomes(new)
  PROVE  /\ dir' \in [Name -> F!State] /\ NothingSkipped'
         /\ handle' \in [Handle -> [at : {"closed", "open", "eof"}, left : SUBSET Name, got : SUBSET Name, there : SUBSET Name]]
<1>1. dir' = new BY DEF F!Becomes
<1>2. \A h \in Handle : handle'[h] = [handle[h] EXCEPT !.there = {n \in handle[h].there : new[n] # "none"}]
  BY DEF F!Becomes
<1>3. handle' = [h \in Handle |-> handle'[h]] BY DEF F!Becomes
<1>4. ASSUME NEW h \in Handle
      PROVE  /\ handle'[h] \in [at : {"closed", "open", "eof"}, left : SUBSET Name, got : SUBSET Name, there : SUBSET Name]
             /\ handle'[h].there = {n \in handle[h].there : new[n] # "none"}
             /\ handle'[h].got = handle[h].got /\ handle'[h].left = handle[h].left /\ handle'[h].at = handle[h].at
  <2>1. handle[h] \in [at : {"closed", "open", "eof"}, left : SUBSET Name, got : SUBSET Name, there : SUBSET Name]
    BY DEF FilesInv, F!TypeOK
  <2>2. PICK still : still = {n \in handle[h].there : new[n] # "none"} OBVIOUS
  <2>3. still \in SUBSET Name BY <2>1, <2>2
  <2>4. handle'[h] = [handle[h] EXCEPT !.there = still] BY <1>2, <2>2
  <2> QED BY <2>1, <2>2, <2>3, <2>4
<1>5. handle' \in [Handle -> [at : {"closed", "open", "eof"}, left : SUBSET Name, got : SUBSET Name, there : SUBSET Name]]
  BY <1>3, <1>4
<1>6. NothingSkipped'
  <2> SUFFICES ASSUME NEW h \in Handle
               PROVE  /\ handle'[h].there \subseteq F!Present'
                      /\ handle'[h].there \subseteq handle'[h].got \cup handle'[h].left
                      /\ handle'[h].at = "eof" => handle'[h].left = {}
    BY DEF NothingSkipped
  <2>1. handle[h].there \subseteq Name BY DEF FilesInv, F!TypeOK
  <2> QED BY <1>1, <1>4, <2>1 DEF FilesInv, NothingSkipped, F!Present
<1> QED BY <1>1, <1>5, <1>6

\* One operation of a person's keeps the count of them, and so do the parts it leaves.
LEMMA OpCounts == ASSUME F!FilesAssumption, F!TypeOK, F!Op PROVE ops' \in 0 .. MaxOps
<1>1. MaxOps \in Nat BY DEF F!FilesAssumption
<1>2. ops \in 0 .. MaxOps BY DEF F!TypeOK
<1> QED BY <1>1, <1>2 DEF F!Op

\* What the file manager, or SFTP, makes of the directory in one go.
LEMMA ChangeStep ==
  ASSUME F!FilesAssumption, FilesInv,
         \/ F!WriteFile \/ F!Upload \/ F!CopyFile \/ F!Compress \/ F!Decompress \/ F!CreateDirectory \/ F!SftpRename
  PROVE  FilesInv'
<1> USE DEF FilesInv, F!Changes
<1>1. F!Op /\ UNCHANGED <<part, fetch, move>>
  BY DEF F!WriteFile, F!Upload, F!CopyFile, F!Compress, F!Decompress, F!CreateDirectory, F!SftpRename
<1>2. PICK new \in [Name -> F!State] : F!Becomes(new)
  <2>1. \A names : F!Written(names) \in [Name -> F!State] /\ F!Taken(names) \in [Name -> F!State]
    BY DEF F!TypeOK, F!Written, F!Taken, F!State
  <2>2. \A n, ok : F!WriteStream(n, ok) \in [Name -> F!State] BY <2>1 DEF F!WriteStream
  <2>3. \A from, to \in Name : F!Copied(from, to) \in [Name -> F!State] /\ F!Moved(from, to) \in [Name -> F!State]
    BY DEF F!TypeOK, F!Copied, F!Moved, F!State
  <2>4. CASE F!WriteFile \/ F!Upload \/ F!Compress \/ F!Decompress \/ F!CreateDirectory
    BY <2>1, <2>2, <2>4 DEF F!WriteFile, F!Upload, F!Compress, F!Decompress, F!CreateDirectory
  <2>5. CASE F!CopyFile \/ F!SftpRename
    BY <2>3, <2>5 DEF F!CopyFile, F!SftpRename, F!Present
  <2> QED BY <2>4, <2>5
<1> QED BY <1>1, <1>2, BecomesKeeps, OpCounts DEF F!TypeOK, Fetching

\* Removals: a download still writing to what is removed writes to a file without a name.
LEMMA RemoveStep == ASSUME F!FilesAssumption, FilesInv, F!Remove PROVE FilesInv'
<1>1. PICK names \in SUBSET F!Present :
        /\ F!Becomes(F!Taken(names))
        /\ fetch' = [f \in Fetch |-> IF fetch[f].on = "target" /\ fetch[f].name \in names
                                     THEN [fetch[f] EXCEPT !.on = "gone"] ELSE fetch[f]]
  BY DEF F!Remove
<1>2. F!Taken(names) \in [Name -> F!State] BY DEF FilesInv, F!TypeOK, F!Taken, F!State
<1>3. F!Op /\ UNCHANGED <<part, move>> BY DEF F!Remove
<1>4. fetch \in [Fetch -> Fetches] BY DEF FilesInv, F!TypeOK, Fetches
<1>5. ASSUME NEW f \in Fetch PROVE fetch'[f] \in Fetches /\ fetch'[f].at = fetch[f].at /\ fetch'[f].name = fetch[f].name
  BY <1>1, <1>4, FetchMarked
<1>6. fetch' \in [Fetch -> Fetches] BY <1>1, <1>5
<1>7. Fetching' BY <1>5 DEF FilesInv, Fetching
<1> QED BY <1>1, <1>2, <1>3, <1>6, <1>7, BecomesKeeps, OpCounts DEF FilesInv, F!TypeOK, Fetches

\* Renames of the file manager.
LEMMA RenameStep ==
  ASSUME F!FilesAssumption, FilesInv, NEW m \in Renaming, F!CheckRename(m) \/ F!Rename(m) PROVE FilesInv'
<1>1. CASE F!CheckRename(m)
  <2>1. PICK from \in Name, to \in Name : move' = [move EXCEPT ![m] = [at |-> "checked", from |-> from, to |-> to]]
    BY <1>1 DEF F!CheckRename, F!Present
  <2>2. F!Op /\ UNCHANGED <<dir, part, fetch, handle>> BY <1>1 DEF F!CheckRename
  <2> QED BY <2>1, <2>2, OpCounts DEF FilesInv, F!TypeOK, Fetching, NothingSkipped, F!Present
<1>2. CASE F!Rename(m)
  <2>1. move' = [move EXCEPT ![m] = F!NoMove] /\ UNCHANGED <<part, fetch, ops>> BY <1>2 DEF F!Rename
  <2>2. move' \in [Renaming -> [at : {"idle", "checked"}, from : Name \cup {""}, to : Name \cup {""}]]
    BY <2>1 DEF FilesInv, F!TypeOK, F!NoMove
  <2>3. CASE move[m].from \in F!Present
    <3>1. F!Becomes(F!Moved(move[m].from, move[m].to)) BY <1>2, <2>3 DEF F!Rename
    <3>2. F!Moved(move[m].from, move[m].to) \in [Name -> F!State]
      BY <2>3 DEF FilesInv, F!TypeOK, F!Moved, F!State, F!Present
    <3> QED BY <2>1, <2>2, <3>1, <3>2, BecomesKeeps DEF FilesInv, F!TypeOK, Fetching
  <2>4. CASE move[m].from \notin F!Present
    <3>1. UNCHANGED <<dir, handle>> BY <1>2, <2>4 DEF F!Rename
    <3> QED BY <2>1, <2>2, <3>1 DEF FilesInv, F!TypeOK, Fetching, NothingSkipped, F!Present
  <2> QED BY <2>3, <2>4
<1> QED BY <1>1, <1>2

\* Downloads: a jar appears under its name, whole or half.
LEMMA FetchStep ==
  ASSUME F!FilesAssumption, FilesInv, NEW f \in Fetch,
         F!FetchOpens(f) \/ F!FetchWritten(f) \/ F!FetchRenames(f) \/ F!FetchFails(f)
  PROVE  FilesInv'
<1>1. fetch \in [Fetch -> Fetches] /\ part \in [Jar -> F!State] /\ F!NoFetch \in Fetches BY DEF FilesInv, F!TypeOK, F!NoFetch, Fetches
<1>2. UNCHANGED move /\ ops' \in 0 .. MaxOps
  BY OpCounts DEF FilesInv, F!TypeOK, F!FetchOpens, F!FetchWritten, F!FetchRenames, F!FetchFails
<1>3. part' \in [Jar -> F!State]
  BY <1>1 DEF F!FetchOpens, F!FetchWritten, F!FetchRenames, F!FetchFails, F!State
<1>4. fetch' \in [Fetch -> Fetches]
  <2>1. CASE F!FetchOpens(f)
    <3>1. PICK n \in Jar :
            fetch' = [g \in Fetch |-> IF g = f THEN [F!NoFetch EXCEPT !.at = "writing", !.name = n]
                                      ELSE IF fetch[g].at # "idle" /\ fetch[g].name = n /\ fetch[g].on = "part"
                                      THEN [fetch[g] EXCEPT !.alone = FALSE] ELSE fetch[g]]
      BY <2>1 DEF F!FetchOpens
    <3>2. [F!NoFetch EXCEPT !.at = "writing", !.name = n] \in Fetches BY DEF F!NoFetch, Fetches
    <3>3. \A g \in Fetch : [fetch[g] EXCEPT !.alone = FALSE] \in Fetches /\ fetch[g] \in Fetches BY <1>1 DEF Fetches
    <3> QED BY <3>1, <3>2, <3>3
  <2>2. CASE F!FetchWritten(f) BY <1>1, <2>2 DEF F!FetchWritten, Fetches
  <2>3. \A g \in Fetch : /\ [fetch[g] EXCEPT !.on = "gone"] \in Fetches /\ fetch[g] \in Fetches
                         /\ [fetch[g] EXCEPT !.on = "target"] \in Fetches
    BY <1>1, FetchMarked
  <2>4. CASE F!FetchRenames(f)
    <3>1. \A g \in Fetch : fetch'[g] \in {F!NoFetch, fetch[g], [fetch[g] EXCEPT !.on = "gone"], [fetch[g] EXCEPT !.on = "target"]}
      BY <2>4 DEF F!FetchRenames
    <3>2. fetch' = [g \in Fetch |-> fetch'[g]] BY <2>4 DEF F!FetchRenames
    <3>3. \A g \in Fetch : fetch'[g] \in Fetches BY <1>1, <2>3, <3>1
    <3> QED BY <3>2, <3>3
  <2>5. CASE F!FetchFails(f)
    <3>1. \A g \in Fetch : fetch'[g] \in {F!NoFetch, fetch[g], [fetch[g] EXCEPT !.on = "gone"]}
      BY <2>5 DEF F!FetchFails
    <3>2. fetch' = [g \in Fetch |-> fetch'[g]] BY <2>5 DEF F!FetchFails
    <3>3. \A g \in Fetch : fetch'[g] \in Fetches BY <1>1, <2>3, <3>1
    <3> QED BY <3>2, <3>3
  <2> QED BY <2>1, <2>2, <2>4, <2>5
<1>5. UNCHANGED <<dir, handle>> \/ \E new \in [Name -> F!State] : F!Becomes(new)
  <2>1. CASE F!FetchWritten(f)
    <3>1. [dir EXCEPT ![fetch[f].name] = "whole"] \in [Name -> F!State] BY DEF FilesInv, F!TypeOK, F!State
    <3> QED BY <2>1, <3>1 DEF F!FetchWritten
  <2>2. CASE F!FetchRenames(f)
    <3> DEFINE n == fetch[f].name
               new == [dir EXCEPT ![n] = part[n]]
    <3>1. CASE UNCHANGED <<dir, handle>> BY <3>1
    <3>2. CASE F!Becomes(new)
      <4>1. n \in Jar BY <2>2 DEF FilesInv, Fetching, F!FetchRenames
      <4>2. new \in [Name -> F!State] BY <1>1, <4>1 DEF FilesInv, F!TypeOK
      <4> QED BY <3>2, <4>2
    <3> QED BY <2>2, <3>1, <3>2 DEF F!FetchRenames
  <2>3. CASE F!FetchOpens(f) \/ F!FetchFails(f) BY <2>3 DEF F!FetchOpens, F!FetchFails
  <2> QED BY <2>1, <2>2, <2>3
<1>8. Fetching'
  <2>1. ASSUME NEW g \in Fetch, fetch'[g].at # "idle" PROVE fetch'[g].name \in Jar
    <3>1. CASE F!FetchOpens(f)
      <4>1. PICK n \in Jar :
              fetch' = [k \in Fetch |-> IF k = f THEN [F!NoFetch EXCEPT !.at = "writing", !.name = n]
                                        ELSE IF fetch[k].at # "idle" /\ fetch[k].name = n /\ fetch[k].on = "part"
                                        THEN [fetch[k] EXCEPT !.alone = FALSE] ELSE fetch[k]]
        BY <3>1 DEF F!FetchOpens
      <4>2. CASE g = f BY <4>1, <4>2 DEF F!NoFetch
      <4>3. CASE g # f
        <5>1. fetch'[g].at = fetch[g].at /\ fetch'[g].name = fetch[g].name BY <1>1, <4>1, <4>3 DEF Fetches
        <5> QED BY <2>1, <5>1 DEF FilesInv, Fetching
      <4> QED BY <4>2, <4>3
    <3>2. CASE F!FetchWritten(f)
      <4>1. fetch[f].at # "idle" /\ fetch' = [fetch EXCEPT ![f].at = "written"] BY <3>2 DEF F!FetchWritten
      <4>2. fetch'[g].name = fetch[g].name /\ (g # f => fetch'[g].at = fetch[g].at) BY <1>1, <4>1 DEF Fetches
      <4> QED BY <2>1, <4>1, <4>2 DEF FilesInv, Fetching
    <3>3. CASE F!FetchRenames(f) \/ F!FetchFails(f)
      <4>1. fetch'[g] \in {F!NoFetch, fetch[g], [fetch[g] EXCEPT !.on = "gone"], [fetch[g] EXCEPT !.on = "target"]}
        BY <3>3 DEF F!FetchRenames, F!FetchFails
      <4>2. F!NoFetch.at = "idle" BY DEF F!NoFetch
      <4>3. fetch'[g].at = fetch[g].at /\ fetch'[g].name = fetch[g].name BY <1>1, <2>1, <4>1, <4>2, FetchMarked
      <4> QED BY <2>1, <4>3 DEF FilesInv, Fetching
    <3> QED BY <3>1, <3>2, <3>3
  <2> QED BY <2>1 DEF Fetching
<1>6. CASE UNCHANGED <<dir, handle>>
  BY <1>2, <1>3, <1>4, <1>6, <1>8 DEF FilesInv, F!TypeOK, Fetches, NothingSkipped, F!Present
<1>7. ASSUME NEW new \in [Name -> F!State], F!Becomes(new) PROVE FilesInv'
  BY <1>2, <1>3, <1>4, <1>7, <1>8, BecomesKeeps DEF FilesInv, F!TypeOK, Fetches
<1> QED BY <1>5, <1>6, <1>7

\* A listing: the end is answered only when no name is left (sftp.service.ts).
LEMMA ListStep ==
  ASSUME F!FilesAssumption, FilesInv, NEW h \in Handle, F!Opendir(h) \/ F!Readdir(h) \/ F!CloseHandle(h)
  PROVE  FilesInv'
<1> DEFINE Listing == [at : {"closed", "open", "eof"}, left : SUBSET Name, got : SUBSET Name, there : SUBSET Name]
<1>1. UNCHANGED <<dir, part, fetch, move>> /\ ops' \in 0 .. MaxOps
  BY OpCounts DEF FilesInv, F!TypeOK, F!Opendir, F!Readdir, F!CloseHandle
<1>2. handle \in [Handle -> Listing] BY DEF FilesInv, F!TypeOK
<1>3. F!Present \subseteq Name BY DEF F!Present
<1>4. PICK new \in Listing :
        /\ handle' = [handle EXCEPT ![h] = new]
        /\ new.there \subseteq F!Present /\ new.there \subseteq new.got \cup new.left
        /\ new.at = "eof" => new.left = {}
  <2>1. CASE F!Opendir(h)
    <3> DEFINE new == [at |-> "open", left |-> F!Present, got |-> {}, there |-> F!Present]
    <3>1. new \in Listing BY <1>3
    <3>2. handle' = [handle EXCEPT ![h] = new] BY <2>1 DEF F!Opendir
    <3> QED BY <3>1, <3>2
  <2>2. CASE F!CloseHandle(h)
    <3>1. F!Closed \in Listing BY DEF F!Closed
    <3> QED BY <2>2, <3>1 DEF F!CloseHandle, F!Closed
  <2>3. CASE F!Readdir(h)
    <3>1. PICK names \in SUBSET handle[h].left :
            handle' = IF F!AtEnd(handle[h].left, names \cap F!Present) THEN [handle EXCEPT ![h].at = "eof"]
                      ELSE [handle EXCEPT ![h] = [@ EXCEPT !.left = handle[h].left \ names, !.got = handle[h].got \cup (names \cap F!Present)]]
      BY <2>3 DEF F!Readdir
    <3>2. CASE handle[h].left = {}
      <4> DEFINE new == [handle[h] EXCEPT !.at = "eof"]
      <4>1. new \in Listing /\ new.at = "eof" /\ new.left = handle[h].left /\ new.got = handle[h].got /\ new.there = handle[h].there
        BY <1>2
      <4>2. handle' = [handle EXCEPT ![h] = new] BY <1>2, <3>1, <3>2 DEF F!AtEnd
      <4> QED BY <3>2, <4>1, <4>2 DEF FilesInv, NothingSkipped
    <3>3. CASE handle[h].left # {}
      <4> DEFINE new == [handle[h] EXCEPT !.left = handle[h].left \ names, !.got = handle[h].got \cup (names \cap F!Present)]
      <4>1. /\ new \in Listing /\ new.at = handle[h].at /\ new.left = handle[h].left \ names
            /\ new.got = handle[h].got \cup (names \cap F!Present) /\ new.there = handle[h].there
        BY <1>2, <1>3
      <4>2. handle' = [handle EXCEPT ![h] = new] BY <1>2, <3>1, <3>3 DEF F!AtEnd
      <4>3. handle[h].at = "open" BY <2>3 DEF F!Readdir
      <4> QED BY <4>1, <4>2, <4>3 DEF FilesInv, NothingSkipped
    <3> QED BY <3>2, <3>3
  <2> QED BY <2>1, <2>2, <2>3
<1>5. F!TypeOK' BY <1>1, <1>2, <1>4 DEF FilesInv, F!TypeOK
<1>6. NothingSkipped'
  <2>1. F!Present' = F!Present BY <1>1 DEF F!Present
  <2> QED BY <1>2, <1>4, <2>1 DEF FilesInv, NothingSkipped
<1>7. Fetching' BY <1>1 DEF FilesInv, Fetching
<1> QED BY <1>5, <1>6, <1>7 DEF FilesInv

\* A step of the directory and of whoever works on it keeps the invariant.
LEMMA FilesStep == ASSUME F!FilesAssumption, FilesInv, F!Next PROVE FilesInv'
BY ChangeStep, RemoveStep, RenameStep, FetchStep, ListStep DEF F!Next

\* The invariant is about the directory alone.
LEMMA FilesStill == ASSUME FilesInv, UNCHANGED fVars PROVE FilesInv'
BY DEF fVars, FilesInv, F!TypeOK, Fetching, NothingSkipped, F!Present

-----------------------------------------------------------------------------
(***************************************************************************)
(* Disk. What a request added and what it still may add stay within what was left     *)
(* when it began; a modpack's, within three times that.                         *)
(***************************************************************************)
Adds == [kind : D!Kinds \cup {"none"}, at : {"idle", "add", "extract", "overrides", "mods"},
         allowed : D!Blocks, budget : D!Blocks, added : 0 .. 3 * Disk, files : 0 .. MaxFiles]

\* What one request has done so far.
WithinAllowance(r) ==
  /\ r.allowed <= Limit /\ r.budget <= r.allowed
  /\ r.kind # "pack" => r.at \in {"idle", "add"} /\ r.added + r.budget <= r.allowed
  /\ r.kind = "pack" /\ r.at = "add" => r.added = 0
  /\ r.kind = "pack" /\ r.at = "extract" => r.added <= r.allowed
  /\ r.kind = "pack" /\ r.at \in {"overrides", "mods"} => r.added + r.budget <= 3 * r.allowed

Allowed == \A a \in Adding : WithinAllowance(adding[a])

DiskInv == D!TypeOK /\ Allowed

\* The bounds are numbers.
LEMMA DiskNumbers ==
  ASSUME D!DiskAssumption PROVE Limit \in Nat /\ Disk \in Nat /\ MaxFiles \in Nat /\ MaxTurns \in Nat /\ 0 < Limit /\ Limit < Disk
BY DEF D!DiskAssumption

\* What is left is no more than the limit.
LEMMA RemainingBound == ASSUME D!DiskAssumption, D!TypeOK PROVE D!Remaining \in 0 .. Limit /\ D!Remaining \in D!Blocks
BY DiskNumbers DEF D!TypeOK, D!Remaining, D!OverLimit, D!UsedMb, D!Blocks, D!None

\* A request that is over, or never began, added nothing.
LEMMA DoneAllowed == ASSUME D!DiskAssumption PROVE D!Done \in Adds /\ WithinAllowance(D!Done)
BY DiskNumbers DEF D!Done, Adds, D!Blocks, D!Kinds, WithinAllowance

\* No request has begun.
LEMMA DiskStart == ASSUME D!DiskAssumption, D!Init PROVE DiskInv
<1>1. adding \in [Adding -> Adds] /\ Allowed BY DoneAllowed DEF D!Init, Allowed
<1>2. used \in D!Blocks /\ {sample, measure} \subseteq D!Blocks \cup {D!None} /\ up \in BOOLEAN /\ turns \in 0 .. MaxTurns
  <2>1. 1 \in D!Blocks /\ 0 \in 0 .. MaxTurns BY DiskNumbers DEF D!Blocks
  <2> QED BY <2>1 DEF D!Init
<1>3. visitor \in [Visitor -> {"closed", "read", "write"}] BY DEF D!Init
<1> QED BY <1>1, <1>2, <1>3 DEF DiskInv, D!TypeOK, Adds

\* The directory holds what the node has room for.
LEMMA Grows ==
  ASSUME D!DiskAssumption, D!TypeOK, NEW n \in Nat, D!Grow(n) PROVE used' \in D!Blocks
BY DiskNumbers DEF D!TypeOK, D!Grow, D!Blocks

\* Requests that only ask whether the server is over its limit, and deletions.
LEMMA UncountedStep ==
  ASSUME D!DiskAssumption, DiskInv, D!WriteFile \/ D!CopyFile \/ D!Compress \/ D!DeleteFiles PROVE DiskInv'
<1>1. used' \in D!Blocks
  <2>1. used \in Nat /\ 1 .. used \subseteq Nat /\ 0 .. used \subseteq Nat BY DiskNumbers DEF DiskInv, D!TypeOK, D!Blocks
  <2>2. CASE D!WriteFile \/ D!CopyFile \/ D!Compress
    <3>1. PICK n \in Nat : D!Grow(n) BY <2>1, <2>2 DEF D!WriteFile, D!CopyFile, D!Compress, D!Uncounted
    <3> QED BY <3>1, Grows DEF DiskInv
  <2>3. CASE D!DeleteFiles BY <2>3, DiskNumbers DEF DiskInv, D!TypeOK, D!Blocks, D!DeleteFiles
  <2> QED BY <2>2, <2>3
<1>2. UNCHANGED <<sample, measure, up, adding, visitor>>
  BY DEF D!WriteFile, D!CopyFile, D!Compress, D!Uncounted, D!DeleteFiles
<1>3. turns' \in 0 .. MaxTurns
  BY DiskNumbers DEF DiskInv, D!TypeOK, D!WriteFile, D!CopyFile, D!Compress, D!Uncounted, D!DeleteFiles, D!Turn
<1> QED BY <1>1, <1>2, <1>3 DEF DiskInv, D!TypeOK, Allowed

\* A request becomes another of its type, within its allowance.
LEMMA BecomesAllowed ==
  ASSUME DiskInv, NEW a \in Adding, NEW r \in Adds, WithinAllowance(r), adding' = [adding EXCEPT ![a] = r],
         used' \in D!Blocks, UNCHANGED <<sample, measure, up, visitor, turns>>
  PROVE  DiskInv'
<1>1. adding \in [Adding -> Adds] BY DEF DiskInv, D!TypeOK, Adds
<1>2. adding' \in [Adding -> Adds] /\ \A b \in Adding : adding'[b] = IF b = a THEN r ELSE adding[b] BY <1>1
<1>3. Allowed' BY <1>2 DEF DiskInv, Allowed
<1> QED BY <1>2, <1>3 DEF DiskInv, D!TypeOK, Adds

\* Requests that carry a budget, but for modpacks.
LEMMA BudgetStep ==
  ASSUME D!DiskAssumption, DiskInv, NEW a \in Adding,
         D!AddFile(a) \/ D!EndRequest(a) \/ \E kind \in D!Kinds : D!Begin(a, kind)
  PROVE  DiskInv'
<1>0. used \in D!Blocks /\ adding \in [Adding -> Adds] /\ adding[a] \in Adds /\ WithinAllowance(adding[a])
  BY DEF DiskInv, D!TypeOK, Adds, Allowed
<1>1. ASSUME NEW kind \in D!Kinds, D!Begin(a, kind) PROVE DiskInv'
  <2>1. PICK n \in 1 .. MaxFiles :
          adding' = [adding EXCEPT ![a] = [kind |-> kind, at |-> "add", allowed |-> D!Remaining, budget |-> D!Remaining,
                                           added |-> 0, files |-> IF kind = "plugin" THEN 1 ELSE n]]
    BY <1>1 DEF D!Begin
  <2>2. PICK m \in 1 .. MaxFiles : m = IF kind = "plugin" THEN 1 ELSE n BY DiskNumbers
  <2>3. PICK left \in 0 .. Limit : left = D!Remaining /\ left \in D!Blocks BY RemainingBound DEF DiskInv
  <2> DEFINE r == [kind |-> kind, at |-> "add", allowed |-> left, budget |-> left, added |-> 0, files |-> m]
  <2>4. r \in Adds BY <2>2, <2>3, DiskNumbers DEF Adds
  <2>5. WithinAllowance(r) BY <2>3, DiskNumbers DEF WithinAllowance
  <2>6. adding' = [adding EXCEPT ![a] = r] BY <2>1, <2>2, <2>3
  <2>7. UNCHANGED <<used, sample, measure, up, visitor, turns>> BY <1>1 DEF D!Begin
  <2> HIDE DEF r
  <2> QED BY <1>0, <2>4, <2>5, <2>6, <2>7, BecomesAllowed
<1>2. CASE D!AddFile(a)
  <2>1. PICK n \in 1 .. adding[a].budget :
          /\ D!Grow(n)
          /\ adding' = [adding EXCEPT ![a] = [@ EXCEPT !.budget = D!Spent(a, n), !.added = adding[a].added + n, !.files = adding[a].files - 1]]
    BY <1>2 DEF D!AddFile
  <2>2. adding[a].at = "add" /\ adding[a].kind # "pack" /\ adding[a].files > 0
        /\ UNCHANGED <<sample, measure, up, visitor, turns>>
    BY <1>2 DEF D!AddFile
  <2>3. PICK rest \in Nat : rest = D!Spent(a, n) /\ rest + n <= adding[a].budget
    BY <1>0, DiskNumbers DEF D!Spent, Adds, D!Blocks
  <2> DEFINE r == [adding[a] EXCEPT !.budget = rest, !.added = adding[a].added + n, !.files = adding[a].files - 1]
  <2>4. /\ r.kind = adding[a].kind /\ r.at = adding[a].at /\ r.allowed = adding[a].allowed
        /\ r.budget = rest /\ r.added = adding[a].added + n
    BY <1>0 DEF Adds
  <2>5. WithinAllowance(r)
    BY <1>0, <2>2, <2>3, <2>4, DiskNumbers DEF WithinAllowance, Adds, D!Blocks
  <2>6. r \in Adds
    <3>1. rest \in D!Blocks BY <1>0, <2>3, DiskNumbers DEF Adds, D!Blocks
    <3>2. adding[a].added + n \in 0 .. 3 * Disk
      BY <1>0, <2>2, DiskNumbers DEF Adds, D!Blocks, WithinAllowance
    <3>3. adding[a].files - 1 \in 0 .. MaxFiles BY <1>0, <2>2, DiskNumbers DEF Adds
    <3> QED BY <1>0, <3>1, <3>2, <3>3 DEF Adds
  <2>7. adding' = [adding EXCEPT ![a] = r] BY <1>0, <2>1, <2>3 DEF Adds
  <2>8. used' \in D!Blocks BY <1>0, <2>1, Grows, DiskNumbers DEF DiskInv, Adds, D!Blocks
  <2> HIDE DEF r
  <2> QED BY <2>2, <2>5, <2>6, <2>7, <2>8, BecomesAllowed
<1>3. CASE D!EndRequest(a)
  BY <1>0, <1>3, DoneAllowed, BecomesAllowed DEF D!EndRequest, D!Ends
<1> QED BY <1>1, <1>2, <1>3

\* What a step of a modpack leaves of its request.
LEMMA PackAdds ==
  ASSUME D!DiskAssumption, DiskInv, NEW a \in Adding, NEW n \in 1 .. adding[a].budget,
         NEW at \in {"extract", "overrides", "mods"}, NEW budget \in Nat, NEW files \in 0 .. MaxFiles,
         D!Adds(a, n, at, budget, files), adding[a].kind = "pack", budget <= adding[a].budget,
         at = "extract" => adding[a].added = 0,
         at # "extract" => adding[a].added + n + budget <= 3 * adding[a].allowed
  PROVE  DiskInv'
<1>0. used \in D!Blocks /\ adding \in [Adding -> Adds] /\ adding[a] \in Adds /\ WithinAllowance(adding[a])
  BY DEF DiskInv, D!TypeOK, Adds, Allowed
<1> DEFINE r == [adding[a] EXCEPT !.at = at, !.budget = budget, !.added = adding[a].added + n, !.files = files]
<1>1. r.kind = "pack" /\ r.at = at /\ r.allowed = adding[a].allowed /\ r.budget = budget /\ r.added = adding[a].added + n
  BY <1>0 DEF Adds
<1>2. /\ adding[a].allowed \in Nat /\ adding[a].budget \in Nat /\ adding[a].added \in Nat /\ n \in Nat /\ n <= adding[a].budget
      /\ adding[a].budget <= adding[a].allowed /\ adding[a].allowed <= Limit
  BY <1>0, DiskNumbers DEF Adds, D!Blocks, WithinAllowance
<1>3. adding[a].added + n <= 3 * adding[a].allowed BY <1>2
<1>4. WithinAllowance(r) BY <1>1, <1>2 DEF WithinAllowance
<1>5. r \in Adds
  <2>1. budget \in D!Blocks BY <1>2, DiskNumbers DEF D!Blocks
  <2>2. adding[a].added + n \in 0 .. 3 * Disk BY <1>2, <1>3, DiskNumbers
  <2> QED BY <1>0, <2>1, <2>2 DEF Adds
<1>6. adding' = [adding EXCEPT ![a] = r] BY <1>0 DEF D!Adds, Adds
<1>7. used' \in D!Blocks BY <1>2, Grows DEF DiskInv, D!Adds
<1>8. UNCHANGED <<sample, measure, up, visitor, turns>> BY DEF D!Adds
<1> HIDE DEF r
<1> QED BY <1>4, <1>5, <1>6, <1>7, <1>8, BecomesAllowed

\* Modpacks: the archive, what it unpacks to, a download for every mod.
LEMMA PackStep == ASSUME D!DiskAssumption, DiskInv, NEW a \in Adding, D!InstallPack(a) PROVE DiskInv'
<1>0. used \in D!Blocks /\ adding \in [Adding -> Adds] /\ adding[a] \in Adds /\ WithinAllowance(adding[a])
  BY DEF DiskInv, D!TypeOK, Adds, Allowed
<1>1. /\ adding[a].allowed \in Nat /\ adding[a].budget \in Nat /\ adding[a].added \in Nat /\ adding[a].files \in 0 .. MaxFiles
      /\ adding[a].budget <= adding[a].allowed
  BY <1>0, DiskNumbers DEF Adds, D!Blocks, WithinAllowance
<1>2. ASSUME NEW n \in Nat PROVE D!Spent(a, n) \in Nat /\ D!Spent(a, n) <= adding[a].budget
                                 /\ (n <= adding[a].budget => D!Spent(a, n) + n = adding[a].budget)
  BY <1>1 DEF D!Spent
<1>3. CASE D!FetchPack(a)
  <2>1. PICK n \in 1 .. adding[a].budget : D!Adds(a, n, "extract", adding[a].budget, adding[a].files)
    BY <1>3 DEF D!FetchPack
  <2>2. adding[a].kind = "pack" /\ adding[a].added = 0 BY <1>0, <1>3 DEF D!FetchPack, WithinAllowance
  <2> QED BY <1>1, <2>1, <2>2, PackAdds
<1>4. CASE D!ExtractPack(a)
  <2>1. PICK n \in 1 .. adding[a].budget : D!Adds(a, n, "overrides", D!Spent(a, adding[a].added), adding[a].files)
    BY <1>4 DEF D!ExtractPack
  <2>2. adding[a].kind = "pack" /\ adding[a].added <= adding[a].allowed BY <1>0, <1>4 DEF D!ExtractPack, WithinAllowance
  <2>3. adding[a].added + n + D!Spent(a, adding[a].added) <= 3 * adding[a].allowed BY <1>1, <1>2, <2>2
  <2> QED BY <1>1, <1>2, <2>1, <2>2, <2>3, PackAdds
<1>5. CASE D!MoveOverrides(a)
  <2> DEFINE r == [adding[a] EXCEPT !.at = "mods"]
  <2>1. r \in Adds /\ r.at = "mods" /\ r.kind = adding[a].kind /\ r.allowed = adding[a].allowed
        /\ r.budget = adding[a].budget /\ r.added = adding[a].added
    BY <1>0 DEF Adds
  <2>2. adding[a].at = "overrides" /\ UNCHANGED <<used, sample, measure, up, visitor, turns>> /\ adding' = [adding EXCEPT ![a] = r]
    BY <1>0, <1>5 DEF D!MoveOverrides
  <2>3. WithinAllowance(r) BY <1>0, <2>1, <2>2 DEF WithinAllowance
  <2> HIDE DEF r
  <2> QED BY <1>0, <2>1, <2>2, <2>3, BecomesAllowed
<1>6. CASE D!FetchMod(a)
  <2>1. PICK n \in 1 .. adding[a].budget : D!Adds(a, n, "mods", D!Spent(a, n), adding[a].files - 1)
    BY <1>6 DEF D!FetchMod
  <2>2. adding[a].kind = "pack" /\ adding[a].added + adding[a].budget <= 3 * adding[a].allowed
    BY <1>0, <1>6 DEF D!FetchMod, WithinAllowance
  <2>3. n \in Nat /\ D!Spent(a, n) + n = adding[a].budget BY <1>1, <1>2
  <2>4. adding[a].added + n + D!Spent(a, n) <= 3 * adding[a].allowed BY <1>1, <1>2, <2>2, <2>3
  <2>5. adding[a].files - 1 \in 0 .. MaxFiles BY <1>1, <1>6, DiskNumbers DEF D!FetchMod
  <2> QED BY <1>2, <2>1, <2>2, <2>3, <2>4, <2>5, PackAdds
<1> QED BY <1>3, <1>4, <1>5, <1>6 DEF D!InstallPack

\* SFTP, the game, and what is measured while it runs.
LEMMA RunningStep ==
  ASSUME D!DiskAssumption, DiskInv,
         \/ \E v \in Visitor : D!Login(v) \/ D!Put(v) \/ D!Leave(v)
         \/ D!Start \/ D!Stop \/ D!GameWrites \/ D!ReportStats \/ D!AgentRestarts \/ D!PruneStats
  PROVE  DiskInv'
<1> USE DEF DiskInv
<1>1. ASSUME NEW v \in Visitor, D!Login(v) \/ D!Leave(v) PROVE DiskInv'
  BY <1>1 DEF D!Login, D!Leave, D!TypeOK, Allowed
<1>2. ASSUME NEW v \in Visitor, D!Put(v) PROVE DiskInv'
  BY <1>2, Grows DEF D!Put, D!TypeOK, Allowed
<1>3. CASE D!GameWrites
  BY <1>3, Grows DEF D!GameWrites, D!TypeOK, Allowed
<1>4. CASE D!Start \/ D!Stop
  <2>1. UNCHANGED <<used, sample, measure, adding, visitor>> /\ up' \in BOOLEAN BY <1>4 DEF D!Start, D!Stop
  <2>2. turns' \in 0 .. MaxTurns BY <1>4, DiskNumbers DEF D!Start, D!Stop, D!Turn, D!TypeOK
  <2> QED BY <2>1, <2>2 DEF D!TypeOK, Allowed
<1>5. CASE D!ReportStats
  <2>1. 0 \in D!Blocks BY DiskNumbers DEF D!Blocks
  <2>2. {sample', measure'} \subseteq D!Blocks \cup {D!None} BY <1>5, <2>1 DEF D!ReportStats, D!TypeOK
  <2> QED BY <1>5, <2>2 DEF D!ReportStats, D!TypeOK, Allowed
<1>6. CASE D!AgentRestarts \/ D!PruneStats
  BY <1>6, DiskNumbers DEF D!AgentRestarts, D!PruneStats, D!Turn, D!TypeOK, Allowed
<1> QED BY <1>1, <1>2, <1>3, <1>4, <1>5, <1>6

\* A step of the disk keeps the invariant.
LEMMA DiskStep == ASSUME D!DiskAssumption, DiskInv, D!Next PROVE DiskInv'
BY UncountedStep, BudgetStep, PackStep, RunningStep DEF D!Next

\* The invariant is about the disk alone.
LEMMA DiskStill == ASSUME DiskInv, UNCHANGED dVars PROVE DiskInv'
BY DEF dVars, DiskInv, D!TypeOK, Allowed

\* An upload, an archive and a plugin stay within what was left when they began.
LEMMA DiskBudgetKept == ASSUME D!DiskAssumption, DiskInv PROVE D!WithinBudget
<1> SUFFICES ASSUME NEW a \in Adding, adding[a].kind \in {"upload", "decompress", "plugin"}
             PROVE  adding[a].added <= adding[a].allowed
  BY DEF D!WithinBudget
<1>1. adding[a] \in Adds /\ WithinAllowance(adding[a]) BY DEF DiskInv, D!TypeOK, Adds, Allowed
<1> QED BY <1>1, DiskNumbers DEF WithinAllowance, Adds, D!Blocks

-----------------------------------------------------------------------------
(***************************************************************************)
(* Players. Whom somebody was told of, the running game has in its list or is about    *)
(* to read of, and nothing on its way says otherwise; once it is down in order its     *)
(* files say the same.                                                      *)
(***************************************************************************)
Entries == List \X Player

\* What people were told of an entry, and where that can be read.
ToldInList(lists, k) == (told[k] = "in" => k[2] \in lists[k[1]]) /\ (told[k] = "out" => k[2] \notin lists[k[1]])

\* A line on its way says what somebody was told, and without one the memory does.
GameKnows ==
  \A k \in Entries :
    /\ \A c \in stdin : P!Key(c) = k => (told[k] = "in" => c.add) /\ (told[k] = "out" => ~c.add)
    /\ (\A c \in stdin : P!Key(c) # k) => ToldInList(memory, k)

\* An entry with a change still to come is told as open, or not at all.
StillOpen ==
  \A j \in Call : call[j].at # "idle" => told[P!Key(call[j].change)] \notin {"in", "out"}

PlayersInv ==
  /\ P!TypeOK /\ StillOpen
  /\ playing => GameKnows
  /\ ~playing => stdin = {}
  /\ P!Outlives

\* A change of a list exists, and its entry is one.
LEMMA ChangesExist ==
  ASSUME P!PlayersAssumption
  PROVE  /\ P!Idle.at = "idle" /\ P!Idle.change \in P!Change
         /\ MaxCalls \in Nat /\ MaxPlays \in Nat
         /\ \A c \in P!Change : P!Key(c) \in Entries /\ P!Key(c)[1] = c.list /\ P!Key(c)[2] = c.name
<1>1. PICK l \in List, p \in Player : TRUE BY DEF P!PlayersAssumption
<1>2. [list |-> l, name |-> p, add |-> TRUE] \in P!Change BY <1>1 DEF P!Change
<1>3. (CHOOSE c \in P!Change : TRUE) \in P!Change BY <1>2
<1> QED BY <1>3 DEF P!Idle, P!PlayersAssumption, P!Key, P!Change, Entries

\* Nobody was told anything.
LEMMA PlayersStart == ASSUME P!PlayersAssumption, P!Init PROVE PlayersInv
<1>1. P!TypeOK
  <2>1. call \in [Call -> [at : {"idle", "send", "attached"}, change : P!Change]] BY ChangesExist DEF P!Init, P!Idle
  <2>2. page \in [List -> (SUBSET Player) \cup {Unread}] BY DEF P!Init, P!Blank
  <2>3. told \in [List \X Player -> {"nothing", "open", "in", "out"}] BY DEF P!Init
  <2>4. plays \in 0 .. MaxPlays /\ calls \in 0 .. MaxCalls BY ChangesExist DEF P!Init
  <2> QED BY <2>1, <2>2, <2>3, <2>4 DEF P!Init, P!TypeOK
<1>2. StillOpen /\ ~playing /\ stdin = {} BY ChangesExist DEF P!Init, StillOpen
<1>3. P!Outlives BY DEF P!Init, P!Outlives
<1> QED BY <1>1, <1>2, <1>3 DEF PlayersInv

\* A boot reads the files; what was said before is nobody's concern.
LEMMA BootStep == ASSUME P!PlayersAssumption, PlayersInv, P!Boot PROVE PlayersInv'
<1>1. ~playing /\ playing' = TRUE /\ memory' = disk /\ told' = [k \in Entries |-> "nothing"] /\ stdin = {}
      /\ UNCHANGED <<status, disk, call, stdin, rested, page, calls>> /\ plays' \in 0 .. MaxPlays
  BY ChangesExist DEF P!Boot, P!Turn, PlayersInv, P!TypeOK, Entries
<1>2. P!TypeOK' BY <1>1 DEF PlayersInv, P!TypeOK, Entries
<1>3. \A k \in Entries : told'[k] = "nothing" BY <1>1
<1>4. GameKnows' BY <1>1, <1>3 DEF GameKnows, ToldInList
<1>5. StillOpen'
  <2>1. \A j \in Call : P!Key(call[j].change) \in Entries BY ChangesExist DEF PlayersInv, P!TypeOK
  <2>2. \A j \in Call : P!Key(call[j].change)' = P!Key(call[j].change) BY <1>1 DEF P!Key
  <2> QED BY <1>1, <1>3, <2>1, <2>2 DEF StillOpen
<1> QED BY <1>1, <1>2, <1>4, <1>5 DEF PlayersInv, P!Outlives

\* The game reads a line.
LEMMA HandlesStep == ASSUME P!PlayersAssumption, PlayersInv, P!Handles PROVE PlayersInv'
<1>1. PICK c \in stdin : stdin' = stdin \ {c} /\ memory' = P!With(memory, c)
  BY DEF P!Handles
<1>2. playing /\ UNCHANGED <<status, playing, disk, call, told, rested, page, plays, calls>>
  BY DEF P!Handles
<1>3. c \in P!Change /\ c.list \in List /\ c.name \in Player /\ c.add \in BOOLEAN
  BY DEF PlayersInv, P!TypeOK, P!Change
<1>4. \A l \in List : memory'[l] = IF l # c.list THEN memory[l] ELSE IF c.add THEN memory[l] \cup {c.name} ELSE memory[l] \ {c.name}
  BY <1>1, <1>3 DEF P!With, PlayersInv, P!TypeOK, P!Lists
<1>5. P!TypeOK'
  <2>1. memory' \in P!Lists BY <1>1, <1>3 DEF P!With, PlayersInv, P!TypeOK, P!Lists
  <2> QED BY <1>1, <1>2, <2>1 DEF PlayersInv, P!TypeOK
<1>6. GameKnows'
  <2> SUFFICES ASSUME NEW k \in Entries
               PROVE  /\ \A d \in stdin' : P!Key(d) = k => (told[k] = "in" => d.add) /\ (told[k] = "out" => ~d.add)
                      /\ (\A d \in stdin' : P!Key(d) # k) => ToldInList(memory, k)'
    BY <1>2 DEF GameKnows, P!Key
  <2>0. GameKnows BY <1>2 DEF PlayersInv
  <2>1. \A d \in stdin' : P!Key(d) = k => (told[k] = "in" => d.add) /\ (told[k] = "out" => ~d.add)
    BY <1>1, <2>0 DEF GameKnows
  <2>2. ASSUME \A d \in stdin' : P!Key(d) # k PROVE ToldInList(memory, k)'
    <3>0. k[1] \in List /\ k[2] \in Player /\ k = <<k[1], k[2]>> BY DEF Entries
    <3>1. CASE P!Key(c) = k
      <4>1. (told[k] = "in" => c.add) /\ (told[k] = "out" => ~c.add) BY <2>0, <3>1 DEF GameKnows
      <4>2. k[1] = c.list /\ k[2] = c.name BY <1>3, <3>1, ChangesExist
      <4>3. memory'[k[1]] = IF c.add THEN memory[k[1]] \cup {c.name} ELSE memory[k[1]] \ {c.name} BY <1>4, <3>0, <4>2
      <4> QED BY <1>2, <4>1, <4>2, <4>3 DEF ToldInList
    <3>2. CASE P!Key(c) # k
      <4>1. ToldInList(memory, k) BY <1>1, <2>0, <2>2, <3>2 DEF GameKnows
      <4>2. ~(k[1] = c.list /\ k[2] = c.name) BY <3>0, <3>2 DEF P!Key
      <4>3. k[2] \in memory'[k[1]] <=> k[2] \in memory[k[1]]
        <5>1. CASE k[1] # c.list BY <1>4, <3>0, <5>1
        <5>2. CASE k[1] = c.list /\ k[2] # c.name
          <6>1. memory'[k[1]] = IF c.add THEN memory[k[1]] \cup {c.name} ELSE memory[k[1]] \ {c.name} BY <1>4, <3>0, <5>2
          <6> QED BY <5>2, <6>1
        <5> QED BY <4>2, <5>1, <5>2
      <4> QED BY <1>2, <4>1, <4>3 DEF ToldInList
    <3> QED BY <3>1, <3>2
  <2> QED BY <2>1, <2>2
<1>7. StillOpen' BY <1>2 DEF PlayersInv, StillOpen, P!Key
<1> QED BY <1>2, <1>5, <1>6, <1>7 DEF PlayersInv, P!Outlives

\* The game goes down: in order it writes its lists, and a line it has not read is open.
LEMMA DownStep == ASSUME P!PlayersAssumption, PlayersInv, NEW inorder \in BOOLEAN, P!GoesDown(inorder) PROVE PlayersInv'
<1>1. /\ playing /\ playing' = FALSE /\ stdin' = {} /\ rested' = inorder
      /\ disk' = IF inorder THEN memory ELSE disk
      /\ told' = [k \in Entries |-> IF k \in {P!Key(c) : c \in stdin} THEN "open" ELSE told[k]]
      /\ UNCHANGED <<status, memory, call, page, calls>> /\ plays' \in 0 .. MaxPlays
  BY ChangesExist DEF P!GoesDown, P!Turn, PlayersInv, P!TypeOK, Entries
<1>2. \A k \in Entries : told'[k] = IF k \in {P!Key(c) : c \in stdin} THEN "open" ELSE told[k] BY <1>1
<1>3. P!TypeOK'
  <2>1. told' \in [List \X Player -> {"nothing", "open", "in", "out"}] BY <1>1 DEF PlayersInv, P!TypeOK, Entries
  <2>2. disk' \in P!Lists BY <1>1 DEF PlayersInv, P!TypeOK
  <2> QED BY <1>1, <2>1, <2>2 DEF PlayersInv, P!TypeOK
<1>4. StillOpen'
  <2>1. \A j \in Call : P!Key(call[j].change) \in Entries BY ChangesExist DEF PlayersInv, P!TypeOK
  <2>2. \A j \in Call : P!Key(call[j].change)' = P!Key(call[j].change) BY <1>1 DEF P!Key
  <2> QED BY <1>1, <1>2, <2>1, <2>2 DEF PlayersInv, StillOpen
<1>5. P!Outlives'
  <2> SUFFICES ASSUME inorder, NEW k \in Entries
               PROVE  (told'[k] = "in" => k[2] \in disk'[k[1]]) /\ (told'[k] = "out" => k[2] \notin disk'[k[1]])
    BY <1>1 DEF P!Outlives, Entries
  <2>1. CASE k \in {P!Key(c) : c \in stdin} BY <1>2, <2>1
  <2>2. CASE k \notin {P!Key(c) : c \in stdin}
    <3>1. ToldInList(memory, k) BY <1>1, <2>2 DEF PlayersInv, GameKnows
    <3> QED BY <1>1, <1>2, <2>2, <3>1 DEF ToldInList
  <2> QED BY <2>1, <2>2
<1> QED BY <1>1, <1>3, <1>4, <1>5 DEF PlayersInv

\* Saves, reports, edits underneath, and the page: what was told is not changed, nor what
\* the game knows.
LEMMA BesideStep ==
  ASSUME P!PlayersAssumption, PlayersInv,
         \/ P!Saves \/ P!Reports \/ P!Underneath \/ P!Refetch \/ \E l \in List : P!ReadJson(l)
  PROVE  PlayersInv'
<1>1. UNCHANGED <<playing, memory, call, stdin, told, calls>>
  BY DEF P!Saves, P!Reports, P!Underneath, P!Refetch, P!ReadJson
<1>2. plays' \in 0 .. MaxPlays
  BY ChangesExist DEF P!Saves, P!Reports, P!Underneath, P!Refetch, P!ReadJson, P!Turn, PlayersInv, P!TypeOK
<1>3. status' \in {"ONLINE", "STARTING", "OFFLINE"}
  BY DEF P!Saves, P!Reports, P!Underneath, P!Refetch, P!ReadJson, PlayersInv, P!TypeOK
<1>4. disk' \in P!Lists
  BY DEF P!Saves, P!Reports, P!Underneath, P!Refetch, P!ReadJson, PlayersInv, P!TypeOK
<1>5. rested' \in BOOLEAN
  BY DEF P!Saves, P!Reports, P!Underneath, P!Refetch, P!ReadJson, PlayersInv, P!TypeOK
<1>6. page' \in [List -> (SUBSET Player) \cup {Unread}]
  BY DEF P!Saves, P!Reports, P!Underneath, P!Refetch, P!ReadJson, PlayersInv, P!TypeOK, P!Blank
<1>7. P!TypeOK' BY <1>1, <1>2, <1>3, <1>4, <1>5, <1>6 DEF PlayersInv, P!TypeOK
<1>8. StillOpen' /\ (playing' => GameKnows') /\ (~playing' => stdin' = {})
  BY <1>1 DEF PlayersInv, StillOpen, GameKnows, ToldInList, P!Key
<1>9. P!Outlives'
  <2>1. ASSUME ~playing', rested' PROVE ~playing /\ rested /\ disk' = disk
    BY <1>1, <2>1 DEF P!Saves, P!Reports, P!Underneath, P!Refetch, P!ReadJson
  <2> QED BY <1>1, <2>1 DEF PlayersInv, P!Outlives
<1> QED BY <1>7, <1>8, <1>9 DEF PlayersInv

\* A change is asked for: its entry is open from then on.
LEMMA RunStep == ASSUME P!PlayersAssumption, PlayersInv, NEW j \in Call, P!Run(j) PROVE PlayersInv'
<1>1. PICK c \in P!Change : /\ call' = [call EXCEPT ![j] = [at |-> "send", change |-> c]]
                            /\ told' = [told EXCEPT ![P!Key(c)] = "open"]
  BY DEF P!Run
<1>2. UNCHANGED <<status, playing, memory, disk, stdin, rested, page, plays>> /\ calls' \in 0 .. MaxCalls
  BY ChangesExist DEF P!Run, PlayersInv, P!TypeOK
<1>3. \A k \in Entries : told'[k] = IF k = P!Key(c) THEN "open" ELSE told[k]
  BY <1>1 DEF PlayersInv, P!TypeOK, Entries
<1>4. P!TypeOK' BY <1>1, <1>2 DEF PlayersInv, P!TypeOK
<1>5. StillOpen'
  <2> SUFFICES ASSUME NEW i \in Call, call'[i].at # "idle" PROVE told'[P!Key(call'[i].change)] \notin {"in", "out"}
    BY DEF StillOpen, P!Key
  <2>1. CASE i = j
    <3>1. call'[i].change = c BY <1>1, <2>1 DEF PlayersInv, P!TypeOK
    <3> QED BY <1>3, <3>1, ChangesExist
  <2>2. CASE i # j
    <3>1. call'[i] = call[i] BY <1>1, <2>2 DEF PlayersInv, P!TypeOK
    <3>2. P!Key(call[i].change) \in Entries BY ChangesExist DEF PlayersInv, P!TypeOK
    <3> QED BY <1>3, <3>1, <3>2 DEF PlayersInv, StillOpen
  <2> QED BY <2>1, <2>2
<1>6. playing' => GameKnows'
  BY <1>2, <1>3 DEF PlayersInv, GameKnows, ToldInList, P!Key
<1>7. P!Outlives' BY <1>2, <1>3 DEF PlayersInv, P!Outlives, Entries
<1> QED BY <1>2, <1>4, <1>5, <1>6, <1>7 DEF PlayersInv

\* The node looks whether the game is up.
LEMMA SendStep == ASSUME P!PlayersAssumption, PlayersInv, NEW j \in Call, P!SendCommand(j) PROVE PlayersInv'
<1>1. call[j].at = "send" /\ UNCHANGED <<status, playing, memory, disk, stdin, told, rested, page, plays, calls>>
      /\ call' = [call EXCEPT ![j].at = IF playing THEN "attached" ELSE "idle"]
  BY DEF P!SendCommand
<1>2. P!TypeOK' BY <1>1 DEF PlayersInv, P!TypeOK
<1>3. \A i \in Call : call'[i].change = call[i].change /\ (call'[i].at # "idle" => call[i].at # "idle")
  BY <1>1 DEF PlayersInv, P!TypeOK
<1>4. StillOpen' BY <1>1, <1>3 DEF PlayersInv, StillOpen, P!Key
<1>5. playing' => GameKnows' BY <1>1 DEF PlayersInv, GameKnows, ToldInList, P!Key
<1> QED BY <1>1, <1>2, <1>4, <1>5 DEF PlayersInv, P!Outlives

\* The line is written: whoever asked is told that it is done if the game is up to read it
\* and nothing else of the entry is on its way.
LEMMA WrittenStep == ASSUME P!PlayersAssumption, PlayersInv, NEW j \in Call, P!Written(j) PROVE PlayersInv'
<1> DEFINE c == call[j].change
           k == P!Key(c)
<1>1. /\ call[j].at = "attached" /\ call' = [call EXCEPT ![j] = P!Idle] /\ page' = P!Blank
      /\ stdin' = (IF playing THEN stdin \cup {c} ELSE stdin) /\ UNCHANGED disk
      /\ told' = [told EXCEPT ![k] = P!Told(j)]
      /\ UNCHANGED <<status, playing, memory, rested, plays, calls>>
  BY DEF P!Written, P!Make
<1>2. c \in P!Change /\ k \in Entries /\ k[1] = c.list /\ k[2] = c.name BY ChangesExist DEF PlayersInv, P!TypeOK
<1>3. P!Told(j) \in {"open", "in", "out"} BY DEF P!Told
<1>4. P!TypeOK'
  <2>1. told' \in [List \X Player -> {"nothing", "open", "in", "out"}] BY <1>1, <1>2, <1>3 DEF PlayersInv, P!TypeOK, Entries
  <2>2. stdin' \subseteq P!Change BY <1>1, <1>2 DEF PlayersInv, P!TypeOK
  <2>3. call' \in [Call -> [at : {"idle", "send", "attached"}, change : P!Change]]
    BY <1>1, ChangesExist DEF PlayersInv, P!TypeOK, P!Idle
  <2>4. page' \in [List -> (SUBSET Player) \cup {Unread}] BY <1>1 DEF P!Blank
  <2> QED BY <1>1, <2>1, <2>2, <2>3, <2>4 DEF PlayersInv, P!TypeOK
<1>5. \A q \in Entries : told'[q] = IF q = k THEN P!Told(j) ELSE told[q]
  BY <1>1 DEF PlayersInv, P!TypeOK, Entries
<1>6. P!Told(j) # "open" =>
        /\ playing /\ (P!Told(j) = "in" <=> c.add) /\ \A d \in stdin : P!Key(d) # k
        /\ \A i \in Call \ {j} : call[i].at # "idle" => P!Key(call[i].change) # k
  BY DEF P!Told, P!UnderWay
<1>7. told[k] \notin {"in", "out"} BY <1>1 DEF PlayersInv, StillOpen
<1>8. StillOpen'
  <2> SUFFICES ASSUME NEW i \in Call, call'[i].at # "idle" PROVE told'[P!Key(call'[i].change)] \notin {"in", "out"}
    BY DEF StillOpen, P!Key
  <2>1. i # j /\ call'[i] = call[i] BY <1>1, ChangesExist DEF PlayersInv, P!TypeOK
  <2>2. P!Key(call[i].change) \in Entries BY ChangesExist DEF PlayersInv, P!TypeOK
  <2>3. told[P!Key(call[i].change)] \notin {"in", "out"} BY <2>1 DEF PlayersInv, StillOpen
  <2>4. CASE P!Key(call[i].change) = k BY <1>3, <1>5, <1>6, <2>1, <2>2, <2>4
  <2>5. CASE P!Key(call[i].change) # k BY <1>5, <2>1, <2>2, <2>3, <2>5
  <2> QED BY <2>4, <2>5
<1>9. ASSUME playing PROVE GameKnows'
  <2>0. GameKnows /\ stdin' = stdin \cup {c} BY <1>1, <1>9 DEF PlayersInv
  <2> SUFFICES ASSUME NEW q \in Entries
               PROVE  /\ \A d \in stdin' : P!Key(d) = q => (told'[q] = "in" => d.add) /\ (told'[q] = "out" => ~d.add)
                      /\ (\A d \in stdin' : P!Key(d) # q) => ToldInList(memory, q)'
    BY DEF GameKnows, P!Key
  <2>1. CASE q = k
    <3>1. ~(\A d \in stdin' : P!Key(d) # q) BY <2>0, <2>1
    <3>2. ASSUME NEW d \in stdin', P!Key(d) = q PROVE (told'[q] = "in" => d.add) /\ (told'[q] = "out" => ~d.add)
      <4>1. CASE P!Told(j) = "open" BY <1>5, <2>1, <4>1
      <4>2. CASE P!Told(j) # "open"
        <5>1. d = c BY <1>6, <2>0, <2>1, <3>2, <4>2
        <5> QED BY <1>3, <1>5, <1>6, <2>1, <4>2, <5>1
      <4> QED BY <4>1, <4>2
    <3> QED BY <3>1, <3>2
  <2>2. CASE q # k
    BY <1>1, <1>5, <2>0, <2>2 DEF GameKnows, ToldInList
  <2> QED BY <2>1, <2>2
<1>10. P!Outlives'
  <2>1. ASSUME ~playing PROVE P!Told(j) = "open" BY <2>1, <1>6
  <2> QED BY <1>1, <1>5, <2>1 DEF PlayersInv, P!Outlives, Entries
<1> QED BY <1>1, <1>4, <1>8, <1>9, <1>10 DEF PlayersInv

\* A step of the game, of a request for a change or of the page keeps the invariant.
LEMMA PlayersStep == ASSUME P!PlayersAssumption, PlayersInv, P!Next PROVE PlayersInv'
BY BootStep, HandlesStep, DownStep, BesideStep, RunStep, SendStep, WrittenStep DEF P!Next

\* The invariant is about the lists alone.
LEMMA PlayersStill == ASSUME PlayersInv, UNCHANGED pVars PROVE PlayersInv'
BY DEF pVars, PlayersInv, P!TypeOK, P!Outlives, StillOpen, GameKnows, ToldInList, P!Key

-----------------------------------------------------------------------------
(***************************************************************************)
(* Warnings. Of a resource one tick at most has the key and has not let go, and before  *)
(* it has told the owner nobody did.                                         *)
(***************************************************************************)
Telling(t) == tick[t].at \in {"push", "dispatch"}

\* What is told was told under the key, by the one tick that set it.
ToldUnderKey ==
  /\ \A r \in W!Resource : heard[r] <= 1 /\ (heard[r] # 0 => warned[r])
  /\ \A t \in Tick : Telling(t) => warned[W!Now(t)]
  /\ \A t \in Tick : tick[t].at = "push" => heard[W!Now(t)] = 0
  /\ \A t, u \in Tick : Telling(t) /\ Telling(u) /\ t # u => W!Now(t) # W!Now(u)

CeilingsInv == W!TypeOK /\ ToldUnderKey

\* Nobody is told of anything yet.
LEMMA CeilingsStart == ASSUME W!CeilingsAssumption, W!Init PROVE CeilingsInv
<1>1. W!TypeOK
  <2>1. load \in W!Reading /\ rows \in [1 .. Window -> W!Reading \cup {Unknown}] BY DEF W!Init, W!Reading
  <2>2. walked \in [full : BOOLEAN, fresh : BOOLEAN, walking : BOOLEAN] /\ minute \in [kept : BOOLEAN, tick : BOOLEAN]
    BY DEF W!Init
  <2>3. warned \in [W!Resource -> BOOLEAN] /\ heard \in [W!Resource -> Nat] BY DEF W!Init
  <2>4. tick \in [Tick -> [at : {"idle", "samples", "claim", "push", "dispatch"}, todo : SUBSET W!Resource]]
    BY DEF W!Init, W!Empty
  <2>5. moved \in 0 .. MaxMoves /\ faulty \in 0 .. MaxDeaths /\ serving \in BOOLEAN
    <3>1. MaxMoves \in Nat /\ MaxDeaths \in Nat BY DEF W!CeilingsAssumption
    <3>2. moved = 0 /\ faulty = 0 BY DEF W!Init
    <3>3. serving \in BOOLEAN BY DEF W!Init
    <3> QED BY <3>1, <3>2, <3>3
  <2> QED BY <2>1, <2>2, <2>3, <2>4, <2>5 DEF W!TypeOK
<1>2. ToldUnderKey BY DEF W!Init, W!Empty, W!Resource, ToldUnderKey, Telling
<1> QED BY <1>1, <1>2 DEF CeilingsInv

\* Whether a tick tells, and of what, is in its own row.
LEMMA TellsOf == \A t \in Tick : W!Now(t) \in W!Resource
BY DEF W!Now, W!Resource

\* What goes wrong is counted.
LEMMA FaultCounts == ASSUME W!CeilingsAssumption, W!TypeOK, W!Strained PROVE faulty' \in 0 .. MaxDeaths
BY DEF W!CeilingsAssumption, W!TypeOK, W!Strained

\* The server, the agent and the readings: no warning is touched.
LEMMA ReadingStep ==
  ASSUME W!CeilingsAssumption, CeilingsInv,
         W!Move \/ W!RecordStats \/ W!DirectorySize \/ W!AgentRestarts \/ W!Minute
  PROVE  CeilingsInv'
<1> USE DEF CeilingsInv
<1>1. UNCHANGED <<warned, heard, tick>>
  BY DEF W!Move, W!RecordStats, W!DirectorySize, W!AgentRestarts, W!Minute
<1>2. serving' \in BOOLEAN /\ moved' \in 0 .. MaxMoves /\ faulty' \in 0 .. MaxDeaths
  <2>1. serving' \in BOOLEAN BY DEF W!TypeOK, W!Move, W!RecordStats, W!DirectorySize, W!AgentRestarts, W!Minute
  <2>2. moved' \in 0 .. MaxMoves
    BY DEF W!CeilingsAssumption, W!TypeOK, W!Move, W!RecordStats, W!DirectorySize, W!AgentRestarts, W!Minute
  <2>3. CASE faulty' = faulty BY <2>1, <2>2, <2>3 DEF W!TypeOK
  <2>4. CASE W!Strained BY <2>1, <2>2, <2>4, FaultCounts
  <2> QED BY <2>3, <2>4 DEF W!Move, W!RecordStats, W!DirectorySize, W!AgentRestarts, W!Minute
<1>3. load' \in W!Reading
  BY DEF W!TypeOK, W!Reading, W!Move, W!RecordStats, W!DirectorySize, W!AgentRestarts, W!Minute
<1>4. walked' \in [full : BOOLEAN, fresh : BOOLEAN, walking : BOOLEAN]
  <2>1. CASE W!RecordStats
    <3>1. PICK w \in BOOLEAN : w = (walked.walking \/ ~walked.fresh) BY DEF W!TypeOK
    <3>2. walked' = [walked EXCEPT !.walking = w] BY <2>1, <3>1 DEF W!RecordStats
    <3> QED BY <3>2 DEF W!TypeOK
  <2>2. CASE W!DirectorySize
    <3>1. load["disk"] \in BOOLEAN BY DEF W!TypeOK, W!Reading, W!Resource
    <3> QED BY <2>2, <3>1 DEF W!DirectorySize
  <2>3. CASE W!Move BY <2>3 DEF W!TypeOK, W!Move
  <2>4. CASE W!AgentRestarts
    <3>1. walked' = [full |-> FALSE, fresh |-> FALSE, walking |-> FALSE] BY <2>4 DEF W!AgentRestarts
    <3> QED BY <3>1
  <2>5. CASE W!Minute BY <2>5 DEF W!TypeOK, W!Minute
  <2> QED BY <2>1, <2>2, <2>3, <2>4, <2>5
<1>5. minute' \in [kept : BOOLEAN, tick : BOOLEAN]
  <2>1. CASE W!RecordStats BY <2>1 DEF W!TypeOK, W!RecordStats
  <2>2. CASE W!Minute BY <2>2 DEF W!Minute
  <2>3. CASE W!Move \/ W!DirectorySize \/ W!AgentRestarts BY <2>3 DEF W!TypeOK, W!Move, W!DirectorySize, W!AgentRestarts
  <2> QED BY <2>1, <2>2, <2>3
<1>6. rows' \in [1 .. Window -> W!Reading \cup {Unknown}]
  <2>1. CASE W!RecordStats
    <3>1. W!Frame \in W!Reading BY DEF W!Frame, W!TypeOK, W!Reading, W!Resource
    <3> QED BY <2>1, <3>1 DEF W!RecordStats, W!TypeOK
  <2>2. CASE W!Minute
    <3>1. \A a \in 1 .. Window : a # 1 => a - 1 \in 1 .. Window BY DEF W!CeilingsAssumption
    <3> QED BY <2>2, <3>1 DEF W!Minute, W!TypeOK
  <2>3. CASE W!Move \/ W!DirectorySize \/ W!AgentRestarts BY <2>3 DEF W!TypeOK, W!Move, W!DirectorySize, W!AgentRestarts
  <2> QED BY <2>1, <2>2, <2>3
<1>7. ToldUnderKey' BY <1>1 DEF ToldUnderKey, Telling, W!Now
<1> QED BY <1>1, <1>2, <1>3, <1>4, <1>5, <1>6, <1>7 DEF W!TypeOK

\* The tick: whoever sets the key is the one that tells.
LEMMA TickStep ==
  ASSUME W!CeilingsAssumption, CeilingsInv, NEW t \in Tick, W!TickStep(t) \/ W!TickDies(t) PROVE CeilingsInv'
<1> DEFINE Ticks == [at : {"idle", "samples", "claim", "push", "dispatch"}, todo : SUBSET W!Resource]
<1> USE DEF CeilingsInv
<1>0. tick \in [Tick -> Ticks] /\ warned \in [W!Resource -> BOOLEAN] /\ heard \in [W!Resource -> Nat] BY DEF W!TypeOK
<1>1. UNCHANGED <<serving, load, walked, rows, moved>> /\ minute' \in [kept : BOOLEAN, tick : BOOLEAN] /\ faulty' \in 0 .. MaxDeaths
  <2>1. UNCHANGED <<serving, load, walked, rows, moved>>
    BY DEF W!TickStep, W!FindServers, W!Judge, W!WarnOnce, W!Push, W!Dispatch, W!TickDies
  <2>2. minute' \in [kept : BOOLEAN, tick : BOOLEAN]
    <3>1. CASE W!FindServers(t) BY <3>1 DEF W!TypeOK, W!FindServers
    <3>2. CASE ~W!FindServers(t)
      BY <3>2 DEF W!TypeOK, W!TickStep, W!Judge, W!WarnOnce, W!Push, W!Dispatch, W!TickDies
    <3> QED BY <3>1, <3>2
  <2>3. faulty' = faulty \/ W!Strained
    BY DEF W!TickStep, W!FindServers, W!Judge, W!WarnOnce, W!Push, W!Dispatch, W!TickDies
  <2>4. faulty' \in 0 .. MaxDeaths BY <2>3, FaultCounts DEF W!TypeOK
  <2> QED BY <2>1, <2>2, <2>4
<1>2. W!Empty \in Ticks /\ W!Empty.at = "idle" BY DEF W!Empty
<1>3. W!Now(t) \in W!Resource BY TellsOf
<1>4. ASSUME W!After(t) = tick', UNCHANGED heard, warned' \in {warned, [warned EXCEPT ![W!Now(t)] = TRUE]}
      PROVE  CeilingsInv'
  <2>1. PICK new \in Ticks : tick' = [tick EXCEPT ![t] = new] /\ new.at \in {"idle", "claim"}
    <3>1. PICK rest \in SUBSET W!Resource : rest = tick[t].todo \ {W!Now(t)} BY <1>0
    <3>2. [at |-> "claim", todo |-> rest] \in Ticks BY <3>1
    <3> QED BY <1>2, <1>4, <3>1, <3>2 DEF W!After
  <2>2. tick' \in [Tick -> Ticks] /\ \A u \in Tick : tick'[u] = IF u = t THEN new ELSE tick[u] BY <1>0, <2>1
  <2>3. warned' \in [W!Resource -> BOOLEAN] /\ (\A r \in W!Resource : warned[r] => warned'[r]) /\ heard' = heard BY <1>0, <1>4
  <2>4. \A u \in Tick : Telling(u)' => u # t /\ Telling(u) /\ W!Now(u)' = W!Now(u) /\ tick'[u] = tick[u]
    BY <2>1, <2>2 DEF Telling, W!Now
  <2>5. ToldUnderKey' BY <2>1, <2>2, <2>3, <2>4, TellsOf DEF ToldUnderKey, Telling
  <2> QED BY <1>1, <2>2, <2>3, <2>5 DEF W!TypeOK
<1>5. ASSUME NEW new \in Ticks, ~(new.at \in {"push", "dispatch"}), tick' = [tick EXCEPT ![t] = new], UNCHANGED <<warned, heard>>
      PROVE  CeilingsInv'
  <2>1. tick' \in [Tick -> Ticks] /\ \A u \in Tick : tick'[u] = IF u = t THEN new ELSE tick[u] BY <1>0, <1>5
  <2>2. \A u \in Tick : Telling(u)' => u # t /\ Telling(u) /\ W!Now(u)' = W!Now(u) /\ tick'[u] = tick[u]
    BY <1>5, <2>1 DEF Telling, W!Now
  <2>3. ToldUnderKey' BY <1>5, <2>1, <2>2 DEF ToldUnderKey, Telling
  <2> QED BY <1>1, <1>5, <2>1, <2>3 DEF W!TypeOK
<1>6. CASE W!FindServers(t)
  <2>1. CASE tick' = tick
    <3>1. UNCHANGED <<warned, heard>> BY <1>6 DEF W!FindServers
    <3>2. ToldUnderKey' BY <2>1, <3>1 DEF ToldUnderKey, Telling, W!Now
    <3> QED BY <1>1, <2>1, <3>1, <3>2 DEF W!TypeOK
  <2>2. CASE tick' = [tick EXCEPT ![t].at = "samples"]
    <3>1. [tick[t] EXCEPT !.at = "samples"] \in Ticks /\ [tick[t] EXCEPT !.at = "samples"].at = "samples" BY <1>0
    <3>2. tick' = [tick EXCEPT ![t] = [tick[t] EXCEPT !.at = "samples"]] BY <1>0, <2>2
    <3> QED BY <1>5, <1>6, <3>1, <3>2 DEF W!FindServers
  <2> QED BY <1>6, <2>1, <2>2 DEF W!FindServers
<1>7. CASE W!Judge(t)
  <2>1. PICK todo \in SUBSET W!Resource :
          tick' = [tick EXCEPT ![t] = IF todo = {} THEN W!Empty ELSE [at |-> "claim", todo |-> todo]]
    BY <1>7 DEF W!Judge
  <2>2. PICK new \in Ticks : new = (IF todo = {} THEN W!Empty ELSE [at |-> "claim", todo |-> todo]) /\ new.at \in {"idle", "claim"}
    <3>1. [at |-> "claim", todo |-> todo] \in Ticks /\ [at |-> "claim", todo |-> todo].at = "claim" OBVIOUS
    <3>2. CASE todo = {} BY <1>2, <3>2
    <3>3. CASE todo # {} BY <3>1, <3>3
    <3> QED BY <3>2, <3>3
  <2> QED BY <1>5, <1>7, <2>1, <2>2 DEF W!Judge
<1>8. CASE W!WarnOnce(t)
  <2>1. tick[t].at = "claim" /\ warned' = [warned EXCEPT ![W!Now(t)] = TRUE] /\ UNCHANGED heard BY <1>8 DEF W!WarnOnce
  <2>2. CASE warned[W!Now(t)]
    BY <1>4, <1>8, <2>1, <2>2 DEF W!WarnOnce, W!First
  <2>3. CASE ~warned[W!Now(t)]
    <3>1. tick' = [tick EXCEPT ![t].at = "push"] BY <1>8, <2>3 DEF W!WarnOnce, W!First
    <3>2. /\ tick' \in [Tick -> Ticks]
          /\ \A u \in Tick : tick'[u].todo = tick[u].todo /\ tick'[u].at = IF u = t THEN "push" ELSE tick[u].at
      BY <1>0, <3>1
    <3>3. \A u \in Tick : W!Now(u)' = W!Now(u) BY <3>2 DEF W!Now
    <3>4. \A u \in Tick : Telling(u)' <=> u = t \/ Telling(u) BY <2>1, <3>2 DEF Telling
    <3>5. warned' \in [W!Resource -> BOOLEAN] /\ \A r \in W!Resource : warned'[r] = IF r = W!Now(t) THEN TRUE ELSE warned[r]
      BY <1>0, <1>3, <2>1
    <3>6. heard[W!Now(t)] = 0 /\ \A u \in Tick : Telling(u) => W!Now(u) # W!Now(t) BY <1>3, <2>3 DEF ToldUnderKey
    <3>7. ToldUnderKey'
      <4>1. \A r \in W!Resource : heard'[r] <= 1 /\ (heard'[r] # 0 => warned'[r]) BY <2>1, <3>5 DEF ToldUnderKey
      <4>2. \A u \in Tick : Telling(u)' => warned'[W!Now(u)'] BY <3>3, <3>4, <3>5, TellsOf DEF ToldUnderKey
      <4>3. \A u \in Tick : tick'[u].at = "push" => heard'[W!Now(u)'] = 0 BY <2>1, <3>2, <3>3, <3>6 DEF ToldUnderKey
      <4>4. \A u, v \in Tick : Telling(u)' /\ Telling(v)' /\ u # v => W!Now(u)' # W!Now(v)'
        BY <3>3, <3>4, <3>6 DEF ToldUnderKey
      <4> QED BY <4>1, <4>2, <4>3, <4>4 DEF ToldUnderKey
    <3> QED BY <1>1, <2>1, <3>2, <3>5, <3>7 DEF W!TypeOK
  <2> QED BY <2>2, <2>3
<1>9. CASE W!Push(t)
  <2>1. tick[t].at = "push" /\ heard' = [heard EXCEPT ![W!Now(t)] = @ + 1] /\ tick' = [tick EXCEPT ![t].at = "dispatch"]
        /\ UNCHANGED warned
    BY <1>9 DEF W!Push
  <2>2. heard[W!Now(t)] = 0 /\ warned[W!Now(t)] BY <2>1 DEF ToldUnderKey, Telling
  <2>3. heard' \in [W!Resource -> Nat] /\ \A r \in W!Resource : heard'[r] = IF r = W!Now(t) THEN 1 ELSE heard[r]
    BY <1>0, <1>3, <2>1, <2>2
  <2>4. /\ tick' \in [Tick -> Ticks]
        /\ \A u \in Tick : tick'[u].todo = tick[u].todo /\ tick'[u].at = IF u = t THEN "dispatch" ELSE tick[u].at
    BY <1>0, <2>1
  <2>5. \A u \in Tick : W!Now(u)' = W!Now(u) BY <2>4 DEF W!Now
  <2>6. \A u \in Tick : Telling(u)' <=> Telling(u) BY <2>1, <2>4 DEF Telling
  <2>7. ToldUnderKey'
    <3>1. \A r \in W!Resource : heard'[r] <= 1 /\ (heard'[r] # 0 => warned'[r]) BY <2>1, <2>2, <2>3 DEF ToldUnderKey
    <3>2. \A u \in Tick : Telling(u)' => warned'[W!Now(u)'] BY <2>1, <2>5, <2>6 DEF ToldUnderKey
    <3>3. ASSUME NEW u \in Tick, tick'[u].at = "push" PROVE heard'[W!Now(u)'] = 0
      <4>1. u # t /\ tick[u].at = "push" BY <2>4, <3>3
      <4>2. W!Now(u) # W!Now(t) BY <2>1, <4>1 DEF ToldUnderKey, Telling
      <4> QED BY <2>3, <2>5, <4>1, <4>2, TellsOf DEF ToldUnderKey
    <3>4. \A u, v \in Tick : Telling(u)' /\ Telling(v)' /\ u # v => W!Now(u)' # W!Now(v)' BY <2>5, <2>6 DEF ToldUnderKey
    <3> QED BY <3>1, <3>2, <3>3, <3>4 DEF ToldUnderKey
  <2> QED BY <1>1, <2>1, <2>3, <2>4, <2>7 DEF W!TypeOK
<1>10. CASE W!Dispatch(t)
  BY <1>4, <1>10 DEF W!Dispatch
<1>11. CASE W!TickDies(t)
  BY <1>2, <1>5, <1>11 DEF W!TickDies
<1> QED BY <1>6, <1>7, <1>8, <1>9, <1>10, <1>11 DEF W!TickStep

\* A step of the warnings keeps the invariant.
LEMMA CeilingsStep == ASSUME W!CeilingsAssumption, CeilingsInv, W!Next PROVE CeilingsInv'
<1>1. ASSUME NEW r \in W!Resource, W!CooldownEnds(r) PROVE CeilingsInv'
  <2>1. /\ \A t \in Tick : Telling(t) => W!Now(t) # r
        /\ warned' = [warned EXCEPT ![r] = FALSE] /\ heard' = [heard EXCEPT ![r] = 0]
        /\ UNCHANGED <<serving, load, walked, minute, rows, tick, moved, faulty>>
    BY <1>1 DEF W!CooldownEnds, Telling
  <2>2. /\ warned' \in [W!Resource -> BOOLEAN] /\ \A q \in W!Resource : warned'[q] = IF q = r THEN FALSE ELSE warned[q]
        /\ heard' \in [W!Resource -> Nat] /\ \A q \in W!Resource : heard'[q] = IF q = r THEN 0 ELSE heard[q]
    BY <2>1 DEF CeilingsInv, W!TypeOK
  <2>3. \A t \in Tick : W!Now(t)' = W!Now(t) /\ (Telling(t)' <=> Telling(t)) BY <2>1 DEF W!Now, Telling
  <2>4. ToldUnderKey' BY <2>1, <2>2, <2>3, TellsOf DEF CeilingsInv, ToldUnderKey
  <2> QED BY <2>1, <2>2, <2>4 DEF CeilingsInv, W!TypeOK
<1> QED BY <1>1, ReadingStep, TickStep DEF W!Next

\* The invariant is about the warnings alone.
LEMMA CeilingsStill == ASSUME CeilingsInv, UNCHANGED wVars PROVE CeilingsInv'
BY DEF wVars, CeilingsInv, W!TypeOK, ToldUnderKey, Telling, W!Now

-----------------------------------------------------------------------------
(***************************************************************************)
(* Updates. A run that is about to move the checkout has set its edits aside, and where  *)
(* the branch was replaced it found no commit of the host's own.                    *)
(***************************************************************************)
Runs == [at : {"idle", "look", "merge", "build", "up", "prove"}, stash : BOOLEAN,
         current : U!Commit \cup {U!None}, target : U!Commit \cup {U!None}, rewritten : BOOLEAN]
Checkouts == [commit : U!Commit, dirty : BOOLEAN, stashed : BOOLEAN, own : BOOLEAN]

\* Nothing is in the way of a run that may overwrite it.
SetAside ==
  \A r \in U!Runner : run[r].at = "merge" => ~checkout.dirty /\ (run[r].rewritten => ~checkout.own)

UpdatesInv == U!TypeOK /\ SetAside /\ U!NothingLost

\* The bounds are numbers, and the first commit is one.
LEMMA UpdatesNumbers ==
  ASSUME U!UpdatesAssumption
  PROVE  MaxCommits \in Nat /\ MaxFaults \in Nat /\ 1 \in U!Commit /\ U!NoRun \in Runs /\ U!NoRun.at = "idle"
BY DEF U!UpdatesAssumption, U!Commit, U!NoRun, U!None, Runs

\* Nothing is edited, nothing runs.
LEMMA UpdatesStart == ASSUME U!UpdatesAssumption, U!Init PROVE UpdatesInv
<1>1. U!TypeOK
  <2>1. branch \in [head : U!Commit, base : U!Commit] /\ origin \in U!Commit /\ image \in U!Commit BY UpdatesNumbers DEF U!Init
  <2>2. checkout \in Checkouts /\ lost \in BOOLEAN BY UpdatesNumbers DEF U!Init, Checkouts
  <2>3. run \in [U!Runner -> Runs] BY UpdatesNumbers DEF U!Init
  <2>4. built \in U!Commit \cup {U!None} /\ latest \in U!Commit \cup {U!None} /\ faults \in 0 .. MaxFaults
    BY UpdatesNumbers DEF U!Init
  <2>5. admin \in [Admin -> U!Commit \cup {U!None}] /\ asked \in [commit : U!Commit \cup {U!None}, stash : BOOLEAN]
    BY DEF U!Init
  <2>6. job \in [state : {"none", "running", "succeeded", "failed"}, commit : U!Commit \cup {U!None}]
        /\ service \in [up : BOOLEAN, heartbeat : {"none", "fresh", "stale"}]
    BY DEF U!Init
  <2> QED BY <2>1, <2>2, <2>3, <2>4, <2>5, <2>6 DEF U!TypeOK, Runs, Checkouts
<1>2. SetAside /\ U!NothingLost BY UpdatesNumbers DEF U!Init, SetAside, U!NothingLost
<1> QED BY <1>1, <1>2 DEF UpdatesInv

\* What goes wrong is counted.
LEMMA FailsCount == ASSUME U!UpdatesAssumption, U!TypeOK, U!Fault PROVE faults' \in 0 .. MaxFaults
BY UpdatesNumbers DEF U!TypeOK, U!Fault

\* The branch and the panel: neither the checkout nor a run is touched.
LEMMA AwayStep ==
  ASSUME U!UpdatesAssumption, UpdatesInv,
         \/ U!Push \/ U!Check \/ U!Forget \/ \E a \in Admin : U!AskStatus(a) \/ U!RequestUpdate(a)
         \/ U!ServiceStarts \/ U!WriteHeartbeat \/ U!HeartbeatAges
  PROVE  UpdatesInv'
<1> USE DEF UpdatesInv, U!host
<1>1. UNCHANGED <<origin, checkout, lost, image, built, job, run, faults>>
  BY DEF U!Push, U!Check, U!Forget, U!AskStatus, U!RequestUpdate, U!ServiceStarts, U!WriteHeartbeat, U!HeartbeatAges
<1>2. branch' \in [head : U!Commit, base : U!Commit]
  <2>1. CASE U!Push
    <3>1. branch.head + 1 \in U!Commit /\ branch.base \in U!Commit BY <2>1, UpdatesNumbers DEF U!Push, U!TypeOK, U!Commit
    <3> QED BY <2>1, <3>1 DEF U!Push
  <2>2. CASE ~U!Push
    BY <2>2 DEF U!TypeOK, U!Check, U!Forget, U!AskStatus, U!RequestUpdate, U!ServiceStarts, U!WriteHeartbeat, U!HeartbeatAges
  <2> QED BY <2>1, <2>2
<1>3. latest' \in U!Commit \cup {U!None}
  BY DEF U!TypeOK, U!Push, U!Check, U!Forget, U!AskStatus, U!RequestUpdate, U!ServiceStarts, U!WriteHeartbeat, U!HeartbeatAges
<1>4. admin' \in [Admin -> U!Commit \cup {U!None}]
  BY DEF U!TypeOK, U!Push, U!Check, U!Forget, U!AskStatus, U!RequestUpdate, U!ServiceStarts, U!WriteHeartbeat, U!HeartbeatAges
<1>5. asked' \in [commit : U!Commit \cup {U!None}, stash : BOOLEAN]
  <2>1. ASSUME NEW a \in Admin, U!RequestUpdate(a) PROVE asked' \in [commit : U!Commit \cup {U!None}, stash : BOOLEAN]
    <3>1. admin[a] \in U!Commit \cup {U!None} BY DEF U!TypeOK
    <3> QED BY <2>1, <3>1 DEF U!TypeOK, U!RequestUpdate
  <2> QED BY <2>1 DEF U!TypeOK, U!Push, U!Check, U!Forget, U!AskStatus, U!ServiceStarts, U!WriteHeartbeat, U!HeartbeatAges
<1>6. service' \in [up : BOOLEAN, heartbeat : {"none", "fresh", "stale"}]
  BY DEF U!TypeOK, U!Push, U!Check, U!Forget, U!AskStatus, U!RequestUpdate, U!ServiceStarts, U!WriteHeartbeat, U!HeartbeatAges
<1>7. SetAside' /\ U!NothingLost' BY <1>1 DEF SetAside, U!NothingLost
<1> QED BY <1>1, <1>2, <1>3, <1>4, <1>5, <1>6, <1>7 DEF U!TypeOK

\* The host's own work: only while no update runs.
LEMMA EditsStep == ASSUME U!UpdatesAssumption, UpdatesInv, U!Edit \/ U!DropOwnCommit PROVE UpdatesInv'
<1> USE DEF UpdatesInv
<1>1. U!Quiet /\ UNCHANGED <<branch, origin, lost, image, built, latest, admin, asked, job, service, run>>
  BY DEF U!Edit, U!DropOwnCommit
<1>2. checkout' \in Checkouts BY DEF U!Edit, U!DropOwnCommit, U!TypeOK, Checkouts
<1>3. faults' \in 0 .. MaxFaults BY FailsCount DEF U!Edit, U!DropOwnCommit, U!TypeOK
<1>4. SetAside' BY <1>1 DEF U!Quiet, SetAside
<1> QED BY <1>1, <1>2, <1>3, <1>4 DEF U!TypeOK, Checkouts, U!NothingLost

\* A run begins, ends or goes on without moving the checkout.
LEMMA RunBecomes ==
  ASSUME UpdatesInv, NEW r \in U!Runner, NEW new \in Runs, new.at # "merge", run' = [run EXCEPT ![r] = new],
         UNCHANGED <<checkout, lost>>
  PROVE  run' \in [U!Runner -> Runs] /\ SetAside' /\ U!NothingLost'
<1>1. run \in [U!Runner -> Runs] BY DEF UpdatesInv, U!TypeOK, Runs
<1>2. run' \in [U!Runner -> Runs] /\ \A q \in U!Runner : run'[q] = IF q = r THEN new ELSE run[q] BY <1>1
<1> QED BY <1>2 DEF UpdatesInv, SetAside, U!NothingLost

\* The service takes a request, or stops; the operator starts a run by hand.
LEMMA BeginsStep ==
  ASSUME U!UpdatesAssumption, UpdatesInv, U!ProcessRequest \/ U!ServiceStops \/ U!RunByHand PROVE UpdatesInv'
<1> USE DEF U!host
<1>1. UNCHANGED <<branch, origin, checkout, lost, image, built, latest, admin>>
  BY DEF U!ProcessRequest, U!ServiceStops, U!RunByHand
<1>2. run' \in [U!Runner -> Runs] /\ SetAside' /\ U!NothingLost'
  <2>1. ASSUME NEW r \in U!Runner, NEW stash \in BOOLEAN, U!Begin(r, stash)
        PROVE  run' \in [U!Runner -> Runs] /\ SetAside' /\ U!NothingLost'
    <3> DEFINE new == [U!NoRun EXCEPT !.at = "look", !.stash = stash]
    <3>1. new \in Runs /\ new.at = "look" BY DEF U!NoRun, Runs
    <3>2. run' = [run EXCEPT ![r] = new] BY <2>1 DEF U!Begin
    <3> HIDE DEF new
    <3> QED BY <1>1, <3>1, <3>2, RunBecomes
  <2>2. CASE U!ProcessRequest
    <3>1. asked.stash \in BOOLEAN BY DEF UpdatesInv, U!TypeOK
    <3> QED BY <2>1, <2>2, <3>1 DEF U!ProcessRequest, U!Runner
  <2>3. CASE U!RunByHand BY <2>1, <2>3 DEF U!RunByHand, U!Runner
  <2>4. CASE U!ServiceStops BY <1>1, <2>4, UpdatesNumbers, RunBecomes DEF U!ServiceStops, U!Runner
  <2> QED BY <2>2, <2>3, <2>4
<1>3. asked' \in [commit : U!Commit \cup {U!None}, stash : BOOLEAN]
  <2>1. asked' \in {asked, [commit |-> U!None, stash |-> FALSE]} BY DEF U!ProcessRequest, U!ServiceStops, U!RunByHand
  <2>2. [commit |-> U!None, stash |-> FALSE] \in [commit : U!Commit \cup {U!None}, stash : BOOLEAN] OBVIOUS
  <2> QED BY <2>1, <2>2 DEF UpdatesInv, U!TypeOK
<1>4. job' \in [state : {"none", "running", "succeeded", "failed"}, commit : U!Commit \cup {U!None}]
  <2>1. asked.commit \in U!Commit \cup {U!None} BY DEF UpdatesInv, U!TypeOK
  <2> QED BY <2>1 DEF UpdatesInv, U!TypeOK, U!ProcessRequest, U!ServiceStops, U!RunByHand
<1>5. service' \in [up : BOOLEAN, heartbeat : {"none", "fresh", "stale"}]
  <2>1. service \in [up : BOOLEAN, heartbeat : {"none", "fresh", "stale"}] BY DEF UpdatesInv, U!TypeOK
  <2>2. CASE U!ServiceStops
    <3>1. PICK heartbeat \in {"none", service.heartbeat} : service' = [up |-> FALSE, heartbeat |-> heartbeat]
      BY <2>2 DEF U!ServiceStops
    <3> QED BY <2>1, <3>1
  <2>3. CASE service' = service BY <2>1, <2>3
  <2> QED BY <2>2, <2>3 DEF U!ProcessRequest, U!RunByHand
<1>6. faults' \in 0 .. MaxFaults
  BY FailsCount DEF UpdatesInv, U!TypeOK, U!ProcessRequest, U!ServiceStops, U!RunByHand
<1> QED BY <1>1, <1>2, <1>3, <1>4, <1>5, <1>6 DEF UpdatesInv, U!TypeOK, Runs

\* Where a run goes next, or how it ends, is written down.
LEMMA GoesTyped ==
  ASSUME U!UpdatesAssumption, UpdatesInv, NEW r \in U!Runner, NEW at \in {"build", "up", "prove"},
         NEW state \in {"succeeded", "failed"}, U!Goes(r, at) \/ U!Ends(r, state)
  PROVE  /\ \E new \in Runs : new.at # "merge" /\ run' = [run EXCEPT ![r] = new]
         /\ job' \in [state : {"none", "running", "succeeded", "failed"}, commit : U!Commit \cup {U!None}]
<1>1. run \in [U!Runner -> Runs] BY DEF UpdatesInv, U!TypeOK, Runs
<1>2. CASE U!Goes(r, at)
  <2>1. [run[r] EXCEPT !.at = at] \in Runs /\ [run[r] EXCEPT !.at = at].at = at BY <1>1 DEF Runs
  <2>2. run' = [run EXCEPT ![r] = [run[r] EXCEPT !.at = at]] BY <1>1, <1>2 DEF U!Goes
  <2> QED BY <1>2, <2>1, <2>2 DEF U!Goes, UpdatesInv, U!TypeOK
<1>3. CASE U!Ends(r, state)
  BY <1>3, UpdatesNumbers DEF U!Ends, UpdatesInv, U!TypeOK
<1> QED BY <1>2, <1>3

\* A step that leaves the checkout alone.
LEMMA BuildStep ==
  ASSUME U!UpdatesAssumption, UpdatesInv, NEW r \in U!Runner,
         U!Build(r) \/ U!Up(r) \/ U!Prove(r) \/ U!StepFails(r)
  PROVE  UpdatesInv'
<1> USE DEF U!host
<1>1. UNCHANGED <<branch, origin, checkout, lost, latest, asked, service>>
  BY DEF U!Build, U!Up, U!Prove, U!StepFails
<1>2. PICK at \in {"build", "up", "prove"}, state \in {"succeeded", "failed"} : U!Goes(r, at) \/ U!Ends(r, state)
  BY DEF U!Build, U!Up, U!Prove, U!StepFails
<1>3. run' \in [U!Runner -> Runs] /\ SetAside' /\ U!NothingLost'
  BY <1>1, <1>2, GoesTyped, RunBecomes
<1>4. job' \in [state : {"none", "running", "succeeded", "failed"}, commit : U!Commit \cup {U!None}]
  BY <1>2, GoesTyped
<1>5. image' \in U!Commit /\ built' \in U!Commit \cup {U!None}
  BY DEF UpdatesInv, U!TypeOK, U!Build, U!Up, U!Prove, U!StepFails
<1>6. admin' \in [Admin -> U!Commit \cup {U!None}]
  BY DEF UpdatesInv, U!TypeOK, U!Build, U!Up, U!Prove, U!StepFails
<1>7. faults' \in 0 .. MaxFaults
  BY FailsCount DEF UpdatesInv, U!TypeOK, U!Build, U!Up, U!Prove, U!StepFails
<1> QED BY <1>1, <1>3, <1>4, <1>5, <1>6, <1>7 DEF UpdatesInv, U!TypeOK, Runs

\* A run looks: it stops at commits of the host's own and at edits nobody asked to set
\* aside, and goes on over neither.
LEMMA LookStep == ASSUME U!UpdatesAssumption, UpdatesInv, NEW r \in U!Runner, U!Look(r) PROVE UpdatesInv'
<1>0. run \in [U!Runner -> Runs] /\ checkout \in Checkouts /\ branch.head \in U!Commit
  BY DEF UpdatesInv, U!TypeOK, Runs, Checkouts
<1>1. origin' = branch.head /\ UNCHANGED <<branch, lost, image, built, latest, admin, asked, service, faults>>
  BY DEF U!Look
<1>2. ASSUME NEW state \in {"succeeded", "failed"}, U!Ends(r, state), UNCHANGED checkout PROVE UpdatesInv'
  <2>1. run' \in [U!Runner -> Runs] /\ SetAside' /\ U!NothingLost'
        /\ job' \in [state : {"none", "running", "succeeded", "failed"}, commit : U!Commit \cup {U!None}]
    BY <1>1, <1>2, GoesTyped, RunBecomes
  <2> QED BY <1>0, <1>1, <1>2, <2>1 DEF UpdatesInv, U!TypeOK, Runs
<1>3. ASSUME ~U!Refused(r), UNCHANGED job,
             checkout' = IF checkout.dirty THEN [checkout EXCEPT !.dirty = FALSE, !.stashed = TRUE] ELSE checkout,
             run' = [run EXCEPT ![r] = [@ EXCEPT !.at = "merge", !.current = checkout.commit,
                                                 !.target = branch.head, !.rewritten = U!Rewritten]]
      PROVE  UpdatesInv'
  <2>1. PICK w \in BOOLEAN : w = U!Rewritten
    <3>1. U!Rewritten \in BOOLEAN BY DEF U!Rewritten
    <3> QED BY <3>1, Zenon
  <2> DEFINE new == [run[r] EXCEPT !.at = "merge", !.current = checkout.commit, !.target = branch.head, !.rewritten = w]
  <2>2. new \in Runs /\ new.rewritten = w BY <1>0 DEF Runs, Checkouts
  <2>3. run' = [run EXCEPT ![r] = new] BY <1>0, <1>3, <2>1
  <2> HIDE DEF new
  <2>4. run' \in [U!Runner -> Runs] /\ \A q \in U!Runner : run'[q] = IF q = r THEN new ELSE run[q] BY <1>0, <2>2, <2>3
  <2>5. checkout' \in Checkouts /\ ~checkout'.dirty /\ checkout'.own = checkout.own BY <1>0, <1>3 DEF Checkouts
  <2>6. w => ~checkout.own BY <1>3, <2>1 DEF U!Refused
  <2>7. SetAside' BY <2>2, <2>4, <2>5, <2>6 DEF UpdatesInv, SetAside
  <2> QED BY <1>0, <1>1, <1>3, <2>4, <2>5, <2>7 DEF UpdatesInv, U!TypeOK, U!NothingLost, Runs, Checkouts
<1> QED BY <1>2, <1>3 DEF U!Look

\* A run moves the checkout: what it overwrites it found set aside.
LEMMA MergeStep == ASSUME U!UpdatesAssumption, UpdatesInv, NEW r \in U!Runner, U!Merge(r) PROVE UpdatesInv'
<1>0. run \in [U!Runner -> Runs] /\ checkout \in Checkouts /\ origin \in U!Commit
  BY DEF UpdatesInv, U!TypeOK, Runs, Checkouts
<1>1. /\ run[r].at = "merge" /\ ~checkout.dirty /\ (run[r].rewritten => ~checkout.own)
      /\ UNCHANGED <<branch, origin, image, built, latest, admin, asked, service, faults>>
  BY DEF U!Merge, UpdatesInv, SetAside
<1>2. PICK at \in {"build", "up", "prove"}, state \in {"succeeded", "failed"} : U!Goes(r, at) \/ U!Ends(r, state)
  BY DEF U!Merge
<1>3. PICK new \in Runs : new.at # "merge" /\ run' = [run EXCEPT ![r] = new]
  BY <1>2, GoesTyped
<1>4. job' \in [state : {"none", "running", "succeeded", "failed"}, commit : U!Commit \cup {U!None}]
  BY <1>2, GoesTyped
<1>5. /\ checkout' \in {checkout, [checkout EXCEPT !.commit = origin], [checkout EXCEPT !.commit = origin, !.dirty = FALSE, !.own = FALSE]}
      /\ ~lost'
  BY <1>1 DEF U!Merge, UpdatesInv, U!NothingLost
<1>6. checkout' \in Checkouts /\ ~checkout'.dirty /\ (checkout'.own => checkout.own) BY <1>0, <1>1, <1>5 DEF Checkouts
<1>7. run' \in [U!Runner -> Runs] /\ \A q \in U!Runner : run'[q] = IF q = r THEN new ELSE run[q] BY <1>0, <1>3
<1>8. SetAside' BY <1>3, <1>6, <1>7 DEF UpdatesInv, SetAside
<1>9. lost' \in BOOLEAN
  <2>1. lost' = lost \/ lost' = (lost \/ checkout.dirty \/ checkout.own) BY DEF U!Merge
  <2> QED BY <1>0, <2>1 DEF UpdatesInv, U!TypeOK
<1> QED BY <1>1, <1>4, <1>5, <1>6, <1>7, <1>8, <1>9 DEF UpdatesInv, U!TypeOK, U!NothingLost, Runs, Checkouts

\* A step of the branch, the panel, the service or a run keeps the invariant.
LEMMA UpdatesStep == ASSUME U!UpdatesAssumption, UpdatesInv, U!Next PROVE UpdatesInv'
BY AwayStep, EditsStep, BeginsStep, BuildStep, LookStep, MergeStep DEF U!Next, U!Steps

\* The invariant is about the update alone.
LEMMA UpdatesStill == ASSUME UpdatesInv, UNCHANGED uVars PROVE UpdatesInv'
BY DEF uVars, UpdatesInv, U!TypeOK, U!NothingLost, SetAside

-----------------------------------------------------------------------------
(***************************************************************************)
(* Configuration files. What is rewritten keeps its kind and its name, so a line stands *)
(* in the section it stood in; what is added is a header with its keys right under it,  *)
(* or keys of no section.                                                   *)
(***************************************************************************)
\* Of positions in a text there is a last one.
LEMMA LastPosition == ASSUME NEW n \in Nat, NEW S, S \subseteq 1 .. n, S # {} PROVE \E i \in S : \A j \in S : j <= i
<1> DEFINE T == {n - i : i \in S}
<1>1. T \subseteq Nat /\ T # {}
  <2>1. \A i \in S : n - i \in Nat OBVIOUS
  <2> QED BY <2>1
<1>2. PICK x \in T : \A y \in T : ~(<<y, x>> \in OpToRel(<, Nat)) BY <1>1, NatLessThanWellFounded, WFMin
<1>3. PICK i \in S : x = n - i OBVIOUS
<1>4. ASSUME NEW j \in S PROVE j <= i
  <2>1. n - j \in T /\ n - j \in Nat /\ x \in Nat BY <1>1
  <2>2. ~(n - j < x) BY <1>2, <2>1 DEF OpToRel
  <2> QED BY <1>3, <2>2
<1> QED BY <1>4

\* Where the kinds and the names of the lines agree, the keys do.
LEMMA SameSection ==
  ASSUME NEW a, NEW b, NEW n \in Nat, NEW i \in 1 .. n, NEW k,
         \A j \in 1 .. n : a[j].kind = b[j].kind /\ a[j].name = b[j].name
  PROVE  G!Qualified(a, i, k) <=> G!Qualified(b, i, k)
<1>1. \A j \in 1 .. n : G!IsHeader(a, j) <=> G!IsHeader(b, j) BY DEF G!IsHeader
<1>2. \A j \in 1 .. i : j \in 1 .. n OBVIOUS
<1>3. G!InSection(a, i, k[1]) <=> G!InSection(b, i, k[1])
  <2>1. (\A j \in 1 .. i : ~G!IsHeader(a, j)) <=> (\A j \in 1 .. i : ~G!IsHeader(b, j)) BY <1>1, <1>2
  <2>2. ASSUME NEW h \in 1 .. i
        PROVE  (\A j \in h + 1 .. i : ~G!IsHeader(a, j)) <=> (\A j \in h + 1 .. i : ~G!IsHeader(b, j))
    <3>1. \A j \in h + 1 .. i : j \in 1 .. n OBVIOUS
    <3> QED BY <1>1, <3>1
  <2> QED BY <1>1, <1>2, <2>1, <2>2 DEF G!InSection
<1> QED BY <1>3 DEF G!Qualified

\* A line is a record; a key has a field, and a section or none.
LEMMA LineParts ==
  /\ \A line \in G!Line : line.kind \in {"entry", "section", "other"} /\ (line.kind = "entry" => line.name \in Field)
  /\ \A line \in G!Line, w \in Worth : line.kind = "entry" => /\ [line EXCEPT !.worth = w] \in G!Line
                                                            /\ [line EXCEPT !.worth = w].kind = line.kind
                                                            /\ [line EXCEPT !.worth = w].name = line.name
                                                            /\ [line EXCEPT !.worth = w].worth = w
  /\ \A line \in G!Line : line.kind = "entry" => line.worth \in Worth
  /\ \A k \in G!Keys, w \in Worth : G!Says(k, w) \in G!Line /\ G!Says(k, w).kind = "entry" /\ G!Says(k, w).name = k[2]
BY DEF G!Line, G!Entry, G!Title, G!Other, G!Says, G!Keys

\* What is wanted has a key, and there is something it may say.
LEMMA WantsParts ==
  ASSUME NEW want \in G!Wants
  PROVE  /\ DOMAIN want \subseteq G!Keys /\ \A k \in DOMAIN want : want[k] \in Worth
         /\ \E p, q \in G!Keys : DOMAIN want = {p, q}
         /\ Worth # {}
<1>0. PICK pair \in G!Keys \X G!Keys : want \in [{pair[1], pair[2]} -> Worth] BY DEF G!Wants
<1>1. PICK p \in G!Keys, q \in G!Keys : want \in [{p, q} -> Worth] BY <1>0
<1>2. want[p] \in Worth /\ \A k \in {p, q} : want[k] \in Worth BY <1>1
<1> QED BY <1>1, <1>2

\* What is rewritten keeps kinds and names, and the lines of no key altogether.
LEMMA RewrittenKeeps ==
  ASSUME NEW text \in Seq(G!Line), NEW want \in G!Wants
  PROVE  /\ G!Rewritten(text, want) \in [1 .. Len(text) -> G!Line]
         /\ \A i \in 1 .. Len(text) :
              /\ G!Rewritten(text, want)[i].kind = text[i].kind
              /\ G!Rewritten(text, want)[i].name = text[i].name
              /\ (\A k \in DOMAIN want : ~G!Qualified(text, i, k)) => G!Rewritten(text, want)[i] = text[i]
<1>1. DOMAIN text = 1 .. Len(text) /\ \A i \in 1 .. Len(text) : text[i] \in G!Line OBVIOUS
<1>2. ASSUME NEW i \in 1 .. Len(text)
      PROVE  LET new == IF \E k \in DOMAIN want : G!IsFirst(text, i, k)
                        THEN [text[i] EXCEPT !.worth = want[CHOOSE k \in DOMAIN want : G!IsFirst(text, i, k)]] ELSE text[i]
             IN  new \in G!Line /\ new.kind = text[i].kind /\ new.name = text[i].name
                 /\ ((\A k \in DOMAIN want : ~G!Qualified(text, i, k)) => new = text[i])
  <2>1. CASE \E k \in DOMAIN want : G!IsFirst(text, i, k)
    <3> DEFINE k == CHOOSE k \in DOMAIN want : G!IsFirst(text, i, k)
    <3>1. k \in DOMAIN want /\ G!IsFirst(text, i, k) BY <2>1
    <3> HIDE DEF k
    <3>2. want[k] \in Worth BY <3>1, WantsParts
    <3>3. text[i].kind = "entry" /\ G!Qualified(text, i, k) BY <3>1 DEF G!IsFirst, G!Qualified
    <3>4. [text[i] EXCEPT !.worth = want[k]] \in G!Line
          /\ [text[i] EXCEPT !.worth = want[k]].kind = text[i].kind
          /\ [text[i] EXCEPT !.worth = want[k]].name = text[i].name
      BY <1>1, <3>2, <3>3, LineParts
    <3> QED BY <2>1, <3>1, <3>3, <3>4 DEF k
  <2>2. CASE ~\E k \in DOMAIN want : G!IsFirst(text, i, k) BY <1>1, <2>2
  <2> QED BY <2>1, <2>2
<1> QED BY <1>1, <1>2 DEF G!Rewritten

\* What is added is a line of a key, or a header over one.
LEMMA AdditionsParts ==
  ASSUME NEW text, NEW want \in G!Wants
  PROVE  /\ \A x \in G!Additions(text, want) :
              /\ x.line \in G!Line
              /\ \/ x.line.kind = "section"
                 \/ \E k \in DOMAIN want : x.line = G!Says(k, want[k])
         /\ \A k \in G!Missing(text, want) :
              /\ [of |-> k[1], line |-> G!Says(k, want[k])] \in G!Additions(text, want)
              /\ k[1] # Sectionless => [of |-> k[1], line |-> G!Header(k[1])] \in G!Additions(text, want)
<1>1. G!Missing(text, want) \subseteq DOMAIN want /\ DOMAIN want \subseteq G!Keys BY WantsParts DEF G!Missing
<1>2. ASSUME NEW k \in G!Missing(text, want) PROVE G!Says(k, want[k]) \in G!Line BY <1>1, WantsParts, LineParts
<1>3. ASSUME NEW k \in G!Missing(text, want), k[1] # Sectionless PROVE G!Header(k[1]) \in G!Line /\ G!Header(k[1]).kind = "section"
  <2>1. k[1] \in Section BY <1>1, <1>3 DEF G!Keys
  <2>2. G!Other.worth \in Worth BY WantsParts DEF G!Other
  <2> QED BY <2>1, <2>2 DEF G!Header, G!Line, G!Title
<1>4. \A x \in G!Additions(text, want) :
        \/ \E k \in G!Missing(text, want) : x = [of |-> k[1], line |-> G!Says(k, want[k])]
        \/ \E k \in G!Missing(text, want) : k[1] # Sectionless /\ x = [of |-> k[1], line |-> G!Header(k[1])]
  BY DEF G!Additions
<1>5. ASSUME NEW x \in G!Additions(text, want)
      PROVE  x.line \in G!Line /\ (x.line.kind = "section" \/ \E k \in DOMAIN want : x.line = G!Says(k, want[k]))
  <2>1. CASE \E k \in G!Missing(text, want) : x = [of |-> k[1], line |-> G!Says(k, want[k])]
    BY <1>1, <1>2, <2>1
  <2>2. CASE \E k \in G!Missing(text, want) : k[1] # Sectionless /\ x = [of |-> k[1], line |-> G!Header(k[1])]
    BY <1>3, <2>2
  <2> QED BY <1>4, <2>1, <2>2
<1>6. ASSUME NEW k \in G!Missing(text, want)
      PROVE  /\ [of |-> k[1], line |-> G!Says(k, want[k])] \in G!Additions(text, want)
             /\ k[1] # Sectionless => [of |-> k[1], line |-> G!Header(k[1])] \in G!Additions(text, want)
  BY DEF G!Additions
<1> QED BY <1>5, <1>6

\* Of at most two keys at most four lines come.
LEMMA AdditionsFew ==
  ASSUME NEW text, NEW want \in G!Wants
  PROVE  Cardinality(G!Additions(text, want)) \in 0 .. 4
<1>1. PICK p \in G!Keys, q \in G!Keys : DOMAIN want = {p, q} BY WantsParts
<1> DEFINE a == [of |-> p[1], line |-> G!Says(p, want[p])]
           b == [of |-> q[1], line |-> G!Says(q, want[q])]
           c == [of |-> p[1], line |-> G!Header(p[1])]
           d == [of |-> q[1], line |-> G!Header(q[1])]
           two == {a} \cup {b}
           three == two \cup {c}
           four == three \cup {d}
<1>2. G!Additions(text, want) \subseteq four BY <1>1 DEF G!Additions, G!Missing
<1> HIDE DEF a, b, c, d, three, four
<1>3. IsFiniteSet({a}) /\ Cardinality({a}) = 1 BY FS_Singleton
<1>4. IsFiniteSet(two) /\ Cardinality(two) \in 1 .. 2 BY <1>3, FS_AddElement
<1> HIDE DEF two
<1>5. IsFiniteSet(three) /\ Cardinality(three) \in 1 .. 3 BY <1>4, FS_AddElement DEF three
<1>7. IsFiniteSet(four) /\ Cardinality(four) \in 1 .. 4 BY <1>5, FS_AddElement DEF four
<1>8. IsFiniteSet(G!Additions(text, want)) /\ Cardinality(G!Additions(text, want)) <= Cardinality(four)
  BY <1>2, <1>7, FS_Subset
<1>9. Cardinality(G!Additions(text, want)) \in Nat BY <1>8, FS_CardinalityType
<1> QED BY <1>7, <1>8, <1>9

\* A text that was applied to is the rewritten one with the additions behind it.
LEMMA AppliedParts ==
  ASSUME NEW text \in Seq(G!Line), NEW want \in G!Wants, NEW done \in G!Applied(text, want)
  PROVE  \E m \in 0 .. 4 : \E t \in [1 .. m -> G!Additions(text, want)] :
           /\ \A x \in G!Additions(text, want) : \E i \in 1 .. m : t[i] = x
           /\ G!Grouped(t)
           /\ done \in Seq(G!Line) /\ Len(done) = Len(text) + m
           /\ \A i \in 1 .. Len(text) : done[i] = G!Rewritten(text, want)[i]
           /\ \A j \in 1 .. m : done[Len(text) + j] = t[j].line
<1> DEFINE m == Cardinality(G!Additions(text, want))
           R == G!Rewritten(text, want)
<1>1. PICK t \in G!Endings(text, want) : done = R \o [i \in DOMAIN t |-> t[i].line] BY DEF G!Applied
<1> DEFINE e == [i \in DOMAIN t |-> t[i].line]
<1>2. m \in 0 .. 4 BY AdditionsFew
<1>3. t \in [1 .. m -> G!Additions(text, want)] /\ (\A x \in G!Additions(text, want) : \E i \in DOMAIN t : t[i] = x) /\ G!Grouped(t)
  <2>0. m = G!Cardinality(G!Additions(text, want)) BY DEF G!Cardinality, Cardinality
  <2>1. G!Endings(text, want) = {s \in [1 .. m -> G!Additions(text, want)] :
           (\A x \in G!Additions(text, want) : \E i \in DOMAIN s : s[i] = x) /\ G!Grouped(s)}
    BY <2>0, Zenon DEF G!Endings
  <2> QED BY <1>1, <2>1, Zenon
<1> HIDE DEF m
<1>4. DOMAIN t = 1 .. m BY <1>3
<1>5. \A i \in 1 .. m : t[i].line \in G!Line BY <1>3, AdditionsParts
<1>6. e \in Seq(G!Line) /\ Len(e) = m /\ \A i \in 1 .. m : e[i] = t[i].line BY <1>2, <1>4, <1>5
<1>7. Len(text) \in Nat OBVIOUS
<1>8. R \in [1 .. Len(text) -> G!Line] BY RewrittenKeeps
<1> HIDE DEF R, e
<1>0. done = R \o e BY <1>1 DEF e
<1>9. R \in Seq(G!Line) /\ Len(R) = Len(text) BY <1>7, <1>8
<1>10. /\ R \o e \in Seq(G!Line) /\ Len(R \o e) = Len(R) + Len(e)
       /\ \A i \in 1 .. Len(R) + Len(e) : (R \o e)[i] = IF i <= Len(R) THEN R[i] ELSE e[i - Len(R)]
  BY <1>6, <1>9, ConcatProperties, Zenon
<1>11. ASSUME NEW i \in 1 .. Len(text) PROVE done[i] = R[i] BY <1>0, <1>2, <1>6, <1>7, <1>9, <1>10
<1>12. ASSUME NEW j \in 1 .. m PROVE done[Len(text) + j] = t[j].line
  <2>1. Len(text) + j \in 1 .. Len(R) + Len(e) /\ ~(Len(text) + j <= Len(R)) /\ Len(text) + j - Len(R) = j
    BY <1>2, <1>6, <1>7, <1>9
  <2>2. (R \o e)[Len(text) + j] = e[j] BY <1>10, <2>1
  <2> QED BY <1>0, <1>6, <2>2
<1>13. done \in Seq(G!Line) /\ Len(done) = Len(text) + m BY <1>0, <1>6, <1>9, <1>10
<1> QED BY <1>2, <1>3, <1>4, <1>11, <1>12, <1>13 DEF R

\* Under a header that was added stand the keys it was added for.
LEMMA UnderHeader ==
  ASSUME NEW text \in Seq(G!Line), NEW want \in G!Wants, NEW done \in Seq(G!Line), NEW m \in 0 .. 4,
         NEW t \in [1 .. m -> G!Additions(text, want)], G!Grouped(t),
         \A x \in G!Additions(text, want) : \E i \in 1 .. m : t[i] = x,
         \A j \in 1 .. m : done[Len(text) + j] = t[j].line,
         NEW k \in G!Missing(text, want), k[1] # Sectionless
  PROVE  \E i \in 1 .. Len(text) + m : G!Qualified(done, i, k)
<1> DEFINE n == Len(text)
           x == [of |-> k[1], line |-> G!Says(k, want[k])]
           h == [of |-> k[1], line |-> G!Header(k[1])]
<1>1. n \in Nat /\ DOMAIN t = 1 .. m OBVIOUS
<1>2. x \in G!Additions(text, want) /\ h \in G!Additions(text, want) BY AdditionsParts
<1>3. x.line.kind = "entry" /\ x.line.name = k[2] /\ h.line.kind = "section" /\ h.line.name = k[1] /\ x.of = h.of
  BY DEF G!Says, G!Header
<1> HIDE DEF n, x, h
<1>4. PICK ix \in 1 .. m, ih \in 1 .. m : t[ix] = x /\ t[ih] = h BY <1>2
<1>5. ih < ix
  <2>1. ih # ix BY <1>3, <1>4
  <2>2. ~(ix < ih) BY <1>1, <1>3, <1>4 DEF G!Grouped
  <2> QED BY <2>1, <2>2
<1>6. ASSUME NEW b \in ih + 1 .. ix PROVE t[b].line.kind # "section"
  <2>1. b \in 1 .. m /\ b \in ih .. ix /\ ih < b BY <1>5
  <2>2. t[b].of = t[ih].of BY <1>1, <1>3, <1>4, <1>5, <2>1 DEF G!Grouped
  <2> QED BY <1>1, <2>1, <2>2 DEF G!Grouped
<1>7. done[n + ix] = x.line /\ done[n + ih] = h.line BY <1>4 DEF n
<1>8. G!IsHeader(done, n + ih) /\ done[n + ih].name = k[1] BY <1>3, <1>7 DEF G!IsHeader
<1>9. ASSUME NEW j \in n + ih + 1 .. n + ix PROVE ~G!IsHeader(done, j)
  <2>1. PICK b \in ih + 1 .. ix : j = n + b
    <3>1. j - n \in ih + 1 .. ix /\ j = n + (j - n) BY <1>1
    <3> QED BY <3>1
  <2>2. b \in 1 .. m BY <1>5
  <2> QED BY <1>6, <2>1, <2>2 DEF G!IsHeader, n
<1>10. n + ih \in 1 .. n + ix
  <2>1. n \in Nat /\ ih \in Nat /\ ix \in Nat /\ 1 <= ih /\ ih < ix BY <1>1, <1>5
  <2> QED BY <2>1
<1>11. G!InSection(done, n + ix, k[1]) BY <1>8, <1>9, <1>10 DEF G!InSection
<1>12. G!Qualified(done, n + ix, k) BY <1>3, <1>7, <1>11 DEF G!Qualified
<1>13. n + ix \in 1 .. n + m BY <1>1
<1> QED BY <1>12, <1>13 DEF n

\* Applying keeps the lines that are of no key, adds nothing but keys and headers over
\* them, and leaves every key in its section, whatever the text and whatever is wanted.
LEMMA OnlyVisited == ASSUME NEW text \in Seq(G!Line), NEW want \in G!Wants PROVE G!Visits(text, want)
<1> SUFFICES ASSUME NEW done \in G!Applied(text, want)
             PROVE  /\ \A i \in G!Others(text, want) : i \in DOMAIN done /\ done[i] = text[i]
                    /\ \A i \in DOMAIN done \ DOMAIN text :
                         G!IsHeader(done, i) \/ \E k \in DOMAIN want : done[i] = G!Says(k, want[k])
                    /\ \A k \in DOMAIN want :
                         \/ \E i \in DOMAIN done : G!Qualified(done, i, k)
                         \/ k[1] = Sectionless /\ \E i \in DOMAIN done : G!IsHeader(done, i)
  BY DEF G!Visits
<1> DEFINE n == Len(text)
<1>0. PICK m \in 0 .. 4 : \E t \in [1 .. m -> G!Additions(text, want)] :
        /\ \A x \in G!Additions(text, want) : \E i \in 1 .. m : t[i] = x
        /\ G!Grouped(t)
        /\ done \in Seq(G!Line) /\ Len(done) = n + m
        /\ \A i \in 1 .. n : done[i] = G!Rewritten(text, want)[i]
        /\ \A j \in 1 .. m : done[n + j] = t[j].line
  BY AppliedParts
<1>1. PICK t \in [1 .. m -> G!Additions(text, want)] :
        /\ \A x \in G!Additions(text, want) : \E i \in 1 .. m : t[i] = x
        /\ G!Grouped(t)
        /\ done \in Seq(G!Line) /\ Len(done) = n + m
        /\ \A i \in 1 .. n : done[i] = G!Rewritten(text, want)[i]
        /\ \A j \in 1 .. m : done[n + j] = t[j].line
  BY <1>0
<1>2. n \in Nat /\ DOMAIN text = 1 .. n /\ DOMAIN done = 1 .. n + m BY <1>1
<1>3. \A i \in 1 .. n : i \in 1 .. n + m BY <1>2
<1>4. \A i \in G!Others(text, want) : i \in DOMAIN done /\ done[i] = text[i]
  BY <1>1, <1>2, <1>3, RewrittenKeeps DEF G!Others
<1>5. ASSUME NEW i \in DOMAIN done \ DOMAIN text
      PROVE  G!IsHeader(done, i) \/ \E k \in DOMAIN want : done[i] = G!Says(k, want[k])
  <2>1. i - n \in 1 .. m /\ i = n + (i - n) BY <1>2
  <2>2. done[i] = t[i - n].line /\ t[i - n] \in G!Additions(text, want) BY <1>1, <2>1
  <2> QED BY <2>2, AdditionsParts DEF G!IsHeader
<1>6. ASSUME NEW k \in DOMAIN want
      PROVE  \/ \E i \in DOMAIN done : G!Qualified(done, i, k)
             \/ k[1] = Sectionless /\ \E i \in DOMAIN done : G!IsHeader(done, i)
  <2>1. CASE k \notin G!Missing(text, want)
    <3>1. PICK i \in 1 .. n : G!Qualified(text, i, k) BY <1>2, <2>1 DEF G!Missing
    <3>2. \A j \in 1 .. n : text[j].kind = done[j].kind /\ text[j].name = done[j].name BY <1>1, RewrittenKeeps
    <3>3. G!Qualified(done, i, k) BY <1>2, <3>1, <3>2, SameSection
    <3> QED BY <1>2, <1>3, <3>3
  <2>2. CASE k \in G!Missing(text, want) /\ k[1] # Sectionless
    <3>1. \E i \in 1 .. n + m : G!Qualified(done, i, k) BY <1>1, <2>2, UnderHeader
    <3> QED BY <1>2, <3>1
  <2>3. CASE k \in G!Missing(text, want) /\ k[1] = Sectionless /\ ~\E i \in DOMAIN done : G!IsHeader(done, i)
    <3> DEFINE x == [of |-> k[1], line |-> G!Says(k, want[k])]
    <3>1. x \in G!Additions(text, want) BY <2>3, AdditionsParts
    <3>2. PICK i \in 1 .. m : t[i] = x BY <1>1, <3>1
    <3>3. n + i \in 1 .. n + m /\ \A j \in 1 .. n + i : j \in 1 .. n + m BY <1>2
    <3>4. done[n + i].kind = "entry" /\ done[n + i].name = k[2] BY <1>1, <3>2 DEF G!Says
    <3>5. G!InSection(done, n + i, k[1]) BY <1>2, <2>3, <3>3 DEF G!InSection
    <3> QED BY <1>2, <3>3, <3>4, <3>5 DEF G!Qualified
  <2> QED BY <2>1, <2>2, <2>3
<1> QED BY <1>4, <1>5, <1>6

\* What a game holds or a document says: a key does not go through another's leaf.
Document(leaves) ==
  /\ DOMAIN leaves \subseteq G!Keys /\ \A k \in DOMAIN leaves : leaves[k] \in Worth
  /\ parser = "json" => \A p, q \in DOMAIN leaves : ~G!Crosses(p, q)

\* The lines a game makes something of are keys, and what they say is worth something.
LEMMA ReadTyped ==
  ASSUME NEW text \in Seq(G!Line)
  PROVE  DOMAIN G!Read(text) \subseteq G!Keys /\ \A k \in DOMAIN G!Read(text) : G!Read(text)[k] \in Worth
<1>1. DOMAIN G!Read(text) \subseteq G!Keys BY DEF G!Read
<1>2. ASSUME NEW k \in DOMAIN G!Read(text) PROVE G!Read(text)[k] \in Worth
  <2> DEFINE S == {i \in 1 .. Len(text) : G!Qualified(text, i, k)}
  <2>1. DOMAIN text = 1 .. Len(text) /\ Len(text) \in Nat OBVIOUS
  <2>2. S # {} BY <1>2, <2>1 DEF G!Read
  <2>3. PICK i \in S : \A j \in S : j <= i BY <2>1, <2>2, LastPosition
  <2>4. i \in DOMAIN text /\ G!IsLast(text, i, k) BY <2>1, <2>3 DEF G!IsLast
  <2> DEFINE last == CHOOSE h \in DOMAIN text : G!IsLast(text, h, k)
  <2>5. last \in DOMAIN text /\ G!IsLast(text, last, k) BY <2>4
  <2>6. G!Read(text)[k] = text[last].worth BY <1>2 DEF G!Read
  <2> HIDE DEF last
  <2>7. text[last] \in G!Line /\ text[last].kind = "entry" BY <2>1, <2>5 DEF G!IsLast, G!Qualified
  <2> QED BY <2>6, <2>7, LineParts
<1> QED BY <1>1, <1>2

\* What a game makes of the file is a document.
LEMMA WhatTyped ==
  ASSUME NEW text \in Seq(G!Line), NEW leaves, Document(leaves)
  PROVE  Document(G!What(text, leaves))
BY ReadTyped DEF G!What, Document

\* A document that a wanted one is set into is one, if the wanted one is.
LEMMA SetTyped ==
  ASSUME NEW leaves, NEW want, Document(leaves), Document(want)
  PROVE  Document(G!SetDeep(leaves, want))
<1> DEFINE Stay == {q \in DOMAIN leaves : \A k \in DOMAIN want : ~G!Crosses(q, k)}
<1>1. DOMAIN G!SetDeep(leaves, want) = Stay \cup DOMAIN want BY DEF G!SetDeep
<1>2. \A p \in Stay \cup DOMAIN want : G!SetDeep(leaves, want)[p] = IF p \in DOMAIN want THEN want[p] ELSE leaves[p]
  BY DEF G!SetDeep
<1>3. \A p, q : G!Crosses(p, q) <=> G!Crosses(q, p) BY DEF G!Crosses
<1>4. ASSUME parser = "json", NEW p \in Stay \cup DOMAIN want, NEW q \in Stay \cup DOMAIN want PROVE ~G!Crosses(p, q)
  BY <1>3, <1>4 DEF Document
<1> QED BY <1>1, <1>2, <1>4 DEF Document

ConfigInv == G!TypeOK /\ Document(wanted) /\ Document(tree) /\ Document(holds)

\* What is wanted of a document is one itself.
LEMMA TreesTyped == \A w \in G!Trees : w \in G!Wants /\ Document(w) /\ \A p, q \in DOMAIN w : ~G!Crosses(p, q)
<1>1. \A w \in G!Trees : w \in G!Wants /\ \A p, q \in DOMAIN w : ~G!Crosses(p, q) BY DEF G!Trees
<1> QED BY <1>1, WantsParts DEF Document

\* A text that was applied to is at most four lines longer.
LEMMA AppliedTyped ==
  ASSUME NEW text \in Seq(G!Line), NEW want \in G!Wants, NEW done \in G!Applied(text, want)
  PROVE  done \in Seq(G!Line) /\ Len(done) <= Len(text) + 4
<1>1. PICK m \in 0 .. 4 : done \in Seq(G!Line) /\ Len(done) = Len(text) + m BY AppliedParts
<1>2. Len(text) \in Nat OBVIOUS
<1> QED BY <1>1, <1>2

\* The file is empty or of one line, and the game is down.
LEMMA ConfigStart == ASSUME G!ConfigFilesAssumption, G!Init PROVE ConfigInv
<1>1. wanted \in G!Wants /\ (parser = "json" => wanted \in G!Trees)
  <2>1. G!Unsectioned \subseteq G!Wants /\ G!Trees \subseteq G!Wants BY DEF G!Unsectioned, G!Trees
  <2> QED BY <2>1 DEF G!Init
<1>2. Document(wanted)
  <2>1. CASE parser = "json" BY <1>1, <2>1, TreesTyped
  <2>2. CASE parser # "json" BY <1>1, <2>2, WantsParts DEF Document
  <2> QED BY <2>1, <2>2
<1>3. Document(tree) /\ DOMAIN tree \subseteq G!Keys /\ \A p, q \in DOMAIN tree : ~G!Crosses(p, q)
  <2>1. tree \in G!Trees \cup {G!Nothing} BY DEF G!Init
  <2>2. CASE tree \in G!Trees BY <2>2, TreesTyped DEF Document
  <2>3. CASE tree = G!Nothing BY <2>3 DEF G!Nothing, Document
  <2> QED BY <2>1, <2>2, <2>3
<1>4. lines \in Seq(G!Line) /\ Len(lines) <= 1
  <2>1. PICK n \in 0 .. 1 : lines \in [1 .. n -> G!Line] BY DEF G!Init
  <2> QED BY <2>1
<1>5. MaxLines \in Nat /\ MaxEdits \in Nat BY DEF G!ConfigFilesAssumption
<1>6. Document(holds)
  <2>1. holds = G!What(lines, tree) BY DEF G!Init
  <2> QED BY <1>3, <1>4, <2>1, WhatTyped
<1>7. Len(lines) <= MaxLines + 4
  <2>1. Len(lines) \in Nat BY <1>4
  <2> QED BY <1>4, <1>5, <2>1
<1>8. DOMAIN holds \subseteq G!Keys BY <1>6 DEF Document
<1>9. parser \in G!Parsers /\ boot = "down" /\ edits \in 0 .. MaxEdits BY <1>5 DEF G!Init
<1> QED BY <1>1, <1>2, <1>3, <1>4, <1>6, <1>7, <1>8, <1>9 DEF ConfigInv, G!TypeOK

\* A line is put in, put over another or taken out.
LEMMA LineStep == ASSUME G!ConfigFilesAssumption, ConfigInv, G!EditLine PROVE ConfigInv'
<1>1. UNCHANGED <<parser, wanted, tree, boot, holds>> /\ edits' \in 0 .. MaxEdits
  BY DEF G!EditLine, G!Edits, ConfigInv, G!TypeOK, G!ConfigFilesAssumption
<1>2. lines \in Seq(G!Line) /\ Len(lines) \in Nat /\ Len(lines) <= MaxLines + 4 /\ MaxLines \in Nat /\ DOMAIN lines = 1 .. Len(lines)
  BY DEF ConfigInv, G!TypeOK, G!ConfigFilesAssumption
<1>3. PICK line \in G!Line :
        \/ Len(lines) < MaxLines /\ \E i \in 1 .. Len(lines) + 1 : lines' = G!InsertAt(lines, i, line)
        \/ \E i \in DOMAIN lines : lines' \in {[lines EXCEPT ![i] = line], G!RemoveAt(lines, i)}
  BY DEF G!EditLine
<1>4. ASSUME NEW a \in Int, NEW b \in Int, a >= 1, b <= Len(lines)
      PROVE  SubSeq(lines, a, b) \in Seq(G!Line) /\ Len(SubSeq(lines, a, b)) = IF a <= b THEN b - a + 1 ELSE 0
  <2>1. \A i \in a .. b : i \in 1 .. Len(lines) BY <1>2, <1>4
  <2>2. \A i \in a .. b : lines[i] \in G!Line BY <1>2, <2>1
  <2> QED BY <2>2, SubSeqProperties
<1>5. lines' \in Seq(G!Line) /\ Len(lines') <= MaxLines + 4
  <2>1. ASSUME Len(lines) < MaxLines, NEW i \in 1 .. Len(lines) + 1, lines' = G!InsertAt(lines, i, line)
        PROVE  lines' \in Seq(G!Line) /\ Len(lines') <= MaxLines + 4
    <3> DEFINE p == SubSeq(lines, 1, i - 1)
               q == SubSeq(lines, i, Len(lines))
    <3>1. p \in Seq(G!Line) /\ Len(p) = i - 1 BY <1>2, <1>4
    <3>2. q \in Seq(G!Line) /\ Len(q) = Len(lines) - i + 1 BY <1>2, <1>4
    <3>3. lines' = p \o <<line>> \o q BY <2>1 DEF G!InsertAt
    <3> HIDE DEF p, q
    <3>4. <<line>> \in Seq(G!Line) /\ Len(<<line>>) = 1 OBVIOUS
    <3>5. p \o <<line>> \in Seq(G!Line) /\ Len(p \o <<line>>) = Len(p) + 1 BY <3>1, <3>4, ConcatProperties
    <3> DEFINE pl == p \o <<line>>
    <3>6. pl \in Seq(G!Line) /\ Len(pl) = Len(p) + 1 /\ lines' = pl \o q BY <3>3, <3>5
    <3> HIDE DEF pl
    <3>7. pl \o q \in Seq(G!Line) /\ Len(pl \o q) = Len(pl) + Len(q) BY <3>2, <3>6, ConcatProperties
    <3>8. lines' \in Seq(G!Line) /\ Len(lines') = Len(p) + 1 + Len(q) BY <3>6, <3>7
    <3> QED BY <1>2, <2>1, <3>1, <3>2, <3>8
  <2>2. ASSUME NEW i \in DOMAIN lines, lines' = [lines EXCEPT ![i] = line]
        PROVE  lines' \in Seq(G!Line) /\ Len(lines') <= MaxLines + 4
    BY <1>2, <2>2, ExceptSeq
  <2>3. ASSUME NEW i \in DOMAIN lines, lines' = G!RemoveAt(lines, i)
        PROVE  lines' \in Seq(G!Line) /\ Len(lines') <= MaxLines + 4
    <3> DEFINE p == SubSeq(lines, 1, i - 1)
               q == SubSeq(lines, i + 1, Len(lines))
    <3>1. p \in Seq(G!Line) /\ Len(p) = i - 1 BY <1>2, <1>4
    <3>2. q \in Seq(G!Line) /\ Len(q) = Len(lines) - i BY <1>2, <1>4
    <3>3. lines' = p \o q BY <2>3 DEF G!RemoveAt
    <3> HIDE DEF p, q
    <3>4. lines' \in Seq(G!Line) /\ Len(lines') = Len(p) + Len(q) BY <3>1, <3>2, <3>3, ConcatProperties
    <3> QED BY <1>2, <3>1, <3>2, <3>4
  <2> QED BY <1>3, <2>1, <2>2, <2>3
<1> QED BY <1>1, <1>5 DEF ConfigInv, G!TypeOK, Document

\* A document is edited, or the panel wants something else of the same keys.
LEMMA WantStep == ASSUME G!ConfigFilesAssumption, ConfigInv, G!EditDocument \/ G!PushSpec PROVE ConfigInv'
<1>1. UNCHANGED <<parser, lines, boot, holds>> /\ edits' \in 0 .. MaxEdits
  BY DEF G!EditDocument, G!PushSpec, G!Edits, ConfigInv, G!TypeOK, G!ConfigFilesAssumption
<1>2. wanted' \in G!Wants /\ Document(wanted)'
  <2>1. CASE UNCHANGED wanted BY <1>1, <2>1 DEF ConfigInv, G!TypeOK, Document
  <2>2. CASE G!PushSpec
    <3>1. wanted' \in [DOMAIN wanted -> Worth] BY <2>2 DEF G!PushSpec
    <3>2. PICK pair \in G!Keys \X G!Keys : wanted \in [{pair[1], pair[2]} -> Worth] BY DEF ConfigInv, G!TypeOK, G!Wants
    <3>3. wanted' \in [{pair[1], pair[2]} -> Worth] BY <3>1, <3>2
    <3>4. DOMAIN wanted' = DOMAIN wanted BY <3>1
    <3> QED BY <1>1, <3>3, <3>4 DEF G!Wants, ConfigInv, Document
  <2> QED BY <2>1, <2>2 DEF G!EditDocument
<1>3. /\ Document(tree)' /\ DOMAIN tree' \subseteq G!Keys /\ \A p, q \in DOMAIN tree' : ~G!Crosses(p, q)
  <2>1. CASE UNCHANGED tree BY <1>1, <2>1 DEF ConfigInv, G!TypeOK, Document
  <2>2. CASE tree' \in G!Trees BY <2>2, TreesTyped, WantsParts DEF Document
  <2> QED BY <2>1, <2>2 DEF G!EditDocument, G!PushSpec
<1> QED BY <1>1, <1>2, <1>3 DEF ConfigInv, G!TypeOK, Document

\* Rewritten on the way up, or left as it is, the file is lines and the document one.
LEMMA ApplyTyped ==
  ASSUME G!ConfigFilesAssumption, ConfigInv, G!ApplyConfigFiles, UNCHANGED parser
  PROVE  /\ lines' \in Seq(G!Line) /\ Len(lines') <= MaxLines + 4
         /\ Document(tree') /\ \A p, q \in DOMAIN tree' : ~G!Crosses(p, q)
<1>1. /\ lines \in Seq(G!Line) /\ Len(lines) \in Nat /\ Len(lines) <= MaxLines /\ MaxLines \in Nat
      /\ wanted \in G!Wants /\ Document(wanted) /\ Document(tree) /\ \A p, q \in DOMAIN tree : ~G!Crosses(p, q)
  BY DEF G!ApplyConfigFiles, ConfigInv, G!TypeOK, G!ConfigFilesAssumption
<1>2. CASE UNCHANGED <<lines, tree>> BY <1>1, <1>2
<1>3. CASE parser = "json" /\ tree' = G!SetDeep(tree, wanted) /\ UNCHANGED lines
  <2>1. Document(tree') BY <1>1, <1>3, SetTyped
  <2> QED BY <1>1, <1>3, <2>1 DEF Document
<1>4. CASE lines' \in G!Applied(lines, wanted) /\ UNCHANGED tree
  <2>1. lines' \in Seq(G!Line) /\ Len(lines') <= Len(lines) + 4 BY <1>1, <1>4, AppliedTyped
  <2> QED BY <1>1, <1>4, <2>1
<1> QED BY <1>2, <1>3, <1>4 DEF G!ApplyConfigFiles

\* The game comes up, or is told to restart.
LEMMA UpStep == ASSUME G!ConfigFilesAssumption, ConfigInv, G!Start \/ G!Restart PROVE ConfigInv'
<1>1. UNCHANGED <<parser, wanted, edits>> /\ boot' \in {"down", "up", "ending"} /\ G!ApplyConfigFiles
  BY DEF G!Start, G!Restart
<1>2. /\ lines' \in Seq(G!Line) /\ Len(lines') <= MaxLines + 4
      /\ Document(tree') /\ \A p, q \in DOMAIN tree' : ~G!Crosses(p, q)
  BY <1>1, ApplyTyped
<1>3. Document(holds')
  <2>1. CASE UNCHANGED holds BY <2>1 DEF ConfigInv
  <2>2. CASE holds' = G!What(lines', tree')
    <3> QED BY <1>2, <2>2, WhatTyped
  <2> QED BY <2>1, <2>2 DEF G!Start, G!Restart
<1> QED BY <1>1, <1>2, <1>3 DEF ConfigInv, G!TypeOK, Document

\* What the game writes on its way down.
LEMMA SaveTyped ==
  ASSUME G!ConfigFilesAssumption, ConfigInv, G!Save, UNCHANGED parser
  PROVE  /\ lines' \in Seq(G!Line) /\ Len(lines') <= MaxLines + 4
         /\ Document(tree') /\ \A p, q \in DOMAIN tree' : ~G!Crosses(p, q)
<1>1. /\ lines \in Seq(G!Line) /\ Len(lines) \in Nat /\ Len(lines) <= MaxLines + 4 /\ DOMAIN lines = 1 .. Len(lines)
      /\ Document(holds) /\ Document(tree) /\ \A p, q \in DOMAIN tree : ~G!Crosses(p, q)
  BY DEF ConfigInv, G!TypeOK
<1>2. Document(tree') /\ \A p, q \in DOMAIN tree' : ~G!Crosses(p, q)
  <2>1. tree' = tree \/ (parser = "json" /\ tree' = holds) BY DEF G!Save
  <2> QED BY <1>1, <2>1 DEF Document
<1> DEFINE Kept(i) == IF \E k \in DOMAIN holds : G!Qualified(lines, i, k)
                      THEN [lines[i] EXCEPT !.worth = holds[CHOOSE k \in DOMAIN holds : G!Qualified(lines, i, k)]] ELSE lines[i]
<1>3. ASSUME NEW i \in 1 .. Len(lines) PROVE Kept(i) \in G!Line
  <2>1. lines[i] \in G!Line BY <1>1
  <2>2. CASE \E k \in DOMAIN holds : G!Qualified(lines, i, k)
    <3> DEFINE k == CHOOSE k \in DOMAIN holds : G!Qualified(lines, i, k)
    <3>1. k \in DOMAIN holds /\ G!Qualified(lines, i, k) BY <2>2
    <3> HIDE DEF k
    <3>2. holds[k] \in Worth /\ lines[i].kind = "entry" BY <1>1, <3>1 DEF Document, G!Qualified
    <3>3. [lines[i] EXCEPT !.worth = holds[k]] \in G!Line BY <2>1, <3>2, LineParts
    <3> QED BY <2>2, <3>3 DEF k
  <2> QED BY <2>1, <2>2
<1>4. lines' = lines \/ lines' = [i \in DOMAIN lines |-> Kept(i)] BY DEF G!Save
<1> HIDE DEF Kept
<1>5. CASE lines' = [i \in DOMAIN lines |-> Kept(i)]
  <2>1. lines' \in [1 .. Len(lines) -> G!Line] BY <1>1, <1>3, <1>5
  <2>2. lines' \in Seq(G!Line) /\ Len(lines') = Len(lines) BY <1>1, <2>1
  <2> QED BY <1>1, <1>2, <2>2
<1> QED BY <1>1, <1>2, <1>4, <1>5

\* The game goes down, for good or to come back.
LEMMA EndStep == ASSUME G!ConfigFilesAssumption, ConfigInv, G!Stop \/ G!ComesBack PROVE ConfigInv'
<1>1. UNCHANGED <<parser, wanted, edits>> /\ boot' \in {"down", "up", "ending"} /\ G!Save
  BY DEF G!Stop, G!ComesBack
<1>2. /\ lines' \in Seq(G!Line) /\ Len(lines') <= MaxLines + 4
      /\ Document(tree') /\ \A p, q \in DOMAIN tree' : ~G!Crosses(p, q)
  BY <1>1, SaveTyped
<1>3. Document(holds')
  <2>1. CASE UNCHANGED holds BY <2>1 DEF ConfigInv
  <2>2. CASE holds' = G!What(lines', tree')
    <3> QED BY <1>2, <2>2, WhatTyped
  <2> QED BY <2>1, <2>2 DEF G!Stop, G!ComesBack
<1> QED BY <1>1, <1>2, <1>3 DEF ConfigInv, G!TypeOK, Document

\* A step of the file, of the panel or of the game keeps the invariant.
LEMMA ConfigStep == ASSUME G!ConfigFilesAssumption, ConfigInv, G!Next PROVE ConfigInv'
BY LineStep, WantStep, UpStep, EndStep DEF G!Next

\* The invariant is about the configuration alone.
LEMMA ConfigStill == ASSUME ConfigInv, UNCHANGED gVars PROVE ConfigInv'
BY DEF gVars, ConfigInv, G!TypeOK, Document

\* Whatever the file and the wanted document are, applying is a visit.
LEMMA ConfigVisits == ASSUME ConfigInv PROVE G!OnlyVisiting
<1>1. CASE parser # "json" BY <1>1, OnlyVisited DEF ConfigInv, G!TypeOK, G!OnlyVisiting
<1>2. CASE parser = "json"
  <2>1. ASSUME NEW k \in DOMAIN tree \ DOMAIN wanted, \A q \in DOMAIN wanted : ~G!Crosses(k, q)
        PROVE  k \in DOMAIN G!SetDeep(tree, wanted) /\ G!SetDeep(tree, wanted)[k] = tree[k]
    BY <2>1 DEF G!SetDeep
  <2> QED BY <1>2, <2>1 DEF G!OnlyVisiting
<1> QED BY <1>1, <1>2

-----------------------------------------------------------------------------
(***************************************************************************)
(* Eggs. What is joined of rules without a bar is split into them again, and the       *)
(* import, which knows of patterns, finds an egg's own rules in its text, unless one    *)
(* is not closed.                                                         *)
(***************************************************************************)
\* What is so at the beginning, and one further wherever it is so, is so up to the end.
LEMMA UpTo ==
  ASSUME NEW n \in Nat, NEW S, 0 \in S, \A i \in 0 .. n - 1 : i \in S => i + 1 \in S
  PROVE  \A i \in 0 .. n : i \in S
<1> SUFFICES ASSUME NEW j \in 0 .. n, j \notin S PROVE FALSE
  OBVIOUS
<1> DEFINE T == {i \in 0 .. n : i \notin S}
<1>1. T \subseteq Nat /\ T # {} OBVIOUS
<1>2. PICK x \in T : \A y \in T : ~(<<y, x>> \in OpToRel(<, Nat)) BY <1>1, NatLessThanWellFounded, WFMin
<1>3. x \in 0 .. n /\ x \notin S /\ x # 0 OBVIOUS
<1>4. x - 1 \in 0 .. n - 1 /\ x - 1 \in 0 .. n /\ x - 1 \in Nat /\ x \in Nat /\ x - 1 + 1 = x BY <1>3
<1>5. x - 1 \in S
  <2>1. SUFFICES ASSUME x - 1 \notin S PROVE FALSE
    OBVIOUS
  <2>2. x - 1 \in T BY <1>4, <2>1
  <2>3. <<x - 1, x>> \in OpToRel(<, Nat) BY <1>4 DEF OpToRel
  <2> QED BY <1>2, <2>2, <2>3
<1>6. x - 1 + 1 \in S BY <1>4, <1>5
<1> QED BY <1>3, <1>4, <1>6

\* A way takes a step from everything to the next.
Way(n, a, g, f) == f[0] = a /\ \A i \in 1 .. n : f[i] = g[<<i, f[i - 1]>>]

\* Of what there is to begin with and a step there is a way of any length.
LEMMA Recursion ==
  ASSUME NEW n \in Nat, NEW A, NEW a \in A, NEW g \in [(1 .. n) \X A -> A]
  PROVE  \E f \in [0 .. n -> A] : Way(n, a, g, f)
<1> USE DEF Way
<1> DEFINE S == {m \in 0 .. n : \E f \in [0 .. m -> A] : Way(m, a, g, f)}
<1>1. 0 \in S
  <2> DEFINE one == [i \in 0 .. 0 |-> a]
  <2>1. one \in [0 .. 0 -> A] /\ Way(0, a, g, one) OBVIOUS
  <2> HIDE DEF one
  <2> QED BY <2>1
<1>2. ASSUME NEW m \in 0 .. n - 1, m \in S PROVE m + 1 \in S
  <2>1. PICK f \in [0 .. m -> A] : Way(m, a, g, f) BY <1>2
  <2>2. f[m] \in A /\ m + 1 \in 1 .. n BY <2>1
  <2>3. g[<<m + 1, f[m]>>] \in A BY <2>2
  <2> DEFINE h == [i \in 0 .. m + 1 |-> IF i = m + 1 THEN g[<<m + 1, f[m]>>] ELSE f[i]]
  <2>4. h \in [0 .. m + 1 -> A] BY <2>3
  <2>5. h[0] = a /\ h[m + 1] = g[<<m + 1, f[m]>>] /\ \A i \in 0 .. m : h[i] = f[i] BY <2>1
  <2> HIDE DEF h
  <2>6. ASSUME NEW i \in 1 .. m + 1 PROVE h[i] = g[<<i, h[i - 1]>>]
    <3>1. CASE i = m + 1
      <4>1. i - 1 = m /\ m \in 0 .. m BY <3>1
      <4> QED BY <2>5, <3>1, <4>1
    <3>2. CASE i # m + 1
      <4>1. i \in 1 .. m /\ i \in 0 .. m /\ i - 1 \in 0 .. m BY <3>2
      <4> QED BY <2>1, <2>5, <4>1
    <3> QED BY <3>1, <3>2
  <2>7. Way(m + 1, a, g, h) BY <2>5, <2>6
  <2>8. m + 1 \in 0 .. n BY <2>2
  <2> QED BY <2>4, <2>7, <2>8
<1>3. n \in S
  <2> HIDE DEF S
  <2> QED BY <1>1, <1>2, UpTo
<1> QED BY <1>3

\* Rules are joined one by one, with the bar between.
LEMMA JoinedParts ==
  ASSUME NEW T, "|" \in T, NEW rules \in Seq(Seq(T))
  PROVE  \E f \in [0 .. Len(rules) -> Seq(T)] :
           /\ \A i \in 1 .. Len(rules) : f[i] = IF i = 1 THEN rules[1] ELSE f[i - 1] \o <<"|">> \o rules[i]
           /\ E!Joined(rules) = f[Len(rules)]
<1> DEFINE Size == Len(rules)
           g == [x \in (1 .. Size) \X Seq(T) |-> IF x[1] = 1 THEN rules[1] ELSE x[2] \o <<"|">> \o rules[x[1]]]
           Is(f) == f = [n \in 0 .. Size |-> IF n = 0 THEN <<>> ELSE IF n = 1 THEN rules[1] ELSE f[n - 1] \o <<"|">> \o rules[n]]
<1>1. Size \in Nat /\ (\A i \in 1 .. Size : rules[i] \in Seq(T)) /\ <<"|">> \in Seq(T) OBVIOUS
<1>2. <<>> \in Seq(T) BY EmptySeq
<1>3. g \in [(1 .. Size) \X Seq(T) -> Seq(T)]
  <2> SUFFICES ASSUME NEW i \in 1 .. Size, NEW s \in Seq(T)
               PROVE  (IF i = 1 THEN rules[1] ELSE s \o <<"|">> \o rules[i]) \in Seq(T)
    OBVIOUS
  <2>1. s \o <<"|">> \in Seq(T) BY <1>1, ConcatProperties
  <2>2. s \o <<"|">> \o rules[i] \in Seq(T) BY <1>1, <2>1, ConcatProperties
  <2> QED BY <1>1, <2>2
<1> HIDE DEF g
<1>4. PICK f \in [0 .. Size -> Seq(T)] : Way(Size, <<>>, g, f)
  BY <1>1, <1>2, <1>3, Recursion
<1>5. ASSUME NEW i \in 1 .. Size PROVE f[i] = IF i = 1 THEN rules[1] ELSE f[i - 1] \o <<"|">> \o rules[i]
  <2>1. i - 1 \in 0 .. Size BY <1>1
  <2>2. <<i, f[i - 1]>> \in (1 .. Size) \X Seq(T) BY <1>4, <2>1
  <2>3. g[<<i, f[i - 1]>>] = IF i = 1 THEN rules[1] ELSE f[i - 1] \o <<"|">> \o rules[i] BY <2>2 DEF g
  <2> QED BY <1>4, <2>3 DEF Way
<1>6. Is(f)
  <2>1. ASSUME NEW n \in 0 .. Size
        PROVE  f[n] = IF n = 0 THEN <<>> ELSE IF n = 1 THEN rules[1] ELSE f[n - 1] \o <<"|">> \o rules[n]
    <3>1. n = 0 \/ n \in 1 .. Size BY <1>1
    <3> QED BY <1>4, <1>5, <3>1 DEF Way
  <2> QED BY <1>4, <2>1
<1> DEFINE c == CHOOSE h : Is(h)
<1>7. E!Joined(rules) = c[Size] BY DEF E!Joined
<1>8. Is(c) BY <1>6
<1> HIDE DEF c
<1>9. c[0] = <<>> /\ \A i \in 1 .. Size : c[i] = IF i = 1 THEN rules[1] ELSE c[i - 1] \o <<"|">> \o rules[i]
  <2> DEFINE b == [n \in 0 .. Size |-> IF n = 0 THEN <<>> ELSE IF n = 1 THEN rules[1] ELSE c[n - 1] \o <<"|">> \o rules[n]]
  <2>1. \A n \in 0 .. Size : b[n] = IF n = 0 THEN <<>> ELSE IF n = 1 THEN rules[1] ELSE c[n - 1] \o <<"|">> \o rules[n] OBVIOUS
  <2>2. c = b BY <1>8
  <2> HIDE DEF b
  <2>3. \A i \in 1 .. Size : i \in 0 .. Size /\ i # 0 BY <1>1
  <2>4. 0 \in 0 .. Size BY <1>1
  <2> QED BY <2>1, <2>2, <2>3, <2>4
<1>10. \A i \in 0 .. Size : c[i] = f[i]
  <2> DEFINE S == {i \in 0 .. Size : c[i] = f[i]}
  <2>1. 0 \in S BY <1>1, <1>4, <1>9 DEF Way
  <2>2. ASSUME NEW i \in 0 .. Size - 1, i \in S PROVE i + 1 \in S
    <3>1. i + 1 \in 1 .. Size /\ i + 1 - 1 = i /\ i + 1 \in 0 .. Size BY <1>1
    <3> QED BY <1>5, <1>9, <2>2, <3>1
  <2> HIDE DEF S
  <2>3. \A i \in 0 .. Size : i \in S BY <1>1, <2>1, <2>2, UpTo
  <2> QED BY <2>3 DEF S
<1>11. E!Joined(rules) = f[Size] BY <1>1, <1>7, <1>10
<1> QED BY <1>4, <1>5, <1>11

Token == E!Letter \cup {":", "|", "(", ")", "/", "i", "regex:", "required", "max", "string"}
Scan  == [parts : Seq(Seq(Token)), buffer : Seq(Token), inside : BOOLEAN]

\* Reading a text leads from one state to another.
Leads(knows, s, text, t) ==
  \E f \in [0 .. Len(text) -> Scan] :
    /\ f[0] = s /\ f[Len(text)] = t
    /\ \A n \in 1 .. Len(text) : f[n] = E!Reads(f[n - 1], text[n], knows)

\* The beginning of a text is one token longer with the next one behind it.
LEMMA Longer ==
  ASSUME NEW S, NEW s \in Seq(S)
  PROVE  /\ SubSeq(s, 1, 0) = <<>> /\ SubSeq(s, 1, Len(s)) = s
         /\ \A n \in 1 .. Len(s) : Append(SubSeq(s, 1, n - 1), s[n]) = SubSeq(s, 1, n)
         /\ \A n \in 0 .. Len(s) : SubSeq(s, 1, n) \in Seq(S)
<1>1. Len(s) \in Nat /\ \A i \in 1 .. Len(s) : s[i] \in S OBVIOUS
<1>2. ASSUME NEW n \in 0 .. Len(s)
      PROVE  SubSeq(s, 1, n) \in Seq(S) /\ Len(SubSeq(s, 1, n)) = n /\ \A i \in 1 .. n : SubSeq(s, 1, n)[i] = s[i]
  <2>1. n \in Int /\ 1 \in Int /\ \A i \in 1 .. n : s[i] \in S /\ 1 + i - 1 = i BY <1>1
  <2>2. /\ SubSeq(s, 1, n) \in Seq(S) /\ Len(SubSeq(s, 1, n)) = IF 1 <= n THEN n - 1 + 1 ELSE 0
        /\ \A i \in 1 .. n - 1 + 1 : SubSeq(s, 1, n)[i] = s[1 + i - 1]
    BY <2>1, SubSeqProperties
  <2>3. n - 1 + 1 = n BY <1>1
  <2> QED BY <1>1, <2>1, <2>2, <2>3
<1>3. SubSeq(s, 1, 0) = <<>> BY <1>1, <1>2, EmptySeq
<1>4. SubSeq(s, 1, Len(s)) = s BY <1>1, <1>2, SeqEqual
<1>5. ASSUME NEW n \in 1 .. Len(s) PROVE Append(SubSeq(s, 1, n - 1), s[n]) = SubSeq(s, 1, n)
  <2>1. n - 1 \in 0 .. Len(s) /\ n \in 0 .. Len(s) /\ s[n] \in S BY <1>1
  <2> DEFINE a == SubSeq(s, 1, n - 1)
             b == SubSeq(s, 1, n)
  <2>2. a \in Seq(S) /\ Len(a) = n - 1 /\ \A i \in 1 .. n - 1 : a[i] = s[i] BY <1>2, <2>1
  <2>3. b \in Seq(S) /\ Len(b) = n /\ \A i \in 1 .. n : b[i] = s[i] BY <1>2, <2>1
  <2> HIDE DEF a, b
  <2>4. Append(a, s[n]) \in Seq(S) /\ Len(Append(a, s[n])) = n BY <2>1, <2>2
  <2>5. ASSUME NEW i \in 1 .. n PROVE Append(a, s[n])[i] = b[i]
    <3>1. CASE i = n BY <2>1, <2>2, <2>3, <3>1
    <3>2. CASE i # n
      <4>1. i \in 1 .. n - 1 BY <3>2
      <4> QED BY <2>1, <2>2, <2>3, <4>1
    <3> QED BY <3>1, <3>2
  <2>6. Append(a, s[n]) = b BY <2>3, <2>4, <2>5, SeqEqual
  <2> QED BY <2>6 DEF a, b
<1> QED BY <1>2, <1>3, <1>4, <1>5

\* A token behind two texts is one behind the second.
LEMMA OneBehind ==
  ASSUME NEW a \in Seq(Token), NEW b \in Seq(Token), NEW e \in Token
  PROVE  Append(a \o b, e) = a \o Append(b, e)
<1> DEFINE ab == a \o b
           be == Append(b, e)
           l  == Append(ab, e)
           r  == a \o be
<1>1. /\ ab \in Seq(Token) /\ Len(ab) = Len(a) + Len(b)
      /\ \A i \in 1 .. Len(a) + Len(b) : ab[i] = IF i <= Len(a) THEN a[i] ELSE b[i - Len(a)]
  BY ConcatProperties
<1>2. /\ be \in Seq(Token) /\ Len(be) = Len(b) + 1
      /\ \A i \in 1 .. Len(b) : be[i] = b[i]
      /\ be[Len(b) + 1] = e
  BY AppendProperties
<1> HIDE DEF ab, be
<1>3. /\ l \in Seq(Token) /\ Len(l) = Len(ab) + 1
      /\ \A i \in 1 .. Len(ab) : l[i] = ab[i]
      /\ l[Len(ab) + 1] = e
  <2>1. ab \in Seq(Token) BY <1>1
  <2> QED BY <2>1, AppendProperties
<1>4. /\ r \in Seq(Token) /\ Len(r) = Len(a) + Len(be)
      /\ \A i \in 1 .. Len(a) + Len(be) : r[i] = IF i <= Len(a) THEN a[i] ELSE be[i - Len(a)]
  BY <1>2, ConcatProperties
<1> HIDE DEF l, r
<1>5. Len(a) \in Nat /\ Len(b) \in Nat OBVIOUS
<1>6. Len(l) = Len(r) BY <1>1, <1>2, <1>3, <1>4, <1>5
<1>7. ASSUME NEW i \in 1 .. Len(l) PROVE l[i] = r[i]
  <2>1. i \in 1 .. Len(a) + Len(be) BY <1>1, <1>2, <1>3, <1>5
  <2>2. CASE i <= Len(a)
    <3>1. i \in 1 .. Len(ab) /\ i \in 1 .. Len(a) + Len(b) BY <1>1, <1>5, <2>2
    <3> QED BY <1>1, <1>3, <1>4, <2>1, <2>2, <3>1
  <2>3. CASE ~(i <= Len(a)) /\ i # Len(ab) + 1
    <3>1. i \in 1 .. Len(ab) /\ i \in 1 .. Len(a) + Len(b) /\ i - Len(a) \in 1 .. Len(b) BY <1>1, <1>3, <1>5, <2>3
    <3> QED BY <1>1, <1>2, <1>3, <1>4, <2>1, <2>3, <3>1
  <2>4. CASE i = Len(ab) + 1
    <3>1. ~(i <= Len(a)) /\ i - Len(a) = Len(b) + 1 BY <1>1, <1>5, <2>4
    <3> QED BY <1>2, <1>3, <1>4, <2>1, <2>4, <3>1
  <2> QED BY <2>2, <2>3, <2>4
<1>8. l = r BY <1>3, <1>4, <1>6, <1>7, SeqEqual
<1> QED BY <1>8 DEF l, r, ab, be

\* A token leads to a state.
LEMMA ScanTyped ==
  ASSUME NEW s \in Scan, NEW c \in Token, NEW knows \in BOOLEAN
  PROVE  E!Reads(s, c, knows) \in Scan
<1>1. s.parts \in Seq(Seq(Token)) /\ s.buffer \in Seq(Token) /\ s.inside \in BOOLEAN BY DEF Scan
<1>2. E!Closed(s) \in Seq(Seq(Token)) BY <1>1 DEF E!Closed
<1>3. Append(s.buffer, c) \in Seq(Token) BY <1>1
<1>4. <<>> \in Seq(Token) BY EmptySeq
<1>5. (IF s.inside THEN c # "/" ELSE knows /\ s.buffer = <<"regex:">> /\ c = "/") \in BOOLEAN OBVIOUS
<1> DEFINE w == IF s.inside THEN c # "/" ELSE knows /\ s.buffer = <<"regex:">> /\ c = "/"
<1>6. CASE c = "|" /\ ~s.inside BY <1>2, <1>4, <1>6 DEF E!Reads, Scan
<1>7. CASE ~(c = "|" /\ ~s.inside)
  <2>1. E!Reads(s, c, knows) = [parts |-> s.parts, buffer |-> Append(s.buffer, c), inside |-> w] BY <1>7 DEF E!Reads
  <2>2. w \in BOOLEAN BY <1>5
  <2> HIDE DEF w
  <2> QED BY <1>1, <1>3, <2>1, <2>2 DEF Scan
<1> QED BY <1>6, <1>7

\* The text of one token.
LEMMA LeadsOne ==
  ASSUME NEW s \in Scan, NEW c \in Token, NEW knows \in BOOLEAN
  PROVE  Leads(knows, s, <<c>>, E!Reads(s, c, knows))
<1> DEFINE t == E!Reads(s, c, knows)
           f == [n \in 0 .. 1 |-> IF n = 0 THEN s ELSE t]
<1>1. t \in Scan BY ScanTyped
<1>2. f[0] = s /\ f[1] = t /\ f \in [0 .. 1 -> Scan] BY <1>1
<1>3. Len(<<c>>) = 1 /\ <<c>>[1] = c OBVIOUS
<1> HIDE DEF f
<1>4. \A n \in 1 .. 1 : f[n] = E!Reads(f[n - 1], <<c>>[n], knows)
  <2> SUFFICES ASSUME NEW n \in 1 .. 1 PROVE f[n] = E!Reads(f[n - 1], <<c>>[n], knows)
    OBVIOUS
  <2>1. n = 1 /\ n - 1 = 0 OBVIOUS
  <2> QED BY <1>2, <1>3, <2>1
<1> HIDE DEF t
<1> QED BY <1>2, <1>3, <1>4 DEF Leads, t

\* One text after the other.
LEMMA LeadsOn ==
  ASSUME NEW knows, NEW s, NEW t, NEW u, NEW a \in Seq(Token), NEW b \in Seq(Token),
         Leads(knows, s, a, t), Leads(knows, t, b, u)
  PROVE  Leads(knows, s, a \o b, u)
<1> DEFINE m == Len(a)
           k == Len(b)
           ab == a \o b
<1>1. m \in Nat /\ k \in Nat OBVIOUS
<1>2. /\ ab \in Seq(Token) /\ Len(ab) = m + k
      /\ \A i \in 1 .. m + k : ab[i] = IF i <= m THEN a[i] ELSE b[i - m]
  BY ConcatProperties
<1>3. PICK f \in [0 .. m -> Scan] :
        /\ f[0] = s /\ f[m] = t
        /\ \A n \in 1 .. m : f[n] = E!Reads(f[n - 1], a[n], knows)
  BY DEF Leads
<1>4. PICK g \in [0 .. k -> Scan] :
        /\ g[0] = t /\ g[k] = u
        /\ \A n \in 1 .. k : g[n] = E!Reads(g[n - 1], b[n], knows)
  BY DEF Leads
<1> HIDE DEF m, k, ab
<1> DEFINE h == [n \in 0 .. m + k |-> IF n <= m THEN f[n] ELSE g[n - m]]
<1>5. \A n \in 0 .. m + k : h[n] = IF n <= m THEN f[n] ELSE g[n - m] OBVIOUS
<1>6. h \in [0 .. m + k -> Scan]
  <2> SUFFICES ASSUME NEW n \in 0 .. m + k PROVE (IF n <= m THEN f[n] ELSE g[n - m]) \in Scan
    OBVIOUS
  <2>1. CASE n <= m
    <3>1. n \in 0 .. m BY <1>1, <2>1
    <3> QED BY <1>3, <2>1, <3>1
  <2>2. CASE ~(n <= m)
    <3>1. n - m \in 0 .. k BY <1>1, <2>2
    <3> QED BY <1>4, <2>2, <3>1
  <2> QED BY <2>1, <2>2
<1> HIDE DEF h
<1>7. h[0] = s
  <2>1. 0 \in 0 .. m + k /\ 0 <= m BY <1>1
  <2> QED BY <1>3, <1>5, <2>1
<1>8. h[m + k] = u
  <2> DEFINE w == m + k
  <2>1. w \in 0 .. m + k BY <1>1
  <2>2. CASE k = 0
    <3>1. w = m /\ m <= m BY <1>1, <2>2
    <3> QED BY <1>3, <1>4, <1>5, <2>1, <2>2, <3>1
  <2>3. CASE k # 0
    <3>1. ~(w <= m) /\ w - m = k BY <1>1, <2>3
    <3> HIDE DEF w
    <3>2. h[w] = g[w - m] BY <1>5, <2>1, <3>1
    <3>3. h[w] = u BY <1>4, <3>1, <3>2
    <3> QED BY <3>3 DEF w
  <2> QED BY <2>2, <2>3
<1>9. ASSUME NEW n \in 1 .. m + k PROVE h[n] = E!Reads(h[n - 1], ab[n], knows)
  <2>1. n \in 0 .. m + k /\ n - 1 \in 0 .. m + k BY <1>1
  <2>2. CASE n <= m
    <3>1. n \in 1 .. m /\ n - 1 <= m BY <1>1, <2>2
    <3> QED BY <1>2, <1>3, <1>5, <2>1, <2>2, <3>1
  <2>3. CASE n = m + 1
    <3>1. ~(n <= m) /\ n - m = 1 /\ n - 1 = m /\ m <= m /\ 1 \in 1 .. k /\ 1 - 1 = 0 BY <1>1, <2>3
    <3>2. h[n] = g[1] /\ h[n - 1] = g[0] /\ ab[n] = b[1] BY <1>2, <1>3, <1>4, <1>5, <2>1, <3>1
    <3>3. g[1] = E!Reads(g[1 - 1], b[1], knows) BY <1>4, <3>1
    <3> QED BY <3>1, <3>2, <3>3
  <2>4. CASE n > m + 1
    <3>1. ~(n <= m) /\ ~(n - 1 <= m) /\ n - m \in 1 .. k /\ n - 1 - m = n - m - 1 BY <1>1, <2>4
    <3>2. h[n] = g[n - m] /\ h[n - 1] = g[n - m - 1] /\ ab[n] = b[n - m] BY <1>2, <1>5, <2>1, <3>1
    <3> QED BY <1>4, <3>1, <3>2
  <2>5. n <= m \/ n = m + 1 \/ n > m + 1 BY <1>1
  <2> QED BY <2>2, <2>3, <2>4, <2>5
<1>10. Len(ab) = m + k BY <1>2
<1>11. Leads(knows, s, ab, u) BY <1>6, <1>7, <1>8, <1>9, <1>10 DEF Leads
<1> QED BY <1>11 DEF ab

\* A text without a bar, or inside the delimiters one without a delimiter, is kept.
LEMMA LeadsPlain ==
  ASSUME NEW s \in Scan, NEW knows \in BOOLEAN, NEW r \in Seq(Token),
         \/ s.inside /\ \A i \in 1 .. Len(r) : r[i] # "/"
         \/ ~s.inside /\ ~knows /\ \A i \in 1 .. Len(r) : r[i] # "|"
  PROVE  Leads(knows, s, r, [parts |-> s.parts, buffer |-> s.buffer \o r, inside |-> s.inside])
<1> DEFINE Size == Len(r)
           At(n) == [parts |-> s.parts, buffer |-> s.buffer \o SubSeq(r, 1, n), inside |-> s.inside]
           f == [n \in 0 .. Size |-> At(n)]
<1>0. s.parts \in Seq(Seq(Token)) /\ s.buffer \in Seq(Token) /\ s.inside \in BOOLEAN
      /\ s = [parts |-> s.parts, buffer |-> s.buffer, inside |-> s.inside]
  BY DEF Scan
<1>1. Size \in Nat /\ \A n \in 1 .. Size : r[n] \in Token OBVIOUS
<1>2. ASSUME NEW n \in 0 .. Size PROVE At(n) \in Scan
  <2>1. SubSeq(r, 1, n) \in Seq(Token) BY Longer
  <2>2. s.buffer \o SubSeq(r, 1, n) \in Seq(Token) BY <1>0, <2>1, ConcatProperties
  <2> QED BY <1>0, <2>2 DEF Scan
<1>3. At(0) = s
  <2>1. s.buffer \o SubSeq(r, 1, 0) = s.buffer BY <1>0, Longer, ConcatEmptySeq
  <2> QED BY <1>0, <2>1
<1>4. ASSUME NEW n \in 1 .. Size PROVE At(n) = E!Reads(At(n - 1), r[n], knows)
  <2> DEFINE p == SubSeq(r, 1, n - 1)
  <2>1. n - 1 \in 0 .. Size /\ r[n] \in Token BY <1>1
  <2>2. p \in Seq(Token) /\ Append(p, r[n]) = SubSeq(r, 1, n) BY <2>1, Longer
  <2> DEFINE x == At(n - 1)
  <2>3. x.parts = s.parts /\ x.buffer = s.buffer \o p /\ x.inside = s.inside OBVIOUS
  <2> HIDE DEF p
  <2>4. Append(s.buffer \o p, r[n]) = s.buffer \o Append(p, r[n])
    <3> DEFINE b == s.buffer
               c == r[n]
    <3>1. b \in Seq(Token) /\ p \in Seq(Token) /\ c \in Token BY <1>0, <2>1, <2>2
    <3> HIDE DEF b, c
    <3>2. Append(b \o p, c) = b \o Append(p, c) BY <3>1, OneBehind
    <3> QED BY <3>2 DEF b, c
  <2> HIDE DEF x
  <2>5. E!Reads(x, r[n], knows) = [parts |-> x.parts, buffer |-> Append(x.buffer, r[n]), inside |-> s.inside]
    <3>1. CASE s.inside BY <2>3, <3>1 DEF E!Reads
    <3>2. CASE ~s.inside BY <1>0, <2>3, <3>2 DEF E!Reads
    <3> QED BY <3>1, <3>2
  <2>6. Append(x.buffer, r[n]) = s.buffer \o SubSeq(r, 1, n) BY <2>2, <2>3, <2>4
  <2> QED BY <2>3, <2>5, <2>6 DEF x
<1>5. At(Size) = [parts |-> s.parts, buffer |-> s.buffer \o r, inside |-> s.inside] BY Longer
<1> HIDE DEF At
<1>6. f \in [0 .. Size -> Scan] /\ \A n \in 0 .. Size : f[n] = At(n) BY <1>2
<1> HIDE DEF f
<1>7. f[0] = s /\ f[Size] = At(Size) BY <1>1, <1>3, <1>6
<1>8. \A n \in 1 .. Size : f[n] = E!Reads(f[n - 1], r[n], knows)
  <2> SUFFICES ASSUME NEW n \in 1 .. Size PROVE f[n] = E!Reads(f[n - 1], r[n], knows)
    OBVIOUS
  <2>1. n \in 0 .. Size /\ n - 1 \in 0 .. Size BY <1>1
  <2> QED BY <1>4, <1>6, <2>1
<1> QED BY <1>5, <1>6, <1>7, <1>8 DEF Leads

\* Where the reading of a text leads is what the text is split into.
LEMMA LeadsOnly ==
  ASSUME NEW text \in Seq(Token), NEW knows \in BOOLEAN, NEW t, Leads(knows, E!Start, text, t)
  PROVE  E!Parts(text, knows) = E!Closed(t)
<1> DEFINE Size == Len(text)
           Is(f) == f = [n \in 0 .. Size |-> IF n = 0 THEN E!Start ELSE E!Reads(f[n - 1], text[n], knows)]
<1>1. Size \in Nat OBVIOUS
<1>2. PICK f \in [0 .. Size -> Scan] :
        /\ f[0] = E!Start /\ f[Size] = t
        /\ \A n \in 1 .. Size : f[n] = E!Reads(f[n - 1], text[n], knows)
  BY DEF Leads
<1>3. Is(f)
  <2>1. ASSUME NEW n \in 0 .. Size
        PROVE  f[n] = IF n = 0 THEN E!Start ELSE E!Reads(f[n - 1], text[n], knows)
    <3>1. n = 0 \/ n \in 1 .. Size BY <1>1
    <3> QED BY <1>2, <3>1
  <2> QED BY <1>2, <2>1
<1> DEFINE c == CHOOSE h : Is(h)
<1>4. E!Parts(text, knows) = E!Closed(c[Size]) BY DEF E!Parts
<1>5. Is(c) BY <1>3
<1> HIDE DEF c
<1>6. c[0] = E!Start /\ \A i \in 1 .. Size : c[i] = E!Reads(c[i - 1], text[i], knows)
  <2> DEFINE b == [n \in 0 .. Size |-> IF n = 0 THEN E!Start ELSE E!Reads(c[n - 1], text[n], knows)]
  <2>1. \A n \in 0 .. Size : b[n] = IF n = 0 THEN E!Start ELSE E!Reads(c[n - 1], text[n], knows) OBVIOUS
  <2>2. c = b BY <1>5
  <2> HIDE DEF b
  <2>3. \A i \in 1 .. Size : i \in 0 .. Size /\ i # 0 BY <1>1
  <2>4. 0 \in 0 .. Size BY <1>1
  <2> QED BY <2>1, <2>2, <2>3, <2>4
<1>7. \A i \in 0 .. Size : c[i] = f[i]
  <2> DEFINE S == {i \in 0 .. Size : c[i] = f[i]}
  <2>1. 0 \in S BY <1>1, <1>2, <1>6
  <2>2. ASSUME NEW i \in 0 .. Size - 1, i \in S PROVE i + 1 \in S
    <3>1. i + 1 \in 1 .. Size /\ i + 1 - 1 = i /\ i + 1 \in 0 .. Size BY <1>1
    <3> QED BY <1>2, <1>6, <2>2, <3>1
  <2> HIDE DEF S
  <2>3. \A i \in 0 .. Size : i \in S BY <1>1, <2>1, <2>2, UpTo
  <2> QED BY <2>3 DEF S
<1>8. c[Size] = t BY <1>1, <1>2, <1>7
<1> QED BY <1>4, <1>8


\* Between two rules, and behind the next one.
Between(parts)   == [parts |-> parts, buffer |-> <<>>, inside |-> FALSE]
Behind(parts, r) == [parts |-> parts, buffer |-> r, inside |-> FALSE]

\* A rule is read as one rule.
Whole(knows, r) == \A parts \in Seq(Seq(Token)) : Leads(knows, Between(parts), r, Behind(parts, r))

\* A bar between two rules ends the first.
LEMMA BarEnds ==
  ASSUME NEW knows \in BOOLEAN, NEW parts \in Seq(Seq(Token)), NEW r \in Seq(Token), r # <<>>
  PROVE  Leads(knows, Behind(parts, r), <<"|">>, Between(Append(parts, r)))
<1>1. Behind(parts, r) \in Scan BY DEF Behind, Scan
<1>2. "|" \in Token BY DEF Token
<1>3. E!Reads(Behind(parts, r), "|", knows) = Between(Append(parts, r)) BY DEF E!Reads, E!Closed, Behind, Between
<1> QED BY <1>1, <1>2, <1>3, LeadsOne

\* Rules that are read as one each are found again in the text they are joined to.
LEMMA SplitWhole ==
  ASSUME NEW knows \in BOOLEAN, NEW rules \in Seq(Seq(Token)), Len(rules) > 0,
         \A i \in 1 .. Len(rules) : rules[i] # <<>> /\ Whole(knows, rules[i])
  PROVE  E!Joined(rules) \in Seq(Token) /\ E!Parts(E!Joined(rules), knows) = rules
<1> DEFINE Size == Len(rules)
           Upto(i) == SubSeq(rules, 1, i)
<1>1. Size \in Nat /\ Size > 0 /\ \A i \in 1 .. Size : rules[i] \in Seq(Token) OBVIOUS
<1>2. "|" \in Token BY DEF Token
<1>3. PICK f \in [0 .. Size -> Seq(Token)] :
        /\ \A i \in 1 .. Size : f[i] = IF i = 1 THEN rules[1] ELSE f[i - 1] \o <<"|">> \o rules[i]
        /\ E!Joined(rules) = f[Size]
  BY <1>2, JoinedParts
<1>4. /\ Upto(0) = <<>> /\ Upto(Size) = rules
      /\ \A n \in 1 .. Size : Append(Upto(n - 1), rules[n]) = Upto(n)
      /\ \A n \in 0 .. Size : Upto(n) \in Seq(Seq(Token))
  BY Longer
<1> HIDE DEF Upto
<1> DEFINE S == {i \in 0 .. Size - 1 : Leads(knows, E!Start, f[i + 1], Behind(Upto(i), rules[i + 1]))}
<1>5. 0 \in S
  <2>1. 1 \in 1 .. Size /\ 0 + 1 = 1 /\ 0 \in 0 .. Size - 1 BY <1>1
  <2>2. f[1] = rules[1] BY <1>3, <2>1
  <2>3. E!Start = Between(<<>>) BY DEF E!Start, Between
  <2>4. <<>> \in Seq(Seq(Token)) BY EmptySeq
  <2>5. Leads(knows, Between(<<>>), rules[1], Behind(<<>>, rules[1])) BY <2>1, <2>4 DEF Whole
  <2> QED BY <1>4, <2>1, <2>2, <2>3, <2>5
<1>6. ASSUME NEW i \in 0 .. Size - 1 - 1, i \in S PROVE i + 1 \in S
  <2> DEFINE r == rules[i + 1]
             q == rules[i + 1 + 1]
             a == f[i + 1]
  <2>1. /\ i + 1 \in 1 .. Size /\ i + 1 + 1 \in 1 .. Size /\ i + 1 + 1 - 1 = i + 1 /\ i + 1 + 1 # 1 /\ i + 1 \in 0 .. Size
        /\ i \in 0 .. Size /\ i + 1 - 1 = i /\ i + 1 \in 0 .. Size - 1
    BY <1>1
  <2>2. r \in Seq(Token) /\ q \in Seq(Token) /\ a \in Seq(Token) /\ r # <<>> BY <1>1, <1>3, <2>1
  <2>3. f[i + 1 + 1] = a \o <<"|">> \o q
    <3> DEFINE j == i + 1 + 1
    <3>1. j \in 1 .. Size /\ j # 1 /\ f[j - 1] = a /\ rules[j] = q BY <2>1
    <3> HIDE DEF j, a, q
    <3>2. f[j] = a \o <<"|">> \o q BY <1>3, <3>1
    <3> QED BY <3>2 DEF j
  <2>4. Append(Upto(i), r) = Upto(i + 1) /\ Upto(i) \in Seq(Seq(Token)) /\ Upto(i + 1) \in Seq(Seq(Token)) BY <1>4, <2>1
  <2>5. Leads(knows, E!Start, a, Behind(Upto(i), r)) BY <1>6
  <2>6. Whole(knows, q) BY <2>1
  <2> HIDE DEF r, q, a
  <2>7. Leads(knows, Behind(Upto(i), r), <<"|">>, Between(Upto(i + 1))) BY <2>2, <2>4, BarEnds
  <2>8. <<"|">> \in Seq(Token) BY <1>2
  <2>9. Leads(knows, E!Start, a \o <<"|">>, Between(Upto(i + 1))) BY <2>2, <2>5, <2>7, <2>8, LeadsOn
  <2>10. Leads(knows, Between(Upto(i + 1)), q, Behind(Upto(i + 1), q)) BY <2>4, <2>6 DEF Whole
  <2>11. a \o <<"|">> \in Seq(Token) BY <2>2, <2>8, ConcatProperties
  <2>12. Leads(knows, E!Start, a \o <<"|">> \o q, Behind(Upto(i + 1), q)) BY <2>2, <2>9, <2>10, <2>11, LeadsOn
  <2> QED BY <2>1, <2>3, <2>12 DEF q
<1>7. Size - 1 \in 0 .. Size - 1 /\ Size - 1 \in Nat /\ Size - 1 + 1 = Size /\ Size \in 1 .. Size /\ Size \in 0 .. Size BY <1>1
<1>8. Size - 1 \in S
  <2> HIDE DEF S
  <2> QED BY <1>5, <1>6, <1>7, UpTo
<1>9. Leads(knows, E!Start, f[Size], Behind(Upto(Size - 1), rules[Size])) BY <1>7, <1>8
<1>10. E!Joined(rules) \in Seq(Token) BY <1>3, <1>7
<1>11. E!Parts(E!Joined(rules), knows) = E!Closed(Behind(Upto(Size - 1), rules[Size])) BY <1>3, <1>9, <1>10, LeadsOnly
<1>12. E!Closed(Behind(Upto(Size - 1), rules[Size])) = Append(Upto(Size - 1), rules[Size]) BY <1>7 DEF E!Closed, Behind
<1> QED BY <1>4, <1>7, <1>10, <1>11, <1>12

\* To whoever does not know of patterns every rule without a bar is one rule.
LEMMA WholeWithoutBar ==
  ASSUME NEW r \in Seq(Token), \A i \in 1 .. Len(r) : r[i] # "|"
  PROVE  Whole(FALSE, r)
<1> SUFFICES ASSUME NEW parts \in Seq(Seq(Token)) PROVE Leads(FALSE, Between(parts), r, Behind(parts, r))
  BY DEF Whole
<1> DEFINE s == Between(parts)
<1>1. s \in Scan /\ s.parts = parts /\ s.buffer = <<>> /\ s.inside = FALSE
  <2>1. <<>> \in Seq(Token) BY EmptySeq
  <2> QED BY <2>1 DEF Between, Scan
<1>2. <<>> \o r = r BY ConcatEmptySeq
<1> HIDE DEF s
<1>3. Leads(FALSE, s, r, [parts |-> s.parts, buffer |-> s.buffer \o r, inside |-> s.inside]) BY <1>1, LeadsPlain
<1> QED BY <1>1, <1>2, <1>3 DEF s, Behind


\* A pattern that is opened, and what a text is when it is closed, with a flag or without.
Opened(p)  == <<"regex:", "/">> \o p
Plainly(p) == <<"regex:", "/">> \o p \o <<"/">>
Flagged(p) == <<"regex:", "/">> \o p \o <<"/", "i">>

\* One thing and another.
LEMMA TwoOf ==
  ASSUME NEW S, NEW c \in S, NEW d \in S
  PROVE  <<c, d>> \in Seq(S) /\ Append(<<c>>, d) = <<c, d>> /\ <<c>> \o <<d>> = <<c, d>>
<1> DEFINE one == <<c>>
           two == Append(one, d)
           cd  == <<c, d>>
<1>1. one \in Seq(S) /\ Len(one) = 1 /\ one[1] = c OBVIOUS
<1>2. cd \in Seq(S) /\ Len(cd) = 2 /\ cd[1] = c /\ cd[2] = d OBVIOUS
<1> HIDE DEF one, cd
<1>3. two \in Seq(S) /\ Len(two) = 2 /\ two[1] = c /\ two[2] = d
  <2>1. one \in Seq(S) BY <1>1
  <2>2. /\ two \in Seq(S) /\ Len(two) = Len(one) + 1
        /\ \A i \in 1 .. Len(one) : two[i] = one[i]
        /\ two[Len(one) + 1] = d
    BY <2>1, AppendProperties
  <2> QED BY <1>1, <2>2
<1>4. two = one \o <<d>> BY <1>1, AppendIsConcat
<1> HIDE DEF two
<1>5. two = cd
  <2>1. \A i \in 1 .. Len(two) : i = 1 \/ i = 2 BY <1>3
  <2>2. Len(two) = Len(cd) /\ \A i \in 1 .. Len(two) : two[i] = cd[i] BY <1>2, <1>3, <2>1
  <2> QED BY <1>2, <1>3, <2>2, SeqEqual
<1> QED BY <1>2, <1>4, <1>5 DEF one, two, cd

\* One token and another.
LEMMA TwoTokens ==
  ASSUME NEW c \in Token, NEW d \in Token
  PROVE  <<c, d>> \in Seq(Token) /\ Append(<<c>>, d) = <<c, d>> /\ <<c>> \o <<d>> = <<c, d>>
BY TwoOf

\* Behind the delimiter a text is inside.
LEMMA Opens ==
  ASSUME NEW parts \in Seq(Seq(Token)), NEW p \in Seq(Token), \A i \in 1 .. Len(p) : p[i] # "/"
  PROVE  /\ Opened(p) \in Seq(Token)
         /\ Leads(TRUE, Between(parts), Opened(p), [parts |-> parts, buffer |-> Opened(p), inside |-> TRUE])
<1> DEFINE name == [parts |-> parts, buffer |-> <<"regex:">>, inside |-> FALSE]
           open == [parts |-> parts, buffer |-> <<"regex:", "/">>, inside |-> TRUE]
<1>1. "regex:" \in Token /\ "/" \in Token BY DEF Token
<1>2. <<"regex:">> \in Seq(Token) /\ <<"/">> \in Seq(Token) /\ <<"regex:", "/">> \in Seq(Token) /\ <<>> \in Seq(Token)
  BY <1>1, EmptySeq
<1>3. Between(parts) \in Scan /\ name \in Scan /\ open \in Scan BY <1>2 DEF Between, Scan
<1>4. E!Reads(Between(parts), "regex:", TRUE) = name
  <2>1. Append(<<>>, "regex:") = <<"regex:">> /\ <<>> # <<"regex:">> OBVIOUS
  <2> QED BY <2>1 DEF E!Reads, Between
<1>5. E!Reads(name, "/", TRUE) = open
  <2>1. Append(<<"regex:">>, "/") = <<"regex:", "/">> BY <1>1, TwoTokens
  <2> QED BY <2>1 DEF E!Reads
<1>6. <<"regex:">> \o <<"/">> = <<"regex:", "/">> BY <1>1, TwoTokens
<1>7. open.parts = parts /\ open.buffer = <<"regex:", "/">> /\ open.inside = TRUE OBVIOUS
<1> HIDE DEF name, open
<1>8. Leads(TRUE, Between(parts), <<"regex:">>, name) BY <1>1, <1>3, <1>4, LeadsOne
<1>9. Leads(TRUE, name, <<"/">>, open) BY <1>1, <1>3, <1>5, LeadsOne
<1>10. Leads(TRUE, Between(parts), <<"regex:", "/">>, open) BY <1>2, <1>6, <1>8, <1>9, LeadsOn
<1>11. Leads(TRUE, open, p, [parts |-> open.parts, buffer |-> open.buffer \o p, inside |-> open.inside])
  BY <1>3, <1>7, LeadsPlain
<1>12. Leads(TRUE, open, p, [parts |-> parts, buffer |-> Opened(p), inside |-> TRUE]) BY <1>7, <1>11 DEF Opened
<1>13. Leads(TRUE, Between(parts), Opened(p), [parts |-> parts, buffer |-> Opened(p), inside |-> TRUE])
  BY <1>2, <1>10, <1>12, LeadsOn DEF Opened
<1>14. Opened(p) \in Seq(Token) BY <1>2, ConcatProperties DEF Opened
<1> QED BY <1>13, <1>14

\* A closed pattern is one rule to whoever knows of patterns, and so is a name alone.
LEMMA WholeQuoted ==
  ASSUME NEW p \in Seq(Token), \A i \in 1 .. Len(p) : p[i] # "/"
  PROVE  /\ Plainly(p) \in Seq(Token) /\ Plainly(p) # <<>> /\ Whole(TRUE, Plainly(p))
         /\ Flagged(p) \in Seq(Token) /\ Flagged(p) # <<>> /\ Whole(TRUE, Flagged(p))
<1> DEFINE o == Opened(p)
           c == Append(o, "/")
           d == Append(c, "i")
<1>1. "i" \in Token /\ "/" \in Token BY DEF Token
<1>2. o \in Seq(Token)
  <2>1. <<>> \in Seq(Seq(Token)) BY EmptySeq
  <2> QED BY <2>1, Opens
<1> HIDE DEF o
<1>3. c \in Seq(Token) /\ c = o \o <<"/">> /\ c # <<>> BY <1>1, <1>2, AppendIsConcat, AppendProperties
<1> HIDE DEF c
<1>4. d \in Seq(Token) /\ d = c \o <<"i">> /\ d # <<>> BY <1>1, <1>3, AppendIsConcat, AppendProperties
<1>5. d = o \o <<"/", "i">>
  <2>1. <<"/">> \in Seq(Token) BY <1>1
  <2>2. Append(<<"/">>, "i") = <<"/", "i">> BY <1>1, TwoTokens
  <2>3. Append(o \o <<"/">>, "i") = o \o Append(<<"/">>, "i") BY <1>1, <1>2, <2>1, OneBehind
  <2> QED BY <1>3, <2>2, <2>3
<1> HIDE DEF d
<1>6. c = Plainly(p) /\ d = Flagged(p) BY <1>3, <1>5 DEF o, Opened, Plainly, Flagged
<1>7. ASSUME NEW parts \in Seq(Seq(Token))
      PROVE  Leads(TRUE, Between(parts), c, Behind(parts, c)) /\ Leads(TRUE, Between(parts), d, Behind(parts, d))
  <2> DEFINE in == [parts |-> parts, buffer |-> o, inside |-> TRUE]
  <2>1. Leads(TRUE, Between(parts), o, in) BY Opens DEF o
  <2>2. in \in Scan /\ Behind(parts, c) \in Scan BY <1>2, <1>3 DEF Behind, Scan
  <2>3. E!Reads(in, "/", TRUE) = Behind(parts, c) BY DEF E!Reads, Behind, c
  <2>4. E!Reads(Behind(parts, c), "i", TRUE) = Behind(parts, d) BY DEF E!Reads, Behind, d
  <2> HIDE DEF in
  <2>5. Leads(TRUE, in, <<"/">>, Behind(parts, c)) BY <1>1, <2>2, <2>3, LeadsOne
  <2>6. Leads(TRUE, Behind(parts, c), <<"i">>, Behind(parts, d)) BY <1>1, <2>2, <2>4, LeadsOne
  <2>7. <<"/">> \in Seq(Token) /\ <<"i">> \in Seq(Token) BY <1>1
  <2>8. Leads(TRUE, Between(parts), c, Behind(parts, c)) BY <1>2, <1>3, <2>1, <2>5, <2>7, LeadsOn
  <2>9. Leads(TRUE, Between(parts), d, Behind(parts, d)) BY <1>3, <1>4, <2>6, <2>7, <2>8, LeadsOn
  <2> QED BY <2>8, <2>9
<1>8. Whole(TRUE, c) /\ Whole(TRUE, d) BY <1>7 DEF Whole
<1> QED BY <1>3, <1>4, <1>6, <1>8

\* A name alone.
LEMMA WholeName ==
  ASSUME NEW c \in {"required", "max"}
  PROVE  <<c>> \in Seq(Token) /\ <<c>> # <<>> /\ Whole(TRUE, <<c>>)
<1>1. c \in Token /\ c # "|" /\ c # "/" BY DEF Token
<1>2. ASSUME NEW parts \in Seq(Seq(Token)) PROVE Leads(TRUE, Between(parts), <<c>>, Behind(parts, <<c>>))
  <2>1. <<>> \in Seq(Token) /\ Append(<<>>, c) = <<c>> BY EmptySeq
  <2>2. Between(parts) \in Scan BY <2>1 DEF Between, Scan
  <2>3. E!Reads(Between(parts), c, TRUE) = Behind(parts, <<c>>) BY <1>1, <2>1 DEF E!Reads, Between, Behind
  <2> QED BY <1>1, <2>2, <2>3, LeadsOne
<1>3. <<c>> \in Seq(Token) /\ <<c>> # <<>> BY <1>1
<1>4. Whole(TRUE, <<c>>) BY <1>2 DEF Whole
<1> QED BY <1>3, <1>4

\* What is kept of rules are those that are not dropped, with their delimiters taken off.
LEMMA KeptParts ==
  ASSUME NEW rules \in Seq(Seq(Token)),
         \A i \in 1 .. Len(rules) : ~E!Dropped(rules[i]) => E!Bare(rules[i]) \in Seq(Token)
  PROVE  /\ E!Kept(rules) \in Seq(Seq(Token))
         /\ \A k \in 1 .. Len(E!Kept(rules)) :
              \E i \in 1 .. Len(rules) : ~E!Dropped(rules[i]) /\ E!Kept(rules)[k] = E!Bare(rules[i])
         /\ \A i \in 1 .. Len(rules) : ~E!Dropped(rules[i]) =>
              \E k \in 1 .. Len(E!Kept(rules)) : E!Kept(rules)[k] = E!Bare(rules[i])
<1> DEFINE Size == Len(rules)
           A == Seq(Seq(Token))
           Step(s, i) == IF E!Dropped(rules[i]) THEN s ELSE Append(s, E!Bare(rules[i]))
           Is(f) == f = [n \in 0 .. Size |-> IF n = 0 THEN <<>>
                                          ELSE IF E!Dropped(rules[n]) THEN f[n - 1] ELSE Append(f[n - 1], E!Bare(rules[n]))]
           g == [x \in (1 .. Size) \X A |-> Step(x[2], x[1])]
<1>1. Size \in Nat OBVIOUS
<1>2. ASSUME NEW i \in 1 .. Size, NEW s \in A PROVE Step(s, i) \in A
  BY AppendProperties
<1>3. g \in [(1 .. Size) \X A -> A] BY <1>2
<1>4. <<>> \in A BY EmptySeq
<1>5. \A i \in 1 .. Size, s \in A : g[<<i, s>>] = Step(s, i) OBVIOUS
<1> HIDE DEF g, A
<1>6. PICK f \in [0 .. Size -> A] : Way(Size, <<>>, g, f) BY <1>1, <1>3, <1>4, Recursion
<1>7. f[0] = <<>> /\ \A i \in 1 .. Size : f[i] = Step(f[i - 1], i)
  <2>1. ASSUME NEW i \in 1 .. Size PROVE f[i] = Step(f[i - 1], i)
    <3>1. i - 1 \in 0 .. Size BY <1>1
    <3>2. f[i - 1] \in A BY <1>6, <3>1
    <3>3. g[<<i, f[i - 1]>>] = Step(f[i - 1], i) BY <1>5, <3>2
    <3> QED BY <1>6, <3>3 DEF Way
  <2> QED BY <1>6, <2>1 DEF Way
<1>8. Is(f)
  <2>1. ASSUME NEW n \in 0 .. Size
        PROVE  f[n] = IF n = 0 THEN <<>>
                      ELSE IF E!Dropped(rules[n]) THEN f[n - 1] ELSE Append(f[n - 1], E!Bare(rules[n]))
    <3>1. n = 0 \/ n \in 1 .. Size BY <1>1
    <3> QED BY <1>7, <3>1
  <2> QED BY <1>6, <2>1
<1> DEFINE c == CHOOSE h : Is(h)
<1>9. E!Kept(rules) = c[Size] BY DEF E!Kept
<1>10. Is(c) BY <1>8
<1> HIDE DEF c
<1>11. c[0] = <<>> /\ \A i \in 1 .. Size : c[i] = Step(c[i - 1], i)
  <2> DEFINE b == [n \in 0 .. Size |-> IF n = 0 THEN <<>>
                                    ELSE IF E!Dropped(rules[n]) THEN c[n - 1] ELSE Append(c[n - 1], E!Bare(rules[n]))]
  <2>1. \A n \in 0 .. Size : b[n] = IF n = 0 THEN <<>>
                                 ELSE IF E!Dropped(rules[n]) THEN c[n - 1] ELSE Append(c[n - 1], E!Bare(rules[n])) OBVIOUS
  <2>2. c = b BY <1>10
  <2> HIDE DEF b
  <2>3. \A i \in 1 .. Size : i \in 0 .. Size /\ i # 0 BY <1>1
  <2>4. 0 \in 0 .. Size BY <1>1
  <2> QED BY <2>1, <2>2, <2>3, <2>4
<1>12. ASSUME NEW i \in 0 .. Size PROVE c[i] = f[i]
  <2> DEFINE S == {j \in 0 .. Size : c[j] = f[j]}
  <2>1. 0 \in S BY <1>1, <1>7, <1>11
  <2>2. ASSUME NEW j \in 0 .. Size - 1, j \in S PROVE j + 1 \in S
    <3>1. j + 1 \in 1 .. Size /\ j + 1 - 1 = j /\ j + 1 \in 0 .. Size BY <1>1
    <3>2. c[j + 1] = Step(c[j], j + 1) /\ f[j + 1] = Step(f[j], j + 1) BY <1>7, <1>11, <3>1
    <3>3. c[j] = f[j] BY <2>2
    <3> QED BY <3>1, <3>2, <3>3
  <2> HIDE DEF S
  <2>3. \A j \in 0 .. Size : j \in S BY <1>1, <2>1, <2>2, UpTo
  <2> QED BY <2>3 DEF S
<1>13. E!Kept(rules) = f[Size] /\ f[Size] \in A BY <1>1, <1>6, <1>9, <1>12
<1> DEFINE From(s, m) == \A k \in 1 .. Len(s) : \E i \in 1 .. m : ~E!Dropped(rules[i]) /\ s[k] = E!Bare(rules[i])
           Into(s, m) == \A i \in 1 .. m : ~E!Dropped(rules[i]) => \E k \in 1 .. Len(s) : s[k] = E!Bare(rules[i])
           S == {m \in 0 .. Size : From(f[m], m) /\ Into(f[m], m)}
<1>14. 0 \in S BY <1>1, <1>7
<1>15. ASSUME NEW j \in 0 .. Size - 1, j \in S PROVE j + 1 \in S
  <2> DEFINE m == j + 1
             s == f[j]
             t == f[m]
  <2>1. m \in 1 .. Size /\ m - 1 = j /\ m \in 0 .. Size /\ j \in 0 .. Size /\ j \in Nat BY <1>1
  <2>2. s \in Seq(Seq(Token)) BY <1>6, <2>1 DEF A
  <2>3. From(s, j) /\ Into(s, j) BY <1>15
  <2>4. t = Step(s, m) BY <1>7, <2>1
  <2>5. \A i \in 1 .. m : i \in 1 .. j \/ i = m BY <2>1
  <2>6. \A i \in 1 .. j : i \in 1 .. m BY <2>1
  <2>7. m \in 1 .. m BY <2>1
  <2> HIDE DEF m, s, t
  <2>8. CASE E!Dropped(rules[m])
    <3>1. t = s BY <2>4, <2>8
    <3> QED BY <2>1, <2>3, <2>5, <2>6, <2>8, <3>1 DEF m, s, t
  <2>9. CASE ~E!Dropped(rules[m])
    <3> DEFINE r == E!Bare(rules[m])
    <3>1. r \in Seq(Token) BY <2>1, <2>9
    <3> HIDE DEF r
    <3>2. t = Append(s, r) BY <2>4, <2>9 DEF r
    <3>3. /\ Len(t) = Len(s) + 1 /\ t[Len(s) + 1] = r
          /\ \A k \in 1 .. Len(s) : t[k] = s[k]
      BY <2>2, <3>1, <3>2, AppendProperties
    <3>4. Len(s) \in Nat BY <2>2
    <3>5. From(t, m)
      <4> SUFFICES ASSUME NEW k \in 1 .. Len(t) PROVE \E i \in 1 .. m : ~E!Dropped(rules[i]) /\ t[k] = E!Bare(rules[i])
        OBVIOUS
      <4>1. k = Len(s) + 1 \/ k \in 1 .. Len(s) BY <3>3, <3>4
      <4>2. CASE k = Len(s) + 1
        <5>1. t[k] = E!Bare(rules[m]) BY <3>3, <4>2 DEF r
        <5> QED BY <2>7, <2>9, <5>1
      <4>3. CASE k \in 1 .. Len(s)
        <5>1. PICK i \in 1 .. j : ~E!Dropped(rules[i]) /\ s[k] = E!Bare(rules[i]) BY <2>3, <4>3
        <5> QED BY <2>6, <3>3, <4>3, <5>1
      <4> QED BY <4>1, <4>2, <4>3
    <3>6. Into(t, m)
      <4> SUFFICES ASSUME NEW i \in 1 .. m, ~E!Dropped(rules[i]) PROVE \E k \in 1 .. Len(t) : t[k] = E!Bare(rules[i])
        OBVIOUS
      <4>1. CASE i = m
        <5>1. Len(s) + 1 \in 1 .. Len(t) BY <3>3, <3>4
        <5> QED BY <3>3, <4>1, <5>1 DEF r
      <4>2. CASE i \in 1 .. j
        <5>1. PICK k \in 1 .. Len(s) : s[k] = E!Bare(rules[i]) BY <2>3, <4>2
        <5>2. k \in 1 .. Len(t) BY <3>3, <3>4
        <5> QED BY <3>3, <5>1, <5>2
      <4> QED BY <2>5, <4>1, <4>2
    <3> QED BY <2>1, <3>5, <3>6 DEF m, t
  <2> QED BY <2>8, <2>9
<1>16. Size \in S
  <2> HIDE DEF S
  <2>1. Size \in 0 .. Size BY <1>1
  <2> QED BY <1>1, <1>14, <1>15, <2>1, UpTo
<1>17. f[Size] \in Seq(Seq(Token)) BY <1>13 DEF A
<1> QED BY <1>13, <1>16, <1>17


\* A pattern is a text that is not empty, with no delimiter in it, and it has an opening
\* bracket only where it has a closing one.
LEMMA PatternParts ==
  ASSUME E!EggAssumption, NEW p \in E!Pattern
  PROVE  /\ p \in Seq(Token) /\ Len(p) > 0 /\ DOMAIN p = 1 .. Len(p)
         /\ \A i \in 1 .. Len(p) : p[i] # "/"
         /\ ~E!Broken(p)
<1> DEFINE Signs == E!Letter \cup {":", "|", "(", ")"}
<1>1. PICK n \in 1 .. MaxPattern : p \in [1 .. n -> Signs] BY DEF E!Pattern
<1>2. n \in Nat /\ n > 0 BY DEF E!EggAssumption
<1>3. Signs \subseteq Token /\ "/" \notin Signs BY DEF Token, E!Letter
<1> HIDE DEF Signs
<1>4. p \in Seq(Signs) /\ Len(p) = n /\ DOMAIN p = 1 .. n BY <1>1, <1>2
<1>5. p \in Seq(Token) BY <1>3, <1>4, SeqMonotonic
<1>6. \A i \in 1 .. n : p[i] # "/" BY <1>1, <1>3
<1>7. ~E!Broken(p)
  <2>1. /\ \A i \in 1 .. Len(p) : p[i] = "(" => i + 2 \in 1 .. Len(p) /\ p[i + 2] = ")"
        /\ \A i \in 1 .. Len(p) : p[i] = ")" => i - 2 \in 1 .. Len(p) /\ p[i - 2] = "("
    BY DEF E!Pattern
  <2>2. "(" \in E!ToSet(p) <=> \E i \in 1 .. Len(p) : p[i] = "(" BY <1>4 DEF E!ToSet
  <2>3. ")" \in E!ToSet(p) <=> \E i \in 1 .. Len(p) : p[i] = ")" BY <1>4 DEF E!ToSet
  <2>4. "(" \in E!ToSet(p) => ")" \in E!ToSet(p) BY <2>1, <2>2, <2>3
  <2>5. ")" \in E!ToSet(p) => "(" \in E!ToSet(p) BY <2>1, <2>2, <2>3
  <2> QED BY <2>4, <2>5 DEF E!Broken
<1> QED BY <1>2, <1>4, <1>5, <1>6, <1>7

\* A pattern that is opened and not closed is dropped.
LEMMA Unclosed ==
  ASSUME NEW r \in Seq(Token), Len(r) > 1, r[1] = "regex:", r[2] = "/", \A i \in 3 .. Len(r) : r[i] # "/"
  PROVE  E!IsPattern(r) /\ E!Argument(r) = Unset /\ E!Dropped(r)
<1> DEFINE raw == Tail(r)
<1>1. r # <<>> BY EmptySeq
<1>2. raw \in Seq(Token) /\ Len(raw) = Len(r) - 1 /\ \A i \in 1 .. Len(raw) : raw[i] = r[i + 1]
  BY <1>1, HeadTailProperties
<1>3. Len(r) \in Nat OBVIOUS
<1> HIDE DEF raw
<1>4. raw[1] = "/"
  <2>1. 1 \in 1 .. Len(raw) /\ 1 + 1 = 2 BY <1>2, <1>3
  <2> QED BY <1>2, <2>1
<1>5. {i \in 2 .. Len(raw) : raw[i] = "/"} = {}
  <2> SUFFICES ASSUME NEW i \in 2 .. Len(raw) PROVE raw[i] # "/"
    OBVIOUS
  <2>1. i \in 1 .. Len(raw) /\ i + 1 \in 3 .. Len(r) BY <1>2, <1>3
  <2> QED BY <1>2, <2>1
<1>6. E!UnwrapPhpRegex(raw) = Unset BY <1>4, <1>5 DEF E!UnwrapPhpRegex
<1>7. E!IsPattern(r) BY DEF E!IsPattern
<1>8. E!Argument(r) = Unset BY <1>6 DEF E!Argument, raw
<1> QED BY <1>7, <1>8 DEF E!Dropped

\* The argument of a pattern that is closed is what stands between the delimiters.
LEMMA ClosedArgument ==
  ASSUME NEW r \in Seq(Token), NEW p \in Seq(Token), Len(r) > Len(p) + 2, r[1] = "regex:", r[2] = "/",
         \A i \in 1 .. Len(p) : p[i] # "/" /\ r[i + 2] = p[i],
         r[Len(p) + 3] = "/", \A i \in Len(p) + 4 .. Len(r) : r[i] # "/"
  PROVE  E!IsPattern(r) /\ E!Argument(r) = p
<1> DEFINE raw == Tail(r)
           m   == Len(p)
<1>1. m \in Nat /\ Len(r) \in Nat /\ Len(r) > m + 2 OBVIOUS
<1>2. r # <<>> BY <1>1, EmptySeq
<1>3. raw \in Seq(Token) /\ Len(raw) = Len(r) - 1 /\ \A i \in 1 .. Len(raw) : raw[i] = r[i + 1]
  BY <1>2, HeadTailProperties
<1>4. /\ \A i \in 1 .. m : p[i] # "/" /\ r[i + 2] = p[i]
      /\ r[m + 3] = "/" /\ \A i \in m + 4 .. Len(r) : r[i] # "/"
  OBVIOUS
<1> HIDE DEF raw, m
<1>5. raw[1] = "/"
  <2>1. 1 \in 1 .. Len(raw) /\ 1 + 1 = 2 BY <1>1, <1>3
  <2> QED BY <1>3, <2>1
<1>6. \A i \in 1 .. m : raw[i + 1] = p[i] /\ p[i] # "/"
  <2> SUFFICES ASSUME NEW i \in 1 .. m PROVE raw[i + 1] = p[i] /\ p[i] # "/"
    OBVIOUS
  <2>1. i + 1 \in 1 .. Len(raw) /\ i + 1 + 1 = i + 2 BY <1>1, <1>3
  <2>2. raw[i + 1] = r[i + 1 + 1] BY <1>3, <2>1
  <2>3. r[i + 2] = p[i] /\ p[i] # "/" BY <1>4
  <2> QED BY <2>1, <2>2, <2>3
<1>7. m + 2 \in 2 .. Len(raw) /\ raw[m + 2] = "/"
  <2>1. m + 2 \in 2 .. Len(raw) /\ m + 2 \in 1 .. Len(raw) /\ m + 2 + 1 = m + 3 BY <1>1, <1>3
  <2>2. raw[m + 2] = r[m + 2 + 1] BY <1>3, <2>1
  <2> QED BY <1>4, <2>1, <2>2
<1>8. ASSUME NEW i \in 2 .. Len(raw), raw[i] = "/" PROVE i = m + 2
  <2>1. i \in 1 .. Len(raw) /\ i \in Int BY <1>1, <1>3
  <2>2. ~(i < m + 2)
    <3> SUFFICES ASSUME i < m + 2 PROVE FALSE
      OBVIOUS
    <3> DEFINE j == i - 1
    <3>1. j \in 1 .. m /\ j + 1 = i BY <1>1, <1>3
    <3> HIDE DEF j
    <3>2. raw[j + 1] # "/" BY <1>6, <3>1
    <3> QED BY <1>8, <3>1, <3>2
  <2>3. ~(i > m + 2)
    <3> SUFFICES ASSUME i > m + 2 PROVE FALSE
      OBVIOUS
    <3> DEFINE j == i + 1
    <3>1. j \in m + 4 .. Len(r) BY <1>1, <1>3, <2>1
    <3>2. raw[i] = r[j] BY <1>3, <2>1
    <3> HIDE DEF j
    <3>3. r[j] # "/" BY <1>4, <3>1
    <3> QED BY <1>8, <3>2, <3>3
  <2> QED BY <1>1, <2>1, <2>2, <2>3
<1> DEFINE ends == {i \in 2 .. Len(raw) : raw[i] = "/"}
           last == CHOOSE i \in ends : \A j \in ends : j <= i
<1>9. ends = {m + 2} BY <1>7, <1>8
<1>10. last = m + 2
  <2>1. m + 2 \in Int /\ m + 2 <= m + 2 BY <1>1
  <2> HIDE DEF ends
  <2> QED BY <1>9, <2>1
<1>11. E!UnwrapPhpRegex(raw) = SubSeq(raw, 2, last - 1)
  <2>1. ends # {} BY <1>9
  <2>2. E!UnwrapPhpRegex(raw) =
          IF raw[1] # "/" THEN raw
          ELSE IF ends = {} THEN Unset ELSE SubSeq(raw, 2, last - 1)
    BY DEF E!UnwrapPhpRegex
  <2> HIDE DEF last, ends
  <2>3. E!UnwrapPhpRegex(raw) = SubSeq(raw, 2, last - 1) BY <1>5, <2>1, <2>2, Zenon
  <2> QED BY <2>3
<1>12. SubSeq(raw, 2, last - 1) = p
  <2> DEFINE k == last - 1
             s == SubSeq(raw, 2, k)
  <2> HIDE DEF last
  <2>1. k = m + 1 /\ k \in Int /\ 2 \in Int BY <1>1, <1>10
  <2> HIDE DEF k
  <2>2. \A i \in 2 .. k : raw[i] \in Token
    <3>1. \A i \in 2 .. k : i \in 1 .. Len(raw) BY <1>1, <1>3, <2>1
    <3> QED BY <1>3, <3>1
  <2>3. /\ s \in Seq(Token) /\ Len(s) = IF 2 <= k THEN k - 2 + 1 ELSE 0
        /\ \A i \in 1 .. k - 2 + 1 : s[i] = raw[2 + i - 1]
    BY <2>1, <2>2, SubSeqProperties
  <2> HIDE DEF s
  <2>4. Len(s) = m /\ m = Len(p) BY <1>1, <2>1, <2>3 DEF m
  <2>5. ASSUME NEW i \in 1 .. m PROVE s[i] = p[i]
    <3>1. i \in 1 .. k - 2 + 1 /\ 2 + i - 1 = i + 1 BY <1>1, <2>1
    <3>2. s[i] = raw[2 + i - 1] BY <2>3, <3>1
    <3> QED BY <1>6, <3>1, <3>2
  <2>6. s = p BY <2>3, <2>4, <2>5, SeqEqual
  <2> QED BY <2>6 DEF s, k
<1>13. E!Argument(r) = p BY <1>11, <1>12 DEF E!Argument, raw
<1> QED BY <1>13 DEF E!IsPattern


\* The tokens of a pattern that is opened.
LEMMA OpenedParts ==
  ASSUME NEW p \in Seq(Token)
  PROVE  /\ Opened(p) \in Seq(Token) /\ Len(Opened(p)) = Len(p) + 2
         /\ Opened(p)[1] = "regex:" /\ Opened(p)[2] = "/"
         /\ \A i \in 1 .. Len(p) : Opened(p)[i + 2] = p[i]
<1> DEFINE h == <<"regex:", "/">>
           o == h \o p
<1>1. h \in Seq(Token) /\ Len(h) = 2 /\ h[1] = "regex:" /\ h[2] = "/"
  <2>1. "regex:" \in Token /\ "/" \in Token BY DEF Token
  <2> QED BY <2>1
<1>2. Len(p) \in Nat OBVIOUS
<1> HIDE DEF h
<1>3. /\ o \in Seq(Token) /\ Len(o) = Len(h) + Len(p)
      /\ \A i \in 1 .. Len(h) + Len(p) : o[i] = IF i <= Len(h) THEN h[i] ELSE p[i - Len(h)]
  BY <1>1, ConcatProperties
<1>4. o = Opened(p) BY DEF h, Opened
<1> HIDE DEF o
<1>5. o[1] = "regex:" /\ o[2] = "/"
  <2>1. 1 \in 1 .. Len(h) + Len(p) /\ 2 \in 1 .. Len(h) + Len(p) /\ 1 <= Len(h) /\ 2 <= Len(h) BY <1>1, <1>2
  <2> QED BY <1>1, <1>3, <2>1
<1>6. ASSUME NEW i \in 1 .. Len(p) PROVE o[i + 2] = p[i]
  <2> DEFINE j == i + 2
  <2>1. j \in 1 .. Len(h) + Len(p) /\ ~(j <= Len(h)) /\ j - Len(h) = i BY <1>1, <1>2
  <2> HIDE DEF j
  <2>2. o[j] = p[i] BY <1>3, <2>1
  <2> QED BY <2>2 DEF j
<1> QED BY <1>1, <1>2, <1>3, <1>4, <1>5, <1>6

\* The arguments of a pattern, closed with a flag or without, and not closed.
LEMMA QuotedParts ==
  ASSUME NEW p \in Seq(Token), \A i \in 1 .. Len(p) : p[i] # "/"
  PROVE  /\ E!IsPattern(Plainly(p)) /\ E!Argument(Plainly(p)) = p
         /\ E!IsPattern(Flagged(p)) /\ E!Argument(Flagged(p)) = p
         /\ E!IsPattern(Opened(p)) /\ E!Argument(Opened(p)) = Unset /\ E!Dropped(Opened(p))
<1> DEFINE o == Opened(p)
           c == Append(o, "/")
           d == Append(c, "i")
           m == Len(p)
<1>1. "i" \in Token /\ "/" \in Token BY DEF Token
<1>2. m \in Nat OBVIOUS
<1>3. /\ o \in Seq(Token) /\ Len(o) = m + 2 /\ o[1] = "regex:" /\ o[2] = "/"
      /\ \A i \in 1 .. m : o[i + 2] = p[i]
  BY OpenedParts
<1> HIDE DEF o
<1>4. /\ c \in Seq(Token) /\ Len(c) = Len(o) + 1 /\ c[Len(o) + 1] = "/"
      /\ \A i \in 1 .. Len(o) : c[i] = o[i]
  BY <1>1, <1>3, AppendProperties
<1>5. c = Plainly(p)
  <2>1. c = o \o <<"/">> BY <1>1, <1>3, AppendIsConcat
  <2> QED BY <2>1 DEF o, Opened, Plainly
<1>6. d = Flagged(p)
  <2>1. <<"/">> \in Seq(Token) BY <1>1
  <2>2. Append(<<"/">>, "i") = <<"/", "i">> BY <1>1, TwoTokens
  <2>3. Append(o \o <<"/">>, "i") = o \o Append(<<"/">>, "i") BY <1>1, <1>3, <2>1, OneBehind
  <2>4. c = o \o <<"/">> BY <1>1, <1>3, AppendIsConcat
  <2> QED BY <2>2, <2>3, <2>4 DEF o, Opened, Flagged
<1> HIDE DEF c
<1>7. /\ d \in Seq(Token) /\ Len(d) = Len(c) + 1 /\ d[Len(c) + 1] = "i"
      /\ \A i \in 1 .. Len(c) : d[i] = c[i]
  BY <1>1, <1>4, AppendProperties
<1> HIDE DEF d
<1>8. Len(c) = m + 3 /\ Len(d) = m + 4 BY <1>2, <1>3, <1>4, <1>7
<1>9. \A i \in 1 .. m : p[i] # "/" OBVIOUS
<1>10. /\ c[1] = "regex:" /\ c[2] = "/" /\ c[m + 3] = "/"
       /\ \A i \in 1 .. m : c[i + 2] = p[i]
  <2>1. 1 \in 1 .. Len(o) /\ 2 \in 1 .. Len(o) /\ Len(o) + 1 = m + 3 BY <1>2, <1>3
  <2>2. c[1] = o[1] /\ c[2] = o[2] BY <1>4, <2>1
  <2>3. ASSUME NEW i \in 1 .. m PROVE c[i + 2] = p[i]
    <3>1. i + 2 \in 1 .. Len(o) BY <1>2, <1>3
    <3>2. c[i + 2] = o[i + 2] BY <1>4, <3>1
    <3> QED BY <1>3, <3>2
  <2> QED BY <1>3, <1>4, <2>1, <2>2, <2>3
<1>11. /\ d[1] = "regex:" /\ d[2] = "/" /\ d[m + 3] = "/" /\ d[m + 4] = "i"
       /\ \A i \in 1 .. m : d[i + 2] = p[i]
  <2>1. 1 \in 1 .. Len(c) /\ 2 \in 1 .. Len(c) /\ m + 3 \in 1 .. Len(c) /\ Len(c) + 1 = m + 4 BY <1>2, <1>8
  <2>2. d[1] = c[1] /\ d[2] = c[2] /\ d[m + 3] = c[m + 3] BY <1>7, <2>1
  <2>3. ASSUME NEW i \in 1 .. m PROVE d[i + 2] = p[i]
    <3>1. i + 2 \in 1 .. Len(c) BY <1>2, <1>8
    <3>2. d[i + 2] = c[i + 2] BY <1>7, <3>1
    <3> QED BY <1>10, <3>2
  <2> QED BY <1>7, <1>10, <2>1, <2>2, <2>3
<1>12. E!IsPattern(c) /\ E!Argument(c) = p
  <2>1. Len(c) > Len(p) + 2 /\ c[Len(p) + 3] = "/" /\ \A i \in Len(p) + 4 .. Len(c) : c[i] # "/"
    <3>1. m + 4 .. Len(c) = {} /\ Len(c) > m + 2 BY <1>2, <1>8
    <3> QED BY <1>10, <3>1
  <2>2. \A i \in 1 .. Len(p) : p[i] # "/" /\ c[i + 2] = p[i] BY <1>9, <1>10
  <2> QED BY <1>4, <1>10, <2>1, <2>2, ClosedArgument
<1>13. E!IsPattern(d) /\ E!Argument(d) = p
  <2>1. Len(d) > Len(p) + 2 /\ d[Len(p) + 3] = "/" /\ \A i \in Len(p) + 4 .. Len(d) : d[i] # "/"
    <3>1. \A i \in m + 4 .. Len(d) : i = m + 4 BY <1>2, <1>8
    <3>2. Len(d) > m + 2 BY <1>2, <1>8
    <3>3. "i" # "/" OBVIOUS
    <3>4. \A i \in m + 4 .. Len(d) : d[i] # "/" BY <1>11, <3>1, <3>3
    <3> QED BY <1>11, <3>2, <3>4
  <2>2. \A i \in 1 .. Len(p) : p[i] # "/" /\ d[i + 2] = p[i] BY <1>9, <1>11
  <2> QED BY <1>7, <1>11, <2>1, <2>2, ClosedArgument
<1>14. E!IsPattern(o) /\ E!Argument(o) = Unset /\ E!Dropped(o)
  <2>1. Len(o) > 1 BY <1>2, <1>3
  <2>2. ASSUME NEW i \in 3 .. Len(o) PROVE o[i] # "/"
    <3> DEFINE j == i - 2
    <3>1. j \in 1 .. m /\ j + 2 = i BY <1>2, <1>3
    <3> HIDE DEF j
    <3>2. o[j + 2] = p[j] /\ p[j] # "/" BY <1>3, <1>9, <3>1
    <3> QED BY <3>1, <3>2
  <2> QED BY <1>3, <2>1, <2>2, Unclosed
<1> QED BY <1>5, <1>6, <1>12, <1>13, <1>14 DEF o


\* The rules of an egg whose pattern is closed.
Closing == {<<"required">>, <<"max">>} \cup {Plainly(p) : p \in E!Pattern} \cup {Flagged(p) : p \in E!Pattern}

\* Each is one rule to whoever knows of patterns.
LEMMA ClosingWhole ==
  ASSUME E!EggAssumption, NEW r \in Closing
  PROVE  r \in Seq(Token) /\ r # <<>> /\ Whole(TRUE, r)
<1>1. CASE r \in {<<"required">>, <<"max">>} BY <1>1, WholeName
<1>2. ASSUME NEW p \in E!Pattern, r = Plainly(p) \/ r = Flagged(p) PROVE r \in Seq(Token) /\ r # <<>> /\ Whole(TRUE, r)
  BY <1>2, PatternParts, WholeQuoted
<1> QED BY <1>1, <1>2 DEF Closing

\* An egg has one rule, or three with a pattern in the middle; the pattern is closed or not.
LEMMA RulesOf ==
  ASSUME NEW e \in E!Eggs
  PROVE  \/ \E r \in Closing : e.rules = <<r>>
         \/ \E r \in Closing : e.rules = <<<<"required">>, r, <<"max">>>>
         \/ \E p \in E!Pattern : e.rules = <<Opened(p)>>
         \/ \E p \in E!Pattern : e.rules = <<<<"required">>, Opened(p), <<"max">>>>
<1>1. e.rules \in E!Rules \/ e.rules = E!Plain BY DEF E!Eggs
<1>2. CASE e.rules = E!Plain BY <1>2 DEF E!Plain, Closing
<1>3. CASE e.rules \in E!Rules
  <2>1. PICK q \in UNION {E!Quoted(p) : p \in E!Pattern} : e.rules = <<q>> \/ e.rules = <<<<"required">>, q, <<"max">>>>
    BY <1>3 DEF E!Rules
  <2>2. PICK p \in E!Pattern : q \in E!Quoted(p) BY <2>1
  <2>3. q = Plainly(p) \/ q = Opened(p) \/ q = Flagged(p) BY <2>2 DEF E!Quoted, Plainly, Opened, Flagged
  <2>4. q \in Closing \/ q = Opened(p) BY <2>2, <2>3 DEF Closing
  <2> QED BY <2>1, <2>2, <2>4
<1> QED BY <1>1, <1>2, <1>3

\* One rule is its own text, and three have two bars between.
LEMMA JoinedFew ==
  ASSUME NEW a \in Seq(Token), NEW b \in Seq(Token), NEW c \in Seq(Token)
  PROVE  /\ E!Joined(<<a>>) = a
         /\ E!Joined(<<a, b, c>>) = a \o <<"|">> \o b \o <<"|">> \o c
<1>1. "|" \in Token BY DEF Token
<1>2. E!Joined(<<a>>) = a
  <2> DEFINE s == <<a>>
  <2>1. s \in Seq(Seq(Token)) /\ Len(s) = 1 /\ s[1] = a OBVIOUS
  <2> HIDE DEF s
  <2>2. PICK f \in [0 .. Len(s) -> Seq(Token)] :
          /\ \A i \in 1 .. Len(s) : f[i] = IF i = 1 THEN s[1] ELSE f[i - 1] \o <<"|">> \o s[i]
          /\ E!Joined(s) = f[Len(s)]
    BY <1>1, <2>1, JoinedParts
  <2>3. f[1] = s[1] BY <2>1, <2>2
  <2> QED BY <2>1, <2>2, <2>3 DEF s
<1>3. E!Joined(<<a, b, c>>) = a \o <<"|">> \o b \o <<"|">> \o c
  <2> DEFINE s == <<a, b, c>>
  <2>1. s \in Seq(Seq(Token)) /\ Len(s) = 3 /\ s[1] = a /\ s[2] = b /\ s[3] = c OBVIOUS
  <2> HIDE DEF s
  <2>2. PICK f \in [0 .. Len(s) -> Seq(Token)] :
          /\ \A i \in 1 .. Len(s) : f[i] = IF i = 1 THEN s[1] ELSE f[i - 1] \o <<"|">> \o s[i]
          /\ E!Joined(s) = f[Len(s)]
    BY <1>1, <2>1, JoinedParts
  <2>3. /\ 1 \in 1 .. Len(s) /\ 2 \in 1 .. Len(s) /\ 3 \in 1 .. Len(s)
        /\ 2 # 1 /\ 3 # 1 /\ 2 - 1 = 1 /\ 3 - 1 = 2
    BY <2>1
  <2>4. f[1] = a BY <2>1, <2>2, <2>3
  <2>5. f[2] = f[1] \o <<"|">> \o b BY <2>1, <2>2, <2>3
  <2>6. f[3] = f[2] \o <<"|">> \o c BY <2>1, <2>2, <2>3
  <2>7. E!Joined(s) = f[3] BY <2>1, <2>2
  <2> QED BY <2>4, <2>5, <2>6, <2>7 DEF s
<1> QED BY <1>2, <1>3


\* A pattern that is not closed takes the rest of the text with it, and is dropped.
LEMMA UnclosedPieces ==
  ASSUME NEW p \in Seq(Token), \A i \in 1 .. Len(p) : p[i] # "/"
  PROVE  /\ E!SplitRules(E!Joined(<<Opened(p)>>)) = <<Opened(p)>>
         /\ \E r \in Seq(Token) :
              /\ E!SplitRules(E!Joined(<<<<"required">>, Opened(p), <<"max">>>>)) = <<<<"required">>, r>>
              /\ E!Dropped(r)
<1> DEFINE o   == Opened(p)
           name == <<"required">>
           max == <<"max">>
           bar == <<"|">>
           ob  == o \o bar
           r   == ob \o max
           In(parts, buffer) == [parts |-> parts, buffer |-> buffer, inside |-> TRUE]
<1>1. /\ name \in Seq(Token) /\ max \in Seq(Token) /\ bar \in Seq(Token)
      /\ name # <<>> /\ Len(max) = 1 /\ max[1] = "max" /\ Len(bar) = 1 /\ bar[1] = "|"
      /\ <<>> \in Seq(Seq(Token)) /\ <<name>> \in Seq(Seq(Token)) /\ Append(<<>>, name) = <<name>>
  <2>1. "required" \in Token /\ "max" \in Token /\ "|" \in Token BY DEF Token
  <2>2. name \in Seq(Token) /\ max \in Seq(Token) /\ bar \in Seq(Token) BY <2>1
  <2>3. <<>> \in Seq(Seq(Token)) BY EmptySeq
  <2> QED BY <2>2, <2>3
<1>2. Whole(TRUE, name) BY WholeName
<1> HIDE DEF name, max, bar
<1>3. /\ o \in Seq(Token) /\ Len(o) = Len(p) + 2 /\ o[1] = "regex:" /\ o[2] = "/"
      /\ \A i \in 1 .. Len(p) : o[i + 2] = p[i]
  BY OpenedParts
<1>4. ASSUME NEW parts \in Seq(Seq(Token)) PROVE Leads(TRUE, Between(parts), o, In(parts, o))
  BY Opens
<1>5. Len(p) \in Nat /\ \A i \in 1 .. Len(p) : p[i] # "/" OBVIOUS
<1> HIDE DEF o
<1>6. /\ ob \in Seq(Token) /\ Len(ob) = Len(o) + Len(bar)
      /\ \A i \in 1 .. Len(o) + Len(bar) : ob[i] = IF i <= Len(o) THEN o[i] ELSE bar[i - Len(o)]
  BY <1>1, <1>3, ConcatProperties
<1> HIDE DEF ob
<1>7. /\ r \in Seq(Token) /\ Len(r) = Len(ob) + Len(max)
      /\ \A i \in 1 .. Len(ob) + Len(max) : r[i] = IF i <= Len(ob) THEN ob[i] ELSE max[i - Len(ob)]
  <2>1. ob \in Seq(Token) /\ max \in Seq(Token) BY <1>1, <1>6
  <2> QED BY <2>1, ConcatProperties
<1> HIDE DEF r
<1>8. E!Start = Between(<<>>) BY DEF E!Start, Between
<1>9. E!SplitRules(E!Joined(<<o>>)) = <<o>>
  <2>1. E!Joined(<<o>>) = o BY <1>3, JoinedFew
  <2>2. E!Parts(o, TRUE) = E!Closed(In(<<>>, o)) BY <1>1, <1>3, <1>4, <1>8, LeadsOnly
  <2>3. o # <<>> BY <1>3, <1>5, EmptySeq
  <2>4. E!Closed(In(<<>>, o)) = <<o>> BY <2>3 DEF E!Closed
  <2> QED BY <2>1, <2>2, <2>4 DEF E!SplitRules
<1>10. E!Dropped(r)
  <2>1. Len(r) = Len(p) + 4 /\ Len(r) > 1 BY <1>1, <1>3, <1>5, <1>6, <1>7
  <2>2. ASSUME NEW i \in 1 .. Len(p) + 2 PROVE r[i] = o[i]
    <3>1. i \in 1 .. Len(ob) + Len(max) /\ i <= Len(ob) /\ i \in 1 .. Len(o) + Len(bar) /\ i <= Len(o)
      BY <1>1, <1>3, <1>5, <1>6
    <3> QED BY <1>6, <1>7, <3>1
  <2>3. r[Len(p) + 3] = "|"
    <3> DEFINE k == Len(p) + 3
    <3>1. /\ k \in 1 .. Len(ob) + Len(max) /\ k <= Len(ob) /\ k \in 1 .. Len(o) + Len(bar) /\ ~(k <= Len(o))
          /\ k - Len(o) = 1
      BY <1>1, <1>3, <1>5, <1>6
    <3> HIDE DEF k
    <3>2. r[k] = ob[k] BY <1>7, <3>1
    <3>3. ob[k] = bar[1] BY <1>6, <3>1
    <3>4. r[k] = "|" BY <1>1, <3>2, <3>3
    <3> QED BY <3>4 DEF k
  <2>4. r[Len(p) + 4] = "max"
    <3> DEFINE k == Len(p) + 4
    <3>1. k \in 1 .. Len(ob) + Len(max) /\ ~(k <= Len(ob)) /\ k - Len(ob) = 1 BY <1>1, <1>3, <1>5, <1>6
    <3> HIDE DEF k
    <3>2. r[k] = "max" BY <1>1, <1>7, <3>1
    <3> QED BY <3>2 DEF k
  <2>5. r[1] = "regex:" /\ r[2] = "/"
    <3>1. 1 \in 1 .. Len(p) + 2 /\ 2 \in 1 .. Len(p) + 2 BY <1>5
    <3> QED BY <1>3, <2>2, <3>1
  <2>6. ASSUME NEW i \in 3 .. Len(r) PROVE r[i] # "/"
    <3>1. CASE i \in 3 .. Len(p) + 2
      <4> DEFINE j == i - 2
      <4>1. j \in 1 .. Len(p) /\ j + 2 = i /\ i \in 1 .. Len(p) + 2 BY <1>5, <3>1
      <4> HIDE DEF j
      <4>2. o[j + 2] = p[j] /\ p[j] # "/" BY <1>3, <1>5, <4>1
      <4> QED BY <2>2, <4>1, <4>2
    <3>2. CASE i = Len(p) + 3
      <4>1. "|" # "/" OBVIOUS
      <4> QED BY <2>3, <3>2, <4>1
    <3>3. CASE i = Len(p) + 4
      <4>1. "max" # "/" OBVIOUS
      <4> QED BY <2>4, <3>3, <4>1
    <3>4. i \in 3 .. Len(p) + 2 \/ i = Len(p) + 3 \/ i = Len(p) + 4 BY <1>5, <2>1
    <3> QED BY <3>1, <3>2, <3>3, <3>4
  <2> QED BY <1>7, <2>1, <2>5, <2>6, Unclosed
<1>11. E!SplitRules(E!Joined(<<name, o, max>>)) = <<name, r>>
  <2> DEFINE rb  == name \o bar
             rbo == rb \o o
             rbb == rbo \o bar
             all3 == rbb \o max
  <2>1. rb \in Seq(Token) BY <1>1, ConcatProperties
  <2> HIDE DEF rb
  <2>2. rbo \in Seq(Token) BY <1>3, <2>1, ConcatProperties
  <2> HIDE DEF rbo
  <2>3. rbb \in Seq(Token) BY <1>1, <2>2, ConcatProperties
  <2> HIDE DEF rbb
  <2>4. all3 \in Seq(Token) BY <1>1, <2>3, ConcatProperties
  <2>5. Leads(TRUE, E!Start, name, Behind(<<>>, name)) BY <1>1, <1>2, <1>8 DEF Whole
  <2>6. Leads(TRUE, Behind(<<>>, name), bar, Between(<<name>>))
    <3>1. Leads(TRUE, Behind(<<>>, name), <<"|">>, Between(Append(<<>>, name))) BY <1>1, BarEnds
    <3> QED BY <1>1, <3>1 DEF bar
  <2>7. Leads(TRUE, E!Start, rb, Between(<<name>>)) BY <1>1, <2>5, <2>6, LeadsOn DEF rb
  <2>8. Leads(TRUE, Between(<<name>>), o, In(<<name>>, o)) BY <1>1, <1>4
  <2>9. Leads(TRUE, E!Start, rbo, In(<<name>>, o)) BY <1>3, <2>1, <2>7, <2>8, LeadsOn DEF rbo
  <2>10. Leads(TRUE, In(<<name>>, o), bar, In(<<name>>, ob))
    <3> DEFINE s == In(<<name>>, o)
    <3>1. s \in Scan /\ s.parts = <<name>> /\ s.buffer = o /\ s.inside = TRUE BY <1>1, <1>3 DEF Scan
    <3> HIDE DEF s
    <3>2. \A i \in 1 .. Len(bar) : bar[i] # "/" BY <1>1
    <3>3. Leads(TRUE, s, bar, [parts |-> s.parts, buffer |-> s.buffer \o bar, inside |-> s.inside])
      BY <1>1, <3>1, <3>2, LeadsPlain
    <3> QED BY <3>1, <3>3 DEF s, ob
  <2>11. Leads(TRUE, In(<<name>>, ob), max, In(<<name>>, r))
    <3> DEFINE s == In(<<name>>, ob)
    <3>1. s \in Scan /\ s.parts = <<name>> /\ s.buffer = ob /\ s.inside = TRUE BY <1>1, <1>6 DEF Scan
    <3> HIDE DEF s
    <3>2. \A i \in 1 .. Len(max) : max[i] # "/" BY <1>1
    <3>3. Leads(TRUE, s, max, [parts |-> s.parts, buffer |-> s.buffer \o max, inside |-> s.inside])
      BY <1>1, <3>1, <3>2, LeadsPlain
    <3> QED BY <3>1, <3>3 DEF s, r
  <2>12. Leads(TRUE, E!Start, rbb, In(<<name>>, ob)) BY <1>1, <2>2, <2>9, <2>10, LeadsOn DEF rbb
  <2>13. Leads(TRUE, E!Start, all3, In(<<name>>, r)) BY <1>1, <2>3, <2>11, <2>12, LeadsOn
  <2>14. E!Joined(<<name, o, max>>) = all3
    <3>1. name \in Seq(Token) /\ o \in Seq(Token) /\ max \in Seq(Token) BY <1>1, <1>3
    <3>2. E!Joined(<<name, o, max>>) = name \o <<"|">> \o o \o <<"|">> \o max BY <3>1, JoinedFew
    <3> QED BY <3>2 DEF bar, rb, rbo, rbb
  <2> HIDE DEF all3
  <2>15. E!Parts(all3, TRUE) = E!Closed(In(<<name>>, r)) BY <2>4, <2>13, LeadsOnly
  <2>16. E!Closed(In(<<name>>, r)) = <<name, r>>
    <3>1. r # <<>> BY <1>1, <1>3, <1>5, <1>6, <1>7, EmptySeq
    <3>2. E!Closed(In(<<name>>, r)) = Append(<<name>>, r) BY <3>1 DEF E!Closed
    <3>3. Append(<<name>>, r) = <<name, r>>
      <4>1. name \in Seq(Token) /\ r \in Seq(Token) BY <1>1, <1>7
      <4> QED BY <4>1, TwoOf
    <3> QED BY <3>2, <3>3
  <2> QED BY <2>14, <2>15, <2>16 DEF E!SplitRules
<1> QED BY <1>7, <1>9, <1>10, <1>11 DEF o, name, max


\* What the import finds in an egg's text is the egg's own rules, unless it drops one;
\* what it does not drop is a rule of the egg's.
LEMMA Pieces ==
  ASSUME E!EggAssumption, NEW e \in E!Eggs
  PROVE  LET pieces == E!SplitRules(E!Joined(e.rules))
         IN  /\ pieces \in Seq(Seq(Token))
             /\ \A i \in 1 .. Len(pieces) :
                  \/ E!Dropped(pieces[i])
                  \/ pieces[i] \in Closing /\ \E k \in 1 .. Len(e.rules) : e.rules[k] = pieces[i]
             /\ (\E i \in 1 .. Len(pieces) : E!Dropped(pieces[i])) \/ pieces = e.rules
<1> DEFINE rules  == e.rules
           pieces == E!SplitRules(E!Joined(rules))
           Right  == /\ pieces \in Seq(Seq(Token))
                     /\ \A i \in 1 .. Len(pieces) :
                          \/ E!Dropped(pieces[i])
                          \/ pieces[i] \in Closing /\ \E k \in 1 .. Len(rules) : rules[k] = pieces[i]
                     /\ (\E i \in 1 .. Len(pieces) : E!Dropped(pieces[i])) \/ pieces = rules
<1>1. <<"required">> \in Closing /\ <<"max">> \in Closing BY DEF Closing
<1>2. ASSUME rules \in Seq(Closing), Len(rules) > 0 PROVE Right
  <2>1. Closing \subseteq Seq(Token) BY ClosingWhole
  <2>2. rules \in Seq(Seq(Token)) BY <1>2, <2>1, SeqMonotonic
  <2>3. \A i \in 1 .. Len(rules) : rules[i] \in Closing BY <1>2, ElementOfSeq
  <2>4. \A i \in 1 .. Len(rules) : rules[i] # <<>> /\ Whole(TRUE, rules[i]) BY <2>3, ClosingWhole
  <2> HIDE DEF rules
  <2>5. E!Parts(E!Joined(rules), TRUE) = rules BY <1>2, <2>2, <2>4, SplitWhole
  <2>6. pieces = rules BY <2>5 DEF E!SplitRules
  <2> HIDE DEF pieces
  <2> QED BY <2>2, <2>3, <2>6
<1>3. ASSUME NEW r \in Closing, rules = <<r>> \/ rules = <<<<"required">>, r, <<"max">>>> PROVE Right
  <2> DEFINE a == <<"required">>
             b == <<"max">>
  <2>1. CASE rules = <<r>>
    <3> HIDE DEF Right, rules
    <3>1. <<r>> \in Seq(Closing) /\ Len(<<r>>) = 1 OBVIOUS
    <3> QED BY <1>2, <2>1, <3>1
  <2>2. CASE rules = <<a, r, b>>
    <3>1. a \in Closing /\ b \in Closing BY <1>1
    <3> HIDE DEF Right, rules, a, b
    <3>2. <<a, r, b>> \in Seq(Closing) /\ Len(<<a, r, b>>) = 3 BY <3>1
    <3> QED BY <1>2, <2>2, <3>2
  <2> QED BY <1>3, <2>1, <2>2
<1>4. ASSUME NEW p \in E!Pattern, rules = <<Opened(p)>> PROVE Right
  <2>1. p \in Seq(Token) /\ \A i \in 1 .. Len(p) : p[i] # "/" BY PatternParts
  <2>2. E!Dropped(Opened(p)) /\ Opened(p) \in Seq(Token) BY <2>1, QuotedParts, OpenedParts
  <2>3. pieces = <<Opened(p)>> BY <1>4, <2>1, UnclosedPieces
  <2>4. pieces \in Seq(Seq(Token)) /\ Len(pieces) = 1 /\ pieces[1] = Opened(p) BY <2>2, <2>3
  <2> HIDE DEF pieces, rules
  <2> QED BY <2>2, <2>4
<1>5. ASSUME NEW p \in E!Pattern, rules = <<<<"required">>, Opened(p), <<"max">>>> PROVE Right
  <2>1. p \in Seq(Token) /\ \A i \in 1 .. Len(p) : p[i] # "/" BY PatternParts
  <2>2. PICK r \in Seq(Token) : pieces = <<<<"required">>, r>> /\ E!Dropped(r) BY <1>5, <2>1, UnclosedPieces
  <2>3. <<"required">> \in Seq(Token) BY WholeName
  <2>4. pieces \in Seq(Seq(Token)) /\ Len(pieces) = 2 /\ pieces[1] = <<"required">> /\ pieces[2] = r BY <2>2, <2>3
  <2>5. 1 \in 1 .. Len(rules) /\ rules[1] = <<"required">> BY <1>5
  <2> HIDE DEF pieces, rules
  <2>6. \A i \in 1 .. Len(pieces) : i = 1 \/ i = 2 BY <2>4
  <2>7. 2 \in 1 .. Len(pieces) BY <2>4
  <2> QED BY <1>1, <2>2, <2>4, <2>5, <2>6, <2>7
<1>6. Right
  <2> HIDE DEF Right
  <2> QED BY <1>3, <1>4, <1>5, RulesOf
<1> QED BY <1>6


\* A rule that is kept is one to the validator too: a name alone, or the pattern without
\* its delimiters.
LEMMA ClosingBare ==
  ASSUME E!EggAssumption, NEW r \in Closing, ~E!Dropped(r)
  PROVE  /\ E!Bare(r) \in Seq(Token) /\ E!Bare(r) # <<>>
         /\ \A i \in 1 .. Len(E!Bare(r)) : E!Bare(r)[i] # "|"
         /\ \/ ~E!IsPattern(r) /\ E!Bare(r) = r /\ r \in {<<"required">>, <<"max">>}
            \/ /\ E!IsPattern(r) /\ E!Argument(r) \in E!Pattern
               /\ E!Bare(r)[1] = "regex:" /\ Tail(E!Bare(r)) = E!Argument(r)
<1>1. CASE r \in {<<"required">>, <<"max">>}
  <2>1. ~E!IsPattern(r) BY <1>1 DEF E!IsPattern
  <2>2. E!Bare(r) = r BY <2>1 DEF E!Bare
  <2>3. r \in Seq(Token) /\ r # <<>> BY <1>1, WholeName
  <2>4. \A i \in 1 .. Len(r) : r[i] # "|" BY <1>1
  <2> QED BY <1>1, <2>1, <2>2, <2>3, <2>4
<1>2. ASSUME NEW p \in E!Pattern, r = Plainly(p) \/ r = Flagged(p)
      PROVE  /\ E!Bare(r) \in Seq(Token) /\ E!Bare(r) # <<>>
             /\ \A i \in 1 .. Len(E!Bare(r)) : E!Bare(r)[i] # "|"
             /\ E!IsPattern(r) /\ E!Argument(r) \in E!Pattern
             /\ E!Bare(r)[1] = "regex:" /\ Tail(E!Bare(r)) = E!Argument(r)
  <2>1. /\ p \in Seq(Token) /\ Len(p) > 0 /\ DOMAIN p = 1 .. Len(p)
        /\ \A i \in 1 .. Len(p) : p[i] # "/"
    BY PatternParts
  <2>2. E!IsPattern(r) /\ E!Argument(r) = p BY <1>2, <2>1, QuotedParts
  <2>3. \A i \in 1 .. Len(p) : p[i] # "|" BY <2>1, <2>2 DEF E!Dropped, E!ToSet
  <2> DEFINE h == <<"regex:">>
             b == h \o p
  <2>4. h \in Seq(Token) /\ Len(h) = 1 /\ h[1] = "regex:"
    <3>1. "regex:" \in Token BY DEF Token
    <3> QED BY <3>1
  <2>5. E!Bare(r) = b BY <2>2 DEF E!Bare
  <2> HIDE DEF h
  <2>6. /\ b \in Seq(Token) /\ Len(b) = Len(h) + Len(p)
        /\ \A i \in 1 .. Len(h) + Len(p) : b[i] = IF i <= Len(h) THEN h[i] ELSE p[i - Len(h)]
    BY <2>1, <2>4, ConcatProperties
  <2> HIDE DEF b
  <2>7. Len(p) \in Nat BY <2>1
  <2>8. b # <<>> BY <2>4, <2>6, <2>7, EmptySeq
  <2>9. b[1] = "regex:"
    <3>1. 1 \in 1 .. Len(h) + Len(p) /\ 1 <= Len(h) BY <2>4, <2>7
    <3> QED BY <2>4, <2>6, <3>1
  <2>10. \A i \in 1 .. Len(p) : b[i + 1] = p[i]
    <3> SUFFICES ASSUME NEW i \in 1 .. Len(p) PROVE b[i + 1] = p[i]
      OBVIOUS
    <3> DEFINE j == i + 1
    <3>1. j \in 1 .. Len(h) + Len(p) /\ ~(j <= Len(h)) /\ j - Len(h) = i BY <2>4, <2>7
    <3> HIDE DEF j
    <3>2. b[j] = p[i] BY <2>6, <3>1
    <3> QED BY <3>2 DEF j
  <2>11. Tail(b) = p
    <3> DEFINE t == Tail(b)
    <3>1. t \in Seq(Token) /\ Len(t) = Len(b) - 1 /\ \A i \in 1 .. Len(t) : t[i] = b[i + 1]
      BY <2>6, <2>8, HeadTailProperties
    <3> HIDE DEF t
    <3>2. Len(t) = Len(p) BY <2>4, <2>6, <2>7, <3>1
    <3>3. \A i \in 1 .. Len(t) : t[i] = p[i] BY <2>10, <3>1, <3>2
    <3>4. t = p BY <2>1, <3>1, <3>2, <3>3, SeqEqual
    <3> QED BY <3>4 DEF t
  <2>12. ASSUME NEW i \in 1 .. Len(b) PROVE b[i] # "|"
    <3>1. CASE i = 1
      <4>1. "regex:" # "|" OBVIOUS
      <4> QED BY <2>9, <3>1, <4>1
    <3>2. CASE i # 1
      <4> DEFINE j == i - 1
      <4>1. j \in 1 .. Len(p) /\ j + 1 = i BY <2>4, <2>6, <2>7, <3>2
      <4> HIDE DEF j
      <4> QED BY <2>3, <2>10, <4>1
    <3> QED BY <3>1, <3>2
  <2> QED BY <2>2, <2>5, <2>6, <2>8, <2>9, <2>11, <2>12
<1> QED BY <1>1, <1>2 DEF Closing

\* To the validator the rules of a template are the rules of the egg that are kept, each
\* whole; where nothing was dropped, all of them.
LEMMA TranslateParts ==
  ASSUME E!EggAssumption, NEW e \in E!Eggs
  PROVE  LET rules == E!Split(E!TranslateRules(E!Joined(e.rules)))
         IN  /\ rules \in Seq(Seq(Token))
             /\ \A k \in 1 .. Len(rules) :
                  \/ rules[k] = <<"string">>
                  \/ \E i \in 1 .. Len(e.rules) : ~E!Dropped(e.rules[i]) /\ rules[k] = E!Bare(e.rules[i])
             /\ "pattern" \notin E!Says(e) =>
                  /\ \A i \in 1 .. Len(e.rules) :
                       /\ e.rules[i] \in Closing /\ ~E!Dropped(e.rules[i])
                       /\ \E k \in 1 .. Len(rules) : rules[k] = E!Bare(e.rules[i])
                  /\ \A k \in 1 .. Len(rules) : \E i \in 1 .. Len(e.rules) : rules[k] = E!Bare(e.rules[i])
<1> DEFINE own    == e.rules
           pieces == E!SplitRules(E!Joined(own))
           kept   == E!Kept(pieces)
           rules  == E!Split(E!TranslateRules(E!Joined(own)))
           Right  == /\ rules \in Seq(Seq(Token))
                     /\ \A k \in 1 .. Len(rules) :
                          \/ rules[k] = <<"string">>
                          \/ \E i \in 1 .. Len(own) : ~E!Dropped(own[i]) /\ rules[k] = E!Bare(own[i])
                     /\ "pattern" \notin E!Says(e) =>
                          /\ \A i \in 1 .. Len(own) :
                               /\ own[i] \in Closing /\ ~E!Dropped(own[i])
                               /\ \E k \in 1 .. Len(rules) : rules[k] = E!Bare(own[i])
                          /\ \A k \in 1 .. Len(rules) : \E i \in 1 .. Len(own) : rules[k] = E!Bare(own[i])
<1>1. /\ pieces \in Seq(Seq(Token))
      /\ \A i \in 1 .. Len(pieces) :
           \/ E!Dropped(pieces[i])
           \/ pieces[i] \in Closing /\ \E k \in 1 .. Len(own) : own[k] = pieces[i]
      /\ (\E i \in 1 .. Len(pieces) : E!Dropped(pieces[i])) \/ pieces = own
  BY Pieces
<1>2. E!TranslateRules(E!Joined(own)) = IF kept = <<>> THEN <<"string">> ELSE E!Joined(kept)
  BY DEF E!TranslateRules
<1>3. "pattern" \notin E!Says(e) => \A i \in 1 .. Len(pieces) : ~E!Dropped(pieces[i])
  <2>1. "pattern" \notin E!Says(e) => \A r \in E!ToSet(pieces) : ~E!Dropped(r) BY DEF E!Says
  <2> HIDE DEF pieces
  <2>2. DOMAIN pieces = 1 .. Len(pieces) BY <1>1
  <2> QED BY <2>1, <2>2 DEF E!ToSet
<1>4. 1 \in 1 .. Len(own)
  <2>1. ASSUME NEW r, own = <<r>> PROVE 1 \in 1 .. Len(own)
    <3>1. Len(<<r>>) = 1 OBVIOUS
    <3> HIDE DEF own
    <3> QED BY <2>1, <3>1
  <2>2. ASSUME NEW r, own = <<<<"required">>, r, <<"max">>>> PROVE 1 \in 1 .. Len(own)
    <3>1. Len(<<<<"required">>, r, <<"max">>>>) = 3 OBVIOUS
    <3> HIDE DEF own
    <3> QED BY <2>2, <3>1
  <2> QED BY <2>1, <2>2, RulesOf
<1> HIDE DEF pieces
<1>5. ASSUME NEW i \in 1 .. Len(pieces), ~E!Dropped(pieces[i])
      PROVE  /\ E!Bare(pieces[i]) \in Seq(Token) /\ E!Bare(pieces[i]) # <<>>
             /\ \A j \in 1 .. Len(E!Bare(pieces[i])) : E!Bare(pieces[i])[j] # "|"
  BY <1>1, <1>5, ClosingBare
<1>6. /\ kept \in Seq(Seq(Token))
      /\ \A k \in 1 .. Len(kept) : \E i \in 1 .. Len(pieces) : ~E!Dropped(pieces[i]) /\ kept[k] = E!Bare(pieces[i])
      /\ \A i \in 1 .. Len(pieces) : ~E!Dropped(pieces[i]) => \E k \in 1 .. Len(kept) : kept[k] = E!Bare(pieces[i])
  BY <1>1, <1>5, KeptParts
<1> HIDE DEF kept
<1>7. \A k \in 1 .. Len(kept) : \E i \in 1 .. Len(own) : ~E!Dropped(own[i]) /\ kept[k] = E!Bare(own[i])
  <2> SUFFICES ASSUME NEW k \in 1 .. Len(kept)
               PROVE  \E i \in 1 .. Len(own) : ~E!Dropped(own[i]) /\ kept[k] = E!Bare(own[i])
    OBVIOUS
  <2>1. PICK i \in 1 .. Len(pieces) : ~E!Dropped(pieces[i]) /\ kept[k] = E!Bare(pieces[i]) BY <1>6
  <2>2. PICK j \in 1 .. Len(own) : own[j] = pieces[i] BY <1>1, <2>1
  <2> QED BY <2>1, <2>2
<1>8. ASSUME kept = <<>> PROVE Right
  <2> DEFINE one == <<"string">>
  <2>1. one \in Seq(Token) /\ Len(one) = 1 /\ one[1] = "string" /\ "string" # "|" /\ one # <<>>
    <3>1. "string" \in Token BY DEF Token
    <3> QED BY <3>1
  <2>2. rules = E!Parts(one, FALSE) BY <1>2, <1>8 DEF E!Split
  <2> HIDE DEF one
  <2>3. Whole(FALSE, one)
    <3>1. \A i \in 1 .. Len(one) : one[i] # "|" BY <2>1
    <3> QED BY <2>1, <3>1, WholeWithoutBar
  <2>4. <<>> \in Seq(Seq(Token)) BY EmptySeq
  <2>5. E!Start = Between(<<>>) BY DEF E!Start, Between
  <2>6. Leads(FALSE, E!Start, one, Behind(<<>>, one)) BY <2>3, <2>4, <2>5 DEF Whole
  <2>7. E!Parts(one, FALSE) = E!Closed(Behind(<<>>, one)) BY <2>1, <2>6, LeadsOnly
  <2>8. E!Closed(Behind(<<>>, one)) = <<one>>
    <3>1. Append(<<>>, one) = <<one>> OBVIOUS
    <3> QED BY <2>1, <3>1 DEF E!Closed, Behind
  <2>9. rules = <<one>> BY <2>2, <2>7, <2>8
  <2>10. rules \in Seq(Seq(Token)) /\ Len(rules) = 1 /\ rules[1] = one
    <3> HIDE DEF rules
    <3> QED BY <2>1, <2>9
  <2>11. ~("pattern" \notin E!Says(e))
    <3> SUFFICES ASSUME "pattern" \notin E!Says(e) PROVE FALSE
      OBVIOUS
    <3>1. pieces = own /\ \A i \in 1 .. Len(pieces) : ~E!Dropped(pieces[i]) BY <1>1, <1>3
    <3>2. \E k \in 1 .. Len(kept) : kept[k] = E!Bare(pieces[1]) BY <1>4, <1>6, <3>1
    <3>3. Len(kept) = 0 BY <1>8, EmptySeq
    <3> QED BY <3>2, <3>3
  <2>12. \A k \in 1 .. Len(rules) : rules[k] = <<"string">>
    <3> HIDE DEF rules
    <3> QED BY <2>10 DEF one
  <2> QED BY <2>10, <2>11, <2>12
<1>9. ASSUME kept # <<>> PROVE Right
  <2>1. Len(kept) > 0 BY <1>6, <1>9, EmptySeq
  <2>2. \A k \in 1 .. Len(kept) : kept[k] # <<>> /\ Whole(FALSE, kept[k])
    <3> SUFFICES ASSUME NEW k \in 1 .. Len(kept) PROVE kept[k] # <<>> /\ Whole(FALSE, kept[k])
      OBVIOUS
    <3>1. PICK i \in 1 .. Len(pieces) : ~E!Dropped(pieces[i]) /\ kept[k] = E!Bare(pieces[i]) BY <1>6
    <3>2. /\ kept[k] \in Seq(Token) /\ kept[k] # <<>>
          /\ \A j \in 1 .. Len(kept[k]) : kept[k][j] # "|"
      BY <1>5, <3>1
    <3> QED BY <3>2, WholeWithoutBar
  <2>3. E!Parts(E!Joined(kept), FALSE) = kept BY <1>6, <2>1, <2>2, SplitWhole
  <2>4. rules = kept BY <1>2, <1>9, <2>3 DEF E!Split
  <2>5. ASSUME "pattern" \notin E!Says(e)
        PROVE  \A i \in 1 .. Len(own) :
                 own[i] \in Closing /\ ~E!Dropped(own[i]) /\ \E k \in 1 .. Len(kept) : kept[k] = E!Bare(own[i])
    <3>1. pieces = own /\ \A i \in 1 .. Len(pieces) : ~E!Dropped(pieces[i]) BY <1>1, <1>3, <2>5
    <3> QED BY <1>1, <1>6, <3>1
  <2> HIDE DEF rules
  <2> QED BY <1>6, <1>7, <2>4, <2>5
<1> QED BY <1>8, <1>9


\* The rules of an egg are rules.
LEMMA RulesTyped ==
  ASSUME E!EggAssumption, NEW e \in E!Eggs
  PROVE  e.rules \in Seq(Seq(Token)) /\ DOMAIN e.rules = 1 .. Len(e.rules)
<1> DEFINE own == e.rules
           a == <<"required">>
           b == <<"max">>
<1>1. a \in Seq(Token) /\ b \in Seq(Token) BY WholeName
<1>2. (\E r \in Seq(Token) : own = <<r>>) \/ (\E r \in Seq(Token) : own = <<a, r, b>>)
  <2>1. \A r \in Closing : r \in Seq(Token) BY ClosingWhole
  <2>2. \A p \in E!Pattern : Opened(p) \in Seq(Token) BY PatternParts, OpenedParts
  <2> QED BY <2>1, <2>2, RulesOf
<1> HIDE DEF own, a, b
<1>3. own \in Seq(Seq(Token))
  <2> DEFINE S == Seq(Token)
  <2>1. a \in S /\ b \in S BY <1>1
  <2>2. PICK r \in S : own = <<r>> \/ own = <<a, r, b>> BY <1>2
  <2> HIDE DEF S
  <2>3. <<r>> \in Seq(S) /\ <<a, r, b>> \in Seq(S) BY <2>1, <2>2
  <2>4. own \in Seq(S) BY <2>2, <2>3
  <2> QED BY <2>4 DEF S
<1>4. DOMAIN own = 1 .. Len(own) BY <1>3
<1> QED BY <1>3, <1>4 DEF own

\* A pattern without a colon is tested as it is, and a name is no pattern.
LEMMA VerdictOfPattern ==
  ASSUME E!EggAssumption, NEW p \in E!Pattern, ":" \notin E!ToSet(p), NEW b, b[1] = "regex:", Tail(b) = p, NEW v
  PROVE  E!Verdict(b, v) = IF E!Matches(p, v) THEN "next" ELSE "refused"
<1>1. p \in Seq(Token) /\ DOMAIN p = 1 .. Len(p) /\ ~E!Broken(p) BY PatternParts
<1>2. E!CutAt(p) = Len(p)
  <2>1. {i \in DOMAIN p : p[i] = ":"} = {} BY DEF E!ToSet
  <2> QED BY <2>1 DEF E!CutAt
<1>3. E!Cut(p) = p BY <1>1, <1>2, Longer DEF E!Cut
<1>4. E!Test(Tail(b), v) <=> E!Matches(p, v) BY <1>3 DEF E!Test
<1>5. ~E!Broken(E!Cut(Tail(b))) BY <1>1, <1>3
<1>6. E!IsPattern(b) /\ b[1] # "max" BY DEF E!IsPattern
<1>7. CASE E!Matches(p, v) BY <1>4, <1>5, <1>6, <1>7 DEF E!Verdict
<1>8. CASE ~E!Matches(p, v) BY <1>4, <1>5, <1>6, <1>8 DEF E!Verdict
<1> QED BY <1>7, <1>8

\* A name alone refuses a value that is too long, and decides nothing else.
LEMMA VerdictOfName ==
  ASSUME NEW r \in {<<"required">>, <<"max">>}, NEW v
  PROVE  E!Verdict(r, v) = IF r[1] = "max" /\ Len(v) > Longest THEN "refused" ELSE "next"
<1>1. ~E!IsPattern(r) BY DEF E!IsPattern
<1>2. CASE r[1] = "max" /\ Len(v) > Longest BY <1>1, <1>2 DEF E!Verdict
<1>3. CASE ~(r[1] = "max" /\ Len(v) > Longest) BY <1>1, <1>3 DEF E!Verdict
<1> QED BY <1>2, <1>3

\* What no rule decides is not refused by any: the first that decides would have to accept.
LEMMA NoneDecides ==
  ASSUME NEW text, NEW v, v # <<>>, E!ValidateAgainstRules(text, v),
         \A k \in 1 .. Len(E!Split(text)) : E!Verdict(E!Split(text)[k], v) # "accepted",
         E!Split(text) \in Seq(Seq(Token))
  PROVE  \A k \in 1 .. Len(E!Split(text)) : E!Verdict(E!Split(text)[k], v) = "next"
<1> DEFINE s == E!Split(text)
           Deciding == {i \in DOMAIN s : E!Verdict(s[i], v) # "next"}
<1>1. \A i \in Deciding : (\A j \in Deciding : i <= j) => E!Verdict(s[i], v) = "accepted" BY DEF E!ValidateAgainstRules
<1>2. DOMAIN s = 1 .. Len(s) /\ Len(s) \in Nat OBVIOUS
<1>3. Deciding = {}
  <2> SUFFICES ASSUME Deciding # {} PROVE FALSE
    OBVIOUS
  <2>1. Deciding \subseteq Nat BY <1>2
  <2>2. PICK x \in Deciding : \A y \in Deciding : ~(<<y, x>> \in OpToRel(<, Nat)) BY <2>1, NatLessThanWellFounded, WFMin
  <2>3. \A y \in Deciding : x <= y
    <3> SUFFICES ASSUME NEW y \in Deciding PROVE x <= y
      OBVIOUS
    <3>1. x \in Nat /\ y \in Nat BY <2>1, <2>2
    <3>2. ~(y < x) BY <2>2, <3>1 DEF OpToRel
    <3> QED BY <3>1, <3>2
  <2>4. E!Verdict(s[x], v) = "accepted" BY <1>1, <2>2, <2>3
  <2>5. x \in 1 .. Len(s) BY <1>2, <2>2
  <2> QED BY <2>4, <2>5
<1> QED BY <1>2, <1>3


\* The values a customer may give are of letters and colons, and the empty one is one.
LEMMA EmptyIsText == <<>> \in E!Texts
<1>1. <<>> \in [1 .. 0 -> E!Letter \cup {":"}] OBVIOUS
<1> QED BY <1>1 DEF E!Texts

\* At most one variable of an egg is usable: it has one, or two of one name.
LEMMA UsableFew == ASSUME NEW e \in E!Eggs PROVE E!Cardinality(E!Usable(e)) \in 0 .. 1
<1>1. e.names \in {<<"good">>, <<"good", "good">>, <<"bad">>} BY DEF E!Eggs
<1>2. E!Usable(e) \subseteq {1}
  <2> SUFFICES ASSUME NEW i \in E!Usable(e) PROVE i = 1
    OBVIOUS
  <2>1. i \in DOMAIN e.names /\ \A j \in 1 .. i - 1 : e.names[j] # e.names[i] BY DEF E!Usable
  <2> QED BY <1>1, <2>1
<1>3. IsFiniteSet({1}) /\ Cardinality({1}) = 1 BY FS_Singleton
<1>4. IsFiniteSet(E!Usable(e)) /\ Cardinality(E!Usable(e)) <= 1 BY <1>2, <1>3, FS_Subset
<1>5. Cardinality(E!Usable(e)) \in Nat BY <1>4, FS_CardinalityType
<1>6. E!Cardinality(E!Usable(e)) = Cardinality(E!Usable(e)) BY DEF E!Cardinality, Cardinality
<1> QED BY <1>4, <1>5, <1>6

\* A template is what the import made of its egg, and the value on the server built on it
\* was checked against the rules of the template.
EggInv ==
  /\ E!TypeOK
  /\ template # Unset => egg \in E!Eggs /\ template = E!ConvertEgg(egg) /\ warnings = E!Says(egg)
  /\ stored # Unset => template # Unset /\ E!ValidateAgainstRules(template.rules, stored)

\* Nothing was imported.
LEMMA EggStart == ASSUME E!Init PROVE EggInv
BY DEF E!Init, E!TypeOK, EggInv

\* An import, a value that is given and a deletion keep it.
LEMMA EggStep == ASSUME EggInv, E!Next PROVE EggInv'
<1>1. ASSUME NEW e \in E!Eggs, template = Unset, E!ImportTemplate(e) PROVE EggInv'
  <2>1. egg' = e /\ template' = E!ConvertEgg(e) /\ warnings' = E!Says(e) /\ UNCHANGED stored
    BY <1>1 DEF E!ImportTemplate
  <2>2. template'.file \in SUBSET E!Settings BY <2>1 DEF E!ConvertEgg, E!Entries, E!Settings
  <2>3. template'.variables \in 0 .. 1 BY <2>1, UsableFew DEF E!ConvertEgg
  <2>4. warnings' \subseteq {"parser", "variable", "pattern", "placeholder"} BY <2>1 DEF E!Says
  <2>5. stored = Unset BY <1>1 DEF EggInv
  <2>6. E!TypeOK' BY <2>1, <2>2, <2>3, <2>4 DEF EggInv, E!TypeOK
  <2>7. egg' \in E!Eggs /\ template' = E!ConvertEgg(egg)' /\ warnings' = E!Says(egg)' BY <2>1
  <2>8. stored' = Unset BY <2>1, <2>5
  <2> QED BY <2>6, <2>7, <2>8 DEF EggInv
<1>2. ASSUME NEW v \in E!Texts, E!BuildEnvironment(v) PROVE EggInv'
  <2>1. /\ template # Unset /\ E!ValidateAgainstRules(template.rules, v)
        /\ stored' = v /\ UNCHANGED <<egg, template, warnings>>
    BY <1>2 DEF E!BuildEnvironment
  <2>2. E!TypeOK' BY <2>1 DEF EggInv, E!TypeOK
  <2>3. template' # Unset => egg' \in E!Eggs /\ template' = E!ConvertEgg(egg') /\ warnings' = E!Says(egg')
    BY <2>1 DEF EggInv
  <2>4. template' # Unset /\ E!ValidateAgainstRules(template.rules, stored)' BY <2>1
  <2> QED BY <2>2, <2>3, <2>4 DEF EggInv
<1>3. ASSUME NEW v \in E!Texts, E!CreateServer(v) \/ E!PutVariables(v) PROVE EggInv'
  <2>1. E!BuildEnvironment(v) \/ E!BuildEnvironment(<<>>) BY <1>3 DEF E!CreateServer, E!PutVariables
  <2> QED BY <1>2, <2>1, EmptyIsText
<1>4. CASE E!DeleteTemplate BY <1>4 DEF E!DeleteTemplate, E!TypeOK, EggInv
<1> QED BY <1>1, <1>3, <1>4 DEF E!Next

\* The invariant is of the egg alone.
LEMMA EggStill == ASSUME EggInv, UNCHANGED eVars PROVE EggInv'
BY DEF eVars, E!TypeOK, EggInv

\* Every rule the validator reads is one the import kept.
LEMMA NothingTorn == ASSUME E!EggAssumption, EggInv PROVE E!NoTornRule
<1> SUFFICES ASSUME template # Unset, NEW x \in E!ToSet(E!Split(template.rules))
             PROVE  x = <<"string">> \/ \E q \in E!ToSet(egg.rules) : ~E!Dropped(q) /\ x = E!Bare(q)
  BY DEF E!NoTornRule
<1> DEFINE rules == E!Split(template.rules)
<1>1. egg \in E!Eggs /\ template = E!ConvertEgg(egg) BY DEF EggInv
<1>2. template.rules = E!TranslateRules(E!Joined(egg.rules)) BY <1>1 DEF E!ConvertEgg
<1>3. /\ rules \in Seq(Seq(Token))
      /\ \A k \in 1 .. Len(rules) :
           \/ rules[k] = <<"string">>
           \/ \E i \in 1 .. Len(egg.rules) : ~E!Dropped(egg.rules[i]) /\ rules[k] = E!Bare(egg.rules[i])
  <2> DEFINE q == E!Split(E!TranslateRules(E!Joined(egg.rules)))
  <2>1. /\ q \in Seq(Seq(Token))
        /\ \A k \in 1 .. Len(q) :
             \/ q[k] = <<"string">>
             \/ \E i \in 1 .. Len(egg.rules) : ~E!Dropped(egg.rules[i]) /\ q[k] = E!Bare(egg.rules[i])
    BY <1>1, TranslateParts
  <2>2. rules = q BY <1>2
  <2> HIDE DEF q, rules
  <2> QED BY <2>1, <2>2
<1>4. DOMAIN egg.rules = 1 .. Len(egg.rules) BY <1>1, RulesTyped
<1>5. DOMAIN rules = 1 .. Len(rules)
  <2> HIDE DEF rules
  <2> QED BY <1>3
<1>6. PICK k \in DOMAIN rules : x = rules[k] BY DEF E!ToSet
<1> HIDE DEF rules
<1>7. CASE rules[k] = <<"string">> BY <1>6, <1>7
<1>8. CASE \E i \in 1 .. Len(egg.rules) : ~E!Dropped(egg.rules[i]) /\ rules[k] = E!Bare(egg.rules[i])
  <2>1. PICK i \in 1 .. Len(egg.rules) : ~E!Dropped(egg.rules[i]) /\ rules[k] = E!Bare(egg.rules[i]) BY <1>8
  <2>2. egg.rules[i] \in E!ToSet(egg.rules) BY <1>4, <2>1 DEF E!ToSet
  <2> QED BY <1>6, <2>1, <2>2
<1> QED BY <1>3, <1>5, <1>6, <1>7, <1>8

\* What the egg's rules refuse was refused by the validator's.
LEMMA RefusalsStay == ASSUME E!EggAssumption, EggInv PROVE E!StillRefused
<1> SUFFICES ASSUME template # Unset, stored # Unset, "pattern" \notin warnings,
                    ~\E r \in E!ToSet(egg.rules) : E!IsPattern(r) /\ ":" \in E!ToSet(E!Argument(r)),
                    NEW r \in E!ToSet(egg.rules), E!EggRefuses(r, stored)
             PROVE  FALSE
  BY DEF E!StillRefused
<1> DEFINE own   == egg.rules
           text  == template.rules
           rules == E!Split(text)
           v     == stored
<1>1. egg \in E!Eggs /\ template = E!ConvertEgg(egg) /\ warnings = E!Says(egg) /\ E!ValidateAgainstRules(text, v)
  BY DEF EggInv
<1>2. text = E!TranslateRules(E!Joined(own)) BY <1>1 DEF E!ConvertEgg
<1>3. /\ rules \in Seq(Seq(Token))
      /\ \A i \in 1 .. Len(own) :
           own[i] \in Closing /\ ~E!Dropped(own[i]) /\ \E k \in 1 .. Len(rules) : rules[k] = E!Bare(own[i])
      /\ \A k \in 1 .. Len(rules) : \E i \in 1 .. Len(own) : rules[k] = E!Bare(own[i])
  <2> DEFINE q == E!Split(E!TranslateRules(E!Joined(egg.rules)))
  <2>1. "pattern" \notin E!Says(egg) BY <1>1
  <2>2. /\ q \in Seq(Seq(Token))
        /\ \A i \in 1 .. Len(egg.rules) :
             egg.rules[i] \in Closing /\ ~E!Dropped(egg.rules[i]) /\ \E k \in 1 .. Len(q) : q[k] = E!Bare(egg.rules[i])
        /\ \A k \in 1 .. Len(q) : \E i \in 1 .. Len(egg.rules) : q[k] = E!Bare(egg.rules[i])
    BY <1>1, <2>1, TranslateParts
  <2>3. rules = q BY <1>2
  <2> HIDE DEF q, rules
  <2> QED BY <2>2, <2>3
<1>4. DOMAIN own = 1 .. Len(own) BY <1>1, RulesTyped
<1>5. Longest \in Nat BY DEF E!EggAssumption
<1>6. \A i \in 1 .. Len(own) : own[i] \in E!ToSet(own) BY <1>4 DEF E!ToSet
<1>7. PICK n \in 1 .. Len(own) : r = own[n] BY <1>4 DEF E!ToSet
<1>8. /\ r \in Closing /\ ~E!Dropped(r) /\ E!EggRefuses(r, v)
      /\ \E k \in 1 .. Len(rules) : rules[k] = E!Bare(r)
  BY <1>3, <1>7
<1>9. \A i \in 1 .. Len(own) : E!IsPattern(own[i]) => ":" \notin E!ToSet(E!Argument(own[i])) BY <1>6
<1>10. E!IsPattern(r) => ":" \notin E!ToSet(E!Argument(r)) BY <1>7, <1>9
<1>11. DOMAIN rules = 1 .. Len(rules)
  <2> HIDE DEF rules
  <2> QED BY <1>3
<1>12. v = <<>> => <<"required">> \notin E!ToSet(rules) BY <1>1 DEF E!ValidateAgainstRules
<1> HIDE DEF own, text, rules, v
<1>13. CASE v = <<>>
  <2>1. Len(v) = 0 BY <1>13
  <2>2. r[1] = "required" BY <1>5, <1>8, <1>13, <2>1 DEF E!EggRefuses
  <2>3. ~E!IsPattern(r) BY <2>2 DEF E!IsPattern
  <2>4. r \in {<<"required">>, <<"max">>} /\ E!Bare(r) = r BY <1>8, <2>3, ClosingBare
  <2>5. r = <<"required">> BY <2>2, <2>4
  <2>6. <<"required">> \in E!ToSet(rules) BY <1>8, <1>11, <2>4, <2>5 DEF E!ToSet
  <2> QED BY <1>12, <1>13, <2>6
<1>14. CASE v # <<>>
  <2>1. ASSUME NEW q \in Closing, ~E!Dropped(q), E!IsPattern(q) => ":" \notin E!ToSet(E!Argument(q))
        PROVE  /\ E!Verdict(E!Bare(q), v) # "accepted"
               /\ E!Verdict(E!Bare(q), v) = "next" => ~E!EggRefuses(q, v)
    <3>1. CASE ~E!IsPattern(q)
      <4>1. q \in {<<"required">>, <<"max">>} /\ E!Bare(q) = q BY <2>1, <3>1, ClosingBare
      <4>2. E!Verdict(q, v) = IF q[1] = "max" /\ Len(v) > Longest THEN "refused" ELSE "next" BY <4>1, VerdictOfName
      <4> QED BY <1>14, <3>1, <4>1, <4>2 DEF E!EggRefuses
    <3>2. CASE E!IsPattern(q)
      <4> DEFINE p == E!Argument(q)
                 b == E!Bare(q)
      <4>1. p \in E!Pattern /\ b[1] = "regex:" /\ Tail(b) = p BY <2>1, <3>2, ClosingBare
      <4>2. ":" \notin E!ToSet(p) BY <2>1, <3>2
      <4>3. E!Verdict(b, v) = IF E!Matches(p, v) THEN "next" ELSE "refused" BY <4>1, <4>2, VerdictOfPattern
      <4>4. E!EggRefuses(q, v) => ~E!Matches(p, v)
        <5>1. q[1] = "regex:" BY <3>2 DEF E!IsPattern
        <5> QED BY <5>1 DEF E!EggRefuses
      <4> HIDE DEF p, b
      <4>5. E!Verdict(b, v) # "accepted" /\ (E!Verdict(b, v) = "next" => ~E!EggRefuses(q, v)) BY <4>3, <4>4
      <4> QED BY <4>5 DEF b
    <3> QED BY <3>1, <3>2
  <2>2. \A k \in 1 .. Len(rules) : E!Verdict(rules[k], v) # "accepted"
    <3> SUFFICES ASSUME NEW k \in 1 .. Len(rules) PROVE E!Verdict(rules[k], v) # "accepted"
      OBVIOUS
    <3>1. PICK i \in 1 .. Len(own) : rules[k] = E!Bare(own[i]) BY <1>3
    <3>2. own[i] \in Closing /\ ~E!Dropped(own[i]) /\ (E!IsPattern(own[i]) => ":" \notin E!ToSet(E!Argument(own[i])))
      BY <1>3, <1>9
    <3> QED BY <2>1, <3>1, <3>2
  <2>3. \A k \in 1 .. Len(rules) : E!Verdict(rules[k], v) = "next"
    <3>1. rules = E!Split(text) BY DEF rules
    <3>2. E!ValidateAgainstRules(text, v) BY <1>1
    <3> QED BY <1>3, <1>14, <2>2, <3>1, <3>2, NoneDecides
  <2>4. E!Verdict(E!Bare(r), v) = "next" BY <1>8, <2>3
  <2> QED BY <1>8, <1>10, <2>1, <2>4
<1> QED BY <1>13, <1>14

-----------------------------------------------------------------------------
(***************************************************************************)
(* The panel. Every part has its invariant, and a step is of one part.            *)
(***************************************************************************)
PanelInv ==
  /\ TypeOK /\ CredentialsInv /\ CatalogueInv /\ FilesInv /\ DiskInv /\ PlayersInv /\ CeilingsInv /\ UpdatesInv
  /\ ConfigInv /\ EggInv

\* The panel starts with every part as it begins.
LEMMA PanelStart == PanelInit => PanelInv
BY PanelAssumption, TypeInit, CredentialsStart, CatalogueStart, FilesStart, DiskStart, PlayersStart, CeilingsStart, UpdatesStart,
   ConfigStart, EggStart
   DEF PanelAssumption, PanelInit, PanelInv

\* A step of one part leaves the others as they are.
LEMMA PanelStep == PanelInv /\ [PanelNext]_all => PanelInv'
<1> SUFFICES ASSUME PanelInv, [PanelNext]_all PROVE PanelInv'
  OBVIOUS
<1>1. TypeOK' BY TypeStep DEF PanelInv, PanelNext, all, aVars, vars
<1>2. CredentialsInv'
  <2>1. N!Next \/ UNCHANGED nVars BY DEF PanelNext, all
  <2> QED BY <2>1, CredentialsStep, CredentialsStill, PanelAssumption DEF PanelInv, PanelAssumption
<1>3. CatalogueInv'
  <2>1. C!Next \/ UNCHANGED cVars BY DEF PanelNext, all
  <2> QED BY <2>1, CatalogueStep, CatalogueStill, PanelAssumption DEF PanelInv, PanelAssumption
<1>4. FilesInv'
  <2>1. F!Next \/ UNCHANGED fVars BY DEF PanelNext, all
  <2> QED BY <2>1, FilesStep, FilesStill, PanelAssumption DEF PanelInv, PanelAssumption
<1>5. DiskInv'
  <2>1. D!Next \/ UNCHANGED dVars BY DEF PanelNext, all
  <2> QED BY <2>1, DiskStep, DiskStill, PanelAssumption DEF PanelInv, PanelAssumption
<1>6. PlayersInv'
  <2>1. P!Next \/ UNCHANGED pVars BY DEF PanelNext, all
  <2> QED BY <2>1, PlayersStep, PlayersStill, PanelAssumption DEF PanelInv, PanelAssumption
<1>7. CeilingsInv'
  <2>1. W!Next \/ UNCHANGED wVars BY DEF PanelNext, all
  <2> QED BY <2>1, CeilingsStep, CeilingsStill, PanelAssumption DEF PanelInv, PanelAssumption
<1>8. UpdatesInv'
  <2>1. U!Next \/ UNCHANGED uVars BY DEF PanelNext, all
  <2> QED BY <2>1, UpdatesStep, UpdatesStill, PanelAssumption DEF PanelInv, PanelAssumption
<1>9. ConfigInv'
  <2>1. G!Next \/ UNCHANGED gVars BY DEF PanelNext, all
  <2> QED BY <2>1, ConfigStep, ConfigStill, PanelAssumption DEF PanelInv, PanelAssumption
<1>10. EggInv'
  <2>1. E!Next \/ UNCHANGED eVars BY DEF PanelNext, all
  <2> QED BY <2>1, EggStep, EggStill DEF PanelInv
<1> QED BY <1>1, <1>2, <1>3, <1>4, <1>5, <1>6, <1>7, <1>8, <1>9, <1>10 DEF PanelInv

\* The invariant holds in every state the panel reaches.
THEOREM PanelCorrect == PanelSpec => []PanelInv
<1>1. PanelInv /\ [PanelNext]_all => PanelInv'
  BY PanelStep
<1> QED
  BY PanelStart, <1>1, PTL DEF PanelSpec

\* Every part's state is of its type, and a listing read to its end has every file that
\* stayed, however the directory changed in between.
THEOREM ReadWholeHolds == PanelSpec => []ReadWhole
<1>1. FilesInv => F!ListedWhole BY DEF FilesInv, NothingSkipped, F!ListedWhole
<1>2. PanelInv => ReadWhole
  BY <1>1 DEF PanelInv, ReadWhole, CredentialsInv, CatalogueInv, FilesInv, DiskInv, PlayersInv, CeilingsInv, UpdatesInv, ConfigInv, EggInv
<1> QED
  BY PanelCorrect, <1>2, PTL

\* A request adds what was left when it began, a link gives its token once, and an owner
\* is told once in six hours, however many requests, installers and ticks there are.
THEOREM NoMoreThanGrantedHolds == PanelSpec => []NoMoreThanGranted
<1>1. CeilingsInv => W!OncePerCooldown BY DEF CeilingsInv, ToldUnderKey, W!OncePerCooldown
<1>2. PanelInv => NoMoreThanGranted
  BY <1>1, DiskBudgetKept, PanelAssumption DEF PanelInv, NoMoreThanGranted, CredentialsInv, PanelAssumption
<1> QED
  BY PanelCorrect, <1>2, PTL

\* No run of an update, however it crosses another, drops work of the host's, a game that
\* went down in order has in its files what people were told, and a game's own configuration
\* keeps what the panel was not asked for, whatever is in it and whatever is wanted.
THEOREM NothingLostHolds == PanelSpec => []NothingLost
<1>1. PanelInv => NothingLost BY ConfigVisits DEF PanelInv, NothingLost, UpdatesInv, PlayersInv
<1> QED
  BY PanelCorrect, <1>1, PTL

\* The validator tears no rule of a template, and a value the egg's own rules refuse is
\* refused on every server built on it, whatever the egg, its pattern and the value.
THEOREM TextsKeptHolds == PanelSpec => []TextsKept
<1>1. PanelInv => TextsKept BY NothingTorn, RefusalsStay, PanelAssumption DEF PanelInv, TextsKept, PanelAssumption
<1> QED
  BY PanelCorrect, <1>1, PTL

\* The claims of creations and of single ports, with every other write of the routes in
\* between, implement exclusive ownership.
THEOREM ExclusiveHolds == PanelSpec => Exclusive
<1>1. PanelInit => Ownership!Init
  BY DEF PanelInit, Init, Ownership!Init
<1>2. PanelInv /\ [PanelNext]_all => [Ownership!Next]_holder
  BY StepMaps DEF PanelInv, PanelNext, all, aVars, vars
<1> QED
  BY PanelCorrect, <1>1, <1>2, PTL DEF PanelSpec, Exclusive, Ownership!Spec

\* A creation claims all the ports it asked for or none (claimAllocations compares the
\* number of rows it claimed).
THEOREM BornWholeHolds == PanelSpec => BornWhole
<1>1. PanelInv /\ [PanelNext]_all =>
        [\A s \in Servers : life[s] = "unborn" /\ life'[s] = "live" =>
           \E r \in Requests :
             /\ req[r] # Idle /\ req[r].op = "create" /\ req[r].server = s
             /\ \A p \in {req[r].port} \cup req[r].more : holder'[p] = s
             /\ req[r].port \in primary']_vars
  BY BornStep DEF PanelInv, PanelNext, all, aVars, vars
<1> QED
  BY PanelCorrect, <1>1, PTL DEF PanelSpec, BornWhole

\* A token a node uses is revoked by an administrator, by the command line or with the
\* node, never by a page that is looked at or by an installer.
THEOREM InServiceStaysHolds == PanelSpec => InServiceStays
<1>1. PanelInv /\ [PanelNext]_all =>
        [\A t \in N!Number : token[t].used /\ token[t].stands /\ ~token'[t].stands
                               => N!RevokeToken(t) \/ N!RotateToken \/ N!DeleteNode]_(N!vars)
  <2>1. N!vars = nVars BY DEF N!vars, nVars
  <2>2. [PanelNext]_all => [N!Next]_nVars BY DEF PanelNext, all
  <2> QED BY <2>1, <2>2, ServiceStep DEF PanelInv, CredentialsInv
<1> QED
  BY PanelCorrect, <1>1, PTL DEF PanelSpec, InServiceStays, N!InServiceStays

\* No deletion takes away what a backup, a database or a server refers to.
THEOREM FindableHolds == PanelSpec => Findable
<1>1. PanelInv /\ [PanelNext]_all =>
        [\A u \in Use : refers[u] \in Storage \cup Host \cup Node => refers[u] \in there']_(C!vars)
  <2>1. [PanelNext]_all => [C!Next]_cVars BY DEF PanelNext, all
  <2> QED BY <2>1, FindableStep, PanelAssumption DEF PanelInv, PanelAssumption
<1> QED
  BY PanelCorrect, <1>1, PTL DEF PanelSpec, Findable, C!Findable

================================================================================
