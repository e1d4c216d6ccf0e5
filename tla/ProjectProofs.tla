----------------------------- MODULE ProjectProofs -----------------------------
(***************************************************************************)
(* Proofs about projects and their teams, for any users, environments,     *)
(* calls and failures.                                                     *)
(***************************************************************************)
EXTENDS ProjectAdmin, FiniteSetTheorems, TLAPS

CallRecords ==
    [kind : Kinds, pc : Steps, user : Users \cup {NoUser}, envs : SUBSET Environments,
     todo : SUBSET (Environments \cup Templates), made : SUBSET Environments]

Reporting ==
    {"createEnvironment", "deleteEnvironment", "createTemplates", "createApiToken",
     "deleteApiToken", "createInvite", "deleteInvite"}

Makers == {"createProject", "bootstrap", "createEnvironment"}

\* Which calls are at which steps, and what they are about.
KindOK(k) ==
    /\ k.pc = "checking" => k.kind \in Reporting \cup {"deleteMember"}
    /\ k.pc = "auditing" => k.kind \in Reporting
    /\ k.pc = "project" => k.kind \in {"createProject", "bootstrap"}
    /\ k.pc \in {"environments", "abandoned"} => k.kind \in Makers
    /\ k.pc = "templates" => k.kind = "createTemplates"
    /\ k.pc = "mailing" => k.kind = "createInvite"
    /\ k.pc \in {"listing", "leaving"} => k.kind = "deleteMember"
    /\ k.pc = "joining" => k.kind \in {"createProject", "addUser"}
    /\ k.kind \in Makers => k.todo \cup k.made \subseteq k.envs
    /\ k.kind = "createProject" => k.envs = Defaults
    /\ k.kind = "bootstrap" => k.envs = {Headless}
    /\ k.kind \in {"createProject", "addUser", "createInvite"} => k.user \in Users

\* A call that makes an environment has its project, and one that is past its
\* report has reported, if calls are reported, given whether there is a project and what was reported.
StateOK(k, p, told) ==
    /\ k.kind = "createEnvironment" \/ k.pc \in {"getEnvironment", "environments", "abandoned"}
          => p
    /\ (/\ settings.reports
        /\ k.kind \in Reporting
        /\ k.pc # "auditing"
        /\ ~ (k.kind = "deleteEnvironment" /\ k.pc = "checking"))
          => \A x \in k.envs \cup {k.user} : <<k.kind, x>> \in told

CallInv == \A c \in Calls : KindOK(call[c]) /\ StateOK(call[c], project, audited)

\* A member who is being removed keeps what is still to be taken, or was raced.
StrangerInv ==
    /\ \A u \in Users : \A e \in Environments : <<u, e>> \in access => u \in team \cup raced
    /\ \A c \in Calls : call[c].pc = "leaving" =>
          \A e \in Environments :
              <<call[c].user, e>> \in access => e \in call[c].todo \/ call[c].user \in raced

Signing == {c \in Calls : call[c].pc = "signing"}

\* Who signs in has seen no account, or counts as one.
AccountInv == accounts + Cardinality(Signing) <= Cardinality(Calls)

Inv == TypeOK /\ CallInv /\ ChangesAreAudited /\ StrangerInv /\ AccountInv

USE DEF Steps

LEMMA KindsAre ==
    Kinds = {"addUser", "deleteMember", "createProject", "bootstrap", "createEnvironment",
             "deleteEnvironment", "createTemplates", "createApiToken", "deleteApiToken",
             "createInvite", "deleteInvite", "login", "none"}
  BY DEF Kinds, FirstStep

LEMMA NoCallOK ==
    /\ NoCall \in CallRecords /\ KindOK(NoCall) /\ \A p, R : StateOK(NoCall, p, R)
    /\ NoCall.pc = "idle" /\ NoCall.kind = "none"
<1>1. NoCall.pc = "idle" /\ NoCall.kind = "none" /\ NoCall.user = NoUser /\ NoCall.envs = {}
      /\ NoCall.todo = {} /\ NoCall.made = {}
  BY DEF NoCall
<1>2. NoCall \in CallRecords
  <2>1. "none" \in Kinds
    BY KindsAre
  <2>2. {} \in SUBSET Environments /\ {} \in SUBSET (Environments \cup Templates)
    OBVIOUS
  <2> QED
    BY <2>1, <2>2 DEF NoCall, CallRecords
<1>3. KindOK(NoCall)
  BY <1>1 DEF KindOK, Reporting, Makers
<1>4. \A p, R : StateOK(NoCall, p, R)
  BY <1>1 DEF StateOK, Reporting
<1> QED
  BY <1>1, <1>2, <1>3, <1>4

LEMMA StateMono ==
    ASSUME NEW k, NEW p, NEW q, NEW R, NEW S, StateOK(k, p, R), p => q, R \subseteq S
    PROVE  StateOK(k, q, S)
  BY DEF StateOK

LEMMA CallsTyped == ASSUME TypeOK PROVE call \in [Calls -> CallRecords]
  BY DEF TypeOK, CallRecords

\* One call changes, to something that is right.
LEMMA OneCall ==
    ASSUME TypeOK, CallInv, NEW c \in Calls, NEW k \in CallRecords,
           call' = [call EXCEPT ![c] = k], KindOK(k), StateOK(k, project', audited'),
           project => project', audited \subseteq audited', UNCHANGED settings
    PROVE  /\ call' \in [Calls -> CallRecords]
           /\ call'[c] = k
           /\ \A d \in Calls \ {c} : call'[d] = call[d]
           /\ CallInv'
<1>1. call' \in [Calls -> CallRecords] /\ call'[c] = k /\ \A d \in Calls \ {c} : call'[d] = call[d]
  BY CallsTyped
<1>2. ASSUME NEW d \in Calls
      PROVE  KindOK(call'[d]) /\ StateOK(call'[d], project', audited')
  <2>1. CASE d = c
    BY <1>1, <2>1
  <2>2. CASE d # c
    <3>1. KindOK(call[d]) /\ StateOK(call[d], project, audited)
      BY DEF CallInv
    <3>2. StateOK(call[d], project', audited')
      BY <3>1, StateMono
    <3>3. call'[d] = call[d]
      BY <1>1, <2>2
    <3> QED
      BY <3>1, <3>2, <3>3
  <2> QED
    BY <2>1, <2>2
<1>3. CallInv'
  BY <1>2 DEF CallInv, KindOK, StateOK
<1> QED
  BY <1>1, <1>3

LEMMA SigningStep ==
    ASSUME AccountInv, accounts \in Nat, accounts' = accounts,
           \A d \in Calls : call'[d].pc = "signing" => call[d].pc = "signing"
    PROVE  AccountInv'
<1>1. Signing' \subseteq Signing /\ Signing \subseteq Calls
  BY DEF Signing
<1>2. IsFiniteSet(Signing) /\ Cardinality(Signing) \in Nat /\ Cardinality(Calls) \in Nat
  BY <1>1, AdminAssumption, FS_Subset, FS_CardinalityType
<1>3. Cardinality(Signing') <= Cardinality(Signing) /\ Cardinality(Signing') \in Nat
  BY <1>1, <1>2, FS_Subset, FS_CardinalityType
<1> QED
  BY <1>2, <1>3 DEF AccountInv

LEMMA LeavingStep ==
    ASSUME StrangerInv, UNCHANGED <<team, access, raced>>,
           \A d \in Calls : call'[d].pc = "leaving" => call'[d] = call[d]
    PROVE  StrangerInv'
  BY DEF StrangerInv

LEMMA AuditStep ==
    ASSUME ChangesAreAudited, audited \subseteq audited',
           UNCHANGED <<settings, environments, templates, inviteVars, undone>>
    PROVE  ChangesAreAudited'
<1>1. UNCHANGED <<environments, templates, invites, mails, undone>>
  BY DEF inviteVars
<1> QED
  BY <1>1 DEF ChangesAreAudited

\* A step that changes no row.
LEMMA LightStep ==
    ASSUME Inv, NEW c \in Calls, NEW k \in CallRecords, call' = [call EXCEPT ![c] = k],
           KindOK(k), StateOK(k, project', audited'), k.pc \notin {"signing", "leaving"},
           UNCHANGED <<settings, rowVars, accounts, undone, raced>>,
           project' \in BOOLEAN, project => project', audited \subseteq audited',
           failures' \in Nat, starts' \in 0..MaxStarts
    PROVE  Inv'
<1>0. UNCHANGED <<settings, environments, indices, tokens, templates, invites, mails, inviteVars,
                  team, access, accounts, undone, raced>>
  BY DEF rowVars, inviteVars
<1>1. /\ call' \in [Calls -> CallRecords] /\ CallInv' /\ call'[c] = k
      /\ \A d \in Calls \ {c} : call'[d] = call[d]
  <2>1. TypeOK /\ CallInv
    BY DEF Inv
  <2> QED
    BY <2>1, OneCall
<1>2. TypeOK'
  BY <1>0, <1>1 DEF Inv, TypeOK, CallRecords
<1>3. ChangesAreAudited'
  BY <1>0, AuditStep DEF Inv
<1>4. StrangerInv'
  BY <1>0, <1>1, LeavingStep DEF Inv
<1>5. AccountInv'
  BY <1>0, <1>1, SigningStep DEF Inv, TypeOK
<1> QED
  BY <1>1, <1>2, <1>3, <1>4, <1>5 DEF Inv


-----------------------------------------------------------------------------
(* What becomes of a call *)

\* It goes to a step, with something left to do.
LEMMA GotoIs ==
    ASSUME TypeOK, NEW c \in Calls, NEW pc \in Steps, Goto(c, pc)
    PROVE  \E k \in CallRecords :
              /\ call' = [call EXCEPT ![c] = k]
              /\ k.kind = call[c].kind /\ k.pc = pc /\ k.user = call[c].user
              /\ k.envs = call[c].envs /\ k.todo = call[c].todo /\ k.made = call[c].made
<1> DEFINE k == [call[c] EXCEPT !.pc = pc]
<1>1. call[c] \in CallRecords
  BY CallsTyped
<1>2. /\ k \in CallRecords
      /\ k.kind = call[c].kind /\ k.pc = pc /\ k.user = call[c].user
      /\ k.envs = call[c].envs /\ k.todo = call[c].todo /\ k.made = call[c].made
  BY <1>1 DEF CallRecords
<1>3. call' = [call EXCEPT ![c] = k]
  BY DEF Goto
<1> QED
  BY <1>2, <1>3

LEMMA GotoWithIs ==
    ASSUME TypeOK, NEW c \in Calls, NEW pc \in Steps,
           NEW T \in SUBSET (Environments \cup Templates), GotoWith(c, pc, T)
    PROVE  \E k \in CallRecords :
              /\ call' = [call EXCEPT ![c] = k]
              /\ k.kind = call[c].kind /\ k.pc = pc /\ k.user = call[c].user
              /\ k.envs = call[c].envs /\ k.todo = T /\ k.made = call[c].made
<1> DEFINE k == [call[c] EXCEPT !.pc = pc, !.todo = T]
<1>1. call[c] \in CallRecords
  BY CallsTyped
<1>2. /\ k \in CallRecords
      /\ k.kind = call[c].kind /\ k.pc = pc /\ k.user = call[c].user
      /\ k.envs = call[c].envs /\ k.todo = T /\ k.made = call[c].made
  BY <1>1 DEF CallRecords
<1>3. call' = [call EXCEPT ![c] = k]
  BY DEF GotoWith
<1> QED
  BY <1>2, <1>3

\* A part of it fails, and with it the whole but for what goes on beside it.
LEMMA ErrorIs ==
    ASSUME TypeOK, CallInv, NEW c \in Calls, NEW e, Error(c, e)
    PROVE  \E k \in CallRecords :
              /\ call' = [call EXCEPT ![c] = k]
              /\ KindOK(k) /\ StateOK(k, project, audited)
              /\ k.pc \notin {"signing", "leaving"}
<1>0. /\ call[c] \in CallRecords /\ KindOK(call[c]) /\ StateOK(call[c], project, audited)
      /\ call[c].todo \in SUBSET (Environments \cup Templates)
      /\ call[c].made \in SUBSET Environments
  BY CallsTyped DEF CallInv, CallRecords
<1>1. CASE SideBySide(c)
  <2> DEFINE pc == IF call[c].pc = "tokens" THEN "lateTokens" ELSE "abandoned"
             k == [call[c] EXCEPT !.pc = pc, !.todo = @ \ {e}, !.made = @ \ {e}]
  <2>1. call' = [call EXCEPT ![c] = k]
    BY <1>1 DEF Error
  <2>2. /\ k \in CallRecords
        /\ k.kind = call[c].kind /\ k.pc = pc /\ k.user = call[c].user
        /\ k.envs = call[c].envs /\ k.todo \subseteq call[c].todo /\ k.made \subseteq call[c].made
    BY <1>0 DEF CallRecords
  <2> HIDE DEF k
  <2>3. KindOK(k)
    BY <1>0, <1>1, <2>2 DEF KindOK, SideBySide, Makers, Reporting
  <2>4. StateOK(k, project, audited)
    BY <1>0, <1>1, <2>2 DEF StateOK, SideBySide, Reporting
  <2> QED
    BY <2>1, <2>2, <2>3, <2>4
<1>2. CASE ~ SideBySide(c) /\ call[c].kind = "bootstrap"
  <2> DEFINE k == [call[c] EXCEPT !.pc = "getProject", !.made = {}]
  <2>1. call' = [call EXCEPT ![c] = k]
    BY <1>2 DEF Error, Retry
  <2>2. /\ k \in CallRecords
        /\ k.kind = call[c].kind /\ k.pc = "getProject" /\ k.user = call[c].user
        /\ k.envs = call[c].envs /\ k.todo = call[c].todo /\ k.made = {}
    BY <1>0 DEF CallRecords
  <2> HIDE DEF k
  <2>3. KindOK(k)
    BY <1>0, <1>2, <2>2 DEF KindOK, Makers, Reporting
  <2>4. StateOK(k, project, audited)
    BY <1>0, <1>2, <2>2 DEF StateOK, Reporting
  <2> QED
    BY <2>1, <2>2, <2>3, <2>4
<1>3. CASE ~ SideBySide(c) /\ call[c].kind # "bootstrap"
  BY <1>3, NoCallOK DEF Error, Retry
<1> QED
  BY <1>1, <1>2, <1>3

LEMMA RefuseInv ==
    ASSUME Inv, NEW c \in Calls, NEW e, Refuse(c, e),
           UNCHANGED <<settings, project, rowVars, accounts, audited, undone, raced, starts>>
    PROVE  Inv'
<1>1. PICK k \in CallRecords :
          /\ call' = [call EXCEPT ![c] = k]
          /\ KindOK(k) /\ StateOK(k, project, audited)
          /\ k.pc \notin {"signing", "leaving"}
  BY ErrorIs DEF Inv, Refuse
<1>2. failures' \in Nat /\ starts' \in 0..MaxStarts /\ project' \in BOOLEAN
  BY DEF Inv, TypeOK, Refuse
<1>3. StateOK(k, project', audited') /\ audited \subseteq audited' /\ (project => project')
  BY <1>1
<1> QED
  BY <1>1, <1>2, <1>3, LightStep

\* A bootstrap that starts again and changes nothing else.
LEMMA RetryInv ==
    ASSUME Inv, NEW c \in Calls, call[c].kind = "bootstrap", Retry(c),
           UNCHANGED <<settings, project, rowVars, accounts, audited, undone, raced, failures,
                       starts>>
    PROVE  Inv'
<1>1. Error(c, Headless)
  BY DEF Error, SideBySide
<1>2. PICK k \in CallRecords :
          /\ call' = [call EXCEPT ![c] = k]
          /\ KindOK(k) /\ StateOK(k, project, audited)
          /\ k.pc \notin {"signing", "leaving"}
  BY <1>1, ErrorIs DEF Inv
<1>3. failures' \in Nat /\ starts' \in 0..MaxStarts /\ project' \in BOOLEAN
  BY DEF Inv, TypeOK
<1>4. StateOK(k, project', audited') /\ audited \subseteq audited' /\ (project => project')
  BY <1>2
<1> QED
  BY <1>2, <1>3, <1>4, LightStep

\* A call that ends and changes nothing else.
LEMMA EndInv ==
    ASSUME Inv, NEW c \in Calls, End(c),
           UNCHANGED <<settings, project, rowVars, accounts, audited, undone, raced, failures,
                       starts>>
    PROVE  Inv'
<1>1. call' = [call EXCEPT ![c] = NoCall]
  BY DEF End
<1>2. failures' \in Nat /\ starts' \in 0..MaxStarts /\ project' \in BOOLEAN
  BY DEF Inv, TypeOK
<1> QED
  BY <1>1, <1>2, NoCallOK, LightStep

\* A call that goes on and changes nothing else.
LEMMA GotoInv ==
    ASSUME Inv, NEW c \in Calls, NEW pc \in Steps \ {"signing", "leaving"}, Goto(c, pc),
           \A k : (/\ k.kind = call[c].kind /\ k.pc = pc /\ k.user = call[c].user
                   /\ k.envs = call[c].envs /\ k.todo = call[c].todo
                   /\ k.made = call[c].made)
                  => KindOK(k) /\ StateOK(k, project', audited'),
           UNCHANGED <<settings, rowVars, accounts, undone, raced, starts>>,
           project' \in BOOLEAN, project => project', audited \subseteq audited', failures' \in Nat
    PROVE  Inv'
<1>1. PICK k \in CallRecords :
          /\ call' = [call EXCEPT ![c] = k]
          /\ k.kind = call[c].kind /\ k.pc = pc /\ k.user = call[c].user
          /\ k.envs = call[c].envs /\ k.todo = call[c].todo /\ k.made = call[c].made
  BY GotoIs DEF Inv
<1>2. KindOK(k) /\ StateOK(k, project', audited') /\ k.pc \notin {"signing", "leaving"}
  BY <1>1
<1>3. starts' \in 0..MaxStarts
  BY DEF Inv, TypeOK
<1> QED
  BY <1>1, <1>2, <1>3, LightStep


LEMMA GotoWithInv ==
    ASSUME Inv, NEW c \in Calls, NEW pc \in Steps \ {"signing", "leaving"},
           NEW T \in SUBSET (Environments \cup Templates), GotoWith(c, pc, T),
           \A k : (/\ k.kind = call[c].kind /\ k.pc = pc /\ k.user = call[c].user
                   /\ k.envs = call[c].envs /\ k.todo = T /\ k.made = call[c].made)
                  => KindOK(k) /\ StateOK(k, project, audited),
           UNCHANGED <<settings, project, rowVars, accounts, audited, undone, raced, failures,
                       starts>>
    PROVE  Inv'
<1>1. PICK k \in CallRecords :
          /\ call' = [call EXCEPT ![c] = k]
          /\ k.kind = call[c].kind /\ k.pc = pc /\ k.user = call[c].user
          /\ k.envs = call[c].envs /\ k.todo = T /\ k.made = call[c].made
  BY GotoWithIs DEF Inv
<1>2. KindOK(k) /\ StateOK(k, project', audited') /\ k.pc \notin {"signing", "leaving"}
  BY <1>1
<1>3. starts' \in 0..MaxStarts /\ failures' \in Nat /\ project' \in BOOLEAN
  BY DEF Inv, TypeOK
<1> QED
  BY <1>1, <1>2, <1>3, LightStep

LEMMA StartInv ==
    ASSUME Inv, NEW c \in Calls, NEW kind \in Kinds, NEW user \in Users \cup {NoUser},
           NEW envs \in SUBSET Environments, NEW todo \in SUBSET (Environments \cup Templates),
           Start(c, kind, user, envs, todo), FirstStep[kind] \in Steps \ {"signing", "leaving"},
           \A k : (/\ k.kind = kind /\ k.pc = FirstStep[kind] /\ k.user = user
                   /\ k.envs = envs /\ k.todo = todo /\ k.made = {})
                  => KindOK(k) /\ StateOK(k, project, audited)
    PROVE  Inv'
<1> DEFINE k == [kind |-> kind, pc |-> FirstStep[kind], user |-> user, envs |-> envs,
                 todo |-> todo, made |-> {}]
<1>1. call' = [call EXCEPT ![c] = k]
  BY DEF Start
<1>2. /\ k.kind = kind /\ k.pc = FirstStep[kind] /\ k.user = user
      /\ k.envs = envs /\ k.todo = todo /\ k.made = {}
  OBVIOUS
<1>3. k \in CallRecords
  <2>1. {} \in SUBSET Environments
    OBVIOUS
  <2> QED
    BY <2>1 DEF CallRecords
<1> HIDE DEF k
<1>4. UNCHANGED <<settings, project, rowVars, accounts, audited, undone, raced, failures>>
  BY DEF Start
<1>5. KindOK(k) /\ StateOK(k, project', audited') /\ k.pc \notin {"signing", "leaving"}
  BY <1>2, <1>4
<1>6. starts' \in 0..MaxStarts /\ failures' \in Nat /\ project' \in BOOLEAN
  BY <1>4, AdminAssumption DEF Inv, TypeOK, Start
<1> QED
  BY <1>1, <1>3, <1>4, <1>5, <1>6, LightStep

-----------------------------------------------------------------------------
(* Calls begin *)

LEMMA FirstSteps ==
    /\ FirstStep["addUser"] = "joining" /\ FirstStep["deleteMember"] = "checking"
    /\ FirstStep["createProject"] = "project" /\ FirstStep["bootstrap"] = "getProject"
    /\ FirstStep["createEnvironment"] = "auditing" /\ FirstStep["deleteEnvironment"] = "checking"
    /\ FirstStep["createTemplates"] = "auditing" /\ FirstStep["createApiToken"] = "auditing"
    /\ FirstStep["deleteApiToken"] = "auditing" /\ FirstStep["createInvite"] = "auditing"
    /\ FirstStep["deleteInvite"] = "auditing" /\ FirstStep["login"] = "getUser"
  BY DEF FirstStep

LEMMA StartCallInv ==
    ASSUME Inv, NEW c \in Calls, StartCall(c)
    PROVE  Inv'
<1> USE KindsAre
<1>0. /\ {} \in SUBSET Environments /\ {} \in SUBSET (Environments \cup Templates)
      /\ Templates \in SUBSET (Environments \cup Templates)
      /\ NoUser \in Users \cup {NoUser} /\ Headless \in Environments
      /\ Defaults \in SUBSET Environments /\ Defaults \in SUBSET (Environments \cup Templates)
      /\ \A e \in Environments : {e} \in SUBSET Environments
                                 /\ {e} \in SUBSET (Environments \cup Templates)
  BY AdminAssumption
<1>1. CASE Bootstrap(c)
  <2>1. Start(c, "bootstrap", NoUser, {Headless}, {Headless})
    BY <1>1 DEF Bootstrap
  <2>2. ASSUME NEW k, k.kind = "bootstrap", k.pc = FirstStep["bootstrap"], k.user = NoUser,
               k.envs = {Headless}, k.todo = {Headless}, k.made = {}
        PROVE  KindOK(k) /\ StateOK(k, project, audited)
    BY <2>2, FirstSteps DEF KindOK, StateOK, Makers, Reporting
  <2>3. FirstStep["bootstrap"] \in Steps \ {"signing", "leaving"} /\ "bootstrap" \in Kinds
    BY FirstSteps
  <2> QED
    BY <1>0, <2>1, <2>2, <2>3, StartInv
<1>2. ASSUME NEW u \in Users, CreateProject(c, u)
     PROVE  Inv'
  <2>1. Start(c, "createProject", u, Defaults, Defaults)
    BY <1>2 DEF CreateProject
  <2>2. ASSUME NEW k, k.kind = "createProject", k.pc = FirstStep["createProject"], k.user = u,
               k.envs = Defaults, k.todo = Defaults, k.made = {}
        PROVE  KindOK(k) /\ StateOK(k, project, audited)
    BY <2>2, FirstSteps DEF KindOK, StateOK, Makers, Reporting
  <2>3. FirstStep["createProject"] \in Steps \ {"signing", "leaving"} /\ "createProject" \in Kinds
    BY FirstSteps
  <2> QED
    BY <1>0, <2>1, <2>2, <2>3, StartInv
<1>3. ASSUME NEW u \in Users, AddUser(c, u)
     PROVE  Inv'
  <2>1. Start(c, "addUser", u, {}, {})
    BY <1>3 DEF AddUser
  <2>2. ASSUME NEW k, k.kind = "addUser", k.pc = FirstStep["addUser"], k.user = u,
               k.envs = {}, k.todo = {}, k.made = {}
        PROVE  KindOK(k) /\ StateOK(k, project, audited)
    BY <2>2, FirstSteps DEF KindOK, StateOK, Makers, Reporting
  <2>3. FirstStep["addUser"] \in Steps \ {"signing", "leaving"} /\ "addUser" \in Kinds
    BY FirstSteps
  <2> QED
    BY <1>0, <2>1, <2>2, <2>3, StartInv
<1>4. ASSUME NEW u \in Users, DeleteMember(c, u)
     PROVE  Inv'
  <2>1. Start(c, "deleteMember", u, {}, {})
    BY <1>4 DEF DeleteMember
  <2>2. ASSUME NEW k, k.kind = "deleteMember", k.pc = FirstStep["deleteMember"], k.user = u,
               k.envs = {}, k.todo = {}, k.made = {}
        PROVE  KindOK(k) /\ StateOK(k, project, audited)
    BY <2>2, FirstSteps DEF KindOK, StateOK, Makers, Reporting
  <2>3. FirstStep["deleteMember"] \in Steps \ {"signing", "leaving"} /\ "deleteMember" \in Kinds
    BY FirstSteps
  <2> QED
    BY <1>0, <2>1, <2>2, <2>3, StartInv
<1>5. ASSUME NEW e \in Environments, CreateEnvironment(c, e)
     PROVE  Inv'
  <2>1. Start(c, "createEnvironment", NoUser, {e}, {e}) /\ project
    BY <1>5 DEF CreateEnvironment, Known
  <2>2. ASSUME NEW k, k.kind = "createEnvironment", k.pc = FirstStep["createEnvironment"], k.user = NoUser,
               k.envs = {e}, k.todo = {e}, k.made = {}
        PROVE  KindOK(k) /\ StateOK(k, project, audited)
    BY <2>1, <2>2, FirstSteps DEF KindOK, StateOK, Makers, Reporting
  <2>3. FirstStep["createEnvironment"] \in Steps \ {"signing", "leaving"} /\ "createEnvironment" \in Kinds
    BY FirstSteps
  <2> QED
    BY <1>0, <2>1, <2>2, <2>3, StartInv
<1>6. ASSUME NEW e \in Environments, DeleteEnvironment(c, e)
     PROVE  Inv'
  <2>1. Start(c, "deleteEnvironment", NoUser, {e}, {e})
    BY <1>6 DEF DeleteEnvironment
  <2>2. ASSUME NEW k, k.kind = "deleteEnvironment", k.pc = FirstStep["deleteEnvironment"], k.user = NoUser,
               k.envs = {e}, k.todo = {e}, k.made = {}
        PROVE  KindOK(k) /\ StateOK(k, project, audited)
    BY <2>2, FirstSteps DEF KindOK, StateOK, Makers, Reporting
  <2>3. FirstStep["deleteEnvironment"] \in Steps \ {"signing", "leaving"} /\ "deleteEnvironment" \in Kinds
    BY FirstSteps
  <2> QED
    BY <1>0, <2>1, <2>2, <2>3, StartInv
<1>7. ASSUME NEW e \in Environments, CreateApiToken(c, e)
     PROVE  Inv'
  <2>1. Start(c, "createApiToken", NoUser, {e}, {})
    BY <1>7 DEF CreateApiToken
  <2>2. ASSUME NEW k, k.kind = "createApiToken", k.pc = FirstStep["createApiToken"], k.user = NoUser,
               k.envs = {e}, k.todo = {}, k.made = {}
        PROVE  KindOK(k) /\ StateOK(k, project, audited)
    BY <2>2, FirstSteps DEF KindOK, StateOK, Makers, Reporting
  <2>3. FirstStep["createApiToken"] \in Steps \ {"signing", "leaving"} /\ "createApiToken" \in Kinds
    BY FirstSteps
  <2> QED
    BY <1>0, <2>1, <2>2, <2>3, StartInv
<1>8. ASSUME NEW e \in Environments, DeleteApiToken(c, e)
     PROVE  Inv'
  <2>1. Start(c, "deleteApiToken", NoUser, {e}, {})
    BY <1>8 DEF DeleteApiToken
  <2>2. ASSUME NEW k, k.kind = "deleteApiToken", k.pc = FirstStep["deleteApiToken"], k.user = NoUser,
               k.envs = {e}, k.todo = {}, k.made = {}
        PROVE  KindOK(k) /\ StateOK(k, project, audited)
    BY <2>2, FirstSteps DEF KindOK, StateOK, Makers, Reporting
  <2>3. FirstStep["deleteApiToken"] \in Steps \ {"signing", "leaving"} /\ "deleteApiToken" \in Kinds
    BY FirstSteps
  <2> QED
    BY <1>0, <2>1, <2>2, <2>3, StartInv
<1>9. ASSUME NEW e \in Environments, CreateTemplates(c, e)
     PROVE  Inv'
  <2>1. Start(c, "createTemplates", NoUser, {e}, Templates)
    BY <1>9 DEF CreateTemplates
  <2>2. ASSUME NEW k, k.kind = "createTemplates", k.pc = FirstStep["createTemplates"], k.user = NoUser,
               k.envs = {e}, k.todo = Templates, k.made = {}
        PROVE  KindOK(k) /\ StateOK(k, project, audited)
    BY <2>2, FirstSteps DEF KindOK, StateOK, Makers, Reporting
  <2>3. FirstStep["createTemplates"] \in Steps \ {"signing", "leaving"} /\ "createTemplates" \in Kinds
    BY FirstSteps
  <2> QED
    BY <1>0, <2>1, <2>2, <2>3, StartInv
<1>10. CASE Login(c)
  <2>1. Start(c, "login", NoUser, {}, {})
    BY <1>10 DEF Login
  <2>2. ASSUME NEW k, k.kind = "login", k.pc = FirstStep["login"], k.user = NoUser,
               k.envs = {}, k.todo = {}, k.made = {}
        PROVE  KindOK(k) /\ StateOK(k, project, audited)
    BY <2>2, FirstSteps DEF KindOK, StateOK, Makers, Reporting
  <2>3. FirstStep["login"] \in Steps \ {"signing", "leaving"} /\ "login" \in Kinds
    BY FirstSteps
  <2> QED
    BY <1>0, <2>1, <2>2, <2>3, StartInv
<1>11. ASSUME NEW u \in Users, CreateInvite(c, u)
      PROVE  Inv'
  <2>1. Start(c, "createInvite", u, {}, {})
    BY <1>11 DEF CreateInvite
  <2>2. ASSUME NEW k, k.kind = "createInvite", k.pc = FirstStep["createInvite"], k.user = u,
               k.envs = {}, k.todo = {}, k.made = {}
        PROVE  KindOK(k) /\ StateOK(k, project, audited)
    BY <2>2, FirstSteps DEF KindOK, StateOK, Makers, Reporting
  <2>3. FirstStep["createInvite"] \in Steps \ {"signing", "leaving"} /\ "createInvite" \in Kinds
    BY FirstSteps
  <2> QED
    BY <1>0, <2>1, <2>2, <2>3, StartInv
<1>12. ASSUME NEW u \in Users, DeleteInvite(c, u)
      PROVE  Inv'
  <2>1. Start(c, "deleteInvite", u, {}, {})
    BY <1>12 DEF DeleteInvite
  <2>2. ASSUME NEW k, k.kind = "deleteInvite", k.pc = FirstStep["deleteInvite"], k.user = u,
               k.envs = {}, k.todo = {}, k.made = {}
        PROVE  KindOK(k) /\ StateOK(k, project, audited)
    BY <2>2, FirstSteps DEF KindOK, StateOK, Makers, Reporting
  <2>3. FirstStep["deleteInvite"] \in Steps \ {"signing", "leaving"} /\ "deleteInvite" \in Kinds
    BY FirstSteps
  <2> QED
    BY <1>0, <2>1, <2>2, <2>3, StartInv
<1> QED
  BY <1>1, <1>2, <1>3, <1>4, <1>5, <1>6, <1>7, <1>8, <1>9, <1>10, <1>11, <1>12
  DEF StartCall

-----------------------------------------------------------------------------
(* Steps that change no row *)

LEMMA FailInv ==
    ASSUME Inv, NEW c \in Calls, Fail(c)
    PROVE  Inv'
  BY RefuseInv DEF Fail

\* What is known of a call.
LEMMA Known1 ==
    ASSUME Inv, NEW c \in Calls
    PROVE  /\ call[c] \in CallRecords
           /\ KindOK(call[c]) /\ StateOK(call[c], project, audited)
           /\ project \in BOOLEAN /\ failures \in Nat
           /\ call[c].todo \in SUBSET (Environments \cup Templates)
           /\ call[c].made \in SUBSET Environments /\ call[c].envs \in SUBSET Environments
<1>1. TypeOK /\ CallInv
  BY DEF Inv
<1>2. call[c] \in CallRecords
  BY <1>1, CallsTyped
<1> QED
  BY <1>1, <1>2 DEF CallInv, TypeOK, CallRecords

LEMMA AuditEventInv ==
    ASSUME Inv, NEW c \in Calls, AuditEvent(c)
    PROVE  Inv'
<1> DEFINE pc == IF call[c].kind = "deleteEnvironment" THEN "deleting" ELSE "checking"
<1>1. /\ call[c].pc = "auditing" /\ call[c].kind \in Reporting
      /\ audited' = IF settings.reports
                    THEN audited \cup ({call[c].kind} \X (call[c].envs \cup {call[c].user}))
                    ELSE audited
      /\ Goto(c, pc)
      /\ UNCHANGED <<settings, project, rowVars, accounts, undone, raced, failures, starts>>
  BY Known1 DEF AuditEvent, KindOK
<1>2. pc \in Steps \ {"signing", "leaving"}
  OBVIOUS
<1>3. ASSUME NEW k,
             k.kind = call[c].kind, k.pc = pc, k.user = call[c].user,
             k.envs = call[c].envs, k.todo = call[c].todo, k.made = call[c].made
      PROVE  KindOK(k) /\ StateOK(k, project', audited')
  <2>1. settings.reports => \A x \in k.envs \cup {k.user} : <<k.kind, x>> \in audited'
    BY <1>1, <1>3
  <2>2. KindOK(k)
    BY <1>1, <1>3, Known1 DEF KindOK, Reporting, Makers
  <2>3. StateOK(k, project', audited')
    BY <1>1, <1>3, <2>1, Known1 DEF StateOK, Reporting
  <2> QED
    BY <2>2, <2>3
<1>4. audited \subseteq audited' /\ project' \in BOOLEAN /\ failures' \in Nat
      /\ (project => project')
  BY <1>1, Known1
<1> HIDE DEF pc
<1> QED
  BY <1>1, <1>2, <1>3, <1>4, GotoInv

LEMMA AfterChecks ==
    /\ AfterCheck["deleteMember"] = "listing" /\ AfterCheck["createEnvironment"] = "environments"
    /\ AfterCheck["deleteEnvironment"] = "auditing" /\ AfterCheck["createTemplates"] = "templates"
    /\ AfterCheck["createApiToken"] = "token" /\ AfterCheck["deleteApiToken"] = "token"
    /\ AfterCheck["createInvite"] = "invite" /\ AfterCheck["deleteInvite"] = "invite"
  BY DEF AfterCheck

LEMMA CheckAccessInv ==
    ASSUME Inv, NEW c \in Calls, CheckAccess(c)
    PROVE  Inv'
<1> DEFINE pc == AfterCheck[call[c].kind]
<1>1. /\ call[c].pc = "checking" /\ call[c].kind \in Reporting \cup {"deleteMember"}
      /\ UNCHANGED <<settings, project, rowVars, accounts, audited, undone, raced, failures,
                     starts>>
  BY Known1 DEF CheckAccess, KindOK
<1>2. CASE Goto(c, pc)
  <2>1. pc \in Steps \ {"signing", "leaving"}
    BY <1>1, AfterChecks DEF Reporting
  <2>2. ASSUME NEW k,
               k.kind = call[c].kind, k.pc = pc, k.user = call[c].user,
               k.envs = call[c].envs, k.todo = call[c].todo, k.made = call[c].made
        PROVE  KindOK(k) /\ StateOK(k, project', audited')
    <3>1. KindOK(k)
      BY <1>1, <2>2, Known1, AfterChecks DEF KindOK, Reporting, Makers
    <3>2. StateOK(k, project', audited')
      BY <1>1, <2>2, Known1, AfterChecks DEF StateOK, Reporting
    <3> QED
      BY <3>1, <3>2
  <2>3. audited \subseteq audited' /\ project' \in BOOLEAN /\ failures' \in Nat
        /\ (project => project')
    BY <1>1, Known1
  <2> HIDE DEF pc
  <2> QED
    BY <1>1, <1>2, <2>1, <2>2, <2>3, GotoInv
<1>3. CASE End(c)
  BY <1>1, <1>3, EndInv
<1> QED
  BY <1>2, <1>3 DEF CheckAccess


LEMMA GetProjectInv ==
    ASSUME Inv, NEW c \in Calls, GetProject(c)
    PROVE  Inv'
<1> DEFINE pc == IF project THEN "getEnvironment" ELSE "project"
<1>1. /\ call[c].pc = "getProject" /\ call[c].kind = "bootstrap" /\ Goto(c, pc)
      /\ UNCHANGED <<settings, project, rowVars, accounts, audited, undone, raced, failures,
                     starts>>
  BY DEF GetProject, At
<1>2. pc \in Steps \ {"signing", "leaving"}
  OBVIOUS
<1>3. ASSUME NEW k,
             k.kind = call[c].kind, k.pc = pc, k.user = call[c].user,
             k.envs = call[c].envs, k.todo = call[c].todo, k.made = call[c].made
      PROVE  KindOK(k) /\ StateOK(k, project', audited')
  BY <1>1, <1>3, Known1 DEF KindOK, StateOK, Reporting, Makers
<1>4. audited \subseteq audited' /\ project' \in BOOLEAN /\ failures' \in Nat
      /\ (project => project')
  BY <1>1, Known1
<1> HIDE DEF pc
<1> QED
  BY <1>1, <1>2, <1>3, <1>4, GotoInv

LEMMA InsertProjectInv ==
    ASSUME Inv, NEW c \in Calls, InsertProject(c)
    PROVE  Inv'
<1> DEFINE pc == IF call[c].kind = "bootstrap" THEN "getEnvironment" ELSE "environments"
<1>1. /\ call[c].pc = "project" /\ call[c].kind \in {"createProject", "bootstrap"}
      /\ UNCHANGED <<settings, rowVars, accounts, audited, undone, raced, starts>>
  BY Known1 DEF InsertProject, KindOK
<1>2. CASE project
  BY <1>1, <1>2, RefuseInv DEF InsertProject
<1>3. CASE ~ project
  <2>1. project' = TRUE /\ Goto(c, pc) /\ failures' = failures
    BY <1>3 DEF InsertProject
  <2>2. pc \in Steps \ {"signing", "leaving"}
    OBVIOUS
  <2>3. ASSUME NEW k,
               k.kind = call[c].kind, k.pc = pc, k.user = call[c].user,
               k.envs = call[c].envs, k.todo = call[c].todo, k.made = call[c].made
        PROVE  KindOK(k) /\ StateOK(k, project', audited')
    BY <1>1, <2>1, <2>3, Known1 DEF KindOK, StateOK, Reporting, Makers
  <2>4. audited \subseteq audited' /\ project' \in BOOLEAN /\ failures' \in Nat
        /\ (project => project')
    BY <1>1, <2>1, Known1
  <2> HIDE DEF pc
  <2> QED
    BY <1>1, <2>1, <2>2, <2>3, <2>4, GotoInv
<1> QED
  BY <1>2, <1>3

LEMMA GetEnvironmentInv ==
    ASSUME Inv, NEW c \in Calls, GetEnvironment(c)
    PROVE  Inv'
<1>1. /\ call[c].pc = "getEnvironment" /\ call[c].kind = "bootstrap"
      /\ UNCHANGED <<settings, project, rowVars, accounts, audited, undone, raced, failures,
                     starts>>
      /\ {Headless} \in SUBSET (Environments \cup Templates)
      /\ audited \subseteq audited' /\ project' \in BOOLEAN /\ failures' \in Nat
      /\ (project => project')
  BY Known1, AdminAssumption DEF GetEnvironment, At
<1>2. CASE Goto(c, "getToken")
  <2>1. \A k : (/\ k.kind = call[c].kind /\ k.pc = "getToken" /\ k.user = call[c].user
                /\ k.envs = call[c].envs /\ k.todo = call[c].todo /\ k.made = call[c].made)
               => KindOK(k) /\ StateOK(k, project', audited')
    BY <1>1, Known1 DEF KindOK, StateOK, Reporting, Makers
  <2> QED
    BY <1>1, <1>2, <2>1, GotoInv
<1>3. CASE GotoWith(c, "environments", {Headless})
  <2>1. \A k : (/\ k.kind = call[c].kind /\ k.pc = "environments" /\ k.user = call[c].user
                /\ k.envs = call[c].envs /\ k.todo = {Headless} /\ k.made = call[c].made)
               => KindOK(k) /\ StateOK(k, project, audited)
    BY <1>1, Known1 DEF KindOK, StateOK, Reporting, Makers
  <2> QED
    BY <1>1, <1>3, <2>1, GotoWithInv
<1>4. CASE Retry(c)
  BY <1>1, <1>4, RetryInv
<1> QED
  BY <1>2, <1>3, <1>4 DEF GetEnvironment

LEMMA GetTokenInv ==
    ASSUME Inv, NEW c \in Calls, GetToken(c)
    PROVE  Inv'
<1>1. /\ call[c].pc = "getToken" /\ call[c].kind = "bootstrap"
      /\ UNCHANGED <<settings, project, rowVars, accounts, audited, undone, raced, failures,
                     starts>>
      /\ {Headless} \in SUBSET (Environments \cup Templates)
  BY Known1, AdminAssumption DEF GetToken, At
<1>2. CASE End(c)
  BY <1>1, <1>2, EndInv
<1>3. CASE GotoWith(c, "tokens", {Headless})
  <2>1. \A k : (/\ k.kind = call[c].kind /\ k.pc = "tokens" /\ k.user = call[c].user
                /\ k.envs = call[c].envs /\ k.todo = {Headless} /\ k.made = call[c].made)
               => KindOK(k) /\ StateOK(k, project, audited)
    BY <1>1, Known1 DEF KindOK, StateOK, Reporting, Makers
  <2> QED
    BY <1>1, <1>3, <2>1, GotoWithInv
<1>4. CASE Retry(c)
  BY <1>1, <1>4, RetryInv
<1> QED
  BY <1>2, <1>3, <1>4 DEF GetToken

LEMMA AbandonedInv ==
    ASSUME Inv, NEW c \in Calls, Abandoned(c)
    PROVE  Inv'
  BY EndInv DEF Abandoned

LEMMA CreateAdminTokenInv ==
    ASSUME Inv, NEW c \in Calls, CreateAdminToken(c)
    PROVE  Inv'
  BY EndInv DEF CreateAdminToken

LEMMA GetUserInv ==
    ASSUME Inv, NEW c \in Calls, GetUser(c)
    PROVE  Inv'
<1> DEFINE pc == IF accounts > 0 THEN "adminToken" ELSE "counting"
<1>1. /\ call[c].pc = "getUser" /\ Goto(c, pc)
      /\ UNCHANGED <<settings, project, rowVars, accounts, audited, undone, raced, failures,
                     starts>>
      /\ audited \subseteq audited' /\ project' \in BOOLEAN /\ failures' \in Nat
      /\ (project => project')
  BY Known1 DEF GetUser
<1>2. pc \in Steps \ {"signing", "leaving"}
  OBVIOUS
<1>3. ASSUME NEW k,
             k.kind = call[c].kind, k.pc = pc, k.user = call[c].user,
             k.envs = call[c].envs, k.todo = call[c].todo, k.made = call[c].made
      PROVE  KindOK(k) /\ StateOK(k, project', audited')
  BY <1>1, <1>3, Known1 DEF KindOK, StateOK, Reporting, Makers
<1> HIDE DEF pc
<1> QED
  BY <1>1, <1>2, <1>3, GotoInv

-----------------------------------------------------------------------------
(* Signing in *)

\* The steps after which a call is about to insert an account, or has.
LEMMA SignInv ==
    ASSUME Inv, NEW c \in Calls, NEW pc \in {"signing", "adminToken"}, Goto(c, pc),
           call[c].pc \in {"counting", "signing"},
           UNCHANGED <<settings, project, rowVars, audited, undone, raced, failures, starts>>,
           accounts' \in Nat, AccountInv'
    PROVE  Inv'
<1>1. UNCHANGED <<settings, project, environments, indices, tokens, templates, invites, mails,
                  inviteVars, team, access, audited, undone, raced, failures, starts>>
  BY DEF rowVars, inviteVars
<1>2. PICK k \in CallRecords :
          /\ call' = [call EXCEPT ![c] = k]
          /\ k.kind = call[c].kind /\ k.pc = pc /\ k.user = call[c].user
          /\ k.envs = call[c].envs /\ k.todo = call[c].todo /\ k.made = call[c].made
  BY GotoIs DEF Inv
<1>3. KindOK(k)
  BY <1>2, Known1 DEF KindOK
<1>4. StateOK(k, project', audited')
  BY <1>1, <1>2, Known1 DEF StateOK
<1>5. /\ call' \in [Calls -> CallRecords] /\ CallInv' /\ call'[c] = k
      /\ \A d \in Calls \ {c} : call'[d] = call[d]
  <2>1. TypeOK /\ CallInv /\ audited \subseteq audited' /\ (project => project')
    BY <1>1 DEF Inv
  <2> QED
    BY <2>1, <1>2, <1>3, <1>4, OneCall
<1>6. TypeOK'
  BY <1>1, <1>5 DEF Inv, TypeOK, CallRecords
<1>7. ChangesAreAudited'
  BY <1>1, AuditStep DEF Inv
<1>8. StrangerInv'
  BY <1>1, <1>2, <1>5, LeavingStep DEF Inv
<1> QED
  BY <1>5, <1>6, <1>7, <1>8 DEF Inv

LEMMA CountUsersInv ==
    ASSUME Inv, NEW c \in Calls, CountUsers(c)
    PROVE  Inv'
<1>1. /\ call[c].pc = "counting"
      /\ UNCHANGED <<settings, project, rowVars, accounts, audited, undone, raced, starts>>
  BY DEF CountUsers
<1>2. CASE accounts > 0
  BY <1>1, <1>2, RefuseInv DEF CountUsers
<1>3. CASE ~ (accounts > 0)
  <2>1. accounts = 0 /\ accounts' = 0
    BY <1>1, <1>3 DEF Inv, TypeOK
  <2>2. Cardinality(Signing') <= Cardinality(Calls) /\ Cardinality(Signing') \in Nat
    <3>1. Signing' \subseteq Calls
      BY DEF Signing
    <3> QED
      BY <3>1, AdminAssumption, FS_Subset, FS_CardinalityType
  <2>3. AccountInv'
    BY <2>1, <2>2, AdminAssumption, FS_CardinalityType DEF AccountInv
  <2>4. Goto(c, "signing") /\ failures' = failures /\ accounts' \in Nat
    BY <1>3, <2>1 DEF CountUsers
  <2> QED
    BY <1>1, <2>3, <2>4, SignInv
<1> QED
  BY <1>2, <1>3

LEMMA InsertUserInv ==
    ASSUME Inv, NEW c \in Calls, InsertUser(c)
    PROVE  Inv'
<1>1. /\ call[c].pc = "signing" /\ accounts' = accounts + 1 /\ Goto(c, "adminToken")
      /\ UNCHANGED <<settings, project, rowVars, audited, undone, raced, failures, starts>>
      /\ accounts \in Nat
  BY DEF InsertUser, Inv, TypeOK
<1>2. Signing' = Signing \ {c} /\ c \in Signing /\ Signing \subseteq Calls
  <2>1. call \in [Calls -> CallRecords]
    BY CallsTyped DEF Inv
  <2>2. /\ call'[c].pc = "adminToken"
        /\ \A d \in Calls \ {c} : call'[d] = call[d]
    BY <1>1, <2>1 DEF Goto, CallRecords
  <2> QED
    BY <1>1, <2>2 DEF Signing
<1>3. /\ Cardinality(Signing') = Cardinality(Signing) - 1
      /\ Cardinality(Signing) \in Nat
  BY <1>2, AdminAssumption, FS_Subset, FS_CardinalityType, FS_RemoveElement
<1>4. AccountInv'
  BY <1>1, <1>3, AdminAssumption, FS_CardinalityType DEF AccountInv, Inv
<1> QED
  BY <1>1, <1>4, SignInv


-----------------------------------------------------------------------------
(* Steps that change rows *)

LEMMA TeamStep ==
    ASSUME Inv, NEW c \in Calls, NEW k \in CallRecords, call' = [call EXCEPT ![c] = k],
           KindOK(k), StateOK(k, project', audited'), k.pc # "signing",
           UNCHANGED <<settings, project, accounts, audited, starts>>, failures' \in Nat,
           environments' \subseteq Environments, environments' # {} => project,
           indices' \in [Environments -> Nat], tokens' \subseteq environments',
           templates' \subseteq Templates \X environments',
           invites' \subseteq Users, mails' \subseteq Users,
           team' \subseteq Users, access' \subseteq Users \X environments', raced' \subseteq Users,
           ChangesAreAudited', StrangerInv'
    PROVE  Inv'
<1>1. /\ call' \in [Calls -> CallRecords] /\ CallInv' /\ call'[c] = k
      /\ \A d \in Calls \ {c} : call'[d] = call[d]
  <2>1. TypeOK /\ CallInv /\ audited \subseteq audited' /\ (project => project')
    BY DEF Inv
  <2> QED
    BY <2>1, OneCall
<1>2. TypeOK'
  BY <1>1 DEF Inv, TypeOK, CallRecords
<1>3. AccountInv'
  BY <1>1, SigningStep DEF Inv, TypeOK
<1> QED
  BY <1>1, <1>2, <1>3 DEF Inv

LEMMA RowStep ==
    ASSUME Inv, NEW c \in Calls, NEW k \in CallRecords, call' = [call EXCEPT ![c] = k],
           KindOK(k), StateOK(k, project', audited'), k.pc \notin {"signing", "leaving"},
           UNCHANGED <<settings, project, team, access, accounts, raced, audited, starts>>,
           failures' \in Nat,
           environments \subseteq environments',
           environments' \subseteq Environments, environments' # {} => project,
           indices' \in [Environments -> Nat], tokens' \subseteq environments',
           templates' \subseteq Templates \X environments',
           invites' \subseteq Users, mails' \subseteq Users, ChangesAreAudited'
    PROVE  Inv'
<1>1. /\ call'[c] = k
      /\ \A d \in Calls \ {c} : call'[d] = call[d]
  BY CallsTyped DEF Inv
<1>2. StrangerInv'
  BY <1>1, LeavingStep DEF Inv
<1>3. team' \subseteq Users /\ access' \subseteq Users \X environments' /\ raced' \subseteq Users
  BY DEF Inv, TypeOK
<1> QED
  BY <1>2, <1>3, TeamStep

\* The rows as they are.
LEMMA RowsAre ==
    ASSUME Inv
    PROVE  /\ environments \subseteq Environments /\ (environments # {} => project)
           /\ indices \in [Environments -> Nat] /\ tokens \subseteq environments
           /\ templates \subseteq Templates \X environments
           /\ invites \subseteq Users /\ mails \subseteq Users
           /\ team \subseteq Users /\ access \subseteq Users \X environments
           /\ raced \subseteq Users /\ failures \in Nat
           /\ ChangesAreAudited /\ StrangerInv
  BY DEF Inv, TypeOK

LEMMA CreateIndexInv ==
    ASSUME Inv, NEW c \in Calls, NEW e \in Environments, CreateIndex(c, e)
    PROVE  Inv'
<1> DEFINE k == [call[c] EXCEPT !.todo = @ \ {e}, !.made = @ \cup {e}]
<1>1. /\ call[c].pc \in {"environments", "abandoned"} /\ e \in call[c].todo
      /\ indices' = [indices EXCEPT ![e] = @ + 1]
      /\ call' = [call EXCEPT ![c] = k]
      /\ UNCHANGED <<settings, project, environments, tokens, templates, invites, mails, team,
                     access, accounts, audited, undone, raced, failures, starts>>
  BY DEF CreateIndex, inviteVars
<1>2. /\ k \in CallRecords
      /\ k.kind = call[c].kind /\ k.pc = call[c].pc /\ k.user = call[c].user
      /\ k.envs = call[c].envs /\ k.todo = call[c].todo \ {e} /\ k.made = call[c].made \cup {e}
  BY Known1 DEF CallRecords
<1> HIDE DEF k
<1>3. KindOK(k)
  BY <1>1, <1>2, Known1 DEF KindOK, Makers, Reporting
<1>4. StateOK(k, project', audited')
  BY <1>1, <1>2, Known1 DEF StateOK
<1>5. indices' \in [Environments -> Nat]
  BY <1>1, RowsAre
<1>6. ChangesAreAudited'
  BY <1>1, RowsAre, AuditStep DEF inviteVars
<1> QED
  BY <1>1, <1>2, <1>3, <1>4, <1>5, <1>6, RowsAre, RowStep

LEMMA AfterEnvironmentsAre ==
    /\ AfterEnvironments["createProject"] = "tokens"
    /\ AfterEnvironments["createEnvironment"] = "populating"
    /\ AfterEnvironments["bootstrap"] = "getToken"
  BY DEF AfterEnvironments

LEMMA EnvironmentsCreatedIs ==
    ASSUME Inv, NEW c \in Calls, call[c].pc \in {"environments", "abandoned"},
           EnvironmentsCreated(c)
    PROVE  \E k \in CallRecords :
              /\ call' = [call EXCEPT ![c] = k]
              /\ KindOK(k) /\ StateOK(k, project, audited)
              /\ k.pc \notin {"signing", "leaving"}
<1>1. CASE call[c].pc = "abandoned"
  BY <1>1, NoCallOK DEF EnvironmentsCreated, End
<1>2. CASE call[c].pc = "environments"
  <2> DEFINE pc == AfterEnvironments[call[c].kind]
             k == [call[c] EXCEPT !.pc = pc, !.todo = call[c].envs, !.made = {}]
  <2>1. call' = [call EXCEPT ![c] = k]
    BY <1>2 DEF EnvironmentsCreated
  <2>2. call[c].kind \in Makers
    BY <1>2, Known1 DEF KindOK
  <2>3. pc \in Steps \ {"signing", "leaving", "checking", "auditing"}
    BY <2>2, AfterEnvironmentsAre DEF Makers
  <2>4. /\ k \in CallRecords
        /\ k.kind = call[c].kind /\ k.pc = pc /\ k.user = call[c].user
        /\ k.envs = call[c].envs /\ k.todo = call[c].envs /\ k.made = {}
    <3>1. call[c].envs \in SUBSET (Environments \cup Templates) /\ {} \in SUBSET Environments
      BY Known1
    <3> QED
      BY <2>3, <3>1, Known1 DEF CallRecords
  <2>5. pc \in {"tokens", "populating", "getToken"}
    BY <2>2, AfterEnvironmentsAre DEF Makers
  <2> HIDE DEF k, pc
  <2>6. KindOK(k)
    BY <1>2, <2>2, <2>4, <2>5, Known1 DEF KindOK, Makers, Reporting
  <2>7. StateOK(k, project, audited)
    BY <1>2, <2>2, <2>4, <2>5, Known1 DEF StateOK, Reporting
  <2> QED
    BY <2>1, <2>3, <2>4, <2>6, <2>7
<1> QED
  BY <1>1, <1>2

LEMMA InsertEnvironmentInv ==
    ASSUME Inv, NEW c \in Calls, NEW e \in Environments, InsertEnvironment(c, e)
    PROVE  Inv'
<1>1. /\ call[c].pc \in {"environments", "abandoned"} /\ e \in call[c].made
      /\ UNCHANGED <<settings, project, indices, tokens, templates, inviteVars, invites, mails,
                     team, access, accounts, audited, undone, raced, starts>>
  BY DEF InsertEnvironment, inviteVars
<1>2. CASE e \in environments
  <2>1. Refuse(c, e) /\ environments' = environments
    BY <1>2 DEF InsertEnvironment
  <2>2. UNCHANGED <<settings, project, rowVars, accounts, audited, undone, raced, starts>>
    BY <1>1, <2>1 DEF rowVars
  <2> QED
    BY <2>1, <2>2, RefuseInv
<1>3. CASE e \notin environments
  <2>1. environments' = environments \cup {e} /\ failures' = failures
    BY <1>3 DEF InsertEnvironment
  <2>2. PICK k \in CallRecords :
            /\ call' = [call EXCEPT ![c] = k]
            /\ KindOK(k) /\ StateOK(k, project, audited)
            /\ k.pc \notin {"signing", "leaving"}
    <3>1. CASE call[c].todo = {} /\ call[c].made = {e}
      BY <1>1, <1>3, <3>1, EnvironmentsCreatedIs DEF InsertEnvironment
    <3>2. CASE ~ (call[c].todo = {} /\ call[c].made = {e})
      <4> DEFINE k == [call[c] EXCEPT !.made = @ \ {e}]
      <4>1. call' = [call EXCEPT ![c] = k]
        BY <1>3, <3>2 DEF InsertEnvironment
      <4>2. /\ k \in CallRecords
            /\ k.kind = call[c].kind /\ k.pc = call[c].pc /\ k.user = call[c].user
            /\ k.envs = call[c].envs /\ k.todo = call[c].todo /\ k.made = call[c].made \ {e}
        BY Known1 DEF CallRecords
      <4> HIDE DEF k
      <4>3. KindOK(k)
        BY <1>1, <4>2, Known1 DEF KindOK, Makers, Reporting
      <4>4. StateOK(k, project, audited)
        BY <1>1, <4>2, Known1 DEF StateOK
      <4> QED
        BY <1>1, <4>1, <4>2, <4>3, <4>4
    <3> QED
      BY <3>1, <3>2
  <2>3. project /\ (settings.reports =>
                  e \in Defaults \cup {Headless} \/ <<"createEnvironment", e>> \in audited)
    BY <1>1, Known1 DEF KindOK, StateOK, Makers, Reporting
  <2>4. ChangesAreAudited'
    BY <1>1, <2>1, <2>3, RowsAre DEF ChangesAreAudited
  <2>5. /\ environments \subseteq environments' /\ environments' \subseteq Environments
        /\ tokens' \subseteq environments' /\ templates' \subseteq Templates \X environments'
        /\ StateOK(k, project', audited')
    BY <1>1, <2>1, <2>2, RowsAre
  <2> QED
    BY <1>1, <2>1, <2>2, <2>3, <2>4, <2>5, RowsAre, RowStep
<1> QED
  BY <1>2, <1>3


LEMMA InsertTokenInv ==
    ASSUME Inv, NEW c \in Calls, NEW e \in Environments, InsertToken(c, e)
    PROVE  Inv'
<1>1. /\ call[c].pc \in {"tokens", "lateTokens"} /\ e \in call[c].todo
      /\ UNCHANGED <<settings, project, environments, indices, templates, inviteVars, invites,
                     mails, team, access, accounts, audited, undone, raced, starts>>
  BY DEF InsertToken, inviteVars
<1>2. CASE e \notin environments \ tokens
  <2>1. Refuse(c, e) /\ tokens' = tokens
    BY <1>2 DEF InsertToken
  <2>2. UNCHANGED <<settings, project, rowVars, accounts, audited, undone, raced, starts>>
    BY <1>1, <2>1 DEF rowVars
  <2> QED
    BY <2>1, <2>2, RefuseInv
<1>3. CASE e \in environments \ tokens
  <2>1. tokens' = tokens \cup {e} /\ failures' = failures
    BY <1>3 DEF InsertToken
  <2>2. PICK k \in CallRecords :
            /\ call' = [call EXCEPT ![c] = k]
            /\ KindOK(k) /\ StateOK(k, project, audited)
            /\ k.pc \notin {"signing", "leaving"}
    <3>1. CASE call[c].todo = {e} /\ call[c].pc = "tokens" /\ call[c].kind = "createProject"
      <4>1. GotoWith(c, "joining", {})
        BY <1>3, <3>1 DEF InsertToken, TokensCreated
      <4>2. PICK k \in CallRecords :
                /\ call' = [call EXCEPT ![c] = k]
                /\ k.kind = call[c].kind /\ k.pc = "joining" /\ k.user = call[c].user
                /\ k.envs = call[c].envs /\ k.todo = {} /\ k.made = call[c].made
        <5>1. {} \in SUBSET (Environments \cup Templates) /\ TypeOK
          BY DEF Inv
        <5> QED
          BY <4>1, <5>1, GotoWithIs
      <4>3. KindOK(k)
        BY <3>1, <4>2, Known1 DEF KindOK, Makers, Reporting
      <4>4. StateOK(k, project, audited)
        BY <3>1, <4>2, Known1 DEF StateOK, Reporting
      <4> QED
        BY <4>2, <4>3, <4>4
    <3>2. CASE call[c].todo = {e} /\ ~ (call[c].pc = "tokens" /\ call[c].kind = "createProject")
      BY <1>3, <3>2, NoCallOK DEF InsertToken, TokensCreated, End
    <3>3. CASE call[c].todo # {e}
      <4> DEFINE k == [call[c] EXCEPT !.todo = @ \ {e}]
      <4>1. call' = [call EXCEPT ![c] = k]
        BY <1>3, <3>3 DEF InsertToken
      <4>2. /\ k \in CallRecords
            /\ k.kind = call[c].kind /\ k.pc = call[c].pc /\ k.user = call[c].user
            /\ k.envs = call[c].envs /\ k.todo = call[c].todo \ {e} /\ k.made = call[c].made
        BY Known1 DEF CallRecords
      <4> HIDE DEF k
      <4>3. KindOK(k)
        BY <1>1, <4>2, Known1 DEF KindOK, Makers, Reporting
      <4>4. StateOK(k, project, audited)
        BY <1>1, <4>2, Known1 DEF StateOK
      <4> QED
        BY <1>1, <4>1, <4>2, <4>3, <4>4
    <3> QED
      BY <3>1, <3>2, <3>3
  <2>3. ChangesAreAudited'
    BY <1>1, RowsAre, AuditStep
  <2>4. tokens' \subseteq environments' /\ StateOK(k, project', audited')
    BY <1>1, <1>3, <2>1, <2>2, RowsAre
  <2> QED
    BY <1>1, <2>1, <2>2, <2>3, <2>4, RowsAre, RowStep
<1> QED
  BY <1>2, <1>3

LEMMA InsertTemplateInv ==
    ASSUME Inv, NEW c \in Calls, NEW e \in Environments, NEW t \in Templates,
           InsertTemplate(c, e, t)
    PROVE  Inv'
<1>1. /\ call[c].pc = "templates" /\ e \in call[c].envs /\ t \in call[c].todo
      /\ UNCHANGED <<settings, project, environments, indices, tokens, inviteVars, invites,
                     mails, team, access, accounts, audited, undone, raced, starts>>
  BY DEF InsertTemplate, inviteVars
<1>2. CASE e \notin environments
  <2>1. Refuse(c, e) /\ templates' = templates
    BY <1>2 DEF InsertTemplate
  <2>2. UNCHANGED <<settings, project, rowVars, accounts, audited, undone, raced, starts>>
    BY <1>1, <2>1 DEF rowVars
  <2> QED
    BY <2>1, <2>2, RefuseInv
<1>3. CASE e \in environments
  <2>1. templates' = templates \cup {<<t, e>>} /\ failures' = failures
    BY <1>3 DEF InsertTemplate
  <2>2. PICK k \in CallRecords :
            /\ call' = [call EXCEPT ![c] = k]
            /\ KindOK(k) /\ StateOK(k, project, audited)
            /\ k.pc \notin {"signing", "leaving"}
    <3>1. CASE call[c].todo = {t}
      BY <1>3, <3>1, NoCallOK DEF InsertTemplate, End
    <3>2. CASE call[c].todo # {t}
      <4> DEFINE k == [call[c] EXCEPT !.todo = @ \ {t}]
      <4>1. call' = [call EXCEPT ![c] = k]
        BY <1>3, <3>2 DEF InsertTemplate
      <4>2. /\ k \in CallRecords
            /\ k.kind = call[c].kind /\ k.pc = call[c].pc /\ k.user = call[c].user
            /\ k.envs = call[c].envs /\ k.todo = call[c].todo \ {t} /\ k.made = call[c].made
        BY Known1 DEF CallRecords
      <4> HIDE DEF k
      <4>3. KindOK(k)
        BY <1>1, <4>2, Known1 DEF KindOK, Makers, Reporting
      <4>4. StateOK(k, project, audited)
        BY <1>1, <4>2, Known1 DEF StateOK
      <4> QED
        BY <1>1, <4>1, <4>2, <4>3, <4>4
    <3> QED
      BY <3>1, <3>2
  <2>3. settings.reports => <<"createTemplates", e>> \in audited
    BY <1>1, Known1 DEF KindOK, StateOK, Reporting
  <2>4. ChangesAreAudited'
    BY <1>1, <2>1, <2>3, RowsAre DEF ChangesAreAudited
  <2>5. templates' \subseteq Templates \X environments' /\ StateOK(k, project', audited')
    BY <1>1, <1>3, <2>1, <2>2, RowsAre
  <2> QED
    BY <1>1, <2>1, <2>2, <2>4, <2>5, RowsAre, RowStep
<1> QED
  BY <1>2, <1>3

LEMMA NewTokenInv ==
    ASSUME Inv, NEW c \in Calls, NewToken(c)
    PROVE  Inv'
<1>1. UNCHANGED <<settings, project, environments, indices, templates, inviteVars, invites,
                  mails, team, access, accounts, audited, undone, raced, starts>>
  BY DEF NewToken, inviteVars
<1>2. CASE ~ (call[c].envs \subseteq environments)
  <2>1. Refuse(c, Headless) /\ tokens' = tokens
    BY <1>2 DEF NewToken
  <2>2. UNCHANGED <<settings, project, rowVars, accounts, audited, undone, raced, starts>>
    BY <1>1, <2>1 DEF rowVars
  <2> QED
    BY <2>1, <2>2, RefuseInv
<1>3. CASE call[c].envs \subseteq environments
  <2>1. tokens' = tokens \cup call[c].envs /\ failures' = failures
        /\ call' = [call EXCEPT ![c] = NoCall]
    BY <1>3 DEF NewToken, End
  <2>2. ChangesAreAudited'
    BY <1>1, RowsAre, AuditStep
  <2>3. tokens' \subseteq environments'
    BY <1>1, <1>3, <2>1, RowsAre
  <2> QED
    BY <1>1, <2>1, <2>2, <2>3, NoCallOK, RowsAre, RowStep
<1> QED
  BY <1>2, <1>3

LEMMA DeleteTokenInv ==
    ASSUME Inv, NEW c \in Calls, DeleteToken(c)
    PROVE  Inv'
<1>1. /\ call[c].kind = "deleteApiToken" /\ call[c].pc = "token"
      /\ tokens' = tokens \ call[c].envs
      /\ undone' = undone \cup ({"token"} \X call[c].envs)
      /\ call' = [call EXCEPT ![c] = NoCall]
      /\ UNCHANGED <<settings, project, environments, indices, templates, invites, mails,
                     team, access, accounts, audited, raced, failures, starts>>
  BY DEF DeleteToken, At, End, inviteVars
<1>2. settings.reports => \A e \in call[c].envs : <<"deleteApiToken", e>> \in audited
  BY <1>1, Known1 DEF StateOK, Reporting
<1>3. ChangesAreAudited'
  BY <1>1, <1>2, RowsAre DEF ChangesAreAudited
<1>4. tokens' \subseteq environments'
  BY <1>1, RowsAre
<1> QED
  BY <1>1, <1>3, <1>4, NoCallOK, RowsAre, RowStep

LEMMA InsertInviteInv ==
    ASSUME Inv, NEW c \in Calls, InsertInvite(c)
    PROVE  Inv'
<1>1. /\ call[c].kind = "createInvite" /\ call[c].pc = "invite" /\ Goto(c, "mailing")
      /\ invites' = invites \cup {call[c].user}
      /\ UNCHANGED <<settings, project, environments, indices, tokens, templates, mails,
                     team, access, accounts, audited, undone, raced, failures, starts>>
  BY DEF InsertInvite, At
<1>2. call[c].user \in Users
      /\ (settings.reports => <<"createInvite", call[c].user>> \in audited)
  BY <1>1, Known1 DEF KindOK, StateOK, Reporting
<1>3. PICK k \in CallRecords :
          /\ call' = [call EXCEPT ![c] = k]
          /\ k.kind = call[c].kind /\ k.pc = "mailing" /\ k.user = call[c].user
          /\ k.envs = call[c].envs /\ k.todo = call[c].todo /\ k.made = call[c].made
  BY <1>1, GotoIs DEF Inv
<1>4. KindOK(k)
  BY <1>1, <1>3, Known1 DEF KindOK, Reporting, Makers
<1>5. StateOK(k, project', audited')
  BY <1>1, <1>3, Known1 DEF StateOK, Reporting
<1>6. ChangesAreAudited'
  BY <1>1, <1>2, RowsAre DEF ChangesAreAudited
<1>7. invites' \subseteq Users
  BY <1>1, <1>2, RowsAre
<1> QED
  BY <1>1, <1>3, <1>4, <1>5, <1>6, <1>7, RowsAre, RowStep

LEMMA MailInviteInv ==
    ASSUME Inv, NEW c \in Calls, MailInvite(c)
    PROVE  Inv'
<1>1. /\ call[c].pc = "mailing" /\ mails' = mails \cup {call[c].user}
      /\ call' = [call EXCEPT ![c] = NoCall]
      /\ UNCHANGED <<settings, project, environments, indices, tokens, templates, invites,
                     team, access, accounts, audited, undone, raced, failures, starts>>
  BY DEF MailInvite, End
<1>2. call[c].user \in Users
      /\ (settings.reports => <<"createInvite", call[c].user>> \in audited)
  BY <1>1, Known1 DEF KindOK, StateOK, Reporting
<1>3. ChangesAreAudited'
  BY <1>1, <1>2, RowsAre DEF ChangesAreAudited
<1>4. mails' \subseteq Users
  BY <1>1, <1>2, RowsAre
<1> QED
  BY <1>1, <1>3, <1>4, NoCallOK, RowsAre, RowStep

LEMMA DeleteInviteRowInv ==
    ASSUME Inv, NEW c \in Calls, DeleteInviteRow(c)
    PROVE  Inv'
<1>1. /\ call[c].kind = "deleteInvite" /\ call[c].pc = "invite"
      /\ invites' = invites \ {call[c].user}
      /\ undone' = undone \cup {<<"invite", call[c].user>>}
      /\ call' = [call EXCEPT ![c] = NoCall]
      /\ UNCHANGED <<settings, project, environments, indices, tokens, templates, mails,
                     team, access, accounts, audited, raced, failures, starts>>
  BY DEF DeleteInviteRow, At, End
<1>2. settings.reports => <<"deleteInvite", call[c].user>> \in audited
  BY <1>1, Known1 DEF StateOK, Reporting
<1>3. ChangesAreAudited'
  BY <1>1, <1>2, RowsAre DEF ChangesAreAudited
<1>4. invites' \subseteq Users
  BY <1>1, RowsAre
<1> QED
  BY <1>1, <1>3, <1>4, NoCallOK, RowsAre, RowStep

-----------------------------------------------------------------------------
(* Environments that are deleted *)

LEMMA DeleteRowsInv ==
    ASSUME Inv, NEW c \in Calls, NEW e \in Environments, DeleteRows(c, e)
    PROVE  Inv'
<1>1. /\ call[c].kind = "deleteEnvironment" /\ call[c].pc = "deleting" /\ e \in call[c].envs
      /\ UNCHANGED <<settings, project, accounts, audited, raced, starts>>
  BY DEF DeleteRows, At
<1>2. CASE e \notin environments \/ indices[e] # 1
  <2>1. Refuse(c, e) /\ UNCHANGED <<rowVars, undone>>
    BY <1>2 DEF DeleteRows
  <2> QED
    BY <1>1, <2>1, RefuseInv
<1>3. CASE ~ (e \notin environments \/ indices[e] # 1)
  <2>0. /\ indices' = [indices EXCEPT ![e] = 0]
        /\ UNCHANGED <<inviteVars, invites, mails, team>>
    BY <1>3 DEF DeleteRows, inviteVars
  <2>1. indices' \in [Environments -> Nat]
    BY <2>0, RowsAre
  <2>2. CASE /\ environments' = environments \ {e}
             /\ tokens' = tokens \ {e}
             /\ templates' = templates \ (Templates \X {e})
             /\ access' = access \ (Users \X {e})
             /\ undone' = undone \cup {<<"environment", e>>}
             /\ End(c)
             /\ UNCHANGED failures
    <3>1. call' = [call EXCEPT ![c] = NoCall]
      BY <2>2 DEF End
    <3>2. settings.reports => <<"deleteEnvironment", e>> \in audited
      BY <1>1, Known1 DEF StateOK, Reporting
    <3>3. ChangesAreAudited'
      BY <1>1, <2>0, <2>2, <3>2, RowsAre DEF ChangesAreAudited
    <3>4. StrangerInv'
      <4>1. \A d \in Calls : call'[d].pc = "leaving" => call'[d] = call[d]
        BY <3>1, NoCallOK, CallsTyped DEF Inv
      <4>2. access' \subseteq access /\ UNCHANGED <<team, raced>>
        BY <1>1, <2>0, <2>2
      <4> QED
        BY <4>1, <4>2, RowsAre DEF StrangerInv
    <3>5. /\ environments' \subseteq Environments /\ (environments' # {} => project)
          /\ tokens' \subseteq environments'
          /\ templates' \subseteq Templates \X environments'
          /\ access' \subseteq Users \X environments'
      BY <2>2, RowsAre
    <3> QED
      BY <1>1, <2>0, <2>1, <2>2, <3>1, <3>3, <3>4, <3>5, NoCallOK, RowsAre, TeamStep
  <2>3. CASE /\ Refuse(c, e)
             /\ UNCHANGED <<environments, tokens, templates, inviteVars, access, undone>>
    <3>1. PICK k \in CallRecords :
              /\ call' = [call EXCEPT ![c] = k]
              /\ KindOK(k) /\ StateOK(k, project, audited)
              /\ k.pc \notin {"signing", "leaving"}
      BY <2>3, ErrorIs DEF Inv, Refuse
    <3>2. ChangesAreAudited'
      BY <1>1, <2>3, RowsAre, AuditStep
    <3>3. failures' \in Nat
      BY <2>3, RowsAre DEF Refuse
    <3>4. StateOK(k, project', audited')
      BY <1>1, <3>1
    <3> QED
      BY <1>1, <2>0, <2>1, <2>3, <3>1, <3>2, <3>3, <3>4, RowsAre, RowStep
  <2> QED
    BY <1>3, <2>2, <2>3 DEF DeleteRows
<1> QED
  BY <1>2, <1>3

-----------------------------------------------------------------------------
(* Members who come and go *)

LEMMA InsertProjectUserInv ==
    ASSUME Inv, NEW c \in Calls, InsertProjectUser(c)
    PROVE  Inv'
<1>1. /\ call[c].pc = "joining" /\ team' = team \cup {call[c].user} /\ Goto(c, "populating")
      /\ UNCHANGED <<settings, project, environments, indices, tokens, templates, inviteVars,
                     invites, mails, access, accounts, audited, undone, raced, failures, starts>>
  BY DEF InsertProjectUser, inviteVars
<1>2. PICK k \in CallRecords :
          /\ call' = [call EXCEPT ![c] = k]
          /\ k.kind = call[c].kind /\ k.pc = "populating" /\ k.user = call[c].user
          /\ k.envs = call[c].envs /\ k.todo = call[c].todo /\ k.made = call[c].made
  BY <1>1, GotoIs DEF Inv
<1>3. KindOK(k)
  BY <1>1, <1>2, Known1 DEF KindOK, Reporting, Makers
<1>4. StateOK(k, project', audited')
  BY <1>1, <1>2, Known1 DEF StateOK, KindOK, Reporting
<1>5. ChangesAreAudited'
  BY <1>1, RowsAre, AuditStep
<1>6. team' \subseteq Users
  BY <1>1, RowsAre, Known1 DEF KindOK
<1>7. StrangerInv'
  <2>1. \A d \in Calls : call'[d].pc = "leaving" => call'[d] = call[d]
    BY <1>2, CallsTyped DEF Inv
  <2> QED
    BY <1>1, <2>1, RowsAre DEF StrangerInv
<1> QED
  BY <1>1, <1>2, <1>3, <1>4, <1>5, <1>6, <1>7, RowsAre, TeamStep

\* Who is not a member, or about to be none, is raced as access is given to them.
LEMMA PopulateInv ==
    ASSUME Inv, NEW c \in Calls, NEW new, new \subseteq Users \X environments,
           Populate(c, new),
           UNCHANGED <<settings, project, environments, indices, tokens, templates, inviteVars,
                       team, accounts, audited, undone, starts>>
    PROVE  Inv'
<1>1. UNCHANGED <<invites, mails>>
  BY DEF inviteVars
<1>2. CASE new \cap access # {}
  <2>1. Refuse(c, Headless) /\ UNCHANGED <<access, raced>>
    BY <1>2 DEF Populate
  <2>2. UNCHANGED rowVars
    BY <2>1 DEF rowVars
  <2> QED
    BY <2>1, <2>2, RefuseInv
<1>3. CASE ~ (new \cap access # {})
  <2>1. /\ access' = access \cup new
        /\ raced' = raced \cup {u \in Users : Leaving(u) /\ \E a \in new : a[1] = u}
        /\ call' = [call EXCEPT ![c] = NoCall]
        /\ failures' = failures
    BY <1>3 DEF Populate, End
  <2>2. \A d \in Calls : call'[d].pc = "leaving" => call'[d] = call[d]
    BY <2>1, NoCallOK, CallsTyped DEF Inv
  <2>3. ASSUME NEW u \in Users, NEW e \in Environments, <<u, e>> \in access'
        PROVE  u \in team' \cup raced'
    <3>1. CASE <<u, e>> \in access
      BY <2>1, <3>1, RowsAre DEF StrangerInv
    <3>2. CASE <<u, e>> \in new /\ u \notin team
      <4>1. Leaving(u)
        BY <3>2 DEF Leaving
      <4>2. <<u, e>>[1] = u
        OBVIOUS
      <4> QED
        BY <2>1, <3>2, <4>1, <4>2
    <3> QED
      BY <2>1, <2>3, <3>1, <3>2
  <2>4. ASSUME NEW d \in Calls, call'[d].pc = "leaving", NEW e \in Environments,
               <<call'[d].user, e>> \in access'
        PROVE  e \in call'[d].todo \/ call'[d].user \in raced'
    <3>1. call'[d] = call[d]
      BY <2>2, <2>4
    <3>2. CASE <<call[d].user, e>> \in access
      <4>1. e \in call[d].todo \/ call[d].user \in raced
        BY <2>4, <3>1, <3>2, RowsAre DEF StrangerInv
      <4> QED
        BY <2>1, <3>1, <4>1
    <3>3. CASE <<call[d].user, e>> \in new
      <4>1. call[d].user \in Users
        BY <3>3
      <4>2. Leaving(call[d].user)
        BY <2>4, <3>1, Known1 DEF Leaving, At, KindOK
      <4>3. <<call[d].user, e>>[1] = call[d].user
        OBVIOUS
      <4>4. call[d].user \in raced'
        BY <2>1, <3>3, <4>1, <4>2, <4>3
      <4> QED
        BY <3>1, <4>4
    <3> QED
      BY <2>1, <2>4, <3>1, <3>2, <3>3
  <2>5. StrangerInv'
    BY <2>3, <2>4 DEF StrangerInv
  <2>6. ChangesAreAudited'
    BY RowsAre, AuditStep
  <2>7. access' \subseteq Users \X environments' /\ raced' \subseteq Users
    BY <2>1, RowsAre
  <2> QED
    BY <1>1, <2>1, <2>5, <2>6, <2>7, NoCallOK, RowsAre, TeamStep
<1> QED
  BY <1>2, <1>3

LEMMA PopulateUserInv ==
    ASSUME Inv, NEW c \in Calls, PopulateUser(c)
    PROVE  Inv'
<1>1. call[c].user \in Users
  BY Known1 DEF PopulateUser, CallRecords
<1>2. {call[c].user} \X environments \subseteq Users \X environments
  BY <1>1
<1> QED
  BY <1>2, PopulateInv DEF PopulateUser

LEMMA PopulateEnvironmentInv ==
    ASSUME Inv, NEW c \in Calls, PopulateEnvironment(c)
    PROVE  Inv'
<1>1. UNCHANGED <<settings, project, environments, indices, tokens, templates, inviteVars, team,
                  accounts, audited, undone, starts>>
  BY DEF PopulateEnvironment
<1>2. CASE call[c].envs \subseteq environments \/ team = {}
  <2>1. team \X call[c].envs \subseteq Users \X environments
    BY <1>2, RowsAre
  <2> QED
    BY <1>1, <1>2, <2>1, PopulateInv DEF PopulateEnvironment
<1>3. CASE ~ (call[c].envs \subseteq environments \/ team = {})
  <2>1. Refuse(c, Headless) /\ UNCHANGED <<access, raced>>
    BY <1>3 DEF PopulateEnvironment
  <2>2. UNCHANGED rowVars
    BY <1>1, <2>1 DEF rowVars
  <2> QED
    BY <1>1, <2>1, <2>2, RefuseInv
<1> QED
  BY <1>2, <1>3

\* What is to be taken from a member is what there is.
LEMMA ListEnvironmentsInv ==
    ASSUME Inv, NEW c \in Calls, ListEnvironments(c)
    PROVE  Inv'
<1>1. /\ call[c].pc = "listing" /\ GotoWith(c, "leaving", environments)
      /\ UNCHANGED <<settings, project, environments, indices, tokens, templates, inviteVars,
                     invites, mails, team, access, accounts, audited, undone, raced, failures,
                     starts>>
  BY DEF ListEnvironments, rowVars, inviteVars
<1>2. PICK k \in CallRecords :
          /\ call' = [call EXCEPT ![c] = k]
          /\ k.kind = call[c].kind /\ k.pc = "leaving" /\ k.user = call[c].user
          /\ k.envs = call[c].envs /\ k.todo = environments /\ k.made = call[c].made
  <2>1. environments \in SUBSET (Environments \cup Templates) /\ TypeOK
    BY RowsAre DEF Inv
  <2> QED
    BY <1>1, <2>1, GotoWithIs
<1>3. KindOK(k)
  BY <1>1, <1>2, Known1 DEF KindOK, Reporting, Makers
<1>4. StateOK(k, project', audited')
  BY <1>1, <1>2, Known1 DEF StateOK, KindOK, Reporting
<1>5. ChangesAreAudited'
  BY <1>1, RowsAre, AuditStep
<1>6. StrangerInv'
  <2>1. call'[c] = k /\ \A d \in Calls \ {c} : call'[d] = call[d]
    BY <1>2, CallsTyped DEF Inv
  <2>2. \A e \in Environments : <<k.user, e>> \in access => e \in k.todo
    BY <1>2, RowsAre
  <2> QED
    BY <1>1, <1>2, <2>1, <2>2, RowsAre DEF StrangerInv
<1> QED
  BY <1>1, <1>2, <1>3, <1>4, <1>5, <1>6, RowsAre, TeamStep

LEMMA DeleteEnvUserInv ==
    ASSUME Inv, NEW c \in Calls, NEW e \in Environments, DeleteEnvUser(c, e)
    PROVE  Inv'
<1> DEFINE k == [call[c] EXCEPT !.todo = @ \ {e}]
<1>1. /\ call[c].pc = "leaving" /\ e \in call[c].todo
      /\ access' = access \ {<<call[c].user, e>>}
      /\ call' = [call EXCEPT ![c] = k]
      /\ UNCHANGED <<settings, project, environments, indices, tokens, templates, inviteVars,
                     invites, mails, team, accounts, audited, undone, raced, failures, starts>>
  BY DEF DeleteEnvUser, inviteVars
<1>2. /\ k \in CallRecords
      /\ k.kind = call[c].kind /\ k.pc = call[c].pc /\ k.user = call[c].user
      /\ k.envs = call[c].envs /\ k.todo = call[c].todo \ {e} /\ k.made = call[c].made
  BY Known1 DEF CallRecords
<1> HIDE DEF k
<1>3. KindOK(k)
  BY <1>1, <1>2, Known1 DEF KindOK, Makers, Reporting
<1>4. StateOK(k, project', audited')
  BY <1>1, <1>2, Known1 DEF StateOK, KindOK, Reporting
<1>5. ChangesAreAudited'
  BY <1>1, RowsAre, AuditStep
<1>6. StrangerInv'
  <2>1. call'[c] = k /\ \A d \in Calls \ {c} : call'[d] = call[d]
    BY <1>1, <1>2, CallsTyped DEF Inv
  <2>2. \A f \in Environments :
            <<k.user, f>> \in access' => f \in k.todo \/ k.user \in raced'
    BY <1>1, <1>2, RowsAre DEF StrangerInv
  <2> QED
    BY <1>1, <2>1, <2>2, RowsAre DEF StrangerInv
<1>7. access' \subseteq Users \X environments'
  BY <1>1, RowsAre
<1> QED
  BY <1>1, <1>2, <1>3, <1>4, <1>5, <1>6, <1>7, RowsAre, TeamStep

\* Who leaves has nothing left, or was raced.
LEMMA DeleteProjectUserInv ==
    ASSUME Inv, NEW c \in Calls, DeleteProjectUser(c)
    PROVE  Inv'
<1>1. /\ call[c].pc = "leaving" /\ call[c].todo = {}
      /\ team' = team \ {call[c].user}
      /\ undone' = undone \cup {<<"member", call[c].user>>}
      /\ call' = [call EXCEPT ![c] = NoCall]
      /\ UNCHANGED <<settings, project, environments, indices, tokens, templates, inviteVars,
                     invites, mails, access, accounts, audited, raced, failures, starts>>
  BY DEF DeleteProjectUser, End, inviteVars
<1>2. ChangesAreAudited'
  BY <1>1, RowsAre DEF ChangesAreAudited
<1>3. StrangerInv'
  <2>1. \A d \in Calls : call'[d].pc = "leaving" => call'[d] = call[d]
    BY <1>1, NoCallOK, CallsTyped DEF Inv
  <2>2. \A e \in Environments : <<call[c].user, e>> \in access => call[c].user \in raced
    BY <1>1, RowsAre DEF StrangerInv
  <2> QED
    BY <1>1, <2>1, <2>2, RowsAre DEF StrangerInv
<1>4. team' \subseteq Users
  BY <1>1, RowsAre
<1> QED
  BY <1>1, <1>2, <1>3, <1>4, NoCallOK, RowsAre, TeamStep

-----------------------------------------------------------------------------
(* The invariant *)

LEMMA InitInv == Init => Inv
<1> SUFFICES ASSUME Init
             PROVE  Inv
  OBVIOUS
<1>1. /\ environments \subseteq Defaults /\ (environments # {} => project)
      /\ tokens = environments /\ templates = {} /\ invites = {} /\ mails = {}
      /\ team \subseteq Users /\ access = team \X environments
      /\ accounts = 0 /\ audited = {} /\ undone = {} /\ raced = {}
      /\ call = [c \in Calls |-> NoCall]
      /\ settings \in Settings /\ project \in BOOLEAN
      /\ indices \in [Environments -> Nat]
      /\ failures \in Nat /\ starts \in 0..MaxStarts
  <2>1. settings \in Settings /\ project \in BOOLEAN
    BY Zenon DEF Init
  <2>2. environments \subseteq Defaults /\ (environments # {} => project)
    BY Zenon DEF Init
  <2>3. team \subseteq Users
    <3>1. CASE project
      BY <3>1 DEF Init
    <3>2. CASE ~ project
      BY <3>2 DEF Init
    <3> QED
      BY <3>1, <3>2
  <2>4. /\ tokens = environments /\ templates = {} /\ invites = {} /\ mails = {}
        /\ access = team \X environments
        /\ accounts = 0 /\ audited = {} /\ undone = {} /\ raced = {}
        /\ call = [c \in Calls |-> NoCall] /\ failures = 0 /\ starts = 0
        /\ indices = [e \in Environments |-> IF e \in environments THEN 1 ELSE 0]
    BY Zenon DEF Init
  <2>5. indices \in [Environments -> Nat]
    BY <2>4
  <2> QED
    BY <2>1, <2>2, <2>3, <2>4, <2>5, AdminAssumption
<1>2. TypeOK
  BY <1>1, NoCallOK, AdminAssumption DEF TypeOK, CallRecords
<1>3. CallInv
  BY <1>1, NoCallOK DEF CallInv
<1>4. ChangesAreAudited
  BY <1>1 DEF ChangesAreAudited
<1>5. StrangerInv
  BY <1>1, NoCallOK DEF StrangerInv
<1>6. AccountInv
  <2>1. Signing = {}
    BY <1>1, NoCallOK DEF Signing
  <2> QED
    BY <1>1, <2>1, AdminAssumption, FS_EmptySet, FS_CardinalityType DEF AccountInv
<1> QED
  BY <1>2, <1>3, <1>4, <1>5, <1>6 DEF Inv

LEMMA BootstrapStepInv ==
    ASSUME Inv, NEW c \in Calls, BootstrapStep(c)
    PROVE  Inv'
  BY GetProjectInv, InsertProjectInv, GetEnvironmentInv, CreateIndexInv, InsertEnvironmentInv,
     InsertTokenInv, GetTokenInv
  DEF BootstrapStep

LEMMA CallStepInv ==
    ASSUME Inv, NEW c \in Calls, CallStep(c)
    PROVE  Inv'
<1>1. CASE AuditEvent(c) \/ CheckAccess(c) \/ InsertProject(c) \/ Abandoned(c)
  BY <1>1, AuditEventInv, CheckAccessInv, InsertProjectInv, AbandonedInv
<1>2. CASE \/ InsertProjectUser(c) \/ PopulateUser(c) \/ PopulateEnvironment(c)
           \/ ListEnvironments(c) \/ DeleteProjectUser(c)
  BY <1>2, InsertProjectUserInv, PopulateUserInv, PopulateEnvironmentInv, ListEnvironmentsInv,
     DeleteProjectUserInv
<1>3. CASE \/ NewToken(c) \/ DeleteToken(c) \/ InsertInvite(c) \/ MailInvite(c)
           \/ DeleteInviteRow(c)
  BY <1>3, NewTokenInv, DeleteTokenInv, InsertInviteInv, MailInviteInv, DeleteInviteRowInv
<1>4. CASE GetUser(c) \/ CountUsers(c) \/ InsertUser(c) \/ CreateAdminToken(c)
  BY <1>4, GetUserInv, CountUsersInv, InsertUserInv, CreateAdminTokenInv
<1>5. ASSUME NEW e \in Environments,
             CreateIndex(c, e) \/ InsertEnvironment(c, e) \/ InsertToken(c, e)
      PROVE  Inv'
  BY <1>5, CreateIndexInv, InsertEnvironmentInv, InsertTokenInv
<1>6. ASSUME NEW e \in Environments, DeleteRows(c, e) \/ DeleteEnvUser(c, e)
      PROVE  Inv'
  BY <1>6, DeleteRowsInv, DeleteEnvUserInv
<1>7. ASSUME NEW e \in Environments, NEW t \in Templates, InsertTemplate(c, e, t)
      PROVE  Inv'
  BY <1>7, InsertTemplateInv
<1> QED
  BY <1>1, <1>2, <1>3, <1>4, <1>5, <1>6, <1>7 DEF CallStep

LEMMA StutterInv == Inv /\ UNCHANGED vars => Inv'
<1> SUFFICES ASSUME Inv, UNCHANGED vars
             PROVE  Inv'
  OBVIOUS
<1>1. UNCHANGED <<settings, project, environments, indices, tokens, templates, invites, mails,
                  team, access, accounts, audited, call, undone, raced, failures, starts>>
  BY DEF vars, rowVars, inviteVars
<1>2. TypeOK'
  BY <1>1 DEF Inv, TypeOK
<1>3. CallInv' /\ ChangesAreAudited' /\ StrangerInv'
  BY <1>1 DEF Inv, CallInv, KindOK, StateOK, ChangesAreAudited, StrangerInv
<1>4. AccountInv'
  BY <1>1 DEF Inv, AccountInv, Signing
<1> QED
  BY <1>2, <1>3, <1>4 DEF Inv

LEMMA Invariance == Spec => []Inv
<1>1. Inv /\ [Next]_vars => Inv'
  BY StartCallInv, BootstrapStepInv, CallStepInv, FailInv, StutterInv DEF Next
<1> QED
  BY InitInv, <1>1, PTL DEF Spec

-----------------------------------------------------------------------------
(* What is proved of the specification *)

\* Rows refer to rows there are: tokens, templates and access are to environments of
\* the project, whatever is created and deleted at once.
THEOREM AdminTypes == Spec => []TypeOK
  BY Invariance, PTL DEF Inv

\* Where calls are reported at all (headless.ts:31), what is created or deleted has been:
\* the audit log is told before each change, and a call is not past its report without it.
THEOREM ReportsComeFirst == Spec => []ChangesAreAudited
  BY Invariance, PTL DEF Inv

\* Nobody has access without being a member but those who were given it while they
\* were removed, since a member's access is listed before it is taken away.
THEOREM StrangersWereGivenIt == Spec => []StrangersWereRaced
<1>1. Inv => StrangersWereRaced
  <2> SUFFICES ASSUME Inv, NEW a \in access
               PROVE  a[1] \in team \cup raced
    BY DEF StrangersWereRaced
  <2>1. PICK u \in Users, e \in Environments : a = <<u, e>>
    BY RowsAre
  <2> QED
    BY <2>1, RowsAre DEF StrangerInv
<1> QED
  BY Invariance, <1>1, PTL

\* Accounts of one address are at most the sign-ins that overlap: one that is about to
\* insert an account has counted none.
THEOREM FewAccounts == Spec => []AccountsAreOverlaps
<1>1. Inv => AccountsAreOverlaps
  <2> SUFFICES ASSUME Inv
               PROVE  accounts <= Cardinality(Calls)
    BY DEF AccountsAreOverlaps
  <2>1. Cardinality(Signing) \in Nat /\ Cardinality(Calls) \in Nat
    <3>1. Signing \subseteq Calls
      BY DEF Signing
    <3> QED
      BY <3>1, AdminAssumption, FS_Subset, FS_CardinalityType
  <2> QED
    BY <2>1 DEF Inv, AccountInv, TypeOK
<1> QED
  BY Invariance, <1>1, PTL

-----------------------------------------------------------------------------
(* Calls, again: what each kind of step leaves of them *)

\* An index that has no row yet belongs to a call that is about to insert it; what
\* a step says of the kind of its call.
ShapeOK(k) ==
    /\ k.made # {} => k.pc \in {"environments", "abandoned"}
    /\ k.todo \cap k.made = {}
    /\ k.pc = "idle" <=> k.kind = "none"
    /\ k.kind = "createEnvironment" =>
          k.user = NoUser /\ \E e \in Environments : k.envs = {e}
    /\ k.pc = "populating" => k.kind \in {"addUser", "createProject", "createEnvironment"}
    /\ k.pc = "tokens" => k.kind \in {"createProject", "bootstrap"}
    /\ k.pc \in {"getUser", "counting", "signing", "adminToken"} => k.kind = "login"
    /\ k.pc \in {"abandoned", "lateTokens"} => k.kind = "createProject"

ShapeInv == \A c \in Calls : ShapeOK(call[c])

\* A user's project is created alone, and nobody is a member of it before.
AloneInv ==
    /\ ~ project =>
          /\ team = {}
          /\ \A c \in Calls : call[c].kind \in {"none", "createProject", "bootstrap", "login"}
    /\ \A c \in Calls :
          /\ call[c].kind = "bootstrap" => settings.headless
          /\ call[c].kind = "createProject" =>
                /\ ~ settings.headless
                /\ call[c].pc # "project" => project
                /\ call[c].pc # "populating" => team = {}
                /\ \A d \in Calls \ {c} : call[d].kind = "none"

MadeInv == Inv /\ ShapeInv /\ AloneInv

\* The step changes one call, to k.
Moves(c, k) ==
    /\ call' = [call EXCEPT ![c] = k] /\ ShapeOK(k)
    /\ k.kind \in {call[c].kind, "none"} /\ call[c].kind # "none"
    /\ UNCHANGED settings

\* What has been done when a call is answered.
Answered(c) ==
    /\ call[c].kind = "createProject" => call[c].pc \in {"abandoned", "lateTokens"}
    /\ call[c].kind = "bootstrap" => Headless \in tokens'
    /\ call[c].kind = "createInvite" =>
          \/ call[c].pc = "checking"
          \/ call[c].user \in mails' /\ call[c].pc = "mailing" /\ UNCHANGED <<invites, undone>>

\* The tokens a call has not made are left.
TokensLeft(c, k) ==
    \/ k.pc = "lateTokens"
    \/ /\ call[c].pc = "tokens" /\ tokens \subseteq tokens'
       /\ \/ k.pc = "tokens" /\ call[c].todo \subseteq tokens' \cup k.todo
          \/ k.pc = "joining" /\ call[c].todo \subseteq tokens'

\* It changes neither members nor environments, nor who makes any.
Light(c, k) ==
    /\ Moves(c, k)
    /\ call[c].made = {} /\ k.made = {}
    /\ call[c].pc \notin {"populating", "leaving"} /\ k.pc # "populating"
    /\ k.pc \in {"abandoned", "lateTokens"} => k.pc = call[c].pc
    /\ k.kind = "createProject" => call[c].pc \in {"tokens", "lateTokens"} /\ TokensLeft(c, k)
    /\ k.kind = "none" => Answered(c)
    /\ k.pc = "mailing" => k.user \in invites'
    /\ UNCHANGED <<project, environments, indices, team, access, failures>>

\* It fails.
Failed(c, k) ==
    /\ Moves(c, k)
    /\ k.made \subseteq call[c].made
    /\ k.kind = "createProject" =>
          /\ call[c].pc \in {"environments", "tokens"}
          /\ k.pc \in {"abandoned", "lateTokens"}
    /\ k.pc # "mailing"
    /\ failures' = failures + 1
    /\ UNCHANGED <<project, environments, team, access>>
    /\ \A e \in Environments : indices'[e] <= indices[e]

LEMMA NoCallShape == ShapeOK(NoCall) /\ NoCall.made = {}
  BY NoCallOK DEF ShapeOK, NoCall

LEMMA Known2 ==
    ASSUME Inv, ShapeInv, NEW c \in Calls
    PROVE  /\ call[c] \in CallRecords /\ KindOK(call[c]) /\ ShapeOK(call[c])
           /\ TypeOK /\ CallInv
           /\ call[c].todo \in SUBSET (Environments \cup Templates)
           /\ call[c].made \in SUBSET Environments /\ call[c].envs \in SUBSET Environments
           /\ indices \in [Environments -> Nat] /\ failures \in Nat
  BY Known1 DEF Inv, ShapeInv, TypeOK

LEMMA RefuseMoves ==
    ASSUME Inv, ShapeInv, NEW c \in Calls, NEW e, Refuse(c, e), call[c].pc # "idle",
           UNCHANGED <<settings, project, environments, team, access>>,
           \A x \in Environments : indices'[x] <= indices[x]
    PROVE  \E k \in CallRecords : Failed(c, k)
<1>1. failures' = failures + 1 /\ Error(c, e)
  BY DEF Refuse
<1>2. call[c] \in CallRecords /\ ShapeOK(call[c]) /\ call[c].kind # "none"
      /\ call[c].made \in SUBSET Environments
      /\ call[c].todo \in SUBSET (Environments \cup Templates)
  BY Known2 DEF ShapeOK
<1>3. CASE SideBySide(c)
  <2> DEFINE pc == IF call[c].pc = "tokens" THEN "lateTokens" ELSE "abandoned"
             k == [call[c] EXCEPT !.pc = pc, !.todo = @ \ {e}, !.made = @ \ {e}]
  <2>1. call' = [call EXCEPT ![c] = k]
    BY <1>1, <1>3 DEF Error
  <2>2. /\ k \in CallRecords
        /\ k.kind = call[c].kind /\ k.pc = pc /\ k.user = call[c].user
        /\ k.envs = call[c].envs /\ k.todo \subseteq call[c].todo /\ k.made \subseteq call[c].made
    BY <1>2 DEF CallRecords
  <2>3. call[c].kind = "createProject" /\ call[c].pc \in {"environments", "tokens"}
    BY <1>3 DEF SideBySide
  <2> HIDE DEF k
  <2>4. ShapeOK(k)
    BY <1>2, <2>2, <2>3 DEF ShapeOK
  <2> QED BY <1>1, <1>2, <2>1, <2>2, <2>3, <2>4 DEF Failed, Moves
<1>4. CASE ~ SideBySide(c) /\ call[c].kind = "bootstrap"
  <2> DEFINE k == [call[c] EXCEPT !.pc = "getProject", !.made = {}]
  <2>1. call' = [call EXCEPT ![c] = k]
    BY <1>1, <1>4 DEF Error, Retry
  <2>2. /\ k \in CallRecords
        /\ k.kind = call[c].kind /\ k.pc = "getProject" /\ k.user = call[c].user
        /\ k.envs = call[c].envs /\ k.todo = call[c].todo /\ k.made = {}
    BY <1>2 DEF CallRecords
  <2> HIDE DEF k
  <2>3. ShapeOK(k)
    BY <1>2, <1>4, <2>2 DEF ShapeOK
  <2> QED BY <1>1, <1>2, <1>4, <2>1, <2>2, <2>3 DEF Failed, Moves
<1>5. CASE ~ SideBySide(c) /\ call[c].kind # "bootstrap"
  BY <1>1, <1>2, <1>5, NoCallOK, NoCallShape DEF Error, Retry, Failed, Moves
<1> QED BY <1>3, <1>4, <1>5

LEMMA FailMoves ==
    ASSUME Inv, ShapeInv, NEW c \in Calls, Fail(c)
    PROVE  \E k \in CallRecords : Failed(c, k)
<1>1. /\ call[c].pc # "idle" /\ \E e : Refuse(c, e)
      /\ UNCHANGED <<settings, project, rowVars>>
  BY DEF Fail
<1>2. UNCHANGED <<environments, indices, team, access>>
  BY <1>1 DEF rowVars
<1>3. \A x \in Environments : indices'[x] <= indices[x]
  BY <1>2 DEF Inv, TypeOK
<1> QED BY <1>1, <1>2, <1>3, RefuseMoves

\* A call that goes on, and one that ends.
LEMMA GotoLight ==
    ASSUME Inv, ShapeInv, NEW c \in Calls, NEW pc \in Steps \ {"idle", "abandoned", "lateTokens"},
           Goto(c, pc), call[c].kind \notin {"none", "createProject"}, call[c].made = {},
           call[c].pc \notin {"populating", "leaving"},
           pc \in {"populating", "tokens"} => call[c].kind = "bootstrap" /\ pc = "tokens",
           pc \in {"getUser", "counting", "signing", "adminToken"} => call[c].kind = "login",
           pc = "mailing" => call[c].user \in invites',
           UNCHANGED <<settings, project, environments, indices, team, access, failures>>
    PROVE  \E k \in CallRecords : Light(c, k)
<1>1. PICK k \in CallRecords :
          /\ call' = [call EXCEPT ![c] = k]
          /\ k.kind = call[c].kind /\ k.pc = pc /\ k.user = call[c].user
          /\ k.envs = call[c].envs /\ k.todo = call[c].todo /\ k.made = call[c].made
  BY Known2, GotoIs
<1>2. ShapeOK(k)
  BY <1>1, Known2 DEF ShapeOK
<1> QED BY <1>1, <1>2, NoCallOK DEF Light, Moves, TokensLeft, ShapeOK

LEMMA GotoWithLight ==
    ASSUME Inv, ShapeInv, NEW c \in Calls, NEW pc \in Steps \ {"idle", "abandoned", "lateTokens"},
           NEW T \in SUBSET (Environments \cup Templates),
           GotoWith(c, pc, T), call[c].kind # "none", call[c].made = {},
           call[c].kind = "createProject" =>
              /\ call[c].pc = "tokens" /\ pc = "joining"
              /\ tokens \subseteq tokens' /\ call[c].todo \subseteq tokens',
           call[c].pc \notin {"populating", "leaving"},
           pc \in {"populating", "tokens"} => call[c].kind = "bootstrap" /\ pc = "tokens",
           pc \notin {"getUser", "counting", "signing", "adminToken", "mailing"},
           UNCHANGED <<settings, project, environments, indices, team, access, failures>>
    PROVE  \E k \in CallRecords : Light(c, k)
<1>1. PICK k \in CallRecords :
          /\ call' = [call EXCEPT ![c] = k]
          /\ k.kind = call[c].kind /\ k.pc = pc /\ k.user = call[c].user
          /\ k.envs = call[c].envs /\ k.todo = T /\ k.made = call[c].made
  BY Known2, GotoWithIs
<1>2. ShapeOK(k)
  BY <1>1, Known2 DEF ShapeOK
<1> QED BY <1>1, <1>2, NoCallOK DEF Light, Moves, TokensLeft, ShapeOK

LEMMA EndLight ==
    ASSUME Inv, ShapeInv, NEW c \in Calls, End(c), call[c].kind # "none", call[c].made = {},
           call[c].pc \notin {"populating", "leaving"}, Answered(c),
           UNCHANGED <<settings, project, environments, indices, team, access, failures>>
    PROVE  \E k \in CallRecords : Light(c, k)
  BY NoCallOK, NoCallShape DEF Light, Moves, End

\* What is left of a step is one thing less.
LEMMA LessLight ==
    ASSUME Inv, ShapeInv, NEW c \in Calls, NEW x, call[c].kind # "none", call[c].made = {},
           call' = [call EXCEPT ![c].todo = @ \ {x}],
           call[c].kind = "createProject" =>
              \/ call[c].pc = "lateTokens"
              \/ call[c].pc = "tokens" /\ tokens \subseteq tokens' /\ x \in tokens',
           call[c].pc \notin {"populating", "leaving", "mailing"},
           UNCHANGED <<settings, project, environments, indices, team, access, failures>>
    PROVE  \E k \in CallRecords : Light(c, k)
<1> DEFINE k == [call[c] EXCEPT !.todo = @ \ {x}]
<1>1. call' = [call EXCEPT ![c] = k]
  OBVIOUS
<1>2. /\ k \in CallRecords
      /\ k.kind = call[c].kind /\ k.pc = call[c].pc /\ k.user = call[c].user
      /\ k.envs = call[c].envs /\ k.todo = call[c].todo \ {x} /\ k.made = call[c].made
  BY Known2 DEF CallRecords
<1> HIDE DEF k
<1>3. ShapeOK(k)
  BY <1>2, Known2 DEF ShapeOK
<1> QED BY <1>1, <1>2, <1>3 DEF Light, Moves, TokensLeft

\* Steps that are light, unless they fail.
Slight(c) == \E k \in CallRecords : Light(c, k) \/ Failed(c, k)

LEMMA AccountsSlight ==
    ASSUME Inv, ShapeInv, NEW c \in Calls,
           GetUser(c) \/ CountUsers(c) \/ InsertUser(c) \/ CreateAdminToken(c)
    PROVE  Slight(c)
<1>1. /\ call[c].pc \in {"getUser", "counting", "signing", "adminToken"}
      /\ UNCHANGED <<settings, project, rowVars>>
  BY DEF GetUser, CountUsers, InsertUser, CreateAdminToken
<1>2. /\ UNCHANGED <<settings, project, environments, indices, team, access>>
      /\ call[c].kind = "login" /\ call[c].made = {}
      /\ \A x \in Environments : indices'[x] <= indices[x]
  BY <1>1, Known2 DEF rowVars, ShapeOK
<1>3. CASE GetUser(c)
  <2>1. (Goto(c, "adminToken") \/ Goto(c, "counting")) /\ UNCHANGED failures
    BY <1>3 DEF GetUser
  <2> QED BY <1>1, <1>2, <2>1, GotoLight DEF Slight
<1>4. CASE CountUsers(c)
  <2>1. Refuse(c, Headless) \/ (Goto(c, "signing") /\ UNCHANGED failures)
    BY <1>4 DEF CountUsers
  <2> QED BY <1>1, <1>2, <2>1, GotoLight, RefuseMoves DEF Slight
<1>5. CASE InsertUser(c)
  <2>1. Goto(c, "adminToken") /\ UNCHANGED failures
    BY <1>5 DEF InsertUser
  <2> QED BY <1>1, <1>2, <2>1, GotoLight DEF Slight
<1>6. CASE CreateAdminToken(c)
  <2>1. End(c) /\ UNCHANGED failures
    BY <1>6 DEF CreateAdminToken
  <2> QED BY <1>1, <1>2, <2>1, EndLight DEF Slight, Answered
<1> QED BY <1>3, <1>4, <1>5, <1>6

LEMMA ChecksSlight ==
    ASSUME Inv, ShapeInv, NEW c \in Calls, AuditEvent(c) \/ CheckAccess(c)
    PROVE  Slight(c)
<1>1. /\ call[c].pc \in {"auditing", "checking"}
      /\ UNCHANGED <<settings, project, rowVars, failures>>
  BY DEF AuditEvent, CheckAccess
<1>2. /\ UNCHANGED <<settings, project, environments, indices, team, access, failures>>
      /\ call[c].kind \in Reporting \cup {"deleteMember"} /\ call[c].made = {}
  BY <1>1, Known2 DEF rowVars, ShapeOK, KindOK
<1>3. CASE AuditEvent(c)
  <2>1. Goto(c, "deleting") \/ Goto(c, "checking")
    BY <1>3 DEF AuditEvent
  <2> QED BY <1>1, <1>2, <2>1, GotoLight DEF Slight, Reporting
<1>4. CASE CheckAccess(c)
  <2>1. Goto(c, AfterCheck[call[c].kind]) \/ End(c)
    BY <1>4 DEF CheckAccess
  <2>2. AfterCheck[call[c].kind]
           \in {"listing", "environments", "auditing", "templates", "token", "invite"}
    BY <1>2, AfterChecks DEF Reporting
  <2>3. CASE End(c)
    <3>1. call[c].pc = "checking"
      BY <1>4 DEF CheckAccess
    <3> QED BY <1>1, <1>2, <2>3, <3>1, EndLight DEF Slight, Answered, Reporting
  <2>4. CASE Goto(c, AfterCheck[call[c].kind])
    BY <1>1, <1>2, <2>2, <2>4, GotoLight DEF Slight, Reporting
  <2> QED BY <2>1, <2>3, <2>4
<1> QED BY <1>3, <1>4

LEMMA GetsSlight ==
    ASSUME Inv, ShapeInv, NEW c \in Calls, GetEnvironment(c) \/ GetToken(c)
    PROVE  Slight(c)
<1>1. /\ call[c].pc \in {"getEnvironment", "getToken"} /\ call[c].kind = "bootstrap"
      /\ UNCHANGED <<settings, project, rowVars, failures>>
  BY DEF GetEnvironment, GetToken, At
<1>2. /\ UNCHANGED <<settings, project, environments, indices, team, access, failures>>
      /\ call[c].made = {}
      /\ {Headless} \in SUBSET (Environments \cup Templates)
  BY <1>1, AdminAssumption, Known2 DEF rowVars, ShapeOK
<1>3. \/ Goto(c, "getToken") \/ GotoWith(c, "environments", {Headless}) \/ Retry(c)
      \/ (End(c) /\ Headless \in tokens') \/ GotoWith(c, "tokens", {Headless})
  BY <1>1 DEF GetEnvironment, GetToken, rowVars
<1>4. CASE Retry(c)
  <2>1. call[c] \in CallRecords
    BY Known2
  <2>2. [call[c] EXCEPT !.pc = "getProject", !.made = {}] = [call[c] EXCEPT !.pc = "getProject"]
    BY <1>2, <2>1 DEF CallRecords
  <2>3. Goto(c, "getProject")
    BY <1>1, <1>4, <2>2 DEF Retry, Goto
  <2> QED BY <1>1, <1>2, <2>3, GotoLight DEF Slight, Answered
<1> QED BY <1>1, <1>2, <1>3, <1>4, GotoLight, GotoWithLight, EndLight DEF Slight, Answered

LEMMA AbandonedSlight ==
    ASSUME Inv, ShapeInv, NEW c \in Calls, Abandoned(c)
    PROVE  Slight(c)
<1>1. /\ call[c].pc \in {"abandoned", "lateTokens"} /\ call[c].made = {} /\ End(c)
      /\ UNCHANGED <<settings, project, rowVars, failures>>
  BY DEF Abandoned
<1>2. /\ UNCHANGED <<settings, project, environments, indices, team, access, failures>>
      /\ call[c].kind # "none"
  BY <1>1, Known2 DEF rowVars, ShapeOK
<1>3. call[c].kind = "createProject"
  BY <1>1, Known2 DEF ShapeOK
<1> QED BY <1>1, <1>2, <1>3, EndLight DEF Slight, Answered

LEMMA InvitesSlight ==
    ASSUME Inv, ShapeInv, NEW c \in Calls,
           InsertInvite(c) \/ MailInvite(c) \/ DeleteInviteRow(c)
    PROVE  Slight(c)
<1>1. /\ call[c].pc \in {"invite", "mailing"} /\ call[c].kind \in {"createInvite", "deleteInvite"}
      /\ UNCHANGED <<settings, project, environments, indices, team, access, failures>>
      /\ \/ Goto(c, "mailing") /\ call[c].user \in invites'
         \/ End(c) /\ Answered(c)
  BY Known2 DEF InsertInvite, MailInvite, DeleteInviteRow, At, KindOK, Answered
<1>2. call[c].made = {}
  BY <1>1, Known2 DEF ShapeOK
<1> QED BY <1>1, <1>2, GotoLight, EndLight DEF Slight, Answered

LEMMA ApiTokensSlight ==
    ASSUME Inv, ShapeInv, NEW c \in Calls, NewToken(c) \/ DeleteToken(c)
    PROVE  Slight(c)
<1>1. /\ call[c].pc = "token" /\ call[c].kind \in {"createApiToken", "deleteApiToken"}
      /\ UNCHANGED <<settings, project, environments, indices, team, access>>
      /\ (End(c) /\ UNCHANGED failures) \/ Refuse(c, Headless)
  BY DEF NewToken, DeleteToken, At
<1>2. call[c].made = {} /\ \A x \in Environments : indices'[x] <= indices[x]
  BY <1>1, Known2 DEF ShapeOK
<1> QED BY <1>1, <1>2, EndLight, RefuseMoves DEF Slight, Answered

LEMMA InsertTemplateSlight ==
    ASSUME Inv, ShapeInv, NEW c \in Calls, NEW e \in Environments, NEW t \in Templates,
           InsertTemplate(c, e, t)
    PROVE  Slight(c)
<1>1. /\ call[c].pc = "templates" /\ call[c].kind = "createTemplates"
      /\ UNCHANGED <<settings, project, environments, indices, team, access>>
      /\ \/ Refuse(c, e)
         \/ End(c) /\ UNCHANGED failures
         \/ call' = [call EXCEPT ![c].todo = @ \ {t}] /\ UNCHANGED failures
  BY Known2 DEF InsertTemplate, KindOK
<1>2. call[c].made = {} /\ \A x \in Environments : indices'[x] <= indices[x]
  BY <1>1, Known2 DEF ShapeOK
<1> QED BY <1>1, <1>2, EndLight, RefuseMoves, LessLight DEF Slight, Answered

LEMMA InsertTokenSlight ==
    ASSUME Inv, ShapeInv, NEW c \in Calls, NEW e \in Environments, InsertToken(c, e)
    PROVE  Slight(c)
<1>1. /\ call[c].pc \in {"tokens", "lateTokens"} /\ e \in call[c].todo
      /\ UNCHANGED <<settings, project, environments, indices, team, access>>
      /\ \/ Refuse(c, e)
         \/ /\ \/ TokensCreated(c) /\ call[c].todo = {e}
               \/ call' = [call EXCEPT ![c].todo = @ \ {e}]
            /\ tokens' = tokens \cup {e} /\ UNCHANGED failures
  BY DEF InsertToken
<1>2. /\ call[c].made = {} /\ \A x \in Environments : indices'[x] <= indices[x]
      /\ call[c].kind \in {"createProject", "bootstrap"}
      /\ call[c].kind = "bootstrap" => e = Headless
  BY <1>1, Known2 DEF ShapeOK, KindOK, Makers
<1>3. TokensCreated(c) => \/ /\ GotoWith(c, "joining", {})
                             /\ call[c].pc = "tokens" /\ call[c].kind = "createProject"
                          \/ End(c) /\ ~ (call[c].pc = "tokens" /\ call[c].kind = "createProject")
  BY DEF TokensCreated
<1>4. {} \in SUBSET (Environments \cup Templates)
  OBVIOUS
<1>5. CASE Refuse(c, e)
  BY <1>1, <1>2, <1>5, RefuseMoves DEF Slight
<1>6. CASE /\ End(c) /\ ~ (call[c].pc = "tokens" /\ call[c].kind = "createProject")
           /\ tokens' = tokens \cup {e} /\ UNCHANGED failures
  BY <1>1, <1>2, <1>6, EndLight DEF Slight, Answered
<1>7. CASE /\ call' = [call EXCEPT ![c].todo = @ \ {e}]
           /\ tokens' = tokens \cup {e} /\ UNCHANGED failures
  BY <1>1, <1>2, <1>7, LessLight DEF Slight
<1>8. CASE /\ GotoWith(c, "joining", {}) /\ call[c].todo = {e}
           /\ tokens' = tokens \cup {e} /\ UNCHANGED failures
           /\ call[c].pc = "tokens" /\ call[c].kind = "createProject"
  BY <1>1, <1>2, <1>4, <1>8, GotoWithLight DEF Slight
<1> QED BY <1>1, <1>3, <1>5, <1>6, <1>7, <1>8

LEMMA ListsSlight ==
    ASSUME Inv, ShapeInv, NEW c \in Calls, GetProject(c) \/ ListEnvironments(c)
    PROVE  Slight(c)
<1>1. /\ UNCHANGED <<settings, project, rowVars, failures>>
      /\ \/ /\ call[c].pc = "getProject" /\ call[c].kind = "bootstrap"
            /\ Goto(c, "getEnvironment") \/ Goto(c, "project")
         \/ /\ call[c].pc = "listing" /\ call[c].kind = "deleteMember"
            /\ GotoWith(c, "leaving", environments)
  BY Known2 DEF GetProject, ListEnvironments, At, KindOK
<1>2. /\ UNCHANGED <<settings, project, environments, indices, team, access, failures>>
      /\ call[c].made = {}
      /\ environments \in SUBSET (Environments \cup Templates)
  BY <1>1, RowsAre, Known2 DEF rowVars, ShapeOK
<1> QED BY <1>1, <1>2, GotoLight, GotoWithLight DEF Slight

-----------------------------------------------------------------------------
(* The steps that are not light *)

\* Nothing was left of the step.
ProjectMade(c, k) ==
    /\ Moves(c, k)
    /\ ~ project /\ project'
    /\ call[c].made = {} /\ k.made = {}
    /\ k.todo = call[c].todo /\ k.kind = call[c].kind
    /\ call[c].pc = "project" /\ k.pc \in {"getEnvironment", "environments"}
    /\ UNCHANGED <<environments, indices, tokens, team, access, failures>>

LEMMA InsertProjectIs ==
    ASSUME Inv, ShapeInv, NEW c \in Calls, InsertProject(c)
    PROVE  \E k \in CallRecords : ProjectMade(c, k) \/ Failed(c, k)
<1>1. /\ call[c].pc = "project" /\ UNCHANGED <<settings, rowVars>>
      /\ call[c].kind \in {"createProject", "bootstrap"} /\ call[c].made = {}
  BY Known2 DEF InsertProject, KindOK, ShapeOK
<1>2. /\ UNCHANGED <<environments, indices, tokens, team, access>>
      /\ \A x \in Environments : indices'[x] <= indices[x]
  BY <1>1, Known2 DEF rowVars
<1>3. CASE project
  <2>1. Refuse(c, Headless) /\ UNCHANGED project
    BY <1>3 DEF InsertProject
  <2> QED BY <1>1, <1>2, <2>1, RefuseMoves
<1>4. CASE ~ project
  <2>1. project' /\ (Goto(c, "getEnvironment") \/ Goto(c, "environments")) /\ UNCHANGED failures
    BY <1>4 DEF InsertProject
  <2>2. PICK k \in CallRecords :
            /\ call' = [call EXCEPT ![c] = k]
            /\ k.kind = call[c].kind /\ k.pc \in {"getEnvironment", "environments"}
            /\ k.user = call[c].user
            /\ k.envs = call[c].envs /\ k.todo = call[c].todo /\ k.made = call[c].made
    BY <2>1, Known2, GotoIs
  <2>3. ShapeOK(k)
    BY <1>1, <2>2, Known2 DEF ShapeOK
  <2> QED BY <1>1, <1>2, <1>4, <2>1, <2>2, <2>3 DEF ProjectMade, Moves
<1> QED BY <1>3, <1>4

IndexMade(c, k, e) ==
    /\ Moves(c, k)
    /\ call[c].pc \in {"environments", "abandoned"} /\ k.pc = call[c].pc
    /\ k.kind = call[c].kind
    /\ e \in call[c].todo
    /\ k.todo = call[c].todo \ {e} /\ k.made = call[c].made \cup {e}
    /\ indices' = [indices EXCEPT ![e] = @ + 1]
    /\ UNCHANGED <<project, environments, tokens, team, access, failures>>

LEMMA CreateIndexIs ==
    ASSUME Inv, ShapeInv, NEW c \in Calls, NEW e \in Environments, CreateIndex(c, e)
    PROVE  \E k \in CallRecords : IndexMade(c, k, e)
<1> DEFINE k == [call[c] EXCEPT !.todo = @ \ {e}, !.made = @ \cup {e}]
<1>1. /\ call[c].pc \in {"environments", "abandoned"} /\ e \in call[c].todo
      /\ indices' = [indices EXCEPT ![e] = @ + 1]
      /\ call' = [call EXCEPT ![c] = k]
      /\ UNCHANGED <<settings, project, environments, tokens, team, access, failures>>
  BY DEF CreateIndex
<1>2. /\ k \in CallRecords
      /\ k.kind = call[c].kind /\ k.pc = call[c].pc /\ k.user = call[c].user
      /\ k.envs = call[c].envs /\ k.todo = call[c].todo \ {e} /\ k.made = call[c].made \cup {e}
  BY Known2 DEF CallRecords
<1> HIDE DEF k
<1>3. ShapeOK(k)
  BY <1>1, <1>2, Known2 DEF ShapeOK
<1>4. call[c].kind # "none"
  BY <1>1, Known2 DEF ShapeOK
<1> QED BY <1>1, <1>2, <1>3, <1>4 DEF IndexMade, Moves

\* The last of its environments takes the call to its next step.
EnvironmentMade(c, k, e) ==
    /\ Moves(c, k)
    /\ call[c].pc \in {"environments", "abandoned"}
    /\ e \in call[c].made /\ k.made = call[c].made \ {e}
    /\ e \in call[c].envs
    /\ e \notin environments /\ environments' = environments \cup {e}
    /\ k.pc \in {"abandoned", "lateTokens"} => k.pc = call[c].pc
    /\ k.pc # "populating" \/ k.kind = "createEnvironment"
    /\ k.pc # "mailing" /\ (k.kind = "none" => call[c].pc = "abandoned")
    /\ call[c].kind = "createEnvironment" =>
          k.kind = call[c].kind /\ k.pc = "populating" /\ k.envs = call[c].envs
    /\ call[c].kind = "createProject" =>
          \/ k.pc = call[c].pc /\ k.todo = call[c].todo
          \/ k.pc = "idle"
          \/ /\ call[c].todo = {} /\ call[c].made = {e}
             /\ call[c].pc = "environments" /\ k.pc = "tokens" /\ k.todo = call[c].envs
    /\ UNCHANGED <<project, indices, tokens, team, access, failures>>

LEMMA InsertEnvironmentIs ==
    ASSUME Inv, ShapeInv, NEW c \in Calls, NEW e \in Environments, InsertEnvironment(c, e)
    PROVE  \E k \in CallRecords : EnvironmentMade(c, k, e) \/ Failed(c, k)
<1>1. /\ call[c].pc \in {"environments", "abandoned"} /\ e \in call[c].made
      /\ UNCHANGED <<settings, project, indices, tokens, team, access>>
  BY DEF InsertEnvironment
<1>2. /\ call[c].kind \in Makers /\ call[c].kind # "none" /\ e \in call[c].envs
      /\ \A x \in Environments : indices'[x] <= indices[x]
  BY <1>1, Known2 DEF ShapeOK, KindOK, Makers
<1>3. CASE e \in environments
  <2>1. Refuse(c, e) /\ UNCHANGED environments
    BY <1>3 DEF InsertEnvironment
  <2> QED BY <1>1, <1>2, <2>1, RefuseMoves
<1>4. CASE e \notin environments
  <2>1. environments' = environments \cup {e} /\ UNCHANGED failures
    BY <1>4 DEF InsertEnvironment
  <2>2. CASE call[c].todo = {} /\ call[c].made = {e}
    <3>1. EnvironmentsCreated(c)
      BY <1>4, <2>2 DEF InsertEnvironment
    <3>2. CASE call[c].pc = "abandoned"
      <4>1. call' = [call EXCEPT ![c] = NoCall] /\ call[c].kind = "createProject"
        BY <3>1, <3>2, Known2 DEF EnvironmentsCreated, End, ShapeOK
      <4> QED
        BY <1>1, <1>2, <1>4, <2>1, <2>2, <3>2, <4>1, NoCallOK, NoCallShape
        DEF EnvironmentMade, Moves
    <3>3. CASE call[c].pc = "environments"
      <4> DEFINE pc == AfterEnvironments[call[c].kind]
                 k == [call[c] EXCEPT !.pc = pc, !.todo = call[c].envs, !.made = {}]
      <4>1. call' = [call EXCEPT ![c] = k]
        BY <3>1, <3>3 DEF EnvironmentsCreated
      <4>2. /\ pc \in Steps /\ (call[c].kind = "createEnvironment" => pc = "populating")
            /\ (call[c].kind = "createProject" => pc = "tokens")
            /\ (call[c].kind = "bootstrap" => pc = "getToken")
        BY <1>2, AfterEnvironmentsAre DEF Makers
      <4>3. /\ k \in CallRecords
            /\ k.kind = call[c].kind /\ k.pc = pc /\ k.user = call[c].user
            /\ k.envs = call[c].envs /\ k.todo = call[c].envs /\ k.made = {}
        <5>1. call[c].envs \in SUBSET (Environments \cup Templates) /\ {} \in SUBSET Environments
          BY Known2
        <5> QED BY <4>2, <5>1, Known2 DEF CallRecords
      <4> HIDE DEF k, pc
      <4>4. ShapeOK(k)
        BY <1>2, <3>3, <4>2, <4>3, Known2 DEF ShapeOK, Makers
      <4> QED
        BY <1>1, <1>2, <1>4, <2>1, <2>2, <3>3, <4>1, <4>2, <4>3, <4>4
        DEF EnvironmentMade, Moves, Makers
    <3> QED BY <1>1, <3>2, <3>3
  <2>3. CASE ~ (call[c].todo = {} /\ call[c].made = {e})
    <3> DEFINE k == [call[c] EXCEPT !.made = @ \ {e}]
    <3>1. call' = [call EXCEPT ![c] = k]
      BY <1>4, <2>3 DEF InsertEnvironment
    <3>2. /\ k \in CallRecords
          /\ k.kind = call[c].kind /\ k.pc = call[c].pc /\ k.user = call[c].user
          /\ k.envs = call[c].envs /\ k.todo = call[c].todo /\ k.made = call[c].made \ {e}
      BY Known2 DEF CallRecords
    <3> HIDE DEF k
    <3>3. ShapeOK(k)
      BY <1>1, <3>2, Known2 DEF ShapeOK
    <3>4. call[c].kind # "createEnvironment"
      <4> SUFFICES ASSUME call[c].kind = "createEnvironment"
                   PROVE  call[c].todo = {} /\ call[c].made = {e}
        BY <2>3
      <4>1. PICK x \in Environments : call[c].envs = {x}
        BY Known2 DEF ShapeOK
      <4>2. call[c].todo \cup call[c].made \subseteq {x}
        BY <4>1, Known2 DEF KindOK, Makers
      <4> QED BY <1>1, <4>2, Known2 DEF ShapeOK
    <3> QED BY <1>1, <1>2, <1>4, <2>1, <3>1, <3>2, <3>3, <3>4 DEF EnvironmentMade, Moves
  <2> QED BY <2>2, <2>3
<1> QED BY <1>3, <1>4

RowsDeleted(c, k, e) ==
    /\ Moves(c, k) /\ k = NoCall
    /\ call[c].made = {} /\ call[c].pc \notin {"populating", "leaving"}
    /\ call[c].kind = "deleteEnvironment"
    /\ e \in environments /\ environments' = environments \ {e}
    /\ indices[e] = 1 /\ indices' = [indices EXCEPT ![e] = 0]
    /\ access' = access \ (Users \X {e})
    /\ UNCHANGED <<project, team, failures>>

LEMMA DeleteRowsIs ==
    ASSUME Inv, ShapeInv, NEW c \in Calls, NEW e \in Environments, DeleteRows(c, e)
    PROVE  \E k \in CallRecords : RowsDeleted(c, k, e) \/ Failed(c, k)
<1>1. /\ call[c].kind = "deleteEnvironment" /\ call[c].pc = "deleting"
      /\ UNCHANGED <<settings, project>>
  BY DEF DeleteRows, At
<1>2. call[c].made = {}
  BY <1>1, Known2 DEF ShapeOK
<1>3. CASE e \notin environments \/ indices[e] # 1
  <2>1. Refuse(c, e) /\ UNCHANGED rowVars
    BY <1>3 DEF DeleteRows
  <2>2. UNCHANGED <<environments, indices, team, access>>
        /\ \A x \in Environments : indices'[x] <= indices[x]
    BY <2>1, Known2 DEF rowVars
  <2> QED BY <1>1, <2>1, <2>2, RefuseMoves
<1>4. CASE ~ (e \notin environments \/ indices[e] # 1)
  <2>1. /\ indices' = [indices EXCEPT ![e] = 0] /\ UNCHANGED team
        /\ \/ /\ environments' = environments \ {e} /\ access' = access \ (Users \X {e})
              /\ End(c) /\ UNCHANGED failures
           \/ Refuse(c, e) /\ UNCHANGED <<environments, access>>
    BY <1>4 DEF DeleteRows
  <2>2. \A x \in Environments : indices'[x] <= indices[x]
    BY <2>1, Known2
  <2>3. CASE Refuse(c, e) /\ UNCHANGED <<environments, access>>
    BY <1>1, <2>1, <2>2, <2>3, RefuseMoves
  <2>4. CASE /\ environments' = environments \ {e} /\ access' = access \ (Users \X {e})
             /\ End(c) /\ UNCHANGED failures
    BY <1>1, <1>2, <1>4, <2>1, <2>4, NoCallOK, NoCallShape DEF RowsDeleted, Moves, End
  <2> QED BY <2>1, <2>3, <2>4
<1> QED BY <1>3, <1>4

UserJoined(c, k) ==
    /\ Moves(c, k)
    /\ call[c].pc = "joining" /\ k.pc = "populating"
    /\ call[c].made = {} /\ k.made = {}
    /\ k.kind = call[c].kind /\ k.kind \in {"createProject", "addUser"}
    /\ k.user = call[c].user /\ k.user \in Users
    /\ team' = team \cup {k.user}
    /\ UNCHANGED <<project, environments, indices, tokens, access, failures>>

LEMMA InsertProjectUserIs ==
    ASSUME Inv, ShapeInv, NEW c \in Calls, InsertProjectUser(c)
    PROVE  \E k \in CallRecords : UserJoined(c, k)
<1>1. /\ call[c].pc = "joining" /\ Goto(c, "populating")
      /\ team' = team \cup {call[c].user}
      /\ UNCHANGED <<settings, project, environments, indices, tokens, access, failures>>
  BY DEF InsertProjectUser
<1>2. PICK k \in CallRecords :
          /\ call' = [call EXCEPT ![c] = k]
          /\ k.kind = call[c].kind /\ k.pc = "populating" /\ k.user = call[c].user
          /\ k.envs = call[c].envs /\ k.todo = call[c].todo /\ k.made = call[c].made
  BY <1>1, Known2, GotoIs
<1>3. /\ call[c].kind \in {"createProject", "addUser"} /\ call[c].user \in Users
      /\ call[c].made = {}
  BY <1>1, Known2 DEF KindOK, ShapeOK
<1>4. ShapeOK(k)
  BY <1>1, <1>2, <1>3, Known2 DEF ShapeOK
<1> QED BY <1>1, <1>2, <1>3, <1>4 DEF UserJoined, Moves

\* All of the new rows are there, for the user or for the environment.
AccessGiven(c, k) ==
    /\ Moves(c, k) /\ k = NoCall
    /\ call[c].pc = "populating" /\ call[c].made = {}
    /\ \/ /\ call[c].user \in Users /\ call[c].kind \in {"createProject", "addUser"}
          /\ access' = access \cup ({call[c].user} \X environments)
       \/ /\ call[c].user = NoUser /\ call[c].kind = "createEnvironment"
          /\ access' = access \cup (team \X call[c].envs)
    /\ UNCHANGED <<project, environments, indices, tokens, team, failures>>

LEMMA PopulateIs ==
    ASSUME Inv, ShapeInv, NEW c \in Calls, PopulateUser(c) \/ PopulateEnvironment(c)
    PROVE  \E k \in CallRecords : AccessGiven(c, k) \/ Failed(c, k)
<1>1. /\ call[c].pc = "populating"
      /\ UNCHANGED <<settings, project, environments, indices, tokens, team>>
  BY DEF PopulateUser, PopulateEnvironment, At
<1>2. /\ call[c].made = {} /\ call[c].kind # "none"
      /\ call[c].kind \in {"addUser", "createProject", "createEnvironment"}
      /\ call[c].kind = "createEnvironment" => call[c].user = NoUser
      /\ call[c].kind \in {"addUser", "createProject"} => call[c].user \in Users
      /\ \A x \in Environments : indices'[x] <= indices[x]
  BY <1>1, Known2 DEF KindOK, ShapeOK
<1>3. CASE Refuse(c, Headless) /\ UNCHANGED <<access, raced>>
  BY <1>1, <1>2, <1>3, RefuseMoves
<1>4. CASE PopulateUser(c)
  <2>1. /\ call[c].user # NoUser
        /\ \/ Refuse(c, Headless) /\ UNCHANGED <<access, raced>>
           \/ /\ access' = access \cup ({call[c].user} \X environments)
              /\ End(c) /\ UNCHANGED failures
    BY <1>4 DEF PopulateUser, Populate
  <2> QED BY <1>1, <1>2, <1>3, <2>1, NoCallOK, NoCallShape DEF AccessGiven, Moves, End
<1>5. CASE PopulateEnvironment(c)
  <2>1. /\ call[c].kind = "createEnvironment"
        /\ \/ Refuse(c, Headless) /\ UNCHANGED <<access, raced>>
           \/ /\ access' = access \cup (team \X call[c].envs)
              /\ End(c) /\ UNCHANGED failures
    BY <1>5 DEF PopulateEnvironment, Populate, At
  <2> QED BY <1>1, <1>2, <1>3, <2>1, NoCallOK, NoCallShape DEF AccessGiven, Moves, End
<1> QED BY <1>4, <1>5

\* Access is taken from who leaves, one environment at a time, ...
AccessTaken(c, k, e) ==
    /\ Moves(c, k)
    /\ call[c].pc = "leaving" /\ k.pc = "leaving"
    /\ call[c].kind = "deleteMember" /\ k.kind = call[c].kind
    /\ call[c].made = {} /\ k.made = {} /\ k.user = call[c].user
    /\ access' = access \ {<<k.user, e>>}
    /\ UNCHANGED <<project, environments, indices, tokens, team, failures>>

LEMMA DeleteEnvUserIs ==
    ASSUME Inv, ShapeInv, NEW c \in Calls, NEW e \in Environments, DeleteEnvUser(c, e)
    PROVE  \E k \in CallRecords : AccessTaken(c, k, e)
<1> DEFINE k == [call[c] EXCEPT !.todo = @ \ {e}]
<1>1. /\ call[c].pc = "leaving" /\ access' = access \ {<<call[c].user, e>>}
      /\ call' = [call EXCEPT ![c] = k]
      /\ UNCHANGED <<settings, project, environments, indices, tokens, team, failures>>
  BY DEF DeleteEnvUser
<1>2. /\ k \in CallRecords
      /\ k.kind = call[c].kind /\ k.pc = call[c].pc /\ k.user = call[c].user
      /\ k.envs = call[c].envs /\ k.todo = call[c].todo \ {e} /\ k.made = call[c].made
  BY Known2 DEF CallRecords
<1> HIDE DEF k
<1>3. ShapeOK(k) /\ call[c].kind = "deleteMember" /\ call[c].made = {}
  BY <1>1, <1>2, Known2 DEF ShapeOK, KindOK
<1> QED BY <1>1, <1>2, <1>3 DEF AccessTaken, Moves

\* ... and then the membership.
UserLeft(c, k) ==
    /\ Moves(c, k) /\ k = NoCall
    /\ call[c].pc = "leaving" /\ call[c].kind = "deleteMember" /\ call[c].made = {}
    /\ team' = team \ {call[c].user}
    /\ UNCHANGED <<project, environments, indices, tokens, access, failures>>

LEMMA DeleteProjectUserIs ==
    ASSUME Inv, ShapeInv, NEW c \in Calls, DeleteProjectUser(c)
    PROVE  \E k \in CallRecords : UserLeft(c, k)
<1>1. /\ call[c].pc = "leaving" /\ team' = team \ {call[c].user} /\ End(c)
      /\ UNCHANGED <<settings, project, environments, indices, tokens, access, failures>>
  BY DEF DeleteProjectUser
<1>2. call[c].kind = "deleteMember" /\ call[c].made = {}
  BY <1>1, Known2 DEF ShapeOK, KindOK
<1> QED BY <1>1, <1>2, NoCallOK, NoCallShape DEF UserLeft, Moves, End

\* A call begins.
Started(c, k) ==
    /\ call' = [call EXCEPT ![c] = k] /\ ShapeOK(k)
    /\ call[c].kind = "none" /\ call[c].pc = "idle" /\ call[c].made = {}
    /\ k.made = {} /\ k.kind # "none"
    /\ k.pc \notin {"idle", "abandoned", "lateTokens", "mailing"}
    /\ k.kind = "createProject" =>
          /\ ~ settings.headless /\ ~ project /\ NoneApart
          /\ \A d \in Calls : call[d].kind # "createProject"
          /\ k.pc = "project" /\ k.todo = Defaults
    /\ k.kind = "bootstrap" => settings.headless
    /\ k.kind = "login" => AllApart
    /\ k.kind \notin {"createProject", "bootstrap", "login"} => Known
    /\ UNCHANGED <<settings, project, environments, indices, tokens, team, access, failures>>

LEMMA StartIs ==
    ASSUME Inv, ShapeInv, NEW c \in Calls, NEW kind \in DOMAIN FirstStep, NEW user, NEW envs,
           NEW todo, Start(c, kind, user, envs, todo), user \in Users \cup {NoUser},
           envs \in SUBSET Environments, todo \in SUBSET (Environments \cup Templates),
           kind = "createEnvironment" => user = NoUser /\ \E e \in Environments : envs = {e},
           kind = "createProject" =>
              /\ ~ settings.headless /\ ~ project /\ NoneApart /\ todo = Defaults
              /\ \A d \in Calls : call[d].kind # "createProject",
           kind = "bootstrap" => settings.headless,
           kind = "login" => AllApart,
           kind \notin {"createProject", "bootstrap", "login"} => Known
    PROVE  \E k \in CallRecords : Started(c, k)
<1> DEFINE k == [kind |-> kind, pc |-> FirstStep[kind], user |-> user, envs |-> envs,
                 todo |-> todo, made |-> {}]
<1>1. call' = [call EXCEPT ![c] = k]
  BY DEF Start
<1>2. /\ k.kind = kind /\ k.pc = FirstStep[kind] /\ k.user = user
      /\ k.envs = envs /\ k.todo = todo /\ k.made = {}
  OBVIOUS
<1>3. FirstStep[kind] \in {"checking", "auditing", "joining", "project", "getProject", "getUser"}
      /\ (FirstStep[kind] = "getUser" => kind = "login")
      /\ (kind = "createProject" => FirstStep[kind] = "project")
      /\ kind # "none" /\ kind \in Kinds
  BY DEF FirstStep, Kinds
<1>4. k \in CallRecords
  <2>1. {} \in SUBSET Environments
    OBVIOUS
  <2> QED BY <1>3, <2>1 DEF CallRecords
<1> HIDE DEF k
<1>5. ShapeOK(k)
  BY <1>2, <1>3 DEF ShapeOK
<1>6. call[c].pc = "idle" /\ UNCHANGED <<settings, project, rowVars, failures>>
  BY DEF Start
<1>7. UNCHANGED <<environments, indices, tokens, team, access>>
  BY <1>6 DEF rowVars
<1>8. call[c].kind = "none" /\ call[c].made = {}
  BY <1>6, Known2 DEF ShapeOK
<1> QED BY <1>1, <1>2, <1>3, <1>4, <1>5, <1>6, <1>7, <1>8 DEF Started

LEMMA StartCallIs ==
    ASSUME Inv, ShapeInv, NEW c \in Calls, StartCall(c)
    PROVE  \E k \in CallRecords : Started(c, k)
<1>1. /\ {} \in SUBSET Environments /\ {} \in SUBSET (Environments \cup Templates)
      /\ Templates \in SUBSET (Environments \cup Templates)
      /\ Defaults \in SUBSET Environments /\ Defaults \in SUBSET (Environments \cup Templates)
      /\ Headless \in Environments
      /\ \A e \in Environments : {e} \in SUBSET Environments
                                 /\ {e} \in SUBSET (Environments \cup Templates)
  BY AdminAssumption
<1>2. DOMAIN FirstStep = {"addUser", "deleteMember", "createProject", "bootstrap",
                          "createEnvironment", "deleteEnvironment", "createTemplates",
                          "createApiToken", "deleteApiToken", "createInvite",
                          "deleteInvite", "login"}
  BY DEF FirstStep
<1>3. CASE NoneApart /\ Bootstrap(c)
  <2>1. settings.headless /\ Start(c, "bootstrap", NoUser, {Headless}, {Headless})
    BY <1>3 DEF Bootstrap
  <2> QED BY <1>1, <1>2, <2>1, StartIs
<1>4. ASSUME NEW u \in Users, NoneApart, CreateProject(c, u)
      PROVE  \E k \in CallRecords : Started(c, k)
  <2>1. /\ ~ settings.headless /\ ~ project /\ \A d \in Calls : call[d].kind # "createProject"
        /\ Start(c, "createProject", u, Defaults, Defaults)
    BY <1>4 DEF CreateProject
  <2> QED BY <1>1, <1>2, <1>4, <2>1, StartIs
<1>5. ASSUME NEW u \in Users,
             AddUser(c, u) \/ DeleteMember(c, u) \/ CreateInvite(c, u) \/ DeleteInvite(c, u)
      PROVE  \E k \in CallRecords : Started(c, k)
  <2>1. /\ Known
        /\ \E kind \in {"addUser", "deleteMember", "createInvite", "deleteInvite"} :
              Start(c, kind, u, {}, {})
    BY <1>5 DEF AddUser, DeleteMember, CreateInvite, DeleteInvite
  <2> QED BY <1>1, <1>2, <2>1, StartIs
<1>6. ASSUME NEW e \in Environments, CreateEnvironment(c, e)
      PROVE  \E k \in CallRecords : Started(c, k)
  <2>1. Known /\ Start(c, "createEnvironment", NoUser, {e}, {e})
    BY <1>6 DEF CreateEnvironment
  <2> QED BY <1>1, <1>2, <2>1, StartIs
<1>7. ASSUME NEW e \in Environments,
             DeleteEnvironment(c, e) \/ CreateApiToken(c, e) \/ DeleteApiToken(c, e)
             \/ CreateTemplates(c, e)
      PROVE  \E k \in CallRecords : Started(c, k)
  <2>1. /\ Known
        /\ \E kind \in {"deleteEnvironment", "createApiToken", "deleteApiToken",
                        "createTemplates"} :
           \E todo \in {{e}, {}, Templates} : Start(c, kind, NoUser, {e}, todo)
    BY <1>7 DEF DeleteEnvironment, CreateApiToken, DeleteApiToken, CreateTemplates
  <2> QED BY <1>1, <1>2, <2>1, StartIs
<1>8. CASE AllApart /\ Login(c)
  <2>1. Start(c, "login", NoUser, {}, {})
    BY <1>8 DEF Login
  <2> QED BY <1>1, <1>2, <1>8, <2>1, StartIs
<1> QED BY <1>3, <1>4, <1>5, <1>6, <1>7, <1>8 DEF StartCall

\* What a step of the call c, which becomes k, can be.
RowStepOf(c, k) ==
    \/ ProjectMade(c, k) \/ UserJoined(c, k) \/ AccessGiven(c, k) \/ UserLeft(c, k)
    \/ \E e \in Environments :
          \/ IndexMade(c, k, e)   \/ EnvironmentMade(c, k, e)
          \/ RowsDeleted(c, k, e) \/ AccessTaken(c, k, e)

StepOf(c, k) == Started(c, k) \/ Light(c, k) \/ Failed(c, k) \/ RowStepOf(c, k)

LEMMA BootstrapStepIs ==
    ASSUME Inv, ShapeInv, NEW c \in Calls, BootstrapStep(c)
    PROVE  \E k \in CallRecords : StepOf(c, k)
<1> USE DEF StepOf, RowStepOf, Slight
<1>1. CASE GetProject(c) \/ GetEnvironment(c) \/ GetToken(c)
  BY <1>1, ListsSlight, GetsSlight
<1>2. CASE InsertProject(c)
  BY <1>2, InsertProjectIs
<1>3. ASSUME NEW e \in Environments, CreateIndex(c, e)
      PROVE  \E k \in CallRecords : StepOf(c, k)
  BY <1>3, CreateIndexIs
<1>4. ASSUME NEW e \in Environments, InsertEnvironment(c, e)
      PROVE  \E k \in CallRecords : StepOf(c, k)
  BY <1>4, InsertEnvironmentIs
<1>5. ASSUME NEW e \in Environments, InsertToken(c, e)
      PROVE  \E k \in CallRecords : StepOf(c, k)
  BY <1>5, InsertTokenSlight
<1> QED BY <1>1, <1>2, <1>3, <1>4, <1>5 DEF BootstrapStep

LEMMA CallStepIs ==
    ASSUME Inv, ShapeInv, NEW c \in Calls, CallStep(c)
    PROVE  \E k \in CallRecords : StepOf(c, k)
<1> USE DEF StepOf, RowStepOf, Slight
<1>1. CASE \/ AuditEvent(c) \/ CheckAccess(c) \/ Abandoned(c) \/ ListEnvironments(c)
           \/ NewToken(c) \/ DeleteToken(c)
           \/ InsertInvite(c) \/ MailInvite(c) \/ DeleteInviteRow(c)
           \/ GetUser(c) \/ CountUsers(c) \/ InsertUser(c) \/ CreateAdminToken(c)
  BY <1>1, ChecksSlight, AbandonedSlight, ListsSlight, ApiTokensSlight, InvitesSlight,
     AccountsSlight
<1>2. CASE InsertProject(c)
  BY <1>2, InsertProjectIs
<1>3. CASE InsertProjectUser(c)
  BY <1>3, InsertProjectUserIs
<1>4. CASE PopulateUser(c) \/ PopulateEnvironment(c)
  BY <1>4, PopulateIs
<1>5. CASE DeleteProjectUser(c)
  BY <1>5, DeleteProjectUserIs
<1>6. ASSUME NEW e \in Environments, CreateIndex(c, e)
      PROVE  \E k \in CallRecords : StepOf(c, k)
  BY <1>6, CreateIndexIs
<1>7. ASSUME NEW e \in Environments, InsertEnvironment(c, e)
      PROVE  \E k \in CallRecords : StepOf(c, k)
  BY <1>7, InsertEnvironmentIs
<1>8. ASSUME NEW e \in Environments, InsertToken(c, e)
      PROVE  \E k \in CallRecords : StepOf(c, k)
  BY <1>8, InsertTokenSlight
<1>9. ASSUME NEW e \in Environments, DeleteRows(c, e)
      PROVE  \E k \in CallRecords : StepOf(c, k)
  BY <1>9, DeleteRowsIs
<1>10. ASSUME NEW e \in Environments, DeleteEnvUser(c, e)
      PROVE  \E k \in CallRecords : StepOf(c, k)
  BY <1>10, DeleteEnvUserIs
<1>11. ASSUME NEW e \in Environments, NEW t \in Templates, InsertTemplate(c, e, t)
      PROVE  \E k \in CallRecords : StepOf(c, k)
  BY <1>11, InsertTemplateSlight
<1> QED
  BY <1>1, <1>2, <1>3, <1>4, <1>5, <1>6, <1>7, <1>8, <1>9, <1>10, <1>11 DEF CallStep

LEMMA StepIs ==
    ASSUME Inv, ShapeInv, [Next]_vars
    PROVE  UNCHANGED vars \/ \E c \in Calls, k \in CallRecords : StepOf(c, k)
<1>1. ASSUME NEW c \in Calls, StartCall(c)
      PROVE  \E k \in CallRecords : StepOf(c, k)
  BY <1>1, StartCallIs DEF StepOf
<1>2. ASSUME NEW c \in Calls, Fail(c)
      PROVE  \E k \in CallRecords : StepOf(c, k)
  BY <1>2, FailMoves DEF StepOf
<1> QED BY <1>1, <1>2, BootstrapStepIs, CallStepIs DEF Next

\* The other calls stay as they are.
LEMMA OthersStay ==
    ASSUME TypeOK, NEW c \in Calls, NEW k \in CallRecords, call' = [call EXCEPT ![c] = k]
    PROVE  call'[c] = k /\ \A d \in Calls \ {c} : call'[d] = call[d]
  BY CallsTyped

-----------------------------------------------------------------------------
(* Shape and solitude *)

LEMMA ShapeInit == Init => ShapeInv /\ AloneInv
<1> SUFFICES ASSUME Init
             PROVE  ShapeInv /\ AloneInv
  OBVIOUS
<1>1. /\ \A c \in Calls : call[c] = NoCall
      /\ ~ project => team = {}
  BY DEF Init
<1>2. ShapeInv
  BY <1>1, NoCallShape DEF ShapeInv
<1>3. AloneInv
  BY <1>1, NoCallOK DEF AloneInv
<1> QED BY <1>2, <1>3

LEMMA ShapeKept ==
    ASSUME Inv, ShapeInv, NEW c \in Calls, NEW k \in CallRecords, StepOf(c, k)
    PROVE  ShapeInv'
<1>1. ShapeOK(k) /\ call' = [call EXCEPT ![c] = k]
  BY DEF StepOf, RowStepOf, Started, Light, Failed, ProjectMade, UserJoined, AccessGiven,
         UserLeft, IndexMade, EnvironmentMade, RowsDeleted, AccessTaken, Moves
<1>2. call'[c] = k /\ \A d \in Calls \ {c} : call'[d] = call[d]
  BY <1>1, OthersStay DEF Inv
<1>3. \A d \in Calls : ShapeOK(call'[d])
  BY <1>1, <1>2 DEF ShapeInv
<1> QED BY <1>3 DEF ShapeInv, ShapeOK

\* A call with a kind is on its own when it creates a project.
LEMMA AloneKept ==
    ASSUME Inv, ShapeInv, AloneInv, NEW c \in Calls, NEW k \in CallRecords, StepOf(c, k)
    PROVE  AloneInv'
<1>1. CASE Started(c, k)
  <2>1. /\ call'[c] = k /\ \A d \in Calls \ {c} : call'[d] = call[d]
        /\ UNCHANGED <<settings, project, team>>
        /\ call[c].kind = "none" /\ k.kind # "none"
    BY <1>1, OthersStay DEF Started, Inv
  <2>2. ASSUME NEW d \in Calls, call[d].kind = "createProject"
        PROVE  FALSE
    <3>1. ~ settings.headless /\ ~ Known /\ ~ AllApart
      BY <2>2 DEF AloneInv, Known, AllApart, Apart
    <3> QED BY <1>1, <2>2, <3>1 DEF Started
  <2>3. ASSUME ~ project
        PROVE  k.kind \in {"none", "createProject", "bootstrap", "login"}
    BY <1>1, <2>3 DEF Started, Known
  <2>4. ASSUME k.kind = "createProject"
        PROVE  /\ ~ settings.headless /\ team = {} /\ k.pc = "project"
               /\ \A d \in Calls \ {c} : call[d].kind = "none"
    BY <1>1, <2>2, <2>4 DEF Started, AloneInv, NoneApart, Apart
  <2>5. k.kind = "bootstrap" => settings.headless
    BY <1>1 DEF Started
  <2> QED BY <2>1, <2>2, <2>3, <2>4, <2>5 DEF AloneInv
<1>2. CASE ~ Started(c, k)
  <2>1. /\ call' = [call EXCEPT ![c] = k] /\ k.kind \in {call[c].kind, "none"}
        /\ call[c].kind # "none" /\ UNCHANGED settings
    BY <1>2 DEF StepOf, RowStepOf, Light, Failed, ProjectMade, UserJoined, AccessGiven,
                UserLeft, IndexMade, EnvironmentMade, RowsDeleted, AccessTaken, Moves
  <2>2. call'[c] = k /\ \A d \in Calls \ {c} : call'[d] = call[d]
    BY <2>1, OthersStay DEF Inv
  <2>3. /\ project \in BOOLEAN /\ project => project' = project
        /\ ~ project /\ project' # project => ProjectMade(c, k) /\ project'
    BY <1>2 DEF StepOf, RowStepOf, Light, Failed, ProjectMade, UserJoined, AccessGiven,
                UserLeft, IndexMade, EnvironmentMade, RowsDeleted, AccessTaken, Inv, TypeOK
  <2>4. \/ UNCHANGED team
        \/ UserLeft(c, k)
        \/ UserJoined(c, k)
    BY <1>2 DEF StepOf, RowStepOf, Light, Failed, ProjectMade, AccessGiven,
                IndexMade, EnvironmentMade, RowsDeleted, AccessTaken
  <2>5. ASSUME NEW d \in Calls, call'[d].kind = "createProject"
        PROVE  d = c /\ call[c].kind = "createProject" /\ k.kind = "createProject"
               /\ \A x \in Calls \ {d} : call'[x].kind = "none"
    BY <2>1, <2>2, <2>5 DEF AloneInv
  <2>6. ASSUME k.kind = "createProject"
        PROVE  /\ k.pc # "project" => project'
               /\ k.pc # "populating" => team' = {}
    <3>1. call[c].kind = "createProject"
      BY <2>1, <2>6
    <3>2. CASE ProjectMade(c, k)
      BY <2>1, <3>1, <3>2 DEF ProjectMade, AloneInv
    <3>3. CASE UserJoined(c, k)
      BY <2>3, <3>1, <3>3 DEF UserJoined, AloneInv
    <3>4. CASE ~ ProjectMade(c, k) /\ ~ UserJoined(c, k)
      <4>1. /\ call[c].pc \notin {"project", "populating"} /\ k.pc # "populating"
            /\ UNCHANGED <<project, team>>
        BY <1>2, <2>6, <3>1, <3>4, NoCallOK
        DEF StepOf, RowStepOf, Light, Failed, AccessGiven, UserLeft, IndexMade,
            EnvironmentMade, RowsDeleted, AccessTaken
      <4> QED BY <3>1, <4>1 DEF AloneInv
    <3> QED BY <3>2, <3>3, <3>4
  <2>7. ASSUME ~ project'
        PROVE  /\ team' = {}
               /\ \A d \in Calls :
                     call'[d].kind \in {"none", "createProject", "bootstrap", "login"}
    <3>1. ~ project
      BY <2>3, <2>7
    <3>2. ~ UserJoined(c, k) /\ ~ UserLeft(c, k)
      BY <3>1 DEF UserJoined, UserLeft, AloneInv
    <3> QED BY <2>1, <2>2, <2>4, <3>1, <3>2 DEF AloneInv
  <2>8. \A d \in Calls : call'[d].kind = "bootstrap" => settings'.headless
    BY <2>1, <2>2 DEF AloneInv
  <2>9. \A d \in Calls : call'[d].kind = "createProject" => ~ settings'.headless
    BY <2>1, <2>5 DEF AloneInv
  <2> QED BY <2>2, <2>5, <2>6, <2>7, <2>8, <2>9 DEF AloneInv
<1> QED BY <1>1, <1>2

LEMMA MadeInvariance == Spec => []MadeInv
<1>1. Init => MadeInv
  BY InitInv, ShapeInit DEF MadeInv
<1>2. MadeInv /\ [Next]_vars /\ Inv' => MadeInv'
  <2> SUFFICES ASSUME MadeInv, [Next]_vars, Inv'
               PROVE  ShapeInv' /\ AloneInv'
    BY DEF MadeInv
  <2>1. CASE UNCHANGED vars
    BY <2>1 DEF MadeInv, vars, ShapeInv, ShapeOK, AloneInv, rowVars
  <2>2. ASSUME NEW c \in Calls, NEW k \in CallRecords, StepOf(c, k)
        PROVE  ShapeInv' /\ AloneInv'
    BY <2>2, ShapeKept, AloneKept DEF MadeInv
  <2> QED BY <2>1, <2>2, StepIs DEF MadeInv
<1> QED BY <1>1, <1>2, Invariance, PTL DEF Spec

-----------------------------------------------------------------------------
(* Indices *)

\* The calls that have made an index and not its row.
Making(e) == {c \in Calls : e \in call[c].made}

RowOf(e) == IF e \in environments THEN 1 ELSE 0

\* Each index has a row or a call that will insert it, or is paid for.
IndexInv ==
    \A e \in Environments :
        /\ indices[e] <= RowOf(e) + Cardinality(Making(e)) + failures
        /\ failures = 0 => RowOf(e) + Cardinality(Making(e)) <= indices[e]

LEMMA MakingStep ==
    ASSUME TypeOK, NEW c \in Calls, NEW k \in CallRecords, call' = [call EXCEPT ![c] = k],
           NEW e
    PROVE  /\ Cardinality(Making(e)) \in Nat /\ Cardinality(Making(e)') \in Nat
           /\ (e \in k.made <=> e \in call[c].made) =>
                 Cardinality(Making(e)') = Cardinality(Making(e))
           /\ e \in k.made /\ e \notin call[c].made =>
                 Cardinality(Making(e)') = Cardinality(Making(e)) + 1
           /\ e \notin k.made /\ e \in call[c].made =>
                 Cardinality(Making(e)') = Cardinality(Making(e)) - 1
<1>1. call'[c] = k /\ \A d \in Calls \ {c} : call'[d] = call[d]
  BY OthersStay
<1>2. Making(e) \subseteq Calls /\ IsFiniteSet(Making(e))
  BY AdminAssumption, FS_Subset DEF Making
<1>3. CASE e \in k.made
  <2>1. Making(e)' = Making(e) \cup {c}
    BY <1>1, <1>3 DEF Making
  <2>2. c \in Making(e) <=> e \in call[c].made
    BY DEF Making
  <2> QED BY <1>2, <1>3, <2>1, <2>2, FS_AddElement, FS_CardinalityType
<1>4. CASE e \notin k.made
  <2>1. Making(e)' = Making(e) \ {c}
    BY <1>1, <1>4 DEF Making
  <2>2. c \in Making(e) <=> e \in call[c].made
    BY DEF Making
  <2>3. IsFiniteSet(Making(e) \ {c})
    BY <1>2, FS_RemoveElement
  <2> QED BY <1>2, <1>4, <2>1, <2>2, <2>3, FS_RemoveElement, FS_CardinalityType
<1> QED BY <1>3, <1>4

LEMMA IndexInit == Init => IndexInv
<1> SUFFICES ASSUME Init, NEW e \in Environments
             PROVE  indices[e] = RowOf(e) /\ Cardinality(Making(e)) = 0 /\ failures = 0
  BY DEF IndexInv, RowOf
<1>1. Making(e) = {}
  BY NoCallShape DEF Init, Making
<1> QED BY <1>1, FS_EmptySet DEF Init, RowOf

LEMMA IndexKept ==
    ASSUME Inv, ShapeInv, IndexInv, Inv', NEW c \in Calls, NEW k \in CallRecords, StepOf(c, k)
    PROVE  IndexInv'
<1> SUFFICES ASSUME NEW e \in Environments
             PROVE  /\ indices'[e] <= RowOf(e)' + Cardinality(Making(e)') + failures'
                    /\ failures' = 0 => RowOf(e)' + Cardinality(Making(e)') <= indices'[e]
  BY DEF IndexInv, Making
<1> DEFINE n == Cardinality(Making(e))
           m == Cardinality(Making(e)')
<1>1. call' = [call EXCEPT ![c] = k]
  BY DEF StepOf, RowStepOf, Started, Light, Failed, ProjectMade, UserJoined, AccessGiven,
         UserLeft, IndexMade, EnvironmentMade, RowsDeleted, AccessTaken, Moves
<1>2. /\ n \in Nat /\ m \in Nat
      /\ (e \in k.made <=> e \in call[c].made) => m = n
      /\ e \in k.made /\ e \notin call[c].made => m = n + 1
      /\ e \notin k.made /\ e \in call[c].made => m = n - 1
  BY <1>1, MakingStep DEF Inv
<1>3. /\ indices[e] <= RowOf(e) + n + failures
      /\ failures = 0 => RowOf(e) + n <= indices[e]
      /\ indices[e] \in Nat /\ RowOf(e) \in {0, 1} /\ failures \in Nat
      /\ indices'[e] \in Nat /\ failures' \in Nat
      /\ indices \in [Environments -> Nat]
  BY DEF IndexInv, Inv, TypeOK, RowOf
<1> HIDE DEF n, m
<1>4. ASSUME k.made = {}, call[c].made = {}, UNCHANGED <<environments, indices, failures>>
      PROVE  /\ indices'[e] <= RowOf(e)' + m + failures'
             /\ failures' = 0 => RowOf(e)' + m <= indices'[e]
  <2>1. RowOf(e)' = RowOf(e) /\ m = n
    BY <1>2, <1>4 DEF RowOf
  <2> QED BY <1>3, <1>4, <2>1
<1>5. ASSUME Failed(c, k)
      PROVE  /\ indices'[e] <= RowOf(e)' + m + failures'
             /\ failures' = 0 => RowOf(e)' + m <= indices'[e]
  <2>1. /\ failures' = failures + 1 /\ RowOf(e)' = RowOf(e) /\ indices'[e] <= indices[e]
        /\ k.made \subseteq call[c].made
    BY <1>5 DEF Failed, RowOf
  <2> QED BY <1>2, <1>3, <2>1
<1>6. ASSUME NEW x \in Environments, IndexMade(c, k, x)
      PROVE  /\ indices'[e] <= RowOf(e)' + m + failures'
             /\ failures' = 0 => RowOf(e)' + m <= indices'[e]
  <2>1. /\ indices' = [indices EXCEPT ![x] = @ + 1] /\ k.made = call[c].made \cup {x}
        /\ x \notin call[c].made /\ failures' = failures /\ RowOf(e)' = RowOf(e)
    BY <1>6, Known2 DEF IndexMade, ShapeOK, RowOf
  <2>2. CASE e = x
    BY <1>2, <1>3, <2>1, <2>2
  <2>3. CASE e # x
    BY <1>2, <1>3, <2>1, <2>3
  <2> QED BY <2>2, <2>3
<1>7. ASSUME NEW x \in Environments, EnvironmentMade(c, k, x)
      PROVE  /\ indices'[e] <= RowOf(e)' + m + failures'
             /\ failures' = 0 => RowOf(e)' + m <= indices'[e]
  <2>1. /\ environments' = environments \cup {x} /\ x \notin environments
        /\ x \in call[c].made /\ k.made = call[c].made \ {x}
        /\ UNCHANGED <<indices, failures>>
    BY <1>7 DEF EnvironmentMade
  <2>2. CASE e = x
    BY <1>2, <1>3, <2>1, <2>2 DEF RowOf
  <2>3. CASE e # x
    BY <1>2, <1>3, <2>1, <2>3 DEF RowOf
  <2> QED BY <2>2, <2>3
<1>8. ASSUME NEW x \in Environments, RowsDeleted(c, k, x)
      PROVE  /\ indices'[e] <= RowOf(e)' + m + failures'
             /\ failures' = 0 => RowOf(e)' + m <= indices'[e]
  <2>1. /\ environments' = environments \ {x} /\ x \in environments
        /\ indices[x] = 1 /\ indices' = [indices EXCEPT ![x] = 0]
        /\ failures' = failures /\ m = n
    BY <1>2, <1>8, NoCallShape DEF RowsDeleted
  <2>2. CASE e = x
    BY <1>2, <1>3, <2>1, <2>2 DEF RowOf
  <2>3. CASE e # x
    BY <1>2, <1>3, <2>1, <2>3 DEF RowOf
  <2> QED BY <2>2, <2>3
<1>9. ASSUME \/ Started(c, k) \/ Light(c, k) \/ ProjectMade(c, k) \/ UserJoined(c, k)
             \/ AccessGiven(c, k) \/ UserLeft(c, k)
             \/ \E x \in Environments : AccessTaken(c, k, x)
      PROVE  /\ indices'[e] <= RowOf(e)' + m + failures'
             /\ failures' = 0 => RowOf(e)' + m <= indices'[e]
  <2>1. k.made = {} /\ call[c].made = {} /\ UNCHANGED <<environments, indices, failures>>
    BY <1>9, NoCallShape DEF Started, Light, ProjectMade, UserJoined, AccessGiven, UserLeft,
                             AccessTaken
  <2> QED BY <1>4, <2>1
<1> QED BY <1>5, <1>6, <1>7, <1>8, <1>9 DEF StepOf, RowStepOf, n, m

\* Without calls, every index has a row, and every row has one index, but for the
\* failures there were: models/environment/create makes the index before the row,
\* models/environment/delete deletes it before the row, and neither is undone.
THEOREM FailuresPay == Spec => []IndicesArePaidFor
<1>1. Init => IndexInv
  BY IndexInit
<1>2. MadeInv /\ MadeInv' /\ IndexInv /\ [Next]_vars => IndexInv'
  <2> SUFFICES ASSUME MadeInv, MadeInv', IndexInv, [Next]_vars
               PROVE  IndexInv'
    OBVIOUS
  <2>1. CASE UNCHANGED vars
    BY <2>1 DEF IndexInv, vars, RowOf, Making, rowVars
  <2> QED BY <2>1, StepIs, IndexKept DEF MadeInv
<1>3. MadeInv /\ IndexInv => IndicesArePaidFor
  <2> SUFFICES ASSUME MadeInv, IndexInv, Quiet, NEW e \in Environments
               PROVE  /\ indices[e] <= RowOf(e) + failures
                      /\ indices[e] >= RowOf(e) \/ failures > 0
    BY DEF IndicesArePaidFor, RowOf
  <2>1. Making(e) = {}
    BY DEF Making, Quiet, MadeInv, ShapeInv, ShapeOK
  <2>2. Cardinality(Making(e)) = 0
    BY <2>1, FS_EmptySet
  <2> QED BY <2>2 DEF IndexInv, MadeInv, Inv, TypeOK, RowOf
<1> QED BY <1>1, <1>2, <1>3, MadeInvariance, PTL DEF Spec

-----------------------------------------------------------------------------
(* Members *)

\* A call that is about to give the user access to the environment, or is taking it.
Covers(k, u, e) ==
    \/ k.pc = "populating" /\ k.user = u
    \/ k.pc = "populating" /\ k.kind = "createEnvironment" /\ e \in k.envs
    \/ k.pc = "leaving" /\ k.user = u

Covered(u, e) == \E c \in Calls : Covers(call[c], u, e)

MemberInv ==
    failures = 0 =>
        /\ \A u \in team : \A e \in environments \ {Headless} :
              <<u, e>> \in access \/ Covered(u, e)
        /\ \A c \in Calls : call[c].pc \notin {"abandoned", "lateTokens"}

LEMMA MemberInit == Init => MemberInv
<1> SUFFICES ASSUME Init
             PROVE  MemberInv
  OBVIOUS
<1>1. team \X environments \subseteq access /\ \A c \in Calls : call[c] = NoCall
  BY DEF Init
<1> QED BY <1>1, NoCallOK DEF MemberInv

\* Who was covered still is, unless it was by the call that moves.
LEMMA CoveredStep ==
    ASSUME TypeOK, NEW c \in Calls, NEW k \in CallRecords, call' = [call EXCEPT ![c] = k],
           NEW u, NEW e, Covered(u, e), Covers(call[c], u, e) => Covers(k, u, e)
    PROVE  Covered(u, e)'
<1>1. call'[c] = k /\ \A d \in Calls \ {c} : call'[d] = call[d]
  BY OthersStay
<1>2. PICK d \in Calls : Covers(call[d], u, e)
  BY DEF Covered
<1>3. Covers(call'[d], u, e)
  BY <1>1, <1>2
<1> QED BY <1>3 DEF Covered, Covers

LEMMA CoversIs ==
    ASSUME TypeOK, NEW c \in Calls, NEW k \in CallRecords, call' = [call EXCEPT ![c] = k],
           NEW u, NEW e, Covers(k, u, e)
    PROVE  Covered(u, e)'
<1>1. call'[c] = k
  BY OthersStay
<1> QED BY <1>1 DEF Covered, Covers

LEMMA MemberKept ==
    ASSUME MadeInv, MemberInv, NEW c \in Calls, NEW k \in CallRecords, StepOf(c, k)
    PROVE  MemberInv'
<1> SUFFICES ASSUME failures' = 0
             PROVE  /\ \A u \in team' : \A e \in environments' \ {Headless} :
                          <<u, e>> \in access' \/ Covered(u, e)'
                    /\ \A d \in Calls : call'[d].pc \notin {"abandoned", "lateTokens"}
  BY DEF MemberInv
<1>1. Inv /\ ShapeInv /\ AloneInv /\ TypeOK
  BY DEF MadeInv, Inv
<1>2. ~ Failed(c, k) /\ failures = 0
  BY <1>1 DEF StepOf, RowStepOf, Started, Light, Failed, ProjectMade, UserJoined, AccessGiven,
         UserLeft, IndexMade, EnvironmentMade, RowsDeleted, AccessTaken, TypeOK
<1>3. /\ \A u \in team : \A e \in environments \ {Headless} :
             <<u, e>> \in access \/ Covered(u, e)
      /\ \A d \in Calls : call[d].pc \notin {"abandoned", "lateTokens"}
  BY <1>2 DEF MemberInv
<1>4. /\ call' = [call EXCEPT ![c] = k]
      /\ call'[c] = k /\ \A d \in Calls \ {c} : call'[d] = call[d]
  <2>1. call' = [call EXCEPT ![c] = k]
    BY DEF StepOf, RowStepOf, Started, Light, Failed, ProjectMade, UserJoined, AccessGiven,
           UserLeft, IndexMade, EnvironmentMade, RowsDeleted, AccessTaken, Moves
  <2> QED BY <1>1, <2>1, OthersStay
<1>5. \A d \in Calls : call'[d].pc \notin {"abandoned", "lateTokens"}
  <2>1. k.pc \in {"abandoned", "lateTokens"} => k.pc = call[c].pc
    BY <1>2, NoCallOK
    DEF StepOf, RowStepOf, Started, Light, ProjectMade, UserJoined, AccessGiven,
        UserLeft, IndexMade, EnvironmentMade, RowsDeleted, AccessTaken
  <2> QED BY <1>3, <1>4, <2>1
<1>6. ASSUME NEW u \in team', NEW e \in environments' \ {Headless}
      PROVE  <<u, e>> \in access' \/ Covered(u, e)'
  <2>1. u \in Users /\ e \in Environments
    <3>1. team \subseteq Users /\ environments \subseteq Environments
      BY <1>1 DEF TypeOK
    <3>2. team' \subseteq Users /\ environments' \subseteq Environments
      BY <3>1 DEF StepOf, RowStepOf, Started, Light, Failed, ProjectMade, UserJoined,
             AccessGiven, UserLeft, IndexMade, EnvironmentMade, RowsDeleted, AccessTaken
    <3> QED BY <3>2
  <2>2. CASE /\ UNCHANGED <<team, environments, access>>
             /\ call[c].pc \notin {"populating", "leaving"}
    BY <1>1, <1>3, <1>4, <2>2, CoveredStep DEF Covers
  <2>3. CASE UserJoined(c, k)
    <3>1. CASE u = k.user
      BY <1>1, <1>4, <2>3, <3>1, CoversIs DEF UserJoined, Covers
    <3>2. CASE u # k.user
      <4>1. /\ u \in team /\ e \in environments \ {Headless} /\ access' = access
            /\ call[c].pc = "joining"
        BY <2>3, <3>2 DEF UserJoined
      <4> QED BY <1>1, <1>3, <1>4, <4>1, CoveredStep DEF Covers
    <3> QED BY <3>1, <3>2
  <2>4. CASE AccessGiven(c, k)
    <3>1. /\ u \in team /\ e \in environments \ {Headless} /\ access \subseteq access'
      BY <2>4 DEF AccessGiven
    <3>2. CASE Covers(call[c], u, e)
      BY <2>1, <2>4, <3>1, <3>2, AdminAssumption DEF AccessGiven, Covers
    <3>3. CASE ~ Covers(call[c], u, e)
      BY <1>1, <1>3, <1>4, <3>1, <3>3, CoveredStep
    <3> QED BY <3>2, <3>3
  <2>5. CASE UserLeft(c, k)
    <3>1. /\ u \in team /\ u # call[c].user /\ e \in environments \ {Headless}
          /\ access' = access /\ call[c].pc = "leaving"
      BY <2>5 DEF UserLeft
    <3> QED BY <1>1, <1>3, <1>4, <3>1, CoveredStep DEF Covers
  <2>6. ASSUME NEW x \in Environments, EnvironmentMade(c, k, x)
        PROVE  <<u, e>> \in access' \/ Covered(u, e)'
    <3>1. /\ u \in team /\ access' = access /\ call[c].pc \in {"environments", "abandoned"}
          /\ environments' = environments \cup {x} /\ x \in call[c].envs
      BY <2>6 DEF EnvironmentMade
    <3>2. CASE e \in environments
      BY <1>1, <1>3, <1>4, <3>1, <3>2, CoveredStep DEF Covers
    <3>3. CASE e \notin environments
      <4>1. e = x /\ call[c].kind \in Makers /\ KindOK(call[c])
        BY <1>1, <3>1, <3>3, Known2 DEF KindOK
      <4>2. call[c].kind # "bootstrap"
        BY <3>1, <4>1 DEF KindOK
      <4>3. call[c].kind # "createProject"
        BY <3>1 DEF MadeInv, AloneInv
      <4>4. k.pc = "populating" /\ k.kind = "createEnvironment" /\ e \in k.envs
        BY <2>6, <3>1, <4>1, <4>2, <4>3 DEF EnvironmentMade, Makers
      <4> QED BY <1>1, <1>4, <4>4, CoversIs DEF Covers
    <3> QED BY <3>2, <3>3
  <2>7. ASSUME NEW x \in Environments, RowsDeleted(c, k, x)
        PROVE  <<u, e>> \in access' \/ Covered(u, e)'
    <3>1. /\ u \in team /\ e \in environments \ {Headless} /\ e # x
          /\ access' = access \ (Users \X {x})
          /\ call[c].pc \notin {"populating", "leaving"}
      BY <2>7 DEF RowsDeleted
    <3>2. <<u, e>> \in access => <<u, e>> \in access'
      BY <3>1
    <3> QED BY <1>1, <1>3, <1>4, <3>1, <3>2, CoveredStep DEF Covers
  <2>8. ASSUME NEW x \in Environments, AccessTaken(c, k, x)
        PROVE  <<u, e>> \in access' \/ Covered(u, e)'
    <3>1. /\ u \in team /\ e \in environments \ {Headless}
          /\ access' = access \ {<<k.user, x>>}
          /\ call[c].pc = "leaving" /\ k.pc = "leaving" /\ k.user = call[c].user
      BY <2>8 DEF AccessTaken
    <3>2. CASE u = k.user
      BY <1>1, <1>4, <3>1, <3>2, CoversIs DEF Covers
    <3>3. CASE u # k.user
      <4>1. <<u, e>> \in access => <<u, e>> \in access'
        BY <3>1, <3>3
      <4> QED BY <1>1, <1>3, <1>4, <3>1, <3>3, <4>1, CoveredStep DEF Covers
    <3> QED BY <3>2, <3>3
  <2>9. CASE \/ Started(c, k) \/ Light(c, k) \/ ProjectMade(c, k)
             \/ \E x \in Environments : IndexMade(c, k, x)
    <3>1. /\ UNCHANGED <<team, environments, access>>
          /\ call[c].pc \notin {"populating", "leaving"}
      BY <2>9 DEF Started, Light, ProjectMade, IndexMade
    <3> QED BY <2>2, <3>1
  <2> QED BY <1>2, <2>3, <2>4, <2>5, <2>6, <2>7, <2>8, <2>9 DEF StepOf, RowStepOf
<1> QED BY <1>5, <1>6

\* Without calls, and if none was answered with an error, every member has access to
\* every environment: populate_from_project copies the environments there are to a
\* new member and the members there are to a new environment, and what comes between
\* is copied by the other or makes it fail.
THEOREM MembersHaveAccess == Spec => []EveryMemberHasAccess
<1>1. MadeInv /\ MemberInv /\ [Next]_vars => MemberInv'
  <2> SUFFICES ASSUME MadeInv, MemberInv, [Next]_vars
               PROVE  MemberInv'
    OBVIOUS
  <2>1. CASE UNCHANGED vars
    BY <2>1 DEF MemberInv, vars, Covered, Covers, rowVars
  <2> QED BY <2>1, StepIs, MemberKept DEF MadeInv
<1>2. MemberInv => EveryMemberHasAccess
  BY DEF MemberInv, EveryMemberHasAccess, Quiet, Covered, Covers
<1> QED BY <1>1, <1>2, MemberInit, MadeInvariance, PTL DEF Spec

-----------------------------------------------------------------------------
(* Answers *)

\* What a call that creates the project has made of it, or is still to make.
ProjectParts(k) ==
    k.kind = "createProject" =>
        /\ k.pc \in {"project", "environments"} =>
              Defaults \subseteq environments \cup k.todo \cup k.made
        /\ k.pc = "tokens" => Defaults \subseteq environments /\ Defaults \subseteq tokens \cup k.todo
        /\ k.pc \in {"joining", "populating"} =>
              Defaults \subseteq environments /\ Defaults \subseteq tokens

\* An invitation that is being mailed is there, or was deleted.
InviteRow(k) == k.pc = "mailing" => k.user \in invites \/ <<"invite", k.user>> \in undone

DoneInv == \A c \in Calls : ProjectParts(call[c]) /\ InviteRow(call[c])

LEMMA DoneInit == Init => DoneInv
<1> SUFFICES ASSUME Init
             PROVE  DoneInv
  OBVIOUS
<1>1. \A c \in Calls : call[c] = NoCall
  BY DEF Init
<1> QED BY <1>1, NoCallOK DEF DoneInv, ProjectParts, InviteRow

\* Whose invitation goes had it deleted.
LEMMA InvitesStay ==
    ASSUME [Next]_vars, NEW u, u \in invites \/ <<"invite", u>> \in undone
    PROVE  u \in invites' \/ <<"invite", u>> \in undone'
<1>1. CASE UNCHANGED <<invites, undone>>
  BY <1>1
<1>2. CASE UNCHANGED vars
  BY <1>2 DEF vars, rowVars, inviteVars
<1>3. ASSUME NEW c \in Calls, StartCall(c)
      PROVE  UNCHANGED <<invites, undone>>
  BY <1>3 DEF StartCall, Start, Bootstrap, CreateProject, AddUser, DeleteMember,
     CreateEnvironment, DeleteEnvironment, CreateApiToken, DeleteApiToken, CreateTemplates,
     Login, CreateInvite, DeleteInvite, rowVars, inviteVars
<1>4. ASSUME NEW c \in Calls, Fail(c)
      PROVE  UNCHANGED <<invites, undone>>
  BY <1>4 DEF Fail, rowVars, inviteVars
<1>5. ASSUME NEW c \in Calls, NEW e \in Environments,
             CreateIndex(c, e) \/ InsertEnvironment(c, e) \/ InsertToken(c, e)
      PROVE  UNCHANGED <<invites, undone>>
  BY <1>5 DEF CreateIndex, InsertEnvironment, InsertToken, inviteVars
<1>6. ASSUME NEW c \in Calls,
             \/ GetProject(c) \/ InsertProject(c) \/ GetEnvironment(c) \/ GetToken(c)
             \/ AuditEvent(c) \/ CheckAccess(c) \/ Abandoned(c) \/ ListEnvironments(c)
             \/ GetUser(c) \/ CountUsers(c) \/ InsertUser(c) \/ CreateAdminToken(c)
      PROVE  UNCHANGED <<invites, undone>>
  BY <1>6 DEF GetProject, InsertProject, GetEnvironment, GetToken, AuditEvent, CheckAccess,
     Abandoned, ListEnvironments, GetUser, CountUsers, InsertUser, CreateAdminToken,
     rowVars, inviteVars
<1>7. ASSUME NEW c \in Calls,
             \/ InsertProjectUser(c) \/ PopulateUser(c) \/ PopulateEnvironment(c) \/ NewToken(c)
             \/ MailInvite(c)
      PROVE  UNCHANGED <<invites, undone>>
  BY <1>7 DEF InsertProjectUser, PopulateUser, PopulateEnvironment, NewToken, MailInvite,
     inviteVars
<1>8. ASSUME NEW c \in Calls, DeleteProjectUser(c) \/ DeleteToken(c) \/ InsertInvite(c)
      PROVE  u \in invites' \/ <<"invite", u>> \in undone'
  BY <1>8 DEF DeleteProjectUser, DeleteToken, InsertInvite, inviteVars
<1>9. ASSUME NEW c \in Calls, DeleteInviteRow(c)
      PROVE  u \in invites' \/ <<"invite", u>> \in undone'
  BY <1>9 DEF DeleteInviteRow
<1>10. ASSUME NEW c \in Calls, NEW e \in Environments, DeleteRows(c, e)
       PROVE  u \in invites' \/ <<"invite", u>> \in undone'
  BY <1>10 DEF DeleteRows, rowVars, inviteVars
<1>11. ASSUME NEW c \in Calls, NEW e \in Environments, DeleteEnvUser(c, e)
       PROVE  UNCHANGED <<invites, undone>>
  BY <1>11 DEF DeleteEnvUser, inviteVars
<1>12. ASSUME NEW c \in Calls, NEW e \in Environments, NEW t \in Templates,
              InsertTemplate(c, e, t)
       PROVE  UNCHANGED <<invites, undone>>
  BY <1>12 DEF InsertTemplate, inviteVars
<1>13. ASSUME NEW c \in Calls, BootstrapStep(c)
       PROVE  UNCHANGED <<invites, undone>>
  BY <1>13, <1>5, <1>6 DEF BootstrapStep
<1>14. ASSUME NEW c \in Calls, CallStep(c)
       PROVE  u \in invites' \/ <<"invite", u>> \in undone'
  BY <1>14, <1>1, <1>5, <1>6, <1>7, <1>8, <1>9, <1>10, <1>11, <1>12 DEF CallStep
<1> QED BY <1>1, <1>2, <1>3, <1>4, <1>13, <1>14 DEF Next

LEMMA DoneKept ==
    ASSUME MadeInv, DoneInv, [Next]_vars, NEW c \in Calls, NEW k \in CallRecords, StepOf(c, k)
    PROVE  DoneInv'
<1> SUFFICES ASSUME NEW d \in Calls
             PROVE  ProjectParts(call[d])' /\ InviteRow(call[d])'
  BY DEF DoneInv
<1>1. Inv /\ ShapeInv /\ AloneInv /\ TypeOK /\ KindOK(call[c])
  BY Known2 DEF MadeInv, Inv
<1>2. /\ call' = [call EXCEPT ![c] = k]
      /\ call'[c] = k /\ \A x \in Calls \ {c} : call'[x] = call[x]
  <2>1. call' = [call EXCEPT ![c] = k]
    BY DEF StepOf, RowStepOf, Started, Light, Failed, ProjectMade, UserJoined, AccessGiven,
           UserLeft, IndexMade, EnvironmentMade, RowsDeleted, AccessTaken, Moves
  <2> QED BY <1>1, <2>1, OthersStay
<1>3. InviteRow(call[d])'
  <2>1. CASE call'[d] = call[d]
    BY <2>1, InvitesStay DEF DoneInv, InviteRow
  <2>2. CASE d = c
    <3>1. k.pc = "mailing" => k.user \in invites'
      BY NoCallOK
      DEF StepOf, RowStepOf, Started, Light, Failed, ProjectMade, UserJoined, AccessGiven,
          UserLeft, IndexMade, EnvironmentMade, RowsDeleted, AccessTaken
    <3> QED BY <1>2, <2>2, <3>1 DEF InviteRow
  <2> QED BY <1>2, <2>1, <2>2
<1>4. ProjectParts(call[d])'
  <2> SUFFICES ASSUME call'[d].kind = "createProject"
               PROVE  ProjectParts(call[d])'
    BY DEF ProjectParts
  <2>1. CASE d # c
    <3>1. call'[d] = call[d] /\ call[d].kind = "createProject"
      BY <1>2, <2>1
    <3>2. call[c].kind = "none"
      BY <1>1, <2>1, <3>1 DEF AloneInv
    <3>3. Started(c, k)
      BY <3>2 DEF StepOf, RowStepOf, Light, Failed, ProjectMade, UserJoined, AccessGiven,
           UserLeft, IndexMade, EnvironmentMade, RowsDeleted, AccessTaken, Moves
    <3>4. UNCHANGED <<environments, tokens>>
      BY <3>3 DEF Started
    <3> QED BY <3>1, <3>4 DEF DoneInv, ProjectParts
  <2>2. CASE d = c
    <3>1. k.kind = "createProject" /\ call'[d] = k
      BY <1>2, <2>2
    <3>2. ProjectParts(call[c])
      BY DEF DoneInv
    <3>3. CASE Started(c, k)
      BY <3>1, <3>3 DEF Started, ProjectParts
    <3>4. CASE ~ Started(c, k)
      <4>1. call[c].kind = "createProject" /\ call[c].envs = Defaults
        BY <1>1, <3>1, <3>4
        DEF KindOK, StepOf, RowStepOf, Light, Failed, ProjectMade, UserJoined, AccessGiven,
            UserLeft, IndexMade, EnvironmentMade, RowsDeleted, AccessTaken, Moves
      <4>2. CASE Light(c, k)
        BY <3>1, <3>2, <4>1, <4>2 DEF Light, TokensLeft, ProjectParts
      <4>3. CASE Failed(c, k)
        BY <3>1, <4>3 DEF Failed, ProjectParts
      <4>4. CASE ProjectMade(c, k)
        BY <3>1, <3>2, <4>1, <4>4 DEF ProjectMade, ProjectParts
      <4>5. CASE UserJoined(c, k)
        BY <3>1, <3>2, <4>1, <4>5 DEF UserJoined, ProjectParts
      <4>6. CASE AccessGiven(c, k) \/ UserLeft(c, k)
        BY <3>1, <4>6, NoCallOK DEF AccessGiven, UserLeft
      <4>7. ASSUME NEW e \in Environments, IndexMade(c, k, e)
            PROVE  ProjectParts(call[d])'
        BY <3>1, <3>2, <4>1, <4>7 DEF IndexMade, ProjectParts
      <4>8. ASSUME NEW e \in Environments, EnvironmentMade(c, k, e)
            PROVE  ProjectParts(call[d])'
        <5>1. /\ call[c].pc \in {"environments", "abandoned"}
              /\ environments' = environments \cup {e} /\ k.made = call[c].made \ {e}
          BY <4>8 DEF EnvironmentMade
        <5>2. CASE k.pc = call[c].pc /\ k.todo = call[c].todo
          <6>1. k.pc = "environments" =>
                   Defaults \subseteq environments \cup call[c].todo \cup call[c].made
            BY <3>2, <4>1, <5>2 DEF ProjectParts
          <6>2. k.pc = "environments" =>
                   Defaults \subseteq environments' \cup k.todo \cup k.made
            BY <5>1, <5>2, <6>1
          <6> QED BY <3>1, <5>1, <5>2, <6>2 DEF ProjectParts
        <5>3. CASE k.pc = "idle"
          BY <3>1, <5>3 DEF ProjectParts
        <5>4. CASE /\ call[c].todo = {} /\ call[c].made = {e} /\ call[c].pc = "environments"
                   /\ k.pc = "tokens" /\ k.todo = call[c].envs
          <6>1. Defaults \subseteq environments \cup {e}
            BY <3>2, <4>1, <5>4 DEF ProjectParts
          <6> QED BY <3>1, <4>1, <5>1, <5>4, <6>1 DEF ProjectParts
        <5> QED BY <4>1, <4>8, <5>2, <5>3, <5>4 DEF EnvironmentMade
      <4>9. ASSUME NEW e \in Environments, RowsDeleted(c, k, e) \/ AccessTaken(c, k, e)
            PROVE  FALSE
        BY <4>1, <4>9 DEF RowsDeleted, AccessTaken
      <4> QED
        BY <3>4, <4>2, <4>3, <4>4, <4>5, <4>6, <4>7, <4>8, <4>9 DEF StepOf, RowStepOf
    <3> QED BY <3>3, <3>4
  <2> QED BY <2>1, <2>2
<1> QED BY <1>3, <1>4

\* A call that ends without an error, seen from the records.
LEMMA DoneStep ==
    ASSUME MadeInv, DoneInv, TypeOK', NEW c \in Calls, NEW k \in CallRecords, StepOf(c, k),
           call[c].pc \notin {"idle", "abandoned", "lateTokens", "checking"},
           call'[c].pc = "idle", failures' = failures
    PROVE  /\ call[c].kind \in {"createProject", "bootstrap"} =>
                \A e \in call[c].envs : e \in environments' /\ e \in tokens'
           /\ call[c].kind = "createProject" =>
                {call[c].user} \X environments' \subseteq access'
           /\ call[c].kind = "createInvite" =>
                /\ Kept("invite", call[c].user, call[c].user \in invites')
                /\ call[c].user \in mails'
<1>1. Inv /\ ShapeInv /\ TypeOK /\ KindOK(call[c]) /\ ShapeOK(k) /\ failures \in Nat
      /\ ProjectParts(call[c]) /\ InviteRow(call[c])
  <2>1. ShapeOK(k)
    BY DEF StepOf, RowStepOf, Started, Light, Failed, ProjectMade, UserJoined, AccessGiven,
           UserLeft, IndexMade, EnvironmentMade, RowsDeleted, AccessTaken, Moves
  <2> QED BY <2>1, Known2 DEF MadeInv, DoneInv
<1>2. k.pc = "idle" /\ k.kind = "none"
  <2>1. call' = [call EXCEPT ![c] = k]
    BY DEF StepOf, RowStepOf, Started, Light, Failed, ProjectMade, UserJoined, AccessGiven,
           UserLeft, IndexMade, EnvironmentMade, RowsDeleted, AccessTaken, Moves
  <2> QED BY <1>1, <2>1, OthersStay DEF ShapeOK
<1>3. \/ Light(c, k) \/ AccessGiven(c, k) \/ UserLeft(c, k)
      \/ \E e \in Environments : RowsDeleted(c, k, e)
  BY <1>1, <1>2
  DEF StepOf, RowStepOf, Started, Failed, ProjectMade, UserJoined, IndexMade,
      EnvironmentMade, AccessTaken, ShapeOK
<1>4. CASE Light(c, k)
  <2>1. Answered(c)
    BY <1>2, <1>4 DEF Light
  <2>2. call[c].kind # "createProject"
    BY <2>1 DEF Answered
  <2>3. call[c].kind = "bootstrap" => \A e \in call[c].envs : e \in environments' /\ e \in tokens'
    BY <1>1, <2>1 DEF Answered, KindOK, TypeOK
  <2>4. call[c].kind = "createInvite" =>
           /\ Kept("invite", call[c].user, call[c].user \in invites')
           /\ call[c].user \in mails'
    BY <1>1, <2>1 DEF Answered, InviteRow, Kept
  <2> QED BY <2>2, <2>3, <2>4
<1>5. CASE AccessGiven(c, k)
  <2>1. /\ call[c].kind \notin {"bootstrap", "createInvite"} /\ call[c].pc = "populating"
        /\ UNCHANGED <<environments, tokens>>
        /\ call[c].kind = "createProject" =>
              access' = access \cup ({call[c].user} \X environments)
    BY <1>5 DEF AccessGiven
  <2> QED BY <1>1, <2>1 DEF ProjectParts, KindOK
<1>6. CASE UserLeft(c, k) \/ \E e \in Environments : RowsDeleted(c, k, e)
  BY <1>6 DEF UserLeft, RowsDeleted
<1> QED BY <1>3, <1>4, <1>5, <1>6

\* A call that is answered without an error has done what it was to do: a project has
\* both environments with their tokens and its creator access to them, a bootstrap its
\* environment and its token, an invitation is there and mailed, but for what another
\* call has deleted since.
THEOREM AnswersAreDone == Spec => AnsweredIsDone
<1>1. MadeInv /\ DoneInv /\ [Next]_vars => DoneInv'
  <2> SUFFICES ASSUME MadeInv, DoneInv, [Next]_vars
               PROVE  DoneInv'
    OBVIOUS
  <2>1. CASE UNCHANGED vars
    BY <2>1 DEF DoneInv, ProjectParts, InviteRow, vars, rowVars, inviteVars
  <2> QED BY <2>1, StepIs, DoneKept DEF MadeInv
<1>2. ASSUME MadeInv, DoneInv, TypeOK', [Next]_vars, NEW c \in Calls,
             call[c].pc \notin {"idle", "abandoned", "lateTokens", "checking"},
             call'[c].pc = "idle", failures' = failures
      PROVE  /\ call[c].kind \in {"createProject", "bootstrap"} =>
                  \A e \in call[c].envs : e \in environments' /\ e \in tokens'
             /\ call[c].kind = "createProject" =>
                  {call[c].user} \X environments' \subseteq access'
             /\ call[c].kind = "createInvite" =>
                  /\ Kept("invite", call[c].user, call[c].user \in invites')
                  /\ call[c].user \in mails'
  <2>1. PICK d \in Calls, k \in CallRecords : StepOf(d, k)
    <3>1. ~ UNCHANGED vars
      BY <1>2 DEF vars
    <3> QED BY <1>2, <3>1, StepIs DEF MadeInv
  <2>2. d = c
    <3>1. call' = [call EXCEPT ![d] = k]
      BY <2>1 DEF StepOf, RowStepOf, Started, Light, Failed, ProjectMade, UserJoined, AccessGiven,
             UserLeft, IndexMade, EnvironmentMade, RowsDeleted, AccessTaken, Moves
    <3> QED BY <1>2, <3>1, OthersStay DEF MadeInv, Inv
  <2> QED BY <1>2, <2>1, <2>2, DoneStep
<1>3. MadeInv /\ DoneInv /\ TypeOK' /\ [Next]_vars =>
         [\A c \in Calls :
            /\ call[c].pc \notin {"idle", "abandoned", "lateTokens", "checking"}
            /\ call'[c].pc = "idle" /\ failures' = failures
            =>
            /\ call[c].kind \in {"createProject", "bootstrap"} =>
                  \A e \in call[c].envs :
                      Kept("environment", e, e \in environments'
                                             /\ Kept("token", e, e \in tokens'))
            /\ call[c].kind = "createProject" =>
                  Kept("member", call[c].user, {call[c].user} \X environments' \subseteq access')
            /\ call[c].kind = "createInvite" =>
                  /\ Kept("invite", call[c].user, call[c].user \in invites')
                  /\ call[c].user \in mails']_vars
  BY <1>2 DEF Kept
<1>4. MadeInv => TypeOK
  BY DEF MadeInv, Inv
<1> QED BY <1>1, <1>3, <1>4, DoneInit, MadeInvariance, PTL DEF Spec, AnsweredIsDone

=============================================================================
