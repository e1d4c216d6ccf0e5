---------------------------- MODULE ProjectAdmin -----------------------------
(***************************************************************************)
(* One project and what the admin API keeps of it: its environments, their  *)
(* tokens and templates, the members of its team, and the environments each *)
(* member has access to (projectuser and environmentuser).                  *)
(*                                                                         *)
(* A call is a sequence of awaited statements and nothing is locked or,     *)
(* but for the deletion of an environment, put in a transaction: calls      *)
(* interleave at every statement, and one that fails leaves what it has     *)
(* done.  The calls of most endpoints are reported to an audit log, which   *)
(* is another project of the same API, if the process has the three ids of   *)
(* that log in its settings, which by default it has not: without them a     *)
(* call reports nothing and goes on.                                        *)
(*                                                                         *)
(* The project is either created by a user, or is the headless one, which   *)
(* the bootstrap command, or every API process when it starts, creates,     *)
(* environment and token included, under configured ids, and retries until   *)
(* it succeeds: for ever, if the environment or the token it was given is    *)
(* another project's.  The environment has an id in the settings here; an    *)
(* API started with HEADLESS_ENV_ID but without HEADLESS_PROJECT_ENV looks   *)
(* for the id '' (headless.ts:16, 125), and makes default environments in a  *)
(* new project and one more environment at each start, which is left out.    *)
(*                                                                         *)
(* Membership is checked at the beginning of a call alone, and an admin     *)
(* token stands in for it, so that any call may pass the check.             *)
(***************************************************************************)
EXTENDS Naturals, FiniteSets

CONSTANTS
    Users,
    NoUser,
    Environments,
    Headless,     \* the configured environment of the headless project
    Defaults,     \* Production and Staging
    Templates,
    Calls,        \* calls that run at once
    MaxStarts,    \* calls made
    MaxFaults     \* failed statements and dead API processes

ASSUME AdminAssumption ==
    /\ NoUser \notin Users
    /\ Defaults \subseteq Environments
    /\ Headless \in Environments \ Defaults
    /\ IsFiniteSet(Calls)
    /\ MaxStarts \in Nat /\ MaxFaults \in Nat

VARIABLES
    settings,      \* the project is the headless one; calls are reported; which of
                   \* the configured ids, of an environment and of a token, are
                   \* another project's
    project,       \* its row exists
    environments,  \* environment rows
    indices,       \* per environment, indices with its write alias
    tokens,        \* environments with a token
    templates,     \* display_template rows, as <<template, environment>>
    invites,       \* users invited to the project
    mails,         \* users an invitation was mailed to
    team,          \* projectuser rows
    access,        \* environmentuser rows, as <<user, environment>>
    accounts,      \* retraceduser rows with one e-mail address
    audited,       \* what the audit log was told: <<kind of call, its object>>
    call,          \* the calls
    undone,        \* what was deleted
    raced,         \* users given access while they were being removed
    failures,      \* calls, or attempts of bootstraps, that failed
    starts

inviteVars == <<invites, mails>>
rowVars == <<environments, indices, tokens, templates, inviteVars, team, access>>
vars == <<settings, project, rowVars, accounts, audited, call, undone, raced, failures,
          starts>>

-----------------------------------------------------------------------------
(* Calls *)

FirstStep ==
    [addUser |-> "joining", deleteMember |-> "checking", createProject |-> "project",
     bootstrap |-> "getProject", createEnvironment |-> "auditing",
     deleteEnvironment |-> "checking", createTemplates |-> "auditing",
     createApiToken |-> "auditing", deleteApiToken |-> "auditing",
     createInvite |-> "auditing", deleteInvite |-> "auditing", login |-> "getUser"]

AfterCheck ==
    [deleteMember |-> "listing", createEnvironment |-> "environments",
     deleteEnvironment |-> "auditing", createTemplates |-> "templates",
     createApiToken |-> "token", deleteApiToken |-> "token",
     createInvite |-> "invite", deleteInvite |-> "invite"]

Kinds == DOMAIN FirstStep \cup {"none"}

Steps == {"idle", "checking", "auditing", "listing", "leaving", "joining", "populating",
          "project", "environments", "abandoned", "tokens", "lateTokens", "templates", "token",
          "invite", "mailing",
          "deleting", "getProject", "getEnvironment", "getToken", "getUser", "counting",
          "signing", "adminToken"}

\* todo: what is left of the step; made: environments indexed but not inserted.
NoCall == [kind |-> "none", pc |-> "idle", user |-> NoUser, envs |-> {}, todo |-> {},
           made |-> {}]

Settings == [headless : BOOLEAN, reports : BOOLEAN, foreign : SUBSET {"environment", "token"}]

TypeOK ==
    /\ settings \in Settings /\ project \in BOOLEAN
    /\ environments \subseteq Environments
    /\ environments # {} => project
    /\ indices \in [Environments -> Nat]
    /\ tokens \subseteq environments
    /\ templates \subseteq Templates \X environments
    /\ invites \subseteq Users /\ mails \subseteq Users
    /\ team \subseteq Users
    /\ access \subseteq Users \X environments
    /\ call \in [Calls -> [kind : Kinds, pc : Steps, user : Users \cup {NoUser},
                           envs : SUBSET Environments,
                           todo : SUBSET (Environments \cup Templates),
                           made : SUBSET Environments]]
    /\ raced \subseteq Users
    /\ accounts \in Nat /\ failures \in Nat /\ starts \in 0..MaxStarts

\* Nothing yet, or a project that a user created.
Init ==
    /\ settings \in Settings
    /\ settings.foreign # {} => settings.headless
    /\ project \in {FALSE, ~ settings.headless}
    /\ environments = IF project THEN Defaults ELSE {}
    /\ tokens = environments
    /\ indices = [e \in Environments |-> IF e \in environments THEN 1 ELSE 0]
    /\ IF project THEN \E u \in Users : team = {u} ELSE team = {}
    /\ access = team \X environments
    /\ templates = {} /\ invites = {} /\ mails = {}
    /\ accounts = 0
    /\ audited = {}
    /\ call = [c \in Calls |-> NoCall]
    /\ undone = {} /\ raced = {}
    /\ failures = 0 /\ starts = 0

Start(c, kind, user, envs, todo) ==
    /\ call[c].pc = "idle"
    /\ starts < MaxStarts
    /\ starts' = starts + 1
    /\ call' = [call EXCEPT ![c] = [kind |-> kind, pc |-> FirstStep[kind], user |-> user,
                                    envs |-> envs, todo |-> todo, made |-> {}]]
    /\ UNCHANGED <<settings, project, rowVars, accounts, audited, undone, raced, failures>>

At(c, kind, pc) == call[c].kind = kind /\ call[c].pc = pc

Goto(c, pc) == call' = [call EXCEPT ![c].pc = pc]

GotoWith(c, pc, todo) == call' = [call EXCEPT ![c].pc = pc, ![c].todo = todo]

End(c) == call' = [call EXCEPT ![c] = NoCall]

\* Mutant: the API whose bootstrap failed stays up without it.
RetryNever(c) ==
    call' = [call EXCEPT ![c] = IF call[c].kind = "bootstrap"
                                THEN [@ EXCEPT !.pc = "abandoned", !.todo = {}, !.made = {}]
                                ELSE NoCall]

\* The bootstrap command retries, and so does, as it is started again, an API whose
\* bootstrap failed; other callers are answered with the error.
Retry(c) ==
    call' = [call EXCEPT ![c] = IF call[c].kind = "bootstrap"
                                THEN [@ EXCEPT !.pc = "getProject", !.made = {}]
                                ELSE NoCall]

\* The statement the call is at fails, on the part e of it.  createProject makes
\* environments, and then tokens, side by side: it is answered with the first
\* error, and the others go on.
SideBySide(c) ==
    call[c].kind = "createProject" /\ call[c].pc \in {"environments", "tokens"}

Error(c, e) ==
    IF SideBySide(c)
    THEN call' = [call EXCEPT ![c].pc = IF @ = "tokens" THEN "lateTokens" ELSE "abandoned",
                              ![c].todo = @ \ {e}, ![c].made = @ \ {e}]
    ELSE Retry(c)

Refuse(c, e) ==
    /\ failures' = failures + 1
    /\ Error(c, e)

Fail(c) ==
    /\ call[c].pc # "idle"
    /\ failures < MaxFaults
    /\ \E e \in IF SideBySide(c) THEN call[c].todo \cup call[c].made ELSE {Headless} :
          Refuse(c, e)
    /\ UNCHANGED <<settings, project, rowVars, accounts, audited, undone, raced, starts>>

\* Mutant: the report is not awaited and may be lost.
AuditUnawaited(c) ==
    /\ call[c].pc = "auditing"
    /\ Goto(c, IF call[c].kind = "deleteEnvironment" THEN "deleting" ELSE "checking")
    /\ UNCHANGED <<settings, project, rowVars, accounts, audited, undone, raced, failures,
                   starts>>

\* audit: awaited before anything is changed, if calls are reported at all.  The
\* object is the environment, or the user.
AuditEvent(c) ==
    /\ call[c].pc = "auditing"
    /\ audited' = IF settings.reports
                  THEN audited \cup ({call[c].kind} \X (call[c].envs \cup {call[c].user}))
                  ELSE audited
    /\ Goto(c, IF call[c].kind = "deleteEnvironment" THEN "deleting" ELSE "checking")
    /\ UNCHANGED <<settings, project, rowVars, accounts, undone, raced, failures, starts>>

\* checkAdminAccess: the call goes on or is answered 404.
CheckAccess(c) ==
    /\ call[c].pc = "checking"
    /\ Goto(c, AfterCheck[call[c].kind]) \/ End(c)
    /\ UNCHANGED <<settings, project, rowVars, accounts, audited, undone, raced, failures,
                   starts>>

-----------------------------------------------------------------------------
(* Projects and environments *)

InUse == UNION {call[c].envs : c \in Calls}

\* A user creates the project, or an API process or the bootstrap command does.
CreateProject(c, u) ==
    /\ ~ settings.headless /\ ~ project
    /\ \A d \in Calls : call[d].kind # "createProject"
    /\ Start(c, "createProject", u, Defaults, Defaults)

Bootstrap(c) ==
    /\ settings.headless
    /\ Start(c, "bootstrap", NoUser, {Headless}, {Headless})

GetProject(c) ==
    /\ At(c, "bootstrap", "getProject")
    /\ Goto(c, IF project THEN "getEnvironment" ELSE "project")
    /\ UNCHANGED <<settings, project, rowVars, accounts, audited, undone, raced, failures,
                   starts>>

InsertProject(c) ==
    /\ call[c].pc = "project"
    /\ IF project
       THEN /\ Refuse(c, Headless)
            /\ UNCHANGED project
       ELSE /\ project' = TRUE
            /\ Goto(c, IF call[c].kind = "bootstrap" THEN "getEnvironment"
                                                     ELSE "environments")
            /\ UNCHANGED failures
    /\ UNCHANGED <<settings, rowVars, accounts, audited, undone, raced, starts>>

\* Mutant: the environment is not looked for.
GetNoEnvironment(c) ==
    /\ At(c, "bootstrap", "getEnvironment")
    /\ GotoWith(c, "environments", {Headless})
    /\ UNCHANGED <<settings, project, rowVars, accounts, audited, undone, raced, failures,
                   starts>>

\* That of another project is an error.
GetEnvironment(c) ==
    /\ At(c, "bootstrap", "getEnvironment")
    /\ IF "environment" \in settings.foreign THEN Retry(c)
       ELSE IF Headless \in environments THEN Goto(c, "getToken")
       ELSE GotoWith(c, "environments", {Headless})
    /\ UNCHANGED <<settings, project, rowVars, accounts, audited, undone, raced, failures,
                   starts>>

\* Nobody has the id of a project before its creation is answered, but for the
\* configured one.
Known == project /\ (settings.headless \/ \A d \in Calls : call[d].kind # "createProject")

CreateEnvironment(c, e) ==
    /\ Known
    /\ e \notin Defaults \cup {Headless} \cup environments \cup InUse
    /\ <<"environment", e>> \notin undone /\ indices[e] = 0
    /\ Start(c, "createEnvironment", NoUser, {e}, {e})

\* models/environment/create: the index with its aliases ...
CreateIndex(c, e) ==
    /\ call[c].pc \in {"environments", "abandoned"}
    /\ e \in call[c].todo
    /\ indices' = [indices EXCEPT ![e] = @ + 1]
    /\ call' = [call EXCEPT ![c].todo = @ \ {e}, ![c].made = @ \cup {e}]
    /\ UNCHANGED <<settings, project, environments, tokens, templates, inviteVars, team, access,
                   accounts, audited, undone, raced, failures, starts>>

AfterEnvironments ==
    [createProject |-> "tokens", createEnvironment |-> "populating", bootstrap |-> "getToken"]

EnvironmentsCreated(c) ==
    IF call[c].pc = "abandoned" THEN End(c)
    ELSE call' = [call EXCEPT ![c].pc = AfterEnvironments[call[c].kind],
                              ![c].todo = call[c].envs, ![c].made = {}]

\* ... and then the row, for which a bootstrap brings its own id.
InsertEnvironment(c, e) ==
    /\ call[c].pc \in {"environments", "abandoned"}
    /\ e \in call[c].made
    /\ IF e \in environments
       THEN /\ Refuse(c, e)
            /\ UNCHANGED environments
       ELSE /\ environments' = environments \cup {e}
            /\ IF call[c].todo = {} /\ call[c].made = {e}
               THEN EnvironmentsCreated(c)
               ELSE call' = [call EXCEPT ![c].made = @ \ {e}]
            /\ UNCHANGED failures
    /\ UNCHANGED <<settings, project, indices, tokens, templates, inviteVars, team, access, accounts,
                   audited, undone, raced, starts>>

Abandoned(c) ==
    /\ call[c].pc \in {"abandoned", "lateTokens"}
    /\ call[c].todo = {} /\ call[c].made = {}
    /\ End(c)
    /\ UNCHANGED <<settings, project, rowVars, accounts, audited, undone, raced, failures,
                   starts>>

GetToken(c) ==
    /\ At(c, "bootstrap", "getToken")
    /\ IF "token" \in settings.foreign THEN Retry(c)
       ELSE IF Headless \in tokens THEN End(c)
       ELSE GotoWith(c, "tokens", {Headless})
    /\ UNCHANGED <<settings, project, rowVars, accounts, audited, undone, raced, failures,
                   starts>>

TokensCreated(c) ==
    IF call[c].pc = "tokens" /\ call[c].kind = "createProject"
    THEN GotoWith(c, "joining", {})
    ELSE End(c)

\* Mutant: the first of several tokens is enough.
InsertTokenOnce(c, e) ==
    /\ call[c].pc \in {"tokens", "lateTokens"}
    /\ e \in call[c].todo
    /\ IF e \in environments \ tokens
       THEN /\ tokens' = tokens \cup {e}
            /\ TokensCreated(c)
            /\ UNCHANGED failures
       ELSE /\ Refuse(c, e)
            /\ UNCHANGED tokens
    /\ UNCHANGED <<settings, project, environments, indices, templates, inviteVars, team,
                   access, accounts, audited, undone, raced, starts>>

\* The environment may be gone; the bootstrap's token may be there by now.
InsertToken(c, e) ==
    /\ call[c].pc \in {"tokens", "lateTokens"}
    /\ e \in call[c].todo
    /\ IF e \in environments \ tokens
       THEN /\ tokens' = tokens \cup {e}
            /\ IF call[c].todo = {e} THEN TokensCreated(c)
               ELSE call' = [call EXCEPT ![c].todo = @ \ {e}]
            /\ UNCHANGED failures
       ELSE /\ Refuse(c, e)
            /\ UNCHANGED tokens
    /\ UNCHANGED <<settings, project, environments, indices, templates, inviteVars, team, access,
                   accounts, audited, undone, raced, starts>>

DeleteEnvironment(c, e) ==
    /\ Known /\ e \in environments
    /\ Start(c, "deleteEnvironment", NoUser, {e}, {e})

\* Mutant: the index is left behind.
DeleteRowsAlone(c, e) ==
    /\ At(c, "deleteEnvironment", "deleting") /\ e \in call[c].envs
    /\ e \in environments
    /\ environments' = environments \ {e}
    /\ tokens' = tokens \ {e}
    /\ templates' = templates \ (Templates \X {e})
    /\ access' = access \ (Users \X {e})
    /\ undone' = undone \cup {<<"environment", e>>}
    /\ End(c)
    /\ UNCHANGED <<settings, project, indices, inviteVars, team, accounts, audited, raced,
                   failures, starts>>

\* models/environment/delete: one transaction; it fails unless one index has the
\* aliases, and with its index gone when it cannot commit.
DeleteRows(c, e) ==
    /\ At(c, "deleteEnvironment", "deleting") /\ e \in call[c].envs
    /\ IF e \notin environments \/ indices[e] # 1
       THEN /\ Refuse(c, e)
            /\ UNCHANGED <<rowVars, undone>>
       ELSE /\ indices' = [indices EXCEPT ![e] = 0]
            /\ \/ /\ environments' = environments \ {e}
                  /\ tokens' = tokens \ {e}
                  /\ templates' = templates \ (Templates \X {e})
                  /\ access' = access \ (Users \X {e})
                  /\ undone' = undone \cup {<<"environment", e>>}
                  /\ End(c)
                  /\ UNCHANGED failures
               \/ /\ failures < MaxFaults
                  /\ Refuse(c, e)
                  /\ UNCHANGED <<environments, tokens, templates, inviteVars, access, undone>>
            /\ UNCHANGED <<inviteVars, team>>
    /\ UNCHANGED <<settings, project, accounts, audited, raced, starts>>

-----------------------------------------------------------------------------
(* The team *)

\* Somebody accepts an invitation.
AddUser(c, u) ==
    /\ Known /\ u \notin team
    /\ \A d \in Calls : ~ (call[d].kind = "addUser" /\ call[d].user = u)
    /\ Start(c, "addUser", u, {}, {})

Leaving(u) ==
    u \notin team \/ \E d \in Calls : At(d, "deleteMember", "leaving") /\ call[d].user = u

\* insert into environmentuser ... select: all of the rows or, when one is there
\* already, none.
Populate(c, new) ==
    IF new \cap access # {}
    THEN /\ Refuse(c, Headless)
         /\ UNCHANGED <<access, raced>>
    ELSE /\ access' = access \cup new
         /\ raced' = raced \cup {u \in Users : Leaving(u) /\ \E a \in new : a[1] = u}
         /\ End(c)
         /\ UNCHANGED failures

InsertProjectUser(c) ==
    /\ call[c].pc = "joining"
    /\ team' = team \cup {call[c].user}
    /\ Goto(c, "populating")
    /\ UNCHANGED <<settings, project, environments, indices, tokens, templates, inviteVars, access,
                   accounts, audited, undone, raced, failures, starts>>

\* Mutant: the user is added to the default environments.
PopulateUserDefaults(c) ==
    /\ call[c].pc = "populating" /\ call[c].user # NoUser
    /\ Populate(c, {call[c].user} \X (Defaults \cap environments))
    /\ UNCHANGED <<settings, project, environments, indices, tokens, templates, inviteVars,
                   team, accounts, audited, undone, starts>>

\* The environments of the project as they are now, for the user.
PopulateUser(c) ==
    /\ call[c].pc = "populating" /\ call[c].user # NoUser
    /\ Populate(c, {call[c].user} \X environments)
    /\ UNCHANGED <<settings, project, environments, indices, tokens, templates, inviteVars, team,
                   accounts, audited, undone, starts>>

\* The members of the project as they are now, for the environment.
PopulateEnvironment(c) ==
    /\ At(c, "createEnvironment", "populating")
    /\ IF call[c].envs \subseteq environments \/ team = {}
       THEN Populate(c, team \X call[c].envs)
       ELSE Refuse(c, Headless) /\ UNCHANGED <<access, raced>>
    /\ UNCHANGED <<settings, project, environments, indices, tokens, templates, inviteVars, team,
                   accounts, audited, undone, starts>>

DeleteMember(c, u) ==
    /\ Known /\ u \in team
    /\ Start(c, "deleteMember", u, {}, {})

\* Mutant: environments without a token are not listed.
ListWithToken(c) ==
    /\ call[c].pc = "listing"
    /\ GotoWith(c, "leaving", tokens)
    /\ UNCHANGED <<settings, project, rowVars, accounts, audited, undone, raced, failures,
                   starts>>

ListEnvironments(c) ==
    /\ call[c].pc = "listing"
    /\ GotoWith(c, "leaving", environments)
    /\ UNCHANGED <<settings, project, rowVars, accounts, audited, undone, raced, failures,
                   starts>>

DeleteEnvUser(c, e) ==
    /\ call[c].pc = "leaving" /\ e \in call[c].todo
    /\ access' = access \ {<<call[c].user, e>>}
    /\ call' = [call EXCEPT ![c].todo = @ \ {e}]
    /\ UNCHANGED <<settings, project, environments, indices, tokens, templates, inviteVars, team,
                   accounts, audited, undone, raced, failures, starts>>

DeleteProjectUser(c) ==
    /\ call[c].pc = "leaving" /\ call[c].todo = {}
    /\ team' = team \ {call[c].user}
    /\ undone' = undone \cup {<<"member", call[c].user>>}
    /\ End(c)
    /\ UNCHANGED <<settings, project, environments, indices, tokens, templates, inviteVars, access,
                   accounts, audited, raced, failures, starts>>

-----------------------------------------------------------------------------
(* Templates, tokens, users *)

\* Several templates in one call; ids are new, so that one call for an environment
\* tells as much as two.
CreateTemplates(c, e) ==
    /\ Known /\ e \in environments
    /\ <<"createTemplates", e>> \notin audited
    /\ Start(c, "createTemplates", NoUser, {e}, Templates)

InsertTemplate(c, e, t) ==
    /\ call[c].pc = "templates"
    /\ e \in call[c].envs /\ t \in call[c].todo
    /\ IF e \in environments
       THEN /\ templates' = templates \cup {<<t, e>>}
            /\ IF call[c].todo = {t} THEN End(c)
               ELSE call' = [call EXCEPT ![c].todo = @ \ {t}]
            /\ UNCHANGED failures
       ELSE /\ Refuse(c, e)
            /\ UNCHANGED templates
    /\ UNCHANGED <<settings, project, environments, indices, tokens, inviteVars, team, access, accounts,
                   audited, undone, raced, starts>>

DeleteApiToken(c, e) ==
    /\ Known /\ e \in tokens
    /\ Start(c, "deleteApiToken", NoUser, {e}, {})

\* Not the configured one, whose token is the bootstrap's.
CreateApiToken(c, e) ==
    /\ Known /\ e \in environments \ {Headless}
    /\ Start(c, "createApiToken", NoUser, {e}, {})

NewToken(c) ==
    /\ At(c, "createApiToken", "token")
    /\ IF call[c].envs \subseteq environments
       THEN /\ tokens' = tokens \cup call[c].envs
            /\ End(c)
            /\ UNCHANGED failures
       ELSE /\ Refuse(c, Headless)
            /\ UNCHANGED tokens
    /\ UNCHANGED <<settings, project, environments, indices, templates, inviteVars, team,
                   access, accounts, audited, undone, raced, starts>>

DeleteToken(c) ==
    /\ At(c, "deleteApiToken", "token")
    /\ tokens' = tokens \ call[c].envs
    /\ undone' = undone \cup ({"token"} \X call[c].envs)
    /\ End(c)
    /\ UNCHANGED <<settings, project, environments, indices, templates, inviteVars, team, access,
                   accounts, audited, raced, failures, starts>>

CreateInvite(c, u) ==
    /\ Known /\ u \notin invites
    /\ Start(c, "createInvite", u, {}, {})

InsertInvite(c) ==
    /\ At(c, "createInvite", "invite")
    /\ invites' = invites \cup {call[c].user}
    /\ Goto(c, "mailing")
    /\ UNCHANGED <<settings, project, environments, indices, tokens, templates, mails, team,
                   access, accounts, audited, undone, raced, failures, starts>>

\* The message to the mailer; without it the invitation stays.
MailInvite(c) ==
    /\ call[c].pc = "mailing"
    /\ mails' = mails \cup {call[c].user}
    /\ End(c)
    /\ UNCHANGED <<settings, project, environments, indices, tokens, templates, invites,
                   team, access, accounts, audited, undone, raced, failures, starts>>

DeleteInvite(c, u) ==
    /\ Known /\ u \in invites
    /\ Start(c, "deleteInvite", u, {}, {})

DeleteInviteRow(c) ==
    /\ At(c, "deleteInvite", "invite")
    /\ invites' = invites \ {call[c].user}
    /\ undone' = undone \cup {<<"invite", call[c].user>>}
    /\ End(c)
    /\ UNCHANGED <<settings, project, environments, indices, tokens, templates, mails, team,
                   access, accounts, audited, raced, failures, starts>>

\* AdminUserBootstrap: a user signs in, for the first time or again.
Login(c) == Start(c, "login", NoUser, {}, {})

\* Mutant: everybody is signed up.
GetNoUser(c) ==
    /\ call[c].pc = "getUser"
    /\ Goto(c, "signing")
    /\ UNCHANGED <<settings, project, rowVars, accounts, audited, undone, raced, failures,
                   starts>>

GetUser(c) ==
    /\ call[c].pc = "getUser"
    /\ Goto(c, IF accounts > 0 THEN "adminToken" ELSE "counting")
    /\ UNCHANGED <<settings, project, rowVars, accounts, audited, undone, raced, failures,
                   starts>>

\* createUser: the address is not unique in the table but looked for before.
CountUsers(c) ==
    /\ call[c].pc = "counting"
    /\ IF accounts > 0 THEN Refuse(c, Headless)
       ELSE Goto(c, "signing") /\ UNCHANGED failures
    /\ UNCHANGED <<settings, project, rowVars, accounts, audited, undone, raced, starts>>

InsertUser(c) ==
    /\ call[c].pc = "signing"
    /\ accounts' = accounts + 1
    /\ Goto(c, "adminToken")
    /\ UNCHANGED <<settings, project, rowVars, audited, undone, raced, failures, starts>>

CreateAdminToken(c) ==
    /\ call[c].pc = "adminToken"
    /\ End(c)
    /\ UNCHANGED <<settings, project, rowVars, accounts, audited, undone, raced, failures,
                   starts>>

-----------------------------------------------------------------------------

BootstrapStep(c) ==
    /\ call[c].kind = "bootstrap"
    /\ \/ GetProject(c) \/ InsertProject(c) \/ GetEnvironment(c)
       \/ \E e \in Environments :
             CreateIndex(c, e) \/ InsertEnvironment(c, e) \/ InsertToken(c, e)
       \/ GetToken(c)

CallStep(c) ==
    /\ call[c].kind # "bootstrap"
    /\ \/ AuditEvent(c)    \/ CheckAccess(c)
       \/ InsertProject(c) \/ Abandoned(c)
       \/ InsertProjectUser(c) \/ PopulateUser(c) \/ PopulateEnvironment(c)
       \/ ListEnvironments(c)  \/ DeleteProjectUser(c)
       \/ NewToken(c)     \/ DeleteToken(c)
       \/ InsertInvite(c) \/ MailInvite(c) \/ DeleteInviteRow(c)
       \/ GetUser(c) \/ CountUsers(c) \/ InsertUser(c) \/ CreateAdminToken(c)
       \/ \E e \in Environments :
             \/ CreateIndex(c, e) \/ InsertEnvironment(c, e) \/ InsertToken(c, e)
             \/ DeleteRows(c, e)  \/ DeleteEnvUser(c, e)
             \/ \E t \in Templates : InsertTemplate(c, e, t)

\* Invitations and sign-ins touch nothing the other calls do: invitations follow them
\* only and sign-ins come without them, which leaves fewer states.
Apart == {"login", "createInvite", "deleteInvite"}
AllApart == \A c \in Calls : call[c].kind \in Apart \cup {"none"}
NoneApart ==
    /\ accounts = 0 /\ invites = {} /\ mails = {}
    /\ \A c \in Calls : call[c].kind \notin Apart

StartCall(c) ==
    \/ /\ NoneApart
       /\ \/ Bootstrap(c)
          \/ \E u \in Users : CreateProject(c, u) \/ AddUser(c, u) \/ DeleteMember(c, u)
          \/ \E e \in Environments :
                \/ CreateEnvironment(c, e) \/ DeleteEnvironment(c, e)
                \/ CreateApiToken(c, e)    \/ DeleteApiToken(c, e)
                \/ CreateTemplates(c, e)
    \/ /\ AllApart
       /\ \/ ~ project /\ Login(c)
          \/ \E u \in Users : CreateInvite(c, u) \/ DeleteInvite(c, u)

Next == \E c \in Calls : StartCall(c) \/ BootstrapStep(c) \/ CallStep(c) \/ Fail(c)

\* A bootstrap runs, and is run again, until it succeeds.
Spec == Init /\ [][Next]_vars /\ \A c \in Calls : WF_vars(BootstrapStep(c))

-----------------------------------------------------------------------------
(* What must hold *)

Quiet == \A c \in Calls : call[c].pc = "idle"

\* Members are copied into a new environment and environments to a new member,
\* each in a step of its own, and both at once collide: still, unless a call was
\* answered with an error, every member has access to every environment.  The
\* configured one, which a bootstrap may create after them, is an exception.
EveryMemberHasAccess ==
    Quiet /\ failures = 0 => team \X (environments \ {Headless}) \subseteq access

\* Who is not a member has access to an environment only if they were given it
\* while they were being removed.
StrangersWereRaced ==
    Quiet => \A a \in access : a[1] \in team \cup raced

\* Where calls are reported, an environment whose creation was not reported, or an
\* environment or a token deleted without a report, is not to be found: the report
\* comes first, and a call that cannot make it does nothing.
ChangesAreAudited == settings.reports =>
    /\ \A e \in environments \ (Defaults \cup {Headless}) : <<"createEnvironment", e>> \in audited
    /\ \A e \in Environments :
          /\ <<"environment", e>> \in undone => <<"deleteEnvironment", e>> \in audited
          /\ <<"token", e>> \in undone => <<"deleteApiToken", e>> \in audited
    /\ \A a \in templates : <<"createTemplates", a[2]>> \in audited
    /\ \A u \in Users :
          /\ u \in invites \cup mails => <<"createInvite", u>> \in audited
          /\ <<"invite", u>> \in undone => <<"deleteInvite", u>> \in audited

\* Every index without an environment, and every second index of one, comes of a
\* call that failed, and so does every environment without an index.
IndicesArePaidFor ==
    Quiet =>
        \A e \in Environments :
            LET rows == IF e \in environments THEN 1 ELSE 0 IN
            indices[e] <= rows + failures /\ (indices[e] >= rows \/ failures > 0)

\* There are at most as many users of one e-mail address as sign-ins run at once.
AccountsAreOverlaps == accounts <= Cardinality(Calls)

\* A call that is answered without an error has done all it was to do, and what
\* has gone since was deleted by another.
Kept(kind, x, present) == present \/ <<kind, x>> \in undone'

AnsweredIsDone ==
    [][\A c \in Calls :
          /\ call[c].pc \notin {"idle", "abandoned", "lateTokens", "checking"}
          /\ call'[c].pc = "idle" /\ failures' = failures
          =>
          /\ call[c].kind \in {"createProject", "bootstrap"} =>
                \A e \in call[c].envs :
                    Kept("environment", e, e \in environments'
                                           /\ Kept("token", e, e \in tokens'))
          /\ call[c].kind = "createProject" =>
                Kept("member", call[c].user, {call[c].user} \X environments' \subseteq access')
          /\ call[c].kind = "createInvite" =>
                /\ Kept("invite", call[c].user, call[c].user \in invites')
                /\ call[c].user \in mails']_vars

\* However often it fails, collides with another or loses its environment on the
\* way, a bootstrap ends, the project, its environment and its token created, if
\* neither of the two ids is another project's.
BootstrapEnds ==
    \A c \in Calls :
        call[c].kind = "bootstrap" /\ settings.foreign = {} ~> call[c].kind # "bootstrap"

=============================================================================
