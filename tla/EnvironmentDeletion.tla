------------------------- MODULE EnvironmentDeletion -------------------------
(***************************************************************************)
(* Deleting an environment through the admin API.  An empty environment    *)
(* may be deleted at once; for a populated one an admin creates a deletion *)
(* request, every other member of the team is mailed a code to confirm it, *)
(* and after a backoff of 48 hours and before a month has passed the       *)
(* environment may be deleted.                                             *)
(*                                                                         *)
(* Each API call is a sequence of awaited queries; calls of several admins *)
(* interleave with each other, with events being indexed and with changes  *)
(* of the team.  models/environment/delete is one step here; IndexAliases  *)
(* has it in detail.                                                       *)
(***************************************************************************)
EXTENDS Naturals, FiniteSets

CONSTANTS
    Users,
    Requests,     \* ids a deletion request may draw
    NoRequest,
    MaxFaults     \* failed queries and dead API processes

ASSUME DeletionAssumption == NoRequest \notin Requests /\ MaxFaults \in Nat

VARIABLES
    team,          \* members of the project
    environment,   \* "present" or "deleted"
    populated,     \* its index holds events
    age,           \* deletion_request rows: none, within the backoff, past it,
                   \* over a month old, deleted
    asked,         \* the members whose confirmation the request's creator wanted
    confirmations, \* deletion_confirmation rows
    creating,      \* per user, a createDeletionRequest call
    deleting,      \* per user, a deleteEnvironment call
    faults

requestVars == <<age, asked, confirmations, creating>>
environmentVars == <<environment, populated>>
vars == <<team, environmentVars, requestVars, deleting, faults>>

Ages == {"none", "backoff", "ripe", "expired", "deleted"}
CreateSteps == {"idle", "purging", "listing", "inserting"}
DeleteSteps ==
    {"idle", "fetching", "purging", "deleting", "unrequested", "expired", "backoff"}

TypeOK ==
    /\ team \subseteq Users
    /\ environment \in {"present", "deleted"}
    /\ populated \in BOOLEAN
    /\ age \in [Requests -> Ages]
    /\ asked \in [Requests -> SUBSET Users]
    /\ confirmations \subseteq [request : Requests, user : Users, received : BOOLEAN]
    /\ \A c \in confirmations : age[c.request] \in {"backoff", "ripe", "expired"}
    /\ creating \in [Users -> [pc : CreateSteps, request : Requests \cup {NoRequest},
                               inserted : SUBSET Users]]
    /\ deleting \in [Users -> [pc : DeleteSteps, request : Requests \cup {NoRequest}]]
    /\ faults \in 0..MaxFaults

Fault ==
    /\ faults < MaxFaults
    /\ faults' = faults + 1

NotCreating == [pc |-> "idle", request |-> NoRequest, inserted |-> {}]
NotDeleting == [pc |-> "idle", request |-> NoRequest]

Init ==
    /\ team \in SUBSET Users
    /\ environment = "present"
    /\ populated = FALSE
    /\ age = [r \in Requests |-> "none"]
    /\ asked = [r \in Requests |-> {}]
    /\ confirmations = {}
    /\ creating = [u \in Users |-> NotCreating]
    /\ deleting = [u \in Users |-> NotDeleting]
    /\ faults = 0

\* deletion_request rows for the environment.
Rows == {r \in Requests : age[r] \in {"backoff", "ripe", "expired"}}

\* delete from deletion_request where id = r, which cascades.
DeleteRequest(r) ==
    /\ age' = [age EXCEPT ![r] = "deleted"]
    /\ confirmations' = {c \in confirmations : c.request # r}

-----------------------------------------------------------------------------
(* createDeletionRequest *)

CreateGoto(u, step, r) ==
    creating' = [creating EXCEPT ![u] = [pc |-> step, request |-> r, inserted |-> {}]]

\* Any row will do (no ORDER BY); one that is not too old ends the call (409).
CheckExtant(u) ==
    /\ creating[u].pc = "idle"
    /\ u \in team
    /\ \/ Rows = {} /\ CreateGoto(u, "listing", NoRequest)
       \/ \E r \in Rows : age[r] = "expired" /\ CreateGoto(u, "purging", r)
    /\ UNCHANGED <<team, environmentVars, age, asked, confirmations, deleting, faults>>

\* Mutant: the old request is deleted by its resource, not by its id.
PurgeResource(u) ==
    /\ creating[u].pc = "purging"
    /\ age' = [r \in Requests |-> IF r \in Rows THEN "deleted" ELSE age[r]]
    /\ confirmations' = {}
    /\ CreateGoto(u, "listing", NoRequest)
    /\ UNCHANGED <<team, environmentVars, asked, deleting, faults>>

PurgeExtant(u) ==
    /\ creating[u].pc = "purging"
    /\ DeleteRequest(creating[u].request)
    /\ CreateGoto(u, "listing", NoRequest)
    /\ UNCHANGED <<team, environmentVars, asked, deleting, faults>>

\* The environment must still be there; all other members are to confirm.
ListTeam(u) ==
    /\ creating[u].pc = "listing"
    /\ IF environment = "deleted"
       THEN /\ CreateGoto(u, "idle", NoRequest)
            /\ UNCHANGED asked
       ELSE \E r \in Requests :
            /\ age[r] = "none" /\ \A v \in Users : creating[v].request # r
            /\ asked' = [asked EXCEPT ![r] = team \ {u}]
            /\ CreateGoto(u, "inserting", r)
    /\ UNCHANGED <<team, environmentVars, age, confirmations, deleting, faults>>

\* In the transaction; the mail goes out before the commit.
InsertConfirmation(u, v) ==
    /\ creating[u].pc = "inserting"
    /\ v \in asked[creating[u].request] \ creating[u].inserted
    /\ creating' = [creating EXCEPT ![u].inserted = @ \cup {v}]
    /\ UNCHANGED <<team, environmentVars, age, asked, confirmations, deleting, faults>>

\* Mutant: no transaction, so that the request shows while its confirmations are
\* being inserted.
CommitEarly(u) ==
    /\ creating[u].pc = "inserting"
    /\ LET r == creating[u].request IN
       /\ age' = [age EXCEPT ![r] = "backoff"]
       /\ confirmations' = confirmations \cup
             [request : {r}, user : creating[u].inserted, received : {FALSE}]
    /\ CreateGoto(u, "idle", NoRequest)
    /\ UNCHANGED <<team, environmentVars, asked, deleting, faults>>

CommitRequest(u) ==
    /\ creating[u].pc = "inserting"
    /\ creating[u].inserted = asked[creating[u].request]
    /\ LET r == creating[u].request IN
       /\ age' = [age EXCEPT ![r] = "backoff"]
       /\ confirmations' = confirmations \cup
             [request : {r}, user : creating[u].inserted, received : {FALSE}]
    /\ CreateGoto(u, "idle", NoRequest)
    /\ UNCHANGED <<team, environmentVars, asked, deleting, faults>>

\* A query fails and the transaction is rolled back, or the API dies in it.
CreateFail(u) ==
    /\ creating[u].pc # "idle"
    /\ Fault
    /\ CreateGoto(u, "idle", NoRequest)
    /\ UNCHANGED <<team, environmentVars, age, asked, confirmations, deleting>>

-----------------------------------------------------------------------------
(* approveDeletionConfirmation *)

\* The code of another member is "no access, no knowledge".
Approve(u, c) ==
    /\ u \in team
    /\ c \in confirmations
    /\ c.user = u /\ ~ c.received
    /\ confirmations' = (confirmations \ {c}) \cup {[c EXCEPT !.received = TRUE]}
    /\ UNCHANGED <<team, environmentVars, age, asked, creating, deleting, faults>>

-----------------------------------------------------------------------------
(* deleteEnvironment *)

DeleteGoto(u, step, r) ==
    deleting' = [deleting EXCEPT ![u] = [pc |-> step, request |-> r]]

Callable == {"idle", "unrequested", "expired", "backoff"}

CheckEmpty(u) ==
    /\ deleting[u].pc \in Callable
    /\ u \in team
    /\ environment = "present"
    /\ DeleteGoto(u, IF populated THEN "fetching" ELSE "deleting", NoRequest)
    /\ UNCHANGED <<team, environmentVars, requestVars, faults>>

\* Without a request, or with one too old, the call ends.  It also ends with any
\* other: the backoff that remains is tested as a moment.duration, an object and
\* so true even when nothing remains, and lines 57 to 88 never run.
FetchRequest(u) ==
    /\ deleting[u].pc = "fetching"
    /\ \/ Rows = {} /\ DeleteGoto(u, "unrequested", NoRequest)
       \/ \E r \in Rows :
             DeleteGoto(u, IF age[r] = "expired" THEN "purging" ELSE "backoff", r)
    /\ UNCHANGED <<team, environmentVars, requestVars, faults>>

PurgeExpired(u) ==
    /\ deleting[u].pc = "purging"
    /\ DeleteRequest(deleting[u].request)
    /\ DeleteGoto(u, "expired", NoRequest)
    /\ UNCHANGED <<team, environmentVars, asked, creating, faults>>

\* For an environment that is gone already this finds no alias and rolls back.
Delete(u) ==
    /\ deleting[u].pc = "deleting"
    /\ environment' = "deleted"
    /\ populated' = FALSE
    /\ DeleteGoto(u, "idle", NoRequest)
    /\ UNCHANGED <<team, requestVars, faults>>

DeleteFail(u) ==
    /\ deleting[u].pc \notin Callable
    /\ Fault
    /\ DeleteGoto(u, "idle", NoRequest)
    /\ UNCHANGED <<team, environmentVars, requestVars>>

-----------------------------------------------------------------------------
(* Around it *)

\* A request grows older; each at its own pace.
Age(r) ==
    /\ age[r] \in {"backoff", "ripe"}
    /\ age' = [age EXCEPT ![r] = IF @ = "backoff" THEN "ripe" ELSE "expired"]
    /\ UNCHANGED <<team, environmentVars, asked, confirmations, creating, deleting,
                   faults>>

IndexEvent ==
    /\ environment = "present" /\ ~ populated
    /\ populated' = TRUE
    /\ UNCHANGED <<team, environment, requestVars, deleting, faults>>

\* models/project/addUser, models/team/deleteMember
Join(u) ==
    /\ u \notin team
    /\ team' = team \cup {u}
    /\ UNCHANGED <<environmentVars, requestVars, deleting, faults>>

Leave(u) ==
    /\ u \in team
    /\ team' = team \ {u}
    /\ UNCHANGED <<environmentVars, requestVars, deleting, faults>>

Next ==
    \/ \E u \in Users :
          \/ CheckExtant(u)   \/ PurgeExtant(u)  \/ ListTeam(u)
          \/ CommitRequest(u) \/ CreateFail(u)
          \/ CheckEmpty(u)    \/ FetchRequest(u) \/ PurgeExpired(u)
          \/ Delete(u)        \/ DeleteFail(u)
          \/ Join(u)          \/ Leave(u)
          \/ \E v \in Users : InsertConfirmation(u, v)
          \/ \E c \in confirmations : Approve(u, c)
    \/ \E r \in Requests : Age(r)
    \/ IndexEvent

Spec == Init /\ [][Next]_vars

-----------------------------------------------------------------------------
(* What must hold *)

\* "prevent the scenario where a new deletion request is created that requires
\* no approval" (createDeletionRequest.ts:87-89): whoever fails or dies on the
\* way, a request that shows has a confirmation of everyone it was to ask.
RequestAsksTeam ==
    \A r \in Rows : {c.user : c \in {d \in confirmations : d.request = r}} = asked[r]

\* Calls that act on a row they read a while ago delete only requests that are
\* over a month old, never the younger one that took their place.
OnlyExpiredRequestsGo ==
    [][\A r \in Requests : age[r] \in {"backoff", "ripe"} => age'[r] # "deleted"]_vars

-----------------------------------------------------------------------------
(* What the code says and does not keep *)

\* "Cannot delete this environment until its deletion request backoff period has
\* passed" (deleteEnvironment.ts:52-53) is said while it has not passed.
BackoffRefusalIsTrue ==
    [][\A u \in Users :
          deleting[u].pc # "backoff" /\ deleting'[u].pc = "backoff" =>
              age[deleting'[u].request] = "backoff"]_vars

=============================================================================
