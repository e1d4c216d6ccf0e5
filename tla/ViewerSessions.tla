---------------------------- MODULE ViewerSessions ----------------------------
(***************************************************************************)
(* The embedded viewer.  A publisher creates a descriptor for one actor and *)
(* group; the viewer trades it for a voucher (a signed copy of it) and      *)
(* calls the viewer API with that.  The voucher itself never expires: each  *)
(* call reads the descriptor again, which is good for five minutes.         *)
(* Descriptors are deleted when sessions are revoked, and a day later.      *)
(*                                                                         *)
(* A call is a sequence of awaited steps in one API process.  Most save an  *)
(* event that says what was viewed or changed; that of searchEvents is not  *)
(* awaited, and nothing catches its rejection, which ends the process.      *)
(*                                                                         *)
(* Each process has a clock, so many minutes ahead of the true time.        *)
(***************************************************************************)
EXTENDS Integers, FiniteSets

CONSTANTS
    Descriptors,
    Actors,
    Groups,      \* of one environment of one project
    Tokens,      \* ids of eitapi_token rows
    Calls,
    Processes,   \* of the API
    Processor,   \* the process that prunes
    Leads,       \* how far a clock may be ahead
    Times,       \* the minutes at which something happens
    MaxFaults

ASSUME ViewerAssumption ==
    /\ Processor \notin Processes
    /\ Times \subseteq Nat /\ 0 \in Times
    /\ Leads \subseteq Nat /\ \A a, b \in Leads : a - b < 1435
    /\ MaxFaults \in Nat

VARIABLES
    now,       \* the true time
    lead,      \* of each process's clock
    rows,      \* viewer_descriptors
    drawn,     \* descriptors ever created: when, by which process, for whom
    revoked,   \* descriptors deleted by revokeViewerSessions
    vouchers,  \* descriptors whose voucher was sent to the viewer
    calls,
    tokens,    \* eitapi_token rows, as <<id, group>>
    dropped,   \* those deleted by viewers
    withdrawn, \* those deleted by the publisher
    logged,    \* calls whose event was saved
    saving,    \* searches answered while their event is being saved
    faults

rowVars == <<rows, drawn, revoked, vouchers>>
tokenVars == <<tokens, dropped, withdrawn>>
vars == <<now, lead, rowVars, calls, tokenVars, logged, saving, faults>>

Owners == Actors \X Groups

Lifetime == 5
PruneAfter == 1440

\* graphql: with viewerPaginatedGraphQL, and listEitapiTokens, which takes the same steps.
Views == {"searchEvents", "graphql"}
Changes == {"createToken", "updateToken", "deleteToken"}
Kinds == {"session"} \cup Views \cup Changes

\* Sessions and calls that fail, or that are refused, leave nothing behind.
NoCall == [kind |-> "none", pc |-> "idle"]
Unborn == [at |-> -1]

CallRecords ==
    [kind : Kinds, by : Processes, desc : Descriptors, token : Tokens, skip : BOOLEAN,
     at : Times, late : BOOLEAN, did : BOOLEAN,
     pc : {"checked", "worked", "told", "answered"}]

TypeOK ==
    /\ now \in Times /\ lead \in [Processes \cup {Processor} -> Leads]
    /\ drawn \in [Descriptors -> {Unborn} \cup [at : Times, by : Processes, owner : Owners]]
    /\ rows \subseteq {d \in Descriptors : drawn[d] # Unborn}
    /\ revoked \subseteq Descriptors \ rows
    /\ vouchers \subseteq Descriptors
    /\ calls \in [Calls -> {NoCall} \cup CallRecords]
    /\ tokens \subseteq Tokens \X Groups
    /\ dropped \subseteq (Tokens \X Groups) \ tokens
    /\ withdrawn \subseteq (Tokens \X Groups) \ tokens
    /\ logged \subseteq Calls
    /\ saving \subseteq {c \in Calls : calls[c].pc = "answered"} \ logged
    /\ faults \in 0..MaxFaults

Init ==
    /\ now = 0 /\ lead \in [Processes \cup {Processor} -> Leads]
    /\ drawn = [d \in Descriptors |-> Unborn]
    /\ rows = {} /\ revoked = {} /\ vouchers = {}
    /\ calls = [c \in Calls |-> NoCall]
    /\ \E known \in SUBSET Tokens : \E group \in [known -> Groups] :
           tokens = {<<t, group[t]>> : t \in known}
    /\ dropped = {} /\ withdrawn = {}
    /\ logged = {} /\ saving = {}
    /\ faults = 0

Clock(p) == now + lead[p]

Stamp(d) == drawn[d].at + lead[drawn[d].by]

TimePasses ==
    /\ \E t \in Times : t > now /\ now' = t
    /\ UNCHANGED <<lead, rowVars, calls, tokenVars, logged, saving, faults>>

Fault == faults < MaxFaults /\ faults' = faults + 1

-----------------------------------------------------------------------------
(* Descriptors *)

CreateViewerDescriptor(d, p, o) ==
    /\ drawn[d] = Unborn
    /\ drawn' = [drawn EXCEPT ![d] = [at |-> now, by |-> p, owner |-> o]]
    /\ rows' = rows \cup {d}
    /\ UNCHANGED <<now, lead, revoked, vouchers, calls, tokenVars, logged, saving, faults>>

RevokeViewerSessions(o) ==
    LET found == {d \in rows : drawn[d].owner = o} IN
    /\ found # {}
    /\ rows' = rows \ found
    /\ revoked' = revoked \cup found
    /\ UNCHANGED <<now, lead, drawn, vouchers, calls, tokenVars, logged, saving, faults>>

\* Mutant: what has expired is deleted.
PruneExpired ==
    /\ \E d \in rows : Stamp(d) < Clock(Processor) - Lifetime
    /\ rows' = {d \in rows : Stamp(d) >= Clock(Processor) - Lifetime}
    /\ UNCHANGED <<now, lead, drawn, revoked, vouchers, calls, tokenVars, logged, saving, faults>>

PruneViewerDescriptors ==
    /\ \E d \in rows : Stamp(d) < Clock(Processor) - PruneAfter
    /\ rows' = {d \in rows : Stamp(d) >= Clock(Processor) - PruneAfter}
    /\ UNCHANGED <<now, lead, drawn, revoked, vouchers, calls, tokenVars, logged, saving, faults>>

Fresh(d, p) == Stamp(d) > Clock(p) - Lifetime

\* Mutant: the signature of the voucher is all that is checked.
GetSigned(d, p) == drawn[d] # Unborn

GetViewerToken(d, p) == d \in rows /\ Fresh(d, p)

-----------------------------------------------------------------------------
(* Calls *)

\* The check of a call: createViewerSession reads the descriptor it is given,
\* the others read that of their voucher.  The token is whatever id the request
\* names: there may be no such token, or it may be another group's.
CheckViewerAccess(c, kind, d, p, t) ==
    /\ calls[c] = NoCall
    /\ kind \notin Changes => t = CHOOSE u \in Tokens : TRUE
    /\ kind = "session" \/ d \in vouchers
    /\ drawn[d] # Unborn
    /\ GetViewerToken(d, p)
    /\ calls' = [calls EXCEPT ![c] =
           [kind |-> kind, by |-> p, desc |-> d, token |-> t, skip |-> FALSE, at |-> now,
            late |-> d \in revoked, did |-> FALSE, pc |-> "checked"]]
    /\ UNCHANGED <<now, lead, rowVars, tokenVars, logged, saving, faults>>

Goes(c, kinds, from, to) ==
    /\ calls[c].kind \in kinds /\ calls[c].pc = from
    /\ calls' = [calls EXCEPT ![c].pc = to]

\* The request may ask for its event to be skipped, if it is a view.
Answers(c, kinds, skip) ==
    /\ calls[c].kind \in kinds /\ calls[c].pc \in {"worked", "told"}
    /\ skip => calls[c].kind \in Views
    /\ calls' = [calls EXCEPT ![c].pc = "answered", ![c].skip = skip]

\* The events, or the tokens, are read.
Read(c) ==
    /\ Goes(c, Views, "checked", "worked")
    /\ UNCHANGED <<now, lead, rowVars, tokenVars, logged, saving, faults>>

\* The row of that id and of the viewer's group, in their environment and project.
GroupOf(c) == drawn[calls[c].desc].owner[2]

Own(c) == <<calls[c].token, GroupOf(c)>>

Naming == {c \in Calls : calls[c].kind \in {"updateToken", "deleteToken"}}

\* The id is new: there was no such token, and no request has named it.
CreateToken(c) ==
    /\ calls[c].kind = "createToken" /\ calls[c].pc = "checked"
    /\ \A a \in tokens \cup dropped \cup withdrawn : a[1] # calls[c].token
    /\ \A d \in Naming : calls[d].token # calls[c].token
    /\ calls' = [calls EXCEPT ![c].pc = "worked", ![c].did = TRUE]
    /\ tokens' = tokens \cup {Own(c)}
    /\ UNCHANGED <<now, lead, rowVars, dropped, withdrawn, logged, saving, faults>>

\* Mutant: that no row was updated goes unnoticed.
UpdateTokenAnyway(c) ==
    /\ calls[c].kind = "updateToken" /\ calls[c].pc = "checked"
    /\ calls' = [calls EXCEPT ![c].pc = "worked", ![c].did = Own(c) \in tokens]
    /\ UNCHANGED <<now, lead, rowVars, tokenVars, logged, saving, faults>>

\* That there is none is an error.
UpdateToken(c) ==
    /\ calls[c].kind = "updateToken" /\ calls[c].pc = "checked"
    /\ calls' = [calls EXCEPT ![c] =
           IF Own(c) \in tokens THEN [@ EXCEPT !.pc = "worked", !.did = TRUE] ELSE NoCall]
    /\ UNCHANGED <<now, lead, rowVars, tokenVars, logged, saving, faults>>

\* Mutant: the statement has the id alone.
DeleteTokenById(c) ==
    LET found == {a \in tokens : a[1] = calls[c].token} IN
    /\ calls[c].kind = "deleteToken" /\ calls[c].pc = "checked"
    /\ calls' = [calls EXCEPT ![c].pc = "worked", ![c].did = found # {}]
    /\ tokens' = tokens \ found /\ dropped' = dropped \cup found
    /\ UNCHANGED <<now, lead, rowVars, withdrawn, logged, saving, faults>>

\* Here it is not: modelsDeleteEitapiToken tells whether it deleted the row, and its
\* caller goes on either way.
DeleteToken(c) ==
    /\ calls[c].kind = "deleteToken" /\ calls[c].pc = "checked"
    /\ calls' = [calls EXCEPT ![c].pc = "worked", ![c].did = Own(c) \in tokens]
    /\ tokens' = tokens \ {Own(c)} /\ dropped' = dropped \cup (tokens \cap {Own(c)})
    /\ UNCHANGED <<now, lead, rowVars, withdrawn, logged, saving, faults>>

\* The publisher's own calls are not reported.
DeleteEnterpriseToken(a) ==
    /\ a \in tokens
    /\ tokens' = tokens \ {a} /\ withdrawn' = withdrawn \cup {a}
    /\ UNCHANGED <<now, lead, rowVars, calls, dropped, logged, saving, faults>>

\* user_reporting_task: before the answer of createViewerSession, and for a
\* search that is not the viewer's first.
ProduceUsage(c) ==
    /\ Goes(c, {"session"}, "checked", "told") \/ Goes(c, {"searchEvents"}, "worked", "told")
    /\ UNCHANGED <<now, lead, rowVars, tokenVars, logged, saving, faults>>

CreateViewerSession(c) ==
    /\ calls[c].kind = "session" /\ calls[c].pc = "told"
    /\ calls' = [calls EXCEPT ![c] = NoCall]
    /\ vouchers' = vouchers \cup {calls[c].desc}
    /\ UNCHANGED <<now, lead, rows, drawn, revoked, tokenVars, logged, saving, faults>>

\* searchEvents starts saving its event and answers.
AnswerSearch(c) ==
    /\ \E skip \in BOOLEAN :
           /\ Answers(c, {"searchEvents"}, skip)
           /\ saving' = IF skip THEN saving ELSE saving \cup {c}
    /\ UNCHANGED <<now, lead, rowVars, tokenVars, logged, faults>>

SaveInBackground(c) ==
    /\ c \in saving
    /\ saving' = saving \ {c} /\ logged' = logged \cup {c}
    /\ UNCHANGED <<now, lead, rowVars, calls, tokenVars, faults>>

\* Mutant: the save is not awaited.
AnswerUnsaved(c) ==
    /\ \E skip \in BOOLEAN :
           /\ Answers(c, {"graphql"} \cup Changes, skip)
           /\ saving' = IF skip THEN saving ELSE saving \cup {c}
    /\ UNCHANGED <<now, lead, rowVars, tokenVars, logged, faults>>

\* The others answer when the event is saved.
SaveAndAnswer(c) ==
    /\ \E skip \in BOOLEAN :
           /\ Answers(c, {"graphql"} \cup Changes, skip)
           /\ logged' = IF skip THEN logged ELSE logged \cup {c}
    /\ UNCHANGED <<now, lead, rowVars, tokenVars, saving, faults>>

\* An awaited statement or publish fails, and the call with it.
CallFail(c) ==
    /\ Fault
    /\ calls[c].pc \in {"checked", "worked", "told"}
    /\ calls' = [calls EXCEPT ![c] = NoCall]
    /\ UNCHANGED <<now, lead, rowVars, tokenVars, logged, saving>>

\* The process dies, of an event that could not be saved among other causes, and
\* is started again.
ProcessDies(p) ==
    LET dying == {c \in Calls : /\ calls[c].pc \in {"checked", "worked", "told"}
                                /\ calls[c].by = p}
        lost == {c \in saving : calls[c].by = p} IN
    /\ Fault
    /\ dying \cup lost # {}
    /\ calls' = [c \in Calls |-> IF c \in dying THEN NoCall ELSE calls[c]]
    /\ saving' = saving \ lost
    /\ UNCHANGED <<now, lead, rowVars, tokenVars, logged>>

Next ==
    \/ TimePasses \/ PruneViewerDescriptors
    \/ \E o \in Owners : RevokeViewerSessions(o)
    \/ \E d \in Descriptors, p \in Processes :
           \/ \E o \in Owners : CreateViewerDescriptor(d, p, o)
           \/ \E c \in Calls, k \in Kinds, t \in Tokens :
                  CheckViewerAccess(c, k, d, p, t)
    \/ \E c \in Calls :
           \/ Read(c) \/ CreateToken(c) \/ UpdateToken(c) \/ DeleteToken(c)
           \/ ProduceUsage(c) \/ CreateViewerSession(c)
           \/ AnswerSearch(c) \/ SaveInBackground(c) \/ SaveAndAnswer(c) \/ CallFail(c)
    \/ \E a \in tokens : DeleteEnterpriseToken(a)
    \/ \E p \in Processes : ProcessDies(p)

Spec == Init /\ [][Next]_vars

-----------------------------------------------------------------------------
(* Properties *)

\* A voucher has no expiry of its own (security/vouchers.ts), yet no call that
\* began after the session was revoked, or five minutes and the difference of
\* two clocks after the descriptor was created, is ever answered.
VouchersEndWithTheirSession ==
    \A c \in Calls : calls[c].pc = "answered" =>
        /\ ~ calls[c].late
        /\ \E a, b \in Leads :
               calls[c].at - drawn[calls[c].desc].at < Lifetime + a - b

\* pruneViewerDescriptors allows "for some clock difference with api": it takes
\* no descriptor that some API process would still accept.
UsableUntilExpired ==
    \A d \in Descriptors : \A p \in Processes :
        (drawn[d] # Unborn /\ d \notin revoked /\ Fresh(d, p)) => d \in rows

\* Who is answered has left a trace in the audit log: at once, but for
\* searchEvents, whose event follows unless something fails.
AnsweredIsLogged ==
    \A c \in Calls :
        (calls[c].pc = "answered" /\ calls[c].kind \in Views \cup Changes /\ ~ calls[c].skip)
            => c \in logged \/ (calls[c].kind = "searchEvents" /\ (c \in saving \/ faults > 0))

\* The trace is true: a token said to be created or updated was, and is the viewer's
\* group's, even when another viewer or the publisher deletes it meanwhile; and no
\* token of the group is left of an id said to be deleted.  (Whether there was one is
\* not said: the event reads "Deleted an Enterprise IT Integration API Token",
\* viewer/deleteEitapiToken.ts:29, also if the id is another group's token or none.)
LogIsTrue ==
    \A c \in logged :
        /\ calls[c].kind \in {"createToken", "updateToken"} =>
              calls[c].did /\ Own(c) \in tokens \cup dropped \cup withdrawn
        /\ calls[c].kind = "deleteToken" => Own(c) \notin tokens

\* A token that viewers deleted was deleted by one of its own group, whose event
\* says so as soon as the call is answered, unless something failed.
DeletionsLeaveATrace ==
    \A a \in dropped :
        \/ faults > 0
        \/ \E c \in Calls :
              /\ calls[c].kind = "deleteToken" /\ calls[c].pc # "checked"
              /\ Own(c) = a
              /\ calls[c].pc = "answered" => c \in logged

=============================================================================
