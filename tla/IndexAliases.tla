---------------------------- MODULE IndexAliases ----------------------------
(***************************************************************************)
(* Where the events of one environment are indexed.  The environment has   *)
(* two Elasticsearch aliases.  The search alias is over every index;       *)
(* viewers, ad-hoc and active searches read it.  The write alias           *)
(* ("....current") is over one index: saveEventToElasticsearch writes to   *)
(* it, and whatever builds its query with scope() - GraphQL searches,      *)
(* counts and exports - reads it.  The environment's first index comes     *)
(* with both; a daily rotation adds an index and moves the write alias to  *)
(* it; a repair, at the start of every processor and every minute, wants   *)
(* exactly one write alias; deleting the environment deletes its index.    *)
(*                                                                         *)
(* All of them read the aliases, think, and write them later: the only     *)
(* thing that is atomic is one request to Elasticsearch.  The alias swap   *)
(* of a rotation is not awaited, so it can outlive the rotation.  The      *)
(* order in which cat.aliases lists indices is Elasticsearch's own: where  *)
(* the code takes the first entry, the model takes any.                    *)
(***************************************************************************)
EXTENDS Naturals, FiniteSets

CONSTANTS
    Indices,      \* index names the processors and the API may draw
    Spare,        \* how many of them rotations leave to the repair
    Workers,      \* rotation and repair handlers that may run at once
    Events,
    AutoCreate,   \* action.auto_create_index: on unless a cluster disables it
    MaxAttempts,  \* deliveries of a normalized event to its saver
    MaxFaults     \* failed requests, dead processes and rotations that start
                  \* while an earlier one is still under way

ASSUME AliasAssumption ==
    /\ AutoCreate \in BOOLEAN
    /\ Spare \in Nat /\ MaxAttempts \in Nat \ {0} /\ MaxFaults \in Nat

VARIABLES
    env,       \* the environment: none, index created, row committed, deleted
    used,      \* indices ever created
    dropped,   \* those that a deletion deleted
    detached,  \* those whose aliases a deletion removed
    search,    \* indices under the search alias
    write,     \* indices under the write alias
    docs,      \* the events in each index
    strayed,   \* events in a concrete index named like the write alias
    job,       \* what each handler is doing, and the aliases it has seen
    swaps,     \* alias requests of rotations, issued and not awaited
    deletion,  \* models/environment/delete: its step and the index it found
    message,   \* the normalized event's message on save_to_elasticsearch
    attempts,
    faults

esVars == <<used, dropped, detached, search, write>>
docVars == <<docs, strayed, message, attempts>>
vars == <<env, esVars, docVars, job, swaps, deletion, faults>>

Steps == {"idle", "checking", "trimming", "restoring", "listing", "creating"}
Idle == [pc |-> "idle", seen |-> {}]

TypeOK ==
    /\ env \in {"none", "indexed", "present", "deleted"}
    /\ used \subseteq Indices
    /\ dropped \subseteq detached /\ detached \subseteq used
    /\ search \subseteq used \ detached /\ write \subseteq used \ dropped
    /\ docs \in [Indices -> SUBSET Events]
    /\ strayed \subseteq Events
    /\ job \in [Workers -> [pc : Steps, seen : SUBSET Indices]]
    /\ swaps \subseteq [add : Indices, remove : SUBSET Indices]
    /\ deletion.pc \in {"none", "listing", "detaching", "dropping", "committing"}
    /\ deletion.index \subseteq used
    /\ message \in [Events -> {"none", "queued", "saved", "given_up"}]
    /\ attempts \in [Events -> 0..MaxAttempts]
    /\ faults \in 0..MaxFaults

Init ==
    /\ env = "none"
    /\ used = {} /\ dropped = {} /\ detached = {}
    /\ search = {} /\ write = {}
    /\ docs = [i \in Indices |-> {}]
    /\ strayed = {}
    /\ job = [w \in Workers |-> Idle]
    /\ swaps = {}
    /\ deletion = [pc |-> "none", index |-> {}]
    /\ message = [e \in Events |-> "none"]
    /\ attempts = [e \in Events |-> 0]
    /\ faults = 0

Fault ==
    /\ faults < MaxFaults
    /\ faults' = faults + 1

\* putAliases: one atomic request.  It fails as a whole when an index is gone
\* or when an index has the alias's name; removing an alias that is not there
\* is no error.
PutAliases(add, remove) ==
    write' = IF /\ (add \cup remove) \cap dropped = {}
                /\ add = {} \/ strayed = {}
             THEN (write \cup add) \ remove
             ELSE write

-----------------------------------------------------------------------------
(* models/environment/create *)

CreateEnvironmentIndex(i) ==
    /\ env = "none"
    /\ env' = "indexed"
    /\ used' = {i} /\ search' = {i} /\ write' = {i}
    /\ UNCHANGED <<dropped, detached, docVars, job, swaps, deletion, faults>>

CreateEnvironmentRow ==
    /\ env = "indexed"
    /\ env' = "present"
    /\ UNCHANGED <<esVars, docVars, job, swaps, deletion, faults>>

-----------------------------------------------------------------------------
(* ElasticsearchIndexRotator *)

Goto(w, step, seen) == job' = [job EXCEPT ![w] = [pc |-> step, seen |-> seen]]

Rotators == {w \in Workers : job[w].pc \in {"listing", "creating"}}

Rotating == swaps # {} \/ Rotators # {}

\* worker: the tick finds the environment's row.
StartRotation(w) ==
    /\ job[w] = Idle
    /\ env = "present"
    /\ Cardinality(used) + Cardinality(Rotators) + Spare < Cardinality(Indices)
    /\ Goto(w, "listing", {})
    /\ IF Rotating THEN Fault ELSE UNCHANGED faults
    /\ UNCHANGED <<env, esVars, docVars, swaps, deletion>>

\* appendNewIndex: the write aliases as they are now ...
ReadWriteAliases(w) ==
    /\ job[w].pc = "listing"
    /\ Goto(w, "creating", write)
    /\ UNCHANGED <<env, esVars, docVars, swaps, deletion, faults>>

\* Mutant: the new index comes without the search alias.
CreateUnsearchedIndex(w, i) ==
    /\ job[w].pc = "creating"
    /\ i \notin used
    /\ used' = used \cup {i}
    /\ swaps' = swaps \cup {[add |-> i, remove |-> job[w].seen]}
    /\ Goto(w, "idle", {})
    /\ UNCHANGED <<env, dropped, detached, search, write, docVars, deletion, faults>>

\* ... a new index under the search alias, and the swap, on its way.
CreateIndex(w, i) ==
    /\ job[w].pc = "creating"
    /\ i \notin used
    /\ used' = used \cup {i}
    /\ search' = search \cup {i}
    /\ swaps' = swaps \cup {[add |-> i, remove |-> job[w].seen]}
    /\ Goto(w, "idle", {})
    /\ UNCHANGED <<env, dropped, detached, write, docVars, deletion, faults>>

\* Mutant: the old write aliases are left for the repair.
SwapAddsOnly(s) ==
    /\ s \in swaps
    /\ PutAliases({s.add}, {})
    /\ swaps' = swaps \ {s}
    /\ UNCHANGED <<env, used, dropped, detached, search, docVars, job, deletion,
                   faults>>

SwapAliases(s) ==
    /\ s \in swaps
    /\ PutAliases({s.add}, s.remove)
    /\ swaps' = swaps \ {s}
    /\ UNCHANGED <<env, used, dropped, detached, search, docVars, job, deletion,
                   faults>>

SwapFail(s) ==
    /\ s \in swaps
    /\ Fault
    /\ swaps' = swaps \ {s}
    /\ UNCHANGED <<env, esVars, docVars, job, deletion>>

\* verifyIndexAliases: the search aliases as they are now ...
StartVerify(w) ==
    /\ job[w] = Idle
    /\ env = "present"
    /\ Goto(w, "checking", search)
    /\ UNCHANGED <<env, esVars, docVars, swaps, deletion, faults>>

\* Mutant: only a missing write alias is repaired.
CheckMissingOnly(w) ==
    /\ job[w].pc = "checking"
    /\ LET found == job[w].seen IN
       \/ found = {} /\ Goto(w, "listing", {})
       \/ found # {} /\ write # {} /\ Goto(w, "idle", {})
       \/ /\ found # {} /\ write = {}
          /\ \E i \in found : Goto(w, "restoring", {i})
    /\ UNCHANGED <<env, esVars, docVars, swaps, deletion, faults>>

\* Mutant: any write alias counts as one too many.
CheckTrimsAll(w) ==
    /\ job[w].pc = "checking"
    /\ LET found == job[w].seen IN
       \/ found = {} /\ Goto(w, "listing", {})
       \/ found # {} /\ write # {} /\ Goto(w, "trimming", write)
       \/ /\ found # {} /\ write = {}
          /\ \E i \in found : Goto(w, "restoring", {i})
    /\ UNCHANGED <<env, esVars, docVars, swaps, deletion, faults>>

\* ... and the write aliases a request later.
CheckWriteAliases(w) ==
    /\ job[w].pc = "checking"
    /\ LET found == job[w].seen IN
       \/ found = {} /\ Goto(w, "listing", {})
       \/ found # {} /\ Cardinality(write) = 1 /\ Goto(w, "idle", {})
       \/ /\ found # {} /\ Cardinality(write) > 1
          /\ \E keep \in write : Goto(w, "trimming", write \ {keep})
       \/ /\ found # {} /\ write = {}
          /\ \E i \in found : Goto(w, "restoring", {i})
    /\ UNCHANGED <<env, esVars, docVars, swaps, deletion, faults>>

TrimWriteAliases(w) ==
    /\ job[w].pc = "trimming"
    /\ PutAliases({}, job[w].seen)
    /\ Goto(w, "idle", {})
    /\ UNCHANGED <<env, used, dropped, detached, search, docVars, swaps, deletion,
                   faults>>

RestoreWriteAlias(w) ==
    /\ job[w].pc = "restoring"
    /\ PutAliases(job[w].seen, {})
    /\ Goto(w, "idle", {})
    /\ UNCHANGED <<env, used, dropped, detached, search, docVars, swaps, deletion,
                   faults>>

\* A request fails, or the processor dies: neither tick is retried.
HandlerFail(w) ==
    /\ job[w] # Idle
    /\ Fault
    /\ Goto(w, "idle", {})
    /\ UNCHANGED <<env, esVars, docVars, swaps, deletion>>

-----------------------------------------------------------------------------
(* saveEventToElasticsearch *)

\* The environment's token admits events while its row is there.
Submit(e) ==
    /\ env = "present"
    /\ message[e] = "none"
    /\ message' = [message EXCEPT ![e] = "queued"]
    /\ UNCHANGED <<env, esVars, docs, strayed, attempts, job, swaps, deletion,
                   faults>>

\* The document goes to the index under the alias; without one, to an index of
\* the alias's name, if Elasticsearch may create it.
Stored(e) ==
    \/ /\ Cardinality(write) = 1
       /\ docs' = [i \in Indices |-> IF i \in write THEN docs[i] \cup {e} ELSE docs[i]]
       /\ UNCHANGED strayed
    \/ /\ write = {} /\ (AutoCreate \/ strayed # {})
       /\ strayed' = strayed \cup {e}
       /\ UNCHANGED docs

Storable == Cardinality(write) = 1 \/ (write = {} /\ (AutoCreate \/ strayed # {}))

Attempt(e) ==
    /\ message[e] = "queued"
    /\ attempts[e] < MaxAttempts
    /\ attempts' = [attempts EXCEPT ![e] = @ + 1]

SaveEvent(e) ==
    /\ Attempt(e)
    /\ Stored(e)
    /\ message' = [message EXCEPT ![e] = "saved"]
    /\ UNCHANGED <<env, esVars, job, swaps, deletion, faults>>

\* Mutant: the error is rethrown without the retry flag, which finishes the
\* message.
SaveRefusedForGood(e) ==
    /\ Attempt(e)
    /\ ~ Storable
    /\ message' = [message EXCEPT ![e] = "saved"]
    /\ UNCHANGED <<env, esVars, docs, strayed, job, swaps, deletion, faults>>

\* Two indices under the alias and none of them the write index.
SaveRefused(e) ==
    /\ Attempt(e)
    /\ ~ Storable
    /\ UNCHANGED <<env, esVars, docs, strayed, message, job, swaps, deletion, faults>>

\* The answer is lost or the saver dies, the document stored or not.
SaveFail(e) ==
    /\ Attempt(e)
    /\ Fault
    /\ Stored(e) \/ UNCHANGED <<docs, strayed>>
    /\ UNCHANGED <<env, esVars, message, job, swaps, deletion>>

GiveUp(e) ==
    /\ message[e] = "queued"
    /\ attempts[e] = MaxAttempts
    /\ message' = [message EXCEPT ![e] = "given_up"]
    /\ UNCHANGED <<env, esVars, docs, strayed, attempts, job, swaps, deletion,
                   faults>>

-----------------------------------------------------------------------------
(* models/environment/delete.  The row locks of the transaction let one      *)
(* deletion at a time reach Elasticsearch.                                   *)

Deletion(step, index) == deletion' = [pc |-> step, index |-> index]

DeleteRows ==
    /\ env = "present"
    /\ deletion.pc = "none"
    /\ Deletion("listing", {})
    /\ UNCHANGED <<env, esVars, docVars, job, swaps, faults>>

\* "System is in disarray": any other number of indices is an error, although
\* every rotation adds one to those that are searched.
DeleteListsIndices ==
    /\ deletion.pc = "listing"
    /\ IF Cardinality(search) = 1
       THEN Deletion("detaching", search)
       ELSE Deletion("none", {})
    /\ UNCHANGED <<env, esVars, docVars, job, swaps, faults>>

\* All aliases of the index, in one request.
DeleteAliases ==
    /\ deletion.pc = "detaching"
    /\ search' = search \ deletion.index
    /\ write' = write \ deletion.index
    /\ detached' = detached \cup deletion.index
    /\ Deletion("dropping", deletion.index)
    /\ UNCHANGED <<env, used, dropped, docVars, job, swaps, faults>>

\* With the index goes an alias that a repair has put back.
DeleteIndex ==
    /\ deletion.pc = "dropping"
    /\ dropped' = dropped \cup deletion.index
    /\ write' = write \ deletion.index
    /\ docs' = [i \in Indices |-> IF i \in deletion.index THEN {} ELSE docs[i]]
    /\ Deletion("committing", {})
    /\ UNCHANGED <<env, used, detached, search, strayed, message, attempts, job,
                   swaps, faults>>

DeleteCommit ==
    /\ deletion.pc = "committing"
    /\ env' = "deleted"
    /\ Deletion("none", {})
    /\ UNCHANGED <<esVars, docVars, job, swaps, faults>>

\* The transaction is rolled back; Elasticsearch keeps what it was told.
DeleteFail ==
    /\ deletion.pc # "none"
    /\ Fault
    /\ Deletion("none", {})
    /\ UNCHANGED <<env, esVars, docVars, job, swaps>>

-----------------------------------------------------------------------------

CreateNext == (\E i \in Indices : CreateEnvironmentIndex(i)) \/ CreateEnvironmentRow

WorkerStep(w) ==
    \/ ReadWriteAliases(w)  \/ CheckWriteAliases(w)
    \/ TrimWriteAliases(w)  \/ RestoreWriteAlias(w)
    \/ \E i \in Indices : CreateIndex(w, i)

RotatorNext ==
    \/ \E w \in Workers : StartRotation(w) \/ StartVerify(w) \/ WorkerStep(w)
                          \/ HandlerFail(w)
    \/ \E s \in swaps : SwapAliases(s) \/ SwapFail(s)

SaverNext ==
    \E e \in Events : \/ Submit(e)   \/ SaveEvent(e) \/ SaveRefused(e)
                      \/ SaveFail(e) \/ GiveUp(e)

DeletionStep == DeleteListsIndices \/ DeleteAliases \/ DeleteIndex \/ DeleteCommit

DeletionNext == DeleteRows \/ DeletionStep \/ DeleteFail

Next == CreateNext \/ RotatorNext \/ SaverNext \/ DeletionNext

Spec == Init /\ [][Next]_vars

\* Ticks come, requests are answered and handlers go on; nothing forces a
\* rotation, a deletion or an event.
Fairness ==
    /\ \A w \in Workers : WF_vars(StartVerify(w)) /\ WF_vars(WorkerStep(w))
    /\ \A i \in Indices : \A S \in SUBSET Indices :
          WF_vars(SwapAliases([add |-> i, remove |-> S]))
    /\ WF_vars(DeletionStep)

FairSpec == Spec /\ Fairness

-----------------------------------------------------------------------------
(* What must hold in every state *)

Exists == env \in {"indexed", "present"}

\* "Want exactly one write alias" (ElasticsearchIndexRotator.ts:130): repairs and
\* rotations that read and write at different times keep it so, unless something
\* failed, two rotations overlapped, or a deletion took the aliases away.
OneWriteIndex ==
    Exists /\ detached = {} /\ faults = 0 => Cardinality(write) = 1

\* What is written is under the search alias: even with rotations overlapping,
\* requests lost and repairs acting on old readings, so viewers, ad-hoc and
\* active searches see where events are written.  It says nothing of GraphQL,
\* counts and exports, which read the write alias itself.
WriteIsSearched == detached = {} => write \subseteq search

\* What a search of each alias returns.  An index of the write alias's name is
\* read in its place.
UnderSearchAlias(e) == \E i \in search : e \in docs[i]
UnderWriteAlias(e) == e \in strayed \/ \E i \in write : e \in docs[i]

\* A saved event stays where a viewer's, an ad-hoc or an active search finds it
\* (viewer/searchEvents.ts:60, searchAdHoc.ts:11, pumpActiveSearch.ts:51) through
\* every rotation and repair, unless it strayed into an index of the write
\* alias's name or a deletion of the environment reached the aliases.
SavedIsSearchable ==
    \A e \in Events :
        message[e] = "saved" => UnderSearchAlias(e) \/ e \in strayed \/ detached # {}

\* A saved event is found by GraphQL, as the rotator's comment has it ("the
\* collection of indices that are searched by the graphql search endpoints",
\* ElasticsearchIndexRotator.ts:37-38).  The code breaks it: scope()
\* (elasticsearch.ts:134) names the write alias, which a rotation moves away.
GraphqlFindsSaved ==
    \A e \in Events :
        message[e] = "saved" /\ detached = {} => UnderWriteAlias(e)

\* Neither is an event given up, nor does one stray into an index of the write
\* alias's name, without a fault or a deletion that reached the aliases.
NoLossWithoutCause ==
    faults = 0 /\ detached = {} =>
        strayed = {} /\ \A e \in Events : message[e] # "given_up"

-----------------------------------------------------------------------------
(* What must eventually happen *)

\* The repair ends with one write alias, whatever rotations and deletions that
\* failed have left; a concrete index of the alias's name is what it cannot mend.
AliasesSettle == <>[](env = "present" /\ strayed = {} => Cardinality(write) = 1)

=============================================================================
