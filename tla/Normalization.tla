---------------------------- MODULE Normalization ----------------------------
(***************************************************************************)
(* How a row of ingest_task becomes a normalized event.                    *)
(*                                                                         *)
(* A worker (one of the five messages that the raw_events consumer of a    *)
(* processor handles at once) reads the row, upserts the group, actor,     *)
(* target and action it mentions, updates the row and publishes the        *)
(* normalized event, in no transaction: what it read decides what it does  *)
(* later.  NormalizeRepairer puts the task ids of rows that stay raw back  *)
(* on the topic.                                                           *)
(*                                                                         *)
(* raw_events is consumed with one attempt, so a message is gone once it   *)
(* was delivered, whatever its handler does: an error finishes it, and a   *)
(* redelivery after a crash or a timeout is discarded unseen.              *)
(***************************************************************************)
EXTENDS IngestStore

CONSTANTS
    Workers,      \* normalizeEvent calls at once: five messages in flight per
                  \* processor, and the calls that outlive their message
    NoEvent,      \* the job of an idle worker
    RepairLimit   \* rows one repair takes (maxEvents)

ASSUME NormalizationAssumption ==
    /\ IsFiniteSet(Workers)
    /\ NoEvent \notin Events
    /\ RepairLimit \in Nat \ {0}

VARIABLES
    pc,         \* the await that a worker's normalizeEvent is at
    job,        \* the event whose task it works on
    counted,    \* how often the event was counted in event_count of an entity
                \* that it mentions, any one of them
    published,  \* how often it was published to normalized_events
    repairing   \* rows the repairer selected and has yet to publish

normalizationVars == <<pc, job, counted, published, repairing>>

WorkerStates == {"idle", "upserting", "updating", "producing"}

NormalizationTypeOK ==
    /\ pc \in [Workers -> WorkerStates]
    /\ job \in [Workers -> Events \cup {NoEvent}]
    /\ \A w \in Workers : pc[w] = "idle" <=> job[w] = NoEvent
    /\ counted \in [Events -> Nat]
    /\ published \in [Events -> Nat]
    /\ repairing \subseteq Events

NormalizationInit ==
    /\ pc = [w \in Workers |-> "idle"]
    /\ job = [w \in Workers |-> NoEvent]
    /\ counted = [e \in Events |-> 0]
    /\ published = [e \in Events |-> 0]
    /\ repairing = {}

-----------------------------------------------------------------------------
(* normalizeEvent *)

Goto(w, label) == pc' = [pc EXCEPT ![w] = label]

\* The run is over, its worker free.
Return(w) ==
    /\ Goto(w, "idle")
    /\ job' = [job EXCEPT ![w] = NoEvent]

TakeRaw(w, e) ==
    /\ pc[w] = "idle"
    /\ raw[e] > 0
    /\ raw' = [raw EXCEPT ![e] = @ - 1]

\* The select finds a row with its original event in it.
ReadTask(w, e) ==
    /\ TakeRaw(w, e)
    /\ task[e] = "raw"
    /\ Goto(w, "upserting")
    /\ job' = [job EXCEPT ![w] = e]
    /\ UNCHANGED <<task, faults, counted, published, repairing>>

\* It finds no row, or original_event is '' because the task was normalized:
\* JSON.parse('') throws before the code asks about normalized_event.
ReadNothing(w, e) ==
    /\ TakeRaw(w, e)
    /\ task[e] # "raw"
    /\ UNCHANGED <<task, faults, normalizationVars>>

\* Mutant: an upsert that reports an error is tried again.
UpsertEntitiesAgain(w) ==
    /\ pc[w] = "upserting"
    /\ counted' = [counted EXCEPT ![job[w]] = @ + 1]
    /\ UNCHANGED pc \/ Goto(w, "updating")
    /\ UNCHANGED <<storeVars, job, published, repairing>>

\* The upsert of that entity, by upsertGroup, upsertActor, upsertTarget or
\* upsertAction.
UpsertEntities(w) ==
    /\ pc[w] = "upserting"
    /\ counted' = [counted EXCEPT ![job[w]] = @ + 1]
    /\ Goto(w, "updating")
    /\ UNCHANGED <<storeVars, job, published, repairing>>

\* update ingest_task set original_event = '', normalized_event = ...
UpdateTask(w) ==
    /\ pc[w] = "updating"
    /\ task' = [task EXCEPT ![job[w]] = "normalized"]
    /\ Goto(w, "producing")
    /\ UNCHANGED <<raw, faults, job, counted, published, repairing>>

\* Mutant: a publish that reports an error is tried again.
ProduceAgain(w) ==
    /\ pc[w] = "producing"
    /\ published' = [published EXCEPT ![job[w]] = @ + 1]
    /\ UNCHANGED <<pc, job>> \/ Return(w)
    /\ UNCHANGED <<storeVars, counted, repairing>>

ProduceNormalized(w) ==
    /\ pc[w] = "producing"
    /\ published' = [published EXCEPT ![job[w]] = @ + 1]
    /\ Return(w)
    /\ UNCHANGED <<storeVars, counted, repairing>>

\* A query or the publish fails, or the processor dies.
NormalizeFail(w) ==
    /\ pc[w] # "idle"
    /\ Fault
    /\ Return(w)
    /\ UNCHANGED <<task, raw, counted, published, repairing>>

-----------------------------------------------------------------------------
(* NormalizeRepairer *)

\* Mutant: normalized_event IS NOT NULL.
SelectNormalized(S) ==
    /\ repairing = {}
    /\ S # {} /\ Cardinality(S) <= RepairLimit
    /\ \A e \in S : task[e] = "normalized"
    /\ repairing' = S
    /\ UNCHANGED <<storeVars, pc, job, counted, published>>

\* SELECT ... WHERE normalized_event IS NULL AND age > minAge ORDER BY age
\* LIMIT: S are rows old enough.  Time is not modelled, so any raw row may be.
SelectRaw(S) ==
    /\ repairing = {}
    /\ S # {} /\ Cardinality(S) <= RepairLimit
    /\ \A e \in S : task[e] = "raw"
    /\ repairing' = S
    /\ UNCHANGED <<storeVars, pc, job, counted, published>>

Republish(e) ==
    /\ e \in repairing
    /\ ProduceRaw(e)
    /\ repairing' = repairing \ {e}
    /\ UNCHANGED <<task, faults, pc, job, counted, published>>

\* One publish of the Promise.all fails; the others are under way.
RepublishFail(e) ==
    /\ e \in repairing
    /\ Fault
    /\ repairing' = repairing \ {e}
    /\ UNCHANGED <<task, raw, pc, job, counted, published>>

-----------------------------------------------------------------------------

WorkerNext(w) ==
    \/ \E e \in Events : ReadTask(w, e) \/ ReadNothing(w, e)
    \/ UpsertEntities(w) \/ UpdateTask(w) \/ ProduceNormalized(w)
    \/ NormalizeFail(w)

RepairerNext ==
    \/ \E S \in SUBSET Events : SelectRaw(S)
    \/ \E e \in Events : Republish(e) \/ RepublishFail(e)

NormalizationNext == (\E w \in Workers : WorkerNext(w)) \/ RepairerNext

-----------------------------------------------------------------------------
(* What must hold in every state *)

\* Task ids are published twice (createEvent.ts:329), again by the repairer,
\* and read by several workers, but only runs that overlap the first one
\* publish the normalized event again: original_event = '' stops the others.
DuplicatesAreOverlaps ==
    \A e \in Events : published[e] <= Cardinality(Workers)

\* The same for event_count, where a run that failed counts as well.
OvercountIsBounded ==
    \A e \in Events : counted[e] <= Cardinality(Workers) + faults

\* What consumers of normalized_events see is in Postgres already and counted
\* (updateStmt before produce, upserts before updateStmt).
PublishedIsStored ==
    \A e \in Events :
        published[e] > 0 => task[e] = "normalized" /\ counted[e] > 0

\* Why that is so.  Until the row is updated nothing was published, and who
\* counted the event is about to update the row or failed.  From then on no run
\* starts, so that every further publish or count uses up one of the runs that
\* are under way.
On(e, labels) == {w \in Workers : job[w] = e /\ pc[w] \in labels}

Overlap(e) ==
    IF task[e] = "normalized"
    THEN /\ published[e] + Cardinality(On(e, WorkerStates))
                <= Cardinality(Workers)
         /\ counted[e] + Cardinality(On(e, {"upserting"}))
                <= Cardinality(Workers) + faults
    ELSE /\ published[e] = 0
         /\ On(e, {"producing"}) = {}
         /\ counted[e] <= Cardinality(On(e, {"updating"})) + faults

OverlapInv == \A e \in Events : Overlap(e)

StoredInv ==
    /\ PublishedIsStored
    /\ \A w \in Workers :
          /\ pc[w] \in {"updating", "producing"} => counted[job[w]] > 0
          /\ pc[w] = "producing" => task[job[w]] = "normalized"

=============================================================================
