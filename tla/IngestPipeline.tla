---------------------------- MODULE IngestPipeline ---------------------------
(***************************************************************************)
(* Intake and normalization together: an event from the API request to the *)
(* normalized_events topic.  The two components touch only the store they  *)
(* share; the properties below relate what a client was told to what the   *)
(* rest of the system holds or has done.                                   *)
(***************************************************************************)
EXTENDS EventIntake, Normalization

vars == <<storeVars, intakeVars, normalizationVars>>

TypeOK == StoreTypeOK /\ IntakeTypeOK /\ NormalizationTypeOK

Init == StoreInit /\ IntakeInit /\ NormalizationInit

Next ==
    \/ IntakeNext /\ UNCHANGED normalizationVars
    \/ NormalizationNext /\ UNCHANGED intakeVars

Spec == Init /\ [][Next]_vars

-----------------------------------------------------------------------------
(* What must hold in every state *)

\* No task id is on its way to normalizeEvent, in raw_events or in the hands
\* of whoever publishes it, before its row is committed: "Couldn't find
\* ingestion task" (normalizeEvent.ts:26) is never thrown.
RawHasRow ==
    \A e \in Events :
        \/ raw[e] > 0 \/ unsent[e] > 0 \/ e \in repairing
        \/ \E m \in Movers : e \in moved[m]
        \/ \E w \in Workers : job[w] = e
        => Recorded(e)

\* All of it together is inductive.
InductiveInv ==
    TypeOK /\ CustodyInv /\ AttemptsAreFaults /\ RawHasRow /\ OverlapInv /\ StoredInv

\* The original event is blanked once and no later insert, move or retry
\* brings the row back: what was normalized stays normalized.
NormalizedIsFinal ==
    [][\A e \in Events : /\ Recorded(e) => Recorded(e)'
                         /\ task[e] = "normalized" => task'[e] = "normalized"]_vars

-----------------------------------------------------------------------------
(* Fairness: promises settle unless a fault has them hang, timers fire, nsqd *)
(* delivers and times out, cron ticks, and a handler that nothing interrupts *)
(* goes on.                                                                  *)

ApiFairness ==
    \A e \in Events :
        /\ WF_vars(AppendCommit(e) /\ UNCHANGED normalizationVars)
        /\ WF_vars(AppendReply(e) /\ UNCHANGED normalizationVars)
        /\ WF_vars(PublishTimer(e) /\ UNCHANGED normalizationVars)
        /\ WF_vars(PublishCommit(e) /\ UNCHANGED normalizationVars)
        /\ WF_vars(PublishReply(e) /\ UNCHANGED normalizationVars)

IngestStep(j) == IngestInsert(j) \/ IngestConflict(j) \/ IngestProduce(j)

IntakeFairness ==
    /\ \A m \in Movers :
          /\ WF_vars((\E S \in SUBSET backlog : MoveRows(m, S))
                     /\ UNCHANGED normalizationVars)
          /\ \A e \in Events :
                WF_vars(MoverProduce(m, e) /\ UNCHANGED normalizationVars)
    /\ \A e \in Events :
          /\ WF_vars(Deliver(e) /\ UNCHANGED normalizationVars)
          /\ WF_vars(/\ ~ Handled(e)
                     /\ MessageTimeout(e)
                     /\ UNCHANGED normalizationVars)
    /\ \A j \in [ev : Events, attempt : 1..MaxAttempts,
                 pc : {"inserting", "publishing"}] :
          WF_vars(IngestStep(j) /\ UNCHANGED normalizationVars)

WorkerStep(w) ==
    \/ \E e \in Events : ReadTask(w, e) \/ ReadNothing(w, e)
    \/ UpsertEntities(w) \/ UpdateTask(w) \/ ProduceNormalized(w)

\* The repairer selects the oldest rows first, so a row that stays raw is
\* selected however often others are (hence strong fairness).
NormalizationFairness ==
    /\ \A w \in Workers : WF_vars(WorkerStep(w) /\ UNCHANGED intakeVars)
    /\ \A e \in Events :
          /\ SF_vars((\E S \in SUBSET Events : e \in S /\ SelectRaw(S))
                     /\ UNCHANGED intakeVars)
          /\ WF_vars(Republish(e) /\ UNCHANGED intakeVars)

FairSpec == Spec /\ ApiFairness /\ IntakeFairness /\ NormalizationFairness

-----------------------------------------------------------------------------
(* What must eventually happen *)

\* A request is answered or dies with its process, if one of its persisters
\* succeeds or both fail: the two of them, a timer and a counter of failures leave
\* its promise pending only when one hangs and the other does not succeed.
NobodyReports(e) ==
    /\ "hung" \in {append[e], publish[e]}
    /\ {append[e], publish[e]} \subseteq {"hung", "failed"}

RequestsEnd ==
    \A e \in Events :
        (answer[e] = "pending") ~> (answer[e] # "pending" \/ NobodyReports(e))

\* "this will handle cleanup in case processing fails or in case the API is
\* unable to communicate with nsq" (NormalizeRepairer.ts:16-17), read for a run
\* that fails after its row was updated: the normalized event is published.
NormalizedIsPublished ==
    \A e \in Events : (task[e] = "normalized") ~> (published[e] > 0)

\* The pipeline keeps the promise of AuditLog: nothing held is dropped, only
\* what is held is confirmed, and all of it is eventually normalized.
HeldEvents == {e \in Events : Held(e)}
AckedEvents == {e \in Events : answer[e] = "acked"}
NormalizedEvents == {e \in Events : task[e] = "normalized"}

Log == INSTANCE AuditLog WITH
    held <- HeldEvents, confirmed <- AckedEvents, normalized <- NormalizedEvents

KeepsTheLog == Log!Spec

=============================================================================
