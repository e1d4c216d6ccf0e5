----------------------------- MODULE IngestProofs ----------------------------
(***************************************************************************)
(* Proofs about the ingestion pipeline, for any number of events, movers,  *)
(* workers, attempts and faults.                                           *)
(*                                                                         *)
(* Everything rests on one inductive invariant (IngestPipeline!            *)
(* InductiveInv).  AckedIsHeld is not inductive: that an acknowledged      *)
(* event is held now says nothing of why it will be after its message is   *)
(* finished or its backlog row moved, so the invariant follows each        *)
(* persister's call to the store it wrote (CustodyInv).                    *)
(* DuplicatesAreOverlaps is not inductive either: it needs the workers     *)
(* under way to be counted along with the events they published, and what  *)
(* a worker read tied to the row it will write (OverlapInv).  The          *)
(* temporal theorems at the end combine these facts; that a task id has    *)
(* one publisher is proved for the intake alone (PublisherInv).            *)
(***************************************************************************)
EXTENDS IngestPipeline, FiniteSetTheorems, TLAPS

\* The shared operations on the store keep its type.
LEMMA StoreFacts ==
    ASSUME StoreTypeOK
    PROVE  /\ \A S : InsertRows(S) => task' \in [Events -> RowStates]
           /\ \A e : ProduceRaw(e) => raw' \in [Events -> Nat]
           /\ Fault => faults' \in 0..MaxFaults
  BY BoundsAssumption DEF StoreTypeOK, InsertRows, ProduceRaw, Fault, RowStates

\* Every handler of the API keeps the types.
LEMMA ApiType ==
    ASSUME StoreTypeOK, IntakeTypeOK, ApiNext
    PROVE  StoreTypeOK' /\ IntakeTypeOK'
<1> USE DEF IntakeTypeOK, AnswerStates, CallStates, MessageStates, Jobs,
            storeVars, requestVars, moverVars, queueVars
<1>1. ASSUME NEW e \in Events, ApiStep(e)
      PROVE  StoreTypeOK' /\ IntakeTypeOK'
  <2>1. CASE CreateEvent(e)
    BY <2>1 DEF CreateEvent, StoreTypeOK
  <2>2. CASE SaveEvent(e)
    BY <2>2, StoreFacts DEF SaveEvent, InsertDirectly, StoreTypeOK
  <2>3. CASE ApiCrash(e)
    BY <2>3, StoreFacts DEF ApiCrash, StoreTypeOK
  <2>4. CASE AppendCommit(e)
    BY <2>4 DEF AppendCommit, StoreTypeOK
  <2>5. CASE AppendReply(e)
    BY <2>5 DEF AppendReply, Resolve, StoreTypeOK
  <2>6. CASE AppendFail(e)
    BY <2>6, StoreFacts DEF AppendFail, Reject, StoreTypeOK
  <2>7. CASE PublishTimer(e)
    BY <2>7 DEF PublishTimer, StoreTypeOK
  <2>8. CASE PublishCommit(e)
    BY <2>8 DEF PublishCommit, StoreTypeOK
  <2>9. CASE PublishReply(e)
    BY <2>9 DEF PublishReply, Resolve, StoreTypeOK
  <2>10. CASE PublishFail(e)
    BY <2>10, StoreFacts DEF PublishFail, Reject, StoreTypeOK
  <2>11. CASE NsqPublish(e)
    BY <2>11, StoreFacts DEF NsqPublish, StoreTypeOK
  <2>12. CASE NsqPublishFail(e)
    BY <2>12, StoreFacts DEF NsqPublishFail, StoreTypeOK
  <2>13. CASE AppendHang(e)
    BY <2>13, StoreFacts DEF AppendHang, StoreTypeOK
  <2>14. CASE PublishHang(e)
    BY <2>14, StoreFacts DEF PublishHang, StoreTypeOK
  <2> QED BY <1>1, <2>1, <2>2, <2>3, <2>4, <2>5, <2>6, <2>7,
             <2>8, <2>9, <2>10, <2>11, <2>12, <2>13, <2>14
           DEF ApiStep
<1>2. ASSUME NEW S \in SUBSET Events, CreateEventBulk(S)
      PROVE  StoreTypeOK' /\ IntakeTypeOK'
  BY <1>2, StoreFacts DEF CreateEventBulk, InsertDirectly, StoreTypeOK
<1>3. ASSUME NEW S \in SUBSET Events, InsertDirectlyFail(S)
      PROVE  StoreTypeOK' /\ IntakeTypeOK'
  BY <1>3, StoreFacts DEF InsertDirectlyFail, StoreTypeOK
<1> QED BY <1>1, <1>2, <1>3 DEF ApiNext

\* So does ingestFromBacklog,
LEMMA MoverType ==
    ASSUME StoreTypeOK, IntakeTypeOK, MoverNext
    PROVE  StoreTypeOK' /\ IntakeTypeOK'
<1> USE DEF IntakeTypeOK, requestVars, queueVars
<1> PICK m \in Movers :
        \/ \E S \in SUBSET backlog : MoveRows(m, S)
        \/ \E e \in Events : MoverProduce(m, e)
        \/ MoverFail(m)
  BY DEF MoverNext
<1>1. ASSUME NEW S \in SUBSET backlog, MoveRows(m, S)
      PROVE  StoreTypeOK' /\ IntakeTypeOK'
  BY <1>1, StoreFacts DEF MoveRows, StoreTypeOK
<1>2. ASSUME NEW e \in Events, MoverProduce(m, e)
      PROVE  StoreTypeOK' /\ IntakeTypeOK'
  BY <1>2, StoreFacts DEF MoverProduce, StoreTypeOK
<1>3. CASE MoverFail(m)
  BY <1>3, StoreFacts DEF MoverFail, StoreTypeOK
<1> QED BY <1>1, <1>2, <1>3

\* so do nsqd and ingestFromQueue,
LEMMA QueueType ==
    ASSUME StoreTypeOK, IntakeTypeOK, QueueNext
    PROVE  StoreTypeOK' /\ IntakeTypeOK'
<1> USE DEF IntakeTypeOK, MessageStates, requestVars, moverVars, storeVars
<1>1. ASSUME NEW e \in Events, Deliver(e)
      PROVE  StoreTypeOK' /\ IntakeTypeOK'
  BY <1>1 DEF Deliver, Jobs, StoreTypeOK
<1>2. ASSUME NEW e \in Events, Discard(e)
      PROVE  StoreTypeOK' /\ IntakeTypeOK'
  BY <1>2 DEF Discard, StoreTypeOK
<1>3. ASSUME NEW e \in Events, MessageTimeout(e)
      PROVE  StoreTypeOK' /\ IntakeTypeOK'
  BY <1>3, StoreFacts DEF MessageTimeout, StoreTypeOK
<1>4. ASSUME NEW j \in ingesting, IngestNext(j)
      PROVE  StoreTypeOK' /\ IntakeTypeOK'
  <2>1. j \in Jobs
    OBVIOUS
  <2>2. CASE IngestInsert(j)
    BY <2>1, <2>2, StoreFacts DEF IngestInsert, Jobs, StoreTypeOK
  <2>3. CASE IngestConflict(j)
    BY <2>1, <2>3 DEF IngestConflict, Respond, Jobs, StoreTypeOK
  <2>4. CASE IngestRetry(j)
    BY <2>1, <2>4, StoreFacts DEF IngestRetry, Respond, Jobs, StoreTypeOK
  <2>5. CASE IngestProduce(j)
    BY <2>1, <2>5, StoreFacts DEF IngestProduce, Respond, Jobs, StoreTypeOK
  <2>6. CASE IngestProduceFail(j)
    BY <2>1, <2>6, StoreFacts DEF IngestProduceFail, Respond, Jobs, StoreTypeOK
  <2>7. CASE IngestCrash(j)
    BY <2>1, <2>7, StoreFacts DEF IngestCrash, StoreTypeOK
  <2> QED BY <1>4, <2>2, <2>3, <2>4, <2>5, <2>6, <2>7 DEF IngestNext
<1> QED BY <1>1, <1>2, <1>3, <1>4 DEF QueueNext

\* and so do normalizeEvent and the repairer.
LEMMA NormalizationType ==
    ASSUME StoreTypeOK, NormalizationTypeOK, NormalizationNext
    PROVE  StoreTypeOK' /\ NormalizationTypeOK'
<1> USE DEF NormalizationTypeOK, WorkerStates, normalizationVars, storeVars
<1>1. ASSUME NEW w \in Workers, WorkerNext(w)
      PROVE  StoreTypeOK' /\ NormalizationTypeOK'
  <2> USE DEF TakeRaw, Goto, Return
  <2>1. /\ \A e \in Events : e # NoEvent
        /\ pc[w] # "idle" => job[w] \in Events
    BY NormalizationAssumption
  <2>2. ASSUME NEW e \in Events, ReadTask(w, e)
        PROVE  StoreTypeOK' /\ NormalizationTypeOK'
    BY <2>2, <2>1 DEF ReadTask, StoreTypeOK
  <2>3. ASSUME NEW e \in Events, ReadNothing(w, e)
        PROVE  StoreTypeOK' /\ NormalizationTypeOK'
    BY <2>3 DEF ReadNothing, StoreTypeOK
  <2>4. CASE UpsertEntities(w)
    BY <2>4, <2>1 DEF UpsertEntities, StoreTypeOK
  <2>5. CASE UpdateTask(w)
    BY <2>5, <2>1 DEF UpdateTask, StoreTypeOK, RowStates
  <2>6. CASE ProduceNormalized(w)
    BY <2>6, <2>1 DEF ProduceNormalized, StoreTypeOK
  <2>7. CASE NormalizeFail(w)
    BY <2>7, StoreFacts DEF NormalizeFail, StoreTypeOK
  <2> QED BY <1>1, <2>2, <2>3, <2>4, <2>5, <2>6, <2>7 DEF WorkerNext
<1>2. ASSUME NEW S \in SUBSET Events, SelectRaw(S)
      PROVE  StoreTypeOK' /\ NormalizationTypeOK'
  BY <1>2 DEF SelectRaw, StoreTypeOK
<1>3. ASSUME NEW e \in Events, Republish(e)
      PROVE  StoreTypeOK' /\ NormalizationTypeOK'
  BY <1>3, StoreFacts DEF Republish, StoreTypeOK
<1>4. ASSUME NEW e \in Events, RepublishFail(e)
      PROVE  StoreTypeOK' /\ NormalizationTypeOK'
  BY <1>4, StoreFacts DEF RepublishFail, StoreTypeOK
<1> QED BY <1>1, <1>2, <1>3, <1>4 DEF NormalizationNext, RepairerNext

-----------------------------------------------------------------------------
(* Custody of acknowledged events *)

\* An insert that does nothing on conflict never takes a row away.
LEMMA InsertsKeep ==
    ASSUME StoreTypeOK, NEW S, InsertRows(S), NEW e \in Events
    PROVE  /\ Recorded(e) => Recorded(e)'
           /\ e \in S => Recorded(e)'
           /\ task[e] = "normalized" => task'[e] = "normalized"
  BY DEF StoreTypeOK, InsertRows, Recorded, RowStates

\* An answer is given only for an event that a persister has placed.
LEMMA ApiCustody ==
    ASSUME StoreTypeOK, IntakeTypeOK, CustodyInv, ApiNext
    PROVE  CustodyInv'
<1> USE DEF CustodyInv, KeptByBacklog, KeptByQueue, JobsHaveInserted,
            AnswersAreBacked, Recorded,
            IntakeTypeOK, StoreTypeOK, AnswerStates, CallStates, MessageStates,
            RowStates, Jobs, storeVars, requestVars, moverVars, queueVars, Fault
<1>1. ASSUME NEW e \in Events, ApiStep(e)
      PROVE  CustodyInv'
  <2>1. CASE CreateEvent(e)
    BY <2>1, InsertsKeep DEF CreateEvent
  <2>2. CASE SaveEvent(e)
    BY <2>2, InsertsKeep DEF SaveEvent, InsertDirectly
  <2>3. CASE ApiCrash(e)
    BY <2>3, InsertsKeep DEF ApiCrash
  <2>4. CASE AppendCommit(e)
    BY <2>4, InsertsKeep DEF AppendCommit
  <2>5. CASE AppendReply(e)
    BY <2>5, InsertsKeep DEF AppendReply, Resolve
  <2>6. CASE AppendFail(e)
    BY <2>6, InsertsKeep DEF AppendFail, Reject
  <2>7. CASE PublishTimer(e)
    BY <2>7, InsertsKeep DEF PublishTimer
  <2>8. CASE PublishCommit(e)
    BY <2>8, InsertsKeep DEF PublishCommit
  <2>9. CASE PublishReply(e)
    BY <2>9, InsertsKeep DEF PublishReply, Resolve
  <2>10. CASE PublishFail(e)
    BY <2>10, InsertsKeep DEF PublishFail, Reject
  <2>11. CASE NsqPublish(e)
    BY <2>11, InsertsKeep DEF NsqPublish
  <2>12. CASE NsqPublishFail(e)
    BY <2>12, InsertsKeep DEF NsqPublishFail
  <2>13. CASE AppendHang(e)
    BY <2>13, InsertsKeep DEF AppendHang
  <2>14. CASE PublishHang(e)
    BY <2>14, InsertsKeep DEF PublishHang
  <2> QED BY <1>1, <2>1, <2>2, <2>3, <2>4, <2>5, <2>6, <2>7,
             <2>8, <2>9, <2>10, <2>11, <2>12, <2>13, <2>14
           DEF ApiStep
<1>2. ASSUME NEW S \in SUBSET Events, CreateEventBulk(S)
      PROVE  CustodyInv'
  BY <1>2, InsertsKeep DEF CreateEventBulk, InsertDirectly
<1>3. ASSUME NEW S \in SUBSET Events, InsertDirectlyFail(S)
      PROVE  CustodyInv'
  BY <1>3, InsertsKeep DEF InsertDirectlyFail
<1> QED BY <1>1, <1>2, <1>3 DEF ApiNext

\* A row leaves the backlog only for ingest_task.
LEMMA MoverCustody ==
    ASSUME StoreTypeOK, IntakeTypeOK, CustodyInv, MoverNext
    PROVE  CustodyInv'
<1> USE DEF CustodyInv, KeptByBacklog, KeptByQueue, JobsHaveInserted,
            AnswersAreBacked, Recorded,
            IntakeTypeOK, StoreTypeOK, AnswerStates, CallStates, MessageStates,
            RowStates, Jobs, storeVars, requestVars, moverVars, queueVars, Fault
<1> PICK m \in Movers :
        \/ \E S \in SUBSET backlog : MoveRows(m, S)
        \/ \E e \in Events : MoverProduce(m, e)
        \/ MoverFail(m)
  BY DEF MoverNext
<1>1. ASSUME NEW S \in SUBSET backlog, MoveRows(m, S)
      PROVE  CustodyInv'
  BY <1>1, InsertsKeep DEF MoveRows
<1>2. ASSUME NEW e \in Events, MoverProduce(m, e)
      PROVE  CustodyInv'
  BY <1>2 DEF MoverProduce
<1>3. CASE MoverFail(m)
  BY <1>3 DEF MoverFail
<1> QED BY <1>1, <1>2, <1>3

\* A message is finished only for an event with a row.
LEMMA QueueCustody ==
    ASSUME StoreTypeOK, IntakeTypeOK, CustodyInv, QueueNext
    PROVE  CustodyInv'
<1> USE DEF CustodyInv, KeptByBacklog, KeptByQueue, JobsHaveInserted,
            AnswersAreBacked, Recorded,
            IntakeTypeOK, StoreTypeOK, AnswerStates, CallStates, MessageStates,
            RowStates, Jobs, storeVars, requestVars, moverVars, queueVars, Fault
<1>1. ASSUME NEW e \in Events, Deliver(e)
      PROVE  CustodyInv'
  BY <1>1 DEF Deliver
<1>2. ASSUME NEW e \in Events, Discard(e)
      PROVE  CustodyInv'
  BY <1>2 DEF Discard
<1>3. ASSUME NEW e \in Events, MessageTimeout(e)
      PROVE  CustodyInv'
  BY <1>3 DEF MessageTimeout
<1>4. ASSUME NEW j \in ingesting, IngestNext(j)
      PROVE  CustodyInv'
  <2>1. j \in Jobs
    OBVIOUS
  <2>2. CASE IngestInsert(j)
    BY <2>1, <2>2, InsertsKeep DEF IngestInsert, Respond
  <2>3. CASE IngestConflict(j)
    BY <2>1, <2>3, InsertsKeep DEF IngestConflict, Respond
  <2>4. CASE IngestRetry(j)
    BY <2>1, <2>4, InsertsKeep DEF IngestRetry, Respond
  <2>5. CASE IngestProduce(j)
    BY <2>1, <2>5, InsertsKeep DEF IngestProduce, Respond
  <2>6. CASE IngestProduceFail(j)
    BY <2>1, <2>6, InsertsKeep DEF IngestProduceFail, Respond
  <2>7. CASE IngestCrash(j)
    BY <2>1, <2>7, InsertsKeep DEF IngestCrash, Respond
  <2> QED BY <1>4, <2>2, <2>3, <2>4, <2>5, <2>6, <2>7 DEF IngestNext
<1> QED BY <1>1, <1>2, <1>3, <1>4 DEF QueueNext

-----------------------------------------------------------------------------
(* Attempts are paid for with faults *)

\* The API publishes to unsaved_events at most once per event.
LEMMA ApiAttempts ==
    ASSUME StoreTypeOK, IntakeTypeOK, AttemptsAreFaults, ApiNext
    PROVE  AttemptsAreFaults'
<1> USE DEF AttemptsAreFaults, Handled, IntakeTypeOK, StoreTypeOK, MessageStates,
            Jobs, storeVars, requestVars, moverVars, queueVars, Fault
<1>1. ASSUME NEW e \in Events, ApiStep(e)
      PROVE  AttemptsAreFaults'
  <2>1. CASE CreateEvent(e)
    BY <2>1 DEF CreateEvent
  <2>2. CASE SaveEvent(e)
    BY <2>2 DEF SaveEvent, InsertDirectly
  <2>3. CASE ApiCrash(e)
    BY <2>3 DEF ApiCrash
  <2>4. CASE AppendCommit(e)
    BY <2>4 DEF AppendCommit
  <2>5. CASE AppendReply(e)
    BY <2>5 DEF AppendReply, Resolve
  <2>6. CASE AppendFail(e)
    BY <2>6 DEF AppendFail, Reject
  <2>7. CASE PublishTimer(e)
    BY <2>7 DEF PublishTimer
  <2>8. CASE PublishCommit(e)
    BY <2>8 DEF PublishCommit
  <2>9. CASE PublishReply(e)
    BY <2>9 DEF PublishReply, Resolve
  <2>10. CASE PublishFail(e)
    BY <2>10 DEF PublishFail, Reject
  <2>11. CASE NsqPublish(e)
    BY <2>11 DEF NsqPublish
  <2>12. CASE NsqPublishFail(e)
    BY <2>12 DEF NsqPublishFail
  <2>13. CASE AppendHang(e)
    BY <2>13 DEF AppendHang
  <2>14. CASE PublishHang(e)
    BY <2>14 DEF PublishHang
  <2> QED BY <1>1, <2>1, <2>2, <2>3, <2>4, <2>5, <2>6, <2>7,
             <2>8, <2>9, <2>10, <2>11, <2>12, <2>13, <2>14
           DEF ApiStep
<1>2. ASSUME NEW S \in SUBSET Events, CreateEventBulk(S)
      PROVE  AttemptsAreFaults'
  BY <1>2 DEF CreateEventBulk, InsertDirectly
<1>3. ASSUME NEW S \in SUBSET Events, InsertDirectlyFail(S)
      PROVE  AttemptsAreFaults'
  BY <1>3 DEF InsertDirectlyFail
<1> QED BY <1>1, <1>2, <1>3 DEF ApiNext

\* ingestFromBacklog does not touch the queue.
LEMMA MoverAttempts ==
    ASSUME StoreTypeOK, IntakeTypeOK, AttemptsAreFaults, MoverNext
    PROVE  AttemptsAreFaults'
<1> USE DEF AttemptsAreFaults, Handled, IntakeTypeOK, StoreTypeOK, MessageStates,
            Jobs, storeVars, requestVars, moverVars, queueVars, Fault
<1>1. UNCHANGED <<requestVars, queueVars>> /\ faults' \in {faults, faults + 1}
  BY DEF MoverNext, MoveRows, MoverProduce, MoverFail
<1> QED BY <1>1

\* A message that is delivered again was failed before, by a fault.
LEMMA QueueAttempts ==
    ASSUME StoreTypeOK, IntakeTypeOK, AttemptsAreFaults, QueueNext
    PROVE  AttemptsAreFaults'
<1> USE DEF AttemptsAreFaults, Handled, IntakeTypeOK, StoreTypeOK, MessageStates,
            Jobs, storeVars, requestVars, moverVars, queueVars, Fault
<1>1. ASSUME NEW e \in Events, Deliver(e)
      PROVE  AttemptsAreFaults'
  <2>1. Handled(e)'
    <3> DEFINE j == [ev |-> e, attempt |-> attempts[e] + 1, pc |-> "inserting"]
    <3>1. j \in ingesting' /\ j.ev = e /\ j.attempt = attempts'[e]
      BY <1>1 DEF Deliver
    <3> QED BY <3>1
  <2>2. \A f \in Events \ {e} : Handled(f) => Handled(f)'
    BY <1>1 DEF Deliver
  <2> HIDE DEF Handled
  <2> QED BY <1>1, <2>1, <2>2 DEF Deliver
<1>2. ASSUME NEW e \in Events, Discard(e)
      PROVE  AttemptsAreFaults'
  BY <1>2 DEF Discard
<1>3. ASSUME NEW e \in Events, MessageTimeout(e)
      PROVE  AttemptsAreFaults'
  BY <1>3 DEF MessageTimeout
<1>4. ASSUME NEW j \in ingesting, IngestNext(j)
      PROVE  AttemptsAreFaults'
  <2>1. j \in Jobs
    OBVIOUS
  <2>2. CASE IngestInsert(j)
    <3> DEFINE i == [j EXCEPT !.pc = "publishing"]
    <3>1. i \in ingesting' /\ i.ev = j.ev /\ i.attempt = j.attempt
      BY <2>1, <2>2 DEF IngestInsert
    <3>2. \A e \in Events : Handled(e) => Handled(e)'
      BY <2>2, <3>1 DEF IngestInsert
    <3> HIDE DEF Handled
    <3> QED BY <2>2, <3>2 DEF IngestInsert
  <2>3. CASE IngestConflict(j)
    BY <2>1, <2>3 DEF IngestConflict, Respond
  <2>4. CASE IngestRetry(j)
    BY <2>1, <2>4 DEF IngestRetry, Respond
  <2>5. CASE IngestProduce(j)
    BY <2>1, <2>5 DEF IngestProduce, Respond
  <2>6. CASE IngestProduceFail(j)
    BY <2>1, <2>6 DEF IngestProduceFail, Respond
  <2>7. CASE IngestCrash(j)
    BY <2>1, <2>7 DEF IngestCrash, Respond
  <2> QED BY <1>4, <2>2, <2>3, <2>4, <2>5, <2>6, <2>7 DEF IngestNext
<1> QED BY <1>1, <1>2, <1>3, <1>4 DEF QueueNext

-----------------------------------------------------------------------------
(* Overlapping runs *)

\* Sizes of sets of workers, and of such a set with one worker more or less.
LEMMA WorkerSets ==
    ASSUME NEW A \in SUBSET Workers, NEW w \in Workers
    PROVE  /\ Cardinality(Workers) \in Nat
           /\ Cardinality(A) \in Nat
           /\ Cardinality(A) <= Cardinality(Workers)
           /\ w \in A => Cardinality(A \ {w}) = Cardinality(A) - 1
           /\ w \notin A => A \ {w} = A /\ Cardinality(A \cup {w}) = Cardinality(A) + 1
<1>1. IsFiniteSet(Workers) /\ IsFiniteSet(A)
  BY FS_Subset, NormalizationAssumption
<1>2. /\ Cardinality(Workers) \in Nat /\ Cardinality(A) \in Nat
      /\ Cardinality(A) <= Cardinality(Workers)
  BY <1>1, FS_Subset, FS_CardinalityType
<1>3. w \in A => Cardinality(A \ {w}) = Cardinality(A) - 1
  BY <1>1, FS_RemoveElement
<1>4. w \notin A => Cardinality(A \cup {w}) = Cardinality(A) + 1
  BY <1>1, FS_AddElement
<1> QED BY <1>2, <1>3, <1>4

\* Two groups of workers that share none are at most all workers.
LEMMA DisjointWorkerSets ==
    ASSUME NEW A \in SUBSET Workers, NEW B \in SUBSET Workers, A \cap B = {}
    PROVE  Cardinality(A) + Cardinality(B) <= Cardinality(Workers)
<1>1. IsFiniteSet(A) /\ IsFiniteSet(B) /\ IsFiniteSet(A \cup B)
  BY FS_Subset, NormalizationAssumption
<1>2. Cardinality(A \cup B) = Cardinality(A) + Cardinality(B)
  <2>1. Cardinality(A \cup B) = Cardinality(A) + Cardinality(B) - Cardinality(A \cap B)
    BY <1>1, FS_Union
  <2>2. Cardinality(A \cap B) = 0
    BY FS_EmptySet
  <2> QED BY <1>1, <2>1, <2>2, FS_CardinalityType
<1>3. Cardinality(A \cup B) <= Cardinality(Workers)
  BY FS_Subset, NormalizationAssumption
<1> QED BY <1>2, <1>3

\* A step of worker w moves it between the sets of its own event only.
LEMMA WorkerMoves ==
    ASSUME NormalizationTypeOK, NEW w \in Workers, NEW label \in WorkerStates,
           Goto(w, label), NEW f \in Events, NEW labels \in SUBSET WorkerStates,
           job' \in {job, [job EXCEPT ![w] = NoEvent]},
           label = "idle" <=> job' # job
    PROVE  /\ job[w] # f => On(f, labels)' = On(f, labels)
           /\ job' = job /\ job[w] = f /\ label \in labels =>
                 On(f, labels)' = On(f, labels) \cup {w}
           /\ job' # job \/ label \notin labels =>
                 On(f, labels)' = On(f, labels) \ {w}
  BY NormalizationAssumption DEF NormalizationTypeOK, On, Goto

\* A run starts only while the row is raw, so it cannot break the bounds.
LEMMA ReadOverlap ==
    ASSUME StoreTypeOK, NormalizationTypeOK, OverlapInv,
           NEW w \in Workers, NEW e \in Events, ReadTask(w, e)
    PROVE  OverlapInv'
<1>1. /\ UNCHANGED <<task, faults, counted, published>>
      /\ task[e] = "raw"
  BY DEF ReadTask
<1>2. ASSUME NEW f \in Events,
             NEW labels \in SUBSET WorkerStates,
             f # e \/ "upserting" \notin labels
      PROVE  On(f, labels)' = On(f, labels)
  <2>1. job[w] = NoEvent /\ f # NoEvent
    BY NormalizationAssumption DEF ReadTask, TakeRaw, NormalizationTypeOK
  <2> QED BY <1>2, <2>1
          DEF ReadTask, TakeRaw, Goto, On, NormalizationTypeOK
<1>3. ASSUME NEW f \in Events
      PROVE  Overlap(f)'
  <2> USE DEF WorkerStates
  <2>1. Overlap(f)
    BY DEF OverlapInv
  <2>2. CASE task[f] = "normalized"
    <3>1. f # e
      BY <1>1, <2>2
    <3>2. /\ On(f, WorkerStates)' = On(f, WorkerStates)
          /\ On(f, {"upserting"})' = On(f, {"upserting"})
      BY <1>2, <3>1
    <3> QED BY <1>1, <2>1, <2>2, <3>2 DEF Overlap
  <2>3. CASE task[f] # "normalized"
    <3>1. /\ On(f, {"producing"})' = On(f, {"producing"})
          /\ On(f, {"updating"})' = On(f, {"updating"})
      BY <1>2
    <3> QED BY <1>1, <2>1, <2>3, <3>1 DEF Overlap
  <2> QED BY <2>2, <2>3
<1> QED BY <1>3 DEF OverlapInv

\* The steps of a run under way, each for the event it works on and for another.
LEMMA RunOverlap ==
    ASSUME StoreTypeOK, NormalizationTypeOK, OverlapInv, NEW w \in Workers,
           \/ UpsertEntities(w) \/ UpdateTask(w) \/ ProduceNormalized(w)
           \/ NormalizeFail(w)
    PROVE  OverlapInv'
<1> USE DEF WorkerStates
<1> DEFINE All == WorkerStates
           W == Cardinality(Workers)
<1>1. PICK e \in Events : e = job[w] /\ w \in On(e, All) /\ w \in On(e, {pc[w]})
  BY DEF UpsertEntities, UpdateTask, ProduceNormalized, NormalizeFail,
         NormalizationTypeOK, On
<1>2. PICK label \in WorkerStates :
          /\ Goto(w, label)
          /\ job' \in {job, [job EXCEPT ![w] = NoEvent]}
          /\ label = "idle" <=> job' # job
          /\ UpsertEntities(w) => label = "updating"
          /\ UpdateTask(w) => label = "producing"
          /\ ProduceNormalized(w) \/ NormalizeFail(w) => label = "idle"
  <2>1. [job EXCEPT ![w] = NoEvent] # job
    BY <1>1, NormalizationAssumption DEF NormalizationTypeOK
  <2> QED BY <2>1 DEF UpsertEntities, UpdateTask, ProduceNormalized,
                      NormalizeFail, Return, Goto, NormalizationTypeOK
<1>3. ASSUME NEW labels \in SUBSET WorkerStates
      PROVE  /\ \A f \in Events \ {e} : On(f, labels)' = On(f, labels)
             /\ label # "idle" /\ label \in labels =>
                   On(e, labels)' = On(e, labels) \cup {w}
             /\ label = "idle" \/ label \notin labels =>
                   On(e, labels)' = On(e, labels) \ {w}
  <2>1. ASSUME NEW f \in Events
        PROVE  /\ job[w] # f => On(f, labels)' = On(f, labels)
               /\ job' = job /\ job[w] = f /\ label \in labels =>
                     On(f, labels)' = On(f, labels) \cup {w}
               /\ job' # job \/ label \notin labels =>
                     On(f, labels)' = On(f, labels) \ {w}
    BY <1>2, WorkerMoves
  <2> QED BY <1>1, <1>2, <2>1
<1>4. \A f \in Events, labels \in SUBSET WorkerStates :
          /\ W \in Nat
          /\ On(f, labels) \in SUBSET Workers
          /\ Cardinality(On(f, labels)) \in Nat
          /\ Cardinality(On(f, labels)) <= W
          /\ w \in On(f, labels) =>
                Cardinality(On(f, labels) \ {w}) = Cardinality(On(f, labels)) - 1
          /\ w \notin On(f, labels) =>
                /\ On(f, labels) \ {w} = On(f, labels)
                /\ Cardinality(On(f, labels) \cup {w})
                      = Cardinality(On(f, labels)) + 1
  <2>1. \A f \in Events, labels \in SUBSET WorkerStates :
            On(f, labels) \in SUBSET Workers
    BY DEF On
  <2> QED BY <2>1, WorkerSets
<1>5. faults \in Nat /\ counted \in [Events -> Nat] /\ published \in [Events -> Nat]
  BY BoundsAssumption DEF StoreTypeOK, NormalizationTypeOK
<1>6. Overlap(e)
  BY <1>1 DEF OverlapInv
<1>7. /\ Cardinality(On(e, All)) \in Nat /\ Cardinality(On(e, All)) <= W
       /\ Cardinality(On(e, {"upserting"})) \in Nat
       /\ Cardinality(On(e, {"updating"})) \in Nat
       /\ W \in Nat /\ counted[e] \in Nat /\ published[e] \in Nat
  BY <1>1, <1>4, <1>5
<1>8. ASSUME NEW f \in Events \ {e}
      PROVE  Overlap(f)'
  <2>1. /\ counted'[f] = counted[f] /\ published'[f] = published[f]
        /\ task'[f] = task[f]
        /\ faults' \in {faults, faults + 1}
    BY <1>1, <1>8 DEF UpsertEntities, UpdateTask, ProduceNormalized, NormalizeFail,
                Fault, storeVars, StoreTypeOK, NormalizationTypeOK
  <2>2. /\ On(f, All)' = On(f, All)
        /\ On(f, {"upserting"})' = On(f, {"upserting"})
        /\ On(f, {"updating"})' = On(f, {"updating"})
        /\ On(f, {"producing"})' = On(f, {"producing"})
    BY <1>3
  <2>3. Overlap(f)
    BY DEF OverlapInv
  <2>4. /\ Cardinality(On(f, All)) \in Nat
        /\ Cardinality(On(f, {"upserting"})) \in Nat
        /\ Cardinality(On(f, {"updating"})) \in Nat
        /\ W \in Nat /\ counted[f] \in Nat /\ published[f] \in Nat
    BY <1>4, <1>5
  <2> QED BY <1>5, <2>1, <2>2, <2>3, <2>4 DEF Overlap
<1>9. CASE UpsertEntities(w)
  <2>1. /\ counted'[e] = counted[e] + 1
        /\ UNCHANGED <<task, faults, published>>
        /\ pc[w] = "upserting"
    BY <1>1, <1>9 DEF UpsertEntities, storeVars, NormalizationTypeOK
  <2>2. /\ w \in On(e, {"upserting"}) /\ w \notin On(e, {"updating"})
        /\ On(e, All) \cup {w} = On(e, All)
        /\ w \notin On(e, {"producing"})
    BY <1>1, <2>1 DEF On
  <2>3. /\ On(e, All)' = On(e, All)
        /\ On(e, {"upserting"})' = On(e, {"upserting"}) \ {w}
        /\ On(e, {"updating"})' = On(e, {"updating"}) \cup {w}
        /\ On(e, {"producing"})' = On(e, {"producing"}) \ {w}
    BY <1>2, <1>3, <1>9, <2>2
  <2>4. Overlap(e)'
    BY <1>1, <1>4, <1>5, <1>6, <2>1, <2>2, <2>3 DEF Overlap
  <2> QED BY <1>8, <2>4 DEF OverlapInv
<1>10. CASE UpdateTask(w)
  <2>1. /\ UNCHANGED <<counted, faults, published>>
        /\ task'[e] = "normalized"
        /\ pc[w] = "updating"
    BY <1>1, <1>10 DEF UpdateTask, StoreTypeOK
  <2>2. /\ On(e, All) \cup {w} = On(e, All)
        /\ w \notin On(e, {"upserting"})
        /\ On(e, {"updating"}) \cap On(e, {"upserting"}) = {}
    BY <1>1, <2>1 DEF On
  <2>3. /\ On(e, All)' = On(e, All)
        /\ On(e, {"upserting"})' = On(e, {"upserting"})
    BY <1>1, <1>2, <1>3, <1>4, <1>10, <2>2
  <2>4. Cardinality(On(e, {"updating"})) + Cardinality(On(e, {"upserting"})) <= W
    BY <1>1, <1>4, <2>2, DisjointWorkerSets
  <2>5. Overlap(e)'
    BY <1>5, <1>6, <1>7, <2>1, <2>3, <2>4 DEF Overlap
  <2> QED BY <1>8, <2>5 DEF OverlapInv
<1>11. CASE ProduceNormalized(w)
  <2>1. /\ published'[e] = published[e] + 1
        /\ UNCHANGED <<task, faults, counted>>
        /\ pc[w] = "producing"
    BY <1>1, <1>11 DEF ProduceNormalized, storeVars, NormalizationTypeOK
  <2>2. /\ On(e, All)' = On(e, All) \ {w}
        /\ On(e, {"upserting"})' = On(e, {"upserting"}) \ {w}
        /\ w \notin On(e, {"upserting"})
    BY <1>2, <1>3, <1>11, <2>1 DEF On
  <2>3. task[e] = "normalized"
    BY <1>1, <1>6, <2>1 DEF Overlap
  <2>4. /\ Cardinality(On(e, All)') = Cardinality(On(e, All)) - 1
        /\ On(e, {"upserting"})' = On(e, {"upserting"})
    BY <1>1, <1>4, <2>2
  <2>5. Overlap(e)'
    BY <1>5, <1>6, <1>7, <2>1, <2>3, <2>4 DEF Overlap
  <2> QED BY <1>8, <2>5 DEF OverlapInv
<1>12. CASE NormalizeFail(w)
  <2>1. /\ UNCHANGED <<task, counted, published>>
        /\ faults' = faults + 1
    BY <1>12 DEF NormalizeFail, Fault
  <2>2. /\ On(e, All)' = On(e, All) \ {w}
        /\ On(e, {"upserting"})' = On(e, {"upserting"}) \ {w}
        /\ On(e, {"updating"})' = On(e, {"updating"}) \ {w}
        /\ On(e, {"producing"})' = On(e, {"producing"}) \ {w}
    BY <1>2, <1>3, <1>12
  <2>3. \A labels \in SUBSET WorkerStates :
            Cardinality(On(e, labels) \ {w})
                \in {Cardinality(On(e, labels)), Cardinality(On(e, labels)) - 1}
    BY <1>1, <1>4
  <2>4. /\ Cardinality(On(e, All)') = Cardinality(On(e, All)) - 1
        /\ Cardinality(On(e, {"upserting"})')
              \in {Cardinality(On(e, {"upserting"})),
                   Cardinality(On(e, {"upserting"})) - 1}
        /\ Cardinality(On(e, {"updating"})')
              \in {Cardinality(On(e, {"updating"})),
                   Cardinality(On(e, {"updating"})) - 1}
        /\ On(e, {"producing"}) = {} => On(e, {"producing"})' = {}
    BY <1>1, <1>4, <2>2, <2>3
  <2>5. Overlap(e)'
    BY <1>5, <1>6, <1>7, <2>1, <2>4 DEF Overlap
  <2> QED BY <1>8, <2>5 DEF OverlapInv
<1> QED BY <1>9, <1>10, <1>11, <1>12

-----------------------------------------------------------------------------
(* What intake and normalization do to the store of the other *)

\* Intake never takes a row away and never normalizes one.
LEMMA IntakeOnStore ==
    ASSUME StoreTypeOK, IntakeNext
    PROVE  /\ \A e \in Events : Recorded(e) => Recorded(e)'
           /\ \A e \in Events : task[e] = "normalized" <=> task'[e] = "normalized"
           /\ faults' \in {faults, faults + 1}
<1>1. task' = task \/ \E S : InsertRows(S)
  BY DEF IntakeNext, ApiNext, ApiStep, MoverNext, QueueNext, IngestNext,
         CreateEvent, SaveEvent, InsertDirectly, ApiCrash, AppendCommit,
         AppendReply, AppendFail, PublishTimer, PublishCommit, PublishReply,
         PublishFail, AppendHang, PublishHang, NsqPublish, NsqPublishFail,
         CreateEventBulk,
         InsertDirectlyFail, MoveRows, MoverProduce, MoverFail, Deliver,
         Discard, MessageTimeout, IngestInsert, IngestConflict, IngestRetry,
         IngestProduce, IngestProduceFail, IngestCrash, storeVars, Fault
<1>2. faults' \in {faults, faults + 1}
  BY DEF IntakeNext, ApiNext, ApiStep, MoverNext, QueueNext, IngestNext,
         CreateEvent, SaveEvent, InsertDirectly, ApiCrash, AppendCommit,
         AppendReply, AppendFail, PublishTimer, PublishCommit, PublishReply,
         PublishFail, AppendHang, PublishHang, NsqPublish, NsqPublishFail,
         CreateEventBulk,
         InsertDirectlyFail, MoveRows, MoverProduce, MoverFail, Deliver,
         Discard, MessageTimeout, IngestInsert, IngestConflict, IngestRetry,
         IngestProduce, IngestProduceFail, IngestCrash, storeVars, Fault
<1>3. ASSUME NEW S, InsertRows(S), NEW e \in Events
      PROVE  /\ Recorded(e) => Recorded(e)'
             /\ task[e] = "normalized" <=> task'[e] = "normalized"
  BY <1>3 DEF InsertRows, Recorded, StoreTypeOK
<1> QED BY <1>1, <1>2, <1>3 DEF Recorded

\* Normalization never takes a row away or back to its raw form.
LEMMA NormalizationOnStore ==
    ASSUME StoreTypeOK, NormalizationTypeOK, NormalizationNext
    PROVE  /\ \A e \in Events : Recorded(e) => Recorded(e)'
           /\ \A e \in Events : task[e] = "normalized" => task'[e] = "normalized"
           /\ faults' \in {faults, faults + 1}
<1>1. task' = task \/ \E e \in Events \cup {NoEvent} :
                           task' = [task EXCEPT ![e] = "normalized"]
  BY DEF NormalizationNext, WorkerNext, RepairerNext, ReadTask, ReadNothing,
         UpsertEntities, UpdateTask, ProduceNormalized, NormalizeFail, SelectRaw,
         Republish, RepublishFail, storeVars, NormalizationTypeOK
<1>2. faults' \in {faults, faults + 1}
  BY DEF NormalizationNext, WorkerNext, RepairerNext, ReadTask, ReadNothing,
         UpsertEntities, UpdateTask, ProduceNormalized, NormalizeFail, SelectRaw,
         Republish, RepublishFail, storeVars, Fault
<1> QED BY <1>1, <1>2 DEF Recorded, StoreTypeOK

-----------------------------------------------------------------------------
(* No task id without a row *)

\* The API publishes task ids of rows it has inserted.
LEMMA ApiRaw ==
    ASSUME StoreTypeOK, IntakeTypeOK, RawHasRow, ApiNext, UNCHANGED normalizationVars
    PROVE  RawHasRow'
<1> USE DEF RawHasRow, Recorded, IntakeTypeOK, StoreTypeOK, storeVars,
            requestVars, moverVars, queueVars, normalizationVars
<1>1. ASSUME NEW e \in Events, ApiStep(e)
      PROVE  RawHasRow'
  <2>1. CASE CreateEvent(e)
    BY <2>1, InsertsKeep DEF CreateEvent
  <2>2. CASE SaveEvent(e)
    BY <2>2, InsertsKeep DEF SaveEvent, InsertDirectly
  <2>3. CASE ApiCrash(e)
    BY <2>3, InsertsKeep DEF ApiCrash
  <2>4. CASE AppendCommit(e)
    BY <2>4, InsertsKeep DEF AppendCommit
  <2>5. CASE AppendReply(e)
    BY <2>5, InsertsKeep DEF AppendReply
  <2>6. CASE AppendFail(e)
    BY <2>6, InsertsKeep DEF AppendFail
  <2>7. CASE PublishTimer(e)
    BY <2>7, InsertsKeep DEF PublishTimer
  <2>8. CASE PublishCommit(e)
    BY <2>8, InsertsKeep DEF PublishCommit
  <2>9. CASE PublishReply(e)
    BY <2>9, InsertsKeep DEF PublishReply
  <2>10. CASE PublishFail(e)
    BY <2>10, InsertsKeep DEF PublishFail
  <2>11. CASE NsqPublish(e)
    BY <2>11, InsertsKeep DEF NsqPublish, ProduceRaw
  <2>12. CASE NsqPublishFail(e)
    BY <2>12, InsertsKeep DEF NsqPublishFail
  <2>13. CASE AppendHang(e)
    BY <2>13, InsertsKeep DEF AppendHang
  <2>14. CASE PublishHang(e)
    BY <2>14, InsertsKeep DEF PublishHang
  <2> QED BY <1>1, <2>1, <2>2, <2>3, <2>4, <2>5, <2>6, <2>7,
             <2>8, <2>9, <2>10, <2>11, <2>12, <2>13, <2>14
           DEF ApiStep
<1>2. ASSUME NEW S \in SUBSET Events, CreateEventBulk(S)
      PROVE  RawHasRow'
  BY <1>2, InsertsKeep DEF CreateEventBulk, InsertDirectly
<1>3. ASSUME NEW S \in SUBSET Events, InsertDirectlyFail(S)
      PROVE  RawHasRow'
  BY <1>3, InsertsKeep DEF InsertDirectlyFail
<1> QED BY <1>1, <1>2, <1>3 DEF ApiNext

\* A mover publishes only what its insert returned.
LEMMA MoverRaw ==
    ASSUME StoreTypeOK, IntakeTypeOK, RawHasRow, MoverNext,
           UNCHANGED normalizationVars
    PROVE  RawHasRow'
<1> USE DEF RawHasRow, Recorded, IntakeTypeOK, StoreTypeOK, requestVars, queueVars,
            normalizationVars
<1> PICK m \in Movers :
        \/ \E S \in SUBSET backlog : MoveRows(m, S)
        \/ \E e \in Events : MoverProduce(m, e)
        \/ MoverFail(m)
  BY DEF MoverNext
<1>1. ASSUME NEW S \in SUBSET backlog, MoveRows(m, S)
      PROVE  RawHasRow'
  BY <1>1, InsertsKeep DEF MoveRows
<1>2. ASSUME NEW e \in Events, MoverProduce(m, e)
      PROVE  RawHasRow'
  BY <1>2 DEF MoverProduce, ProduceRaw
<1>3. CASE MoverFail(m)
  BY <1>3 DEF MoverFail
<1> QED BY <1>1, <1>2, <1>3

\* So does ingestFromQueue.
LEMMA QueueRaw ==
    ASSUME StoreTypeOK, IntakeTypeOK, JobsHaveInserted, RawHasRow, QueueNext,
           UNCHANGED normalizationVars
    PROVE  RawHasRow'
<1> USE DEF RawHasRow, Recorded, IntakeTypeOK, StoreTypeOK, storeVars,
            requestVars, moverVars, queueVars, normalizationVars
<1>1. ASSUME NEW e \in Events, Deliver(e) \/ Discard(e) \/ MessageTimeout(e)
      PROVE  RawHasRow'
  BY <1>1 DEF Deliver, Discard, MessageTimeout
<1>2. ASSUME NEW j \in ingesting, IngestNext(j)
      PROVE  RawHasRow'
  <2>1. j.ev \in Events
    BY DEF Jobs
  <2>2. CASE IngestInsert(j)
    BY <2>1, <2>2, InsertsKeep DEF IngestInsert
  <2>3. CASE IngestConflict(j)
    BY <2>1, <2>3, InsertsKeep DEF IngestConflict
  <2>4. CASE IngestRetry(j)
    BY <2>1, <2>4, InsertsKeep DEF IngestRetry
  <2>5. CASE IngestProduce(j)
    BY <2>1, <2>5, InsertsKeep DEF IngestProduce, ProduceRaw, JobsHaveInserted
  <2>6. CASE IngestProduceFail(j)
    BY <2>1, <2>6, InsertsKeep DEF IngestProduceFail
  <2>7. CASE IngestCrash(j)
    BY <2>1, <2>7, InsertsKeep DEF IngestCrash
  <2> QED BY <1>2, <2>2, <2>3, <2>4, <2>5, <2>6, <2>7 DEF IngestNext
<1> QED BY <1>1, <1>2 DEF QueueNext

\* The repairer publishes, and a worker holds, only what it selected.
LEMMA NormalizationRaw ==
    ASSUME TypeOK, RawHasRow, NormalizationNext, UNCHANGED intakeVars
    PROVE  RawHasRow'
<1> USE NormalizationOnStore DEF TypeOK, RawHasRow, NormalizationTypeOK, StoreTypeOK,
        intakeVars, storeVars, normalizationVars
<1>1. ASSUME NEW w \in Workers, WorkerNext(w)
      PROVE  RawHasRow'
  <2> USE NormalizationAssumption DEF TakeRaw, Goto, Return
  <2>1. ASSUME NEW e \in Events, ReadTask(w, e) \/ ReadNothing(w, e)
        PROVE  RawHasRow'
    BY <2>1 DEF ReadTask, ReadNothing, Recorded
  <2>2. CASE UpsertEntities(w) \/ UpdateTask(w) \/ ProduceNormalized(w)
                \/ NormalizeFail(w)
    BY <2>2 DEF UpsertEntities, UpdateTask, ProduceNormalized, NormalizeFail
  <2> QED BY <1>1, <2>1, <2>2 DEF WorkerNext
<1>2. CASE RepairerNext
  BY <1>2 DEF RepairerNext, SelectRaw, Republish, RepublishFail, ProduceRaw, Recorded
<1> QED BY <1>1, <1>2 DEF NormalizationNext

-----------------------------------------------------------------------------
(* Stored before published *)

\* A run counts its event before it updates the row, and updates it before it
\* publishes.
LEMMA NormalizationStored ==
    ASSUME StoreTypeOK, NormalizationTypeOK, OverlapInv, StoredInv, NormalizationNext
    PROVE  StoredInv'
<1> USE DEF StoredInv, PublishedIsStored, NormalizationTypeOK, StoreTypeOK,
            normalizationVars, storeVars, WorkerStates
<1>1. ASSUME NEW w \in Workers, WorkerNext(w)
      PROVE  StoredInv'
  <2> USE NormalizationAssumption DEF TakeRaw, Goto, Return
  <2>1. ASSUME NEW e \in Events, ReadTask(w, e)
        PROVE  StoredInv'
    BY <2>1 DEF ReadTask
  <2>2. ASSUME NEW e \in Events, ReadNothing(w, e)
        PROVE  StoredInv'
    BY <2>2 DEF ReadNothing
  <2>3. CASE UpsertEntities(w)
    BY <2>3 DEF UpsertEntities
  <2>4. CASE UpdateTask(w)
    BY <2>4 DEF UpdateTask
  <2>5. CASE ProduceNormalized(w)
    BY <2>5 DEF ProduceNormalized
  <2>6. CASE NormalizeFail(w)
    BY <2>6 DEF NormalizeFail
  <2> QED BY <1>1, <2>1, <2>2, <2>3, <2>4, <2>5, <2>6 DEF WorkerNext
<1>2. CASE RepairerNext
  BY <1>2 DEF RepairerNext, SelectRaw, Republish, RepublishFail
<1> QED BY <1>1, <1>2 DEF NormalizationNext

\* Every step of normalization keeps the bounds.
LEMMA NormalizationOverlap ==
    ASSUME StoreTypeOK, NormalizationTypeOK, OverlapInv, NormalizationNext
    PROVE  OverlapInv'
<1>1. ASSUME UNCHANGED <<task, pc, job, counted, published>>,
             faults' \in {faults, faults + 1}
      PROVE  OverlapInv'
  <2>1. \A e \in Events, labels \in SUBSET WorkerStates :
            /\ On(e, labels)' = On(e, labels)
            /\ Cardinality(On(e, labels)) \in Nat
    BY <1>1, FS_Subset, FS_CardinalityType, NormalizationAssumption DEF On
  <2>2. ASSUME NEW e \in Events
        PROVE  Overlap(e)'
    <3>1. /\ On(e, WorkerStates)' = On(e, WorkerStates)
          /\ On(e, {"upserting"})' = On(e, {"upserting"})
          /\ On(e, {"updating"})' = On(e, {"updating"})
          /\ On(e, {"producing"})' = On(e, {"producing"})
          /\ Cardinality(On(e, {"upserting"})) \in Nat
          /\ Cardinality(On(e, {"updating"})) \in Nat
      BY <2>1 DEF WorkerStates
    <3>2. faults \in Nat /\ counted[e] \in Nat
      BY BoundsAssumption DEF StoreTypeOK, NormalizationTypeOK
    <3>3. Cardinality(Workers) \in Nat
      BY FS_CardinalityType, NormalizationAssumption
    <3>4. Overlap(e)
      BY DEF OverlapInv
    <3> QED BY <1>1, <3>1, <3>2, <3>3, <3>4 DEF Overlap
  <2> QED BY <2>2 DEF OverlapInv
<1>2. ASSUME NEW w \in Workers, WorkerNext(w)
      PROVE  OverlapInv'
  <2>1. ASSUME NEW e \in Events, ReadNothing(w, e)
        PROVE  OverlapInv'
    BY <1>1, <2>1 DEF ReadNothing, normalizationVars
  <2> QED BY <1>2, <2>1, ReadOverlap, RunOverlap DEF WorkerNext
<1>3. CASE RepairerNext
  BY <1>1, <1>3 DEF RepairerNext, SelectRaw, Republish, RepublishFail, storeVars, Fault
<1> QED BY <1>2, <1>3 DEF NormalizationNext

\* Intake only inserts rows, so it disturbs neither.
LEMMA IntakeOverlap ==
    ASSUME StoreTypeOK, NormalizationTypeOK, OverlapInv, StoredInv, IntakeNext,
           UNCHANGED normalizationVars
    PROVE  OverlapInv' /\ StoredInv'
<1>1. ASSUME NEW e \in Events
      PROVE  Overlap(e)'
  <2>1. /\ On(e, WorkerStates)' = On(e, WorkerStates)
        /\ On(e, {"upserting"})' = On(e, {"upserting"})
        /\ On(e, {"updating"})' = On(e, {"updating"})
        /\ On(e, {"producing"})' = On(e, {"producing"})
        /\ UNCHANGED <<counted, published>>
    BY DEF On, normalizationVars
  <2>2. /\ Cardinality(On(e, {"upserting"})) \in Nat
        /\ Cardinality(On(e, {"updating"})) \in Nat
        /\ Cardinality(Workers) \in Nat
    <3>1. On(e, {"upserting"}) \subseteq Workers /\ On(e, {"updating"}) \subseteq Workers
      BY DEF On
    <3> QED BY <3>1, FS_Subset, FS_CardinalityType, NormalizationAssumption
  <2>3. faults \in Nat /\ counted[e] \in Nat
    BY BoundsAssumption DEF StoreTypeOK, NormalizationTypeOK
  <2>4. Overlap(e)
    BY DEF OverlapInv
  <2> QED BY IntakeOnStore, <2>1, <2>2, <2>3, <2>4 DEF Overlap
<1>2. StoredInv'
  <2>1. \A w \in Workers : pc[w] = "producing" => job[w] \in Events
    BY DEF NormalizationTypeOK
  <2> QED BY IntakeOnStore, <2>1
          DEF StoredInv, PublishedIsStored, normalizationVars
<1> QED BY <1>1, <1>2 DEF OverlapInv

-----------------------------------------------------------------------------
(* The theorems *)

\* The invariant holds initially.
LEMMA InitInductive == Init => InductiveInv
<1> SUFFICES ASSUME Init PROVE InductiveInv
  OBVIOUS
<1> USE DEF Init, StoreInit, IntakeInit, NormalizationInit
<1>1. TypeOK
  BY BoundsAssumption, NormalizationAssumption
  DEF TypeOK, StoreTypeOK, IntakeTypeOK, NormalizationTypeOK, RowStates,
      AnswerStates, CallStates, MessageStates, WorkerStates
<1>2. CustodyInv /\ AttemptsAreFaults
  BY DEF CustodyInv, KeptByBacklog, KeptByQueue, JobsHaveInserted, AnswersAreBacked,
         AttemptsAreFaults
<1>3. RawHasRow /\ StoredInv
  BY NormalizationAssumption DEF RawHasRow, StoredInv, PublishedIsStored
<1>4. OverlapInv
  <2>1. ASSUME NEW e \in Events
        PROVE  Overlap(e)
    <3>1. On(e, {"producing"}) = {} /\ On(e, {"updating"}) = {}
      BY NormalizationAssumption DEF On
    <3>2. Cardinality(On(e, {"updating"})) = 0
      BY <3>1, FS_EmptySet
    <3> QED BY <3>1, <3>2 DEF Overlap
  <2> QED BY <2>1 DEF OverlapInv
<1> QED BY <1>1, <1>2, <1>3, <1>4 DEF InductiveInv

\* Every step of either component keeps it.
LEMMA NextInductive == InductiveInv /\ [Next]_vars => InductiveInv'
<1> SUFFICES ASSUME InductiveInv, [Next]_vars PROVE InductiveInv'
  OBVIOUS
<1> USE DEF InductiveInv, TypeOK
<1>1. CASE IntakeNext /\ UNCHANGED normalizationVars
  <2>1. NormalizationTypeOK'
    BY <1>1 DEF NormalizationTypeOK, normalizationVars
  <2>2. StoreTypeOK' /\ IntakeTypeOK'
    BY <1>1, ApiType, MoverType, QueueType DEF IntakeNext
  <2>3. CustodyInv'
    BY <1>1, ApiCustody, MoverCustody, QueueCustody DEF IntakeNext
  <2>4. AttemptsAreFaults'
    BY <1>1, ApiAttempts, MoverAttempts, QueueAttempts DEF IntakeNext
  <2>5. RawHasRow'
    BY <1>1, ApiRaw, MoverRaw, QueueRaw DEF IntakeNext, CustodyInv
  <2> QED BY <1>1, <2>1, <2>2, <2>3, <2>4, <2>5, IntakeOverlap
<1>2. CASE NormalizationNext /\ UNCHANGED intakeVars
  <2>1. StoreTypeOK' /\ NormalizationTypeOK'
    BY <1>2, NormalizationType
  <2>2. IntakeTypeOK' /\ CustodyInv'
    BY <1>2, NormalizationOnStore
    DEF IntakeTypeOK, CustodyInv, KeptByBacklog, KeptByQueue, JobsHaveInserted,
        AnswersAreBacked, intakeVars, Jobs
  <2>3. AttemptsAreFaults'
    BY <1>2, NormalizationOnStore, BoundsAssumption
    DEF AttemptsAreFaults, Handled, intakeVars, StoreTypeOK, IntakeTypeOK
  <2> QED BY <1>2, <2>1, <2>2, <2>3, NormalizationRaw, NormalizationOverlap,
             NormalizationStored
<1>3. CASE UNCHANGED vars
  <2> USE <1>3 DEF vars, storeVars, intakeVars, normalizationVars
  <2>1. TypeOK'
    BY DEF StoreTypeOK, IntakeTypeOK, NormalizationTypeOK
  <2>2. CustodyInv' /\ AttemptsAreFaults'
    BY DEF CustodyInv, KeptByBacklog, KeptByQueue, JobsHaveInserted,
           AnswersAreBacked, Recorded, AttemptsAreFaults, Handled
  <2>3. RawHasRow' /\ StoredInv'
    BY DEF RawHasRow, Recorded, StoredInv, PublishedIsStored
  <2>4. OverlapInv'
    BY DEF OverlapInv, Overlap, On
  <2> QED BY <2>1, <2>2, <2>3, <2>4
<1> QED BY <1>1, <1>2, <1>3 DEF Next

\* All the parts of the invariant hold in every reachable state of the pipeline.
THEOREM Inductive == Spec => []InductiveInv
<1>1. Init => InductiveInv
  BY InitInductive
<1>2. InductiveInv /\ [Next]_vars => InductiveInv'
  BY NextInductive
<1> QED BY <1>1, <1>2, PTL DEF Spec

\* Every variable keeps its type.
THEOREM TypeCorrect == Spec => []TypeOK
<1>1. InductiveInv => TypeOK
  BY DEF InductiveInv
<1> QED BY <1>1, Inductive, PTL

\* Whichever persister answered the client, the event is in the backlog, in
\* unsaved_events or in ingest_task, or its message was given up.
THEOREM Custody == Spec => []AckedIsHeld
<1>1. InductiveInv => AckedIsHeld
  BY DEF InductiveInv, TypeOK, IntakeTypeOK, MessageStates, CustodyInv, KeptByBacklog,
         KeptByQueue, AnswersAreBacked, AckedIsHeld, Held
<1> QED BY <1>1, Inductive, PTL

\* unsaved_events gives up a message (index.ts:213) only after MaxAttempts faults.
THEOREM DiscardsArePaidFor == Spec => []DiscardNeedsFaults
<1>1. InductiveInv => DiscardNeedsFaults
  BY DEF InductiveInv, AttemptsAreFaults, DiscardNeedsFaults
<1> QED BY <1>1, Inductive, PTL

\* normalizeEvent never misses the row of a task id (normalizeEvent.ts:25-27).
THEOREM RawMessagesHaveRows == Spec => []RawHasRow
<1>1. InductiveInv => RawHasRow
  BY DEF InductiveInv
<1> QED BY <1>1, Inductive, PTL

\* What the counting of runs under way bounds.
LEMMA OverlapBounds ==
    InductiveInv => DuplicatesAreOverlaps /\ OvercountIsBounded
<1>1. ASSUME InductiveInv, NEW e \in Events
      PROVE  /\ published[e] <= Cardinality(Workers)
             /\ counted[e] <= Cardinality(Workers) + faults
  <2>1. \A labels \in SUBSET WorkerStates :
            /\ Cardinality(On(e, labels)) \in Nat
            /\ Cardinality(On(e, labels)) <= Cardinality(Workers)
            /\ Cardinality(Workers) \in Nat
    BY FS_Subset, FS_CardinalityType, NormalizationAssumption DEF On
  <2>2. /\ Cardinality(On(e, WorkerStates)) \in Nat
        /\ Cardinality(On(e, {"upserting"})) \in Nat
        /\ Cardinality(On(e, {"updating"})) <= Cardinality(Workers)
        /\ Cardinality(On(e, {"updating"})) \in Nat
        /\ Cardinality(Workers) \in Nat
    BY <2>1 DEF WorkerStates
  <2>3. faults \in Nat /\ counted[e] \in Nat /\ published[e] \in Nat
    BY <1>1, BoundsAssumption
    DEF InductiveInv, TypeOK, StoreTypeOK, NormalizationTypeOK
  <2>4. Overlap(e)
    BY <1>1 DEF InductiveInv, OverlapInv
  <2> QED BY <2>2, <2>3, <2>4 DEF Overlap
<1> QED BY <1>1 DEF DuplicatesAreOverlaps, OvercountIsBounded

\* However often a task id is published and repaired, an event reaches
\* normalized_events at most once per run that can be under way.
THEOREM FewDuplicates == Spec => []DuplicatesAreOverlaps
BY OverlapBounds, Inductive, PTL

\* event_count exceeds the truth by those runs and by the runs that failed.
THEOREM FewOvercounts == Spec => []OvercountIsBounded
BY OverlapBounds, Inductive, PTL

\* A consumer of normalized_events always finds the event stored and counted.
THEOREM StoredFirst == Spec => []PublishedIsStored
<1>1. InductiveInv => PublishedIsStored
  BY DEF InductiveInv, StoredInv
<1> QED BY <1>1, Inductive, PTL

\* No insert, move, retry or repair undoes a row or its normalization.
THEOREM RowsAreFinal == Spec => NormalizedIsFinal
<1>1. InductiveInv /\ [Next]_vars
        => [\A e \in Events : /\ Recorded(e) => Recorded(e)'
                              /\ task[e] = "normalized" => task'[e] = "normalized"]_vars
  BY IntakeOnStore, NormalizationOnStore DEF Next, InductiveInv, TypeOK
<1> QED BY <1>1, Inductive, PTL DEF Spec, NormalizedIsFinal

-----------------------------------------------------------------------------
(* The pipeline implements AuditLog, if it never comes to a discard *)

\* With fewer faults than attempts no message is given up.
LEMMA NoDiscard ==
    ASSUME InductiveInv, MaxFaults < MaxAttempts, NEW e \in Events
    PROVE  message[e] # "discarded" /\ ~ Discard(e)
  BY BoundsAssumption, IntakeAssumption
  DEF InductiveInv, TypeOK, StoreTypeOK, IntakeTypeOK, AttemptsAreFaults, Discard

\* A step after which the same events are held, answered and normalized.
Quiet == UNCHANGED <<HeldEvents, AckedEvents, NormalizedEvents>>

\* Intake leaves the set of normalized events alone.
LEMMA IntakeNormalizes ==
    ASSUME StoreTypeOK, IntakeNext
    PROVE  NormalizedEvents' = NormalizedEvents
  BY IntakeOnStore DEF NormalizedEvents

\* A step of the API takes events in, confirms a held one, or shows nothing.
LEMMA ApiRefines ==
    ASSUME InductiveInv, MaxFaults < MaxAttempts, ApiNext
    PROVE  Log!Next \/ Quiet
<1> USE DEF InductiveInv, TypeOK, StoreTypeOK, IntakeTypeOK, AnswerStates,
            storeVars, requestVars, moverVars, queueVars, HeldEvents, AckedEvents
<1>1. NormalizedEvents' = NormalizedEvents
  BY IntakeNormalizes DEF IntakeNext
<1>2. ASSUME NEW S \in SUBSET Events, NEW copies, InsertDirectly(S, copies)
      PROVE  Log!Next
  <2>1. HeldEvents' = HeldEvents \cup S
    BY <1>2, InsertsKeep DEF InsertDirectly, Held, InsertRows, Recorded
  <2>2. AckedEvents' = AckedEvents \cup S
    BY <1>2 DEF InsertDirectly
  <2> QED BY <1>1, <2>1, <2>2 DEF Log!Next, Log!Keep
<1>3. ASSUME NEW e \in Events, ApiStep(e)
      PROVE  Log!Next \/ Quiet
  <2>1. CASE CreateEvent(e) \/ ApiCrash(e) \/ PublishTimer(e)
    <3>1. AckedEvents' = AckedEvents
      BY <2>1 DEF CreateEvent, ApiCrash, PublishTimer
    <3>2. HeldEvents' = HeldEvents
      BY <2>1 DEF CreateEvent, ApiCrash, PublishTimer, Held, Recorded
    <3> QED BY <1>1, <3>1, <3>2 DEF Quiet
  <2>2. CASE NsqPublish(e) \/ NsqPublishFail(e)
    BY <1>1, <2>2 DEF NsqPublish, NsqPublishFail, Held, Recorded, Quiet
  <2>3. CASE AppendFail(e) \/ PublishFail(e) \/ AppendHang(e) \/ PublishHang(e)
    <3>1. AckedEvents' = AckedEvents
      BY <2>3 DEF AppendFail, PublishFail, AppendHang, PublishHang, Reject
    <3>2. HeldEvents' = HeldEvents
      BY <2>3 DEF AppendFail, PublishFail, AppendHang, PublishHang, Held, Recorded
    <3> QED BY <1>1, <3>1, <3>2 DEF Quiet
  <2>4. CASE AppendCommit(e) \/ PublishCommit(e)
    <3>1. AckedEvents' = AckedEvents
      BY <2>4 DEF AppendCommit, PublishCommit
    <3>2. HeldEvents' = HeldEvents \cup {e}
      BY <2>4 DEF AppendCommit, PublishCommit, Held, Recorded
    <3> QED BY <1>1, <3>1, <3>2 DEF Log!Next, Log!Keep
  <2>5. CASE AppendReply(e) \/ PublishReply(e)
    <3>1. /\ HeldEvents' = HeldEvents
          /\ AckedEvents' \in {AckedEvents, AckedEvents \cup {e}}
      BY <2>5 DEF AppendReply, PublishReply, Resolve, Held, Recorded
    <3>2. e \in HeldEvents
      BY <2>5, NoDiscard
      DEF AppendReply, PublishReply, CustodyInv, KeptByBacklog, KeptByQueue, Held,
          MessageStates
    <3> QED BY <1>1, <3>1, <3>2 DEF Quiet, Log!Next, Log!Confirm
  <2>6. CASE SaveEvent(e)
    BY <1>2, <2>6 DEF SaveEvent
  <2> QED BY <1>3, <2>1, <2>2, <2>3, <2>4, <2>5, <2>6 DEF ApiStep
<1>4. ASSUME NEW S \in SUBSET Events, InsertDirectlyFail(S)
      PROVE  Log!Next
  <2>1. AckedEvents' = AckedEvents
    BY <1>4 DEF InsertDirectlyFail
  <2>2. HeldEvents' \in {HeldEvents, HeldEvents \cup S}
    <3>1. CASE UNCHANGED task
      BY <1>4, <3>1 DEF InsertDirectlyFail, Held, Recorded
    <3>2. CASE InsertRows(S)
      <4>1. HeldEvents' = HeldEvents \cup S
        BY <1>4, <3>2, InsertsKeep DEF InsertDirectlyFail, Held, InsertRows, Recorded
      <4> QED BY <4>1
    <3> QED BY <1>4, <3>1, <3>2 DEF InsertDirectlyFail
  <2>3. CASE HeldEvents' = HeldEvents \cup S
    BY <1>1, <2>1, <2>3 DEF Log!Next, Log!Keep
  <2>4. CASE HeldEvents' = HeldEvents
    <3>1. Log!Keep({})
      BY <1>1, <2>1, <2>4 DEF Log!Keep
    <3> QED BY <3>1 DEF Log!Next
  <2> QED BY <2>2, <2>3, <2>4
<1> QED BY <1>3, <1>2, <1>4 DEF ApiNext, CreateEventBulk

\* A move to ingest_task is invisible.
LEMMA MoverRefines ==
    ASSUME InductiveInv, MoverNext
    PROVE  Quiet
<1> USE DEF InductiveInv, TypeOK, StoreTypeOK, IntakeTypeOK, requestVars, queueVars
<1>1. NormalizedEvents' = NormalizedEvents
  BY IntakeNormalizes DEF IntakeNext
<1>2. AckedEvents' = AckedEvents
  BY DEF MoverNext, MoveRows, MoverProduce, MoverFail, AckedEvents
<1>3. ASSUME NEW m \in Movers, NEW S \in SUBSET backlog, MoveRows(m, S)
      PROVE  HeldEvents' = HeldEvents
  BY <1>3, InsertsKeep DEF MoveRows, InsertRows, HeldEvents, Held, Recorded
<1>4. ASSUME NEW m \in Movers, NEW e \in Events, MoverProduce(m, e) \/ MoverFail(m)
      PROVE  HeldEvents' = HeldEvents
  BY <1>4 DEF MoverProduce, MoverFail, HeldEvents, Held, Recorded
<1>5. HeldEvents' = HeldEvents
  BY <1>3, <1>4 DEF MoverNext, MoverFail
<1> QED BY <1>1, <1>2, <1>5 DEF Quiet

\* A step of the queue takes an event in or shows nothing.
LEMMA QueueRefines ==
    ASSUME InductiveInv, MaxFaults < MaxAttempts, QueueNext
    PROVE  Log!Next \/ Quiet
<1> USE DEF InductiveInv, TypeOK, StoreTypeOK, IntakeTypeOK, storeVars,
            requestVars, moverVars, HeldEvents
<1>1. NormalizedEvents' = NormalizedEvents /\ AckedEvents' = AckedEvents
  <2>1. NormalizedEvents' = NormalizedEvents
    BY IntakeNormalizes DEF IntakeNext
  <2>2. UNCHANGED answer
    BY DEF QueueNext, Deliver, Discard, MessageTimeout, IngestNext, IngestInsert,
           IngestConflict, IngestRetry, IngestProduce, IngestProduceFail, IngestCrash
  <2> QED BY <2>1, <2>2 DEF AckedEvents
<1>2. ASSUME NEW e \in Events, Deliver(e) \/ MessageTimeout(e)
      PROVE  HeldEvents' = HeldEvents
  BY <1>2 DEF Deliver, MessageTimeout, Held, Recorded
<1>3. ASSUME NEW j \in ingesting, IngestNext(j)
      PROVE  \E S \in SUBSET Events : HeldEvents' = HeldEvents \cup S
  <2>1. j.ev \in Events
    BY DEF Jobs
  <2>2. CASE IngestCrash(j)
    BY <2>2 DEF IngestCrash, Held, Recorded
  <2>3. CASE IngestConflict(j) \/ IngestProduce(j) \/ IngestProduceFail(j)
    <3>1. Recorded(j.ev)
      BY <2>3 DEF IngestConflict, IngestProduce, IngestProduceFail, CustodyInv,
                  JobsHaveInserted
    <3>2. HeldEvents' = HeldEvents
      BY <2>1, <2>3, <3>1
      DEF IngestConflict, IngestProduce, IngestProduceFail, Respond, Held, Recorded
    <3> QED BY <3>2
  <2>4. CASE IngestInsert(j)
    <3>1. HeldEvents' = HeldEvents \cup {j.ev}
      BY <2>1, <2>4, InsertsKeep DEF IngestInsert, InsertRows, Held, Recorded
    <3> QED BY <2>1, <3>1
  <2>5. CASE IngestRetry(j)
    <3>1. HeldEvents' \in {HeldEvents, HeldEvents \cup {j.ev}}
      BY <2>1, <2>5, InsertsKeep DEF IngestRetry, InsertRows, Respond, Held, Recorded
    <3> QED BY <2>1, <3>1
  <2> QED BY <1>3, <2>2, <2>3, <2>4, <2>5 DEF IngestNext
<1>4. ASSUME NEW S \in SUBSET Events, HeldEvents' = HeldEvents \cup S
      PROVE  Log!Next
  BY <1>1, <1>4 DEF Log!Next, Log!Keep
<1> QED BY <1>1, <1>2, <1>3, <1>4, NoDiscard DEF QueueNext, Quiet

\* Updating a row normalizes a held event; the rest shows nothing.
LEMMA NormalizationRefines ==
    ASSUME InductiveInv, NormalizationNext, UNCHANGED intakeVars
    PROVE  Log!Next \/ Quiet
<1> USE DEF InductiveInv, TypeOK, StoreTypeOK, NormalizationTypeOK, intakeVars,
            HeldEvents, NormalizedEvents
<1>1. AckedEvents' = AckedEvents
  BY DEF AckedEvents
<1>2. task' = task \/ \E w \in Workers : UpdateTask(w)
  BY DEF NormalizationNext, WorkerNext, RepairerNext, ReadTask, ReadNothing,
         UpsertEntities, ProduceNormalized, NormalizeFail, SelectRaw, Republish,
         RepublishFail, storeVars
<1>3. CASE task' = task
  BY <1>1, <1>3 DEF Quiet, Held, Recorded
<1>4. ASSUME NEW w \in Workers, UpdateTask(w)
      PROVE  Log!Next \/ Quiet
  <2>1. PICK e \in Events : e = job[w]
    BY <1>4 DEF UpdateTask
  <2>2. task' = [task EXCEPT ![e] = "normalized"] /\ Recorded(e)
    BY <1>4, <2>1 DEF UpdateTask, RawHasRow
  <2>3. HeldEvents' = HeldEvents /\ e \in HeldEvents
    BY <2>2 DEF Held, Recorded
  <2>4. NormalizedEvents' = NormalizedEvents \cup {e}
    BY <2>2
  <2> QED BY <1>1, <2>3, <2>4 DEF Quiet, Log!Next, Log!Normalize
<1> QED BY <1>2, <1>3, <1>4

\* Held events are kept, only held events are confirmed and normalized, and
\* neither is taken back, unless the environment can fail as often as the
\* unsaved_events consumer may try.
THEOREM Refinement == MaxFaults < MaxAttempts => (Spec => Log!SafeSpec)
<1> SUFFICES ASSUME MaxFaults < MaxAttempts PROVE Spec => Log!SafeSpec
  OBVIOUS
<1>1. Init => Log!Init
  BY DEF Init, StoreInit, IntakeInit, Log!Init, HeldEvents, AckedEvents,
         NormalizedEvents, Held, Recorded
<1>2. InductiveInv /\ [Next]_vars => [Log!Next]_(Log!logVars)
  <2> SUFFICES ASSUME InductiveInv, [Next]_vars
               PROVE  Log!Next \/ Quiet
    BY DEF Quiet, Log!logVars
  <2>1. CASE Next
    BY <2>1, ApiRefines, MoverRefines, QueueRefines, NormalizationRefines
    DEF Next, IntakeNext
  <2>2. CASE UNCHANGED vars
    BY <2>2 DEF vars, storeVars, intakeVars, Quiet, HeldEvents, AckedEvents,
                NormalizedEvents, Held, Recorded
  <2> QED BY <2>1, <2>2
<1> QED BY <1>1, <1>2, Inductive, PTL DEF Spec, Log!SafeSpec

-----------------------------------------------------------------------------
(* One publisher per task id *)

\* Who inserts a row directly has an event that nobody touched.
LEMMA DirectPublisher ==
    ASSUME StoreTypeOK, IntakeTypeOK, PublisherInv, NEW S \in SUBSET Events,
           CreateEventBulk(S) \/ (\E e \in S : S = {e} /\ SaveEvent(e))
                \/ InsertDirectlyFail(S)
    PROVE  PublisherInv'
<1> USE DEF PublisherInv, Untouched, NobodyPublishes, OnlyOnePublishes, Publishes,
            Recorded, StoreTypeOK, IntakeTypeOK, moverVars, queueVars
<1> CASE CreateEventBulk(S) \/ (\E e \in S : S = {e} /\ SaveEvent(e))
  BY DEF CreateEventBulk, SaveEvent, InsertDirectly, InsertRows
<1> CASE InsertDirectlyFail(S)
  BY DEF InsertDirectlyFail, InsertRows
<1> QED OBVIOUS

\* The requests themselves publish nothing; what the API sends after its own
\* inserts is not of createEvent's events.
LEMMA ApiPublisher ==
    ASSUME StoreTypeOK, IntakeTypeOK, PublisherInv, ApiNext
    PROVE  PublisherInv'
<1> USE DEF PublisherInv, Untouched, NobodyPublishes, OnlyOnePublishes, Publishes,
            Recorded, StoreTypeOK, IntakeTypeOK,
            storeVars, requestVars, moverVars, queueVars
<1>1. ASSUME NEW e \in Events, ApiStep(e)
      PROVE  PublisherInv'
  <2>1. CASE CreateEvent(e)
    BY <2>1 DEF CreateEvent
  <2>2. CASE SaveEvent(e)
    <3>1. {e} \in SUBSET Events /\ e \in {e}
      OBVIOUS
    <3> QED BY <2>2, <3>1, DirectPublisher
  <2>3. CASE ApiCrash(e)
    BY <2>3 DEF ApiCrash
  <2>4. CASE AppendCommit(e)
    BY <2>4 DEF AppendCommit
  <2>5. CASE AppendReply(e)
    BY <2>5 DEF AppendReply, Resolve
  <2>6. CASE AppendFail(e)
    BY <2>6 DEF AppendFail, Reject
  <2>7. CASE PublishTimer(e)
    BY <2>7 DEF PublishTimer
  <2>8. CASE PublishCommit(e)
    BY <2>8 DEF PublishCommit
  <2>9. CASE PublishReply(e)
    BY <2>9 DEF PublishReply, Resolve
  <2>10. CASE PublishFail(e)
    BY <2>10 DEF PublishFail, Reject
  <2>11. CASE NsqPublish(e)
    BY <2>11 DEF NsqPublish, ProduceRaw
  <2>12. CASE NsqPublishFail(e)
    BY <2>12 DEF NsqPublishFail
  <2>13. CASE AppendHang(e)
    BY <2>13 DEF AppendHang
  <2>14. CASE PublishHang(e)
    BY <2>14 DEF PublishHang
  <2> QED BY <1>1, <2>1, <2>2, <2>3, <2>4, <2>5, <2>6, <2>7,
             <2>8, <2>9, <2>10, <2>11, <2>12, <2>13, <2>14
           DEF ApiStep
<1>2. ASSUME NEW S \in SUBSET Events, CreateEventBulk(S) \/ InsertDirectlyFail(S)
      PROVE  PublisherInv'
  BY <1>2, DirectPublisher
<1> QED BY <1>1, <1>2 DEF ApiNext

\* ingestFromBacklog publishes what its own statement inserted.
LEMMA MoverPublisher ==
    ASSUME StoreTypeOK, IntakeTypeOK, PublisherInv, MoverNext
    PROVE  PublisherInv'
<1> USE DEF PublisherInv, Untouched, NobodyPublishes, OnlyOnePublishes, Publishes,
            Recorded, StoreTypeOK, IntakeTypeOK, requestVars, queueVars
<1> PICK m \in Movers :
        \/ \E S \in SUBSET backlog : MoveRows(m, S)
        \/ \E e \in Events : MoverProduce(m, e)
        \/ MoverFail(m)
  BY DEF MoverNext
<1>1. ASSUME NEW S \in SUBSET backlog, MoveRows(m, S)
      PROVE  PublisherInv'
  BY <1>1 DEF MoveRows, InsertRows
<1>2. ASSUME NEW e \in Events, MoverProduce(m, e)
      PROVE  PublisherInv'
  BY <1>2 DEF MoverProduce, ProduceRaw
<1>3. CASE MoverFail(m)
  BY <1>3 DEF MoverFail
<1> QED BY <1>1, <1>2, <1>3

\* So does ingestFromQueue: a delivery that finds the row there is finished
\* without a publish.
LEMMA QueuePublisher ==
    ASSUME StoreTypeOK, IntakeTypeOK, PublisherInv, QueueNext
    PROVE  PublisherInv'
<1> USE DEF PublisherInv, Untouched, NobodyPublishes, OnlyOnePublishes, Publishes,
            Recorded, StoreTypeOK, IntakeTypeOK, Jobs,
            storeVars, requestVars, moverVars
<1>1. ASSUME NEW e \in Events, Deliver(e)
      PROVE  PublisherInv'
  BY <1>1 DEF Deliver
<1>2. ASSUME NEW e \in Events, Discard(e) \/ MessageTimeout(e)
      PROVE  PublisherInv'
  BY <1>2 DEF Discard, MessageTimeout
<1>3. ASSUME NEW j \in ingesting, IngestNext(j)
      PROVE  PublisherInv'
  <2>1. j.ev \in Events
    OBVIOUS
  <2>2. CASE IngestInsert(j)
    BY <2>1, <2>2 DEF IngestInsert, InsertRows
  <2>3. CASE IngestConflict(j)
    BY <2>1, <2>3 DEF IngestConflict, Respond
  <2>4. CASE IngestRetry(j)
    BY <2>1, <2>4 DEF IngestRetry, Respond, InsertRows
  <2>5. CASE IngestProduce(j)
    BY <2>1, <2>5 DEF IngestProduce, Respond, ProduceRaw
  <2>6. CASE IngestProduceFail(j)
    BY <2>1, <2>6 DEF IngestProduceFail, Respond
  <2>7. CASE IngestCrash(j)
    BY <2>1, <2>7 DEF IngestCrash
  <2> QED BY <1>3, <2>2, <2>3, <2>4, <2>5, <2>6, <2>7 DEF IngestNext
<1> QED BY <1>1, <1>2, <1>3 DEF QueueNext

\* Counted, those who publish are at most one.
LEMMA PublishersCounted ==
    ASSUME StoreTypeOK, PublisherInv
    PROVE  SinglePublisher
<1> SUFFICES ASSUME NEW e \in Events, append[e] # "none"
             PROVE  raw[e] + Cardinality({m \in Movers : e \in moved[m]})
                      + Cardinality({j \in ingesting :
                                        j.ev = e /\ j.pc = "publishing"}) <= 1
  BY DEF SinglePublisher
<1> DEFINE M == {m \in Movers : e \in moved[m]}
           J == {j \in ingesting : j.ev = e /\ j.pc = "publishing"}
<1>1. OnlyOnePublishes(e) /\ raw[e] \in Nat
  BY DEF PublisherInv, StoreTypeOK
<1>2. Cardinality({}) = 0 /\ \A x : Cardinality({x}) = 1
  BY FS_EmptySet, FS_Singleton
<1>3. \/ M = {} /\ J = {}
      \/ raw[e] = 0 /\ (\E m : M = {m}) /\ J = {}
      \/ raw[e] = 0 /\ M = {} /\ (\E j : J = {j})
  <2>1. CASE \E m \in Movers : e \in moved[m]
    BY <1>1, <2>1 DEF OnlyOnePublishes, Publishes
  <2>2. CASE \E j \in ingesting : Publishes(j, e)
    BY <1>1, <2>2 DEF OnlyOnePublishes, Publishes
  <2>3. CASE /\ ~ \E m \in Movers : e \in moved[m]
             /\ ~ \E j \in ingesting : Publishes(j, e)
    BY <2>3 DEF Publishes
  <2> QED BY <2>1, <2>2, <2>3
<1>4. \/ Cardinality(M) = 0 /\ Cardinality(J) = 0
      \/ raw[e] = 0 /\ Cardinality(M) = 1 /\ Cardinality(J) = 0
      \/ raw[e] = 0 /\ Cardinality(M) = 0 /\ Cardinality(J) = 1
  <2> HIDE DEF M, J
  <2> QED BY <1>2, <1>3
<1>5. raw[e] + Cardinality(M) + Cardinality(J) <= 1
  <2> HIDE DEF M, J
  <2>1. raw[e] \in Nat /\ raw[e] <= 1
    BY <1>1 DEF OnlyOnePublishes
  <2> QED BY <1>4, <2>1
<1> QED BY <1>5

\* Whichever of the persisters places an event, and however the two moves to
\* ingest_task meet, only the one that inserted its row publishes its task id.
THEOREM OnePublisher == IntakeSpec => []SinglePublisher
<1> DEFINE Inv == StoreTypeOK /\ IntakeTypeOK /\ PublisherInv
           v == <<storeVars, intakeVars>>
<1>1. IntakeAloneInit => Inv
  <2> SUFFICES ASSUME IntakeAloneInit
               PROVE  Inv
    OBVIOUS
  <2>1. StoreTypeOK /\ IntakeTypeOK
    BY BoundsAssumption
    DEF IntakeAloneInit, StoreInit, IntakeInit, StoreTypeOK, IntakeTypeOK,
        RowStates, AnswerStates, CallStates, MessageStates
  <2>2. PublisherInv
    BY DEF IntakeAloneInit, StoreInit, IntakeInit, PublisherInv, Untouched,
           NobodyPublishes, OnlyOnePublishes, Recorded
  <2> QED BY <2>1, <2>2
<1>2. Inv /\ [IntakeNext]_v => Inv'
  <2>1. CASE IntakeNext
    BY <2>1, ApiType, MoverType, QueueType, ApiPublisher, MoverPublisher,
       QueuePublisher
    DEF IntakeNext
  <2>2. CASE UNCHANGED v
    BY <2>2 DEF storeVars, intakeVars, StoreTypeOK, IntakeTypeOK, PublisherInv,
        Untouched, NobodyPublishes, OnlyOnePublishes, Publishes, Recorded
  <2> QED BY <2>1, <2>2
<1>3. Inv => SinglePublisher
  BY PublishersCounted
<1> QED BY <1>1, <1>2, <1>3, PTL DEF IntakeSpec

=============================================================================
