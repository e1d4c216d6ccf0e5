----------------------------- MODULE EventIntake -----------------------------
(***************************************************************************)
(* How an event gets from an API request into ingest_task.                 *)
(*                                                                         *)
(* createEvent hands the event to two persisters and answers with the      *)
(* first that succeeds: an insert into the backlog table, started at once, *)
(* and a publish to the unsaved_events topic, started when 80% of the      *)
(* request's time is gone.  ingestFromBacklog moves backlog rows to        *)
(* ingest_task every second; ingestFromQueue inserts what unsaved_events   *)
(* delivers.  createEventBulk and saveEvent insert into ingest_task        *)
(* themselves.  Each of them then publishes the task id to raw_events.     *)
(*                                                                         *)
(* A persister is split where its effect and its answer are two events: a  *)
(* statement can commit, or nsqd can accept a message, long before the     *)
(* API hears of it or although the API never does.  Neither persister has  *)
(* a timeout: one that hangs reports nothing for as long as its process    *)
(* lives.                                                                  *)
(***************************************************************************)
EXTENDS IngestStore

CONSTANTS
    Movers,        \* clear_ingest_backlog handlers, one per processor replica
    BacklogLimit,  \* rows that one ingestFromBacklog takes (LIMIT 1000)
    MaxInFlight,   \* unsaved_events messages being handled at once
    MaxAttempts    \* attempts the unsaved_events consumer is given

ASSUME IntakeAssumption ==
    /\ BacklogLimit \in Nat \ {0}
    /\ MaxInFlight \in Nat \ {0}
    /\ MaxAttempts \in Nat \ {0}

VARIABLES
    answer,     \* what the client was told: nothing, acked, rejected, or the
                \* API died with the request ("lost")
    append,     \* the appendEventToBacklog call of the event
    publish,    \* its publishEventToQueue call and the timer that starts it
    unsent,     \* raw_events publishes that the API issued and does not await
    backlog,    \* the backlog table: at most one row per event
    moved,      \* per mover, RETURNING rows whose task ids it has yet to publish
    message,    \* the event's message in unsaved_events
    attempts,   \* how often nsqd has delivered that message
    ingesting   \* running ingestFromQueue calls

intakeVars == <<answer, append, publish, unsent, backlog, moved, message,
                attempts, ingesting>>

requestVars == <<answer, append, publish, unsent>>
moverVars == <<backlog, moved>>
queueVars == <<message, attempts, ingesting>>

AnswerStates == {"none", "pending", "acked", "rejected", "lost"}
CallStates == {"none", "timer", "cleared", "running", "landed", "ok", "failed", "hung"}
MessageStates == {"none", "queued", "inflight", "finished", "discarded"}

\* ingestFromQueue handling the delivery number `attempt' of ev's message.
Jobs == [ev : Events, attempt : Nat, pc : {"inserting", "publishing"}]

IntakeTypeOK ==
    /\ answer \in [Events -> AnswerStates]
    /\ append \in [Events -> CallStates \ {"timer", "cleared"}]
    /\ publish \in [Events -> CallStates]
    /\ unsent \in [Events -> 0..2]
    /\ backlog \subseteq Events
    /\ moved \in [Movers -> SUBSET Events]
    /\ message \in [Events -> MessageStates]
    /\ attempts \in [Events -> Nat]
    /\ ingesting \subseteq Jobs

IntakeInit ==
    /\ answer = [e \in Events |-> "none"]
    /\ append = [e \in Events |-> "none"]
    /\ publish = [e \in Events |-> "none"]
    /\ unsent = [e \in Events |-> 0]
    /\ backlog = {}
    /\ moved = [m \in Movers |-> {}]
    /\ message = [e \in Events |-> "none"]
    /\ attempts = [e \in Events |-> 0]
    /\ ingesting = {}

-----------------------------------------------------------------------------
(* The API: createEvent *)

\* persistEvent: the first persister runs, the second waits for its timer.
CreateEvent(e) ==
    /\ answer[e] = "none"
    /\ answer' = [answer EXCEPT ![e] = "pending"]
    /\ append' = [append EXCEPT ![e] = "running"]
    /\ publish' = [publish EXCEPT ![e] = "timer"]
    /\ UNCHANGED <<storeVars, unsent, moverVars, queueVars>>

\* `success', run once: resolve the request.
Resolve(e) ==
    answer' = [answer EXCEPT ![e] = IF @ = "pending" THEN "acked" ELSE @]

\* `fail': reject the request when the other persister has failed too.
Reject(e, other) ==
    answer' = [answer EXCEPT ![e] =
                   IF @ = "pending" /\ other = "failed" THEN "rejected" ELSE @]

AppendCommit(e) ==
    /\ append[e] = "running"
    /\ append' = [append EXCEPT ![e] = "landed"]
    /\ backlog' = backlog \cup {e}
    /\ UNCHANGED <<storeVars, answer, publish, unsent, moved, queueVars>>

AppendReply(e) ==
    /\ append[e] = "landed"
    /\ append' = [append EXCEPT ![e] = "ok"]
    /\ Resolve(e)
    /\ publish' = [publish EXCEPT ![e] = IF @ = "timer" THEN "cleared" ELSE @]
    /\ UNCHANGED <<storeVars, unsent, moverVars, queueVars>>

\* Mutant: the timers are cleared when the first persister settles, not only
\* when it succeeds.
AppendFailForGood(e) ==
    /\ append[e] \in {"running", "landed"}
    /\ Fault
    /\ append' = [append EXCEPT ![e] = "failed"]
    /\ Reject(e, publish[e])
    /\ publish' = [publish EXCEPT ![e] = IF @ = "timer" THEN "cleared" ELSE @]
    /\ UNCHANGED <<task, raw, unsent, moverVars, queueVars>>

\* The pool gives no connection, the insert fails, or its answer is lost.
AppendFail(e) ==
    /\ append[e] \in {"running", "landed"}
    /\ Fault
    /\ append' = [append EXCEPT ![e] = "failed"]
    /\ Reject(e, publish[e])
    /\ UNCHANGED <<task, raw, publish, unsent, moverVars, queueVars>>

\* The pool has no connection to give, or its answer never comes: neither waits
\* with a timeout (persistence/pg.ts has no connectionTimeoutMillis).
AppendHang(e) ==
    /\ append[e] \in {"running", "landed"}
    /\ Fault
    /\ append' = [append EXCEPT ![e] = "hung"]
    /\ UNCHANGED <<task, raw, answer, publish, unsent, moverVars, queueVars>>

PublishTimer(e) ==
    /\ publish[e] = "timer"
    /\ publish' = [publish EXCEPT ![e] = "running"]
    /\ UNCHANGED <<storeVars, answer, append, unsent, moverVars, queueVars>>

PublishCommit(e) ==
    /\ publish[e] = "running"
    /\ publish' = [publish EXCEPT ![e] = "landed"]
    /\ message' = [message EXCEPT ![e] = "queued"]
    /\ UNCHANGED <<storeVars, answer, append, unsent, moverVars, attempts,
                   ingesting>>

PublishReply(e) ==
    /\ publish[e] = "landed"
    /\ publish' = [publish EXCEPT ![e] = "ok"]
    /\ Resolve(e)
    /\ UNCHANGED <<storeVars, append, unsent, moverVars, queueVars>>

\* Mutant: publishEventToQueue swallows the error, as nsqPublish does.
PublishFailSwallowed(e) ==
    /\ publish[e] \in {"running", "landed"}
    /\ Fault
    /\ publish' = [publish EXCEPT ![e] = "ok"]
    /\ Resolve(e)
    /\ UNCHANGED <<task, raw, append, unsent, moverVars, queueVars>>

PublishFail(e) ==
    /\ publish[e] \in {"running", "landed"}
    /\ Fault
    /\ publish' = [publish EXCEPT ![e] = "failed"]
    /\ Reject(e, append[e])
    /\ UNCHANGED <<task, raw, append, unsent, moverVars, queueVars>>

\* produce waits for its connection, or for nsqd's answer, without a timeout too.
PublishHang(e) ==
    /\ publish[e] \in {"running", "landed"}
    /\ Fault
    /\ publish' = [publish EXCEPT ![e] = "hung"]
    /\ UNCHANGED <<task, raw, answer, append, unsent, moverVars, queueVars>>

-----------------------------------------------------------------------------
(* The API: createEventBulk and saveEvent *)

\* One statement inserts all rows; the task ids are then published `copies'
\* times each, and nobody waits for those publishes.
InsertDirectly(S, copies) ==
    /\ \A e \in S : answer[e] = "none"
    /\ InsertRows(S)
    /\ answer' = [e \in Events |-> IF e \in S THEN "acked" ELSE answer[e]]
    /\ unsent' = [e \in Events |-> IF e \in S THEN copies ELSE unsent[e]]
    /\ UNCHANGED <<raw, faults, append, publish, moverVars, queueVars>>

CreateEventBulk(S) == S # {} /\ InsertDirectly(S, 2)

SaveEvent(e) == InsertDirectly({e}, 1)

\* The statement fails, or it commits and the API does not live to hear of it.
InsertDirectlyFail(S) ==
    /\ S # {}
    /\ \A e \in S : answer[e] = "none"
    /\ Fault
    /\ InsertRows(S) \/ UNCHANGED task
    /\ \E told \in {"rejected", "lost"} :
          answer' = [e \in Events |-> IF e \in S THEN told ELSE answer[e]]
    /\ UNCHANGED <<raw, append, publish, unsent, moverVars, queueVars>>

NsqPublish(e) ==
    /\ unsent[e] > 0
    /\ ProduceRaw(e)
    /\ unsent' = [unsent EXCEPT ![e] = @ - 1]
    /\ UNCHANGED <<task, faults, answer, append, publish, moverVars, queueVars>>

\* nsqPublish logs the error and swallows it.
NsqPublishFail(e) ==
    /\ unsent[e] > 0
    /\ Fault
    /\ unsent' = [unsent EXCEPT ![e] = @ - 1]
    /\ UNCHANGED <<task, raw, answer, append, publish, moverVars, queueVars>>

\* The API process dies: the timer and the unawaited publishes die with it,
\* a statement or message already on its way may still land.
ApiCrash(e) ==
    /\ answer[e] = "pending" \/ unsent[e] > 0
    /\ Fault
    /\ answer' = [answer EXCEPT ![e] = IF @ = "pending" THEN "lost" ELSE @]
    /\ publish' = [publish EXCEPT ![e] = IF @ = "timer" THEN "cleared" ELSE @]
    /\ unsent' = [unsent EXCEPT ![e] = 0]
    /\ UNCHANGED <<task, raw, append, moverVars, queueVars>>

-----------------------------------------------------------------------------
(* The processor: ingestFromBacklog *)

\* Mutant: the task ids of all deleted rows are published, those of rows that
\* conflicted included.
MoveRowsReturningAll(m, S) ==
    /\ moved[m] = {}
    /\ S # {} /\ S \subseteq backlog /\ Cardinality(S) <= BacklogLimit
    /\ backlog' = backlog \ S
    /\ InsertRows(S)
    /\ moved' = [moved EXCEPT ![m] = S]
    /\ UNCHANGED <<raw, faults, requestVars, queueVars>>

\* One statement deletes rows from the backlog and inserts them into
\* ingest_task; RETURNING names the rows it inserted, not those that
\* conflicted.  LIMIT has no ORDER BY, and a concurrent mover may hold some of
\* the rows: any of them may be taken.
MoveRows(m, S) ==
    /\ moved[m] = {}
    /\ S # {} /\ S \subseteq backlog /\ Cardinality(S) <= BacklogLimit
    /\ backlog' = backlog \ S
    /\ InsertRows(S)
    /\ moved' = [moved EXCEPT ![m] = {e \in S : task[e] = "absent"}]
    /\ UNCHANGED <<raw, faults, requestVars, queueVars>>

MoverProduce(m, e) ==
    /\ e \in moved[m]
    /\ ProduceRaw(e)
    /\ moved' = [moved EXCEPT ![m] = @ \ {e}]
    /\ UNCHANGED <<task, faults, requestVars, backlog, queueVars>>

\* A publish fails and ends the loop, or the processor dies in it; the tick is
\* finished either way.
MoverFail(m) ==
    /\ moved[m] # {}
    /\ Fault
    /\ moved' = [moved EXCEPT ![m] = {}]
    /\ UNCHANGED <<task, raw, requestVars, backlog, queueVars>>

-----------------------------------------------------------------------------
(* The processor: ingestFromQueue under the consumer loop *)

Deliver(e) ==
    /\ message[e] = "queued"
    /\ attempts[e] < MaxAttempts
    /\ Cardinality(ingesting) < MaxInFlight
    /\ message' = [message EXCEPT ![e] = "inflight"]
    /\ attempts' = [attempts EXCEPT ![e] = @ + 1]
    /\ ingesting' = ingesting \cup
          {[ev |-> e, attempt |-> attempts[e] + 1, pc |-> "inserting"]}
    /\ UNCHANGED <<storeVars, requestVars, moverVars>>

\* Mutant: the reader is given maxAttempts and not maxAttempts + 1.
DiscardEarly(e) ==
    /\ message[e] = "queued"
    /\ attempts[e] + 1 >= MaxAttempts
    /\ message' = [message EXCEPT ![e] = "discarded"]
    /\ UNCHANGED <<storeVars, requestVars, moverVars, attempts, ingesting>>

\* nsqjs finishes a message that comes back after its last attempt.
Discard(e) ==
    /\ message[e] = "queued"
    /\ attempts[e] = MaxAttempts
    /\ message' = [message EXCEPT ![e] = "discarded"]
    /\ UNCHANGED <<storeVars, requestVars, moverVars, attempts, ingesting>>

\* finish() and requeue() act on the delivery they were called for; after a
\* timeout that delivery is over and they do nothing.
Respond(j, outcome) ==
    message' = [message EXCEPT ![j.ev] =
                    IF @ = "inflight" /\ attempts[j.ev] = j.attempt
                    THEN outcome ELSE @]

IngestInsert(j) ==
    /\ j \in ingesting
    /\ j.pc = "inserting"
    /\ task[j.ev] = "absent"
    /\ InsertRows({j.ev})
    /\ ingesting' = (ingesting \ {j}) \cup {[j EXCEPT !.pc = "publishing"]}
    /\ UNCHANGED <<raw, faults, requestVars, moverVars, message, attempts>>

\* "conflict, already ingested"
IngestConflict(j) ==
    /\ j \in ingesting
    /\ j.pc = "inserting"
    /\ Recorded(j.ev)
    /\ ingesting' = ingesting \ {j}
    /\ Respond(j, "finished")
    /\ UNCHANGED <<storeVars, requestVars, moverVars, attempts>>

\* Mutant: the error is rethrown without the retry flag.
IngestGiveUp(j) ==
    /\ j \in ingesting
    /\ j.pc = "inserting"
    /\ Fault
    /\ InsertRows({j.ev}) \/ UNCHANGED task
    /\ ingesting' = ingesting \ {j}
    /\ Respond(j, "finished")
    /\ UNCHANGED <<raw, requestVars, moverVars, attempts>>

\* The query fails, committed or not: err.retry = true, so requeue.
IngestRetry(j) ==
    /\ j \in ingesting
    /\ j.pc = "inserting"
    /\ Fault
    /\ InsertRows({j.ev}) \/ UNCHANGED task
    /\ ingesting' = ingesting \ {j}
    /\ Respond(j, "queued")
    /\ UNCHANGED <<raw, requestVars, moverVars, attempts>>

IngestProduce(j) ==
    /\ j \in ingesting
    /\ j.pc = "publishing"
    /\ ProduceRaw(j.ev)
    /\ ingesting' = ingesting \ {j}
    /\ Respond(j, "finished")
    /\ UNCHANGED <<task, faults, requestVars, moverVars, attempts>>

\* A failed publish has no retry flag: the message is finished.
IngestProduceFail(j) ==
    /\ j \in ingesting
    /\ j.pc = "publishing"
    /\ Fault
    /\ ingesting' = ingesting \ {j}
    /\ Respond(j, "finished")
    /\ UNCHANGED <<task, raw, requestVars, moverVars, attempts>>

IngestCrash(j) ==
    /\ j \in ingesting
    /\ Fault
    /\ ingesting' = ingesting \ {j}
    /\ UNCHANGED <<task, raw, requestVars, moverVars, message, attempts>>

\* nsqd requeues a message whose handler has not answered in time: the handler
\* is dead, or it is slow (a fault) and still running.
Handled(e) == \E j \in ingesting : j.ev = e /\ j.attempt = attempts[e]

MessageTimeout(e) ==
    /\ message[e] = "inflight"
    /\ IF Handled(e) THEN Fault ELSE UNCHANGED faults
    /\ message' = [message EXCEPT ![e] = "queued"]
    /\ UNCHANGED <<task, raw, requestVars, moverVars, attempts, ingesting>>

-----------------------------------------------------------------------------

ApiStep(e) ==
    \/ CreateEvent(e)   \/ SaveEvent(e)     \/ ApiCrash(e)
    \/ AppendCommit(e)  \/ AppendReply(e)   \/ AppendFail(e)
    \/ PublishTimer(e)  \/ PublishCommit(e) \/ PublishReply(e)
    \/ PublishFail(e)   \/ NsqPublish(e)    \/ NsqPublishFail(e)
    \/ AppendHang(e)    \/ PublishHang(e)

ApiNext ==
    \/ \E e \in Events : ApiStep(e)
    \/ \E S \in SUBSET Events : CreateEventBulk(S) \/ InsertDirectlyFail(S)

MoverNext ==
    \E m \in Movers :
        \/ \E S \in SUBSET backlog : MoveRows(m, S)
        \/ \E e \in Events : MoverProduce(m, e)
        \/ MoverFail(m)

IngestNext(j) ==
    \/ IngestInsert(j)  \/ IngestConflict(j)    \/ IngestRetry(j)
    \/ IngestProduce(j) \/ IngestProduceFail(j) \/ IngestCrash(j)

QueueNext ==
    \/ \E e \in Events : Deliver(e) \/ Discard(e) \/ MessageTimeout(e)
    \/ \E j \in ingesting : IngestNext(j)

IntakeNext == ApiNext \/ MoverNext \/ QueueNext

\* Intake on its own: nobody takes task ids from raw_events.
IntakeAloneInit == StoreInit /\ IntakeInit

IntakeSpec == IntakeAloneInit /\ [][IntakeNext]_<<storeVars, intakeVars>>

-----------------------------------------------------------------------------
(* What must hold in every state *)

\* The event is in a store or topic from which the pipeline will take it on.
Held(e) ==
    \/ e \in backlog
    \/ message[e] \in {"queued", "inflight"}
    \/ Recorded(e)

\* An acknowledged event is never in nobody's hands, whichever persister
\* answered and however the moves to ingest_task interleave; the one exception
\* is a message that used up the attempts of ingestFromQueue (index.ts:213).
AckedIsHeld ==
    \A e \in Events :
        answer[e] = "acked" => Held(e) \/ message[e] = "discarded"

\* Why that is so, conjunct by conjunct: a backlog row whose insert landed can
\* only leave for ingest_task; a message whose publish landed can only be
\* finished by a handler that found or inserted the row; who answers has seen
\* one of the two land or the row inserted.
KeptByBacklog ==
    \A e \in Events :
        append[e] \in {"landed", "ok"} => e \in backlog \/ Recorded(e)

KeptByQueue ==
    \A e \in Events :
        /\ publish[e] \in {"landed", "ok"} => message[e] # "none"
        /\ message[e] = "finished" => Recorded(e)

JobsHaveInserted ==
    \A j \in ingesting : j.pc = "publishing" => Recorded(j.ev)

AnswersAreBacked ==
    \A e \in Events :
        answer[e] = "acked" =>
            append[e] = "ok" \/ publish[e] = "ok" \/ Recorded(e)

CustodyInv ==
    KeptByBacklog /\ KeptByQueue /\ JobsHaveInserted /\ AnswersAreBacked

\* nsqd gives a message up only after that many failed deliveries: a conflict,
\* a lost publish or a slow answer never use attempts up.
DiscardNeedsFaults ==
    \A e \in Events : message[e] = "discarded" => faults >= MaxAttempts

\* Why: a message goes back to the topic by a fault, or after the crash of the
\* handler of its current delivery, which was one.
AttemptsAreFaults ==
    \A e \in Events :
        /\ answer[e] = "none" => publish[e] = "none"
        /\ publish[e] \in {"none", "timer", "cleared", "running"} =>
              message[e] = "none"
        /\ message[e] = "none" => attempts[e] = 0
        /\ message[e] \in {"none", "queued", "discarded"} => attempts[e] <= faults
        /\ message[e] = "inflight" =>
              attempts[e] <= (IF Handled(e) THEN faults + 1 ELSE faults)
        /\ message[e] = "discarded" => attempts[e] = MaxAttempts

\* An event that reached both the backlog and unsaved_events has its task id
\* published by one of the two movers only, the one whose insert did not
\* conflict (RETURNING id): here, where nobody consumes raw_events, it is on the
\* topic or about to be published at most once.
SinglePublisher ==
    \A e \in Events :
        append[e] # "none" =>
            raw[e] + Cardinality({m \in Movers : e \in moved[m]})
                   + Cardinality({j \in ingesting :
                                     j.ev = e /\ j.pc = "publishing"}) <= 1

\* Why: who publishes has just inserted the row, which nobody else can then do;
\* the rows that createEventBulk and saveEvent insert are of events that
\* createEvent never saw.
Publishes(j, e) == j.ev = e /\ j.pc = "publishing"

NobodyPublishes(e) ==
    /\ raw[e] = 0
    /\ unsent[e] = 0
    /\ \A m \in Movers : e \notin moved[m]
    /\ \A j \in ingesting : ~ Publishes(j, e)

OnlyOnePublishes(e) ==
    /\ raw[e] <= 1
    /\ unsent[e] = 0
    /\ \A m \in Movers : e \in moved[m] =>
          /\ raw[e] = 0
          /\ \A n \in Movers : e \in moved[n] => n = m
          /\ \A j \in ingesting : ~ Publishes(j, e)
    /\ \A j \in ingesting : Publishes(j, e) =>
          /\ raw[e] = 0
          /\ \A k \in ingesting : Publishes(k, e) => k = j

Untouched(e) ==
    /\ append[e] = "none" /\ publish[e] = "none" /\ message[e] = "none"
    /\ e \notin backlog
    /\ \A j \in ingesting : j.ev # e
    /\ ~ Recorded(e)

PublisherInv ==
    \A e \in Events :
        /\ answer[e] = "none" => Untouched(e)
        /\ ~ Recorded(e) => NobodyPublishes(e)
        /\ append[e] # "none" => OnlyOnePublishes(e)

=============================================================================
