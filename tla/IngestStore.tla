----------------------------- MODULE IngestStore -----------------------------
(***************************************************************************)
(* The state that intake and normalization share: the ingest_task table of *)
(* Postgres, one row per event at most (unique index on new_event_id), and *)
(* the raw_events topic of nsqd, which carries task ids.                   *)
(*                                                                         *)
(* A row is named by the event it holds: the task id that an insert draws  *)
(* reaches nobody when the insert conflicts, so event and task id          *)
(* determine each other.  `faults' counts what the environment did wrong:  *)
(* a failed query, a refused publish, a dead process, a handler that       *)
(* outlived its message.                                                   *)
(***************************************************************************)
EXTENDS Naturals, FiniteSets

CONSTANTS
    Events,      \* the event ids that idSource may draw
    MaxRaw,      \* copies of one task id that raw_events holds at once
    MaxFaults    \* faults in a behaviour

ASSUME BoundsAssumption == MaxRaw \in Nat /\ MaxFaults \in Nat

VARIABLES
    task,        \* the row of the event: no row, original_event set, or
                 \* original_event blanked and normalized_event set
    raw,         \* undelivered copies of the task id in raw_events
    faults

storeVars == <<task, raw, faults>>

RowStates == {"absent", "raw", "normalized"}

StoreTypeOK ==
    /\ task \in [Events -> RowStates]
    /\ raw \in [Events -> Nat]
    /\ faults \in 0..MaxFaults

StoreInit ==
    /\ task = [e \in Events |-> "absent"]
    /\ raw = [e \in Events |-> 0]
    /\ faults = 0

Recorded(e) == task[e] # "absent"

\* Mutant: ON CONFLICT DO UPDATE.
InsertRowsAgain(S) ==
    task' = [e \in Events |-> IF e \in S THEN "raw" ELSE task[e]]

\* INSERT INTO ingest_task ... ON CONFLICT DO NOTHING, for the events of S.
InsertRows(S) ==
    task' = [e \in Events |->
                IF e \in S /\ task[e] = "absent" THEN "raw" ELSE task[e]]

\* produce("raw_events", {taskId}) that nsqd accepts.
ProduceRaw(e) ==
    /\ raw[e] < MaxRaw
    /\ raw' = [raw EXCEPT ![e] = @ + 1]

Fault ==
    /\ faults < MaxFaults
    /\ faults' = faults + 1

=============================================================================
