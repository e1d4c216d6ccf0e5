----------------------------- MODULE SearchIndex -----------------------------
(***************************************************************************)
(* What searches of one environment can find.  Events become visible in    *)
(* any order; a search sorts them by canonical_time, the time at which the *)
(* client of the publisher says the event was created, if it says, or else *)
(* the time at which Retraced received it (normalizeEvent.ts:166-179), and *)
(* then, where it says so, by id.  Elasticsearch keeps the events in        *)
(* indices; a daily rotation makes a new, empty one the current one        *)
(* (IndexAliases).  Some searches read all of them, some the current one.  *)
(***************************************************************************)
EXTENDS Naturals, FiniteSets

CONSTANTS
    Events,       \* ids
    MaxTime,      \* times are 1..MaxTime
    OwnTimes      \* what publishers may say of an event's time, 0 for nothing

ASSUME IndexAssumption ==
    /\ Events \subseteq Nat \ {0}
    /\ OwnTimes \subseteq 0..MaxTime
    /\ MaxTime \in Nat

VARIABLES
    created,    \* the event's own time, or 0
    received,
    index,      \* events that are indexed, or rows of ingested_events
    current,    \* those of them in the index of the write alias
    late        \* events indexed after one received at their time or later

times == <<created, received>>
indexVars == <<times, index, current, late>>

IndexTypeOK ==
    /\ created \in [Events -> OwnTimes]
    /\ received \in [Events -> 1..MaxTime]
    /\ late \subseteq index /\ current \subseteq index /\ index \subseteq Events

IndexInit ==
    /\ created \in [Events -> OwnTimes]
    /\ received \in [Events -> 1..MaxTime]
    /\ index = {} /\ current = {} /\ late = {}

CanonicalTime(e) == IF created[e] = 0 THEN received[e] ELSE created[e]

\* The event becomes visible to searches, in any order.
IndexEvent(e) ==
    /\ e \notin index
    /\ index' = index \cup {e}
    /\ current' = current \cup {e}
    /\ late' = IF \E x \in index : received[x] >= received[e]
               THEN late \cup {e} ELSE late
    /\ UNCHANGED times

\* The write alias moves to a new index.
Rotate ==
    /\ current # {}
    /\ current' = {}
    /\ UNCHANGED <<times, index, late>>

=============================================================================
