------------------------------- MODULE AuditLog ------------------------------
(***************************************************************************)
(* What the ingestion pipeline promises a client, without saying how: an   *)
(* event whose receipt was confirmed is held from then on, and whatever is *)
(* held is eventually normalized, once and for all.                        *)
(***************************************************************************)
CONSTANT Events

VARIABLES
    held,         \* events the system holds somewhere
    confirmed,    \* events whose client was told so
    normalized    \* events in their final, searchable form

logVars == <<held, confirmed, normalized>>

Init ==
    /\ held = {}
    /\ confirmed = {}
    /\ normalized = {}

\* Take events in, and perhaps answer for them in the same step.
Keep(S) ==
    /\ held' = held \cup S
    /\ confirmed' \in {confirmed, confirmed \cup S}
    /\ UNCHANGED normalized

Confirm(e) ==
    /\ e \in held
    /\ confirmed' = confirmed \cup {e}
    /\ UNCHANGED <<held, normalized>>

Normalize(e) ==
    /\ e \in held \ normalized
    /\ normalized' = normalized \cup {e}
    /\ UNCHANGED <<held, confirmed>>

Next ==
    \/ \E S \in SUBSET Events : Keep(S)
    \/ \E e \in Events : Confirm(e) \/ Normalize(e)

SafeSpec == Init /\ [][Next]_logVars

Spec == SafeSpec /\ \A e \in Events : WF_logVars(Normalize(e))

=============================================================================
