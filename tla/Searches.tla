------------------------------ MODULE Searches -------------------------------
(***************************************************************************)
(* Clients of the search endpoints over one index: either one that walks   *)
(* through a search or one that pumps an active search, in each behaviour, *)
(* while events are indexed.                                               *)
(***************************************************************************)
EXTENDS ActiveSearch, EventSearch

vars == <<indexVars, pumpVars, walk>>

TypeOK == IndexTypeOK /\ PumpTypeOK /\ WalkTypeOK

Init == IndexInit /\ PumpInit /\ WalkInit

\* A walk depends on canonical times alone, and events that say no time of their
\* own have all of those.
NotPumping == OnlyReceived /\ tokens = 0 /\ ~ deleted /\ faults = 0 /\ \A p \in Pumps : pump[p] = Idle

\* Pumping does not depend on ids.
IdsInOrder == \A e, x \in Events : e < x => received[e] <= received[x]

Next ==
    \/ \E e \in Events : IndexEventInWalk(e) /\ UNCHANGED pumpVars
    \/ walk.kind = "none" /\ IdsInOrder /\ PumpNext /\ UNCHANGED <<indexVars, walk>>
    \/ NotPumping /\ WalkNext /\ UNCHANGED <<indexVars, pumpVars>>
    \/ NotPumping /\ RotateInWalk /\ UNCHANGED pumpVars

Spec == Init /\ [][Next]_vars

=============================================================================
