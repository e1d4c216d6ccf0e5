--------------------------- MODULE MCProjectAdmin ----------------------------
(* Two users and two calls at once; no symmetry, as there is a liveness property. *)
EXTENDS ProjectAdmin

=============================================================================
