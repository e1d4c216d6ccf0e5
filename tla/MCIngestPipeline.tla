--------------------------- MODULE MCIngestPipeline --------------------------
(* No symmetry, as there are liveness properties. *)
EXTENDS IngestPipeline

=============================================================================
