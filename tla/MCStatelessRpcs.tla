--------------------------- MODULE MCStatelessRpcs ---------------------------
(* The settings of MCReviewPipeline, with the other RPCs beside the review. *)
EXTENDS MCReviewPipeline, StatelessRpcs

=============================================================================
