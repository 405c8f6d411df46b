-------------------------- MODULE MCReviewPipeline --------------------------
(* Confidences on both sides of the range, of a rules verdict and of the    *)
(* least one for a hint.                                                    *)
EXTENDS ReviewPipeline

Numbers == {-20, 80, 97, 150}

=============================================================================
