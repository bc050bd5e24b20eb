------------------------- MODULE MCGradientFeedback -------------------------
(* More buckets than workers, so that a finish() job has to queue.           *)
EXTENDS GradientFeedback
=============================================================================
