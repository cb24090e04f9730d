-------------------------- MODULE MCMatchPipeline --------------------------
(* Two jobs of one user: rows of two users meet in no statement, and two    *)
(* jobs are enough for one to come while the other is in a batch.          *)
EXTENDS MatchPipeline

CONSTANTS j1, j2
=============================================================================
