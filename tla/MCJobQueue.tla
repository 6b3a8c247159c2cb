----------------------------- MODULE MCJobQueue -----------------------------
(* Two potential worker tasks, so that taking the receiver matters; four    *)
(* jobs and a cap of one finished job, so that pruning happens while other  *)
(* jobs wait and run.                                                       *)
EXTENDS JobQueue
CONSTANTS w1, w2
MCWorkers == {w1, w2}
=============================================================================
