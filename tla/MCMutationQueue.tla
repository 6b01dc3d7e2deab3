-------------------------- MODULE MCMutationQueue ---------------------------
(* TLC instances of MutationQueue: the job channel is made shorter than    *)
(* the number of callers, so that submissions block on a full buffer while *)
(* Stop is called.                                                         *)
EXTENDS MutationQueue
=============================================================================
