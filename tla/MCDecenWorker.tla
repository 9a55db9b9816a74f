---------------------------- MODULE MCDecenWorker ----------------------------
(* Instances of DecenWorker for TLC: two workers, a wrapper, three tasks. *)
EXTENDS DecenWorker, TLC

CONSTANTS t1, t2, t3

MCTasks == {t1, t2, t3}

MCWrappers == {-1}
NoWrappers == {}

(* Two tasks share worker 0, one at a priority that is out of range. *)
SharedHome == t1 :> 0 @@ t2 :> 0 @@ t3 :> 1
WrapperHome == t1 :> 0 @@ t2 :> 1 @@ t3 :> -1
MCPrio == t1 :> 0 @@ t2 :> 2 @@ t3 :> -1
=============================================================================
