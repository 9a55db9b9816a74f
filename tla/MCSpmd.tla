------------------------------- MODULE MCSpmd -------------------------------
(* Instances of Spmd for TLC: two workers and three tasks. *)
EXTENDS Spmd, TLC

CONSTANTS t1, t2, t3

ThreeTasks == {t1, t2, t3}

(* Two of three tasks on worker 0. *)
SharedHomes == t1 :> 0 @@ t2 :> 0 @@ t3 :> 1
=============================================================================
