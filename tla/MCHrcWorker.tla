----------------------------- MODULE MCHrcWorker -----------------------------
(* Instances of HrcWorker for TLC: two workers and three tasks. *)
EXTENDS HrcWorker, TLC

CONSTANTS t1, t2, t3

MCTasks == {t1, t2, t3}

NoWrappers == {}
TwoWrappers == {-2, -1}

(* Tasks on wrappers. *)
None == {}
TwoWrapped == {t2, t3}

(* t1 is an entry task whose output t2 reads. *)
OneEntry == {t1}
NoFeeds == <<>>
OneFeeds == t1 :> t2

(* Bounds. *)
B201 == t1 :> 2 @@ t2 :> 0 @@ t3 :> 1
B111 == t1 :> 1 @@ t2 :> 1 @@ t3 :> 1
=============================================================================
