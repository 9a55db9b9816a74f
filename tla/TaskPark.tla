------------------------------- MODULE TaskPark -------------------------------
(***************************************************************************)
(* The contract between the streams and the scheduler: what                *)
(* LpelTaskBlockStream and LpelTaskUnblock promise to each other.          *)
(*                                                                         *)
(* A task that finds it must wait is "parking" from then on: it will call  *)
(* LpelTaskBlockStream (or already has).  Exactly one other task unblocks  *)
(* it, which makes it "granted"; it then runs again, once.  A task is      *)
(* never unblocked while it is running, and never twice.                   *)
(*                                                                         *)
(* DecenStream implements this as the caller of the two functions, and     *)
(* DecenWorker as their implementation.                                    *)
(***************************************************************************)
CONSTANT Tasks
VARIABLE park

Init == park = [t \in Tasks |-> "running"]

Decide(t) == park[t] = "running" /\ park' = [park EXCEPT ![t] = "parking"]

Unblock(t) == park[t] = "parking" /\ park' = [park EXCEPT ![t] = "granted"]

Resume(t) == park[t] = "granted" /\ park' = [park EXCEPT ![t] = "running"]

Next == \E t \in Tasks : Decide(t) \/ Unblock(t) \/ Resume(t)

Spec == Init /\ [][Next]_park

FairSpec == Spec /\ \A t \in Tasks : WF_park(Resume(t))
=============================================================================
