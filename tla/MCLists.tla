------------------------------- MODULE MCLists -------------------------------
(* The two lists that are linked through fields of their members, for TLC. *)
(* They share nothing: each takes its steps in any state of the other.     *)
EXTENDS Streamset, DecenTaskqueue

CONSTANTS d1, d2, d3, d4, t1, t2, t3

MCDescs == {d1, d2, d3, d4}
MCTasks == {t1, t2, t3}

Init == StreamsetInit /\ LpelTaskqueueInit

Next ==
  \/ StreamsetNext /\ UNCHANGED queuevars
  \/ TaskqueueNext /\ UNCHANGED setvars

Spec == Init /\ [][Next]_<<setvars, queuevars>>
=============================================================================
