--------------------------- MODULE MCHrcTaskqueue ---------------------------
(* An instance of HrcTaskqueue for TLC: four tasks, heaps of three levels. *)
EXTENDS HrcTaskqueue, TLC

CONSTANTS a, b, c, d

MCTasks == {a, b, c, d}
MCEntry == {a}
MCExit == {d}
MCLocation == a :> 1 @@ b :> 2 @@ c :> 2 @@ d :> 3
MCRandom == {0, 1, 2}

(* Fractions with and without DBL_MAX, differences, and static priorities. *)
MCConfs == {[index |-> 4, limit |-> 1], [index |-> 14, limit |-> 1],
            [index |-> 15, limit |-> 0], [index |-> 16, limit |-> 0]}
=============================================================================
