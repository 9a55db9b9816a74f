---------------------------- MODULE MCDecenStream ----------------------------
(* Instances of DecenStream for TLC. *)
EXTENDS DecenStreamInv, TLC

CONSTANTS t1, t2, t3, s1, s2

(* Two producers and one consumer that may poll both streams, or replace
   the first one by the second. *)
MCTasks == {t1, t2, t3}
MCStreams == {s1, s2}
PollProducer == s1 :> t1 @@ s2 :> t2
PollConsumer == s1 :> t3 @@ s2 :> t3
PollSize == s1 :> 1 @@ s2 :> 2
PollLast == s1 :> 2 @@ s2 :> 3
=============================================================================
