----------------------------- MODULE MCHrcStream -----------------------------
(* Instances of HrcStream for TLC: the lists of one worker, and at most
   three streams. *)
EXTENDS HrcStream, TLC

CONSTANTS z, d5, d6, w1

MCStreams == {x, y, z}
MCDescs == {px, rx, ry, cy, d5, d6}
OneWorker == {w1}

MCLast == <<2, 1>>
EitherSource == {{}, {Prod}}
=============================================================================
