--------------------------- MODULE DecenTaskqueue ---------------------------
(***************************************************************************)
(* The queue of ready tasks of one priority (decen_taskqueue.c): a list    *)
(* doubly linked through the fields prev and next of the tasks.  A queue   *)
(* belongs to one worker.  tq records what is promised, enqueue at the     *)
(* tail and dequeue from the head.                                         *)
(***************************************************************************)
EXTENDS Integers, Sequences, Functions

CONSTANTS Tasks, NIL

ASSUME TaskqueueAssumption == NIL \notin Tasks

VARIABLES
  head, tail, count,    \* taskqueue_t
  tprev, tnext,         \* prev and next of a task
  at,                   \* cur of LpelTaskqueueIterateRemove; NIL outside it
  tq                    \* the tasks in the queue, in order

queuevars == <<head, tail, count, tprev, tnext, at, tq>>

LpelTaskqueueInit ==
  /\ head = NIL /\ tail = NIL /\ count = 0
  /\ tprev = [t \in Tasks |-> NIL] /\ tnext = [t \in Tasks |-> NIL]
  /\ at = NIL
  /\ tq = <<>>

(* Where a task is in the queue, and the queue without it. *)
Place(t) == CHOOSE i \in DOMAIN tq : tq[i] = t
Others(t) == SubSeq(tq, 1, Place(t) - 1) \o SubSeq(tq, Place(t) + 1, Len(tq))

----------------------------------------------------------------------------
LpelTaskqueuePush(t) ==
  /\ at = NIL /\ t \notin Range(tq)
  /\ IF head = NIL THEN head' = t /\ UNCHANGED <<tnext, tprev>>
     ELSE /\ tnext' = [tnext EXCEPT ![tail] = t]
          /\ tprev' = [tprev EXCEPT ![t] = tail]
          /\ UNCHANGED head
  /\ tail' = t
  /\ count' = count + 1
  /\ tq' = Append(tq, t)
  /\ UNCHANGED at

LpelTaskqueuePushFront(t) ==
  /\ at = NIL /\ t \notin Range(tq)
  /\ IF tail = NIL THEN tail' = t /\ UNCHANGED <<tnext, tprev>>
     ELSE /\ tprev' = [tprev EXCEPT ![head] = t]
          /\ tnext' = [tnext EXCEPT ![t] = head]
          /\ UNCHANGED tail
  /\ head' = t
  /\ count' = count + 1
  /\ tq' = <<t>> \o tq
  /\ UNCHANGED at

LpelTaskqueuePop ==
  /\ at = NIL /\ head # NIL
  /\ head' = tnext[head]
  /\ IF tnext[head] = NIL THEN tail' = NIL /\ UNCHANGED <<tnext, tprev>>
     ELSE /\ tprev' = [tprev EXCEPT ![tnext[head]] = NIL]
          /\ tnext' = [tnext EXCEPT ![head] = NIL]
          /\ UNCHANGED tail
  /\ count' = count - 1
  /\ tq' = Tail(tq)
  /\ UNCHANGED at

LpelTaskqueuePopBack ==
  /\ at = NIL /\ tail # NIL
  /\ tail' = tprev[tail]
  /\ IF tprev[tail] = NIL THEN head' = NIL /\ UNCHANGED <<tnext, tprev>>
     ELSE /\ tnext' = [tnext EXCEPT ![tprev[tail]] = NIL]
          /\ tprev' = [tprev EXCEPT ![tail] = NIL]
          /\ UNCHANGED head
  /\ count' = count - 1
  /\ tq' = SubSeq(tq, 1, Len(tq) - 1)
  /\ UNCHANGED at

(* LpelTaskqueueIterateRemove: start, and one round of its loop, in which  *)
(* the callback cond may say anything of the task.                         *)
IterateStart ==
  /\ at = NIL /\ head # NIL
  /\ at' = head
  /\ UNCHANGED <<head, tail, count, tprev, tnext, tq>>

IterateKeep ==
  /\ at # NIL
  /\ at' = tnext[at]
  /\ UNCHANGED <<head, tail, count, tprev, tnext, tq>>

(* Mutant: the tail is not relinked. *)
RemoveKeepsTail ==
  LET p == tprev[at]
      n == tnext[at]
  IN  /\ at # NIL
      /\ head' = IF p = NIL THEN n ELSE head
      /\ tnext' = [t \in Tasks |-> IF t = at THEN NIL
                                   ELSE IF t = p THEN n ELSE tnext[t]]
      /\ tprev' = [t \in Tasks |-> IF t = at THEN NIL
                                   ELSE IF t = n THEN p ELSE tprev[t]]
      /\ at' = n
      /\ count' = count - 1
      /\ tq' = Others(at)
      /\ UNCHANGED tail

IterateRemove ==
  LET p == tprev[at]
      n == tnext[at]
  IN  /\ at # NIL
      /\ head' = IF p = NIL THEN n ELSE head
      /\ tail' = IF n = NIL THEN p ELSE tail
      /\ tnext' = [t \in Tasks |-> IF t = at THEN NIL
                                   ELSE IF t = p THEN n ELSE tnext[t]]
      /\ tprev' = [t \in Tasks |-> IF t = at THEN NIL
                                   ELSE IF t = n THEN p ELSE tprev[t]]
      /\ at' = n
      /\ count' = count - 1
      /\ tq' = Others(at)

TaskqueueNext ==
  \/ \E t \in Tasks : LpelTaskqueuePush(t) \/ LpelTaskqueuePushFront(t)
  \/ LpelTaskqueuePop \/ LpelTaskqueuePopBack
  \/ IterateStart \/ IterateKeep \/ IterateRemove

TaskqueueSpec == LpelTaskqueueInit /\ [][TaskqueueNext]_queuevars

----------------------------------------------------------------------------
(* Correctness *)

Link(i) == IF i \in DOMAIN tq THEN tq[i] ELSE NIL

(* The list is the queue in both directions, the count with which          *)
(* LpelSchedFetchReady looks for a task is right, and a task outside the   *)
(* queue has no links, as the assertions of Push, Pop and LpelTaskDestroy  *)
(* demand.                                                                 *)
LinksHoldQueue ==
  /\ head = Link(1) /\ tail = Link(Len(tq)) /\ count = Len(tq)
  /\ \A i \in DOMAIN tq : tprev[tq[i]] = Link(i - 1) /\ tnext[tq[i]] = Link(i + 1)
  /\ \A t \in Tasks \ Range(tq) : tprev[t] = NIL /\ tnext[t] = NIL
=============================================================================
