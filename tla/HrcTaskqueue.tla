---------------------------- MODULE HrcTaskqueue ----------------------------
(***************************************************************************)
(* The priority queue of the master (hrc_taskqueue.c), a binary heap, with *)
(* the priorities of taskpriority.c and the validity of entry tasks        *)
(* (hrc_task.c), as the handlers of the master use them.                   *)
(*                                                                         *)
(* A priority is a double: here a whole number of 1/Unit, Unit a common    *)
(* multiple of the denominators.  comparePrior converts a difference to    *)
(* int, towards zero; what does not fit (DBL_MAX) becomes INT_MIN, as on   *)
(* x86.  The records on the streams of a task are counted anew whenever    *)
(* they are needed, and may be any number up to MaxRec.                    *)
(***************************************************************************)
EXTENDS Integers, Sequences, FiniteSets

CONSTANTS
  Tasks,
  Entry, Exit,          \* tasks that read the input, write the output
  Location, Random,     \* rts_prio of a task; values of rand()
  Confs,                \* lpel_task_prio_conf: [index, limit]
  MaxRec,               \* bound: records on the streams of a task
  Unit, DBL_MAX, INT_MAX

ASSUME QueueAssumption ==
  /\ Entry \subseteq Tasks /\ Exit \subseteq Tasks
  /\ Location \in [Tasks -> Int] /\ Random \subseteq Nat
  /\ Confs \subseteq [index : 1 .. 16, limit : Nat]
  /\ {MaxRec, Unit, INT_MAX} \subseteq Nat \ {0}
  /\ \A o \in 0 .. MaxRec : Unit % ((o + 1) * (o + 1)) = 0
  /\ \A r \in Random : r <= INT_MAX
  /\ DBL_MAX > INT_MAX * Unit

VARIABLES
  conf,                 \* the configuration, fixed at the start
  heap,                 \* heap[1 ..] of taskqueue_t
  prio, valid,          \* sched_info_t
  place                 \* of a task: "new", "queue" or "away"

vars == <<conf, heap, prio, valid, place>>

----------------------------------------------------------------------------
(* taskpriority.c.  priorfunc1 to priorfunc12 are four ways to treat the   *)
(* ends of the network times three weights of I + 1 and O + 1.             *)

Square(b, n) == IF b THEN n * n ELSE n

priorfunc(i, in, out) ==
  LET I == Square(i \in 5 .. 8, in + 1)
      O(n) == Square(i \in 9 .. 12, n + 1)
  IN  IF in = -1 THEN IF i % 4 \in {1, 2} THEN 0
                      ELSE Unit \div O(IF out = -1 THEN 0 ELSE out)
      ELSE IF out = -1 THEN IF i % 2 = 1 THEN DBL_MAX ELSE I * Unit
      ELSE I * (Unit \div O(out))

priorfunc14(in, out) ==
  ((IF in = -1 THEN 0 ELSE in) - (IF out = -1 THEN 0 ELSE out)) * Unit

(* LpelTaskPrioInit: what the index stands for. *)
Static == conf.index \in {15, 16}
update_neigh_prio == ~Static
rts_prio_cmp == conf.index = 15

(* The values that prio_func may give. *)
prio_func(in, out) ==
  CASE conf.index \in 1 .. 12 -> {priorfunc(conf.index, in, out)}
    [] conf.index \in {13, 16} -> {r * Unit : r \in Random}
    [] OTHER -> {priorfunc14(in, out)}

LpelTaskInitPriority ==
  CASE conf.index = 15 -> {Unit} [] conf.index = 16 -> prio_func(0, 0)
    [] OTHER -> {DBL_MAX}

(* countRec: -1 stands for the end of the network. *)
countRec(t, Ends) == IF t \in Ends THEN {-1} ELSE 0 .. MaxRec

LpelTaskCalPriority(t) ==
  IF Static THEN {prio[t]}
  ELSE UNION {prio_func(in, out) : in \in countRec(t, Entry), out \in countRec(t, Exit)}

(* LpelTaskUpdateValid: an entry task with more output than the limit is   *)
(* not valid.                                                              *)
LpelTaskUpdateValid(t) ==
  IF t \in Entry /\ conf.limit > 0
  THEN {out <= conf.limit : out \in countRec(t, Exit)} ELSE {valid[t]}

----------------------------------------------------------------------------
(* hrc_taskqueue.c, over a heap h, the priorities p and the validities v   *)

ToInt(d) ==
  IF d > INT_MAX * Unit \/ -d > INT_MAX * Unit THEN -INT_MAX - 1
  ELSE IF d < 0 THEN -(-d \div Unit) ELSE d \div Unit

comparePrior(p, v, t, u) ==
  IF v[t] # v[u] THEN IF v[t] THEN 1 ELSE -1
  ELSE IF ~v[t] THEN 0
  ELSE IF rts_prio_cmp THEN Location[t] - Location[u]
  ELSE ToInt(p[t] - p[u])

Put(h, pos, t) == [h EXCEPT ![pos] = t]

(* Move the task t up from position pos. *)
RECURSIVE Up(_, _, _, _, _)
Up(h, p, v, pos, t) ==
  LET parent == pos \div 2
  IN  IF parent > 0 /\ comparePrior(p, v, t, h[parent]) > 0
      THEN Up(Put(h, pos, h[parent]), p, v, parent, t)
      ELSE Put(h, pos, t)

upHeap(h, p, v, pos) == Up(h, p, v, pos, h[pos])

(* Mutant: the left child is taken, whichever is higher. *)
LeftChild(h, p, v, child) == child

(* The higher of two children. *)
Higher(h, p, v, child) ==
  IF child + 1 <= Len(h) /\ comparePrior(p, v, h[child], h[child + 1]) < 0
  THEN child + 1 ELSE child

RECURSIVE Down(_, _, _, _, _)
Down(h, p, v, pos, t) ==
  LET child == Higher(h, p, v, 2 * pos)
  IN  IF 2 * pos <= Len(h) /\ comparePrior(p, v, t, h[child]) < 0
      THEN Down(Put(h, pos, h[child]), p, v, child, t)
      ELSE Put(h, pos, t)

downHeap(h, p, v, pos) == IF h = <<>> THEN h ELSE Down(h, p, v, pos, h[pos])

searchItem(h, t) == CHOOSE i \in DOMAIN h : h[i] = t

(* Mutant: a task that is not valid is moved up like the others. *)
PushAlwaysUp(h, p, v, t) ==
  upHeap(Append(h, t), p, [v EXCEPT ![t] = TRUE], Len(h) + 1)

(* A task that is not valid stays in the last position. *)
LpelTaskqueuePush(h, p, v, t) ==
  LET g == Append(h, t) IN IF v[t] THEN upHeap(g, p, v, Len(g)) ELSE g

LpelTaskqueueUpdatePriority(h, p, v, t, np) ==
  LET pos == searchItem(h, t)
      q == [p EXCEPT ![t] = np]
  IN  IF np < p[t] \/ ~v[t] THEN downHeap(h, q, v, pos)
      ELSE IF np > p[t] THEN upHeap(h, q, v, pos) ELSE h

(* Mutant: the last task is moved to the hole and stays in its place too. *)
OccupyKeepsLast(h, p, v, t) ==
  downHeap(Put(h, searchItem(h, t), h[Len(h)]), p, v, 1)

(* The last task takes the place of t, then goes down from the top. *)
LpelTaskqueueOccupyTask(h, p, v, t) ==
  LET g == Put(h, searchItem(h, t), h[Len(h)])
  IN  downHeap(SubSeq(g, 1, Len(g) - 1), p, v, 1)

----------------------------------------------------------------------------
(* The master *)

Init ==
  /\ conf \in Confs
  /\ heap = <<>>
  /\ prio \in [Tasks -> LpelTaskInitPriority]
  /\ valid = [t \in Tasks |-> TRUE]
  /\ place = [t \in Tasks |-> "new"]

(* A new task is queued as it was created (WORKER_MSG_ASSIGN). *)
MasterAssign(t) ==
  /\ place[t] = "new"
  /\ heap' = LpelTaskqueuePush(heap, prio, valid, t)
  /\ place' = [place EXCEPT ![t] = "queue"]
  /\ UNCHANGED <<conf, prio, valid>>

(* processTaskReady, when no worker waits. *)
processTaskReady(t) ==
  /\ place[t] = "away"
  /\ \E v \in LpelTaskUpdateValid(t) : valid' = [valid EXCEPT ![t] = v]
  /\ \E np \in IF valid'[t] THEN LpelTaskCalPriority(t) ELSE {prio[t]} :
       prio' = [prio EXCEPT ![t] = np]
  /\ heap' = LpelTaskqueuePush(heap, prio', valid', t)
  /\ place' = [place EXCEPT ![t] = "queue"]
  /\ UNCHANGED conf

(* updatePriorityList, for one neighbour t in the queue. *)
updatePriorityList(t) ==
  /\ place[t] = "queue"
  /\ \E v \in LpelTaskUpdateValid(t) : valid' = [valid EXCEPT ![t] = v]
  /\ IF update_neigh_prio
     THEN \E np \in LpelTaskCalPriority(t) :
            /\ heap' = LpelTaskqueueUpdatePriority(heap, prio, valid', t, np)
            /\ prio' = [prio EXCEPT ![t] = np]
     ELSE UNCHANGED <<heap, prio>>
  /\ UNCHANGED <<conf, place>>

(* processTaskReq: the head goes to a worker if it is valid. *)
processTaskReq ==
  /\ heap # <<>> /\ valid[heap[1]]
  /\ heap' = LpelTaskqueueOccupyTask(heap, prio, valid, heap[1])
  /\ place' = [place EXCEPT ![heap[1]] = "away"]
  /\ UNCHANGED <<conf, prio, valid>>

Next ==
  \/ \E t \in Tasks : MasterAssign(t) \/ processTaskReady(t) \/ updatePriorityList(t)
  \/ processTaskReq

Spec == Init /\ [][Next]_vars

----------------------------------------------------------------------------
(* Correctness *)

Queued == {t \in Tasks : place[t] = "queue"}

(* Whatever the comparisons say, and however often priorities change in    *)
(* place, the queue holds each queued task exactly once: none is run twice *)
(* and none is forgotten.                                                  *)
HoldsEachOnce ==
  /\ Len(heap) = Cardinality(Queued)
  /\ {heap[i] : i \in DOMAIN heap} = Queued

(* Where at most one entry task has a limit, a task that is not valid is   *)
(* never at the head while a valid one is queued, although its validity    *)
(* changes without a change of its position: processTaskReq, which looks   *)
(* at the head only, does not leave a worker without work.                 *)
ValidHead ==
  (\E t \in Queued : valid[t]) => valid[heap[1]]

(* "retrieve head (highest priority) of the queue": with the static        *)
(* priorities and no limit, no queued task is higher than the head.        *)
PeekIsHighest ==
  Static /\ conf.limit = 0 => 
    \A t \in Queued : comparePrior(prio, valid, heap[1], t) >= 0
=============================================================================
