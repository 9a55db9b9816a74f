------------------------------- MODULE SpmdInv -------------------------------
(***************************************************************************)
(* The inductive invariant of Spmd.  At most one request is being executed *)
(* while the workers that are done with it may have come to the next one,  *)
(* and the semaphore of a worker may hold posts for both.                  *)
(***************************************************************************)
EXTENDS Spmd, FiniteSets

Others(w) == Workers \ {w}

(* Where a worker is that has no request at hand. *)
Outside == {"handle", "pick", "run", "wctx", "task", "broadcast", "fetch",
            "wait"}
Labels == Outside \cup {"gather", "critical", "signal", "enter", "entered",
                        "execute", "collect", "wakeup"}

Requests == [wctx : Workers \cup {NULL}, task : Tasks \cup {NULL}]

TypeOK ==
  /\ req_queue \in [Workers -> Requests] /\ qhead \in Workers /\ qtail \in Nat
  /\ sema \in [Workers -> Nat] /\ pending \in [Workers -> {0, 1}]
  /\ pc \in [Workers -> Labels] /\ slot \in [Workers -> Workers]
  /\ curreq \in [Workers -> Requests] /\ i \in [Workers -> Nat]
  /\ cur \in [Workers -> Tasks \cup {NULL}]
  /\ ready \in [Workers -> SUBSET Tasks] /\ waiting \in SUBSET Tasks
  /\ log \in [Workers -> Seq(Workers)]

(* w is the master of a request that has left the queue. *)
Leads(w) ==
  \/ pc[w] \in {"signal", "collect", "wakeup"}
  \/ pc[w] = "execute" /\ curreq[w].wctx = w

(* The master of the request at the head, or NULL. *)
HeadMaster == req_queue[qhead].wctx

----------------------------------------------------------------------------
(* The queue *)

(* w has a slot: reserved, or with its request. *)
Queued(w) == pending[w] = 1 /\ ~Leads(w)

(* The k-th slot from the head on. *)
At(k) == IF qhead + k - 1 < num_workers THEN qhead + k - 1
         ELSE qhead + k - 1 - num_workers

(* The requests in the queue are those of the workers in q. *)
Queues(q) ==
  /\ \A j, k \in 1 .. Len(q) : q[j] = q[k] => j = k
  /\ \A w \in Workers : Queued(w) <=> \E k \in 1 .. Len(q) : q[k] = w
  /\ \A k \in 1 .. Len(q) :
       /\ req_queue[At(k)].wctx = IF pc[q[k]] = "wctx" THEN NULL ELSE q[k]
       /\ pc[q[k]] \in {"wctx", "task"} => slot[q[k]] = At(k)
  /\ \A s \in Workers : req_queue[s].wctx # NULL =>
       \E k \in 1 .. Len(q) : s = At(k)
  /\ \/ qtail = qhead + Len(q)
     \/ qtail = qhead + Len(q) - num_workers

QueueInv == \E q \in Seq(Workers) : Queues(q)

----------------------------------------------------------------------------
(* The requests that the workers have at hand *)

PhaseOf(w) ==
  /\ pc[w] \in {"run", "wctx", "task", "broadcast"} => cur[w] \in Tasks
  /\ pc[w] \in {"wctx", "task"} => pending[w] = 1
  /\ pc[w] \in {"gather", "critical"} =>
       curreq[w].wctx = w /\ HeadMaster = w /\ slot[w] = qhead
  /\ pc[w] = "enter" => curreq[w].wctx = HeadMaster /\ HeadMaster \in Others(w)
  /\ pc[w] = "entered" => /\ curreq[w].wctx \in Others(w)
                          /\ \/ curreq[w].wctx = HeadMaster
                             \/ Leads(curreq[w].wctx)
  /\ pc[w] = "execute" => curreq[w].wctx \in Workers /\ Leads(curreq[w].wctx)
  /\ Leads(w) => pending[w] = 1 /\ curreq[w].wctx = w
  /\ pc[w] \in {"gather", "collect"} => i[w] + 2 <= num_workers
  /\ pc[w] \in {"signal", "broadcast"} => i[w] + 1 <= num_workers
  /\ pc[w] \notin {"gather", "collect", "signal", "broadcast"} => i[w] = 0

PhaseInv ==
  /\ \A w \in Workers : PhaseOf(w)
  /\ \A v, w \in Workers : Leads(v) /\ Leads(w) => v = w

----------------------------------------------------------------------------
(* The semaphores *)

(* Those that wait to be told by w, the master. *)
Came(w) == {u \in Workers : pc[u] = "entered" /\ curreq[u].wctx = w}

(* Those that have executed the request of m, the master. *)
Done(m) ==
  {u \in Others(m) : ~(pc[u] \in {"entered", "execute"} /\ curreq[u].wctx = m)}

(* The posts that a master has taken in the first and the second barrier.  *)
Gathered(w) == CASE pc[w] = "gather" -> i[w]
                 [] pc[w] = "critical" -> num_workers - 1
                 [] OTHER -> 0
Collected(w) == CASE pc[w] = "collect" -> i[w]
                  [] pc[w] = "wakeup" -> num_workers - 1
                  [] OTHER -> 0

(* m has posted for w; w has taken a post. *)
Told(m, w) == IF pc[m] = "signal" /\ i[m] <= w THEN 0 ELSE 1
Passed(m, w) == IF pc[w] = "entered" /\ curreq[w].wctx = m THEN 0 ELSE 1

(* While m leads, a post to another worker is m's or, for the master of    *)
(* the next request, of one that has come to it.  That master may have     *)
(* taken the latter for the former.                                        *)
SemaInv ==
  /\ \A m \in Workers : Leads(m) =>
       /\ sema[m] + Collected(m) = Cardinality(Done(m))
       /\ \A w \in Others(m) : sema[w] + Gathered(w) + Passed(m, w)
                                 = Cardinality(Came(w)) + Told(m, w)
  /\ (\A m \in Workers : ~Leads(m)) =>
       \A w \in Workers : sema[w] + Gathered(w) = Cardinality(Came(w))

----------------------------------------------------------------------------
(* The history *)

(* u has executed the request of m. *)
Ran(m, u) == IF u = m THEN pc[m] \in {"collect", "wakeup"} ELSE u \in Done(m)

(* The requests that have been executed by all are those in l. *)
Logs(l) ==
  /\ (\A m \in Workers : ~Leads(m)) => \A u \in Workers : log[u] = l
  /\ \A m \in Workers : Leads(m) =>
       \A u \in Workers : log[u] = IF Ran(m, u) THEN Append(l, m) ELSE l

LogInv == \E l \in Seq(Workers) : Logs(l)

IInv == TypeOK /\ QueueInv /\ PhaseInv /\ SemaInv /\ LogInv
=============================================================================
