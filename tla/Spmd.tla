-------------------------------- MODULE Spmd --------------------------------
(***************************************************************************)
(* SPMD requests (spmdext.c, LpelTaskEnterSPMD, LpelWorkerBroadcast): a    *)
(* task asks all workers to execute a function together.  Requests go      *)
(* through an array used as a ring; before a worker runs a task it handles *)
(* the request at the head, between two barriers built from one semaphore  *)
(* for each worker.                                                        *)
(*                                                                         *)
(* A step is one access to shared data with the local work that follows.   *)
(* A worker runs its ready tasks in any order; a task makes requests and   *)
(* then exits.  A failed assertion ends the program.                       *)
(***************************************************************************)
EXTENDS Integers, Sequences

CONSTANTS
  num_workers,
  Tasks, NULL,
  Home,         \* the worker of a task
  Budget        \* bound: requests that a task makes

Workers == 0 .. num_workers - 1

ASSUME SpmdAssumption ==
  /\ num_workers \in Nat \ {0} /\ NULL \notin Tasks /\ NULL \notin Workers
  /\ Home \in [Tasks -> Workers] /\ Budget \in Nat

VARIABLES
  req_queue, qhead, qtail,     \* the request queue
  sema, pending,               \* spmd_worker_t
  pc, slot, curreq, i,         \* of a worker: the locals of the functions
  cur, ready, mailbox,         \* task whose stack it is on; SPMDREQ arrived
  waiting, left,               \* tasks blocked in a request; budget left
  log,                         \* history: masters of the requests executed
  aborted                      \* an assertion has failed

queuevars == <<req_queue, qhead, qtail>>
spmdvars == <<sema, pending>>
localvars == <<slot, curreq, i>>
taskvars == <<cur, ready, mailbox, waiting, left>>
vars == <<queuevars, spmdvars, pc, localvars, taskvars, log, aborted>>

NoReq == [wctx |-> NULL, task |-> NULL]

(* LpelSpmdInit; the tasks have been assigned. *)
Init ==
  /\ req_queue = [n \in Workers |-> NoReq] /\ qhead = 0 /\ qtail = 0
  /\ sema = [w \in Workers |-> 0] /\ pending = [w \in Workers |-> 0]
  /\ pc = [w \in Workers |-> "handle"] /\ slot = [w \in Workers |-> 0]
  /\ curreq = [w \in Workers |-> NoReq] /\ i = [w \in Workers |-> 0]
  /\ cur = [w \in Workers |-> NULL]
  /\ ready = [w \in Workers |-> {t \in Tasks : Home[t] = w}]
  /\ mailbox = [w \in Workers |-> FALSE]
  /\ waiting = {} /\ left = [t \in Tasks |-> Budget]
  /\ log = [w \in Workers |-> <<>>] /\ aborted = FALSE

Goto(w, l) == pc' = [pc EXCEPT ![w] = l]

(* A loop over i: i goes up to last and the thread stays, or goes on to l. *)
Iterate(w, last, l) ==
  IF i[w] < last
  THEN i' = [i EXCEPT ![w] = @ + 1] /\ UNCHANGED pc
  ELSE i' = [i EXCEPT ![w] = 0] /\ Goto(w, l)

----------------------------------------------------------------------------
(* LpelSpmdHandleRequests *)

(* The local copy of the request at the head; NULL ends the loop.  qhead   *)
(* does not move between its load and the copy (SoleOperator).             *)
CopyRequest(w) ==
  LET req == req_queue[qhead]
  IN  /\ pc[w] = "handle"
      /\ IF req.wctx = NULL
         THEN Goto(w, "pick") /\ UNCHANGED <<slot, curreq>>
         ELSE /\ slot' = [slot EXCEPT ![w] = qhead]
              /\ curreq' = [curreq EXCEPT ![w] = req]
              /\ Goto(w, CASE req.wctx # w -> "enter"
                           [] num_workers = 1 -> "critical"
                           [] OTHER -> "gather")
      /\ UNCHANGED <<queuevars, spmdvars, i, taskvars, log>>

(* The master waits for num_workers - 1 posts, before and after. *)
SemWaitAll(w, l) ==
  /\ sema[w] > 0
  /\ sema' = [sema EXCEPT ![w] = @ - 1]
  /\ Iterate(w, num_workers - 2, l)
  /\ UNCHANGED <<queuevars, pending, slot, curreq, taskvars, log>>

Gather(w) == pc[w] = "gather" /\ SemWaitAll(w, "critical")

(* One step: SoleOperator shows that nobody else is at the queue. *)
CriticalSection(w) ==
  LET head == (slot[w] + 1) % num_workers
  IN  /\ pc[w] = "critical"
      /\ req_queue' = [req_queue EXCEPT ![slot[w]].wctx = NULL]
      /\ qhead' = head
      /\ qtail' = IF qtail >= num_workers THEN qtail % num_workers ELSE qtail
      /\ Goto(w, "signal")
      /\ UNCHANGED <<spmdvars, localvars, taskvars, log>>

(* Mutant: the master signals itself too. *)
SignalAll(w) ==
  /\ pc[w] = "signal"
  /\ sema' = [sema EXCEPT ![i[w]] = @ + 1]
  /\ Iterate(w, num_workers - 1, "execute")
  /\ UNCHANGED <<queuevars, pending, slot, curreq, taskvars, log>>

Signal(w) ==
  /\ pc[w] = "signal"
  /\ sema' = IF i[w] = w THEN sema ELSE [sema EXCEPT ![i[w]] = @ + 1]
  /\ Iterate(w, num_workers - 1, "execute")
  /\ UNCHANGED <<queuevars, pending, slot, curreq, taskvars, log>>

(* Start-Barrier of the others. *)
Enter(w) ==
  /\ pc[w] = "enter"
  /\ sema' = [sema EXCEPT ![curreq[w].wctx] = @ + 1]
  /\ Goto(w, "entered")
  /\ UNCHANGED <<queuevars, pending, localvars, taskvars, log>>

(* Mutant: a worker does not wait for the master's signal. *)
EnteredAtOnce(w) ==
  /\ pc[w] = "entered"
  /\ Goto(w, "execute")
  /\ UNCHANGED <<queuevars, spmdvars, localvars, taskvars, log>>

Entered(w) ==
  /\ pc[w] = "entered" /\ sema[w] > 0
  /\ sema' = [sema EXCEPT ![w] = @ - 1]
  /\ Goto(w, "execute")
  /\ UNCHANGED <<queuevars, pending, localvars, taskvars, log>>

(* The function is executed while pc is "execute"; then the Stop-Barrier.  *)
Executed(w) ==
  /\ pc[w] = "execute"
  /\ log' = [log EXCEPT ![w] = Append(@, curreq[w].wctx)]
  /\ IF curreq[w].wctx = w
     THEN /\ Goto(w, IF num_workers = 1 THEN "wakeup" ELSE "collect")
          /\ UNCHANGED <<sema, slot, curreq>>
     ELSE /\ sema' = [sema EXCEPT ![curreq[w].wctx] = @ + 1]
          /\ slot' = [slot EXCEPT ![w] = 0]
          /\ curreq' = [curreq EXCEPT ![w] = NoReq]
          /\ Goto(w, "handle")
  /\ UNCHANGED <<queuevars, pending, i, taskvars>>

Collect(w) == pc[w] = "collect" /\ SemWaitAll(w, "wakeup")

(* The end of the master's part, with LpelWorkerTaskWakeupLocal. *)
Wakeup(w) ==
  /\ pc[w] = "wakeup" /\ pending[w] = 1 /\ curreq[w].task \in waiting
  /\ pending' = [pending EXCEPT ![w] = 0]
  /\ ready' = [ready EXCEPT ![w] = @ \cup {curreq[w].task}]
  /\ waiting' = waiting \ {curreq[w].task}
  /\ slot' = [slot EXCEPT ![w] = 0]
  /\ curreq' = [curreq EXCEPT ![w] = NoReq]
  /\ Goto(w, "handle")
  /\ UNCHANGED <<queuevars, sema, i, cur, mailbox, left, log>>

GetVId(self_id, master_id) ==
  LET vid == master_id - self_id IN IF vid < 0 THEN vid + num_workers ELSE vid

LpelSpmdVId(w) == GetVId(w, curreq[w].wctx)

----------------------------------------------------------------------------
(* LpelTaskEnterSPMD of the task that runs on w *)

(* Mutant: the slot is not reserved. *)
RequestWithoutReserve(w) ==
  /\ pc[w] = "run" /\ left[cur[w]] > 0 /\ pending[w] = 0
  /\ left' = [left EXCEPT ![cur[w]] = @ - 1]
  /\ pending' = [pending EXCEPT ![w] = 1]
  /\ slot' = [slot EXCEPT ![w] = qtail % num_workers]
  /\ Goto(w, "wctx")
  /\ UNCHANGED <<queuevars, sema, curreq, i, cur, ready, mailbox, waiting, log>>

(* LpelSpmdRequest: the slot, then its fields one after the other. *)
LpelSpmdRequest(w) ==
  /\ pc[w] = "run" /\ left[cur[w]] > 0 /\ pending[w] = 0
  /\ left' = [left EXCEPT ![cur[w]] = @ - 1]
  /\ pending' = [pending EXCEPT ![w] = 1]
  /\ slot' = [slot EXCEPT ![w] = qtail % num_workers]
  /\ qtail' = qtail + 1
  /\ Goto(w, "wctx")
  /\ UNCHANGED <<req_queue, qhead, sema, curreq, i, cur, ready, mailbox,
                 waiting, log>>

SetWctx(w) ==
  /\ pc[w] = "wctx"
  /\ req_queue' = [req_queue EXCEPT ![slot[w]].wctx = w]
  /\ Goto(w, "task")
  /\ UNCHANGED <<qhead, qtail, spmdvars, localvars, taskvars, log>>

SetTask(w) ==
  /\ pc[w] = "task"
  /\ req_queue' = [req_queue EXCEPT ![slot[w]].task = cur[w]]
  /\ slot' = [slot EXCEPT ![w] = 0]
  /\ Goto(w, "broadcast")
  /\ UNCHANGED <<qhead, qtail, spmdvars, curreq, i, taskvars, log>>

(* Mutant: the last worker gets no message. *)
BroadcastMissesLast(w) ==
  /\ pc[w] = "broadcast"
  /\ mailbox' = [mailbox EXCEPT ![i[w]] = @ \/ i[w] # num_workers - 1]
  /\ waiting' = IF i[w] = num_workers - 1 THEN waiting \cup {cur[w]} ELSE waiting
  /\ Iterate(w, num_workers - 1, "fetch")
  /\ UNCHANGED <<queuevars, spmdvars, slot, curreq, cur, ready, left, log>>

(* After the last message the task blocks. *)
LpelWorkerBroadcast(w) ==
  /\ pc[w] = "broadcast"
  /\ mailbox' = [mailbox EXCEPT ![i[w]] = TRUE]
  /\ waiting' = IF i[w] = num_workers - 1 THEN waiting \cup {cur[w]} ELSE waiting
  /\ Iterate(w, num_workers - 1, "fetch")
  /\ UNCHANGED <<queuevars, spmdvars, slot, curreq, cur, ready, left, log>>

LpelTaskExit(w) ==
  /\ pc[w] = "run"
  /\ Goto(w, "fetch")
  /\ UNCHANGED <<queuevars, spmdvars, localvars, taskvars, log>>

----------------------------------------------------------------------------
(* The worker: WorkerLoop, LpelWorkerDispatcher *)

FetchAllMessages(w) ==
  /\ pc[w] = "fetch"
  /\ mailbox' = [mailbox EXCEPT ![w] = FALSE]
  /\ Goto(w, "handle")
  /\ UNCHANGED <<queuevars, spmdvars, localvars, cur, ready, waiting, left, log>>

(* The next task; without one, from the dispatcher back to the loop, and   *)
(* from the loop to wait for a message.                                    *)
Pick(w) ==
  /\ pc[w] = "pick"
  /\ \/ \E t \in ready[w] : /\ cur' = [cur EXCEPT ![w] = t]
                            /\ ready' = [ready EXCEPT ![w] = @ \ {t}]
                            /\ Goto(w, "run")
     \/ /\ ready[w] = {}
        /\ cur' = [cur EXCEPT ![w] = NULL]
        /\ Goto(w, IF cur[w] = NULL THEN "wait" ELSE "fetch")
        /\ UNCHANGED ready
  /\ UNCHANGED <<queuevars, spmdvars, localvars, mailbox, waiting, left, log>>

(* The message received has no effect: FetchAllMessages follows. *)
WaitForNewMessage(w) ==
  /\ pc[w] = "wait" /\ mailbox[w]
  /\ Goto(w, "fetch")
  /\ UNCHANGED <<queuevars, spmdvars, localvars, taskvars, log>>

----------------------------------------------------------------------------
HandleRequests(w) ==
  \/ CopyRequest(w) \/ Gather(w) \/ CriticalSection(w) \/ Signal(w)
  \/ Enter(w) \/ Entered(w) \/ Executed(w) \/ Collect(w) \/ Wakeup(w)

(* The assertions of LpelSpmdRequest and of the master's Stop-Barrier. *)
Abort(w) ==
  /\ \/ pc[w] = "run" /\ left[cur[w]] > 0 /\ pending[w] # 0
     \/ pc[w] = "wakeup" /\ (pending[w] # 1 \/ curreq[w].task \notin waiting)
  /\ aborted' = TRUE
  /\ UNCHANGED <<queuevars, spmdvars, pc, localvars, taskvars, log>>

Step(w) ==
  \/ /\ \/ HandleRequests(w) \/ LpelSpmdRequest(w) \/ SetWctx(w) \/ SetTask(w)
        \/ LpelWorkerBroadcast(w) \/ LpelTaskExit(w) \/ FetchAllMessages(w)
        \/ Pick(w) \/ WaitForNewMessage(w)
     /\ UNCHANGED aborted
  \/ Abort(w)

(* Nothing is left to do, or the program has aborted. *)
Idle ==
  /\ aborted \/ (waiting = {} /\ \A w \in Workers : pc[w] = "wait"
                                                   /\ ~mailbox[w])
  /\ UNCHANGED vars

Next == (~aborted /\ \E w \in Workers : Step(w)) \/ Idle

Spec == Init /\ [][Next]_vars

(* Every worker thread runs. *)
FairSpec == Spec /\ \A w \in Workers : WF_vars(~aborted /\ Step(w))

----------------------------------------------------------------------------
(* Correctness *)

(* "now master is the sole thread operating on the queue"                  *)
(* (LpelSpmdHandleRequests): when the master is past the Start-Barrier,    *)
(* every other worker waits for it at the request that is at the head,     *)
(* although a semaphore also takes posts meant for other requests.         *)
SoleOperator ==
  \A w \in Workers : pc[w] = "critical" =>
    /\ slot[w] = qhead
    /\ \A v \in Workers \ {w} : pc[v] = "entered" /\ curreq[v].wctx = w

(* "a fixed queue size of num_workers is sufficient" (req_queue): the slot *)
(* that a request is put in is not in use.                                 *)
SlotIsFree ==
  \A w \in Workers : pc[w] = "wctx" =>
    /\ req_queue[slot[w]].wctx = NULL
    /\ \A v \in Workers \ {w} : pc[v] = "wctx" => slot[v] # slot[w]

(* The workers execute the same requests in the same order, one at a time: *)
(* those inside the barriers have the same master, whose virtual id is 0,  *)
(* and ids that differ (LpelSpmdVId).                                      *)
SameRequests ==
  /\ \A v, w \in Workers : \A k \in DOMAIN log[v] \cap DOMAIN log[w] :
       log[v][k] = log[w][k]
  /\ \A v, w \in Workers : pc[v] = "execute" /\ pc[w] = "execute" /\ v # w =>
       /\ curreq[v].wctx = curreq[w].wctx
       /\ LpelSpmdVId(v) # LpelSpmdVId(w)
       /\ LpelSpmdVId(v) = 0 <=> curreq[v].wctx = v

(* A task that entered an SPMD request goes on, unless an assertion fails: *)
(* the barriers do not block and no worker sleeps through a request.       *)
RequestServed == \A t \in Tasks : t \in waiting ~> (t \notin waiting \/ aborted)

(* "handle all pending requests!" before a task is executed                *)
(* (LpelWorkerDispatcher), so that a worker has one request at most: the   *)
(* assertions of LpelSpmdRequest and LpelSpmdHandleRequests hold.          *)
NeverAborts == ~aborted
=============================================================================
