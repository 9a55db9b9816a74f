----------------------------- MODULE DecenWorker -----------------------------
(***************************************************************************)
(* Workers and wrappers of the decentralised scheduler, and the life of a  *)
(* task on them (decen_worker.c, decen_task.c, decen_scheduler.c,          *)
(* task_migration.c).                                                      *)
(*                                                                         *)
(* A worker or wrapper is one thread.  It runs on its own stack (its loop) *)
(* or on the stack of a task: a task that blocks, yields or exits runs the *)
(* dispatcher on its own stack, handles the messages of its worker there,  *)
(* and switches straight to the next ready task.                           *)
(*                                                                         *)
(* A step is one access to what threads share (the mailboxes, which are    *)
(* the queues of MailboxSpec) with the accesses to the thread's own data   *)
(* that follow.  What tasks do with streams is the contract of TaskPark:   *)
(* park[t] is "parking" from the atomic operation by which t finds that it *)
(* must wait, and one other task then unblocks it.                         *)
(***************************************************************************)
EXTENDS Integers, Sequences, FiniteSets, Functions

CONSTANTS
  num_workers,  \* worker ids are 0 .. num_workers - 1
  Wrappers,     \* negative ids; a wrapper serves one task
  Tasks, NULL,
  Home,         \* the worker argument of LpelTaskCreate
  Prio,         \* sched_info.prio
  NumPrio,      \* SCHED_NUM_PRIO
  Mechanisms,   \* what tm_conf.mechanism may be
  StopEarly,    \* LpelStop may be called while tasks are still running
  Budget        \* bound: how often a task blocks, yields or migrates

Workers == 0 .. num_workers - 1
Ctx == Workers \cup Wrappers

ASSUME WorkerAssumption ==
  /\ num_workers \in Nat \ {0}
  /\ \A c \in Wrappers : c \in Int /\ c < 0
  /\ NULL \notin Tasks /\ IsFiniteSet(Tasks)
  /\ Home \in [Tasks -> Ctx]
  /\ \A t, u \in Tasks : Home[t] = Home[u] /\ Home[t] < 0 => t = u
  /\ Prio \in [Tasks -> Int] /\ NumPrio \in Nat \ {0}
  /\ Mechanisms \subseteq {"none", "rand", "wait_prop"}
  /\ StopEarly \in BOOLEAN /\ Budget \in Nat

VARIABLES
  mechanism,                  \* of migration, fixed at the start
  mailbox, queue,             \* messages; ready tasks by priority
  num_tasks, terminate,       \* workerctx_t
  marked_del, wraptask, migrated,
  pc, on,                     \* of a thread; the task whose stack it is on
  state, worker_context,      \* lpel_task_t
  freed,                      \* the task has been destroyed
  park, left,                 \* contract with the streams; budget left
  started, stopped            \* tasks started; workers told to terminate

workervars == <<num_tasks, terminate, marked_del, wraptask, migrated>>
taskvars == <<state, worker_context, freed>>
envvars == <<mechanism, park, left, started, stopped>>
vars == <<mailbox, queue, workervars, pc, on, taskvars, envvars>>

Msg(type, t) == [type |-> type, task |-> t]

(* A wrapper is created with its task (LpelWorkerGetContext). *)
LpelTaskCreate ==
  /\ state = [t \in Tasks |-> "CREATED"]
  /\ worker_context = Home

LpelSchedCreate == [p \in 0 .. NumPrio - 1 |-> <<>>]

(* LpelTaskMigrationInit, LpelWorkersInit and LpelWorkersSpawn; the tasks  *)
(* of the program.                                                         *)
Init ==
  /\ mechanism \in Mechanisms
  /\ LpelTaskCreate
  /\ mailbox = [c \in Ctx |-> <<>>]
  /\ queue = [c \in Ctx |-> LpelSchedCreate]
  /\ num_tasks = [c \in Ctx |-> 0]
  /\ terminate = [c \in Ctx |-> FALSE]
  /\ marked_del = [c \in Ctx |-> NULL]
  /\ wraptask = [c \in Ctx |-> NULL]
  /\ migrated = [c \in Ctx |-> NULL]
  /\ pc = [c \in Ctx |-> "loop"]
  /\ on = [c \in Ctx |-> NULL]
  /\ freed = {}
  /\ park = [t \in Tasks |-> "running"]
  /\ left = [t \in Tasks |-> Budget]
  /\ started = {}
  /\ stopped = {}

----------------------------------------------------------------------------
(* Scheduler *)

(* Mutant: the priority is not clamped. *)
MakeReadyUnclamped(c, t) == queue' = [queue EXCEPT ![c][Prio[t]] = Append(@, t)]

LpelSchedMakeReady(c, t) ==
  LET p == IF Prio[t] < 0 THEN 0
           ELSE IF Prio[t] >= NumPrio THEN NumPrio - 1 ELSE Prio[t]
  IN  queue' = [queue EXCEPT ![c][p] = Append(@, t)]

Nonempty(c) == {p \in 0 .. NumPrio - 1 : queue[c][p] # <<>>}

(* The longest waiting task of the highest priority. *)
LpelSchedFetchReady(c, t) ==
  \E p \in Nonempty(c) :
    /\ \A q \in Nonempty(c) : q <= p
    /\ t = Head(queue[c][p])
    /\ queue' = [queue EXCEPT ![c][p] = Tail(@)]

(* LpelPickTargetWorker under LPEL_MIG_WAIT_PROP: the callers take only a  *)
(* positive id for a worker to migrate to.                                 *)
WaitPropTargets == {w \in Workers : mechanism = "wait_prop" /\ w > 0}

(* A task that has become ready goes to the queue of its worker, or to     *)
(* another worker.  mb: the mailboxes when it is called.                   *)
LpelWorkerMakeTaskReady(t, mb) ==
  LET wc == worker_context[t]
  IN  \/ /\ LpelSchedMakeReady(wc, t)
         /\ mailbox' = mb
         /\ UNCHANGED <<worker_context, num_tasks>>
      \/ \E target \in WaitPropTargets \ {wc} :
           /\ worker_context' = [worker_context EXCEPT ![t] = target]
           /\ num_tasks' = [num_tasks EXCEPT ![wc] = @ - 1]
           /\ mailbox' = [mb EXCEPT ![target] = Append(@, Msg("ASSIGN", t))]
           /\ UNCHANGED queue

----------------------------------------------------------------------------
(* The thread of a worker or wrapper *)

(* ProcessMessage of the first message of c's mailbox. *)
ProcessWakeup(c) ==
  LET t == Head(mailbox[c]).task
      mb == [mailbox EXCEPT ![c] = Tail(@)]
  IN  /\ Head(mailbox[c]).type = "WAKEUP"
      /\ state' = [state EXCEPT ![t] = "READY"]
      /\ IF c < 0
         THEN /\ wraptask' = [wraptask EXCEPT ![c] = t]
              /\ mailbox' = mb
              /\ UNCHANGED <<queue, num_tasks, worker_context>>
         ELSE LpelWorkerMakeTaskReady(t, mb) /\ UNCHANGED wraptask
      /\ UNCHANGED terminate

(* Mutant: the task is not counted. *)
AssignUncounted(c) ==
  LET t == Head(mailbox[c]).task
  IN  /\ Head(mailbox[c]).type = "ASSIGN"
      /\ mailbox' = [mailbox EXCEPT ![c] = Tail(@)]
      /\ state' = [state EXCEPT ![t] = "READY"]
      /\ IF c < 0
         THEN wraptask' = [wraptask EXCEPT ![c] = t] /\ UNCHANGED queue
         ELSE LpelSchedMakeReady(c, t) /\ UNCHANGED wraptask
      /\ UNCHANGED <<num_tasks, terminate, worker_context>>

ProcessAssign(c) ==
  LET t == Head(mailbox[c]).task
  IN  /\ Head(mailbox[c]).type = "ASSIGN"
      /\ mailbox' = [mailbox EXCEPT ![c] = Tail(@)]
      /\ state' = [state EXCEPT ![t] = "READY"]
      /\ num_tasks' = [num_tasks EXCEPT ![c] = @ + 1]
      /\ IF c < 0
         THEN wraptask' = [wraptask EXCEPT ![c] = t] /\ UNCHANGED queue
         ELSE LpelSchedMakeReady(c, t) /\ UNCHANGED wraptask
      /\ UNCHANGED <<terminate, worker_context>>

ProcessTerminate(c) ==
  /\ Head(mailbox[c]).type = "TERMINATE"
  /\ mailbox' = [mailbox EXCEPT ![c] = Tail(@)]
  /\ terminate' = [terminate EXCEPT ![c] = TRUE]
  /\ UNCHANGED <<queue, num_tasks, wraptask, state, worker_context>>

ProcessMessage(c) ==
  /\ mailbox[c] # <<>>
  /\ ProcessWakeup(c) \/ ProcessAssign(c) \/ ProcessTerminate(c)

(* FetchAllMessages, in the loop and in the dispatcher of a worker. *)
FetchMessage(c) ==
  /\ pc[c] = "fetch" \/ (pc[c] = "disp" /\ c >= 0)
  /\ ProcessMessage(c)
  /\ UNCHANGED <<marked_del, migrated, pc, on, freed, envvars>>

WaitForNewMessage(c) ==
  /\ pc[c] = "wait"
  /\ ProcessMessage(c)
  /\ pc' = [pc EXCEPT ![c] = "fetch"]
  /\ UNCHANGED <<marked_del, migrated, on, freed, envvars>>

(* mctx_switch to task t, which goes on with TaskStart. *)
SwitchTo(c, t) ==
  /\ on' = [on EXCEPT ![c] = t]
  /\ pc' = [pc EXCEPT ![c] = "run"]
  /\ state' = [state EXCEPT ![t] = "RUNNING"]
  /\ park' = [park EXCEPT ![t] = "running"]

(* mctx_switch to the loop of c. *)
SwitchToLoop(c) ==
  /\ on' = [on EXCEPT ![c] = NULL]
  /\ pc' = [pc EXCEPT ![c] = "back"]

(* The top of WorkerLoop and of WrapperLoop. *)
LoopRun(c) ==
  /\ pc[c] = "loop"
  /\ \/ /\ c >= 0
        /\ \E t \in Tasks : LpelSchedFetchReady(c, t) /\ SwitchTo(c, t)
        /\ UNCHANGED wraptask
     \/ /\ c < 0 /\ wraptask[c] # NULL
        /\ SwitchTo(c, wraptask[c])
        /\ wraptask' = [wraptask EXCEPT ![c] = NULL]
        /\ UNCHANGED queue
  /\ UNCHANGED <<mailbox, num_tasks, terminate, marked_del, migrated,
                 worker_context, freed, mechanism, left, started, stopped>>

LoopIdle(c) ==
  /\ pc[c] = "loop"
  /\ IF c >= 0 THEN Nonempty(c) = {} ELSE wraptask[c] = NULL
  /\ pc' = [pc EXCEPT ![c] = "wait"]
  /\ UNCHANGED <<mailbox, queue, workervars, on, taskvars, envvars>>

(* The TCB and the stack of a task are freed. *)
LpelTaskDestroy(t) == freed' = freed \cup ({t} \ {NULL})

(* Mutant: the task is destroyed at once. *)
CleanupAtOnce(c, t) ==
  /\ LpelTaskDestroy(t)
  /\ UNCHANGED marked_del

(* Deferred deletion: the task marked before goes, t takes its place. *)
CleanupTaskContext(c, t) ==
  /\ LpelTaskDestroy(marked_del[c])
  /\ marked_del' = [marked_del EXCEPT ![c] = t]

(* Mutant: the loop does not clean up. *)
LoopBackWithoutCleanup(c) ==
  LET t == migrated[c]
  IN  /\ pc[c] = "back"
      /\ IF c >= 0 /\ t # NULL
         THEN /\ mailbox' = [mailbox EXCEPT ![worker_context[t]] =
                               Append(@, Msg("ASSIGN", t))]
              /\ num_tasks' = [num_tasks EXCEPT ![c] = @ - 1]
              /\ migrated' = [migrated EXCEPT ![c] = NULL]
         ELSE UNCHANGED <<mailbox, num_tasks, migrated>>
      /\ pc' = [pc EXCEPT ![c] = "fetch"]
      /\ UNCHANGED <<queue, terminate, marked_del, wraptask, on, taskvars,
                     envvars>>

(* Back on the stack of the loop. *)
LoopBack(c) ==
  LET t == migrated[c]
  IN  /\ pc[c] = "back"
      /\ IF c >= 0 /\ t # NULL
         THEN /\ mailbox' = [mailbox EXCEPT ![worker_context[t]] =
                               Append(@, Msg("ASSIGN", t))]
              /\ num_tasks' = [num_tasks EXCEPT ![c] = @ - 1]
              /\ migrated' = [migrated EXCEPT ![c] = NULL]
         ELSE UNCHANGED <<mailbox, num_tasks, migrated>>
      /\ IF c >= 0 THEN CleanupTaskContext(c, NULL)
                   ELSE UNCHANGED <<freed, marked_del>>
      /\ pc' = [pc EXCEPT ![c] = "fetch"]
      /\ UNCHANGED <<queue, terminate, wraptask, on, state, worker_context,
                     envvars>>

(* The bottom of the loop: go round, or leave it for good. *)
LoopAgain(c) ==
  /\ pc[c] = "fetch" /\ mailbox[c] = <<>>
  /\ ~(terminate[c] /\ (c >= 0 => num_tasks[c] = 0))
  /\ pc' = [pc EXCEPT ![c] = "loop"]
  /\ UNCHANGED <<mailbox, queue, workervars, on, taskvars, envvars>>

LoopExit(c) ==
  /\ pc[c] = "fetch" /\ mailbox[c] = <<>>
  /\ terminate[c] /\ (c >= 0 => num_tasks[c] = 0)
  /\ pc' = [pc EXCEPT ![c] = "exit"]
  /\ IF c < 0 THEN CleanupTaskContext(c, NULL)
              ELSE UNCHANGED <<freed, marked_del>>
  /\ UNCHANGED <<mailbox, queue, num_tasks, terminate, wraptask, migrated, on,
                 state, worker_context, envvars>>

(* LpelWorkerDispatcher when all messages are handled; next may be the     *)
(* task itself. A wrapper goes back to its loop at once.                   *)
LpelWorkerDispatcher(c) ==
  /\ pc[c] = "disp" /\ (c >= 0 => mailbox[c] = <<>>)
  /\ \/ /\ c >= 0
        /\ \E next \in Tasks : LpelSchedFetchReady(c, next) /\ SwitchTo(c, next)
     \/ /\ c < 0 \/ Nonempty(c) = {}
        /\ SwitchToLoop(c)
        /\ UNCHANGED <<queue, state, park>>
  /\ UNCHANGED <<mailbox, workervars, worker_context, freed, mechanism, left,
                 started, stopped>>

----------------------------------------------------------------------------
(* Tasks *)

(* t runs, on the thread of c. *)
Runs(c, t) == pc[c] = "run" /\ on[c] = t

(* Some other task is left to unblock those that wait: the streams do not  *)
(* let all tasks of a program wait for one another.                        *)
OthersCan(t) ==
  \E u \in Tasks \ {t} : park[u] # "parking" /\ state[u] # "ZOMBIE"

(* t finds that it must wait: P on a semaphore of a stream, or the token   *)
(* given away in LpelStreamPoll.                                           *)
Decide(c, t) ==
  /\ Runs(c, t) /\ park[t] = "running" /\ left[t] > 0 /\ OthersCan(t)
  /\ park' = [park EXCEPT ![t] = "parking"]
  /\ left' = [left EXCEPT ![t] = @ - 1]
  /\ UNCHANGED <<mailbox, queue, workervars, pc, on, taskvars, mechanism,
                 started, stopped>>

(* Mutants: the state is not set; the task is made ready, as in a yield. *)
BlockWithoutState(c, t) ==
  /\ Runs(c, t) /\ park[t] # "running"
  /\ pc' = [pc EXCEPT ![c] = "disp"]
  /\ UNCHANGED <<mailbox, queue, workervars, on, taskvars, envvars>>

BlockAsYield(c, t) ==
  /\ Runs(c, t) /\ park[t] # "running"
  /\ state' = [state EXCEPT ![t] = "READY"]
  /\ LpelSchedMakeReady(c, t)
  /\ pc' = [pc EXCEPT ![c] = "disp"]
  /\ UNCHANGED <<mailbox, workervars, on, worker_context, freed, envvars>>

LpelTaskBlockStream(c, t) ==
  /\ Runs(c, t) /\ park[t] # "running"
  /\ state' = [state EXCEPT ![t] = "BLOCKED"]
  /\ pc' = [pc EXCEPT ![c] = "disp"]
  /\ UNCHANGED <<mailbox, queue, workervars, on, worker_context, freed, envvars>>

(* LpelTaskUnblock and LpelWorkerTaskWakeup: a message, or directly when   *)
(* both tasks are on this worker.                                          *)
LpelTaskUnblock(c, t, whom) ==
  LET wc == worker_context[whom]
  IN  /\ Runs(c, t) /\ park[t] = "running" /\ park[whom] = "parking"
      /\ park' = [park EXCEPT ![whom] = "granted"]
      /\ IF wc < 0 \/ worker_context[t] # wc
         THEN /\ mailbox' = [mailbox EXCEPT ![wc] =
                               Append(@, Msg("WAKEUP", whom))]
              /\ UNCHANGED <<queue, num_tasks, state, worker_context>>
         ELSE /\ state' = [state EXCEPT ![whom] = "READY"]
              /\ LpelWorkerMakeTaskReady(whom, mailbox)
      /\ UNCHANGED <<terminate, marked_del, wraptask, migrated, pc, on, freed,
                     mechanism, left, started, stopped>>

(* LpelWorkerSelfTaskMigrate: the loop sends the task away. *)
LpelWorkerSelfTaskMigrate(c, t, target) ==
  /\ worker_context' = [worker_context EXCEPT ![t] = target]
  /\ migrated' = [migrated EXCEPT ![c] = t]
  /\ SwitchToLoop(c)

LpelWorkerSelfTaskYield(c, t) ==
  IF c < 0 THEN wraptask' = [wraptask EXCEPT ![c] = t] /\ UNCHANGED queue
           ELSE LpelSchedMakeReady(c, t) /\ UNCHANGED wraptask

(* A yield that migrates does not pass through the ready queue.  A target  *)
(* that is the task's own worker changes nothing.                          *)
LpelTaskYield(c, t) ==
  /\ Runs(c, t) /\ park[t] = "running" /\ left[t] > 0
  /\ left' = [left EXCEPT ![t] = @ - 1]
  /\ state' = [state EXCEPT ![t] = "READY"]
  /\ \/ /\ \E target \in WaitPropTargets \ {c} :
             LpelWorkerSelfTaskMigrate(c, t, target)
        /\ UNCHANGED <<queue, wraptask>>
     \/ /\ LpelWorkerSelfTaskYield(c, t)
        /\ pc' = [pc EXCEPT ![c] = "disp"]
        /\ UNCHANGED <<on, worker_context, migrated>>
  /\ UNCHANGED <<mailbox, num_tasks, terminate, marked_del, freed, mechanism,
                 park, started, stopped>>

(* LPEL_MIG_RAND: tasks on wrappers stay. *)
LpelTaskCheckMigrate(c, t) ==
  /\ Runs(c, t) /\ park[t] = "running" /\ left[t] > 0
  /\ mechanism = "rand" /\ c >= 0
  /\ \E target \in Workers \ {c} : LpelWorkerSelfTaskMigrate(c, t, target)
  /\ state' = [state EXCEPT ![t] = "READY"]
  /\ left' = [left EXCEPT ![t] = @ - 1]
  /\ UNCHANGED <<mailbox, queue, num_tasks, terminate, marked_del, wraptask,
                 freed, mechanism, park, started, stopped>>

(* A wrapper may leave with its task. *)
LpelWorkerSelfTaskExit(c, t) ==
  /\ CleanupTaskContext(c, t)
  /\ num_tasks' = [num_tasks EXCEPT ![c] = @ - 1]
  /\ terminate' = [terminate EXCEPT ![c] = @ \/ c < 0]

(* LpelTaskExit, or the return of the task function. *)
LpelTaskExit(c, t) ==
  /\ Runs(c, t) /\ park[t] = "running"
  /\ OthersCan(t) \/ \A u \in Tasks : park[u] # "parking"
  /\ state' = [state EXCEPT ![t] = "ZOMBIE"]
  /\ LpelWorkerSelfTaskExit(c, t)
  /\ pc' = [pc EXCEPT ![c] = "disp"]
  /\ UNCHANGED <<mailbox, queue, wraptask, migrated, on, worker_context, envvars>>

----------------------------------------------------------------------------
(* The program that uses LPEL *)

LpelTaskStart(t) ==
  /\ t \notin started
  /\ mailbox' = [mailbox EXCEPT ![worker_context[t]] =
                   Append(@, Msg("ASSIGN", t))]
  /\ started' = started \cup {t}
  /\ UNCHANGED <<queue, workervars, pc, on, taskvars, mechanism, park, left,
                 stopped>>

(* LpelStop tells the workers one after the other, after the last task has *)
(* been started: workers finish their tasks before they leave.             *)
LpelStop(w) ==
  /\ started = Tasks /\ (StopEarly \/ \A t \in Tasks : state[t] = "ZOMBIE")
  /\ w \notin stopped /\ \A v \in Workers : v < w => v \in stopped
  /\ mailbox' = [mailbox EXCEPT ![w] = Append(@, Msg("TERMINATE", NULL))]
  /\ stopped' = stopped \cup {w}
  /\ UNCHANGED <<queue, workervars, pc, on, taskvars, mechanism, park, left,
                 started>>

Done == (\A c \in Ctx : pc[c] = "exit") /\ UNCHANGED vars

----------------------------------------------------------------------------
Loop(c) ==
  \/ FetchMessage(c) \/ WaitForNewMessage(c) \/ LpelWorkerDispatcher(c)
  \/ LoopRun(c) \/ LoopIdle(c) \/ LoopBack(c) \/ LoopAgain(c) \/ LoopExit(c)

TaskStep(c, t) ==
  \/ Decide(c, t) \/ LpelTaskBlockStream(c, t)
  \/ \E whom \in Tasks : LpelTaskUnblock(c, t, whom)
  \/ LpelTaskYield(c, t) \/ LpelTaskCheckMigrate(c, t) \/ LpelTaskExit(c, t)

Program ==
  \/ \E t \in Tasks : LpelTaskStart(t)
  \/ \E w \in Workers : LpelStop(w)

Next ==
  \/ \E c \in Ctx : Loop(c) \/ \E t \in Tasks : TaskStep(c, t)
  \/ Program
  \/ Done

Spec == Init /\ [][Next]_vars

(* Every thread runs, a running task goes on (it may yield or block Budget *)
(* times and unblock others before it exits), and the program stops LPEL.  *)
FairSpec ==
  /\ Spec /\ WF_vars(Program)
  /\ \A c \in Ctx : WF_vars(Loop(c) \/ \E t \in Tasks : TaskStep(c, t))

----------------------------------------------------------------------------
(* Correctness *)

Times(x, s) == Cardinality({i \in DOMAIN s : s[i] = x})

(* Where a task can be found: the threads that run it, the ready queues,   *)
(* the wrappers and the loops that are about to take it up or send it      *)
(* away, and the mailboxes that hold a message about it.                   *)
Runners(t) == {c \in Ctx : Runs(c, t)}
Queues(t) == {c \in Ctx : \E p \in 0 .. NumPrio - 1 : t \in Range(queue[c][p])}
Where(f, t) == {c \in Ctx : f[c] = t}
Wraps(t) == Where(wraptask, t)
Leaves(t) == Where(migrated, t)
Holders(mb, m) == {c \in Ctx : m \in Range(mb[c])}
Assigns(t) == Holders(mailbox, Msg("ASSIGN", t))

(* No two threads are on the stack of one task, and no thread is on the    *)
(* stack of a task that has been destroyed: the dispatcher of a task that  *)
(* blocked handles the message that wakes it, and another worker may get   *)
(* the task before this thread has left its stack.                         *)
OneThreadPerStack ==
  /\ \A c, d \in Ctx : on[c] = on[d] /\ c # d => on[c] = NULL
  /\ \A c \in Ctx : on[c] \notin freed

(* The assertion of ProcessMessage and LpelWorkerTaskWakeup: a task that   *)
(* is woken is not ready yet.  It has always called LpelTaskBlockStream    *)
(* before the message that wakes it is handled, although it may be sent    *)
(* before that.                                                            *)
WokenTaskIsBlocked ==
  /\ \A c \in Ctx : \A t \in Tasks :
       /\ mailbox[c] # <<>> /\ Head(mailbox[c]) = Msg("WAKEUP", t)
       /\ pc[c] \in {"fetch", "wait"} \/ (pc[c] = "disp" /\ c >= 0)
       => state[t] = "BLOCKED"
  /\ \A c \in Ctx : \A t, u \in Tasks :
       /\ Runs(c, t) /\ park[t] = "running" /\ park[u] = "parking"
       /\ worker_context[u] = worker_context[t]
       => state[u] = "BLOCKED"

Places(t) ==
  ({"run"} \X Runners(t)) \cup ({"queue"} \X Queues(t))
  \cup ({"wrap"} \X Wraps(t)) \cup ({"migrated"} \X Leaves(t))
  \cup ({"assign"} \X Assigns(t))

(* A started task that can run is in one place, so that no task is run     *)
(* twice and none is forgotten; a task that waits is in no queue, and the  *)
(* message that wakes it is on its way once and to its own worker.         *)
NoTaskLost ==
  /\ \A t \in started :
       LET waits == state[t] = "BLOCKED"
       IN  Cardinality(Places(t)) = IF waits \/ state[t] = "ZOMBIE" THEN 0 ELSE 1
  /\ \A t \in Tasks : \A c \in Ctx :
       Times(Msg("WAKEUP", t), mailbox[c]) =
         IF /\ park[t] = "granted" /\ worker_context[t] = c
            /\ state[t] \in {"RUNNING", "BLOCKED"}
         THEN 1 ELSE 0

(* The tasks that w has taken up and neither finished nor sent away. *)
TasksOf(w) ==
  {t \in Tasks : /\ state[t] \notin {"CREATED", "ZOMBIE"}
                 /\ w \in Leaves(t) \/ worker_context[t] = w
                 /\ Leaves(t) \subseteq {w} /\ Assigns(t) = {}}

(* num_tasks is the number of tasks that a worker still has to bring to    *)
(* their end, so that a worker with num_tasks = 0 may leave.               *)
Accounted == \A w \in Workers : num_tasks[w] = Cardinality(TasksOf(w))

(* A worker that has left leaves nothing behind: the assertions of         *)
(* LpelMailboxDestroy (mbox->list_inbox == NULL) and LpelSchedDestroy      *)
(* (count == 0) hold when LpelWorkersCleanup runs, and every task it had   *)
(* has been destroyed.                                                     *)
NothingLeftBehind ==
  \A c \in Ctx : pc[c] = "exit" =>
    /\ mailbox[c] = <<>> /\ Nonempty(c) = {} /\ wraptask[c] = NULL
    /\ marked_del[c] = NULL

(* The workers keep the contract of TaskPark: a task that blocked runs     *)
(* again after it was unblocked, and only then.                            *)
Park == INSTANCE TaskPark
ImplementsPark == Park!FairSpec

(* When LPEL is stopped, every task has run to its end and been destroyed, *)
(* and every thread has left.                                              *)
Shutdown == <>(freed = Tasks /\ \A c \in Ctx : pc[c] = "exit")
=============================================================================
