------------------------------ MODULE HrcWorker ------------------------------
(***************************************************************************)
(* Master, workers and wrappers of the hierarchical scheduler, and the     *)
(* life of a task on them (hrc_worker_op.c, hrc_worker_init.c, hrc_task.c).*)
(*                                                                         *)
(* The master is one thread that owns the queue of ready tasks.  A worker  *)
(* asks it for a task, runs it and returns it; a task that stops running   *)
(* asks for the worker's next task before it leaves, so that the request   *)
(* of a worker comes before the return of its task.  A wrapper is a thread *)
(* of one task; wrappers are reused.                                       *)
(*                                                                         *)
(* A step is the handling of one message, or one operation of a task: the  *)
(* mailboxes (queues, as in MailboxSpec) are all that the threads share,   *)
(* but for the fields of a task, which its holder writes.  ready_tasks is  *)
(* a set, whose head is any task that comparePrior may rank first: a valid *)
(* one if there is one, see HrcTaskqueue.  The streams keep the contract   *)
(* of TaskPark, as in DecenWorker.                                         *)
(***************************************************************************)
EXTENDS Integers, Sequences, FiniteSets, Functions

CONSTANTS
  num_workers,  \* worker ids are 0 .. num_workers - 1
  Wrappers,     \* negative ids of the wrapper contexts
  Tasks, NULL,
  Wrapped,      \* tasks not created with LPEL_MAP_MASTER
  Entry,        \* tasks that the limit on negative demand applies to
  Feeds,        \* the consumer of an entry task's output
  InOrder,      \* a consumer exits after the tasks that feed it
  StopEarly,    \* LpelStop may be called while tasks are still running
  Budget        \* bound: how often a task blocks, yields or exceeds the limit

Workers == 0 .. num_workers - 1
Ctx == Workers \cup Wrappers

ASSUME HrcAssumption ==
  /\ num_workers \in Nat \ {0}
  /\ \A c \in Wrappers : c \in Int /\ c < 0
  /\ NULL \notin Tasks /\ NULL \notin Ctx
  /\ Wrapped \subseteq Tasks /\ Entry \subseteq Tasks \ Wrapped
  /\ Feeds \in [Entry -> Tasks] /\ InOrder \in BOOLEAN
  /\ StopEarly \in BOOLEAN /\ Budget \in [Tasks -> Nat]

VARIABLES
  mastermb, mailbox,          \* messages to the master; to a worker or wrapper
  ready_tasks, waitworkers,   \* masterctx_t
  mterminate, mpc,            \* terminate of the master, and where it is
  pc, on,                     \* of a thread; the task whose stack it is on
  current_task,               \* workerctx_t
  freewrappers, unused,       \* free list (a stack); wrappers not yet allocated
  state, worker_context,      \* lpel_task_t
  wakenup, valid,
  freed,                      \* the task has been destroyed
  park, left,                 \* contract with the streams; budget left
  over,                       \* entry tasks with more output than the limit
  started, stopped            \* tasks started; LpelStop has been called

mastervars == <<ready_tasks, waitworkers, mterminate, mpc>>
ctxvars == <<pc, on, current_task, freewrappers, unused>>
taskvars == <<state, worker_context, wakenup, valid, freed>>
envvars == <<park, over, left, started, stopped>>
vars == <<mastermb, mailbox, mastervars, ctxvars, taskvars, envvars>>

Msg(type, body) == [type |-> type, body |-> body]

initLocalVar ==
  /\ freewrappers = <<>> /\ unused = Wrappers
  /\ mastermb = <<>> /\ mailbox = [c \in Ctx |-> <<>>]

LpelTaskCreate ==
  /\ state = [t \in Tasks |-> "CREATED"]
  /\ worker_context = [t \in Tasks |-> NULL]
  /\ wakenup = [t \in Tasks |-> FALSE]
  /\ valid = [t \in Tasks |-> TRUE]

(* LpelWorkersInit and LpelWorkersSpawn; the tasks of the program. *)
Init ==
  /\ initLocalVar /\ LpelTaskCreate
  /\ ready_tasks = {}
  /\ waitworkers = {}
  /\ mterminate = FALSE
  /\ mpc = "loop"
  /\ pc = [c \in Ctx |-> IF c >= 0 THEN "start" ELSE "exit"]
  /\ on = [c \in Ctx |-> NULL]
  /\ current_task = [c \in Ctx |-> NULL]
  /\ over = {}
  /\ freed = {}
  /\ park = [t \in Tasks |-> "running"]
  /\ left = Budget
  /\ started = {}
  /\ stopped = FALSE

(* The TCB and the stack of a task are freed. *)
LpelTaskDestroy(ts) == freed \cup ts

----------------------------------------------------------------------------
(* The master.  m is what a handler works on; an operator gives the set of *)
(* the values that it may leave.                                           *)

MasterState == [ready |-> ready_tasks, wait |-> waitworkers, mb |-> mailbox,
                state |-> state, valid |-> valid]

Become(m) ==
  /\ ready_tasks' = m.ready /\ waitworkers' = m.wait /\ mailbox' = m.mb
  /\ state' = m.state /\ valid' = m.valid

(* sendTask: the task is ready, as it asserts. *)
SendTask(m, w, t) ==
  [m EXCEPT !.state[t] = "READY", !.mb[w] = Append(@, Msg("ASSIGN", t))]

(* Serve the request of the first worker that waits. *)
servePendingReq(m, t) ==
  LET w == CHOOSE v \in m.wait : \A u \in m.wait : v <= u
  IN  SendTask([m EXCEPT !.wait = @ \ {w}], w, t)

LpelTaskqueuePush(m, t) ==
  [m EXCEPT !.state[t] = "INQUEUE", !.ready = @ \cup {t}]

LpelTaskqueueOccupyTask(m, t) == [m EXCEPT !.ready = @ \ {t}]

LpelTaskqueuePeek(m) ==
  LET v == {t \in m.ready : m.valid[t]} IN IF v # {} THEN v ELSE m.ready

(* LpelTaskUpdateValid: an entry task is valid unless it has more output   *)
(* than the limit.                                                         *)
LpelTaskUpdateValid(m, S) ==
  [m EXCEPT !.valid = [t \in Tasks |-> IF t \in S \cap Entry THEN t \notin over
                                       ELSE @[t]]]

(* updateNeighours: the tasks in the queue that feed t are looked at again *)
(* (a task that exits has closed its streams), and the head of the queue   *)
(* is served when it is valid.                                             *)
updateNeighours(m, t) ==
  LET u == LpelTaskUpdateValid(m, {e \in m.ready \cap Entry :
                                    Feeds[e] = t /\ state[t] # "ZOMBIE"})
  IN  IF u.ready = {} \/ u.wait = {} THEN {u}
      ELSE {IF u.valid[top]
            THEN LpelTaskqueueOccupyTask(servePendingReq(u, top), top) ELSE u
              : top \in LpelTaskqueuePeek(u)}

(* Mutant: a ready task is queued whether or not a worker waits. *)
ReadyWithoutServe(m, t) == LpelTaskqueuePush(LpelTaskUpdateValid(m, {t}), t)

processTaskReady(m, t) ==
  LET u == LpelTaskUpdateValid(m, {t})
  IN  IF u.valid[t] /\ u.wait # {} THEN servePendingReq(u, t)
                                   ELSE LpelTaskqueuePush(u, t)

processTaskReq(m, w) ==
  IF m.ready = {} THEN {[m EXCEPT !.wait = @ \cup {w}]}
  ELSE {IF m.valid[t] THEN LpelTaskqueueOccupyTask(SendTask(m, w, t), t)
                      ELSE [m EXCEPT !.wait = @ \cup {w}]
          : t \in LpelTaskqueuePeek(m)}

(* MasterLoop, one message of each type. *)
MasterAssign ==
  LET t == Head(mastermb).body
      m == MasterState
  IN  /\ Head(mastermb).type = "ASSIGN"
      /\ Become(IF m.wait # {} THEN servePendingReq(m, t)
                               ELSE LpelTaskqueuePush(m, t))
      /\ UNCHANGED <<wakenup, freed, mterminate>>

(* Mutant: the flag set by an early wakeup is not looked at. *)
ReturnIgnoresWakenup ==
  LET t == Head(mastermb).body
  IN  /\ Head(mastermb).type = "RETURN"
      /\ \E m \in updateNeighours(MasterState, t) :
           CASE state[t] = "BLOCKED" -> Become([m EXCEPT !.state[t] = "RETURNED"])
             [] state[t] = "READY" -> Become(processTaskReady(m, t))
             [] state[t] = "ZOMBIE" -> Become(m)
      /\ freed' = IF state[t] = "ZOMBIE" THEN LpelTaskDestroy({t}) ELSE freed
      /\ UNCHANGED <<wakenup, mterminate>>

(* Mutant: the flag is not cleared. *)
ReturnKeepsWakenup ==
  LET t == Head(mastermb).body
  IN  /\ Head(mastermb).type = "RETURN"
      /\ \E m \in updateNeighours(MasterState, t) :
           CASE state[t] = "BLOCKED" /\ ~wakenup[t] ->
                  Become([m EXCEPT !.state[t] = "RETURNED"])
             [] state[t] = "READY" \/ (state[t] = "BLOCKED" /\ wakenup[t]) ->
                  Become(processTaskReady(m, t))
             [] state[t] = "ZOMBIE" -> Become(m)
      /\ freed' = IF state[t] = "ZOMBIE" THEN LpelTaskDestroy({t}) ELSE freed
      /\ UNCHANGED <<wakenup, mterminate>>

MasterReturn ==
  LET t == Head(mastermb).body
  IN  /\ Head(mastermb).type = "RETURN"
      /\ \E m \in updateNeighours(MasterState, t) :
           CASE state[t] = "BLOCKED" /\ ~wakenup[t] ->
                  Become([m EXCEPT !.state[t] = "RETURNED"])
             [] state[t] = "READY" \/ (state[t] = "BLOCKED" /\ wakenup[t]) ->
                  Become(processTaskReady(m, t))
             [] state[t] = "ZOMBIE" -> Become(m)
      /\ wakenup' = [wakenup EXCEPT ![t] = @ /\ state[t] # "BLOCKED"]
      /\ freed' = IF state[t] = "ZOMBIE" THEN LpelTaskDestroy({t}) ELSE freed
      /\ UNCHANGED mterminate

(* Mutant: a wakeup makes its task ready whether or not it has returned. *)
WakeupAtOnce ==
  LET t == Head(mastermb).body
  IN  /\ Head(mastermb).type = "WAKEUP"
      /\ Become(processTaskReady(MasterState, t))
      /\ UNCHANGED <<wakenup, freed, mterminate>>

MasterWakeup ==
  LET t == Head(mastermb).body
  IN  /\ Head(mastermb).type = "WAKEUP"
      /\ IF state[t] # "RETURNED"
         THEN /\ wakenup' = [wakenup EXCEPT ![t] = TRUE]
              /\ Become(MasterState)
         ELSE /\ Become(processTaskReady(MasterState, t))
              /\ UNCHANGED wakenup
      /\ UNCHANGED <<freed, mterminate>>

MasterRequest ==
  /\ Head(mastermb).type = "REQUEST"
  /\ \E m \in processTaskReq(MasterState, Head(mastermb).body) : Become(m)
  /\ UNCHANGED <<wakenup, freed, mterminate>>

MasterTerminate ==
  /\ Head(mastermb).type = "TERMINATE"
  /\ mterminate' = TRUE
  /\ Become(MasterState)
  /\ UNCHANGED <<wakenup, freed>>

MasterLoop ==
  /\ mpc = "loop" /\ mastermb # <<>>
  /\ mastermb' = Tail(mastermb)
  /\ \/ MasterAssign \/ MasterReturn \/ MasterWakeup \/ MasterRequest
     \/ MasterTerminate
  /\ mpc' = IF mterminate' /\ ready_tasks' = {} THEN "bcast" ELSE "loop"
  /\ UNCHANGED <<ctxvars, worker_context, envvars>>

LpelWorkerBroadcast(msg) ==
  mailbox' = [c \in Ctx |-> IF c >= 0 THEN Append(mailbox[c], msg)
                                     ELSE mailbox[c]]

(* The end of MasterThread. *)
MasterBroadcast ==
  /\ mpc = "bcast"
  /\ LpelWorkerBroadcast(Msg("TERMINATE", NULL))
  /\ mpc' = "exit"
  /\ UNCHANGED <<mastermb, ready_tasks, waitworkers, mterminate, ctxvars,
                 taskvars, envvars>>

(* cleanupMasterMb: the tasks returned too late are destroyed. *)
cleanupMasterMb ==
  /\ mastermb' = <<>>
  /\ freed' = LpelTaskDestroy({t \in Tasks : Msg("RETURN", t) \in Range(mastermb)})

(* cleanupLocalVar: the free wrappers are freed. *)
cleanupLocalVar ==
  /\ freewrappers' = <<>>
  /\ unused' = unused \cup Range(freewrappers)

(* LpelWorkersCleanup: joins the workers and the master first. *)
LpelWorkersCleanup ==
  /\ mpc = "exit" /\ \A w \in Workers : pc[w] = "exit"
  /\ mpc' = "clean"
  /\ cleanupMasterMb /\ cleanupLocalVar
  /\ UNCHANGED <<mailbox, ready_tasks, waitworkers, mterminate, pc, on,
                 current_task, state, worker_context, wakenup, valid, envvars>>

----------------------------------------------------------------------------
(* The threads of workers and wrappers *)

ToMaster(msg) == mastermb' = Append(mastermb, msg)

(* mctx_switch to task t, which goes on with TaskStart. *)
SwitchTo(c, t) ==
  /\ on' = [on EXCEPT ![c] = t]
  /\ pc' = [pc EXCEPT ![c] = "run"]
  /\ state' = [state EXCEPT ![t] = "RUNNING"]
  /\ park' = [park EXCEPT ![t] = "running"]

(* WorkerLoop: the first request. *)
WorkerFirst(c) ==
  /\ pc[c] = "start"
  /\ ToMaster(Msg("REQUEST", c))
  /\ pc' = [pc EXCEPT ![c] = "recv"]
  /\ UNCHANGED <<mailbox, mastervars, on, current_task, freewrappers, unused,
                 taskvars, envvars>>

WorkerAssign(c) ==
  LET t == Head(mailbox[c]).body
  IN  /\ pc[c] = "recv" /\ c >= 0 /\ mailbox[c] # <<>>
      /\ Head(mailbox[c]).type = "ASSIGN"
      /\ mailbox' = [mailbox EXCEPT ![c] = Tail(@)]
      /\ worker_context' = [worker_context EXCEPT ![t] = c]
      /\ current_task' = [current_task EXCEPT ![c] = t]
      /\ SwitchTo(c, t)
      /\ UNCHANGED <<mastermb, mastervars, freewrappers, unused, wakenup, valid,
                     freed, over, left, started, stopped>>

(* The task has switched back: return it. *)
WorkerReturn(c) ==
  LET t == on[c]
  IN  /\ pc[c] = "back" /\ c >= 0
      /\ on' = [on EXCEPT ![c] = NULL]
      /\ current_task' = [current_task EXCEPT ![c] = NULL]
      /\ worker_context' = [worker_context EXCEPT ![t] = NULL]
      /\ ToMaster(Msg("RETURN", t))
      /\ pc' = [pc EXCEPT ![c] = "recv"]
      /\ UNCHANGED <<mailbox, mastervars, freewrappers, unused, state, wakenup,
                     valid, freed, envvars>>

WorkerTerminate(c) ==
  /\ pc[c] = "recv" /\ c >= 0 /\ mailbox[c] # <<>>
  /\ Head(mailbox[c]).type = "TERMINATE"
  /\ mailbox' = [mailbox EXCEPT ![c] = Tail(@)]
  /\ pc' = [pc EXCEPT ![c] = "exit"]
  /\ UNCHANGED <<mastermb, mastervars, on, current_task, freewrappers, unused,
                 taskvars, envvars>>

(* WrapperLoop: run the task, or wait for a message. *)
WrapperRun(c) ==
  /\ pc[c] = "recv" /\ c < 0 /\ current_task[c] # NULL
  /\ SwitchTo(c, current_task[c])
  /\ UNCHANGED <<mastermb, mailbox, mastervars, current_task, freewrappers,
                 unused, worker_context, wakenup, valid, freed, over, left,
                 started, stopped>>

WrapperRecv(c) ==
  LET t == Head(mailbox[c]).body
  IN  /\ pc[c] = "recv" /\ c < 0 /\ current_task[c] = NULL
      /\ mailbox[c] # <<>> /\ Head(mailbox[c]).type \in {"ASSIGN", "WAKEUP"}
      /\ mailbox' = [mailbox EXCEPT ![c] = Tail(@)]
      /\ state' = [state EXCEPT ![t] = "READY"]
      /\ current_task' = [current_task EXCEPT ![c] = t]
      /\ UNCHANGED <<mastermb, mastervars, pc, on, freewrappers, unused,
                     worker_context, wakenup, valid, freed, envvars>>

(* The end of WrapperLoop, and addFreeWrapper. *)
WrapperExit(c) ==
  /\ pc[c] = "back" /\ c < 0
  /\ freed' = LpelTaskDestroy({current_task[c]})
  /\ freewrappers' = <<c>> \o freewrappers
  /\ pc' = [pc EXCEPT ![c] = "exit"]
  /\ on' = [on EXCEPT ![c] = NULL]
  /\ UNCHANGED <<mastermb, mailbox, mastervars, current_task, unused, state,
                 worker_context, wakenup, valid, envvars>>

----------------------------------------------------------------------------
(* Tasks *)

(* t runs, on the thread of c. *)
Runs(c, t) == pc[c] = "run" /\ on[c] = t

(* Some other task is left to unblock those that wait. *)
OthersCan(t) ==
  \E u \in Tasks \ {t} :
    park[u] # "parking" /\ state[u] # "ZOMBIE" /\ u \notin over

(* t finds that it must wait, on a semaphore of a stream or in a poll. *)
Decide(c, t) ==
  /\ Runs(c, t) /\ park[t] = "running" /\ left[t] > 0 /\ OthersCan(t)
  /\ park' = [park EXCEPT ![t] = "parking"]
  /\ left' = [left EXCEPT ![t] = @ - 1]
  /\ UNCHANGED <<mastermb, mailbox, mastervars, ctxvars, taskvars, over,
                 started, stopped>>

(* t is an entry task and writes up to the limit, or reads the output of   *)
(* one and has records to go on with.                                      *)
Demand(c, t) ==
  /\ Runs(c, t) /\ park[t] = "running"
  /\ \/ /\ t \in Entry \ over /\ left[t] > 0 /\ OthersCan(t)
        /\ state[Feeds[t]] # "ZOMBIE"
        /\ over' = over \cup {t}
        /\ left' = [left EXCEPT ![t] = @ - 1]
     \/ /\ \E e \in over : Feeds[e] = t /\ over' = over \ {e}
        /\ left' = [left EXCEPT ![t] = @ + 1]
  /\ UNCHANGED <<mastermb, mailbox, mastervars, ctxvars, taskvars, park,
                 started, stopped>>

(* Mutants: the task is returned before its stack is left; a task that     *)
(* exits does not ask for the next one.                                    *)
LeaveReturns(c, s) ==
  /\ state' = [state EXCEPT ![on[c]] = s]
  /\ IF c >= 0
     THEN /\ mastermb' = mastermb \o <<Msg("REQUEST", c), Msg("RETURN", on[c])>>
          /\ current_task' = [current_task EXCEPT ![c] = NULL]
          /\ pc' = [pc EXCEPT ![c] = "back"]
          /\ UNCHANGED on
     ELSE /\ on' = [on EXCEPT ![c] = NULL]
          /\ current_task' = [current_task EXCEPT ![c] =
                                IF s = "BLOCKED" THEN NULL ELSE @]
          /\ pc' = [pc EXCEPT ![c] = IF s = "ZOMBIE" THEN "back" ELSE "recv"]
          /\ UNCHANGED mastermb
  /\ UNCHANGED <<mailbox, mastervars, freewrappers, unused, worker_context,
                 wakenup, valid, freed, started, stopped>>

ExitWithoutRequest(c, s) ==
  /\ state' = [state EXCEPT ![on[c]] = s]
  /\ IF c >= 0
     THEN /\ IF s = "ZOMBIE" THEN UNCHANGED mastermb
                           ELSE ToMaster(Msg("REQUEST", c))
          /\ current_task' = [current_task EXCEPT ![c] = NULL]
          /\ pc' = [pc EXCEPT ![c] = "back"]
          /\ UNCHANGED on
     ELSE /\ on' = [on EXCEPT ![c] = NULL]
          /\ current_task' = [current_task EXCEPT ![c] =
                                IF s = "BLOCKED" THEN NULL ELSE @]
          /\ pc' = [pc EXCEPT ![c] = IF s = "ZOMBIE" THEN "back" ELSE "recv"]
          /\ UNCHANGED mastermb
  /\ UNCHANGED <<mailbox, mastervars, freewrappers, unused, worker_context,
                 wakenup, valid, freed, started, stopped>>

(* A task that stops on a worker asks for the next one first; it is on its *)
(* stack until WorkerReturn.  A wrapper's loop goes on at once.            *)
Leave(c, s) ==
  /\ state' = [state EXCEPT ![on[c]] = s]
  /\ IF c >= 0
     THEN /\ ToMaster(Msg("REQUEST", c))
          /\ current_task' = [current_task EXCEPT ![c] = NULL]
          /\ pc' = [pc EXCEPT ![c] = "back"]
          /\ UNCHANGED on
     ELSE /\ on' = [on EXCEPT ![c] = NULL]
          /\ current_task' = [current_task EXCEPT ![c] =
                                IF s = "BLOCKED" THEN NULL ELSE @]
          /\ pc' = [pc EXCEPT ![c] = IF s = "ZOMBIE" THEN "back" ELSE "recv"]
          /\ UNCHANGED mastermb
  /\ UNCHANGED <<mailbox, mastervars, freewrappers, unused, worker_context,
                 wakenup, valid, freed, started, stopped>>

LpelTaskBlockStream(c, t) ==
  /\ Runs(c, t) /\ park[t] # "running"
  /\ Leave(c, "BLOCKED")
  /\ UNCHANGED <<park, over, left>>

(* LpelTaskYield, and LpelTaskCheckYield at the limit of records. *)
LpelTaskYield(c, t) ==
  /\ Runs(c, t) /\ park[t] = "running" /\ left[t] > 0
  /\ left' = [left EXCEPT ![t] = @ - 1]
  /\ Leave(c, "READY")
  /\ UNCHANGED <<park, over>>

(* LpelTaskExit, or the return of the task function, after the task has    *)
(* closed its streams.                                                     *)
LpelTaskExit(c, t) ==
  /\ Runs(c, t) /\ park[t] = "running"
  /\ OthersCan(t) \/ \A u \in Tasks : park[u] # "parking"
  /\ InOrder => \A e \in Entry : Feeds[e] = t => state[e] = "ZOMBIE"
  /\ over' = {e \in over : e # t /\ Feeds[e] # t}
  /\ Leave(c, "ZOMBIE")
  /\ UNCHANGED <<park, left>>

(* LpelTaskUnblock and LpelWorkerTaskWakeup. *)
LpelTaskUnblock(c, t, whom) ==
  LET wc == worker_context[whom]
      msg == Msg("WAKEUP", whom)
  IN  /\ Runs(c, t) /\ park[t] = "running" /\ park[whom] = "parking"
      /\ park' = [park EXCEPT ![whom] = "granted"]
      /\ IF wc \in Wrappers
         THEN /\ mailbox' = [mailbox EXCEPT ![wc] = Append(@, msg)]
              /\ UNCHANGED mastermb
         ELSE ToMaster(msg) /\ UNCHANGED mailbox
      /\ UNCHANGED <<mastervars, ctxvars, taskvars, over, left, started, stopped>>

----------------------------------------------------------------------------
(* The program that uses LPEL *)

(* LpelTaskCreate and LpelTaskStart of a task for the master. *)
LpelTaskStart(t) ==
  /\ t \notin started \cup Wrapped
  /\ started' = started \cup {t}
  /\ ToMaster(Msg("ASSIGN", t))
  /\ UNCHANGED <<mailbox, mastervars, ctxvars, taskvars, park, over, left,
                 stopped>>

(* Mutant: the wrapper is not taken out of the list. *)
StartKeepsWrapper(t) ==
  /\ t \in Wrapped \ started
  /\ started' = started \cup {t}
  /\ \E c \in Wrappers :
       /\ IF freewrappers # <<>>
          THEN /\ c = Head(freewrappers)
               /\ UNCHANGED <<freewrappers, unused>>
          ELSE /\ c \in unused
               /\ unused' = unused \ {c}
               /\ UNCHANGED freewrappers
       /\ worker_context' = [worker_context EXCEPT ![t] = c]
       /\ current_task' = [current_task EXCEPT ![c] = NULL]
       /\ pc' = [pc EXCEPT ![c] = "recv"]
       /\ mailbox' = [mailbox EXCEPT ![c] = Append(@, Msg("ASSIGN", t))]
  /\ UNCHANGED <<mastermb, mastervars, on, state, wakenup, valid, freed, park,
                 over, left, stopped>>

(* LpelTaskCreate with LpelCreateWrapperContext, which takes the wrapper   *)
(* that was freed last or a new one, and LpelTaskStart.                    *)
StartWrapper(t) ==
  /\ t \in Wrapped \ started
  /\ started' = started \cup {t}
  /\ \E c \in Wrappers :
       /\ IF freewrappers # <<>>
          THEN /\ c = Head(freewrappers)
               /\ freewrappers' = Tail(freewrappers)
               /\ UNCHANGED unused
          ELSE /\ c \in unused
               /\ unused' = unused \ {c}
               /\ UNCHANGED freewrappers
       /\ worker_context' = [worker_context EXCEPT ![t] = c]
       /\ current_task' = [current_task EXCEPT ![c] = NULL]
       /\ pc' = [pc EXCEPT ![c] = "recv"]
       /\ mailbox' = [mailbox EXCEPT ![c] = Append(@, Msg("ASSIGN", t))]
  /\ UNCHANGED <<mastermb, mastervars, on, state, wakenup, valid, freed, park,
                 over, left, stopped>>

(* LpelStop: LpelWorkersTerminate. *)
LpelStop ==
  /\ started = Tasks /\ (StopEarly \/ \A t \in Tasks : state[t] = "ZOMBIE")
  /\ ~stopped /\ stopped' = TRUE
  /\ ToMaster(Msg("TERMINATE", NULL))
  /\ UNCHANGED <<mailbox, mastervars, ctxvars, taskvars, park, over, left,
                 started>>

Done == mpc = "clean" /\ (\A c \in Ctx : pc[c] = "exit") /\ UNCHANGED vars

----------------------------------------------------------------------------
Master == MasterLoop \/ MasterBroadcast

Thread(c) ==
  \/ WorkerFirst(c) \/ WorkerAssign(c) \/ WorkerReturn(c) \/ WorkerTerminate(c)
  \/ WrapperRun(c) \/ WrapperRecv(c) \/ WrapperExit(c)

TaskStep(c, t) ==
  \/ Decide(c, t) \/ Demand(c, t) \/ LpelTaskBlockStream(c, t)
  \/ LpelTaskYield(c, t) \/ LpelTaskExit(c, t)
  \/ \E whom \in Tasks : LpelTaskUnblock(c, t, whom)

Program ==
  \/ \E t \in Tasks : LpelTaskStart(t) \/ StartWrapper(t)
  \/ LpelStop \/ LpelWorkersCleanup

Next ==
  \/ Master
  \/ \E c \in Ctx : Thread(c) \/ \E t \in Tasks : TaskStep(c, t)
  \/ Program
  \/ Done

Spec == Init /\ [][Next]_vars

(* Every thread runs, a running task goes on, and the program stops and    *)
(* cleans up LPEL.                                                         *)
FairSpec ==
  /\ Spec /\ WF_vars(Master) /\ WF_vars(Program)
  /\ \A c \in Ctx : WF_vars(Thread(c) \/ \E t \in Tasks : TaskStep(c, t))

----------------------------------------------------------------------------
(* Correctness *)

Times(x, s) == Cardinality({i \in DOMAIN s : s[i] = x})
One(b) == IF b THEN 1 ELSE 0

(* No two threads are on the stack of one task, none is on the stack of a  *)
(* destroyed task, and LpelTaskSelf gives a running task itself: the       *)
(* worker has left the stack before the master hears of the task again.    *)
OneThreadPerStack ==
  /\ \A c, d \in Ctx : on[c] = on[d] /\ c # d => on[c] = NULL
  /\ \A c \in Ctx : on[c] \notin freed
  /\ \A c \in Ctx : \A t \in Tasks :
       Runs(c, t) => current_task[c] = t /\ worker_context[t] = c

(* The assertions on t->state where the master, a worker and a wrapper     *)
(* take a message hold, although a wakeup may be sent before its task has  *)
(* blocked, and the task blocks on another thread than the master's.       *)
StateAsExpected ==
  /\ \A t \in Tasks :
       /\ Msg("ASSIGN", t) \in Range(mastermb) => state[t] = "CREATED"
       /\ Msg("RETURN", t) \in Range(mastermb) =>
            state[t] \in {"BLOCKED", "READY", "ZOMBIE"}
  /\ \A c \in Ctx : \A t \in Tasks :
       /\ c >= 0 /\ Msg("ASSIGN", t) \in Range(mailbox[c]) => state[t] = "READY"
       /\ c < 0 /\ Msg("ASSIGN", t) \in Range(mailbox[c]) => state[t] = "CREATED"
       /\ /\ Msg("WAKEUP", t) \in Range(mailbox[c])
          /\ pc[c] = "recv" /\ current_task[c] = NULL
          => state[t] = "BLOCKED"

(* A started task of the master is in one place: on its way to the master, *)
(* in the queue, on its way to a worker, on a worker, held as RETURNED, or *)
(* destroyed.  A wakeup is kept once, as a message or as the flag wakenup, *)
(* until the task it is for is ready; the flag is never left over.         *)
NoTaskLost ==
  /\ \A t \in started \ Wrapped :
       /\ Times(Msg("ASSIGN", t), mastermb) + Times(Msg("RETURN", t), mastermb)
            + One(t \in ready_tasks) + One(state[t] = "RETURNED")
            + Cardinality({c \in Workers : Msg("ASSIGN", t) \in Range(mailbox[c])})
            + Cardinality({c \in Workers : on[c] = t}) + One(t \in freed) = 1
       /\ Times(Msg("WAKEUP", t), mastermb) + One(wakenup[t]) =
            One(park[t] = "granted" /\ state[t] \in {"RUNNING", "BLOCKED", "RETURNED"})

(* "reach here --> message request for task has been sent" (WorkerLoop):   *)
(* the request of a worker that runs no task is in exactly one place, so   *)
(* that no worker waits for ever and none is given two tasks.              *)
OneRequestPerWorker ==
  \A w \in Workers : pc[w] \notin {"start", "exit"} =>
    Times(Msg("REQUEST", w), mastermb) + One(w \in waitworkers)
      + Cardinality({t \in Tasks : Msg("ASSIGN", t) \in Range(mailbox[w])})
      + One(pc[w] = "run") = 1

(* No worker waits for a task while a valid one is in the queue: requests  *)
(* and ready tasks meet whichever comes first.                             *)
WorkConserving == waitworkers # {} => \A t \in ready_tasks : ~valid[t]

(* A wrapper is in the free list once, and only when its task is gone and  *)
(* nothing is left in its mailbox: the next task gets it as if new.        *)
FreeWrapperIdle ==
  /\ \A i, j \in DOMAIN freewrappers : freewrappers[i] = freewrappers[j] => i = j
  /\ \A c \in Range(freewrappers) :
       /\ mailbox[c] = <<>> /\ pc[c] = "exit"
       /\ \A t \in started : worker_context[t] = c => t \in freed

(* The scheduler keeps the contract of TaskPark: a task that blocked runs  *)
(* again after it was unblocked, and only then.                            *)
Park == INSTANCE TaskPark
ImplementsPark == Park!FairSpec

(* When LPEL is stopped, every task has run to its end and been destroyed, *)
(* and every thread has left.                                              *)
Shutdown == <>(freed = Tasks /\ mpc = "clean" /\ \A c \in Ctx : pc[c] = "exit")
=============================================================================
