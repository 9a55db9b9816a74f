-------------------------- MODULE DecenWorkerProofs --------------------------
(***************************************************************************)
(* The invariants of the workers of the decentralised scheduler, for any   *)
(* number of workers, wrappers and tasks.                                  *)
(***************************************************************************)
EXTENDS DecenWorkerSteps

USE SMTT(10), ZenonT(30), SMTT(60)

----------------------------------------------------------------------------
(* The loop of a worker keeps the invariant *)

(* The messages. *)
LEMMA HandleKeeps ==
  ASSUME WorkerInv, NEW c \in Ctx, FetchMessage(c) \/ WaitForNewMessage(c)
  PROVE  Keeps(c)
  <1>a. TypeOK /\ Terminates \subseteq stopped /\ Threaded(c) BY DEF WorkerInv
  <1>1. /\ Handles(c)
        /\ ProcessWakeup(c) \/ ProcessAssign(c) \/ ProcessTerminate(c)
    BY <1>a, HandlesMessage
  <1>2. /\ ThreadStep(c) /\ pc[c] # "exit" /\ pc[c] \in {"fetch", "wait", "disp"}
        /\ pc'[c] = (IF pc[c] = "wait" THEN "fetch" ELSE pc[c])
        /\ UNCHANGED <<migrated, on, mechanism, stopped>>
    BY ZenonT(60), <1>1 DEF Handles, envvars
  <1>3. Threaded(c)' BY ZenonT(60), <1>a, <1>2 DEF Threaded
  <1>4. \A d \in Ctx \ {c} : migrated'[d] = migrated[d] BY ZenonT(60), <1>2
  <1>t. PICK t : t = Head(mailbox[c]).task OBVIOUS
  <1>5. CASE ProcessWakeup(c)
    <2>1. /\ TypeOK' /\ t \in Tasks /\ Moved(t) /\ TaskInv(t)'
          /\ state[t] = "BLOCKED" /\ Nowhere(t) /\ worker_context[t] = c
          /\ Becomes(t, "READY", worker_context'[t]) /\ Leaves(t)' = {}
          /\ WrapsReady(c, t) \/ StaysReady(t) \/ SentReady(t)
          /\ Terminates' = Terminates
      BY ZenonT(60), <1>t, <1>1, <1>5, WakeupEffect
    <2>2. Terminates' \subseteq stopped' BY ZenonT(60), <1>a, <1>2, <2>1
    <2>3. WorkerInv' BY ZenonT(60), <1>2, <1>3, <1>4, <2>1, <2>2, MovedInv
    <2>4. StepOf(c) /\ Counted(c)
      <3>1. CASE WrapsReady(c, t)
        <4>1. /\ worker_context'[t] = c /\ Assigns(t)' = {}
              /\ num_tasks' = num_tasks
          BY ZenonT(60), <2>1, <3>1 DEF WrapsReady
        <4>2. state'[t] = "READY" /\ Leaves(t) = {} /\ Assigns(t) = {}
          BY ZenonT(60), <2>1 DEF Becomes, Nowhere, At
        <4>3. StepOf(c) BY ZenonT(60), <1>2, <2>1, <4>1, MovedStep
        <4>4. Counted(c) BY ZenonT(60), <2>1, <4>1, <4>2, StaysCounted
        <4> QED BY <4>3, <4>4
      <3>2. CASE StaysReady(t) \/ SentReady(t)
        BY ZenonT(60), <1>2, <2>1, <3>2, ReadyKeeps
      <3> QED BY ZenonT(60), <2>1, <3>1, <3>2
    <2> QED BY <2>3, <2>4 DEF Keeps
  <1>6. CASE ProcessAssign(c)
    <2>1. /\ TypeOK' /\ t \in Tasks /\ Moved(t) /\ TaskInv(t)'
          /\ state[t] \in {"CREATED", "READY"} /\ At(t, {}, {}, {}, {}, {c})
          /\ worker_context[t] = c /\ Becomes(t, "READY", c)
          /\ Leaves(t)' = {} /\ Assigns(t)' = {}
          /\ num_tasks' = [num_tasks EXCEPT ![c] = @ + 1]
          /\ Terminates' = Terminates
      BY ZenonT(60), <1>t, <1>1, <1>6, AssignEffect
    <2>2. Terminates' \subseteq stopped' BY ZenonT(60), <1>a, <1>2, <2>1
    <2>3. WorkerInv' BY ZenonT(60), <1>2, <1>3, <1>4, <2>1, <2>2, MovedInv
    <2>4. state'[t] = "READY" /\ worker_context'[t] = c /\ Assigns(t) # {}
          /\ state[t] # "ZOMBIE"
      BY ZenonT(60), <2>1 DEF Becomes, At
    <2>5. StepOf(c) BY ZenonT(60), <1>2, <2>1, <2>4, MovedStep
    <2>6. \A w \in Workers : t \notin TasksOf(w) BY ZenonT(60), <2>1, <2>4, NoOwner
    <2>7. \A w \in Workers : (t \in TasksOf(w))' <=> w = c
      BY ZenonT(60), <2>1, <2>4, OwnerNext
    <2>8. Counted(c) BY ZenonT(60), <2>1, <2>6, <2>7 DEF CountUp, Counted
    <2> QED BY <2>3, <2>5, <2>8 DEF Keeps
  <1>7. CASE ProcessTerminate(c)
    <2>1. /\ TypeOK' /\ \A u \in Tasks : Same(u)
          /\ Terminates' = Terminates \ {c}
      BY ZenonT(60), <1>1, <1>7, TerminateEffect
    <2>2. num_tasks' = num_tasks /\ state' = state
          /\ worker_context' = worker_context
      BY <1>7 DEF ProcessTerminate
    <2>3. Terminates' \subseteq stopped' BY <1>a, <1>2, <2>1
    <2>4. WorkerInv' BY ZenonT(60), <1>2, <1>3, <1>4, <2>1, <2>3, SameInv
    <2>5. StepOf(c) BY ZenonT(60), <1>2, <2>2, SameStep
    <2>6. Counted(c) BY ZenonT(60), <2>1, <2>2, KeepsAllCounts DEF Counted
    <2> QED BY <2>4, <2>5, <2>6 DEF Keeps
  <1> QED BY <1>1, <1>5, <1>6, <1>7

(* LoopRun, and the dispatcher with a ready task. *)
LEMMA SwitchKeeps ==
  ASSUME WorkerInv, NEW c \in Ctx, NEW t \in Tasks, SwitchTo(c, t),
         pc[c] \in {"loop", "disp"},
         \/ LpelSchedFetchReady(c, t) /\ wraptask' = wraptask
         \/ /\ wraptask[c] = t /\ wraptask' = [wraptask EXCEPT ![c] = NULL]
            /\ queue' = queue,
         UNCHANGED <<mailbox, num_tasks, terminate, marked_del, migrated,
                     worker_context, freed, mechanism, started, stopped>>
  PROVE  Keeps(c)
  <1>a. Terminates \subseteq stopped /\ Threaded(c) BY DEF WorkerInv
  <1>b. pc[c] # "run" /\ pc[c] # "exit" /\ pc[c] # "back" OBVIOUS
  <1>1. /\ TypeOK' /\ Moved(t) /\ TaskInv(t)' /\ ThreadStep(c)
        /\ pc'[c] = "run" /\ on'[c] = t
        /\ state[t] = "READY" /\ worker_context[t] = c
        /\ Leaves(t) = {} /\ Assigns(t) = {}
        /\ Becomes(t, "RUNNING", c) /\ At(t, {c}, {}, {}, {}, {})'
    BY ZenonT(60), <1>b, SwitchEffect
  <1>2. Threaded(c)' BY ZenonT(60), <1>a, <1>b, <1>1, NullFacts DEF Threaded
  <1>3. Terminates' \subseteq stopped' BY ZenonT(60), <1>a, SameMail
  <1>4. WorkerInv' BY ZenonT(60), <1>1, <1>2, <1>3, MovedInv
  <1>5. state'[t] = "RUNNING" /\ worker_context'[t] = c
        /\ Leaves(t)' = {} /\ Assigns(t)' = {}
    BY ZenonT(60), <1>1 DEF Becomes, At
  <1>6. StepOf(c) BY ZenonT(60), <1>b, <1>1, <1>5, MovedStep
  <1>7. Counted(c) BY ZenonT(60), <1>1, <1>5, StaysCounted
  <1> QED BY <1>4, <1>6, <1>7 DEF Keeps

(* A step of a thread that moves no task. *)
LEMMA IdleKeeps ==
  ASSUME WorkerInv, NEW c \in Ctx, NEW st \in Pcs, pc' = [pc EXCEPT ![c] = st],
         pc[c] \notin {"run", "exit"}, st \notin {"run", "disp"},
         pc[c] # "back" \/ c < 0 \/ migrated[c] = NULL,
         on' = [on EXCEPT ![c] = NULL],
         marked_del' \in [Ctx -> Slot], freed' \subseteq Tasks,
         UNCHANGED <<mailbox, queue, num_tasks, terminate, wraptask, migrated,
                     state, worker_context, mechanism, park, started, stopped>>
  PROVE  Keeps(c)
  <1>a. TypeOK /\ Terminates \subseteq stopped /\ Threaded(c) BY DEF WorkerInv
  <1>1. /\ ThreadStep(c) /\ pc' \in [Ctx -> Pcs] /\ pc'[c] = st
        /\ on' \in [Ctx -> Slot] /\ on'[c] = NULL
    BY <1>a DEF TypeOK, ThreadStep, Slot
  <1>2. TypeOK' /\ (\A u \in Tasks : Same(u)) /\ Terminates' = Terminates
    BY ZenonT(60), <1>1, IdleEffect
  <1>3. Threaded(c)' BY <1>a, <1>1, CtxFacts DEF Threaded
  <1>4. Terminates' \subseteq stopped' BY ZenonT(60), <1>a, <1>2
  <1>5. WorkerInv' BY ZenonT(60), <1>1, <1>2, <1>3, <1>4, SameInv
  <1>6. StepOf(c) BY ZenonT(60), <1>1, SameStep
  <1>7. Counted(c) BY ZenonT(60), <1>2, KeepsAllCounts DEF Counted
  <1> QED BY ZenonT(60), <1>5, <1>6, <1>7 DEF Keeps

(* CleanupTaskContext without a task to mark. *)
LEMMA CleanupTypes ==
  ASSUME TypeOK, NEW c \in Ctx,
         CleanupTaskContext(c, NULL) \/ UNCHANGED <<freed, marked_del>>
  PROVE  marked_del' \in [Ctx -> Slot] /\ freed' \subseteq Tasks
  <1>1. CASE CleanupTaskContext(c, NULL)
    BY <1>1 DEF CleanupTaskContext, LpelTaskDestroy, TypeOK, Slot
  <1>2. CASE UNCHANGED <<freed, marked_del>> BY <1>2 DEF TypeOK
  <1> QED BY <1>1, <1>2

(* A worker comes back from a task to its loop. *)
LEMMA LoopBackKeeps ==
  ASSUME WorkerInv, NEW c \in Ctx, LoopBack(c)
  PROVE  Keeps(c)
  <1>a. TypeOK /\ Terminates \subseteq stopped /\ Threaded(c) BY DEF WorkerInv
  <1>t. PICK t : t = migrated[c] OBVIOUS
  <1>1. /\ pc[c] = "back" /\ pc' = [pc EXCEPT ![c] = "fetch"]
        /\ CleanupTaskContext(c, NULL) \/ UNCHANGED <<freed, marked_del>>
        /\ UNCHANGED <<queue, terminate, wraptask, on, state, worker_context,
                       mechanism, park, started, stopped>>
    BY ZenonT(60) DEF LoopBack, envvars
  <1>2. marked_del' \in [Ctx -> Slot] /\ freed' \subseteq Tasks
    BY <1>a, <1>1, CleanupTypes
  <1>3. /\ pc' \in [Ctx -> Pcs] /\ pc'[c] = "fetch" /\ on[c] = NULL
        /\ ThreadStep(c) /\ "fetch" \in Pcs /\ on' = [on EXCEPT ![c] = NULL]
    BY <1>a, <1>1 DEF TypeOK, Pcs, Threaded, ThreadStep
  <1>4. CASE c >= 0 /\ t # NULL
    <2>1. /\ mailbox' = [mailbox EXCEPT ![worker_context[t]] =
                           Append(@, Msg("ASSIGN", t))]
          /\ num_tasks' = [num_tasks EXCEPT ![c] = @ - 1]
          /\ migrated' = [migrated EXCEPT ![c] = NULL]
          /\ t \in Tasks
      BY <1>a, <1>t, <1>4 DEF LoopBack, TypeOK, Slot
    <2>2. migrated[c] = t BY <1>t
    <2>3. /\ TypeOK' /\ Moved(t) /\ TaskInv(t)'
          /\ state[t] = "READY" /\ At(t, {}, {}, {}, {c}, {})
          /\ At(t, {}, {}, {}, {}, {worker_context[t]})'
          /\ migrated'[c] = NULL /\ \A d \in Ctx \ {c} : migrated'[d] = migrated[d]
          /\ Terminates' = Terminates
      <3>1. pc[c] # "run" /\ pc'[c] # "run" BY <1>1, <1>3
      <3> QED BY ZenonT(60), <1>1, <1>2, <1>3, <2>1, <2>2, <3>1, LeaveEffect
    <2>4. Threaded(c)' BY ZenonT(60), <1>1, <1>3, <2>3 DEF Threaded
    <2>5. Terminates' \subseteq stopped' BY ZenonT(60), <1>a, <1>1, <2>3
    <2>6. WorkerInv' BY ZenonT(60), <1>3, <2>1, <2>3, <2>4, <2>5, MovedInv
    <2>7. StepOf(c)
      <3>1. pc[c] # "exit" BY <1>1
      <3> QED BY ZenonT(60), <1>1, <1>3, <3>1, SameStep
    <2>8. Leaves(t) = {c} /\ Assigns(t) = {} /\ Assigns(t)' # {}
      BY ZenonT(60), <2>3 DEF At
    <2>9. \A w \in Workers : t \in TasksOf(w) <=> w = c
      BY ZenonT(60), <2>1, <2>3, <2>8 DEF TasksOf
    <2>10. \A w \in Workers : ~(t \in TasksOf(w))' BY <2>1, <2>8, NoOwnerNext
    <2>11. Counted(c) BY ZenonT(60), <2>1, <2>3, <2>9, <2>10 DEF CountDown, Counted
    <2> QED BY <2>6, <2>7, <2>11 DEF Keeps
  <1>5. CASE ~(c >= 0 /\ t # NULL)
    <2>1. UNCHANGED <<mailbox, num_tasks, migrated>> BY <1>t, <1>5 DEF LoopBack
    <2>2. c < 0 \/ migrated[c] = NULL BY <1>t, <1>5, CtxFacts
    <2>3. pc[c] \notin {"run", "exit"} /\ "fetch" \notin {"run", "disp"}
      BY <1>1
    <2> QED BY ZenonT(60), <1>1, <1>2, <1>3, <2>1, <2>2, <2>3, IdleKeeps
  <1> QED BY <1>4, <1>5

(* A step of the loop of a worker or a wrapper. *)
LEMMA LoopKeeps ==
  ASSUME WorkerInv, NEW c \in Ctx, Loop(c)
  PROVE  Keeps(c)
  <1>a. TypeOK /\ Threaded(c) BY DEF WorkerInv
  <1>1. CASE FetchMessage(c) \/ WaitForNewMessage(c) BY <1>1, HandleKeeps
  <1>2. CASE LpelWorkerDispatcher(c)
    <2>1. /\ pc[c] = "disp"
          /\ UNCHANGED <<mailbox, num_tasks, terminate, marked_del, wraptask,
                         migrated, worker_context, freed, mechanism, started,
                         stopped>>
      BY <1>2 DEF LpelWorkerDispatcher, workervars
    <2>2. CASE \E next \in Tasks : LpelSchedFetchReady(c, next) /\ SwitchTo(c, next)
      <3>1. PICK next \in Tasks : LpelSchedFetchReady(c, next) /\ SwitchTo(c, next)
        BY <2>2
      <3>2. pc[c] \in {"loop", "disp"} BY <2>1
      <3> QED BY ZenonT(60), <2>1, <3>1, <3>2, SwitchKeeps
    <2>3. CASE SwitchToLoop(c) /\ UNCHANGED <<queue, state, park>>
      <3>1. /\ pc' = [pc EXCEPT ![c] = "back"] /\ on' = [on EXCEPT ![c] = NULL]
            /\ "back" \in Pcs /\ pc[c] \notin {"run", "exit"} /\ pc[c] # "back"
            /\ "back" \notin {"run", "disp"}
            /\ marked_del' \in [Ctx -> Slot] /\ freed' \subseteq Tasks
        BY <1>a, <2>1, <2>3 DEF SwitchToLoop, Pcs, TypeOK
      <3> QED BY ZenonT(60), <2>1, <2>3, <3>1, IdleKeeps
    <2> QED BY <1>2, <2>2, <2>3 DEF LpelWorkerDispatcher
  <1>3. CASE LoopRun(c)
    <2>1. /\ pc[c] \in {"loop", "disp"}
          /\ UNCHANGED <<mailbox, num_tasks, terminate, marked_del, migrated,
                         worker_context, freed, mechanism, started, stopped>>
      BY <1>3 DEF LoopRun
    <2>2. CASE /\ \E t \in Tasks : LpelSchedFetchReady(c, t) /\ SwitchTo(c, t)
               /\ UNCHANGED wraptask
      <3>1. PICK t \in Tasks : LpelSchedFetchReady(c, t) /\ SwitchTo(c, t)
        BY <2>2
      <3> QED BY ZenonT(60), <2>1, <2>2, <3>1, SwitchKeeps
    <2>3. CASE /\ wraptask[c] # NULL /\ SwitchTo(c, wraptask[c])
               /\ wraptask' = [wraptask EXCEPT ![c] = NULL] /\ UNCHANGED queue
      <3>1. PICK t : t = wraptask[c] OBVIOUS
      <3>2. t \in Tasks /\ SwitchTo(c, t) BY <1>a, <2>3, <3>1 DEF TypeOK, Slot
      <3> QED BY ZenonT(60), <2>1, <2>3, <3>1, <3>2, SwitchKeeps
    <2> QED BY ZenonT(60), <1>3, <2>2, <2>3 DEF LoopRun
  <1>4. CASE LoopBack(c) BY <1>4, LoopBackKeeps
  <1>5. CASE LoopIdle(c) \/ LoopAgain(c) \/ LoopExit(c)
    <2>1. PICK st \in {"wait", "loop", "exit"} : pc' = [pc EXCEPT ![c] = st]
      BY <1>5 DEF LoopIdle, LoopAgain, LoopExit
    <2>2. /\ pc[c] \in {"loop", "fetch"} /\ UNCHANGED on
          /\ UNCHANGED <<mailbox, queue, num_tasks, terminate, wraptask, migrated,
                         state, worker_context, mechanism, park, started, stopped>>
          /\ CleanupTaskContext(c, NULL) \/ UNCHANGED <<freed, marked_del>>
      BY ZenonT(60), <1>5 DEF LoopIdle, LoopAgain, LoopExit, workervars, taskvars, envvars
    <2>3. marked_del' \in [Ctx -> Slot] /\ freed' \subseteq Tasks
      BY <1>a, <2>2, CleanupTypes
    <2>4. /\ st \in Pcs /\ st \notin {"run", "disp"} /\ pc[c] # "back"
          /\ pc[c] \notin {"run", "exit"} /\ on' = [on EXCEPT ![c] = NULL]
      BY <1>a, <2>2 DEF Pcs, Threaded, TypeOK
    <2> QED BY ZenonT(60), <2>1, <2>2, <2>3, <2>4, IdleKeeps
  <1> QED BY ZenonT(60), <1>1, <1>2, <1>3, <1>4, <1>5 DEF Loop

(* A step of a thread, in its loop or in a task. *)
LEMMA ThreadKeeps ==
  ASSUME WorkerInv, NEW c \in Ctx, Loop(c) \/ \E t \in Tasks : TaskStep(c, t)
  PROVE  Keeps(c)
  <1>1. CASE Loop(c) BY <1>1, LoopKeeps
  <1>2. CASE \E t \in Tasks : TaskStep(c, t)
    <2>1. PICK t \in Tasks : TaskStep(c, t) BY <1>2
    <2> QED BY ZenonT(60), <2>1, DecideKeeps, BlockKeeps, UnblockKeeps, YieldKeeps,
               CheckMigrateKeeps, ExitKeeps DEF TaskStep
  <1> QED BY <1>1, <1>2

(* The program starts a task. *)
LEMMA StartKeeps ==
  ASSUME WorkerInv, NEW t \in Tasks, LpelTaskStart(t)
  PROVE  WorkerInv' /\ CountKept
  <1>a. TypeOK /\ Terminates \subseteq stopped /\ (\A d \in Ctx : Threaded(d))
    BY DEF WorkerInv
  <1>1. /\ TypeOK' /\ Moved(t) /\ TaskInv(t)' /\ Terminates' = Terminates
        /\ state[t] = "CREATED" /\ Becomes(t, "CREATED", worker_context[t])
    BY ZenonT(60), StartEffect
  <1>2. UNCHANGED <<num_tasks, migrated, pc, on, stopped>>
    BY DEF LpelTaskStart, workervars
  <1>3. PICK c \in Ctx : TRUE BY <1>a DEF TypeOK
  <1>4. ThreadStep(c) /\ Threaded(c)'
    BY ZenonT(60), <1>a, <1>2 DEF ThreadStep, Threaded
  <1>5. Terminates' \subseteq stopped' BY ZenonT(60), <1>a, <1>1, <1>2
  <1>6. WorkerInv' BY ZenonT(60), <1>1, <1>2, <1>4, <1>5, MovedInv
  <1>7. state'[t] \in {"CREATED", "ZOMBIE"} BY <1>1 DEF Becomes
  <1>8. \A w \in Workers : (t \in TasksOf(w))' <=> t \in TasksOf(w)
    BY <1>1, <1>7, NoOwner, NoOwnerNext
  <1> QED BY ZenonT(60), <1>1, <1>2, <1>6, <1>8, KeepsCount

(* LpelStop sends TERMINATE to a worker. *)
LEMMA StopKeeps ==
  ASSUME WorkerInv, NEW w \in Workers, LpelStop(w)
  PROVE  WorkerInv' /\ CountKept
  <1>a. TypeOK /\ Terminates \subseteq stopped /\ (\A d \in Ctx : Threaded(d))
    BY DEF WorkerInv
  <1>1. /\ TypeOK' /\ (\A u \in Tasks : Same(u))
        /\ Terminates' = Terminates \cup {w} /\ stopped' = stopped \cup {w}
    BY ZenonT(60), StopEffect
  <1>2. UNCHANGED <<num_tasks, migrated, pc, on>>
    BY DEF LpelStop, workervars
  <1>3. w \in Ctx BY DEF Ctx
  <1>4. ThreadStep(w) /\ Threaded(w)'
    BY ZenonT(60), <1>a, <1>2, <1>3 DEF ThreadStep, Threaded
  <1>5. Terminates' \subseteq stopped' BY <1>a, <1>1
  <1>6. WorkerInv' BY ZenonT(60), <1>1, <1>2, <1>3, <1>4, <1>5, SameInv
  <1> QED BY <1>1, <1>2, <1>6, KeepsAllCounts

(* A step that changes nothing. *)
LEMMA StutterKeeps ==
  ASSUME WorkerInv, Accounted, UNCHANGED vars
  PROVE  WorkerInv' /\ Accounted'
  <1>1. UNCHANGED <<mailbox, queue, num_tasks, terminate, marked_del, wraptask,
                    migrated, pc, on, state, worker_context, freed, mechanism,
                    park, started, stopped>>
    BY DEF vars, workervars, taskvars, envvars
  <1>2. /\ \A u : Runners(u)' = Runners(u) /\ Queues(u)' = Queues(u)
        /\ \A u : Wraps(u)' = Wraps(u) /\ Leaves(u)' = Leaves(u)
        /\ \A u : Assigns(u)' = Assigns(u) /\ Wakes(u)' = Wakes(u)
        /\ Terminates' = Terminates
    BY ZenonT(60), <1>1, SameRunners, SameQueues, SameWraps, SameLeaves, SameMail
  <1>3. \A u \in Tasks : Same(u) BY ZenonT(60), <1>1, <1>2 DEF Same
  <1>4. /\ TypeOK /\ Terminates \subseteq stopped /\ (\A d \in Ctx : Threaded(d))
        /\ \A u \in Tasks : TaskInv(u)
    BY DEF WorkerInv
  <1>5. TypeOK' BY <1>1, <1>4 DEF TypeOK
  <1>6. \A u \in Tasks : TaskInv(u)' BY ZenonT(60), <1>3, <1>4, AllSameKeeps
  <1>7. \A d \in Ctx : Threaded(d)' BY ZenonT(60), <1>1, <1>4 DEF Threaded
  <1>8. Terminates' \subseteq stopped' BY ZenonT(60), <1>1, <1>2, <1>4
  <1>9. WorkerInv' BY ZenonT(60), <1>5, <1>6, <1>7, <1>8 DEF WorkerInv
  <1>10. CountKept BY <1>1, <1>3, KeepsAllCounts
  <1>11. PICK c \in Ctx : TRUE
    BY WorkerAssumption DEF Ctx, Workers
  <1>12. Accounted' BY <1>4, <1>10, <1>11, CountedKeeps DEF Counted
  <1> QED BY <1>9, <1>12

(* The invariant holds before any task is started. *)
LEMMA InitInv ==
  ASSUME Init
  PROVE  WorkerInv /\ Accounted
  <1>1. \A x : Distinct(<<>>) /\ Range(<<>>) = {} BY DEF Distinct, Range
  <1>2. MailOK(mailbox) BY <1>1 DEF Init, MailOK
  <1>3. QueueOK(queue)
    BY <1>1 DEF Init, QueueOK, LpelSchedCreate, Priorities
  <1>4. TypeOK
    BY <1>2, <1>3, WorkerAssumption
       DEF Init, TypeOK, LpelTaskCreate, Slot, Pcs, States
  <1>5. \A u \in Tasks : Runners(u) = {} /\ Wraps(u) = {} /\ Leaves(u) = {}
    BY NullFacts DEF Init, Runners, Runs, Wraps, Leaves, Where
  <1>6. \A u : Queues(u) = {}
    BY <1>1 DEF Init, Queues, LpelSchedCreate
  <1>7. \A m : Holders(mailbox, m) = {} BY <1>1 DEF Init, Holders
  <1>8. \A u \in Tasks : TaskInv(u)
    <2> SUFFICES ASSUME NEW u \in Tasks PROVE TaskInv(u) OBVIOUS
    <2>1. /\ state[u] = "CREATED" /\ u \notin started /\ park[u] = "running"
          /\ worker_context[u] = Home[u]
      BY DEF Init, LpelTaskCreate
    <2>2. Nowhere(u) BY ZenonT(60), <1>5, <1>6, <1>7 DEF Nowhere, At, Assigns
    <2>3. Located(u) BY ZenonT(60), <2>1, <2>2 DEF Located
    <2>4. Parked(u) BY <1>7, <2>1 DEF Parked, Wakes
    <2>5. Homed(u) BY ZenonT(60), <1>5, <2>1 DEF Homed
    <2> QED BY <2>3, <2>4, <2>5 DEF TaskInv
  <1>9. \A d \in Ctx : Threaded(d) BY DEF Init, Threaded
  <1>10. WorkerInv BY ZenonT(60), <1>4, <1>7, <1>8, <1>9 DEF WorkerInv, Terminates
  <1>11. Accounted
    <2> SUFFICES ASSUME NEW w \in Workers
                 PROVE  num_tasks[w] = Cardinality(TasksOf(w))
      BY DEF Accounted
    <2>1. TasksOf(w) = {} BY DEF Init, LpelTaskCreate, TasksOf
    <2>2. num_tasks[w] = 0 BY CtxFacts DEF Init
    <2> QED BY <2>1, <2>2, FS_EmptySet
  <1> QED BY <1>10, <1>11

(* Every step keeps the invariant. *)
LEMMA NextKeeps ==
  ASSUME WorkerInv, Accounted, [Next]_vars
  PROVE  WorkerInv' /\ Accounted'
  <1>a. TypeOK BY InvFacts
  <1>b. PICK c0 \in Ctx : TRUE BY WorkerAssumption DEF Ctx, Workers
  <1>1. ASSUME NEW c \in Ctx, Loop(c) \/ \E t \in Tasks : TaskStep(c, t)
        PROVE  WorkerInv' /\ Accounted'
    BY ZenonT(60), <1>a, <1>1, ThreadKeeps, CountedKeeps DEF Keeps
  <1>2. ASSUME NEW t \in Tasks, LpelTaskStart(t)
        PROVE  WorkerInv' /\ Accounted'
    BY ZenonT(60), <1>a, <1>b, <1>2, StartKeeps, CountedKeeps DEF Counted
  <1>3. ASSUME NEW w \in Workers, LpelStop(w)
        PROVE  WorkerInv' /\ Accounted'
    BY ZenonT(60), <1>a, <1>b, <1>3, StopKeeps, CountedKeeps DEF Counted
  <1>4. CASE Done \/ UNCHANGED vars BY <1>4, StutterKeeps DEF Done
  <1> QED BY ZenonT(60), <1>1, <1>2, <1>3, <1>4 DEF Next, Program

(* Every task is where its state says it is, the messages about it agree   *)
(* with what it waits for, and the threads know whose stack they are on,   *)
(* in every reachable state of any number of workers, wrappers and tasks,  *)
(* whatever way tasks migrate.                                             *)
THEOREM WorkerInvariant == Spec => [](WorkerInv /\ Accounted)
  <1>1. Init => WorkerInv /\ Accounted BY InitInv
  <1>2. (WorkerInv /\ Accounted) /\ [Next]_vars => (WorkerInv /\ Accounted)'
    BY NextKeeps
  <1> QED BY <1>1, <1>2, PTL DEF Spec

(* num_tasks, which lets a worker leave its loop, is the number of tasks   *)
(* that the worker has taken up and neither finished nor sent away: no     *)
(* assignment, exit or migration is counted twice or forgotten.            *)
THEOREM TasksAccounted == Spec => []Accounted
  BY WorkerInvariant, PTL

----------------------------------------------------------------------------
(* No task is lost *)

(* The places of a task, counted as NoTaskLost counts. *)
LEMMA PlacesAt ==
  ASSUME NEW t, NEW c
  PROVE  /\ Nowhere(t) => Places(t) = {}
         /\ At(t, {c}, {}, {}, {}, {}) => Places(t) = {<<"run", c>>}
         /\ At(t, {}, {c}, {}, {}, {}) => Places(t) = {<<"queue", c>>}
         /\ At(t, {}, {}, {c}, {}, {}) => Places(t) = {<<"wrap", c>>}
         /\ At(t, {}, {}, {}, {c}, {}) => Places(t) = {<<"migrated", c>>}
         /\ At(t, {}, {}, {}, {}, {c}) => Places(t) = {<<"assign", c>>}
  <1>1. ASSUME NEW x PROVE ({x} \X {} = {}) /\ ({x} \X {c} = {<<x, c>>})
    OBVIOUS
  <1> QED BY ZenonT(60), <1>1 DEF Nowhere, At, Places

(* A started task is in one place unless it is blocked or has ended. *)
LEMMA OnePlace ==
  ASSUME NEW t \in Tasks, TaskInv(t), t \in started
  PROVE  Cardinality(Places(t)) =
           IF state[t] = "BLOCKED" \/ state[t] = "ZOMBIE" THEN 0 ELSE 1
  <1>1. CASE state[t] \in {"BLOCKED", "ZOMBIE"}
    <2>1. Nowhere(t) BY ZenonT(60), <1>1 DEF TaskInv, Located
    <2> QED BY ZenonT(60), <1>1, <2>1, PlacesAt, FS_EmptySet
  <1>2. CASE state[t] \notin {"BLOCKED", "ZOMBIE"}
    <2>1. \E c : \/ At(t, {c}, {}, {}, {}, {}) \/ At(t, {}, {c}, {}, {}, {})
                 \/ At(t, {}, {}, {c}, {}, {}) \/ At(t, {}, {}, {}, {c}, {})
                 \/ At(t, {}, {}, {}, {}, {c})
      BY ZenonT(60), <1>2 DEF TaskInv, Located
    <2>2. \E x : Places(t) = {x} BY ZenonT(60), <2>1, PlacesAt
    <2> QED BY <1>2, <2>2, FS_Singleton
  <1> QED BY <1>1, <1>2

(* A message that is in a mailbox once is counted once. *)
LEMMA TimesOf ==
  ASSUME NEW s, NEW m, Distinct(s)
  PROVE  Times(m, s) = IF m \in Range(s) THEN 1 ELSE 0
  <1> DEFINE I == {i \in DOMAIN s : s[i] = m}
  <1>1. CASE m \in Range(s)
    <2>1. PICK i \in DOMAIN s : s[i] = m BY ZenonT(60), <1>1 DEF Range
    <2>2. I = {i} BY <2>1 DEF Distinct
    <2> QED BY ZenonT(60), <1>1, <2>2, FS_Singleton DEF Times
  <1>2. CASE m \notin Range(s)
    <2>1. I = {} BY ZenonT(60), <1>2 DEF Range
    <2> QED BY <1>2, <2>1, FS_EmptySet DEF Times
  <1> QED BY <1>1, <1>2

(* The invariant has every task where NoTaskLost wants it. *)
LEMMA InvNoTaskLost ==
  ASSUME WorkerInv
  PROVE  NoTaskLost
  <1>a. TypeOK /\ (\A u \in Tasks : TaskInv(u)) BY InvFacts
  <1>1. ASSUME NEW t \in started
        PROVE  Cardinality(Places(t)) =
                 IF state[t] = "BLOCKED" \/ state[t] = "ZOMBIE" THEN 0 ELSE 1
    <2>1. t \in Tasks BY <1>a DEF TypeOK
    <2> QED BY <1>a, <2>1, OnePlace
  <1>2. ASSUME NEW t \in Tasks, NEW c \in Ctx
        PROVE  Times(Msg("WAKEUP", t), mailbox[c]) =
                 IF /\ park[t] = "granted" /\ worker_context[t] = c
                    /\ state[t] \in {"RUNNING", "BLOCKED"}
                 THEN 1 ELSE 0
    <2>1. Distinct(mailbox[c]) BY <1>a DEF TypeOK, MailOK
    <2>2. Msg("WAKEUP", t) \in Range(mailbox[c]) <=> c \in Wakes(t)
      BY ZenonT(60) DEF Wakes, Holders
    <2>3. c \in Wakes(t) <=> /\ park[t] = "granted" /\ worker_context[t] = c
                             /\ state[t] \in {"RUNNING", "BLOCKED"}
      <3>1. Wakes(t) = IF park[t] = "granted" /\ state[t] \in {"RUNNING", "BLOCKED"}
                       THEN {worker_context[t]} ELSE {}
        BY <1>a DEF TaskInv, Parked
      <3> QED BY <3>1
    <2> QED BY <2>1, <2>2, <2>3, TimesOf
  <1> QED BY ZenonT(60), <1>1, <1>2 DEF NoTaskLost

(* A started task that can run is in exactly one place (on a thread, in a  *)
(* ready queue, in a wrapper, in a loop that sends it away, or in one      *)
(* assignment), one that waits or has ended is in none, and the wakeup of  *)
(* a task that was unblocked is in the mailbox of its worker, once.        *)
THEOREM NoneLost == Spec => []NoTaskLost
  BY WorkerInvariant, InvNoTaskLost, PTL

(* The invariant has a wakeup only for a blocked task. *)
LEMMA InvWoken ==
  ASSUME WorkerInv
  PROVE  WokenTaskIsBlocked
  <1>a. TypeOK /\ (\A u \in Tasks : TaskInv(u)) BY InvFacts
  <1>1. ASSUME NEW c \in Ctx, NEW t \in Tasks, mailbox[c] # <<>>,
               Head(mailbox[c]) = Msg("WAKEUP", t), pc[c] # "run"
        PROVE  state[t] = "BLOCKED"
    <2>1. mailbox[c] \in Seq(Messages) /\ Distinct(mailbox[c])
      BY <1>a DEF TypeOK, MailOK
    <2>2. Msg("WAKEUP", t) \in Range(mailbox[c]) BY ZenonT(60), <1>1, <2>1, TailDistinct
    <2>3. c \in Wakes(t) BY ZenonT(60), <2>2 DEF Wakes, Holders
    <2> QED BY <1>a, <1>1, <2>3, WokenTask
  <1>2. ASSUME NEW c \in Ctx, NEW t \in Tasks, NEW u \in Tasks, Runs(c, t),
               park[t] = "running", park[u] = "parking",
               worker_context[u] = worker_context[t]
        PROVE  state[u] = "BLOCKED"
    BY ZenonT(60), <1>2, WaitsBlocked
  <1> QED BY ZenonT(60), <1>1, <1>2 DEF WokenTaskIsBlocked

(* The assertions of ProcessMessage and LpelWorkerTaskWakeup never fail: a *)
(* task whose wakeup is handled, or that is woken directly by a task of    *)
(* its own worker, has got as far as LpelTaskBlockStream, and has not been *)
(* made ready by anyone else.                                              *)
THEOREM WakeupsInOrder == Spec => []WokenTaskIsBlocked
  BY WorkerInvariant, InvWoken, PTL

----------------------------------------------------------------------------
(* Stacks, and what a worker that has left leaves behind *)

InLoop == {"loop", "wait", "fetch"}

(* A step that neither ends nor destroys a task, and lets no thread leave. *)
Plain(c) ==
  /\ UNCHANGED <<terminate, marked_del, freed, started, stopped>>
  /\ Terminates' = Terminates /\ pc'[c] # "exit"
  /\ pc'[c] \in InLoop => pc[c] \in InLoop
  /\ mechanism = "none" => migrated' = migrated
  /\ \A u \in Tasks : state'[u] = "ZOMBIE" => state[u] = "ZOMBIE"
  /\ mechanism # "wait_prop" => \A u \in Tasks : on'[c] = u =>
       \/ on[c] = u /\ worker_context'[u] = worker_context[u]
       \/ worker_context'[u] = c /\ state'[u] # "ZOMBIE"

PlainAction(c) ==
  \/ FetchMessage(c) /\ ~ProcessTerminate(c)
  \/ WaitForNewMessage(c) /\ ~ProcessTerminate(c)
  \/ LpelWorkerDispatcher(c) \/ LoopRun(c) \/ LoopIdle(c) \/ LoopAgain(c)
  \/ \E t \in Tasks : \/ Decide(c, t) \/ LpelTaskBlockStream(c, t)
                      \/ \E whom \in Tasks : LpelTaskUnblock(c, t, whom)
                      \/ LpelTaskYield(c, t) \/ LpelTaskCheckMigrate(c, t)

(* LpelWorkerMakeTaskReady sends a task away only under                    *)
(* LPEL_MIG_WAIT_PROP.                                                     *)
LEMMA ReadyStays ==
  ASSUME NEW t, NEW mb, LpelWorkerMakeTaskReady(t, mb), mechanism # "wait_prop"
  PROVE  worker_context' = worker_context
  BY ZenonT(60) DEF LpelWorkerMakeTaskReady, WaitPropTargets

(* Handling a message other than TERMINATE ends no task and no worker. *)
LEMMA PlainHandle ==
  ASSUME WorkerInv, NEW c \in Ctx, FetchMessage(c) \/ WaitForNewMessage(c),
         ~ProcessTerminate(c)
  PROVE  Plain(c)
  <1>a. TypeOK BY InvFacts
  <1>1. Handles(c) /\ (ProcessWakeup(c) \/ ProcessAssign(c))
    BY <1>a, HandlesMessage
  <1>2. /\ UNCHANGED <<marked_del, freed, started, stopped, migrated, on>>
        /\ pc'[c] # "exit" /\ (pc'[c] \in InLoop => pc[c] \in InLoop)
    BY <1>1 DEF Handles, envvars, InLoop
  <1>3. Terminates' = Terminates
    BY ZenonT(60), <1>1, WakeupEffect, AssignEffect
  <1>4. /\ terminate' = terminate
        /\ state' = [state EXCEPT ![Head(mailbox[c]).task] = "READY"]
    BY ZenonT(60), <1>1 DEF ProcessWakeup, ProcessAssign
  <1>5. \A u \in Tasks : state'[u] = "ZOMBIE" => state[u] = "ZOMBIE"
    BY <1>a, <1>4 DEF TypeOK
  <1>6. mechanism # "wait_prop" => worker_context' = worker_context
    BY ZenonT(60), <1>1, ReadyStays DEF ProcessWakeup, ProcessAssign
  <1> QED BY ZenonT(60), <1>2, <1>3, <1>4, <1>5, <1>6 DEF Plain

(* Nor do the dispatcher and the other steps of the loop. *)
LEMMA PlainLoop ==
  ASSUME WorkerInv, NEW c \in Ctx,
         LpelWorkerDispatcher(c) \/ LoopRun(c) \/ LoopIdle(c) \/ LoopAgain(c)
  PROVE  Plain(c)
  <1>a. TypeOK BY InvFacts
  <1>1. UNCHANGED <<mailbox, terminate, marked_del, freed, started, stopped,
                    migrated, worker_context>>
    BY ZenonT(60) DEF LpelWorkerDispatcher, LoopRun, LoopIdle, LoopAgain, workervars, taskvars,
           envvars
  <1>2. Terminates' = Terminates BY ZenonT(60), <1>1, SameMail
  <1>3. CASE \E t \in Slot : SwitchTo(c, t)
    <2>1. PICK t \in Slot : SwitchTo(c, t) BY <1>3
    <2>2. /\ pc'[c] = "run" /\ on'[c] = t
          /\ \A u \in Tasks : state'[u] = "ZOMBIE" => state[u] = "ZOMBIE"
          /\ t \in Tasks => state'[t] = "RUNNING"
      BY <1>a, <2>1 DEF SwitchTo, TypeOK
    <2>3. t \in Tasks => worker_context'[t] = c
      <3>1. ASSUME t \in Tasks PROVE Runs(c, t)' BY <2>2 DEF Runs
      <3>2. WorkerInv' BY ThreadKeeps DEF Loop, Keeps
      <3>3. ASSUME t \in Tasks PROVE (TaskInv(t))' BY <3>2, <3>3 DEF WorkerInv
      <3>4. ASSUME t \in Tasks PROVE c \in Runners(t)'
        BY <3>1, <3>4 DEF Runners
      <3> QED BY ZenonT(60), <3>3, <3>4 DEF TaskInv, Located, At, Nowhere
    <2> QED BY ZenonT(60), <1>1, <1>2, <2>2, <2>3 DEF Plain, InLoop
  <1>4. CASE ~\E t \in Slot : SwitchTo(c, t)
    <2>1. /\ state' = state /\ (on'[c] = on[c] \/ on'[c] = NULL)
          /\ pc'[c] # "exit" /\ (pc'[c] \in InLoop => pc[c] \in InLoop)
      <3>1. Tasks \subseteq Slot /\ (wraptask[c] \in Slot) BY <1>a DEF Slot, TypeOK
      <3>2. CASE LpelWorkerDispatcher(c)
        <4>1. SwitchToLoop(c) /\ UNCHANGED state
          BY ZenonT(60), <1>4, <3>1, <3>2 DEF LpelWorkerDispatcher
        <4> QED BY <1>a, <4>1 DEF SwitchToLoop, TypeOK, InLoop
      <3>3. CASE LoopRun(c) BY ZenonT(60), <1>4, <3>1, <3>3 DEF LoopRun
      <3>4. CASE LoopIdle(c) \/ LoopAgain(c)
        BY ZenonT(60), <1>a, <3>4 DEF LoopIdle, LoopAgain, taskvars, TypeOK, InLoop
      <3> QED BY <3>2, <3>3, <3>4
    <2> QED BY ZenonT(60), <1>1, <1>2, <2>1, NullFacts DEF Plain
  <1> QED BY <1>3, <1>4

(* Nor do the operations of a task other than its exit. *)
LEMMA PlainTask ==
  ASSUME WorkerInv, NEW c \in Ctx, NEW t \in Tasks,
         \/ Decide(c, t) \/ LpelTaskBlockStream(c, t)
         \/ \E whom \in Tasks : LpelTaskUnblock(c, t, whom)
         \/ LpelTaskYield(c, t) \/ LpelTaskCheckMigrate(c, t)
  PROVE  Plain(c)
  <1>a. TypeOK BY InvFacts
  <1>1. UNCHANGED <<terminate, marked_del, freed, started, stopped>>
    BY DEF Decide, LpelTaskBlockStream, LpelTaskUnblock, LpelTaskYield,
           LpelTaskCheckMigrate, workervars, taskvars, envvars
  <1>2. Terminates' = Terminates
    <2>1. CASE \E whom \in Tasks : LpelTaskUnblock(c, t, whom)
      BY ZenonT(60), <2>1, UnblockFar, UnblockNear
    <2>2. CASE ~\E whom \in Tasks : LpelTaskUnblock(c, t, whom)
      <3>1. mailbox' = mailbox
        BY <2>2 DEF Decide, LpelTaskBlockStream, LpelTaskYield, LpelTaskCheckMigrate
      <3> QED BY ZenonT(60), <3>1, SameMail
    <2> QED BY <2>1, <2>2
  <1>3. \A u \in Tasks : state'[u] = "ZOMBIE" => state[u] = "ZOMBIE"
    <2>1. \/ state' = state
          \/ \E u \in Tasks : \/ state' = [state EXCEPT ![u] = "READY"]
                              \/ state' = [state EXCEPT ![u] = "BLOCKED"]
      BY DEF Decide, LpelTaskBlockStream, LpelTaskUnblock, LpelTaskYield,
             LpelTaskCheckMigrate, taskvars
    <2> QED BY <1>a, <2>1 DEF TypeOK
  <1>4. \/ /\ on' = on /\ migrated' = migrated /\ pc'[c] \in {"run", "disp"}
           /\ mechanism # "wait_prop" => worker_context' = worker_context
        \/ on'[c] = NULL /\ pc'[c] = "back" /\ mechanism # "none"
    <2>1. CASE Decide(c, t)
      BY ZenonT(60), <1>a, <2>1 DEF Decide, Runs, workervars, taskvars
    <2>2. CASE LpelTaskBlockStream(c, t)
      BY <1>a, <2>2 DEF LpelTaskBlockStream, TypeOK, workervars
    <2>3. CASE \E whom \in Tasks : LpelTaskUnblock(c, t, whom)
      <3>1. PICK whom \in Tasks : LpelTaskUnblock(c, t, whom) BY <2>3
      <3>2. UNCHANGED <<on, migrated, pc>> /\ Runs(c, t)
        BY <3>1 DEF LpelTaskUnblock
      <3>3. mechanism # "wait_prop" => worker_context' = worker_context
        BY ZenonT(60), <3>1, ReadyStays DEF LpelTaskUnblock
      <3> QED BY ZenonT(60), <3>2, <3>3 DEF Runs
    <2>4. CASE \E target \in Ctx : /\ LpelWorkerSelfTaskMigrate(c, t, target)
                                   /\ mechanism # "none"
      BY <1>a, <2>4 DEF LpelWorkerSelfTaskMigrate, SwitchToLoop, TypeOK
    <2>5. CASE LpelTaskYield(c, t)
      <3>1. CASE pc' = [pc EXCEPT ![c] = "disp"]
                 /\ UNCHANGED <<on, worker_context, migrated>>
        BY <1>a, <3>1 DEF TypeOK
      <3>2. WaitPropTargets \subseteq Ctx
            /\ (WaitPropTargets # {} => mechanism # "none")
        BY DEF WaitPropTargets, Ctx
      <3> QED BY ZenonT(60), <2>4, <2>5, <3>1, <3>2 DEF LpelTaskYield
    <2>6. CASE LpelTaskCheckMigrate(c, t)
      BY <2>4, <2>6 DEF LpelTaskCheckMigrate, Ctx
    <2> QED BY ZenonT(60), <2>1, <2>2, <2>3, <2>5, <2>6
  <1> QED BY ZenonT(60), <1>1, <1>2, <1>3, <1>4, NullFacts DEF Plain, InLoop

(* The steps that end neither a task nor a worker. *)
LEMMA PlainSteps ==
  ASSUME WorkerInv, NEW c \in Ctx, PlainAction(c)
  PROVE  Plain(c)
  BY ZenonT(60), PlainHandle, PlainLoop, PlainTask DEF PlainAction

(* The two parts of StackInv. *)
MarkInv ==
  /\ \A c \in Ctx : \A t \in Tasks : marked_del[c] = t =>
       worker_context[t] = c /\ state[t] = "ZOMBIE" /\ t \notin freed
  /\ \A t \in freed : state[t] = "ZOMBIE"

OnInv == \A c \in Ctx : \A t \in Tasks : on[c] = t =>
           /\ worker_context[t] = c
           /\ state[t] = "ZOMBIE" => marked_del[c] = t

(* The parts of the invariant on stacks. *)
LEMMA StackParts ==
  /\ StackInv <=> MarkInv /\ (mechanism # "wait_prop" => OnInv)
  /\ StackInv' <=> MarkInv' /\ (mechanism' # "wait_prop" => OnInv')
  BY ZenonT(60) DEF StackInv, MarkInv, OnInv

(* A step that ends nothing keeps the invariant on stacks. *)
LEMMA StackPlain ==
  ASSUME TypeOK, StackInv, NEW c \in Ctx, StepOf(c), Plain(c)
  PROVE  StackInv'
  <1>1. UNCHANGED <<marked_del, freed, mechanism>> BY ZenonT(60) DEF Plain, StepOf
  <1>2. MarkInv'
    <2>1. MarkInv /\ freed \subseteq Tasks BY StackParts DEF TypeOK
    <2> QED BY ZenonT(60), <1>1, <2>1 DEF MarkInv, StepOf
  <1>3. ASSUME mechanism # "wait_prop" PROVE OnInv'
    <2>1. OnInv BY <1>3, StackParts
    <2>2. ASSUME NEW d \in Ctx, NEW u \in Tasks, on'[d] = u, d # c
          PROVE  worker_context'[u] = d /\ (state'[u] = "ZOMBIE" => marked_del'[d] = u)
      <3>1. on[d] = u BY ZenonT(60), <2>2 DEF StepOf, ThreadStep
      <3>2. worker_context[u] = d /\ (state[u] = "ZOMBIE" => marked_del[d] = u)
        BY <2>1, <3>1 DEF OnInv
      <3>3. state'[u] = state[u] /\ worker_context'[u] = worker_context[u]
        BY <2>2, <3>2 DEF StepOf
      <3> QED BY <1>1, <3>2, <3>3
    <2>3. ASSUME NEW u \in Tasks, on'[c] = u
          PROVE  worker_context'[u] = c /\ (state'[u] = "ZOMBIE" => marked_del'[c] = u)
      <3>1. CASE on[c] = u /\ worker_context'[u] = worker_context[u]
        <4>1. worker_context[u] = c /\ (state[u] = "ZOMBIE" => marked_del[c] = u)
          BY <2>1, <3>1 DEF OnInv
        <4> QED BY ZenonT(60), <1>1, <3>1, <4>1 DEF Plain
      <3>2. CASE worker_context'[u] = c /\ state'[u] # "ZOMBIE" BY <3>2
      <3> QED BY ZenonT(60), <1>3, <2>3, <3>1, <3>2 DEF Plain
    <2> QED BY ZenonT(60), <2>2, <2>3 DEF OnInv
  <1> QED BY <1>1, <1>2, <1>3, StackParts

(* A step that touches no stack keeps the invariant on stacks. *)
LEMMA StackSame ==
  ASSUME StackInv,
         UNCHANGED <<marked_del, freed, on, state, worker_context, mechanism>>
  PROVE  StackInv'
  BY ZenonT(60) DEF StackInv

(* The loop of a worker, on no stack of a task, destroys the marked task. *)
LEMMA StackCleanup ==
  ASSUME TypeOK, StackInv, NEW c \in Ctx, CleanupTaskContext(c, NULL),
         on[c] = NULL, UNCHANGED <<on, state, worker_context, mechanism>>
  PROVE  StackInv' /\ marked_del'[c] = NULL
  <1>1. /\ marked_del'[c] = NULL /\ freed' = freed \cup ({marked_del[c]} \ {NULL})
        /\ \A d \in Ctx \ {c} : marked_del'[d] = marked_del[d]
        /\ marked_del[c] \in Slot
    BY DEF CleanupTaskContext, LpelTaskDestroy, TypeOK
  <1>2. MarkInv BY StackParts
  <1>3. MarkInv'
    <2>1. ASSUME NEW d \in Ctx, NEW t \in Tasks, marked_del'[d] = t
          PROVE  worker_context'[t] = d /\ state'[t] = "ZOMBIE" /\ t \notin freed'
      <3>1. d # c /\ marked_del[d] = t BY <1>1, <2>1, NullFacts
      <3>2. worker_context[t] = d /\ state[t] = "ZOMBIE" /\ t \notin freed
        BY <1>2, <3>1 DEF MarkInv
      <3>3. marked_del[c] # t BY <1>2, <3>1, <3>2 DEF MarkInv
      <3> QED BY ZenonT(60), <1>1, <3>2, <3>3
    <2>2. ASSUME NEW t \in freed' PROVE state'[t] = "ZOMBIE"
      BY <1>1, <1>2, <2>2 DEF MarkInv, Slot
    <2> QED BY ZenonT(60), <2>1, <2>2 DEF MarkInv
  <1>4. ASSUME mechanism # "wait_prop" PROVE OnInv'
    <2>1. OnInv BY <1>4, StackParts
    <2>2. ASSUME NEW d \in Ctx, NEW t \in Tasks, on'[d] = t
          PROVE  worker_context'[t] = d /\ (state'[t] = "ZOMBIE" => marked_del'[d] = t)
      <3>1. on[d] = t /\ d # c BY <2>2, NullFacts
      <3>2. worker_context[t] = d /\ (state[t] = "ZOMBIE" => marked_del[d] = t)
        BY <2>1, <3>1 DEF OnInv
      <3> QED BY <1>1, <3>1, <3>2
    <2> QED BY ZenonT(60), <2>2 DEF OnInv
  <1> QED BY <1>1, <1>3, <1>4, StackParts

(* LpelTaskExit marks the task for deletion. *)
LEMMA StackExit ==
  ASSUME WorkerInv, StackInv, NEW c \in Ctx, NEW t \in Tasks, LpelTaskExit(c, t)
  PROVE  StackInv'
  <1>a. TypeOK BY InvFacts
  <1>1. /\ Runs(c, t) /\ state' = [state EXCEPT ![t] = "ZOMBIE"]
        /\ CleanupTaskContext(c, t) /\ UNCHANGED <<on, worker_context, mechanism>>
    BY DEF LpelTaskExit, LpelWorkerSelfTaskExit, envvars
  <1>2. on[c] = t /\ state[t] = "RUNNING" /\ worker_context[t] = c
    BY ZenonT(60), <1>1, RunsFacts
  <1>3. /\ marked_del'[c] = t /\ freed' = freed \cup ({marked_del[c]} \ {NULL})
        /\ \A d \in Ctx \ {c} : marked_del'[d] = marked_del[d]
        /\ marked_del[c] \in Slot /\ state'[t] = "ZOMBIE"
        /\ \A u \in Tasks \ {t} : state'[u] = state[u]
    BY <1>a, <1>1 DEF CleanupTaskContext, LpelTaskDestroy, TypeOK
  <1>4. MarkInv BY StackParts
  <1>5. t \notin freed /\ \A d \in Ctx : marked_del[d] # t
    BY <1>2, <1>4 DEF MarkInv
  <1>6. MarkInv'
    <2>1. ASSUME NEW d \in Ctx, NEW u \in Tasks, marked_del'[d] = u
          PROVE  worker_context'[u] = d /\ state'[u] = "ZOMBIE" /\ u \notin freed'
      <3>1. CASE d = c BY <1>1, <1>2, <1>3, <1>5, <2>1, <3>1
      <3>2. CASE d # c
        <4>1. marked_del[d] = u BY <1>3, <2>1, <3>2
        <4>2. worker_context[u] = d /\ state[u] = "ZOMBIE" /\ u \notin freed
          BY <1>4, <4>1 DEF MarkInv
        <4>3. marked_del[c] # u BY <1>4, <3>2, <4>2 DEF MarkInv
        <4> QED BY <1>1, <1>2, <1>3, <4>2, <4>3
      <3> QED BY <3>1, <3>2
    <2>2. ASSUME NEW u \in freed' PROVE state'[u] = "ZOMBIE"
      <3>1. u \in Tasks /\ state[u] = "ZOMBIE"
        <4>1. CASE u \in freed
          BY <1>a, <1>4, <4>1 DEF MarkInv, TypeOK
        <4>2. CASE u = marked_del[c] /\ u # NULL
          <5>1. u \in Tasks BY <1>3, <4>2 DEF Slot
          <5> QED BY <1>4, <4>2, <5>1 DEF MarkInv
        <4>3. u \in freed \/ (u = marked_del[c] /\ u # NULL)
          BY <1>3, <2>2
        <4> QED BY <4>1, <4>2, <4>3
      <3> QED BY <1>2, <1>3, <3>1
    <2> QED BY ZenonT(60), <2>1, <2>2 DEF MarkInv
  <1>7. ASSUME mechanism # "wait_prop" PROVE OnInv'
    <2>1. OnInv BY <1>7, StackParts
    <2>2. ASSUME NEW d \in Ctx, NEW u \in Tasks, on'[d] = u
          PROVE  worker_context'[u] = d /\ (state'[u] = "ZOMBIE" => marked_del'[d] = u)
      <3>1. on[d] = u BY <1>1, <2>2
      <3>2. worker_context[u] = d /\ (state[u] = "ZOMBIE" => marked_del[d] = u)
        BY <2>1, <3>1 DEF OnInv
      <3>3. CASE d = c BY <1>1, <1>2, <1>3, <3>1, <3>2, <3>3
      <3>4. CASE d # c BY ZenonT(60), <1>1, <1>2, <1>3, <3>2, <3>4
      <3> QED BY <3>3, <3>4
    <2> QED BY ZenonT(60), <2>2 DEF OnInv
  <1> QED BY <1>1, <1>6, <1>7, StackParts

(* The other steps of a thread. *)
LEMMA NotPlain ==
  ASSUME NEW c \in Ctx, Loop(c) \/ \E t \in Tasks : TaskStep(c, t)
  PROVE  \/ PlainAction(c)
         \/ (FetchMessage(c) \/ WaitForNewMessage(c)) /\ ProcessTerminate(c)
         \/ LoopBack(c) \/ LoopExit(c) \/ \E t \in Tasks : LpelTaskExit(c, t)
  BY ZenonT(60) DEF Loop, TaskStep, PlainAction

(* Every step keeps the invariant on stacks. *)
LEMMA StackKeeps ==
  ASSUME WorkerInv, StackInv, [Next]_vars
  PROVE  StackInv'
  <1>a. TypeOK BY InvFacts
  <1>1. ASSUME NEW c \in Ctx, Loop(c) \/ \E t \in Tasks : TaskStep(c, t)
        PROVE  StackInv'
    <2>1. CASE PlainAction(c)
      BY ZenonT(60), <1>a, <1>1, <2>1, ThreadKeeps, PlainSteps, StackPlain DEF Keeps
    <2>2. CASE (FetchMessage(c) \/ WaitForNewMessage(c)) /\ ProcessTerminate(c)
      <3>1. UNCHANGED <<marked_del, freed, on, state, worker_context, mechanism>>
        BY <2>2 DEF FetchMessage, WaitForNewMessage, ProcessTerminate, envvars
      <3> QED BY <3>1, StackSame
    <2>3. CASE LoopBack(c) \/ LoopExit(c)
      <3>1. /\ pc[c] \in {"back", "fetch"}
            /\ UNCHANGED <<on, state, worker_context, mechanism>>
            /\ CleanupTaskContext(c, NULL) \/ UNCHANGED <<freed, marked_del>>
        BY ZenonT(60), <2>3 DEF LoopBack, LoopExit, envvars
      <3>2. on[c] = NULL
        <4>1. Threaded(c) BY InvFacts
        <4> QED BY <3>1, <4>1 DEF Threaded
      <3> QED BY <1>a, <3>1, <3>2, StackCleanup, StackSame
    <2>4. CASE \E t \in Tasks : LpelTaskExit(c, t) BY <2>4, StackExit
    <2> QED BY ZenonT(60), <1>1, <2>1, <2>2, <2>3, <2>4, NotPlain
  <1>2. CASE Program \/ Done \/ UNCHANGED vars
    <2>1. UNCHANGED <<marked_del, freed, on, state, worker_context, mechanism>>
      BY ZenonT(60), <1>2 DEF Program, LpelTaskStart, LpelStop, Done, vars, workervars, taskvars,
                  envvars
    <2> QED BY <2>1, StackSame
  <1> QED BY ZenonT(60), <1>1, <1>2 DEF Next

(* The invariants on places and on stacks hold always. *)
LEMMA StackInvariant == Spec => [](WorkerInv /\ StackInv)
  <1>1. Init => StackInv
    <2> SUFFICES ASSUME Init PROVE StackInv OBVIOUS
    <2>1. freed = {} /\ \A c \in Ctx : marked_del[c] = NULL /\ on[c] = NULL
      BY DEF Init
    <2> QED BY ZenonT(60), <2>1, NullFacts DEF StackInv
  <1>2. WorkerInv /\ StackInv /\ [Next]_vars => StackInv' BY StackKeeps
  <1> QED BY <1>1, <1>2, WorkerInvariant, PTL DEF Spec

(* Without LPEL_MIG_WAIT_PROP, no two threads are ever on the stack of one *)
(* task, and no thread is on the stack of a task that has been destroyed:  *)
(* the deferred deletion of CleanupTaskContext and the detour of migrating *)
(* tasks through the loop are enough, for any number of workers and tasks. *)
(* (With LPEL_MIG_WAIT_PROP a task may be sent away from its own stack.)   *)
THEOREM StacksApart == Spec => [](mechanism # "wait_prop" => OneThreadPerStack)
  <1>1. WorkerInv /\ StackInv => (mechanism # "wait_prop" => OneThreadPerStack)
    <2> SUFFICES ASSUME WorkerInv, StackInv, mechanism # "wait_prop"
                 PROVE  OneThreadPerStack
      OBVIOUS
    <2>1. TypeOK BY InvFacts
    <2>2. MarkInv /\ OnInv BY StackParts
    <2>3. ASSUME NEW c \in Ctx, NEW d \in Ctx, on[c] = on[d], c # d
          PROVE  on[c] = NULL
      <3>1. on[c] \in Slot BY <2>1 DEF TypeOK
      <3> QED BY <2>2, <2>3, <3>1 DEF OnInv, Slot
    <2>4. ASSUME NEW c \in Ctx PROVE on[c] \notin freed
      <3>1. on[c] \in Slot /\ freed \subseteq Tasks BY <2>1 DEF TypeOK
      <3> QED BY ZenonT(60), <2>2, <3>1, NullFacts DEF OnInv, MarkInv, Slot
    <2> QED BY ZenonT(60), <2>3, <2>4 DEF OneThreadPerStack
  <1> QED BY <1>1, StackInvariant, PTL

(* ExitInv in three parts: what the program has done, who may terminate,   *)
(* and what is left of a worker.                                           *)
StopInv ==
  /\ stopped # {} => started = Tasks
  /\ stopped # {} /\ ~StopEarly => \A t \in Tasks : state[t] = "ZOMBIE"
  /\ mechanism = "none" => \A c \in Ctx : migrated[c] = NULL

EndInv(c) ==
  /\ c \in Terminates => ~terminate[c]
  /\ terminate[c] /\ c >= 0 => c \in stopped
  /\ terminate[c] /\ c < 0 =>
       \A t \in Tasks : worker_context[t] = c => state[t] = "ZOMBIE"
  /\ pc[c] = "exit" => terminate[c]

LeftInv(c) ==
  /\ pc[c] = "exit" /\ (mechanism = "none" \/ ~StopEarly) =>
       \A t \in Tasks : worker_context[t] = c => state[t] = "ZOMBIE"
  /\ pc[c] = "exit" \/ (pc[c] \in InLoop /\ c >= 0) => marked_del[c] = NULL

(* The parts of the invariant on exits. *)
LEMMA ExitParts ==
  /\ ExitInv <=> StopInv /\ \A c \in Ctx : EndInv(c) /\ LeftInv(c)
  /\ ExitInv' <=> StopInv' /\ \A c \in Ctx : EndInv(c)' /\ LeftInv(c)'
  <1>1. ExitInv <=> StopInv /\ \A c \in Ctx : EndInv(c) /\ LeftInv(c)
    BY ZenonT(60) DEF ExitInv, StopInv, EndInv, LeftInv, InLoop
  <1>2. ExitInv' <=> StopInv' /\ \A c \in Ctx : EndInv(c)' /\ LeftInv(c)'
    BY ZenonT(60) DEF ExitInv, StopInv, EndInv, LeftInv, InLoop
  <1> QED BY <1>1, <1>2

(* When all tasks of a program have ended, they have on every worker. *)
LEMMA AllEnded ==
  ASSUME ExitInv, NEW d \in Ctx, pc[d] = "exit", ~StopEarly
  PROVE  \A t \in Tasks : worker_context[t] = d => state[t] = "ZOMBIE"
  <1>1. StopInv /\ EndInv(d) BY ExitParts
  <1>2. CASE d >= 0
    <2>1. stopped # {} BY ZenonT(60), <1>1, <1>2 DEF EndInv
    <2> QED BY <1>1, <2>1 DEF StopInv
  <1>3. CASE d < 0 BY ZenonT(60), <1>1, <1>3 DEF EndInv
  <1> QED BY <1>2, <1>3, CtxFacts

(* A thread that does not take the step keeps its part. *)
LEMMA OtherEnds ==
  ASSUME TypeOK, TypeOK', ExitInv, NEW c \in Ctx, StepOf(c),
         NEW d \in Ctx, d # c,
         stopped' = stopped, terminate'[d] = terminate[d],
         d \in Terminates' => d \in Terminates, marked_del'[d] = marked_del[d]
  PROVE  EndInv(d)' /\ LeftInv(d)'
  <1>1. EndInv(d) /\ LeftInv(d) BY ZenonT(60), ExitParts
  <1>2. pc'[d] = pc[d] /\ mechanism' = mechanism BY ZenonT(60) DEF StepOf, ThreadStep
  <1>3. ASSUME NEW t \in Tasks, worker_context'[t] = d,
               d < 0 \/ mechanism = "none"
        PROVE  worker_context[t] = d
    BY <1>3, CtxFacts DEF StepOf
  <1>4. ASSUME terminate[d], d < 0, NEW t \in Tasks, worker_context'[t] = d
        PROVE  state'[t] = "ZOMBIE"
    BY ZenonT(60), <1>1, <1>3, <1>4 DEF EndInv, StepOf
  <1>5. EndInv(d)' BY ZenonT(60), <1>1, <1>2, <1>4 DEF EndInv
  <1>6. ASSUME pc[d] = "exit", mechanism = "none" \/ ~StopEarly,
               NEW t \in Tasks, worker_context'[t] = d
        PROVE  state'[t] = "ZOMBIE"
    <2>1. CASE mechanism = "none"
      BY ZenonT(60), <1>1, <1>3, <1>6, <2>1 DEF LeftInv, StepOf
    <2>2. CASE ~StopEarly
      <3>1. EndInv(d) /\ StopInv BY ZenonT(60), ExitParts
      <3>2. CASE d >= 0
        <4>1. stopped # {} BY ZenonT(60), <1>6, <3>1, <3>2 DEF EndInv
        <4> QED BY ZenonT(60), <2>2, <3>1, <4>1 DEF StopInv, StepOf
      <3>3. CASE d < 0 BY ZenonT(60), <1>4, <1>6, <3>1, <3>3 DEF EndInv
      <3> QED BY <3>2, <3>3, CtxFacts
    <2> QED BY <1>6, <2>1, <2>2
  <1>7. LeftInv(d)' BY ZenonT(60), <1>1, <1>2, <1>6 DEF LeftInv
  <1> QED BY <1>5, <1>7

(* A step of a thread keeps what is known of the program. *)
LEMMA StopInvKeeps ==
  ASSUME ExitInv, NEW c \in Ctx, StepOf(c), UNCHANGED <<started, stopped>>,
         mechanism = "none" => migrated' = migrated
  PROVE  StopInv'
  <1>1. StopInv /\ mechanism' = mechanism BY ExitParts DEF StepOf
  <1>2. stopped' # {} => started' = Tasks BY <1>1 DEF StopInv
  <1>3. ASSUME stopped' # {}, ~StopEarly, NEW t \in Tasks
        PROVE  state'[t] = "ZOMBIE"
    BY ZenonT(60), <1>1, <1>3 DEF StopInv, StepOf
  <1>4. ASSUME mechanism' = "none", NEW d \in Ctx PROVE migrated'[d] = NULL
    BY ZenonT(60), <1>1, <1>4 DEF StopInv
  <1> QED BY ZenonT(60), <1>2, <1>3, <1>4 DEF StopInv

(* A step that ends nothing keeps the invariant on exits. *)
LEMMA ExitPlain ==
  ASSUME TypeOK, TypeOK', ExitInv, NEW c \in Ctx, StepOf(c), Plain(c)
  PROVE  ExitInv'
  <1>1. /\ UNCHANGED <<terminate, marked_del, started, stopped>>
        /\ Terminates' = Terminates /\ pc'[c] # "exit"
        /\ pc'[c] \in InLoop => pc[c] \in InLoop
        /\ mechanism = "none" => migrated' = migrated
    BY DEF Plain
  <1>2. StopInv' BY ZenonT(60), <1>1, StopInvKeeps
  <1>3. \A d \in Ctx \ {c} : EndInv(d)' /\ LeftInv(d)'
    BY ZenonT(60), <1>1, OtherEnds
  <1>4. EndInv(c) /\ LeftInv(c) BY ExitParts
  <1>5. ASSUME terminate[c], c < 0, NEW t \in Tasks, worker_context'[t] = c
        PROVE  state'[t] = "ZOMBIE"
    <2>1. worker_context[t] = c BY <1>5, CtxFacts DEF StepOf
    <2> QED BY ZenonT(60), <1>4, <1>5, <2>1 DEF EndInv, StepOf
  <1>6. EndInv(c)' BY ZenonT(60), <1>1, <1>4, <1>5 DEF EndInv
  <1>7. LeftInv(c)' BY ZenonT(60), <1>1, <1>4 DEF LeftInv
  <1> QED BY ZenonT(60), <1>2, <1>3, <1>6, <1>7, ExitParts

(* A worker is told to leave. *)
LEMMA ExitTerminate ==
  ASSUME WorkerInv, ExitInv, NEW c \in Ctx, StepOf(c), TypeOK',
         FetchMessage(c) \/ WaitForNewMessage(c), ProcessTerminate(c)
  PROVE  ExitInv'
  <1>a. TypeOK /\ Terminates \subseteq stopped BY DEF WorkerInv
  <1>1. Handles(c) BY <1>a, HandlesMessage
  <1>2. c \in Terminates /\ Terminates' = Terminates \ {c}
    BY ZenonT(60), <1>1, TerminateEffect
  <1>3. /\ terminate' = [terminate EXCEPT ![c] = TRUE]
        /\ UNCHANGED <<marked_del, migrated, state, worker_context, started,
                       stopped>>
        /\ pc[c] \in {"fetch", "wait", "disp"}
        /\ pc'[c] = (IF pc[c] = "wait" THEN "fetch" ELSE pc[c])
    BY <1>1 DEF ProcessTerminate, Handles, envvars
  <1>4. c \in stopped /\ c >= 0 /\ ~(c < 0) BY <1>a, <1>2, CtxFacts DEF TypeOK
  <1>5. StopInv' BY ZenonT(60), <1>3, StopInvKeeps
  <1>6. terminate'[c] = TRUE /\ \A d \in Ctx \ {c} : terminate'[d] = terminate[d]
    BY <1>a, <1>3 DEF TypeOK
  <1>7. \A d \in Ctx \ {c} : EndInv(d)' /\ LeftInv(d)'
    BY ZenonT(60), <1>a, <1>2, <1>3, <1>6, OtherEnds
  <1>8. c \notin Terminates' /\ pc'[c] # "exit" BY ZenonT(60), <1>2, <1>3
  <1>9. EndInv(c)' BY ZenonT(60), <1>3, <1>4, <1>6, <1>8 DEF EndInv
  <1>10. LeftInv(c)'
    <2>1. LeftInv(c) BY ExitParts
    <2>2. pc'[c] \in InLoop => pc[c] \in InLoop BY ZenonT(60), <1>3 DEF InLoop
    <2> QED BY ZenonT(60), <1>3, <1>8, <2>1, <2>2 DEF LeftInv
  <1> QED BY ZenonT(60), <1>5, <1>7, <1>9, <1>10, ExitParts

(* A worker is back in its loop, and has sent away a migrating task. *)
LEMMA ExitLoopBack ==
  ASSUME WorkerInv, ExitInv, NEW c \in Ctx, StepOf(c), TypeOK', LoopBack(c)
  PROVE  ExitInv'
  <1>a. TypeOK BY InvFacts
  <1>1. /\ pc[c] = "back" /\ pc' = [pc EXCEPT ![c] = "fetch"]
        /\ UNCHANGED <<terminate, state, worker_context, started, stopped>>
        /\ c >= 0 => CleanupTaskContext(c, NULL)
        /\ ~(c >= 0) => UNCHANGED <<freed, marked_del>>
    BY ZenonT(60) DEF LoopBack, envvars
  <1>2. /\ pc'[c] = "fetch" /\ (c >= 0 => marked_del'[c] = NULL)
        /\ \A d \in Ctx \ {c} : marked_del'[d] = marked_del[d]
    BY ZenonT(60), <1>a, <1>1 DEF CleanupTaskContext, TypeOK
  <1>3. Terminates' = Terminates
    <2>1. PICK t : t = migrated[c] OBVIOUS
    <2>2. CASE c >= 0 /\ t # NULL
      <3>1. /\ t \in Tasks
            /\ mailbox' = [mailbox EXCEPT ![worker_context[t]] =
                             Append(@, Msg("ASSIGN", t))]
        BY ZenonT(60), <1>a, <2>1, <2>2 DEF LoopBack, TypeOK, Slot
      <3>2. TaskInv(t) BY <3>1, InvFacts
      <3>3. Assigns(t) = {} BY ZenonT(60), <2>1, <3>1, <3>2, LeavingTask DEF At
      <3> QED BY ZenonT(60), <1>a, <3>1, <3>3, SendToOwn DEF AssignSent
    <2>3. CASE ~(c >= 0 /\ t # NULL)
      <3>1. mailbox' = mailbox BY <2>1, <2>3 DEF LoopBack
      <3> QED BY ZenonT(60), <3>1, SameMail
    <2> QED BY <2>2, <2>3
  <1>4. StopInv'
    <2>1. StopInv BY ExitParts
    <2>2. mechanism = "none" => migrated' = migrated
      BY ZenonT(60), <2>1 DEF StopInv, LoopBack
    <2> QED BY ZenonT(60), <1>1, <2>2, StopInvKeeps
  <1>5. \A d \in Ctx \ {c} : EndInv(d)' /\ LeftInv(d)'
    BY ZenonT(60), <1>a, <1>1, <1>2, <1>3, OtherEnds
  <1>6. EndInv(c) BY ExitParts
  <1>7. EndInv(c)'
    <2>1. pc'[c] # "exit" BY ZenonT(60), <1>2
    <2> QED BY ZenonT(60), <1>1, <1>3, <1>6, <2>1 DEF EndInv
  <1>8. LeftInv(c)'
    <2>1. pc'[c] # "exit" BY <1>2
    <2> QED BY ZenonT(60), <1>2, <2>1 DEF LeftInv
  <1> QED BY ZenonT(60), <1>4, <1>5, <1>7, <1>8, ExitParts

(* A worker that leaves has no task left. *)
LEMMA NoneLeft ==
  ASSUME WorkerInv, Accounted, ExitInv, NEW c \in Ctx, LoopExit(c),
         mechanism = "none" \/ ~StopEarly, NEW t \in Tasks, worker_context[t] = c
  PROVE  state[t] = "ZOMBIE"
  <1>a. TypeOK /\ TaskInv(t) BY InvFacts
  <1>b. StopInv /\ EndInv(c) BY ExitParts
  <1>1. /\ mailbox[c] = <<>> /\ terminate[c] /\ (c >= 0 => num_tasks[c] = 0)
    BY DEF LoopExit
  <1>2. CASE c < 0 BY ZenonT(60), <1>b, <1>1, <1>2 DEF EndInv
  <1>3. CASE c >= 0
    <2>1. c \in stopped /\ c \in Workers /\ num_tasks[c] = 0
      BY <1>b, <1>1, <1>3, CtxFacts DEF EndInv
    <2>2. started = Tasks /\ stopped # {} BY ZenonT(60), <1>b, <2>1 DEF StopInv
    <2>3. CASE ~StopEarly BY ZenonT(60), <1>b, <2>2, <2>3 DEF StopInv
    <2>4. CASE mechanism = "none"
      <3>1. Leaves(t) = {} BY ZenonT(60), <1>b, <2>4, NullFacts DEF StopInv, Leaves, Where
      <3>2. c \notin Assigns(t)
        <4>1. Range(mailbox[c]) = {} BY <1>1 DEF Range
        <4> QED BY ZenonT(60), <4>1 DEF Assigns, Holders
      <3>3. Assigns(t) = {} \/ Assigns(t) = {c}
        BY ZenonT(60), <1>a DEF TaskInv, Located, Nowhere, At
      <3>4. Assigns(t) = {} BY <3>2, <3>3
      <3>5. state[t] # "CREATED"
        <4>1. Assigns(t) # {c} /\ t \in started BY <2>2, <3>2
        <4> QED BY ZenonT(60), <1>a, <4>1 DEF TaskInv, Located, At
      <3>6. TasksOf(c) = {}
        BY <2>1, TasksOfFinite, FS_EmptySet DEF Accounted
      <3>7. t \notin TasksOf(c) BY <3>6
      <3> QED BY ZenonT(60), <3>1, <3>4, <3>5, <3>7 DEF TasksOf
    <2> QED BY <2>3, <2>4
  <1> QED BY <1>2, <1>3, CtxFacts

(* A worker leaves its loop when it was told to and has no tasks. *)
LEMMA ExitLoopExit ==
  ASSUME WorkerInv, Accounted, ExitInv, NEW c \in Ctx, StepOf(c), TypeOK',
         LoopExit(c)
  PROVE  ExitInv'
  <1>a. TypeOK BY InvFacts
  <1>1. /\ pc[c] = "fetch" /\ pc' = [pc EXCEPT ![c] = "exit"] /\ terminate[c]
        /\ UNCHANGED <<mailbox, terminate, migrated, state, worker_context,
                       mechanism, started, stopped>>
        /\ c < 0 => CleanupTaskContext(c, NULL)
        /\ ~(c < 0) => UNCHANGED <<freed, marked_del>>
    BY ZenonT(60) DEF LoopExit, envvars
  <1>2. /\ pc'[c] = "exit" /\ (c < 0 => marked_del'[c] = NULL)
        /\ \A d \in Ctx \ {c} : marked_del'[d] = marked_del[d]
    BY ZenonT(60), <1>a, <1>1 DEF CleanupTaskContext, TypeOK
  <1>3. Terminates' = Terminates BY ZenonT(60), <1>1, SameMail
  <1>4. StopInv' BY ZenonT(60), <1>1, StopInvKeeps
  <1>5. \A d \in Ctx \ {c} : EndInv(d)' /\ LeftInv(d)'
    BY ZenonT(60), <1>a, <1>1, <1>2, <1>3, OtherEnds
  <1>6. EndInv(c) /\ LeftInv(c) BY ExitParts
  <1>7. EndInv(c)' BY ZenonT(60), <1>1, <1>3, <1>6 DEF EndInv
  <1>8. marked_del'[c] = NULL
    BY <1>1, <1>2, <1>6, CtxFacts DEF LeftInv, InLoop
  <1>9. LeftInv(c)'
    <2>1. ASSUME mechanism = "none" \/ ~StopEarly, NEW t \in Tasks,
                 worker_context[t] = c
          PROVE  state[t] = "ZOMBIE"
      BY <2>1, NoneLeft
    <2> QED BY ZenonT(60), <1>1, <1>8, <2>1 DEF LeftInv
  <1> QED BY ZenonT(60), <1>4, <1>5, <1>7, <1>9, ExitParts

(* A task ends. *)
LEMMA ExitTaskExit ==
  ASSUME WorkerInv, ExitInv, NEW c \in Ctx, StepOf(c), TypeOK',
         NEW t \in Tasks, LpelTaskExit(c, t)
  PROVE  ExitInv'
  <1>a. TypeOK /\ Terminates \subseteq stopped /\ (\A u \in Tasks : TaskInv(u))
    BY DEF WorkerInv
  <1>1. /\ Runs(c, t) /\ pc' = [pc EXCEPT ![c] = "disp"]
        /\ state' = [state EXCEPT ![t] = "ZOMBIE"]
        /\ terminate' = [terminate EXCEPT ![c] = @ \/ c < 0]
        /\ marked_del' = [marked_del EXCEPT ![c] = t]
        /\ UNCHANGED <<mailbox, migrated, worker_context, started, stopped>>
    BY DEF LpelTaskExit, LpelWorkerSelfTaskExit, CleanupTaskContext, envvars
  <1>2. /\ pc'[c] = "disp" /\ state'[t] = "ZOMBIE"
        /\ \A d \in Ctx \ {c} : marked_del'[d] = marked_del[d]
                                /\ terminate'[d] = terminate[d]
    BY ZenonT(60), <1>a, <1>1 DEF TypeOK
  <1>3. c >= 0 => terminate'[c] = terminate[c]
    BY ZenonT(60), <1>a, <1>1, CtxFacts DEF TypeOK
  <1>4. Terminates' = Terminates BY ZenonT(60), <1>1, SameMail
  <1>5. StopInv' BY ZenonT(60), <1>1, StopInvKeeps
  <1>6. \A d \in Ctx \ {c} : EndInv(d)' /\ LeftInv(d)'
    BY ZenonT(60), <1>a, <1>1, <1>2, <1>4, OtherEnds
  <1>7. EndInv(c) BY ExitParts
  <1>8. worker_context[t] = c BY ZenonT(60), <1>1, RunsFacts
  <1>9. ASSUME c < 0, NEW u \in Tasks, worker_context'[u] = c
        PROVE  state'[u] = "ZOMBIE"
    <2>1. Home[u] = c /\ Home[t] = c
      BY ZenonT(60), <1>a, <1>1, <1>8, <1>9 DEF TaskInv, Homed
    <2>2. u = t BY ZenonT(60), <1>9, <2>1, OneTaskPerWrapper
    <2> QED BY ZenonT(60), <1>2, <2>2
  <1>10. EndInv(c)'
    <2>1. c \in Terminates' => c >= 0 /\ ~terminate'[c]
      BY <1>a, <1>3, <1>4, <1>7, CtxFacts DEF EndInv, TypeOK
    <2>2. terminate'[c] /\ c >= 0 => c \in stopped'
      BY ZenonT(60), <1>1, <1>3, <1>7 DEF EndInv
    <2>3. pc'[c] # "exit" BY <1>2
    <2> QED BY ZenonT(60), <1>9, <2>1, <2>2, <2>3 DEF EndInv
  <1>11. LeftInv(c)' BY <1>2 DEF LeftInv, InLoop
  <1> QED BY ZenonT(60), <1>5, <1>6, <1>10, <1>11, ExitParts

(* The program starts a task or stops the library. *)
LEMMA ExitProgram ==
  ASSUME WorkerInv, ExitInv, Program
  PROVE  ExitInv'
  <1>a. TypeOK BY InvFacts
  <1>b. StopInv /\ \A d \in Ctx : EndInv(d) /\ LeftInv(d) BY ExitParts
  <1>1. UNCHANGED <<terminate, marked_del, migrated, pc, state, worker_context,
                    mechanism>>
    BY DEF Program, LpelTaskStart, LpelStop, workervars, taskvars
  <1>2. \A d \in Ctx : LeftInv(d)' BY ZenonT(60), <1>b, <1>1 DEF LeftInv
  <1>3. ASSUME NEW t \in Tasks, LpelTaskStart(t) PROVE ExitInv'
    <2>1. Terminates' = Terminates BY ZenonT(60), <1>3, StartEffect
    <2>2. t \notin started /\ stopped' = stopped
      BY <1>3 DEF LpelTaskStart
    <2>3. stopped = {} BY <1>b, <2>2 DEF StopInv
    <2>4. StopInv' BY ZenonT(60), <1>b, <1>1, <2>2, <2>3 DEF StopInv
    <2>5. \A d \in Ctx : EndInv(d)'
      BY ZenonT(60), <1>b, <1>1, <2>1, <2>2 DEF EndInv
    <2> QED BY ZenonT(60), <1>2, <2>4, <2>5, ExitParts
  <1>4. ASSUME NEW w \in Workers, LpelStop(w) PROVE ExitInv'
    <2>1. Terminates' = Terminates \cup {w} /\ stopped' = stopped \cup {w}
      BY ZenonT(60), <1>4, StopEffect
    <2>2. /\ started = Tasks /\ started' = started /\ w \notin stopped
          /\ StopEarly \/ \A t \in Tasks : state[t] = "ZOMBIE"
      BY <1>4 DEF LpelStop
    <2>3. StopInv' BY ZenonT(60), <1>b, <1>1, <2>2 DEF StopInv
    <2>4. ~terminate[w] /\ w \in Ctx
      <3>1. w \in Ctx /\ w >= 0 BY CtxFacts
      <3> QED BY <1>b, <2>2, <3>1 DEF EndInv
    <2>5. \A d \in Ctx : EndInv(d)'
      <3> SUFFICES ASSUME NEW d \in Ctx PROVE EndInv(d)' OBVIOUS
      <3>1. EndInv(d) BY <1>b
      <3>2. d \in Terminates' => ~terminate'[d]
        BY <1>1, <2>1, <2>4, <3>1 DEF EndInv
      <3>3. terminate'[d] /\ d >= 0 => d \in stopped'
        BY <1>1, <2>1, <3>1 DEF EndInv
      <3> QED BY ZenonT(60), <1>1, <3>1, <3>2, <3>3 DEF EndInv
    <2> QED BY ZenonT(60), <1>2, <2>3, <2>5, ExitParts
  <1> QED BY ZenonT(60), <1>3, <1>4 DEF Program

(* Every step keeps the invariant on exits. *)
LEMMA ExitKeepsInv ==
  ASSUME WorkerInv, Accounted, ExitInv, [Next]_vars
  PROVE  ExitInv'
  <1>a. TypeOK BY InvFacts
  <1>1. ASSUME NEW c \in Ctx, Loop(c) \/ \E t \in Tasks : TaskStep(c, t)
        PROVE  ExitInv'
    <2>0. Keeps(c) BY <1>1, ThreadKeeps
    <2>1. StepOf(c) /\ TypeOK' BY <2>0 DEF Keeps, WorkerInv
    <2>2. CASE PlainAction(c)
      BY ZenonT(60), <1>a, <2>1, <2>2, PlainSteps, ExitPlain
    <2>3. CASE (FetchMessage(c) \/ WaitForNewMessage(c)) /\ ProcessTerminate(c)
      BY ZenonT(60), <2>1, <2>3, ExitTerminate
    <2>4. CASE LoopBack(c) BY ZenonT(60), <2>1, <2>4, ExitLoopBack
    <2>5. CASE LoopExit(c) BY ZenonT(60), <2>1, <2>5, ExitLoopExit
    <2>6. CASE \E t \in Tasks : LpelTaskExit(c, t)
      BY ZenonT(60), <2>1, <2>6, ExitTaskExit
    <2> QED BY ZenonT(60), <1>1, <2>2, <2>3, <2>4, <2>5, <2>6, NotPlain
  <1>2. CASE Program BY <1>2, ExitProgram
  <1>3. CASE Done \/ UNCHANGED vars
    <2>1. UNCHANGED <<mailbox, terminate, marked_del, migrated, pc, state,
                      worker_context, mechanism, started, stopped>>
      BY <1>3 DEF Done, vars, workervars, taskvars, envvars
    <2>2. Terminates' = Terminates BY ZenonT(60), <2>1, SameMail
    <2>3. StopInv /\ \A d \in Ctx : EndInv(d) /\ LeftInv(d) BY ExitParts
    <2>4. StopInv' BY ZenonT(60), <2>1, <2>3 DEF StopInv
    <2>5. \A d \in Ctx : EndInv(d)' /\ LeftInv(d)'
      BY ZenonT(60), <2>1, <2>2, <2>3 DEF EndInv, LeftInv
    <2> QED BY ZenonT(60), <2>4, <2>5, ExitParts
  <1> QED BY ZenonT(60), <1>1, <1>2, <1>3 DEF Next

(* The invariants on places and on exits hold always. *)
LEMMA ExitInvariant == Spec => [](WorkerInv /\ ExitInv)
  <1>1. Init => ExitInv
    <2> SUFFICES ASSUME Init PROVE ExitInv OBVIOUS
    <2>1. /\ stopped = {}
          /\ \A c \in Ctx : /\ migrated[c] = NULL /\ terminate[c] = FALSE
                            /\ pc[c] # "exit" /\ marked_del[c] = NULL
      BY DEF Init
    <2>2. StopInv BY ZenonT(60), <2>1 DEF StopInv
    <2>3. \A c \in Ctx : EndInv(c) /\ LeftInv(c)
      BY ZenonT(60), <2>1 DEF EndInv, LeftInv
    <2> QED BY ZenonT(60), <2>2, <2>3, ExitParts
  <1>2. (WorkerInv /\ Accounted) /\ ExitInv /\ [Next]_vars => ExitInv'
    BY ExitKeepsInv
  <1> QED BY <1>1, <1>2, WorkerInvariant, PTL DEF Spec

(* A thread that has left its loop leaves nothing behind: its mailbox and  *)
(* ready queues are empty and the task it had to destroy is destroyed, so  *)
(* that the assertions of LpelMailboxDestroy and LpelSchedDestroy hold     *)
(* when LpelWorkersCleanup runs.  This needs that tasks do not migrate, or *)
(* that LpelStop is called only after the last task has ended: a task may  *)
(* otherwise migrate to a worker that has left.                            *)
THEOREM WorkersLeaveClean ==
  Spec => []((mechanism = "none" \/ ~StopEarly) => NothingLeftBehind)
  <1>1. WorkerInv /\ ExitInv =>
          ((mechanism = "none" \/ ~StopEarly) => NothingLeftBehind)
    <2> SUFFICES ASSUME WorkerInv, ExitInv, mechanism = "none" \/ ~StopEarly,
                        NEW c \in Ctx, pc[c] = "exit"
                 PROVE  /\ mailbox[c] = <<>> /\ Nonempty(c) = {}
                        /\ wraptask[c] = NULL /\ marked_del[c] = NULL
      BY DEF NothingLeftBehind
    <2>a. TypeOK /\ (\A t \in Tasks : TaskInv(t)) BY InvFacts
    <2>b. EndInv(c) /\ LeftInv(c) BY ExitParts
    <2>1. \A t \in Tasks : worker_context[t] = c => state[t] = "ZOMBIE"
      BY ZenonT(60), <2>b DEF LeftInv
    <2>2. ASSUME NEW t \in Tasks
          PROVE  c \notin Assigns(t) /\ c \notin Wakes(t) /\ c \notin Queues(t)
                 /\ wraptask[c] # t
      <3>1. TaskInv(t) BY <2>a
      <3>2. c \notin Assigns(t) BY ZenonT(60), <2>1, <3>1, AssignedTask
      <3>3. c \notin Wakes(t)
        <4>1. pc[c] # "run" OBVIOUS
        <4> QED BY <2>1, <3>1, <4>1, WokenTask
      <3>4. c \notin Queues(t) BY ZenonT(60), <2>1, <3>1, QueuedTask
      <3>5. wraptask[c] # t BY ZenonT(60), <2>1, <3>1, WrapTask
      <3> QED BY <3>2, <3>3, <3>4, <3>5
    <2>3. c \notin Terminates BY <2>b DEF EndInv
    <2>4. mailbox[c] = <<>>
      <3> SUFFICES ASSUME mailbox[c] # <<>> PROVE FALSE OBVIOUS
      <3> DEFINE m == Head(mailbox[c])
      <3>1. mailbox[c] \in Seq(Messages) /\ Distinct(mailbox[c])
        BY <2>a DEF TypeOK, MailOK
      <3>2. m \in Range(mailbox[c]) /\ m \in Messages BY <3>1, TailDistinct
      <3> HIDE DEF m
      <3>3. c \in Holders(mailbox, m) BY <3>2 DEF Holders
      <3>4. \/ \E t \in Tasks : m = Msg("WAKEUP", t) \/ m = Msg("ASSIGN", t)
            \/ m = Msg("TERMINATE", NULL)
        BY <3>2 DEF Messages, Msg
      <3> QED BY ZenonT(60), <2>2, <2>3, <3>3, <3>4 DEF Assigns, Wakes, Terminates
    <2>5. Nonempty(c) = {}
      <3> SUFFICES ASSUME NEW p \in Priorities, queue[c][p] # <<>> PROVE FALSE
        BY DEF Nonempty, Priorities
      <3>1. queue[c][p] \in Seq(Tasks) BY <2>a DEF TypeOK, QueueOK
      <3>2. queue[c][p][1] \in Tasks /\ queue[c][p][1] \in Range(queue[c][p])
        BY <3>1 DEF Range
      <3>3. c \in Queues(queue[c][p][1]) BY <3>2 DEF Queues, Priorities
      <3> QED BY <2>2, <3>2, <3>3
    <2>6. wraptask[c] = NULL BY <2>2, <2>a DEF TypeOK, Slot
    <2>7. marked_del[c] = NULL BY <2>b DEF LeftInv
    <2> QED BY <2>4, <2>5, <2>6, <2>7
  <1> QED BY <1>1, ExitInvariant, PTL

----------------------------------------------------------------------------
(* The contract with the streams *)

(* Every step is a step of TaskPark, or none. *)
LEMMA ParkStep ==
  ASSUME WorkerInv, [Next]_vars
  PROVE  [Park!Next]_park
  <1>a. TypeOK BY InvFacts
  <1>1. ASSUME NEW c \in Ctx, NEW t \in Tasks, SwitchTo(c, t),
               pc[c] # "run",
               \/ LpelSchedFetchReady(c, t) /\ wraptask' = wraptask
               \/ /\ wraptask[c] = t /\ wraptask' = [wraptask EXCEPT ![c] = NULL]
                  /\ queue' = queue,
               UNCHANGED <<mailbox, num_tasks, terminate, marked_del, migrated,
                           worker_context, freed, mechanism, started, stopped>>
        PROVE  [Park!Next]_park
    <2>1. park[t] # "parking" BY ZenonT(60), <1>1, SwitchEffect
    <2>2. park' = [park EXCEPT ![t] = "running"] BY <1>1 DEF SwitchTo
    <2>3. park[t] \in {"running", "parking", "granted"} BY <1>a DEF TypeOK
    <2>4. CASE park[t] = "granted"
      BY ZenonT(60), <2>2, <2>4 DEF Park!Next, Park!Resume
    <2>5. CASE park[t] = "running"
      <3>1. park' = park BY <1>a, <2>2, <2>5 DEF TypeOK
      <3> QED BY <3>1
    <2> QED BY <2>1, <2>3, <2>4, <2>5
  <1>2. ASSUME NEW c \in Ctx, LpelWorkerDispatcher(c) PROVE [Park!Next]_park
    <2>1. /\ pc[c] # "run"
          /\ UNCHANGED <<mailbox, num_tasks, terminate, marked_del, wraptask,
                         migrated, worker_context, freed, mechanism, started,
                         stopped>>
          /\ \/ park' = park
             \/ \E t \in Tasks : LpelSchedFetchReady(c, t) /\ SwitchTo(c, t)
      BY ZenonT(60), <1>2 DEF LpelWorkerDispatcher, workervars
    <2> QED BY ZenonT(60), <1>1, <2>1
  <1>3. ASSUME NEW c \in Ctx, LoopRun(c) PROVE [Park!Next]_park
    <2>1. /\ pc[c] # "run"
          /\ UNCHANGED <<mailbox, num_tasks, terminate, marked_del, migrated,
                         worker_context, freed, mechanism, started, stopped>>
      BY <1>3 DEF LoopRun
    <2>2. CASE \E t \in Tasks : /\ LpelSchedFetchReady(c, t) /\ SwitchTo(c, t)
                                /\ wraptask' = wraptask
      BY ZenonT(60), <1>1, <2>1, <2>2
    <2>3. CASE /\ wraptask[c] # NULL /\ SwitchTo(c, wraptask[c])
               /\ wraptask' = [wraptask EXCEPT ![c] = NULL] /\ UNCHANGED queue
      <3>1. PICK t : t = wraptask[c] OBVIOUS
      <3>2. t \in Tasks /\ SwitchTo(c, t) BY <1>a, <2>3, <3>1 DEF TypeOK, Slot
      <3> QED BY ZenonT(60), <1>1, <2>1, <2>3, <3>1, <3>2
    <2> QED BY ZenonT(60), <1>3, <2>2, <2>3 DEF LoopRun
  <1>4. ASSUME NEW c \in Ctx, NEW t \in Tasks, Decide(c, t)
        PROVE  [Park!Next]_park
    BY ZenonT(60), <1>4 DEF Decide, Park!Next, Park!Decide
  <1>5. ASSUME NEW c \in Ctx, NEW t \in Tasks, NEW whom \in Tasks,
               LpelTaskUnblock(c, t, whom)
        PROVE  [Park!Next]_park
    BY ZenonT(60), <1>5 DEF LpelTaskUnblock, Park!Next, Park!Unblock
  <1>6. ASSUME NEW c \in Ctx,
               \/ FetchMessage(c) \/ WaitForNewMessage(c) \/ LoopIdle(c)
               \/ LoopBack(c) \/ LoopAgain(c) \/ LoopExit(c)
               \/ \E t \in Tasks : \/ LpelTaskBlockStream(c, t)
                                   \/ LpelTaskYield(c, t) \/ LpelTaskExit(c, t)
                                   \/ LpelTaskCheckMigrate(c, t)
        PROVE  park' = park
    BY ZenonT(60), <1>6 DEF FetchMessage, WaitForNewMessage, LoopIdle, LoopBack, LoopAgain,
           LoopExit, LpelTaskBlockStream, LpelTaskYield, LpelTaskExit,
           LpelTaskCheckMigrate, envvars
  <1>7. CASE Program \/ Done \/ UNCHANGED vars
    <2>1. park' = park
      BY ZenonT(60), <1>7 DEF Program, LpelTaskStart, LpelStop, Done, vars, envvars
    <2> QED BY <2>1
  <1> QED BY ZenonT(60), <1>2, <1>3, <1>4, <1>5, <1>6, <1>7
          DEF Next, Loop, TaskStep

(* The workers implement the contract of TaskPark: only a task that waits  *)
(* is granted, and a task runs again only after it was granted, once.  It  *)
(* is the safety part of ImplementsPark.                                   *)
THEOREM WorkersKeepContract == Spec => Park!Spec
  <1>1. Init => Park!Init BY DEF Init, Park!Init
  <1>2. WorkerInv /\ [Next]_vars => [Park!Next]_park BY ParkStep
  <1> QED BY <1>1, <1>2, WorkerInvariant, PTL DEF Spec, Park!Spec
=============================================================================
