---------------------------- MODULE DecenWorkerInv ----------------------------
(***************************************************************************)
(* The inductive invariant of DecenWorker: where a task is, in each of its *)
(* states, and what the threads know of it.                                *)
(***************************************************************************)
EXTENDS DecenWorker

Messages == [type : {"WAKEUP", "ASSIGN"}, task : Tasks]
            \cup {Msg("TERMINATE", NULL)}

Priorities == 0 .. NumPrio - 1
Pcs == {"loop", "wait", "fetch", "disp", "run", "back", "exit"}
States == {"CREATED", "READY", "RUNNING", "BLOCKED", "ZOMBIE"}
Slot == Tasks \cup {NULL}

Distinct(s) == \A i, j \in DOMAIN s : s[i] = s[j] => i = j

(* No message is twice in a mailbox, and no task twice in a ready queue. *)
MailOK(mb) == mb \in [Ctx -> Seq(Messages)] /\ \A c \in Ctx : Distinct(mb[c])

QueueOK(qs) ==
  /\ qs \in [Ctx -> [Priorities -> Seq(Tasks)]]
  /\ \A c \in Ctx : \A p \in Priorities : Distinct(qs[c][p])
  /\ \A c \in Ctx : \A p, q \in Priorities : \A t \in Tasks :
       t \in Range(qs[c][p]) /\ t \in Range(qs[c][q]) => p = q

(* The types of the variables. *)
TypeOK ==
  /\ mechanism \in Mechanisms /\ MailOK(mailbox) /\ QueueOK(queue)
  /\ num_tasks \in [Ctx -> Int] /\ terminate \in [Ctx -> BOOLEAN]
  /\ marked_del \in [Ctx -> Slot] /\ wraptask \in [Ctx -> Slot]
  /\ migrated \in [Ctx -> Slot] /\ on \in [Ctx -> Slot]
  /\ pc \in [Ctx -> Pcs]
  /\ state \in [Tasks -> States] /\ worker_context \in [Tasks -> Ctx]
  /\ park \in [Tasks -> {"running", "parking", "granted"}]
  /\ freed \subseteq Tasks /\ started \subseteq Tasks
  /\ stopped \subseteq Workers

(* The places of task t. *)
At(t, runners, queues, wraps, leaves, assigns) ==
  /\ Runners(t) = runners /\ Queues(t) = queues /\ Wraps(t) = wraps
  /\ Leaves(t) = leaves /\ Assigns(t) = assigns

Nowhere(t) == At(t, {}, {}, {}, {}, {})

(* A task is in the one place that its state says, at its own worker       *)
(* unless a loop is about to send it away.                                 *)
Located(t) ==
  LET wc == worker_context[t]
  IN  \/ state[t] = "CREATED" /\ t \notin started /\ Nowhere(t)
      \/ /\ state[t] \in {"CREATED", "READY"} /\ t \in started
         /\ At(t, {}, {}, {}, {}, {wc})
      \/ /\ state[t] = "READY" /\ t \in started
         /\ \/ wc >= 0 /\ At(t, {}, {wc}, {}, {}, {})
            \/ wc < 0 /\ At(t, {}, {}, {wc}, {}, {})
      \/ /\ state[t] = "READY" /\ t \in started
         /\ \E c \in Ctx : At(t, {}, {}, {}, {c}, {})
      \/ state[t] = "RUNNING" /\ t \in started /\ At(t, {wc}, {}, {}, {}, {})
      \/ state[t] \in {"BLOCKED", "ZOMBIE"} /\ t \in started /\ Nowhere(t)

(* What the streams and the scheduler know of a task agrees: it waits only *)
(* while it runs or is blocked, and the message that wakes it is on its    *)
(* way from LpelTaskUnblock until it is handled.                           *)
Wakes(t) == Holders(mailbox, Msg("WAKEUP", t))
Parked(t) ==
  /\ Wakes(t) = IF park[t] = "granted" /\ state[t] \in {"RUNNING", "BLOCKED"}
                THEN {worker_context[t]} ELSE {}
  /\ state[t] \in {"CREATED", "ZOMBIE"} => park[t] = "running"
  /\ state[t] = "READY" => park[t] # "parking"
  /\ state[t] = "BLOCKED" => park[t] # "running"

(* A wrapper has no task but its own. *)
Homed(t) ==
  /\ worker_context[t] < 0 => Home[t] = worker_context[t]
  /\ \A c \in Leaves(t) : c < 0 => Home[t] = c

TaskInv(t) == Located(t) /\ Parked(t) /\ Homed(t)

(* A thread is on the stack of a task while it runs it and in its          *)
(* dispatcher; the loop of a worker sends a migrating task away first.     *)
Threaded(c) ==
  /\ on[c] = NULL <=> pc[c] \notin {"run", "disp"}
  /\ c >= 0 /\ pc[c] # "back" => migrated[c] = NULL

(* The mailboxes that hold the message of LpelStop. *)
Terminates == Holders(mailbox, Msg("TERMINATE", NULL))

WorkerInv ==
  /\ TypeOK /\ Terminates \subseteq stopped
  /\ \A t \in Tasks : TaskInv(t)
  /\ \A c \in Ctx : Threaded(c)

(* Which worker destroys a task, and that no thread is on its stack then;  *)
(* without LPEL_MIG_WAIT_PROP, whose yields and wakeups send a task away   *)
(* while a thread is still on its stack.                                   *)
StackInv ==
  /\ \A c \in Ctx : \A t \in Tasks : marked_del[c] = t =>
       worker_context[t] = c /\ state[t] = "ZOMBIE" /\ t \notin freed
  /\ \A t \in freed : state[t] = "ZOMBIE"
  /\ mechanism # "wait_prop" => \A c \in Ctx : \A t \in Tasks : on[c] = t =>
       /\ worker_context[t] = c
       /\ state[t] = "ZOMBIE" => marked_del[c] = t

(* What a worker that may leave has behind it. *)
ExitInv ==
  /\ stopped # {} => started = Tasks
  /\ stopped # {} /\ ~StopEarly => \A t \in Tasks : state[t] = "ZOMBIE"
  /\ mechanism = "none" => \A c \in Ctx : migrated[c] = NULL
  /\ \A c \in Ctx :
       /\ c \in Terminates => ~terminate[c]
       /\ terminate[c] /\ c >= 0 => c \in stopped
       /\ terminate[c] /\ c < 0 =>
            \A t \in Tasks : worker_context[t] = c => state[t] = "ZOMBIE"
       /\ pc[c] = "exit" => terminate[c]
       /\ pc[c] = "exit" /\ (mechanism = "none" \/ ~StopEarly) =>
            \A t \in Tasks : worker_context[t] = c => state[t] = "ZOMBIE"
       /\ pc[c] = "exit" \/ (pc[c] \in {"loop", "wait", "fetch"} /\ c >= 0) =>
            marked_del[c] = NULL
=============================================================================
