---------------------------- MODULE HrcWorkerInv ----------------------------
(***************************************************************************)
(* The inductive invariant of HrcWorker: where a task is in each of its    *)
(* states, and where the request of a worker is.  What the handlers of the *)
(* master work on is the record m; M is the set of messages to the master. *)
(***************************************************************************)
EXTENDS HrcWorker

Slot == Tasks \cup {NULL}
Served == Tasks \ Wrapped       \* the tasks of the master
States == {"CREATED", "READY", "INQUEUE", "RUNNING", "BLOCKED", "RETURNED",
           "ZOMBIE"}

MasterMessages ==
  [type : {"ASSIGN", "RETURN", "WAKEUP"}, body : Served]
  \cup [type : {"REQUEST"}, body : Workers] \cup {Msg("TERMINATE", NULL)}

Messages == [type : {"ASSIGN", "WAKEUP"}, body : Tasks]
            \cup {Msg("TERMINATE", NULL)}

Distinct(s) == \A i, j \in DOMAIN s : s[i] = s[j] => i = j

MasterStates ==
  [ready : SUBSET Served, wait : SUBSET Workers, mb : [Ctx -> Seq(Messages)],
   state : [Tasks -> States], valid : [Tasks -> BOOLEAN]]

(* No message is twice in a mailbox. *)
BoxesOK(mb) == mb \in [Ctx -> Seq(Messages)] /\ \A c \in Ctx : Distinct(mb[c])

(* The types of the variables, but for those in MasterState. *)
TypeOK ==
  /\ mastermb \in Seq(MasterMessages) /\ Distinct(mastermb)
  /\ mterminate \in BOOLEAN /\ mpc \in {"loop", "bcast", "exit", "clean"}
  /\ pc \in [Ctx -> {"start", "recv", "run", "back", "exit"}]
  /\ on \in [Ctx -> Slot] /\ current_task \in [Ctx -> Slot]
  /\ freewrappers \in Seq(Wrappers) /\ unused \subseteq Wrappers
  /\ worker_context \in [Tasks -> Ctx \cup {NULL}]
  /\ wakenup \in [Tasks -> BOOLEAN] /\ freed \subseteq Tasks
  /\ park \in [Tasks -> {"running", "parking", "granted"}]
  /\ started \subseteq Tasks /\ stopped \in BOOLEAN

----------------------------------------------------------------------------
(* Tasks of the master *)

Holders(m, msg) == {c \in Ctx : msg \in Range(m.mb[c])}
Ons(t) == {c \in Ctx : on[c] = t}

(* The places of t: which of its messages is on its way to the master,     *)
(* which workers have been given it, which threads are on its stack.       *)
At(m, M, t, assign, return, assigned, ons) ==
  /\ Msg("ASSIGN", t) \in M <=> assign
  /\ Msg("RETURN", t) \in M <=> return
  /\ Holders(m, Msg("ASSIGN", t)) = assigned
  /\ Ons(t) = ons
  /\ t \in m.ready <=> m.state[t] = "INQUEUE"

(* A task is in the one place that its state says.  Only the cleanup may   *)
(* destroy one that has not ended.                                         *)
Located(m, M, t) ==
  \/ /\ m.state[t] = "CREATED" /\ t \notin freed
     /\ \/ At(m, M, t, t \in started, FALSE, {}, {})
        \/ mpc = "clean" /\ At(m, M, t, FALSE, FALSE, {}, {})
  \/ /\ m.state[t] \in {"INQUEUE", "RETURNED"} /\ t \in started \ freed
     /\ At(m, M, t, FALSE, FALSE, {}, {})
  \/ /\ m.state[t] = "READY" /\ t \in started \ freed
     /\ \E c \in Workers : At(m, M, t, FALSE, FALSE, {c}, {})
  \/ /\ m.state[t] = "RUNNING" /\ t \in started \ freed
     /\ \E c \in Workers : /\ At(m, M, t, FALSE, FALSE, {}, {c})
                           /\ pc[c] = "run" /\ current_task[c] = t
                           /\ worker_context[t] = c
  \/ /\ m.state[t] \in {"READY", "BLOCKED", "ZOMBIE"} /\ t \in started \ freed
     /\ \/ \E c \in Workers : /\ At(m, M, t, FALSE, FALSE, {}, {c})
                              /\ pc[c] = "back"
        \/ At(m, M, t, FALSE, TRUE, {}, {})
  \/ /\ m.state[t] \in {"READY", "BLOCKED", "ZOMBIE"} /\ t \in started \cap freed
     /\ m.state[t] = "ZOMBIE" \/ mpc = "clean"
     /\ At(m, M, t, FALSE, FALSE, {}, {})

(* A wakeup is on its way to the master or remembered in wakenup, once,    *)
(* from LpelTaskUnblock until its task is ready.                           *)
Parked(m, M, t) ==
  /\ m.state[t] \in {"CREATED", "ZOMBIE"} => park[t] = "running"
  /\ m.state[t] \in {"READY", "INQUEUE"} => park[t] # "parking"
  /\ m.state[t] \in {"BLOCKED", "RETURNED"} => park[t] # "running"
  /\ wakenup[t] => m.state[t] \in {"RUNNING", "BLOCKED"}
  /\ wakenup[t] => park[t] = "granted" /\ Msg("WAKEUP", t) \notin M
  /\ Msg("WAKEUP", t) \in M => /\ park[t] = "granted"
                               /\ m.state[t] \in {"RUNNING", "BLOCKED", "RETURNED"}
  /\ /\ park[t] = "granted" /\ m.state[t] \in {"RUNNING", "BLOCKED", "RETURNED"}
     /\ mpc # "clean"
     => wakenup[t] \/ Msg("WAKEUP", t) \in M

TaskInv(m, M, t) ==
  /\ Located(m, M, t) /\ Parked(m, M, t)
  /\ worker_context[t] \in Workers \cup {NULL}

----------------------------------------------------------------------------
(* Workers *)

Given(m, w) == {t \in Tasks : Msg("ASSIGN", t) \in Range(m.mb[w])}

(* Where the request of w is. *)
Asks(m, M, w, request, wait, given) ==
  /\ Msg("REQUEST", w) \in M <=> request
  /\ w \in m.wait <=> wait
  /\ Given(m, w) = given

WorkerInv(m, M, w) ==
  /\ pc[w] \in {"start", "run"} => Asks(m, M, w, FALSE, FALSE, {})
  /\ pc[w] \in {"recv", "back", "exit"} =>
       \/ Asks(m, M, w, TRUE, FALSE, {}) \/ Asks(m, M, w, FALSE, TRUE, {})
       \/ \E t \in Served : Asks(m, M, w, FALSE, FALSE, {t})
       \/ mpc = "clean" /\ pc[w] = "exit"
  /\ on[w] = NULL <=> pc[w] \notin {"run", "back"}
  /\ \A t \in Tasks : Msg("WAKEUP", t) \notin Range(m.mb[w])
  /\ mpc \in {"loop", "bcast"} => Msg("TERMINATE", NULL) \notin Range(m.mb[w])
  /\ Given(m, w) \subseteq Served /\ on[w] \notin Wrapped

----------------------------------------------------------------------------
(* Wrappers *)

(* What is in the mailbox of the wrapper of t. *)
Woken(t) == IF park[t] = "granted" THEN {Msg("WAKEUP", t)} ELSE {}

(* Where the wrapper c of t is. *)
Wraps(m, c, t, msgs, p, o, cur) ==
  /\ Range(m.mb[c]) = msgs /\ pc[c] = p /\ on[c] = o /\ current_task[c] = cur

AtWrapper(m, c, t) ==
  \/ /\ m.state[t] = "CREATED" /\ park[t] = "running"
     /\ Wraps(m, c, t, {Msg("ASSIGN", t)}, "recv", NULL, NULL)
  \/ /\ m.state[t] = "READY" /\ park[t] # "parking"
     /\ Wraps(m, c, t, {}, "recv", NULL, t)
  \/ m.state[t] = "RUNNING" /\ Wraps(m, c, t, Woken(t), "run", t, t)
  \/ /\ m.state[t] = "BLOCKED" /\ park[t] # "running"
     /\ Wraps(m, c, t, Woken(t), "recv", NULL, NULL)
  \/ /\ m.state[t] = "ZOMBIE" /\ park[t] = "running"
     /\ Wraps(m, c, t, {}, "back", NULL, t)

WrappedInv(m, t) ==
  \/ t \notin started \cup freed /\ m.state[t] = "CREATED" /\ park[t] = "running"
  \/ t \in started \cap freed /\ m.state[t] = "ZOMBIE" /\ park[t] = "running"
  \/ /\ t \in started \ freed /\ worker_context[t] \in Wrappers
     /\ AtWrapper(m, worker_context[t], t)

(* A wrapper is in the free list once, and not while it is not allocated. *)
FreeList == Distinct(freewrappers) /\ unused \cap Range(freewrappers) = {}

(* The task that a wrapper is for. *)
Owns(c, t) == t \in Wrapped /\ t \in started \ freed /\ worker_context[t] = c

WrapperInv(m, c) ==
  /\ \A t, u \in Tasks : Owns(c, t) /\ Owns(c, u) => t = u
  /\ pc[c] = "exit" => /\ m.mb[c] = <<>> /\ on[c] = NULL
                       /\ \A t \in Tasks : ~Owns(c, t)
  /\ pc[c] # "exit" => \E t \in Tasks : Owns(c, t)
  /\ c \in unused \cup Range(freewrappers) => pc[c] = "exit"

----------------------------------------------------------------------------
(* What the handlers of the master keep. *)
MasterInv(m, M) ==
  /\ m \in MasterStates /\ BoxesOK(m.mb)
  /\ \A t \in Served : TaskInv(m, M, t)
  /\ \A w \in Workers : WorkerInv(m, M, w)
  /\ \A t \in Wrapped : WrappedInv(m, t)
  /\ \A c \in Wrappers : WrapperInv(m, c)

(* The library is stopped after the tasks have ended, unless StopEarly. *)
StopInv ==
  /\ \/ Msg("TERMINATE", NULL) \in Range(mastermb) \/ mterminate \/ mpc # "loop"
     => stopped
  /\ stopped /\ ~StopEarly => \A t \in Tasks : state[t] = "ZOMBIE"
  /\ stopped => started = Tasks

IInv ==
  /\ TypeOK /\ FreeList
  /\ MasterInv(MasterState, Range(mastermb)) /\ StopInv
=============================================================================
