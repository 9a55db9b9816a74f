-------------------------- MODULE DecenWorkerSteps --------------------------
(***************************************************************************)
(* What each step of a worker of the decentralised scheduler does with the *)
(* tasks and the mailboxes, in the terms of DecenWorkerInv, and that the   *)
(* operations of a task keep the invariant: the first part of the proofs   *)
(* of DecenWorkerProofs.                                                   *)
(***************************************************************************)
EXTENDS DecenWorkerInv, FiniteSetTheorems, TLAPS

USE SMTT(10), ZenonT(30), SMTT(60)

----------------------------------------------------------------------------
(* Mailboxes and ready queues as sets *)

(* What Append does to a sequence of different elements. *)
LEMMA AppendDistinct ==
  ASSUME NEW S, NEW s \in Seq(S), NEW x \in S, Distinct(s), x \notin Range(s)
  PROVE  /\ Append(s, x) \in Seq(S) /\ Distinct(Append(s, x))
         /\ Range(Append(s, x)) = Range(s) \cup {x}
  <1>1. /\ Append(s, x) \in Seq(S) /\ DOMAIN Append(s, x) = 1 .. Len(s) + 1
        /\ DOMAIN s = 1 .. Len(s) /\ Len(s) \in Nat
        /\ \A i \in 1 .. Len(s) : Append(s, x)[i] = s[i]
        /\ Append(s, x)[Len(s) + 1] = x
    OBVIOUS
  <1>2. \A i \in 1 .. Len(s) : s[i] # x BY <1>1 DEF Range
  <1>3. Distinct(Append(s, x)) BY <1>1, <1>2 DEF Distinct
  <1>4. Range(Append(s, x)) = Range(s) \cup {x}
    <2>1. ASSUME NEW y \in Range(Append(s, x)) PROVE y \in Range(s) \cup {x}
      BY <1>1 DEF Range
    <2>2. Range(s) \subseteq Range(Append(s, x)) BY <1>1 DEF Range
    <2>3. x \in Range(Append(s, x)) BY <1>1 DEF Range
    <2> QED BY <2>1, <2>2, <2>3
  <1> QED BY <1>1, <1>3, <1>4

(* What Tail does to it. *)
LEMMA TailDistinct ==
  ASSUME NEW S, NEW s \in Seq(S), s # <<>>, Distinct(s)
  PROVE  /\ Tail(s) \in Seq(S) /\ Distinct(Tail(s))
         /\ Head(s) \in Range(s) /\ Head(s) \in S
         /\ Range(Tail(s)) = Range(s) \ {Head(s)}
  <1>1. /\ Tail(s) \in Seq(S) /\ DOMAIN Tail(s) = 1 .. Len(s) - 1
        /\ DOMAIN s = 1 .. Len(s) /\ Len(s) \in Nat \ {0}
        /\ \A i \in 1 .. Len(s) - 1 : Tail(s)[i] = s[i + 1]
        /\ Head(s) = s[1] /\ s[1] \in S
    OBVIOUS
  <1>2. 1 \in DOMAIN s /\ \A i \in 1 .. Len(s) - 1 : i + 1 \in DOMAIN s
    BY <1>1
  <1>3. Distinct(Tail(s))
    <2> SUFFICES ASSUME NEW i \in 1 .. Len(s) - 1, NEW j \in 1 .. Len(s) - 1,
                        s[i + 1] = s[j + 1]
                 PROVE  i = j
      BY <1>1 DEF Distinct
    <2>1. i + 1 = j + 1 BY <1>2 DEF Distinct
    <2> QED BY <2>1
  <1>4. Head(s) \in Range(s) BY <1>1, <1>2 DEF Range
  <1>5. ASSUME NEW y \in Range(Tail(s)) PROVE y \in Range(s) \ {Head(s)}
    <2>1. PICK i \in 1 .. Len(s) - 1 : y = s[i + 1] BY <1>1 DEF Range
    <2>2. i + 1 # 1 /\ i + 1 \in DOMAIN s BY <1>2
    <2>3. s[i + 1] # s[1] BY <1>2, <2>2 DEF Distinct
    <2> QED BY <1>1, <2>1, <2>2, <2>3 DEF Range
  <1>6. ASSUME NEW y \in Range(s), y # Head(s) PROVE y \in Range(Tail(s))
    <2>1. PICK k \in 1 .. Len(s) : y = s[k] BY <1>1 DEF Range
    <2>2. k - 1 \in 1 .. Len(s) - 1 /\ (k - 1) + 1 = k BY <1>1, <1>6, <2>1
    <2>3. Tail(s)[k - 1] = y BY <1>1, <2>1, <2>2
    <2> QED BY ZenonT(60), <1>1, <2>2, <2>3 DEF Range
  <1> QED BY <1>1, <1>3, <1>4, <1>5, <1>6

(* A message that is sent is held by one mailbox more. *)
Sends(mb, mb2, c, m) ==
  /\ MailOK(mb) /\ c \in Ctx /\ m \in Messages /\ c \notin Holders(mb, m)
  /\ mb2 = [mb EXCEPT ![c] = Append(@, m)]

IsSent(mb, mb2, c, m) ==
  /\ MailOK(mb2) /\ Holders(mb2, m) = Holders(mb, m) \cup {c}
  /\ \A x : x # m => Holders(mb2, x) = Holders(mb, x)

(* LpelMailboxSend, by who has which message. *)
LEMMA SendMessage ==
  ASSUME NEW mb, NEW mb2, NEW c, NEW m, Sends(mb, mb2, c, m)
  PROVE  IsSent(mb, mb2, c, m)
  <1> USE DEF Sends, MailOK
  <1>1. m \notin Range(mb[c]) BY DEF Holders
  <1>2. /\ Append(mb[c], m) \in Seq(Messages) /\ Distinct(Append(mb[c], m))
        /\ Range(Append(mb[c], m)) = Range(mb[c]) \cup {m}
    BY <1>1, AppendDistinct
  <1>3. /\ mb2 \in [Ctx -> Seq(Messages)] /\ mb2[c] = Append(mb[c], m)
        /\ \A d \in Ctx : d # c => mb2[d] = mb[d]
    BY <1>2
  <1>4. MailOK(mb2) BY <1>2, <1>3
  <1>5. /\ Range(mb2[c]) = Range(mb[c]) \cup {m}
        /\ \A d \in Ctx : d # c => Range(mb2[d]) = Range(mb[d])
    BY <1>2, <1>3
  <1>6. Holders(mb2, m) = Holders(mb, m) \cup {c} BY <1>5 DEF Holders
  <1>7. ASSUME NEW x, x # m PROVE Holders(mb2, x) = Holders(mb, x)
    BY ZenonT(60), <1>5, <1>7 DEF Holders
  <1> QED BY ZenonT(60), <1>4, <1>6, <1>7 DEF IsSent

(* A message that is received is held by one mailbox less. *)
Takes(mb, mb2, c) ==
  MailOK(mb) /\ c \in Ctx /\ mb[c] # <<>> /\ mb2 = [mb EXCEPT ![c] = Tail(@)]

IsTaken(mb, mb2, c, m) ==
  /\ MailOK(mb2) /\ m \in Messages /\ c \in Holders(mb, m)
  /\ Holders(mb2, m) = Holders(mb, m) \ {c}
  /\ \A x : x # m => Holders(mb2, x) = Holders(mb, x)

(* LpelMailboxRecv, by who has which message. *)
LEMMA TakeMessage ==
  ASSUME NEW mb, NEW mb2, NEW c, Takes(mb, mb2, c)
  PROVE  IsTaken(mb, mb2, c, Head(mb[c]))
  <1> USE DEF Takes, MailOK
  <1> DEFINE m == Head(mb[c])
  <1>1. /\ Tail(mb[c]) \in Seq(Messages) /\ Distinct(Tail(mb[c]))
        /\ m \in Range(mb[c]) /\ m \in Messages
        /\ Range(Tail(mb[c])) = Range(mb[c]) \ {m}
    BY TailDistinct
  <1> HIDE DEF m
  <1>3. /\ mb2 \in [Ctx -> Seq(Messages)] /\ mb2[c] = Tail(mb[c])
        /\ \A d \in Ctx : d # c => mb2[d] = mb[d]
    BY <1>1
  <1>4. MailOK(mb2) BY <1>1, <1>3
  <1>5. /\ Range(mb2[c]) = Range(mb[c]) \ {m}
        /\ \A d \in Ctx : d # c => Range(mb2[d]) = Range(mb[d])
    BY <1>1, <1>3
  <1>6. Holders(mb2, m) = Holders(mb, m) \ {c} BY <1>5 DEF Holders
  <1>7. ASSUME NEW x, x # m PROVE Holders(mb2, x) = Holders(mb, x)
    <2>1. \A d \in Ctx : x \in Range(mb2[d]) <=> x \in Range(mb[d])
      BY <1>5, <1>7
    <2> QED BY <2>1 DEF Holders
  <1>8. c \in Holders(mb, m) BY <1>1 DEF Holders
  <1> QED BY ZenonT(60), <1>1, <1>4, <1>6, <1>7, <1>8 DEF m, IsTaken

(* A task that is made ready is in one ready queue more. *)
IsQueued(c, t) ==
  /\ QueueOK(queue') /\ Queues(t)' = Queues(t) \cup {c}
  /\ \A u \in Tasks \ {t} : Queues(u)' = Queues(u)

(* LpelSchedMakeReady puts the task into one queue of the worker. *)
LEMMA MakeReady ==
  ASSUME QueueOK(queue), NEW c \in Ctx, NEW t \in Tasks, c \notin Queues(t),
         LpelSchedMakeReady(c, t)
  PROVE  IsQueued(c, t)
  <1> USE DEF QueueOK
  <1> DEFINE p0 == IF Prio[t] < 0 THEN 0
                   ELSE IF Prio[t] >= NumPrio THEN NumPrio - 1 ELSE Prio[t]
  <1>0. p0 \in Priorities BY WorkerAssumption DEF Priorities
  <1>1. PICK p \in Priorities : queue' = [queue EXCEPT ![c][p] = Append(@, t)]
    BY ZenonT(60), <1>0 DEF LpelSchedMakeReady
  <1>2. \A q \in Priorities : t \notin Range(queue[c][q])
    BY DEF Queues, Priorities
  <1>3. /\ Append(queue[c][p], t) \in Seq(Tasks)
        /\ Distinct(Append(queue[c][p], t))
        /\ Range(Append(queue[c][p], t)) = Range(queue[c][p]) \cup {t}
    BY <1>2, AppendDistinct
  <1>4. /\ queue' \in [Ctx -> [Priorities -> Seq(Tasks)]]
        /\ queue'[c][p] = Append(queue[c][p], t)
        /\ \A d \in Ctx : \A q \in Priorities :
             d # c \/ q # p => queue'[d][q] = queue[d][q]
    BY <1>1, <1>3
  <1>5. /\ Range(queue'[c][p]) = Range(queue[c][p]) \cup {t}
        /\ \A d \in Ctx : \A q \in Priorities :
             d # c \/ q # p => Range(queue'[d][q]) = Range(queue[d][q])
    BY <1>3, <1>4
  <1>6. QueueOK(queue')
    <2>1. ASSUME NEW d \in Ctx, NEW q \in Priorities
          PROVE  Distinct(queue'[d][q])
      BY ZenonT(60), <1>3, <1>4
    <2>2. ASSUME NEW d \in Ctx, NEW q \in Priorities, NEW r \in Priorities,
                 NEW x \in Tasks,
                 x \in Range(queue'[d][q]), x \in Range(queue'[d][r])
          PROVE  q = r
      <3>1. \A o \in Priorities : x \in Range(queue'[d][o]) =>
              x \in Range(queue[d][o]) \/ (d = c /\ o = p /\ x = t)
        <4> TAKE o \in Priorities
        <4>1. CASE d = c /\ o = p BY ZenonT(60), <1>5, <4>1
        <4>2. CASE d # c \/ o # p BY ZenonT(60), <1>5, <4>2
        <4> QED BY <4>1, <4>2
      <3>2. CASE x = t /\ d = c BY ZenonT(60), <1>2, <2>2, <3>1, <3>2
      <3>3. CASE ~(x = t /\ d = c)
        BY ZenonT(60), <2>2, <3>1, <3>3
      <3> QED BY <3>2, <3>3
    <2> QED BY ZenonT(60), <1>4, <2>1, <2>2
  <1>7. Queues(t)' = Queues(t) \cup {c}
    BY <1>5 DEF Queues, Priorities
  <1>8. ASSUME NEW u \in Tasks \ {t} PROVE Queues(u)' = Queues(u)
    <2>1. \A d \in Ctx : \A q \in Priorities :
            u \in Range(queue'[d][q]) <=> u \in Range(queue[d][q])
      BY ZenonT(60), <1>5
    <2> QED BY <2>1 DEF Queues, Priorities
  <1> QED BY ZenonT(60), <1>6, <1>7, <1>8 DEF IsQueued

(* A task that is fetched from a ready queue was there, and is no longer. *)
IsFetched(c, t) ==
  /\ QueueOK(queue') /\ c \in Queues(t) /\ Queues(t)' = Queues(t) \ {c}
  /\ \A u \in Tasks \ {t} : Queues(u)' = Queues(u)

(* LpelSchedFetchReady takes the task out of it. *)
LEMMA FetchReady ==
  ASSUME QueueOK(queue), NEW c \in Ctx, NEW t \in Tasks,
         LpelSchedFetchReady(c, t)
  PROVE  IsFetched(c, t)
  <1> USE DEF QueueOK
  <1>1. PICK p \in Priorities : /\ queue[c][p] # <<>> /\ t = Head(queue[c][p])
                                /\ queue' = [queue EXCEPT ![c][p] = Tail(@)]
    BY ZenonT(60) DEF LpelSchedFetchReady, Priorities, Nonempty
  <1>3. /\ Tail(queue[c][p]) \in Seq(Tasks) /\ Distinct(Tail(queue[c][p]))
        /\ t \in Range(queue[c][p])
        /\ Range(Tail(queue[c][p])) = Range(queue[c][p]) \ {t}
    BY <1>1, TailDistinct
  <1>4. /\ queue' \in [Ctx -> [Priorities -> Seq(Tasks)]]
        /\ queue'[c][p] = Tail(queue[c][p])
        /\ \A d \in Ctx : \A q \in Priorities :
             d # c \/ q # p => queue'[d][q] = queue[d][q]
    BY <1>1, <1>3
  <1>5. /\ Range(queue'[c][p]) = Range(queue[c][p]) \ {t}
        /\ \A d \in Ctx : \A q \in Priorities :
             d # c \/ q # p => Range(queue'[d][q]) = Range(queue[d][q])
    BY <1>3, <1>4
  <1>6. QueueOK(queue')
    <2>1. ASSUME NEW d \in Ctx, NEW q \in Priorities
          PROVE  Distinct(queue'[d][q])
      BY <1>3, <1>4
    <2>2. \A d \in Ctx : \A q \in Priorities :
            Range(queue'[d][q]) \subseteq Range(queue[d][q])
      BY ZenonT(60), <1>5
    <2> QED BY ZenonT(60), <1>4, <2>1, <2>2
  <1>7. \A q \in Priorities : q # p => t \notin Range(queue[c][q])
    BY ZenonT(60), <1>3
  <1>8. c \in Queues(t) BY <1>3 DEF Queues, Priorities
  <1>9. Queues(t)' = Queues(t) \ {c}
    <2>1. \A q \in Priorities : t \notin Range(queue'[c][q]) BY ZenonT(60), <1>5, <1>7
    <2>2. \A d \in Ctx : \A q \in Priorities :
            d # c => (t \in Range(queue'[d][q]) <=> t \in Range(queue[d][q]))
      BY <1>5
    <2> QED BY <2>1, <2>2 DEF Queues, Priorities
  <1>10. ASSUME NEW u \in Tasks \ {t}
         PROVE  Queues(u)' = Queues(u)
    <2>1. \A d \in Ctx : \A q \in Priorities :
            u \in Range(queue'[d][q]) <=> u \in Range(queue[d][q])
      BY ZenonT(60), <1>5
    <2> QED BY <2>1 DEF Queues, Priorities
  <1> QED BY ZenonT(60), <1>6, <1>8, <1>9, <1>10 DEF IsFetched

----------------------------------------------------------------------------
(* Threads as sets *)

(* The numbers of workers and wrappers: workers from 0 on, wrappers        *)
(* below.                                                                  *)
LEMMA CtxFacts ==
  /\ Ctx \subseteq Int /\ Workers \subseteq Ctx
  /\ \A c \in Ctx : (c < 0 <=> ~(c >= 0)) /\ (c \in Workers <=> c >= 0)
  <1>1. num_workers \in Nat /\ \A c \in Wrappers : c \in Int /\ c < 0
    BY WorkerAssumption
  <1> QED BY <1>1 DEF Ctx, Workers

(* NULL is no task. *)
LEMMA NullFacts == NULL \notin Tasks BY WorkerAssumption

(* A task that is put into an empty slot of a thread, or taken out of it. *)
IsFilled(f, g, c, t) ==
  /\ g \in [Ctx -> Slot] /\ Where(g, t) = Where(f, t) \cup {c}
  /\ \A u \in Tasks \ {t} : Where(g, u) = Where(f, u)

(* A pointer of a thread is set to a task. *)
LEMMA FillSlot ==
  ASSUME NEW f \in [Ctx -> Slot], NEW c \in Ctx, NEW t \in Tasks,
         f[c] \in {NULL, t}, NEW g, g = [f EXCEPT ![c] = t]
  PROVE  IsFilled(f, g, c, t)
  <1>1. /\ g \in [Ctx -> Slot] /\ g[c] = t
        /\ \A d \in Ctx : d # c => g[d] = f[d]
    BY DEF Slot
  <1>2. Where(g, t) = Where(f, t) \cup {c} BY <1>1 DEF Where
  <1>3. ASSUME NEW u \in Tasks \ {t} PROVE Where(g, u) = Where(f, u)
    <2>1. \A d \in Ctx : g[d] = u <=> f[d] = u BY <1>1, NullFacts
    <2> QED BY <2>1 DEF Where
  <1> QED BY ZenonT(60), <1>1, <1>2, <1>3 DEF IsFilled

IsCleared(f, g, c, t) ==
  /\ g \in [Ctx -> Slot] /\ Where(g, t) = Where(f, t) \ {c}
  /\ \A u \in Tasks \ {t} : Where(g, u) = Where(f, u)

(* A pointer of a thread is cleared. *)
LEMMA ClearSlot ==
  ASSUME NEW f \in [Ctx -> Slot], NEW c \in Ctx, NEW t \in Tasks,
         f[c] = t, NEW g, g = [f EXCEPT ![c] = NULL]
  PROVE  IsCleared(f, g, c, t)
  <1>1. /\ g \in [Ctx -> Slot] /\ g[c] = NULL
        /\ \A d \in Ctx : d # c => g[d] = f[d]
    BY DEF Slot
  <1>2. Where(g, t) = Where(f, t) \ {c} BY <1>1, NullFacts DEF Where
  <1>3. ASSUME NEW u \in Tasks \ {t} PROVE Where(g, u) = Where(f, u)
    <2>1. \A d \in Ctx : g[d] = u <=> f[d] = u BY <1>1, NullFacts
    <2> QED BY <2>1 DEF Where
  <1> QED BY ZenonT(60), <1>1, <1>2, <1>3 DEF IsCleared

(* A step of thread c. *)
ThreadStep(c) ==
  /\ \A d \in Ctx : d # c => pc'[d] = pc[d] /\ on'[d] = on[d]

(* A thread that stays in its loop runs no task. *)
LEMMA KeepsNotRunning ==
  ASSUME NEW c \in Ctx, ThreadStep(c), pc[c] # "run", pc'[c] # "run"
  PROVE  \A u : Runners(u)' = Runners(u)
  <1> TAKE u
  <1>1. \A d \in Ctx : Runs(d, u)' <=> Runs(d, u) BY DEF ThreadStep, Runs
  <1> QED BY <1>1 DEF Runners

(* A thread switches to a task. *)
LEMMA StartsRunning ==
  ASSUME NEW c \in Ctx, ThreadStep(c), NEW t \in Tasks,
         pc[c] # "run", pc'[c] = "run", on'[c] = t
  PROVE  /\ Runners(t)' = Runners(t) \cup {c}
         /\ \A u \in Tasks \ {t} : Runners(u)' = Runners(u)
  <1>1. \A d \in Ctx : Runs(d, t)' <=> Runs(d, t) \/ d = c
    BY DEF ThreadStep, Runs
  <1>2. \A u \in Tasks \ {t} : \A d \in Ctx : Runs(d, u)' <=> Runs(d, u)
    BY DEF ThreadStep, Runs
  <1> QED BY <1>1, <1>2 DEF Runners

(* A thread leaves a task. *)
LEMMA StopsRunning ==
  ASSUME NEW c \in Ctx, ThreadStep(c), NEW t \in Tasks,
         Runs(c, t), pc'[c] # "run"
  PROVE  /\ Runners(t)' = Runners(t) \ {c}
         /\ \A u \in Tasks \ {t} : Runners(u)' = Runners(u)
  <1>1. \A d \in Ctx : Runs(d, t)' <=> Runs(d, t) /\ d # c
    BY DEF ThreadStep, Runs
  <1>2. \A u \in Tasks \ {t} : \A d \in Ctx : Runs(d, u)' <=> Runs(d, u)
    BY DEF ThreadStep, Runs
  <1> QED BY <1>1, <1>2 DEF Runners

----------------------------------------------------------------------------
(* What the invariant says of a task *)

(* A task that runs is nowhere else. *)
LEMMA RunningTask ==
  ASSUME NEW c \in Ctx, NEW t \in Tasks, TaskInv(t), Runs(c, t)
  PROVE  /\ state[t] = "RUNNING" /\ worker_context[t] = c /\ t \in started
         /\ At(t, {c}, {}, {}, {}, {})
  <1>1. c \in Runners(t) BY DEF Runners
  <1> QED BY <1>1 DEF TaskInv, Located, Nowhere, At

(* A task in a queue is READY, and nowhere else. *)
LEMMA QueuedTask ==
  ASSUME NEW c \in Ctx, NEW t \in Tasks, TaskInv(t), c \in Queues(t)
  PROVE  /\ state[t] = "READY" /\ worker_context[t] = c /\ t \in started
         /\ c >= 0 /\ At(t, {}, {c}, {}, {}, {})
  BY DEF TaskInv, Located, Nowhere, At

(* A task that its wrapper will run is READY, and nowhere else. *)
LEMMA WrapTask ==
  ASSUME NEW c \in Ctx, NEW t \in Tasks, TaskInv(t), wraptask[c] = t
  PROVE  /\ state[t] = "READY" /\ worker_context[t] = c /\ t \in started
         /\ c < 0 /\ At(t, {}, {}, {c}, {}, {})
  <1>1. c \in Wraps(t) BY DEF Wraps, Where
  <1> QED BY <1>1 DEF TaskInv, Located, Nowhere, At

(* A task that migrates from c is READY, and nowhere else. *)
LEMMA LeavingTask ==
  ASSUME NEW c \in Ctx, NEW t \in Tasks, TaskInv(t), migrated[c] = t
  PROVE  /\ state[t] = "READY" /\ t \in started
         /\ At(t, {}, {}, {}, {c}, {})
  <1>1. c \in Leaves(t) BY DEF Leaves, Where
  <1> QED BY <1>1 DEF TaskInv, Located, Nowhere, At

(* A task whose ASSIGN is sent is nowhere else. *)
LEMMA AssignedTask ==
  ASSUME NEW c \in Ctx, NEW t \in Tasks, TaskInv(t), c \in Assigns(t)
  PROVE  /\ state[t] \in {"CREATED", "READY"} /\ worker_context[t] = c
         /\ t \in started /\ At(t, {}, {}, {}, {}, {c})
  BY DEF TaskInv, Located, Nowhere, At

(* The second part of WokenTaskIsBlocked rests on this: only the task that *)
(* a thread is running is in the state RUNNING at its worker.              *)
LEMMA NotRunningTask ==
  ASSUME NEW t \in Tasks, TaskInv(t), ~Runs(worker_context[t], t)
  PROVE  state[t] # "RUNNING"
  <1>1. worker_context[t] \notin Runners(t) BY DEF Runners
  <1> QED BY <1>1 DEF TaskInv, Located, Nowhere, At

(* A blocked task is in no queue and on no worker. *)
LEMMA BlockedTask ==
  ASSUME NEW t \in Tasks, TaskInv(t), state[t] = "BLOCKED"
  PROVE  Nowhere(t) /\ t \in started
  BY DEF TaskInv, Located

(* A wakeup that a worker is about to handle is for a blocked task of its  *)
(* own.                                                                    *)
LEMMA WokenTask ==
  ASSUME NEW c \in Ctx, NEW t \in Tasks, TaskInv(t), c \in Wakes(t),
         pc[c] # "run"
  PROVE  /\ state[t] = "BLOCKED" /\ worker_context[t] = c /\ t \in started
         /\ park[t] = "granted" /\ Wakes(t) = {c} /\ Nowhere(t)
  <1>1. /\ park[t] = "granted" /\ worker_context[t] = c /\ Wakes(t) = {c}
        /\ state[t] \in {"RUNNING", "BLOCKED"}
    BY DEF TaskInv, Parked
  <1>2. state[t] # "RUNNING" BY <1>1, NotRunningTask DEF Runs
  <1> QED BY <1>1, <1>2, BlockedTask

----------------------------------------------------------------------------
(* A step that concerns one task *)

Same(u) ==
  /\ Runners(u)' = Runners(u) /\ Queues(u)' = Queues(u) /\ Wraps(u)' = Wraps(u)
  /\ Leaves(u)' = Leaves(u) /\ Assigns(u)' = Assigns(u) /\ Wakes(u)' = Wakes(u)
  /\ state'[u] = state[u] /\ worker_context'[u] = worker_context[u]
  /\ park'[u] = park[u] /\ (u \in started' <=> u \in started)

Moved(t) == \A u \in Tasks \ {t} : Same(u)

(* What holds of a task goes on to hold when its place and state stay. *)
LEMMA SameKeeps ==
  ASSUME NEW u \in Tasks, TaskInv(u), Same(u)
  PROVE  TaskInv(u)'
  <1>1. Located(u)' BY ZenonT(60) DEF TaskInv, Same, Located, Nowhere, At
  <1>2. Parked(u)' BY ZenonT(60) DEF TaskInv, Same, Parked
  <1>3. Homed(u)' BY ZenonT(60) DEF TaskInv, Same, Homed
  <1> QED BY <1>1, <1>2, <1>3 DEF TaskInv

(* It is enough to look at the task that a step concerns. *)
LEMMA MovedKeeps ==
  ASSUME \A u \in Tasks : TaskInv(u), NEW t \in Tasks, Moved(t), TaskInv(t)'
  PROVE  \A u \in Tasks : TaskInv(u)'
  BY ZenonT(60), SameKeeps DEF Moved

(* The same of all tasks. *)
LEMMA AllSameKeeps ==
  ASSUME \A u \in Tasks : TaskInv(u), \A u \in Tasks : Same(u)
  PROVE  \A u \in Tasks : TaskInv(u)'
  BY ZenonT(60), SameKeeps

(* Queues stay. *)
LEMMA SameQueues == ASSUME queue' = queue PROVE \A u : Queues(u)' = Queues(u)
  BY ZenonT(60) DEF Queues

(* Tasks of wrappers stay. *)
LEMMA SameWraps == ASSUME wraptask' = wraptask PROVE \A u : Wraps(u)' = Wraps(u)
  BY ZenonT(60) DEF Wraps, Where

(* Migrating tasks stay. *)
LEMMA SameLeaves == ASSUME migrated' = migrated PROVE \A u : Leaves(u)' = Leaves(u)
  BY ZenonT(60) DEF Leaves, Where

(* Running tasks stay. *)
LEMMA SameRunners ==
  ASSUME pc' = pc, on' = on PROVE \A u : Runners(u)' = Runners(u)
  BY ZenonT(60) DEF Runners, Runs

(* Messages stay. *)
LEMMA SameMail ==
  ASSUME mailbox' = mailbox
  PROVE  /\ \A u : Assigns(u)' = Assigns(u) /\ Wakes(u)' = Wakes(u)
         /\ Terminates' = Terminates
  BY ZenonT(60) DEF Assigns, Wakes, Terminates, Holders

(* The messages of a worker, and that they differ. *)
LEMMA MsgFacts ==
  /\ Msg("TERMINATE", NULL) \in Messages
  /\ \A t \in Tasks : Msg("ASSIGN", t) \in Messages /\ Msg("WAKEUP", t) \in Messages
  /\ \A t, u : Msg("ASSIGN", t) = Msg("ASSIGN", u) => t = u
  /\ \A t, u : Msg("WAKEUP", t) = Msg("WAKEUP", u) => t = u
  /\ \A t, u : /\ Msg("WAKEUP", t) # Msg("ASSIGN", u)
               /\ Msg("WAKEUP", t) # Msg("TERMINATE", u)
               /\ Msg("ASSIGN", t) # Msg("TERMINATE", u)
  /\ \A m \in Messages :
       /\ m.type \in {"WAKEUP", "ASSIGN"} => m.task \in Tasks
       /\ m.type = "WAKEUP" => m = Msg("WAKEUP", m.task)
       /\ m.type = "ASSIGN" => m = Msg("ASSIGN", m.task)
       /\ m.type = "TERMINATE" => m = Msg("TERMINATE", NULL)
  BY DEF Messages, Msg

(* ASSIGN is sent. *)
LEMMA SendAssign ==
  ASSUME NEW mb, MailOK(mb), NEW c \in Ctx,
         NEW t \in Tasks, c \notin Holders(mb, Msg("ASSIGN", t)),
         mailbox' = [mb EXCEPT ![c] = Append(@, Msg("ASSIGN", t))]
  PROVE  /\ MailOK(mailbox')
         /\ Assigns(t)' = Holders(mb, Msg("ASSIGN", t)) \cup {c}
         /\ \A u \in Tasks \ {t} : Assigns(u)' = Holders(mb, Msg("ASSIGN", u))
         /\ \A u : Wakes(u)' = Holders(mb, Msg("WAKEUP", u))
         /\ Terminates' = Holders(mb, Msg("TERMINATE", NULL))
  <1> DEFINE m == Msg("ASSIGN", t)
  <1>1. m \in Messages BY ZenonT(60), MsgFacts
  <1>0. Sends(mb, mailbox', c, m) BY ZenonT(60), <1>1 DEF Sends
  <1> HIDE DEF m
  <1>2. IsSent(mb, mailbox', c, m) BY ZenonT(60), <1>0, SendMessage
  <1>3. /\ \A u \in Tasks \ {t} : Msg("ASSIGN", u) # m
        /\ \A u : Msg("WAKEUP", u) # m
        /\ Msg("TERMINATE", NULL) # m
    BY ZenonT(60), MsgFacts DEF m
  <1> QED BY ZenonT(60), <1>2, <1>3 DEF IsSent, Assigns, Wakes, Terminates, m

(* WAKEUP is sent. *)
LEMMA SendWakeup ==
  ASSUME MailOK(mailbox), NEW c \in Ctx,
         NEW t \in Tasks, c \notin Wakes(t),
         mailbox' = [mailbox EXCEPT ![c] = Append(@, Msg("WAKEUP", t))]
  PROVE  /\ MailOK(mailbox')
         /\ Wakes(t)' = Wakes(t) \cup {c}
         /\ \A u \in Tasks \ {t} : Wakes(u)' = Wakes(u)
         /\ \A u : Assigns(u)' = Assigns(u)
         /\ Terminates' = Terminates
  <1> DEFINE m == Msg("WAKEUP", t)
  <1>1. m \in Messages BY ZenonT(60), MsgFacts
  <1>0. Sends(mailbox, mailbox', c, m) BY ZenonT(60), <1>1 DEF Sends, Wakes
  <1> HIDE DEF m
  <1>2. IsSent(mailbox, mailbox', c, m) BY ZenonT(60), <1>0, SendMessage
  <1>3. /\ \A u \in Tasks \ {t} : Msg("WAKEUP", u) # m
        /\ \A u : Msg("ASSIGN", u) # m
        /\ Msg("TERMINATE", NULL) # m
    BY ZenonT(60), MsgFacts DEF m
  <1> QED BY ZenonT(60), <1>2, <1>3 DEF IsSent, Assigns, Wakes, Terminates, m

(* TERMINATE is sent. *)
LEMMA SendTerminate ==
  ASSUME MailOK(mailbox), NEW c \in Ctx,
         c \notin Terminates,
         mailbox' = [mailbox EXCEPT ![c] = Append(@, Msg("TERMINATE", NULL))]
  PROVE  /\ MailOK(mailbox')
         /\ \A u : Assigns(u)' = Assigns(u) /\ Wakes(u)' = Wakes(u)
         /\ Terminates' = Terminates \cup {c}
  <1> DEFINE m == Msg("TERMINATE", NULL)
  <1>1. m \in Messages BY ZenonT(60), MsgFacts
  <1>0. Sends(mailbox, mailbox', c, m) BY ZenonT(60), <1>1 DEF Sends, Terminates
  <1> HIDE DEF m
  <1>2. IsSent(mailbox, mailbox', c, m) BY ZenonT(60), <1>0, SendMessage
  <1>3. \A u : Msg("ASSIGN", u) # m /\ Msg("WAKEUP", u) # m
    BY ZenonT(60), MsgFacts DEF m
  <1> QED BY ZenonT(60), <1>2, <1>3 DEF IsSent, Assigns, Wakes, Terminates, m

----------------------------------------------------------------------------
(* What the steps of a running task do *)

Becomes(t, st, wc) ==
  state'[t] = st /\ worker_context'[t] = wc /\ t \in started'

(* The parts of the invariant. *)
LEMMA InvFacts ==
  ASSUME WorkerInv
  PROVE  TypeOK /\ (\A u \in Tasks : TaskInv(u)) /\ (\A d \in Ctx : Threaded(d))
  BY DEF WorkerInv

(* A thread goes on in its loop. *)
LEMMA StopThread ==
  ASSUME TypeOK, NEW c \in Ctx, NEW st \in Pcs,
         pc' = [pc EXCEPT ![c] = st], on' = on
  PROVE  ThreadStep(c) /\ pc' \in [Ctx -> Pcs] /\ pc'[c] = st
  BY DEF TypeOK, ThreadStep

(* LpelTaskBlockStream *)
LEMMA BlockEffect ==
  ASSUME WorkerInv, NEW c \in Ctx, NEW t \in Tasks, LpelTaskBlockStream(c, t)
  PROVE  /\ TypeOK' /\ Moved(t) /\ TaskInv(t)' /\ ThreadStep(c)
         /\ At(t, {c}, {}, {}, {}, {}) /\ Nowhere(t)' /\ Becomes(t, "BLOCKED", c)
  <1>a. TypeOK BY InvFacts
  <1>b. TaskInv(t) BY InvFacts
  <1>1. /\ Runs(c, t) /\ park[t] # "running" /\ pc' = [pc EXCEPT ![c] = "disp"]
        /\ state' = [state EXCEPT ![t] = "BLOCKED"]
        /\ UNCHANGED <<mailbox, queue, workervars, on, worker_context, freed,
                       envvars>>
    BY DEF LpelTaskBlockStream
  <1>2. /\ state[t] = "RUNNING" /\ worker_context[t] = c /\ t \in started
        /\ At(t, {c}, {}, {}, {}, {})
    BY <1>b, <1>1, RunningTask
  <1>3. ThreadStep(c) /\ pc' \in [Ctx -> Pcs] /\ pc'[c] = "disp"
    BY <1>a, ZenonT(60), <1>1, StopThread DEF Pcs
  <1>4. /\ Runners(t)' = Runners(t) \ {c}
        /\ \A u \in Tasks \ {t} : Runners(u)' = Runners(u)
    BY <1>1, <1>3, StopsRunning
  <1>5. /\ UNCHANGED <<mailbox, queue, wraptask, migrated, worker_context, park,
                       started>>
        /\ state'[t] = "BLOCKED" /\ state' \in [Tasks -> States]
        /\ \A u \in Tasks \ {t} : state'[u] = state[u]
    BY <1>a, <1>1 DEF workervars, envvars, TypeOK, States
  <1>6. \A u : /\ Queues(u)' = Queues(u) /\ Wraps(u)' = Wraps(u)
               /\ Leaves(u)' = Leaves(u) /\ Assigns(u)' = Assigns(u)
               /\ Wakes(u)' = Wakes(u)
    BY ZenonT(60), <1>5, SameQueues, SameWraps, SameLeaves, SameMail
  <1>7. TypeOK'
    BY <1>a, <1>1, <1>3, <1>5 DEF TypeOK, workervars, envvars
  <1>8. Moved(t) BY ZenonT(60), <1>4, <1>5, <1>6 DEF Moved, Same
  <1>9. Nowhere(t)'
    <2>1. Runners(t)' = {} BY <1>2, <1>4 DEF At
    <2> QED BY ZenonT(60), <1>2, <1>6, <2>1 DEF At, Nowhere
  <1>10. TaskInv(t)'
    <2>1. Located(t)' BY ZenonT(60), <1>2, <1>5, <1>9 DEF Located
    <2>2. Parked(t)' BY <1>b, <1>1, <1>2, <1>5, <1>6 DEF TaskInv, Parked
    <2>3. Homed(t)' BY <1>b, ZenonT(60), <1>5, <1>6 DEF TaskInv, Homed
    <2> QED BY <2>1, <2>2, <2>3 DEF TaskInv
  <1> QED BY ZenonT(60), <1>2, <1>3, <1>5, <1>7, <1>8, <1>9, <1>10 DEF Becomes

(* LpelTaskExit *)
LEMMA ExitEffect ==
  ASSUME WorkerInv, NEW c \in Ctx, NEW t \in Tasks, LpelTaskExit(c, t)
  PROVE  /\ TypeOK' /\ Moved(t) /\ TaskInv(t)' /\ ThreadStep(c)
         /\ At(t, {c}, {}, {}, {}, {}) /\ Nowhere(t)' /\ Becomes(t, "ZOMBIE", c)
         /\ state[t] = "RUNNING" /\ worker_context[t] = c
  <1>a. TypeOK BY InvFacts
  <1>b. TaskInv(t) BY InvFacts
  <1>1. /\ Runs(c, t) /\ park[t] = "running" /\ pc' = [pc EXCEPT ![c] = "disp"]
        /\ state' = [state EXCEPT ![t] = "ZOMBIE"]
        /\ LpelWorkerSelfTaskExit(c, t)
        /\ UNCHANGED <<mailbox, queue, wraptask, migrated, on, worker_context,
                       envvars>>
    BY DEF LpelTaskExit
  <1>2. /\ state[t] = "RUNNING" /\ worker_context[t] = c /\ t \in started
        /\ At(t, {c}, {}, {}, {}, {})
    BY <1>b, <1>1, RunningTask
  <1>3. ThreadStep(c) /\ pc' \in [Ctx -> Pcs] /\ pc'[c] = "disp"
    BY <1>a, ZenonT(60), <1>1, StopThread DEF Pcs
  <1>4. /\ Runners(t)' = Runners(t) \ {c}
        /\ \A u \in Tasks \ {t} : Runners(u)' = Runners(u)
    BY <1>1, <1>3, StopsRunning
  <1>5. /\ UNCHANGED <<mailbox, queue, wraptask, migrated, on, worker_context,
                       mechanism, park, started, stopped>>
        /\ state'[t] = "ZOMBIE" /\ state' \in [Tasks -> States]
        /\ \A u \in Tasks \ {t} : state'[u] = state[u]
    BY <1>a, <1>1 DEF workervars, envvars, TypeOK, States
  <1>6. \A u : /\ Queues(u)' = Queues(u) /\ Wraps(u)' = Wraps(u)
               /\ Leaves(u)' = Leaves(u) /\ Assigns(u)' = Assigns(u)
               /\ Wakes(u)' = Wakes(u)
    BY ZenonT(60), <1>5, SameQueues, SameWraps, SameLeaves, SameMail
  <1>7. TypeOK'
    <2>1. /\ num_tasks' \in [Ctx -> Int] /\ terminate' \in [Ctx -> BOOLEAN]
          /\ marked_del' \in [Ctx -> Slot] /\ freed' \subseteq Tasks
      BY <1>a, <1>1 DEF TypeOK, LpelWorkerSelfTaskExit, CleanupTaskContext,
                  LpelTaskDestroy, Slot
    <2> QED BY <1>a, <1>3, <1>5, <2>1 DEF TypeOK
  <1>8. Moved(t) BY ZenonT(60), <1>4, <1>5, <1>6 DEF Moved, Same
  <1>9. Nowhere(t)'
    <2>1. Runners(t)' = {} BY <1>2, <1>4 DEF At
    <2> QED BY ZenonT(60), <1>2, <1>6, <2>1 DEF At, Nowhere
  <1>10. TaskInv(t)'
    <2>1. Located(t)' BY ZenonT(60), <1>2, <1>5, <1>9 DEF Located
    <2>2. Parked(t)' BY <1>b, <1>1, <1>2, <1>5, <1>6 DEF TaskInv, Parked
    <2>3. Homed(t)' BY <1>b, ZenonT(60), <1>5, <1>6 DEF TaskInv, Homed
    <2> QED BY <2>1, <2>2, <2>3 DEF TaskInv
  <1> QED BY ZenonT(60), <1>2, <1>3, <1>5, <1>7, <1>8, <1>9, <1>10 DEF Becomes

(* A thread that runs a task has no other to send away, and a wrapper has  *)
(* no second task.                                                         *)
LEMMA OneTaskPerWrapper ==
  ASSUME NEW c \in Ctx, c < 0, NEW t \in Tasks, NEW u \in Tasks,
         Home[t] = c, Home[u] = c
  PROVE  t = u
  BY WorkerAssumption

(* No task migrates from a worker that runs one. *)
LEMMA NoneLeaving ==
  ASSUME WorkerInv, NEW c \in Ctx, NEW t \in Tasks, Runs(c, t)
  PROVE  migrated[c] = NULL
  <1>a. TypeOK BY InvFacts
  <1>b. \A u \in Tasks : TaskInv(u) BY InvFacts
  <1>c. Threaded(c) BY InvFacts
  <1>1. CASE c >= 0 BY <1>c, <1>1 DEF Threaded, Runs
  <1>2. CASE c < 0
    <2> SUFFICES ASSUME migrated[c] # NULL PROVE FALSE OBVIOUS
    <2>1. PICK u \in Tasks : migrated[c] = u BY <1>a DEF TypeOK, Slot
    <2>2. state[u] = "READY" /\ At(u, {}, {}, {}, {c}, {})
      BY <1>b, <2>1, LeavingTask
    <2>3. Home[u] = c BY <1>b, <1>2, <2>2 DEF TaskInv, Homed, At
    <2>4. state[t] = "RUNNING" /\ worker_context[t] = c BY <1>b, ZenonT(60), RunningTask
    <2>5. Home[t] = c BY <1>b, <1>2, <2>4 DEF TaskInv, Homed
    <2> QED BY <1>2, <2>2, <2>3, <2>4, <2>5, OneTaskPerWrapper
  <1> QED BY <1>1, <1>2, CtxFacts

(* A wrapper whose task is not READY has nothing to run. *)
LEMMA WrapperFree ==
  ASSUME WorkerInv, NEW c \in Ctx, c < 0, NEW t \in Tasks,
         worker_context[t] = c, Wraps(t) = {}
  PROVE  wraptask[c] = NULL
  <1>a. TypeOK BY InvFacts
  <1>b. \A u \in Tasks : TaskInv(u) BY InvFacts
  <1> SUFFICES ASSUME wraptask[c] # NULL PROVE FALSE OBVIOUS
  <1>1. PICK u \in Tasks : wraptask[c] = u BY <1>a DEF TypeOK, Slot
  <1>2. worker_context[u] = c /\ At(u, {}, {}, {c}, {}, {}) BY <1>b, <1>1, WrapTask
  <1>3. Home[u] = c /\ Home[t] = c BY <1>b, <1>2 DEF TaskInv, Homed
  <1>4. t = u BY <1>3, OneTaskPerWrapper
  <1> QED BY <1>2, <1>4 DEF At

(* LpelWorkerSelfTaskMigrate *)
LEMMA MigrateEffect ==
  ASSUME WorkerInv, NEW c \in Ctx, NEW t \in Tasks, NEW target \in Workers,
         Runs(c, t), park[t] = "running",
         LpelWorkerSelfTaskMigrate(c, t, target),
         state' = [state EXCEPT ![t] = "READY"],
         UNCHANGED <<mailbox, queue, num_tasks, terminate, marked_del, wraptask,
                     freed, mechanism, park, started, stopped>>
  PROVE  /\ TypeOK' /\ Moved(t) /\ TaskInv(t)' /\ ThreadStep(c)
         /\ At(t, {c}, {}, {}, {}, {}) /\ At(t, {}, {}, {}, {c}, {})'
         /\ Becomes(t, "READY", target) /\ pc'[c] = "back" /\ on'[c] = NULL
         /\ worker_context[t] = c /\ state[t] = "RUNNING"
         /\ \A d \in Ctx \ {c} : migrated'[d] = migrated[d]
  <1>a. TypeOK BY InvFacts
  <1>b. TaskInv(t) BY InvFacts
  <1>1. /\ worker_context' = [worker_context EXCEPT ![t] = target]
        /\ migrated' = [migrated EXCEPT ![c] = t]
        /\ on' = [on EXCEPT ![c] = NULL] /\ pc' = [pc EXCEPT ![c] = "back"]
    BY DEF LpelWorkerSelfTaskMigrate, SwitchToLoop
  <1>2. /\ state[t] = "RUNNING" /\ worker_context[t] = c /\ t \in started
        /\ At(t, {c}, {}, {}, {}, {})
    BY <1>b, RunningTask
  <1>3. /\ ThreadStep(c) /\ pc' \in [Ctx -> Pcs] /\ on' \in [Ctx -> Slot]
        /\ pc'[c] = "back" /\ on'[c] = NULL
    BY <1>a, <1>1 DEF TypeOK, ThreadStep, Pcs, Slot
  <1>4. /\ Runners(t)' = Runners(t) \ {c}
        /\ \A u \in Tasks \ {t} : Runners(u)' = Runners(u)
    BY <1>3, StopsRunning
  <1>5. /\ state'[t] = "READY" /\ state' \in [Tasks -> States]
        /\ worker_context'[t] = target /\ worker_context' \in [Tasks -> Ctx]
        /\ \A u \in Tasks \ {t} : /\ state'[u] = state[u]
                                  /\ worker_context'[u] = worker_context[u]
    BY <1>a, <1>1, CtxFacts DEF TypeOK, States
  <1>6. \A u : /\ Queues(u)' = Queues(u) /\ Wraps(u)' = Wraps(u)
               /\ Assigns(u)' = Assigns(u) /\ Wakes(u)' = Wakes(u)
    BY ZenonT(60), SameQueues, SameWraps, SameMail
  <1>7. migrated[c] = NULL BY NoneLeaving
  <1>8. IsFilled(migrated, migrated', c, t)
    <2>1. migrated \in [Ctx -> Slot] /\ migrated[c] \in {NULL, t}
      BY <1>a, <1>7 DEF TypeOK
    <2> QED BY ZenonT(60), <1>1, <2>1, FillSlot
  <1>9. TypeOK' BY <1>a, <1>3, <1>5, <1>8 DEF TypeOK, IsFilled
  <1>10. Moved(t)
    BY ZenonT(60), <1>4, <1>5, <1>6, <1>8 DEF Moved, Same, IsFilled, Leaves
  <1>11. At(t, {}, {}, {}, {c}, {})'
    <2>1. Runners(t)' = {} BY <1>2, <1>4 DEF At
    <2>2. Leaves(t)' = {c} BY <1>2, <1>8 DEF At, IsFilled, Leaves
    <2> QED BY ZenonT(60), <1>2, <1>6, <2>1, <2>2 DEF At
  <1>12. TaskInv(t)'
    <2>1. Located(t)' BY ZenonT(60), <1>2, <1>5, <1>11 DEF Located
    <2>2. Parked(t)' BY <1>b, <1>2, <1>5, <1>6 DEF TaskInv, Parked
    <2>3. Homed(t)'
      <3>1. ~(worker_context'[t] < 0) BY <1>5, CtxFacts
      <3>2. c < 0 => Home[t] = c BY <1>b, ZenonT(60), <1>2 DEF TaskInv, Homed
      <3>3. Leaves(t)' = {c} BY <1>11 DEF At
      <3> QED BY ZenonT(60), <3>1, <3>2, <3>3 DEF Homed
    <2> QED BY <2>1, <2>2, <2>3 DEF TaskInv
  <1>13. \A d \in Ctx \ {c} : migrated'[d] = migrated[d] BY <1>a, <1>1 DEF TypeOK
  <1>14. Becomes(t, "READY", target) BY <1>2, <1>5 DEF Becomes
  <1> QED BY ZenonT(60), <1>2, <1>3, <1>9, <1>10, <1>11, <1>12, <1>13, <1>14

(* LpelWorkerSelfTaskYield and the switch to the dispatcher *)
LEMMA YieldEffect ==
  ASSUME WorkerInv, NEW c \in Ctx, NEW t \in Tasks,
         Runs(c, t), park[t] = "running", LpelWorkerSelfTaskYield(c, t),
         pc' = [pc EXCEPT ![c] = "disp"], state' = [state EXCEPT ![t] = "READY"],
         UNCHANGED <<mailbox, num_tasks, terminate, marked_del, migrated, on,
                     worker_context, freed, mechanism, park, started, stopped>>
  PROVE  /\ TypeOK' /\ Moved(t) /\ TaskInv(t)' /\ ThreadStep(c)
         /\ At(t, {c}, {}, {}, {}, {}) /\ Becomes(t, "READY", c)
         /\ Leaves(t)' = {} /\ Assigns(t)' = {}
         /\ worker_context[t] = c /\ state[t] = "RUNNING"
  <1>a. TypeOK BY InvFacts
  <1>b. TaskInv(t) BY InvFacts
  <1>2. /\ state[t] = "RUNNING" /\ worker_context[t] = c /\ t \in started
        /\ At(t, {c}, {}, {}, {}, {})
    BY <1>b, RunningTask
  <1>3. ThreadStep(c) /\ pc' \in [Ctx -> Pcs] /\ pc'[c] = "disp"
    BY ZenonT(60), <1>a, StopThread DEF Pcs
  <1>4. /\ Runners(t)' = Runners(t) \ {c}
        /\ \A u \in Tasks \ {t} : Runners(u)' = Runners(u)
    BY <1>3, StopsRunning
  <1>5. /\ state'[t] = "READY" /\ state' \in [Tasks -> States]
        /\ \A u \in Tasks \ {t} : state'[u] = state[u]
    BY <1>a DEF TypeOK, States
  <1>6. \A u : /\ Leaves(u)' = Leaves(u) /\ Assigns(u)' = Assigns(u)
               /\ Wakes(u)' = Wakes(u)
    BY ZenonT(60), SameLeaves, SameMail
  <1>7. /\ TypeOK' /\ \A u \in Tasks \ {t} : /\ Queues(u)' = Queues(u)
                                             /\ Wraps(u)' = Wraps(u)
        /\ \/ c < 0 /\ Wraps(t)' = {c} /\ Queues(t)' = {}
           \/ c >= 0 /\ Wraps(t)' = {} /\ Queues(t)' = {c}
    <2>1. CASE c < 0
      <3>1. wraptask' = [wraptask EXCEPT ![c] = t] /\ queue' = queue
        BY <2>1 DEF LpelWorkerSelfTaskYield
      <3>2. wraptask \in [Ctx -> Slot] /\ wraptask[c] \in {NULL, t}
        BY <1>a, <1>2, <2>1, WrapperFree DEF TypeOK, At
      <3>3. IsFilled(wraptask, wraptask', c, t)
        BY ZenonT(60), <3>1, <3>2, FillSlot
      <3>4. TypeOK' BY <1>a, <1>3, <1>5, <3>1, <3>3 DEF TypeOK, IsFilled
      <3>5. Wraps(t)' = {c} BY <1>2, <3>3 DEF At, IsFilled, Wraps
      <3> QED BY ZenonT(60), <1>2, <2>1, <3>1, <3>3, <3>4, <3>5, SameQueues
              DEF At, IsFilled, Wraps
    <2>2. CASE c >= 0
      <3>0. ~(c < 0) BY <2>2, CtxFacts
      <3>1. LpelSchedMakeReady(c, t) /\ wraptask' = wraptask
        BY <3>0 DEF LpelWorkerSelfTaskYield
      <3>2. QueueOK(queue) /\ c \notin Queues(t) BY <1>a, <1>2 DEF TypeOK, At
      <3>3. IsQueued(c, t) BY ZenonT(60), <3>1, <3>2, MakeReady
      <3>4. TypeOK' BY <1>a, <1>3, <1>5, <3>1, <3>3 DEF TypeOK, IsQueued
      <3>5. Queues(t)' = {c} BY <1>2, <3>3 DEF At, IsQueued
      <3> QED BY ZenonT(60), <1>2, <2>2, <3>1, <3>3, <3>4, <3>5, SameWraps
              DEF At, IsQueued
    <2> QED BY <2>1, <2>2, CtxFacts
  <1>8. Moved(t) BY ZenonT(60), <1>4, <1>5, <1>6, <1>7 DEF Moved, Same
  <1>9. Runners(t)' = {} /\ Leaves(t)' = {} /\ Assigns(t)' = {}
    BY <1>2, <1>4, <1>6 DEF At
  <1>10. TaskInv(t)'
    <2>1. Located(t)'
      <3>1. \/ c < 0 /\ At(t, {}, {}, {c}, {}, {})'
            \/ c >= 0 /\ At(t, {}, {c}, {}, {}, {})'
        BY ZenonT(60), <1>7, <1>9 DEF At
      <3> QED BY ZenonT(60), <1>2, <1>5, <3>1 DEF Located
    <2>2. Parked(t)' BY <1>b, <1>2, <1>5, <1>6 DEF TaskInv, Parked
    <2>3. Homed(t)' BY ZenonT(60), <1>b, <1>6 DEF TaskInv, Homed
    <2> QED BY <2>1, <2>2, <2>3 DEF TaskInv
  <1> QED BY ZenonT(60), <1>2, <1>3, <1>5, <1>7, <1>8, <1>9, <1>10 DEF Becomes

(* Decide: only the streams know. *)
LEMMA DecideEffect ==
  ASSUME WorkerInv, NEW c \in Ctx, NEW t \in Tasks, Decide(c, t)
  PROVE  /\ TypeOK' /\ Moved(t) /\ TaskInv(t)'
         /\ At(t, {c}, {}, {}, {}, {}) /\ At(t, {c}, {}, {}, {}, {})'
         /\ Becomes(t, "RUNNING", c)
         /\ worker_context[t] = c /\ state[t] = "RUNNING"
  <1>a. TypeOK BY InvFacts
  <1>b. TaskInv(t) BY InvFacts
  <1>1. /\ Runs(c, t) /\ park[t] = "running"
        /\ park' = [park EXCEPT ![t] = "parking"]
        /\ UNCHANGED <<mailbox, queue, workervars, pc, on, taskvars, mechanism,
                       started, stopped>>
    BY DEF Decide
  <1>2. /\ state[t] = "RUNNING" /\ worker_context[t] = c /\ t \in started
        /\ At(t, {c}, {}, {}, {}, {})
    BY <1>b, <1>1, RunningTask
  <1>3. /\ park'[t] = "parking" /\ \A u \in Tasks \ {t} : park'[u] = park[u]
        /\ UNCHANGED <<mailbox, queue, wraptask, migrated, pc, on, state,
                       worker_context, started>>
    BY <1>a, <1>1 DEF TypeOK, workervars, taskvars
  <1>4. \A u : /\ Runners(u)' = Runners(u) /\ Queues(u)' = Queues(u)
               /\ Wraps(u)' = Wraps(u) /\ Leaves(u)' = Leaves(u)
               /\ Assigns(u)' = Assigns(u) /\ Wakes(u)' = Wakes(u)
    BY ZenonT(60), <1>3, SameRunners, SameQueues, SameWraps, SameLeaves, SameMail
  <1>5. TypeOK' BY <1>a, <1>1 DEF TypeOK, workervars, taskvars
  <1>6. Moved(t) BY ZenonT(60), <1>3, <1>4 DEF Moved, Same
  <1>7. At(t, {c}, {}, {}, {}, {})' BY ZenonT(60), <1>2, <1>4 DEF At
  <1>8. TaskInv(t)'
    <2>1. Located(t)' BY ZenonT(60), <1>2, <1>3, <1>7 DEF Located
    <2>2. Parked(t)' BY <1>b, <1>1, <1>2, <1>3, <1>4 DEF TaskInv, Parked
    <2>3. Homed(t)' BY ZenonT(60), <1>b, <1>3, <1>4 DEF TaskInv, Homed
    <2> QED BY <2>1, <2>2, <2>3 DEF TaskInv
  <1> QED BY ZenonT(60), <1>2, <1>3, <1>5, <1>6, <1>7, <1>8 DEF Becomes

(* LpelWorkerMakeTaskReady, with the mailboxes as they are when it is      *)
(* called: the task goes to the queue of its worker or, as a message, to   *)
(* another worker.                                                         *)
MadeReady(t, mb) ==
  /\ MailOK(mailbox') /\ QueueOK(queue') /\ num_tasks' \in [Ctx -> Int]
  /\ worker_context' \in [Tasks -> Ctx] /\ worker_context'[t] >= 0
  /\ \A u \in Tasks \ {t} : /\ Queues(u)' = Queues(u)
                            /\ Assigns(u)' = Holders(mb, Msg("ASSIGN", u))
                            /\ worker_context'[u] = worker_context[u]
  /\ \A u : Wakes(u)' = Holders(mb, Msg("WAKEUP", u))
  /\ Terminates' = Holders(mb, Msg("TERMINATE", NULL))

(* The two ways. *)
StaysReady(t) ==
  /\ Queues(t)' = {worker_context[t]} /\ Assigns(t)' = {}
  /\ UNCHANGED <<worker_context, num_tasks>>

SentReady(t) ==
  /\ Queues(t)' = {} /\ Assigns(t)' = {worker_context'[t]}
  /\ mechanism = "wait_prop" /\ worker_context'[t] # worker_context[t]
  /\ worker_context'[t] >= 0
  /\ num_tasks' = [num_tasks EXCEPT ![worker_context[t]] = @ - 1]

(* LpelWorkerMakeTaskReady queues the task here, or sends it to another    *)
(* worker.                                                                 *)
LEMMA ReadyEffect ==
  ASSUME TypeOK, NEW t \in Tasks, NEW mb, MailOK(mb), worker_context[t] >= 0,
         Queues(t) = {}, Holders(mb, Msg("ASSIGN", t)) = {},
         LpelWorkerMakeTaskReady(t, mb)
  PROVE  MadeReady(t, mb) /\ (StaysReady(t) \/ SentReady(t))
  <1> DEFINE wc == worker_context[t]
  <1>0. wc \in Ctx BY DEF TypeOK
  <1>1. CASE /\ LpelSchedMakeReady(wc, t) /\ mailbox' = mb
             /\ UNCHANGED <<worker_context, num_tasks>>
    <2>1. IsQueued(wc, t)
      <3>1. QueueOK(queue) /\ wc \notin Queues(t) BY DEF TypeOK
      <3> QED BY ZenonT(60), <1>0, <1>1, <3>1, MakeReady
    <2>2. Queues(t)' = {wc} BY <2>1 DEF IsQueued
    <2>3. /\ \A u : Assigns(u)' = Holders(mb, Msg("ASSIGN", u))
          /\ \A u : Wakes(u)' = Holders(mb, Msg("WAKEUP", u))
          /\ Terminates' = Holders(mb, Msg("TERMINATE", NULL))
      BY ZenonT(60), <1>1 DEF Assigns, Wakes, Terminates
    <2>4. num_tasks' \in [Ctx -> Int] /\ worker_context' \in [Tasks -> Ctx]
      BY <1>1 DEF TypeOK
    <2>5. MadeReady(t, mb)
      BY ZenonT(60), <1>1, <2>1, <2>3, <2>4 DEF MadeReady, IsQueued
    <2>6. StaysReady(t) BY ZenonT(60), <1>1, <2>2, <2>3 DEF StaysReady
    <2> QED BY <2>5, <2>6
  <1>2. CASE \E target \in WaitPropTargets \ {wc} :
               /\ worker_context' = [worker_context EXCEPT ![t] = target]
               /\ num_tasks' = [num_tasks EXCEPT ![wc] = @ - 1]
               /\ mailbox' = [mb EXCEPT ![target] = Append(@, Msg("ASSIGN", t))]
               /\ UNCHANGED queue
    <2>1. PICK target \in WaitPropTargets \ {wc} :
               /\ worker_context' = [worker_context EXCEPT ![t] = target]
               /\ num_tasks' = [num_tasks EXCEPT ![wc] = @ - 1]
               /\ mailbox' = [mb EXCEPT ![target] = Append(@, Msg("ASSIGN", t))]
               /\ UNCHANGED queue
      BY ZenonT(60), <1>2
    <2>2. target \in Ctx /\ target >= 0 /\ target # wc /\ mechanism = "wait_prop"
      BY CtxFacts DEF WaitPropTargets
    <2>3. /\ worker_context' \in [Tasks -> Ctx] /\ worker_context'[t] = target
          /\ num_tasks' \in [Ctx -> Int]
          /\ \A u \in Tasks \ {t} : worker_context'[u] = worker_context[u]
      BY <1>0, <2>1, <2>2 DEF TypeOK
    <2>4. target \notin Holders(mb, Msg("ASSIGN", t)) OBVIOUS
    <2>5. /\ MailOK(mailbox')
          /\ Assigns(t)' = Holders(mb, Msg("ASSIGN", t)) \cup {target}
          /\ \A u \in Tasks \ {t} : Assigns(u)' = Holders(mb, Msg("ASSIGN", u))
          /\ \A u : Wakes(u)' = Holders(mb, Msg("WAKEUP", u))
          /\ Terminates' = Holders(mb, Msg("TERMINATE", NULL))
      BY ZenonT(60), <2>1, <2>2, <2>4, SendAssign
    <2>6. Assigns(t)' = {target} BY <2>5
    <2>7. QueueOK(queue') /\ \A u : Queues(u)' = Queues(u)
      BY ZenonT(60), <2>1, SameQueues DEF TypeOK
    <2>8. MadeReady(t, mb) BY ZenonT(60), <2>2, <2>3, <2>5, <2>7 DEF MadeReady
    <2>9. SentReady(t)
      BY ZenonT(60), <2>1, <2>2, <2>3, <2>6, <2>7 DEF SentReady
    <2> QED BY <2>8, <2>9
  <1> QED BY <1>1, <1>2 DEF LpelWorkerMakeTaskReady

(* LpelTaskUnblock of a task at another worker: the message is sent. *)
LEMMA UnblockFar ==
  ASSUME WorkerInv, NEW c \in Ctx, NEW t \in Tasks, NEW whom \in Tasks,
         LpelTaskUnblock(c, t, whom),
         worker_context[whom] < 0 \/ worker_context[t] # worker_context[whom]
  PROVE  /\ TypeOK' /\ Moved(whom) /\ TaskInv(whom)' /\ Terminates' = Terminates
         /\ Runners(whom)' = Runners(whom) /\ Queues(whom)' = Queues(whom)
         /\ Wraps(whom)' = Wraps(whom) /\ Leaves(whom)' = Leaves(whom)
         /\ Assigns(whom)' = Assigns(whom)
         /\ UNCHANGED <<state, worker_context, num_tasks, started>>
  <1>a. TypeOK BY InvFacts
  <1>b. TaskInv(whom) BY InvFacts
  <1> DEFINE wc == worker_context[whom]
  <1>0. wc \in Ctx BY <1>a DEF TypeOK
  <1>1. /\ park[whom] = "parking" /\ park' = [park EXCEPT ![whom] = "granted"]
        /\ mailbox' = [mailbox EXCEPT ![wc] = Append(@, Msg("WAKEUP", whom))]
        /\ UNCHANGED <<queue, num_tasks, state, worker_context, terminate,
                       marked_del, wraptask, migrated, pc, on, freed, mechanism,
                       started, stopped>>
    BY DEF LpelTaskUnblock
  <1>2. Wakes(whom) = {} /\ state[whom] \in {"RUNNING", "BLOCKED"}
    <2>1. Wakes(whom) = {} BY <1>b, <1>1 DEF TaskInv, Parked
    <2>2. state[whom] \in States BY <1>a DEF TypeOK
    <2> QED BY <1>b, <1>1, <2>1, <2>2 DEF TaskInv, Parked, States
  <1>3. MailOK(mailbox) /\ wc \notin Wakes(whom) BY <1>a, <1>2 DEF TypeOK
  <1>4. /\ MailOK(mailbox') /\ Wakes(whom)' = Wakes(whom) \cup {wc}
        /\ \A u \in Tasks \ {whom} : Wakes(u)' = Wakes(u)
        /\ \A u : Assigns(u)' = Assigns(u)
        /\ Terminates' = Terminates
    BY ZenonT(60), <1>0, <1>1, <1>3, SendWakeup
  <1>5. /\ park' \in [Tasks -> {"running", "parking", "granted"}]
        /\ park'[whom] = "granted"
        /\ \A u \in Tasks \ {whom} : park'[u] = park[u]
    BY <1>a, <1>1 DEF TypeOK
  <1>6. \A u : /\ Runners(u)' = Runners(u) /\ Queues(u)' = Queues(u)
               /\ Wraps(u)' = Wraps(u) /\ Leaves(u)' = Leaves(u)
    BY ZenonT(60), <1>1, SameRunners, SameQueues, SameWraps, SameLeaves
  <1>7. TypeOK' BY <1>a, <1>1, <1>4, <1>5 DEF TypeOK
  <1>8. Moved(whom) BY ZenonT(60), <1>1, <1>4, <1>5, <1>6 DEF Moved, Same
  <1>9. TaskInv(whom)'
    <2>1. Located(whom)'
      BY ZenonT(60), <1>b, <1>1, <1>4, <1>6 DEF TaskInv, Located, Nowhere, At
    <2>2. Wakes(whom)' = {wc} BY <1>2, <1>4
    <2>3. Parked(whom)' BY <1>1, <1>2, <1>5, <2>2 DEF Parked
    <2>4. Homed(whom)' BY ZenonT(60), <1>b, <1>1, <1>6 DEF TaskInv, Homed
    <2> QED BY <2>1, <2>3, <2>4 DEF TaskInv
  <1> QED BY ZenonT(60), <1>1, <1>4, <1>6, <1>7, <1>8, <1>9

(* A task that waits at the worker of a running task is blocked. *)
LEMMA WaitsBlocked ==
  ASSUME WorkerInv, NEW c \in Ctx, NEW t \in Tasks, NEW whom \in Tasks,
         Runs(c, t), park[t] = "running", park[whom] = "parking",
         worker_context[t] = worker_context[whom]
  PROVE  state[whom] = "BLOCKED" /\ worker_context[whom] = c
  <1>a. TypeOK BY InvFacts
  <1>b. TaskInv(whom) /\ TaskInv(t) BY InvFacts
  <1>1. worker_context[whom] = c BY ZenonT(60), <1>b, RunningTask
  <1>2. ~Runs(c, whom) BY DEF Runs
  <1>3. state[whom] # "RUNNING" BY <1>b, <1>1, <1>2, NotRunningTask
  <1>4. state[whom] \in States BY <1>a DEF TypeOK
  <1> QED BY <1>b, <1>1, <1>3, <1>4 DEF TaskInv, Parked, States

(* LpelTaskUnblock of a task at the same worker. *)
LEMMA UnblockNear ==
  ASSUME WorkerInv, NEW c \in Ctx, NEW t \in Tasks, NEW whom \in Tasks,
         LpelTaskUnblock(c, t, whom),
         ~(worker_context[whom] < 0 \/ worker_context[t] # worker_context[whom])
  PROVE  /\ TypeOK' /\ Moved(whom) /\ TaskInv(whom)' /\ Terminates' = Terminates
         /\ state[whom] = "BLOCKED" /\ Nowhere(whom) /\ worker_context[whom] = c
         /\ Becomes(whom, "READY", worker_context'[whom])
         /\ Leaves(whom)' = {} /\ (StaysReady(whom) \/ SentReady(whom))
  <1>a. TypeOK BY InvFacts
  <1>b. TaskInv(whom) BY InvFacts
  <1>1. /\ Runs(c, t) /\ park[t] = "running" /\ park[whom] = "parking"
        /\ park' = [park EXCEPT ![whom] = "granted"]
        /\ state' = [state EXCEPT ![whom] = "READY"]
        /\ LpelWorkerMakeTaskReady(whom, mailbox)
        /\ UNCHANGED <<terminate, marked_del, wraptask, migrated, pc, on, freed,
                       mechanism, started, stopped>>
    BY DEF LpelTaskUnblock
  <1>2. state[whom] = "BLOCKED" /\ worker_context[whom] = c
    BY <1>1, WaitsBlocked
  <1>3. Nowhere(whom) /\ whom \in started BY <1>b, <1>2, BlockedTask
  <1>4. MadeReady(whom, mailbox) /\ (StaysReady(whom) \/ SentReady(whom))
    <2>1. worker_context[whom] >= 0 BY <1>2, CtxFacts
    <2>2. MailOK(mailbox) BY <1>a DEF TypeOK
    <2>3. Queues(whom) = {} /\ Holders(mailbox, Msg("ASSIGN", whom)) = {}
      BY <1>3 DEF Nowhere, At, Assigns
    <2> QED BY ZenonT(60), <1>a, <1>1, <2>1, <2>2, <2>3, ReadyEffect
  <1>5. /\ park' \in [Tasks -> {"running", "parking", "granted"}]
        /\ park'[whom] = "granted"
        /\ \A u \in Tasks \ {whom} : park'[u] = park[u]
        /\ state' \in [Tasks -> States] /\ state'[whom] = "READY"
        /\ \A u \in Tasks \ {whom} : state'[u] = state[u]
    BY <1>a, <1>1 DEF TypeOK, States
  <1>6. \A u : /\ Runners(u)' = Runners(u) /\ Wraps(u)' = Wraps(u)
               /\ Leaves(u)' = Leaves(u)
    BY ZenonT(60), <1>1, SameRunners, SameWraps, SameLeaves
  <1>7. /\ \A u \in Tasks \ {whom} : Assigns(u)' = Assigns(u)
        /\ \A u : Wakes(u)' = Wakes(u)
        /\ Terminates' = Terminates
    BY ZenonT(60), <1>4 DEF MadeReady, Assigns, Wakes, Terminates
  <1>8. TypeOK' BY ZenonT(60), <1>a, <1>1, <1>4, <1>5 DEF TypeOK, MadeReady
  <1>9. Moved(whom)
    BY ZenonT(60), <1>1, <1>4, <1>5, <1>6, <1>7 DEF Moved, Same, MadeReady
  <1>10. /\ Runners(whom)' = {} /\ Wraps(whom)' = {} /\ Leaves(whom)' = {}
         /\ worker_context'[whom] >= 0
    BY ZenonT(60), <1>3, <1>4, <1>6 DEF Nowhere, At, MadeReady
  <1>11. TaskInv(whom)'
    <2>1. \/ At(whom, {}, {worker_context[whom]}, {}, {}, {})'
          \/ At(whom, {}, {}, {}, {}, {worker_context[whom]})'
      BY ZenonT(60), <1>4, <1>10 DEF At, StaysReady, SentReady
    <2>2. Located(whom)'
      BY ZenonT(60), <1>1, <1>3, <1>5, <1>10, <2>1 DEF Located
    <2>3. Wakes(whom)' = {} BY <1>b, <1>1, <1>7 DEF TaskInv, Parked
    <2>4. Parked(whom)' BY <1>5, <2>3 DEF Parked
    <2>5. Homed(whom)'
      <3>1. worker_context'[whom] \in Ctx BY <1>8 DEF TypeOK
      <3>2. ~(worker_context'[whom] < 0) BY ZenonT(60), <1>10, <3>1, CtxFacts
      <3> QED BY ZenonT(60), <1>10, <3>2 DEF Homed
    <2> QED BY <2>2, <2>4, <2>5 DEF TaskInv
  <1> QED BY ZenonT(60), <1>1, <1>2, <1>3, <1>4, <1>5, <1>7, <1>8, <1>9, <1>10,
             <1>11 DEF Becomes

----------------------------------------------------------------------------
(* What the steps of a thread do *)

(* FetchAllMessages or WaitForNewMessage, apart from the message. *)
Handles(c) ==
  /\ mailbox[c] # <<>> /\ pc[c] \in {"fetch", "wait", "disp"}
  /\ pc'[c] = (IF pc[c] = "wait" THEN "fetch" ELSE pc[c]) /\ ThreadStep(c)
  /\ pc' \in [Ctx -> Pcs]
  /\ UNCHANGED <<marked_del, migrated, on, freed, envvars>>

(* A message is one of the three that ProcessMessage tells apart. *)
LEMMA HandlesMessage ==
  ASSUME TypeOK, NEW c \in Ctx, FetchMessage(c) \/ WaitForNewMessage(c)
  PROVE  /\ Handles(c)
         /\ ProcessWakeup(c) \/ ProcessAssign(c) \/ ProcessTerminate(c)
  <1>1. CASE FetchMessage(c)
    BY ZenonT(60), <1>1 DEF FetchMessage, ProcessMessage, Handles, ThreadStep, TypeOK
  <1>2. CASE WaitForNewMessage(c)
    <2>1. /\ pc[c] = "wait" /\ pc' = [pc EXCEPT ![c] = "fetch"]
          /\ ProcessMessage(c) /\ UNCHANGED <<marked_del, migrated, on, freed, envvars>>
      BY <1>2 DEF WaitForNewMessage
    <2>2. ThreadStep(c) /\ pc' \in [Ctx -> Pcs] /\ pc'[c] = "fetch"
      BY ZenonT(60), <2>1, StopThread DEF Pcs
    <2> QED BY ZenonT(60), <2>1, <2>2 DEF ProcessMessage, Handles
  <1> QED BY <1>1, <1>2

(* Handling a message runs no task. *)
LEMMA HandlesSame ==
  ASSUME NEW c \in Ctx, Handles(c)
  PROVE  /\ \A u : Runners(u)' = Runners(u) /\ Leaves(u)' = Leaves(u)
         /\ UNCHANGED <<mechanism, park, started, stopped>>
         /\ pc[c] # "run" /\ pc'[c] # "run"
  <1>1. pc[c] # "run" /\ pc'[c] # "run" BY DEF Handles
  <1>2. UNCHANGED <<mechanism, park, started, stopped, migrated>>
    BY DEF Handles, envvars
  <1>3. \A u : Runners(u)' = Runners(u)
    BY ZenonT(60), <1>1, KeepsNotRunning DEF Handles
  <1> QED BY ZenonT(60), <1>1, <1>2, <1>3, SameLeaves

(* What TakeMessage says of the messages about tasks. *)
WakeupTaken(mb, c, t) ==
  /\ MailOK(mb) /\ t \in Tasks /\ c \in Wakes(t)
  /\ Holders(mb, Msg("WAKEUP", t)) = Wakes(t) \ {c}
  /\ \A u \in Tasks \ {t} : Holders(mb, Msg("WAKEUP", u)) = Wakes(u)
  /\ \A u : Holders(mb, Msg("ASSIGN", u)) = Assigns(u)
  /\ Holders(mb, Msg("TERMINATE", NULL)) = Terminates

(* WAKEUP is taken. *)
LEMMA TakeWakeup ==
  ASSUME TypeOK, NEW c \in Ctx, mailbox[c] # <<>>,
         Head(mailbox[c]).type = "WAKEUP"
  PROVE  WakeupTaken([mailbox EXCEPT ![c] = Tail(@)], c, Head(mailbox[c]).task)
  <1> DEFINE m == Head(mailbox[c])
             mb == [mailbox EXCEPT ![c] = Tail(@)]
  <1>1. Takes(mailbox, mb, c) BY ZenonT(60) DEF Takes, TypeOK
  <1>2. IsTaken(mailbox, mb, c, m) BY ZenonT(60), <1>1, TakeMessage
  <1>3. m \in Messages /\ m.type = "WAKEUP" BY <1>2 DEF IsTaken
  <1> HIDE DEF m, mb
  <1>5. m.task \in Tasks /\ m = Msg("WAKEUP", m.task) BY <1>3, MsgFacts
  <1>6. /\ \A u \in Tasks \ {m.task} : Msg("WAKEUP", u) # m
        /\ \A u : Msg("ASSIGN", u) # m
        /\ Msg("TERMINATE", NULL) # m
    <2>1. PICK t : m = Msg("WAKEUP", t) /\ t = m.task BY <1>5
    <2> QED BY ZenonT(60), <2>1, MsgFacts
  <1>7. WakeupTaken(mb, c, m.task)
    <2>1. /\ \A u \in Tasks \ {m.task} : Holders(mb, Msg("WAKEUP", u)) = Wakes(u)
          /\ \A u : Holders(mb, Msg("ASSIGN", u)) = Assigns(u)
          /\ Holders(mb, Msg("TERMINATE", NULL)) = Terminates
      BY ZenonT(60), <1>2, <1>6 DEF IsTaken, Assigns, Wakes, Terminates
    <2>2. c \in Wakes(m.task) /\ Holders(mb, Msg("WAKEUP", m.task)) = Wakes(m.task) \ {c}
      BY ZenonT(60), <1>2, <1>5 DEF IsTaken, Wakes
    <2> QED BY ZenonT(60), <1>2, <1>5, <2>1, <2>2 DEF IsTaken, WakeupTaken
  <1> QED BY <1>7 DEF m, mb

(* ASSIGN is taken. *)
LEMMA TakeAssign ==
  ASSUME TypeOK, NEW c \in Ctx, mailbox[c] # <<>>,
         mailbox' = [mailbox EXCEPT ![c] = Tail(@)],
         Head(mailbox[c]).type = "ASSIGN", NEW t, t = Head(mailbox[c]).task
  PROVE  /\ MailOK(mailbox') /\ t \in Tasks /\ c \in Assigns(t)
         /\ Assigns(t)' = Assigns(t) \ {c}
         /\ \A u \in Tasks \ {t} : Assigns(u)' = Assigns(u)
         /\ \A u : Wakes(u)' = Wakes(u)
         /\ Terminates' = Terminates
  <1> DEFINE m == Head(mailbox[c])
  <1>1. Takes(mailbox, mailbox', c) BY ZenonT(60) DEF Takes, TypeOK
  <1>2. IsTaken(mailbox, mailbox', c, m) BY ZenonT(60), <1>1, TakeMessage
  <1>3. m \in Messages /\ m.type = "ASSIGN" BY <1>2 DEF IsTaken
  <1> HIDE DEF m
  <1>4. t = m.task BY DEF m
  <1>5. t \in Tasks /\ m = Msg("ASSIGN", t) BY <1>3, <1>4, MsgFacts
  <1>6. /\ \A u \in Tasks \ {t} : Msg("ASSIGN", u) # m
        /\ \A u : Msg("WAKEUP", u) # m
        /\ Msg("TERMINATE", NULL) # m
    BY ZenonT(60), <1>5, MsgFacts
  <1> QED BY ZenonT(60), <1>2, <1>5, <1>6 DEF IsTaken, Assigns, Wakes, Terminates

(* TERMINATE is taken. *)
LEMMA TakeTerminate ==
  ASSUME TypeOK, NEW c \in Ctx, mailbox[c] # <<>>,
         mailbox' = [mailbox EXCEPT ![c] = Tail(@)],
         Head(mailbox[c]).type = "TERMINATE"
  PROVE  /\ MailOK(mailbox') /\ c \in Terminates
         /\ \A u : Assigns(u)' = Assigns(u) /\ Wakes(u)' = Wakes(u)
         /\ Terminates' = Terminates \ {c}
  <1> DEFINE m == Head(mailbox[c])
  <1>1. Takes(mailbox, mailbox', c) BY ZenonT(60) DEF Takes, TypeOK
  <1>2. IsTaken(mailbox, mailbox', c, m) BY ZenonT(60), <1>1, TakeMessage
  <1>3. m \in Messages /\ m.type = "TERMINATE" BY <1>2 DEF IsTaken
  <1> HIDE DEF m
  <1>5. m = Msg("TERMINATE", NULL) BY <1>3, MsgFacts
  <1>6. \A u : Msg("ASSIGN", u) # m /\ Msg("WAKEUP", u) # m
    BY ZenonT(60), <1>5, MsgFacts
  <1> QED BY ZenonT(60), <1>2, <1>5, <1>6 DEF IsTaken, Assigns, Wakes, Terminates

(* A wakeup. *)
WrapsReady(c, t) ==
  /\ c < 0 /\ Wraps(t)' = {c} /\ Queues(t)' = {} /\ Assigns(t)' = {}
  /\ UNCHANGED <<worker_context, num_tasks>>

(* Handling WAKEUP makes the blocked task ready. *)
LEMMA WakeupEffect ==
  ASSUME WorkerInv, NEW c \in Ctx, Handles(c), ProcessWakeup(c),
         NEW t, t = Head(mailbox[c]).task
  PROVE  /\ TypeOK' /\ t \in Tasks /\ Moved(t) /\ TaskInv(t)'
         /\ state[t] = "BLOCKED" /\ Nowhere(t) /\ worker_context[t] = c
         /\ Becomes(t, "READY", worker_context'[t]) /\ Leaves(t)' = {}
         /\ WrapsReady(c, t) \/ StaysReady(t) \/ SentReady(t)
         /\ Terminates' = Terminates
  <1>a. TypeOK BY InvFacts
  <1> DEFINE mb == [mailbox EXCEPT ![c] = Tail(@)]
  <1>1. /\ state' = [state EXCEPT ![t] = "READY"] /\ terminate' = terminate
        /\ \/ /\ c < 0 /\ wraptask' = [wraptask EXCEPT ![c] = t] /\ mailbox' = mb
              /\ UNCHANGED <<queue, num_tasks, worker_context>>
           \/ ~(c < 0) /\ LpelWorkerMakeTaskReady(t, mb) /\ wraptask' = wraptask
    BY DEF ProcessWakeup
  <1>2. Head(mailbox[c]).type = "WAKEUP" /\ mailbox[c] # <<>>
    BY DEF ProcessWakeup, Handles
  <1>3. /\ MailOK(mb) /\ t \in Tasks /\ c \in Wakes(t)
        /\ Holders(mb, Msg("WAKEUP", t)) = Wakes(t) \ {c}
        /\ \A u \in Tasks \ {t} : Holders(mb, Msg("WAKEUP", u)) = Wakes(u)
        /\ \A u : Holders(mb, Msg("ASSIGN", u)) = Assigns(u)
        /\ Holders(mb, Msg("TERMINATE", NULL)) = Terminates
    <2>1. WakeupTaken(mb, c, t) BY ZenonT(60), <1>a, <1>2, TakeWakeup
    <2> QED BY ZenonT(60), <2>1 DEF WakeupTaken
  <1> HIDE DEF mb
  <1>b. TaskInv(t) BY <1>3, InvFacts
  <1>4. /\ \A u : Runners(u)' = Runners(u) /\ Leaves(u)' = Leaves(u)
        /\ UNCHANGED <<mechanism, park, started, stopped>> /\ pc[c] # "run"
    BY ZenonT(60), HandlesSame
  <1>5. /\ state[t] = "BLOCKED" /\ worker_context[t] = c /\ t \in started
        /\ park[t] = "granted" /\ Wakes(t) = {c} /\ Nowhere(t)
    <2>1. t \in Tasks /\ c \in Wakes(t) /\ pc[c] # "run"
      BY ZenonT(60), <1>3, <1>4
    <2> QED BY <2>1, <1>b, WokenTask
  <1>6. /\ state' \in [Tasks -> States] /\ state'[t] = "READY"
        /\ \A u \in Tasks \ {t} : state'[u] = state[u]
    BY <1>a, <1>1, <1>3 DEF TypeOK, States
  <1>7. /\ wraptask' \in [Ctx -> Slot] /\ MailOK(mailbox') /\ QueueOK(queue')
        /\ worker_context' \in [Tasks -> Ctx] /\ num_tasks' \in [Ctx -> Int]
        /\ \A u \in Tasks \ {t} : /\ Queues(u)' = Queues(u) /\ Wraps(u)' = Wraps(u)
                                  /\ Assigns(u)' = Assigns(u)
                                  /\ Wakes(u)' = Wakes(u)
                                  /\ worker_context'[u] = worker_context[u]
        /\ Wakes(t)' = {} /\ Terminates' = Terminates
        /\ \/ WrapsReady(c, t)
           \/ /\ StaysReady(t) \/ SentReady(t)
              /\ Wraps(t)' = {} /\ worker_context'[t] >= 0
    <2>1. CASE c < 0
      <3>1. /\ wraptask' = [wraptask EXCEPT ![c] = t] /\ mailbox' = mb
            /\ UNCHANGED <<queue, num_tasks, worker_context>>
        BY <1>1, <2>1
      <3>2. wraptask \in [Ctx -> Slot] /\ wraptask[c] \in {NULL, t}
        BY <1>a, <1>3, <1>5, <2>1, WrapperFree DEF TypeOK, Nowhere, At
      <3>3. IsFilled(wraptask, wraptask', c, t)
        BY ZenonT(60), <1>3, <3>1, <3>2, FillSlot
      <3>4. /\ \A u \in Tasks \ {t} : Wakes(u)' = Wakes(u)
            /\ \A u : Assigns(u)' = Assigns(u)
            /\ Wakes(t)' = Wakes(t) \ {c} /\ Terminates' = Terminates
        BY ZenonT(60), <1>3, <3>1 DEF Assigns, Wakes, Terminates
      <3>5. Wakes(t)' = {} BY <1>5, <3>4
      <3>6. \A u : Queues(u)' = Queues(u) BY ZenonT(60), <3>1, SameQueues
      <3>7. WrapsReady(c, t)
        <4>1. Wraps(t)' = {c} BY <1>5, <3>3 DEF Nowhere, At, IsFilled, Wraps
        <4> QED BY ZenonT(60), <1>5, <2>1, <3>1, <3>4, <3>6, <4>1
                DEF WrapsReady, Nowhere, At
      <3>8. /\ MailOK(mailbox') /\ QueueOK(queue')
            /\ worker_context' \in [Tasks -> Ctx] /\ num_tasks' \in [Ctx -> Int]
        BY <1>a, <1>3, <3>1 DEF TypeOK
      <3> QED BY ZenonT(60), <3>1, <3>3, <3>4, <3>5, <3>6, <3>7, <3>8
              DEF IsFilled, Wraps
    <2>2. CASE ~(c < 0)
      <3>1. LpelWorkerMakeTaskReady(t, mb) /\ wraptask' = wraptask
        BY <1>1, <2>2
      <3>2. worker_context[t] >= 0 BY <1>5, <2>2, CtxFacts
      <3>3. Queues(t) = {} /\ Holders(mb, Msg("ASSIGN", t)) = {}
        BY ZenonT(60), <1>3, <1>5 DEF Nowhere, At
      <3>4. MadeReady(t, mb) /\ (StaysReady(t) \/ SentReady(t))
        BY ZenonT(60), <1>a, <1>3, <3>1, <3>2, <3>3, ReadyEffect
      <3>5. Wakes(t)' = {}
        <4>1. Wakes(t)' = Wakes(t) \ {c}
          BY ZenonT(60), <1>3, <3>4 DEF MadeReady
        <4> QED BY <1>5, <4>1
      <3>6. wraptask' \in [Ctx -> Slot] /\ \A u : Wraps(u)' = Wraps(u)
        BY ZenonT(60), <1>a, <3>1, SameWraps DEF TypeOK
      <3>7. Wraps(t)' = {} BY ZenonT(60), <1>5, <3>6 DEF Nowhere, At
      <3> QED BY ZenonT(60), <1>3, <3>4, <3>5, <3>6, <3>7 DEF MadeReady
    <2> QED BY ZenonT(60), <2>1, <2>2
  <1>8. TypeOK'
    <2>1. UNCHANGED <<mechanism, terminate, marked_del, migrated, on, park,
                      freed, started, stopped>> /\ pc' \in [Ctx -> Pcs]
      BY ZenonT(60), <1>1, <1>4 DEF Handles
    <2> QED BY <1>a, <1>6, <1>7, <2>1 DEF TypeOK
  <1>9. Moved(t) BY ZenonT(60), <1>4, <1>6, <1>7 DEF Moved, Same
  <1>10. Runners(t)' = {} /\ Leaves(t)' = {}
    BY ZenonT(60), <1>4, <1>5 DEF Nowhere, At
  <1>11. TaskInv(t)'
    <2>1. \/ c < 0 /\ worker_context'[t] = c /\ At(t, {}, {}, {c}, {}, {})'
          \/ /\ worker_context'[t] >= 0
             /\ \/ At(t, {}, {worker_context[t]}, {}, {}, {})'
                \/ At(t, {}, {}, {}, {}, {worker_context[t]})'
      BY ZenonT(60), <1>5, <1>7, <1>10
         DEF At, WrapsReady, StaysReady, SentReady
    <2>2. Located(t)'
      BY ZenonT(60), <1>4, <1>5, <1>6, <2>1 DEF Located
    <2>4. Parked(t)' BY ZenonT(60), <1>4, <1>5, <1>6, <1>7 DEF Parked
    <2>5. Homed(t)'
      <3>1. worker_context'[t] >= 0 => ~(worker_context'[t] < 0)
        BY ZenonT(60), <1>3, <1>7, CtxFacts
      <3>2. c < 0 => Home[t] = c BY ZenonT(60), <1>b, <1>5 DEF TaskInv, Homed
      <3> QED BY ZenonT(60), <1>10, <2>1, <3>1, <3>2 DEF Homed
    <2> QED BY <2>2, <2>4, <2>5 DEF TaskInv
  <1> QED BY ZenonT(60), <1>3, <1>4, <1>5, <1>6, <1>7, <1>8, <1>9, <1>10, <1>11
          DEF Becomes

(* An assignment. *)
LEMMA AssignEffect ==
  ASSUME WorkerInv, NEW c \in Ctx, Handles(c), ProcessAssign(c),
         NEW t, t = Head(mailbox[c]).task
  PROVE  /\ TypeOK' /\ t \in Tasks /\ Moved(t) /\ TaskInv(t)'
         /\ state[t] \in {"CREATED", "READY"} /\ At(t, {}, {}, {}, {}, {c})
         /\ worker_context[t] = c /\ Becomes(t, "READY", c)
         /\ Leaves(t)' = {} /\ Assigns(t)' = {}
         /\ num_tasks' = [num_tasks EXCEPT ![c] = @ + 1]
         /\ Terminates' = Terminates
  <1>a. TypeOK BY InvFacts
  <1>1. /\ state' = [state EXCEPT ![t] = "READY"]
        /\ mailbox' = [mailbox EXCEPT ![c] = Tail(@)]
        /\ num_tasks' = [num_tasks EXCEPT ![c] = @ + 1]
        /\ UNCHANGED <<terminate, worker_context>>
        /\ \/ c < 0 /\ wraptask' = [wraptask EXCEPT ![c] = t] /\ queue' = queue
           \/ ~(c < 0) /\ LpelSchedMakeReady(c, t) /\ wraptask' = wraptask
    BY DEF ProcessAssign
  <1>2. Head(mailbox[c]).type = "ASSIGN" /\ mailbox[c] # <<>>
    BY DEF ProcessAssign, Handles
  <1>3. /\ MailOK(mailbox') /\ t \in Tasks /\ c \in Assigns(t)
        /\ Assigns(t)' = Assigns(t) \ {c}
        /\ \A u \in Tasks \ {t} : Assigns(u)' = Assigns(u)
        /\ \A u : Wakes(u)' = Wakes(u)
        /\ Terminates' = Terminates
    BY ZenonT(60), <1>a, <1>1, <1>2, TakeAssign
  <1>b. TaskInv(t) BY <1>3, InvFacts
  <1>4. /\ \A u : Runners(u)' = Runners(u) /\ Leaves(u)' = Leaves(u)
        /\ UNCHANGED <<mechanism, park, started, stopped>>
    BY ZenonT(60), HandlesSame
  <1>5. /\ state[t] \in {"CREATED", "READY"} /\ worker_context[t] = c
        /\ t \in started /\ At(t, {}, {}, {}, {}, {c})
    BY ZenonT(60), <1>b, <1>3, AssignedTask
  <1>6. /\ state' \in [Tasks -> States] /\ state'[t] = "READY"
        /\ \A u \in Tasks \ {t} : state'[u] = state[u]
        /\ num_tasks' \in [Ctx -> Int]
    BY <1>a, <1>1, <1>3 DEF TypeOK, States
  <1>7. /\ wraptask' \in [Ctx -> Slot] /\ QueueOK(queue')
        /\ \A u \in Tasks \ {t} : Queues(u)' = Queues(u) /\ Wraps(u)' = Wraps(u)
        /\ \/ c < 0 /\ Wraps(t)' = {c} /\ Queues(t)' = {}
           \/ c >= 0 /\ Wraps(t)' = {} /\ Queues(t)' = {c}
    <2>1. CASE c < 0
      <3>1. wraptask' = [wraptask EXCEPT ![c] = t] /\ queue' = queue
        BY <1>1, <2>1
      <3>2. wraptask \in [Ctx -> Slot] /\ wraptask[c] \in {NULL, t}
        BY <1>a, <1>3, <1>5, <2>1, WrapperFree DEF TypeOK, At
      <3>3. IsFilled(wraptask, wraptask', c, t)
        BY ZenonT(60), <1>3, <3>1, <3>2, FillSlot
      <3>4. Wraps(t)' = {c} BY ZenonT(60), <1>5, <3>3 DEF At, IsFilled, Wraps
      <3>5. \A u : Queues(u)' = Queues(u) BY ZenonT(60), <3>1, SameQueues
      <3>6. Queues(t)' = {} BY ZenonT(60), <1>5, <3>5 DEF At
      <3>7. QueueOK(queue') BY <1>a, <3>1 DEF TypeOK
      <3> QED BY ZenonT(60), <2>1, <3>3, <3>4, <3>5, <3>6, <3>7 DEF IsFilled, Wraps
    <2>2. CASE ~(c < 0)
      <3>1. LpelSchedMakeReady(c, t) /\ wraptask' = wraptask BY <1>1, <2>2
      <3>2. IsQueued(c, t)
        <4>1. QueueOK(queue) /\ c \notin Queues(t) BY <1>a, <1>5 DEF TypeOK, At
        <4> QED BY ZenonT(60), <1>3, <3>1, <4>1, MakeReady
      <3>3. Queues(t)' = {c} BY <1>5, <3>2 DEF At, IsQueued
      <3>4. wraptask' \in [Ctx -> Slot] /\ \A u : Wraps(u)' = Wraps(u)
        BY ZenonT(60), <1>a, <3>1, SameWraps DEF TypeOK
      <3>5. Wraps(t)' = {} BY ZenonT(60), <1>5, <3>4 DEF At
      <3>6. c >= 0 BY <2>2, CtxFacts
      <3> QED BY ZenonT(60), <3>2, <3>3, <3>4, <3>5, <3>6 DEF IsQueued
    <2> QED BY ZenonT(60), <2>1, <2>2
  <1>8. TypeOK'
    <2>1. UNCHANGED <<mechanism, terminate, marked_del, migrated, on, park,
                      freed, started, stopped, worker_context>>
          /\ pc' \in [Ctx -> Pcs]
      BY ZenonT(60), <1>1, <1>4 DEF Handles
    <2> QED BY <1>a, <1>3, <1>6, <1>7, <2>1 DEF TypeOK
  <1>9. Moved(t) BY ZenonT(60), <1>1, <1>3, <1>4, <1>6, <1>7 DEF Moved, Same
  <1>10. Runners(t)' = {} /\ Leaves(t)' = {}
    BY ZenonT(60), <1>4, <1>5 DEF At
  <1>11. Assigns(t)' = {} BY <1>3, <1>5 DEF At
  <1>12. worker_context'[t] = c /\ t \in started' BY <1>1, <1>4, <1>5
  <1>13. TaskInv(t)'
    <2>1. \/ c < 0 /\ At(t, {}, {}, {c}, {}, {})'
          \/ c >= 0 /\ At(t, {}, {c}, {}, {}, {})'
      BY ZenonT(60), <1>7, <1>10, <1>11 DEF At
    <2>2. Located(t)' BY ZenonT(60), <1>6, <1>12, <2>1 DEF Located
    <2>4. Parked(t)'
      <3>1. park'[t] # "parking" /\ Wakes(t)' = {}
        BY <1>b, <1>3, <1>4, <1>5 DEF TaskInv, Parked
      <3> QED BY <1>6, <3>1 DEF Parked
    <2>5. Homed(t)' BY ZenonT(60), <1>b, <1>5, <1>10, <1>12 DEF TaskInv, Homed
    <2> QED BY <2>2, <2>4, <2>5 DEF TaskInv
  <1> QED BY ZenonT(60), <1>1, <1>3, <1>5, <1>6, <1>8, <1>9, <1>10, <1>11, <1>12,
             <1>13 DEF Becomes

(* The message of LpelStop. *)
LEMMA TerminateEffect ==
  ASSUME WorkerInv, NEW c \in Ctx, Handles(c), ProcessTerminate(c)
  PROVE  /\ TypeOK' /\ \A u \in Tasks : Same(u)
         /\ c \in Terminates /\ Terminates' = Terminates \ {c}
  <1>a. TypeOK BY InvFacts
  <1>1. /\ mailbox' = [mailbox EXCEPT ![c] = Tail(@)]
        /\ terminate' = [terminate EXCEPT ![c] = TRUE]
        /\ UNCHANGED <<queue, num_tasks, wraptask, state, worker_context>>
    BY DEF ProcessTerminate
  <1>2. Head(mailbox[c]).type = "TERMINATE" /\ mailbox[c] # <<>>
    BY DEF ProcessTerminate, Handles
  <1>3. /\ MailOK(mailbox') /\ c \in Terminates
        /\ \A u : Assigns(u)' = Assigns(u) /\ Wakes(u)' = Wakes(u)
        /\ Terminates' = Terminates \ {c}
    BY ZenonT(60), <1>a, <1>1, <1>2, TakeTerminate
  <1>4. /\ \A u : Runners(u)' = Runners(u) /\ Leaves(u)' = Leaves(u)
        /\ UNCHANGED <<mechanism, park, started, stopped>>
    BY ZenonT(60), HandlesSame
  <1>5. TypeOK'
    <2>1. UNCHANGED <<mechanism, marked_del, migrated, on, park, freed, started,
                      stopped>> /\ pc' \in [Ctx -> Pcs]
      BY ZenonT(60), <1>1, <1>4 DEF Handles
    <2>2. terminate' \in [Ctx -> BOOLEAN] BY <1>a, <1>1 DEF TypeOK
    <2> QED BY <1>a, <1>1, <1>3, <2>1, <2>2 DEF TypeOK
  <1>6. \A u : Queues(u)' = Queues(u) /\ Wraps(u)' = Wraps(u)
    BY ZenonT(60), <1>1, SameQueues, SameWraps
  <1> QED BY ZenonT(60), <1>1, <1>3, <1>4, <1>5, <1>6 DEF Same

(* A thread takes up the next task. *)
LEMMA SwitchEffect ==
  ASSUME WorkerInv, NEW c \in Ctx, NEW t \in Tasks, SwitchTo(c, t),
         pc[c] # "run",
         \/ LpelSchedFetchReady(c, t) /\ wraptask' = wraptask
         \/ /\ wraptask[c] = t /\ wraptask' = [wraptask EXCEPT ![c] = NULL]
            /\ queue' = queue,
         UNCHANGED <<mailbox, num_tasks, terminate, marked_del, migrated,
                     worker_context, freed, mechanism, started, stopped>>
  PROVE  /\ TypeOK' /\ Moved(t) /\ TaskInv(t)' /\ ThreadStep(c)
         /\ pc'[c] = "run" /\ on'[c] = t /\ park[t] # "parking"
         /\ state[t] = "READY" /\ worker_context[t] = c /\ t \in started
         /\ Leaves(t) = {} /\ Assigns(t) = {}
         /\ Becomes(t, "RUNNING", c) /\ At(t, {c}, {}, {}, {}, {})'
  <1>a. TypeOK BY InvFacts
  <1>b. TaskInv(t) BY InvFacts
  <1>1. /\ on' = [on EXCEPT ![c] = t] /\ pc' = [pc EXCEPT ![c] = "run"]
        /\ state' = [state EXCEPT ![t] = "RUNNING"]
        /\ park' = [park EXCEPT ![t] = "running"]
    BY DEF SwitchTo
  <1>2. /\ QueueOK(queue') /\ wraptask' \in [Ctx -> Slot]
        /\ state[t] = "READY" /\ worker_context[t] = c /\ t \in started
        /\ Runners(t) = {} /\ Leaves(t) = {} /\ Assigns(t) = {}
        /\ Queues(t)' = {} /\ Wraps(t)' = {}
        /\ \A u \in Tasks \ {t} : Queues(u)' = Queues(u) /\ Wraps(u)' = Wraps(u)
    <2>1. CASE LpelSchedFetchReady(c, t) /\ wraptask' = wraptask
      <3>1. QueueOK(queue) /\ wraptask' \in [Ctx -> Slot]
        BY <1>a, <2>1 DEF TypeOK
      <3>2. IsFetched(c, t) BY ZenonT(60), <2>1, <3>1, FetchReady
      <3>3. /\ state[t] = "READY" /\ worker_context[t] = c /\ t \in started
            /\ At(t, {}, {c}, {}, {}, {})
        BY ZenonT(60), <1>b, <3>2, QueuedTask DEF IsFetched
      <3>4. \A u : Wraps(u)' = Wraps(u) BY ZenonT(60), <2>1, SameWraps
      <3>5. Queues(t)' = {} BY <3>2, <3>3 DEF IsFetched, At
      <3> QED BY ZenonT(60), <3>1, <3>2, <3>3, <3>4, <3>5 DEF IsFetched, At
    <2>2. CASE /\ wraptask[c] = t /\ wraptask' = [wraptask EXCEPT ![c] = NULL]
               /\ queue' = queue
      <3>1. QueueOK(queue') /\ wraptask \in [Ctx -> Slot]
        BY <1>a, <2>2 DEF TypeOK
      <3>2. IsCleared(wraptask, wraptask', c, t)
        BY ZenonT(60), <2>2, <3>1, ClearSlot
      <3>3. /\ state[t] = "READY" /\ worker_context[t] = c /\ t \in started
            /\ At(t, {}, {}, {c}, {}, {})
        BY ZenonT(60), <1>b, <2>2, WrapTask
      <3>4. \A u : Queues(u)' = Queues(u) BY ZenonT(60), <2>2, SameQueues
      <3>5. Wraps(t)' = {} BY <3>2, <3>3 DEF IsCleared, At, Wraps
      <3> QED BY ZenonT(60), <3>1, <3>2, <3>3, <3>4, <3>5 DEF IsCleared, At, Wraps
    <2> QED BY ZenonT(60), <2>1, <2>2
  <1>3. /\ ThreadStep(c) /\ pc' \in [Ctx -> Pcs] /\ pc'[c] = "run"
        /\ on' \in [Ctx -> Slot] /\ on'[c] = t
    BY <1>a, <1>1 DEF TypeOK, Pcs, Slot, ThreadStep
  <1>4. /\ state' \in [Tasks -> States] /\ state'[t] = "RUNNING"
        /\ park' \in [Tasks -> {"running", "parking", "granted"}]
        /\ park'[t] = "running"
        /\ \A u \in Tasks \ {t} : state'[u] = state[u] /\ park'[u] = park[u]
    BY <1>a, <1>1 DEF TypeOK, States
  <1>5. /\ Runners(t)' = Runners(t) \cup {c}
        /\ \A u \in Tasks \ {t} : Runners(u)' = Runners(u)
    BY ZenonT(60), <1>3, StartsRunning
  <1>6. Runners(t)' = {c} BY <1>2, <1>5
  <1>7. /\ \A u : Leaves(u)' = Leaves(u) /\ Assigns(u)' = Assigns(u)
        /\ \A u : Wakes(u)' = Wakes(u)
    BY ZenonT(60), SameLeaves, SameMail
  <1>8. TypeOK' BY <1>a, <1>2, <1>3, <1>4 DEF TypeOK
  <1>9. Moved(t) BY ZenonT(60), <1>2, <1>4, <1>5, <1>7 DEF Moved, Same
  <1>10. At(t, {c}, {}, {}, {}, {})' BY ZenonT(60), <1>2, <1>6, <1>7 DEF At
  <1>11. worker_context'[t] = c /\ t \in started' BY ZenonT(60), <1>2
  <1>12. park[t] # "parking" /\ Wakes(t)' = {}
    BY ZenonT(60), <1>b, <1>2, <1>7 DEF TaskInv, Parked
  <1>13. TaskInv(t)'
    <2>1. Located(t)' BY ZenonT(60), <1>4, <1>10, <1>11 DEF Located
    <2>2. Parked(t)' BY <1>4, <1>12 DEF Parked
    <2>3. Homed(t)' BY ZenonT(60), <1>b, <1>2, <1>10, <1>11 DEF TaskInv, Homed, At
    <2> QED BY <2>1, <2>2, <2>3 DEF TaskInv
  <1> QED BY ZenonT(60), <1>2, <1>3, <1>4, <1>8, <1>9, <1>10, <1>11, <1>12, <1>13
          DEF Becomes

(* An ASSIGN message to the worker of the task. *)
AssignSent(t) ==
  /\ MailOK(mailbox') /\ Assigns(t)' = {worker_context[t]}
  /\ \A u \in Tasks \ {t} : Assigns(u)' = Assigns(u)
  /\ \A u : Wakes(u)' = Wakes(u)
  /\ Terminates' = Terminates

(* ASSIGN is sent to the worker of the task. *)
LEMMA SendToOwn ==
  ASSUME TypeOK, NEW t \in Tasks, Assigns(t) = {},
         mailbox' = [mailbox EXCEPT ![worker_context[t]] =
                       Append(@, Msg("ASSIGN", t))]
  PROVE  AssignSent(t)
  <1>1. /\ worker_context[t] \in Ctx /\ MailOK(mailbox)
        /\ Holders(mailbox, Msg("ASSIGN", t)) = {}
    BY DEF TypeOK, Assigns
  <1>2. /\ MailOK(mailbox')
        /\ Assigns(t)' = Holders(mailbox, Msg("ASSIGN", t)) \cup {worker_context[t]}
        /\ \A u \in Tasks \ {t} : Assigns(u)' = Holders(mailbox, Msg("ASSIGN", u))
        /\ \A u : Wakes(u)' = Holders(mailbox, Msg("WAKEUP", u))
        /\ Terminates' = Holders(mailbox, Msg("TERMINATE", NULL))
    BY ZenonT(60), <1>1, SendAssign
  <1>3. Assigns(t)' = {worker_context[t]} BY <1>1, <1>2
  <1> QED BY ZenonT(60), <1>2, <1>3 DEF AssignSent, Assigns, Wakes, Terminates

(* The loop of a worker sends a migrating task away. *)
LEMMA LeaveEffect ==
  ASSUME WorkerInv, NEW c \in Ctx, NEW t \in Tasks, migrated[c] = t,
         pc[c] # "run", ThreadStep(c), pc'[c] # "run", pc' \in [Ctx -> Pcs],
         mailbox' = [mailbox EXCEPT ![worker_context[t]] =
                       Append(@, Msg("ASSIGN", t))],
         num_tasks' = [num_tasks EXCEPT ![c] = @ - 1],
         migrated' = [migrated EXCEPT ![c] = NULL],
         marked_del' \in [Ctx -> Slot], freed' \subseteq Tasks,
         UNCHANGED <<queue, terminate, wraptask, on, state, worker_context,
                     mechanism, park, started, stopped>>
  PROVE  /\ TypeOK' /\ Moved(t) /\ TaskInv(t)'
         /\ state[t] = "READY" /\ At(t, {}, {}, {}, {c}, {})
         /\ At(t, {}, {}, {}, {}, {worker_context[t]})'
         /\ migrated'[c] = NULL /\ \A d \in Ctx \ {c} : migrated'[d] = migrated[d]
         /\ Terminates' = Terminates
  <1>a. TypeOK BY InvFacts
  <1>b. TaskInv(t) BY InvFacts
  <1>1. /\ state[t] = "READY" /\ t \in started
        /\ At(t, {}, {}, {}, {c}, {})
    BY ZenonT(60), <1>b, LeavingTask
  <1>2. Assigns(t) = {} BY <1>1 DEF At
  <1>3. AssignSent(t) BY ZenonT(60), <1>a, <1>2, SendToOwn
  <1>4. /\ Assigns(t)' = {worker_context[t]}
        /\ \A u \in Tasks \ {t} : Assigns(u)' = Assigns(u)
        /\ \A u : Wakes(u)' = Wakes(u)
        /\ Terminates' = Terminates
    BY ZenonT(60), <1>3 DEF AssignSent
  <1>5. IsCleared(migrated, migrated', c, t)
    <2>1. migrated \in [Ctx -> Slot] BY <1>a DEF TypeOK
    <2> QED BY ZenonT(60), <2>1, ClearSlot
  <1>6. Leaves(t)' = {} BY ZenonT(60), <1>1, <1>5 DEF IsCleared, Leaves, At
  <1>7. /\ \A u : Runners(u)' = Runners(u) /\ Queues(u)' = Queues(u)
        /\ \A u : Wraps(u)' = Wraps(u)
    BY ZenonT(60), KeepsNotRunning, SameQueues, SameWraps
  <1>8. /\ migrated' \in [Ctx -> Slot] /\ migrated'[c] = NULL
        /\ num_tasks' \in [Ctx -> Int]
        /\ \A d \in Ctx \ {c} : migrated'[d] = migrated[d]
    BY <1>a DEF TypeOK, Slot
  <1>9. TypeOK' BY <1>a, <1>3, <1>8 DEF TypeOK, AssignSent
  <1>10. Moved(t)
    BY ZenonT(60), <1>4, <1>5, <1>7 DEF Moved, Same, IsCleared, Leaves
  <1>11. At(t, {}, {}, {}, {}, {worker_context[t]})'
    BY ZenonT(60), <1>1, <1>4, <1>6, <1>7 DEF At
  <1>12. TaskInv(t)'
    <2>1. Located(t)' BY ZenonT(60), <1>1, <1>11 DEF Located
    <2>2. Parked(t)' BY <1>b, <1>4 DEF TaskInv, Parked
    <2>3. Homed(t)' BY ZenonT(60), <1>b, <1>6 DEF TaskInv, Homed
    <2> QED BY ZenonT(60), <2>1, <2>2, <2>3 DEF TaskInv
  <1> QED BY ZenonT(60), <1>1, <1>4, <1>8, <1>9, <1>10, <1>11, <1>12

(* A step between two activities of a thread moves no task. *)
LEMMA IdleEffect ==
  ASSUME WorkerInv, NEW c \in Ctx, ThreadStep(c), pc[c] # "run", pc'[c] # "run",
         pc' \in [Ctx -> Pcs], on' \in [Ctx -> Slot],
         marked_del' \in [Ctx -> Slot], freed' \subseteq Tasks,
         UNCHANGED <<mailbox, queue, num_tasks, terminate, wraptask, migrated,
                     state, worker_context, mechanism, park, started, stopped>>
  PROVE  TypeOK' /\ (\A u \in Tasks : Same(u)) /\ Terminates' = Terminates
  <1>a. TypeOK BY InvFacts
  <1>1. TypeOK' BY <1>a DEF TypeOK
  <1>2. /\ \A u : Runners(u)' = Runners(u) /\ Queues(u)' = Queues(u)
        /\ \A u : Wraps(u)' = Wraps(u) /\ Leaves(u)' = Leaves(u)
        /\ \A u : Assigns(u)' = Assigns(u) /\ Wakes(u)' = Wakes(u)
        /\ Terminates' = Terminates
    BY ZenonT(60), KeepsNotRunning, SameQueues, SameWraps, SameLeaves, SameMail
  <1> QED BY ZenonT(60), <1>1, <1>2 DEF Same

----------------------------------------------------------------------------
(* What the program does *)

(* LpelTaskStart sends the created task to its worker. *)
LEMMA StartEffect ==
  ASSUME WorkerInv, NEW t \in Tasks, LpelTaskStart(t)
  PROVE  /\ TypeOK' /\ Moved(t) /\ TaskInv(t)' /\ Terminates' = Terminates
         /\ state[t] = "CREATED" /\ Nowhere(t) /\ t \notin started
         /\ Becomes(t, "CREATED", worker_context[t])
  <1>a. TypeOK BY InvFacts
  <1>b. TaskInv(t) BY InvFacts
  <1>1. /\ t \notin started /\ started' = started \cup {t}
        /\ mailbox' = [mailbox EXCEPT ![worker_context[t]] =
                         Append(@, Msg("ASSIGN", t))]
        /\ UNCHANGED <<queue, num_tasks, terminate, marked_del, wraptask,
                       migrated, pc, on, state, worker_context, freed,
                       mechanism, park, stopped>>
    BY ZenonT(60) DEF LpelTaskStart, workervars, taskvars
  <1>2. state[t] = "CREATED" /\ Nowhere(t)
    BY ZenonT(60), <1>b, <1>1 DEF TaskInv, Located
  <1>3. Assigns(t) = {} BY <1>2 DEF Nowhere, At
  <1>4. AssignSent(t) BY ZenonT(60), <1>a, <1>1, <1>3, SendToOwn
  <1>5. /\ MailOK(mailbox') /\ Assigns(t)' = {worker_context[t]}
        /\ \A u \in Tasks \ {t} : Assigns(u)' = Assigns(u)
        /\ \A u : Wakes(u)' = Wakes(u)
        /\ Terminates' = Terminates
    BY ZenonT(60), <1>4 DEF AssignSent
  <1>6. /\ \A u : Runners(u)' = Runners(u) /\ Queues(u)' = Queues(u)
        /\ \A u : Wraps(u)' = Wraps(u) /\ Leaves(u)' = Leaves(u)
    BY ZenonT(60), <1>1, SameRunners, SameQueues, SameWraps, SameLeaves
  <1>7. started' \subseteq Tasks BY <1>a, <1>1 DEF TypeOK
  <1>8. TypeOK' BY <1>a, <1>1, <1>5, <1>7 DEF TypeOK
  <1>9. t \in started' /\ \A u \in Tasks \ {t} : u \in started' <=> u \in started
    BY <1>1
  <1>10. Moved(t) BY ZenonT(60), <1>1, <1>5, <1>6, <1>9 DEF Moved, Same
  <1>11. At(t, {}, {}, {}, {}, {worker_context[t]})'
    BY ZenonT(60), <1>1, <1>2, <1>5, <1>6 DEF Nowhere, At
  <1>12. TaskInv(t)'
    <2>1. Located(t)' BY ZenonT(60), <1>1, <1>2, <1>9, <1>11 DEF Located
    <2>2. Parked(t)' BY ZenonT(60), <1>b, <1>1, <1>5 DEF TaskInv, Parked
    <2>3. Homed(t)' BY ZenonT(60), <1>b, <1>1, <1>6 DEF TaskInv, Homed
    <2> QED BY <2>1, <2>2, <2>3 DEF TaskInv
  <1> QED BY ZenonT(60), <1>1, <1>2, <1>5, <1>8, <1>9, <1>10, <1>12 DEF Becomes

(* LpelStop sends TERMINATE and moves no task. *)
LEMMA StopEffect ==
  ASSUME WorkerInv, NEW w \in Workers, LpelStop(w)
  PROVE  /\ TypeOK' /\ (\A u \in Tasks : Same(u))
         /\ w \notin Terminates /\ Terminates' = Terminates \cup {w}
         /\ stopped' = stopped \cup {w}
  <1>a. TypeOK /\ Terminates \subseteq stopped BY DEF WorkerInv
  <1>1. /\ w \notin stopped /\ stopped' = stopped \cup {w}
        /\ mailbox' = [mailbox EXCEPT ![w] = Append(@, Msg("TERMINATE", NULL))]
        /\ UNCHANGED <<queue, num_tasks, terminate, marked_del, wraptask,
                       migrated, pc, on, state, worker_context, freed,
                       mechanism, park, started>>
    BY ZenonT(60) DEF LpelStop, workervars, taskvars
  <1>2. w \notin Terminates /\ MailOK(mailbox) /\ w \in Ctx
    BY <1>a, <1>1 DEF TypeOK, Ctx
  <1>3. /\ MailOK(mailbox')
        /\ \A u : Assigns(u)' = Assigns(u) /\ Wakes(u)' = Wakes(u)
        /\ Terminates' = Terminates \cup {w}
    BY ZenonT(60), <1>1, <1>2, SendTerminate
  <1>4. /\ \A u : Runners(u)' = Runners(u) /\ Queues(u)' = Queues(u)
        /\ \A u : Wraps(u)' = Wraps(u) /\ Leaves(u)' = Leaves(u)
    BY ZenonT(60), <1>1, SameRunners, SameQueues, SameWraps, SameLeaves
  <1>5. stopped' \subseteq Workers BY <1>a, <1>1 DEF TypeOK
  <1>6. TypeOK' BY <1>a, <1>1, <1>3, <1>5 DEF TypeOK
  <1> QED BY ZenonT(60), <1>1, <1>2, <1>3, <1>4, <1>6 DEF Same

----------------------------------------------------------------------------
(* The count of the tasks of a worker *)

Owner(st, wc, leaves, assigns, w) ==
  /\ st \notin {"CREATED", "ZOMBIE"}
  /\ w \in leaves \/ wc = w
  /\ leaves \subseteq {w} /\ assigns = {}

(* The tasks of a worker, by state and place. *)
LEMMA TasksOfOwner ==
  ASSUME NEW t \in Tasks, NEW w
  PROVE  /\ t \in TasksOf(w) <=>
              Owner(state[t], worker_context[t], Leaves(t), Assigns(t), w)
         /\ (t \in TasksOf(w))' <=>
              Owner(state'[t], worker_context'[t], Leaves(t)', Assigns(t)', w)
  BY ZenonT(60) DEF TasksOf, Owner

(* A task that came to a worker is one of its tasks. *)
LEMMA OwnerHere ==
  ASSUME NEW t \in Tasks, NEW c, state[t] \notin {"CREATED", "ZOMBIE"},
         worker_context[t] = c, Leaves(t) = {}, Assigns(t) = {}
  PROVE  \A w \in Workers : t \in TasksOf(w) <=> w = c
  BY ZenonT(60) DEF TasksOf

(* A task that stays with a worker, or migrates from it, is one of its     *)
(* tasks.                                                                  *)
LEMMA OwnerNext ==
  ASSUME NEW t \in Tasks, NEW c, state'[t] \notin {"CREATED", "ZOMBIE"},
         (Leaves(t)' = {} /\ worker_context'[t] = c) \/ Leaves(t)' = {c},
         Assigns(t)' = {}
  PROVE  \A w \in Workers : (t \in TasksOf(w))' <=> w = c
  <1> SUFFICES ASSUME NEW w \in Workers PROVE (t \in TasksOf(w))' <=> w = c
    OBVIOUS
  <1>1. Owner(state'[t], worker_context'[t], Leaves(t)', Assigns(t)', w)
        <=> w = c
    BY ZenonT(60) DEF Owner
  <1> QED BY <1>1, TasksOfOwner

(* A task that has not come to a worker is no worker's. *)
LEMMA NoOwner ==
  ASSUME NEW t \in Tasks, state[t] = "CREATED" \/ Assigns(t) # {}
  PROVE  \A w \in Workers : t \notin TasksOf(w)
  BY ZenonT(60) DEF TasksOf

(* A task that has ended, or is on its way, is no worker's. *)
LEMMA NoOwnerNext ==
  ASSUME NEW t \in Tasks,
         state'[t] \in {"CREATED", "ZOMBIE"} \/ Assigns(t)' # {}
  PROVE  \A w \in Workers : ~(t \in TasksOf(w))'
  BY ZenonT(60) DEF TasksOf

(* What a step does to num_tasks and to the sets it counts. *)
CountKept ==
  /\ \A w \in Workers : num_tasks'[w] = num_tasks[w]
  /\ \A w \in Workers : \A u \in Tasks : (u \in TasksOf(w))' <=> u \in TasksOf(w)

CountUp(c) == \E t \in Tasks :
  /\ num_tasks' = [num_tasks EXCEPT ![c] = @ + 1] /\ Moved(t)
  /\ \A w \in Workers : t \notin TasksOf(w) /\ ((t \in TasksOf(w))' <=> w = c)

CountDown(c) == \E t \in Tasks :
  /\ num_tasks' = [num_tasks EXCEPT ![c] = @ - 1] /\ Moved(t)
  /\ \A w \in Workers : (t \in TasksOf(w) <=> w = c) /\ ~(t \in TasksOf(w))'

Counted(c) == CountKept \/ CountUp(c) \/ CountDown(c)

(* A task that stays where it is stays with its worker. *)
LEMMA OwnedSame ==
  ASSUME NEW u \in Tasks, Same(u)
  PROVE  \A w \in Workers : (u \in TasksOf(w))' <=> u \in TasksOf(w)
  BY ZenonT(60), TasksOfOwner DEF Same

(* num_tasks stays right when the task moved stays with its worker. *)
LEMMA KeepsCount ==
  ASSUME NEW t \in Tasks, Moved(t), num_tasks' = num_tasks,
         \A w \in Workers : (t \in TasksOf(w))' <=> t \in TasksOf(w)
  PROVE  CountKept
  BY ZenonT(60), OwnedSame DEF Moved, CountKept

(* num_tasks stays right when no task moves. *)
LEMMA KeepsAllCounts ==
  ASSUME \A u \in Tasks : Same(u), num_tasks' = num_tasks
  PROVE  CountKept
  BY ZenonT(60), OwnedSame DEF CountKept

(* A worker has finitely many tasks. *)
LEMMA TasksOfFinite ==
  ASSUME NEW w
  PROVE  IsFiniteSet(TasksOf(w)) /\ IsFiniteSet(TasksOf(w)')
  <1>1. TasksOf(w) \in SUBSET Tasks /\ TasksOf(w)' \in SUBSET Tasks
    BY DEF TasksOf
  <1> QED BY ZenonT(60), <1>1, FS_Subset, WorkerAssumption

(* Whatever a step does of this, num_tasks remains the number of tasks. *)
LEMMA CountedKeeps ==
  ASSUME TypeOK, NEW c \in Ctx, Accounted, Counted(c)
  PROVE  Accounted'
  <1> SUFFICES ASSUME NEW w \in Workers
               PROVE  num_tasks'[w] = Cardinality(TasksOf(w)')
    BY DEF Accounted
  <1>0. /\ num_tasks[w] = Cardinality(TasksOf(w)) /\ num_tasks \in [Ctx -> Int]
        /\ w \in Ctx /\ TasksOf(w) \subseteq Tasks /\ TasksOf(w)' \subseteq Tasks
    BY ZenonT(60) DEF Accounted, TypeOK, Ctx, TasksOf
  <1> DEFINE S == TasksOf(w)
             T == TasksOf(w)'
  <1>1. IsFiniteSet(S) BY TasksOfFinite
  <1>2. CASE CountKept
    <2>1. \A u \in Tasks : u \in T <=> u \in S BY <1>2 DEF CountKept
    <2>2. T = S BY <1>0, <2>1
    <2> QED BY <1>0, <1>2, <2>2 DEF CountKept
  <1>3. CASE CountUp(c)
    <2>1. PICK t \in Tasks :
            /\ num_tasks' = [num_tasks EXCEPT ![c] = @ + 1] /\ Moved(t)
            /\ t \notin S /\ (t \in T <=> w = c)
      BY ZenonT(60), <1>3 DEF CountUp
    <2>2. \A u \in Tasks \ {t} : u \in T <=> u \in S
      BY ZenonT(60), <2>1, OwnedSame DEF Moved
    <2>3. T = IF w = c THEN S \cup {t} ELSE S
      <3> HIDE DEF S, T
      <3> QED BY <1>0, <2>1, <2>2 DEF S, T
    <2>4. Cardinality(S \cup {t}) = Cardinality(S) + 1
      BY ZenonT(60), <1>1, <2>1, FS_AddElement
    <2> HIDE DEF S, T
    <2>5. CASE w = c
      <3>1. num_tasks'[w] = num_tasks[w] + 1 BY <1>0, <2>1, <2>5
      <3> QED BY <1>0, <2>3, <2>4, <2>5, <3>1 DEF S, T
    <2>6. CASE w # c
      <3>1. num_tasks'[w] = num_tasks[w] BY <1>0, <2>1, <2>6
      <3> QED BY <1>0, <2>3, <2>6, <3>1 DEF S, T
    <2> QED BY <2>5, <2>6
  <1>4. CASE CountDown(c)
    <2>1. PICK t \in Tasks :
            /\ num_tasks' = [num_tasks EXCEPT ![c] = @ - 1] /\ Moved(t)
            /\ (t \in S <=> w = c) /\ t \notin T
      BY ZenonT(60), <1>4 DEF CountDown
    <2>2. \A u \in Tasks \ {t} : u \in T <=> u \in S
      BY ZenonT(60), <2>1, OwnedSame DEF Moved
    <2>3. T = S \ {t}
      <3> HIDE DEF S, T
      <3> QED BY <1>0, <2>1, <2>2 DEF S, T
    <2>4. Cardinality(S \ {t}) = IF t \in S THEN Cardinality(S) - 1
                                 ELSE Cardinality(S)
      BY ZenonT(60), <1>1, FS_RemoveElement
    <2> HIDE DEF S, T
    <2>5. CASE w = c
      <3>1. num_tasks'[w] = num_tasks[w] - 1 BY <1>0, <2>1, <2>5
      <3> QED BY <1>0, <2>1, <2>3, <2>4, <2>5, <3>1 DEF S, T
    <2>6. CASE w # c
      <3>1. num_tasks'[w] = num_tasks[w] BY <1>0, <2>1, <2>6
      <3> QED BY <1>0, <2>1, <2>3, <2>4, <2>6, <3>1 DEF S, T
    <2> QED BY <2>5, <2>6
  <1> QED BY <1>2, <1>3, <1>4 DEF Counted

----------------------------------------------------------------------------
(* The steps preserve the invariant *)

(* What a step of c may not do: it leaves the zombies alone, changes the   *)
(* state and the worker only of tasks that it has, and sends tasks only to *)
(* workers.                                                                *)
StepOf(c) ==
  /\ ThreadStep(c) /\ mechanism' = mechanism /\ pc[c] # "exit"
  /\ \A u \in Tasks : state[u] = "ZOMBIE" =>
       state'[u] = "ZOMBIE" /\ worker_context'[u] = worker_context[u]
  /\ \A u \in Tasks : state'[u] # state[u]
                      \/ worker_context'[u] # worker_context[u]
                      => worker_context[u] = c
  /\ \A u \in Tasks : worker_context'[u] # worker_context[u] =>
       mechanism # "none" /\ worker_context'[u] >= 0

(* A step of c that moves one task, which c has, does what StepOf allows. *)
LEMMA MovedStep ==
  ASSUME NEW c \in Ctx, NEW t \in Tasks, ThreadStep(c), mechanism' = mechanism,
         pc[c] # "exit", Moved(t), worker_context[t] = c, state[t] # "ZOMBIE",
         worker_context'[t] # worker_context[t] =>
           mechanism # "none" /\ worker_context'[t] >= 0
  PROVE  StepOf(c)
  BY ZenonT(60) DEF StepOf, Moved, Same

(* So does a step of c that moves none. *)
LEMMA SameStep ==
  ASSUME NEW c \in Ctx, ThreadStep(c), mechanism' = mechanism, pc[c] # "exit",
         \A u \in Tasks : /\ state'[u] = state[u]
                          /\ worker_context'[u] = worker_context[u]
  PROVE  StepOf(c)
  BY ZenonT(60) DEF StepOf

(* A step of one thread leaves the other threads where they are. *)
LEMMA ThreadedKeeps ==
  ASSUME \A d \in Ctx : Threaded(d), NEW c \in Ctx, ThreadStep(c), Threaded(c)',
         \A d \in Ctx \ {c} : migrated'[d] = migrated[d]
  PROVE  \A d \in Ctx : Threaded(d)'
  BY ZenonT(60) DEF Threaded, ThreadStep

(* The invariant after a step that moves one task. *)
LEMMA MovedInv ==
  ASSUME WorkerInv, NEW c \in Ctx, NEW t \in Tasks, TypeOK', Moved(t),
         TaskInv(t)', ThreadStep(c), Threaded(c)',
         \A d \in Ctx \ {c} : migrated'[d] = migrated[d],
         Terminates' \subseteq stopped'
  PROVE  WorkerInv'
  BY ZenonT(60), InvFacts, MovedKeeps, ThreadedKeeps DEF WorkerInv

(* The invariant after a step that moves no task. *)
LEMMA SameInv ==
  ASSUME WorkerInv, NEW c \in Ctx, TypeOK', \A u \in Tasks : Same(u),
         ThreadStep(c), Threaded(c)',
         \A d \in Ctx \ {c} : migrated'[d] = migrated[d],
         Terminates' \subseteq stopped'
  PROVE  WorkerInv'
  BY ZenonT(60), InvFacts, AllSameKeeps, ThreadedKeeps DEF WorkerInv

Keeps(c) == WorkerInv' /\ StepOf(c) /\ Counted(c)

(* The task of the step stays one of the tasks of c. *)
LEMMA StaysCounted ==
  ASSUME NEW c \in Ctx, NEW t \in Tasks, Moved(t), num_tasks' = num_tasks,
         state[t] \notin {"CREATED", "ZOMBIE"}, worker_context[t] = c,
         Leaves(t) = {}, Assigns(t) = {},
         state'[t] \notin {"CREATED", "ZOMBIE"}, Assigns(t)' = {},
         (Leaves(t)' = {} /\ worker_context'[t] = c) \/ Leaves(t)' = {c}
  PROVE  Counted(c)
  <1>1. \A w \in Workers : t \in TasksOf(w) <=> w = c
    BY OwnerHere
  <1>2. \A w \in Workers : (t \in TasksOf(w))' <=> w = c
    BY OwnerNext
  <1> QED BY ZenonT(60), <1>1, <1>2, KeepsCount DEF Counted

(* A thread that runs a task: the pointers agree. *)
LEMMA RunsFacts ==
  ASSUME WorkerInv, NEW c \in Ctx, NEW t \in Tasks, Runs(c, t)
  PROVE  /\ pc[c] = "run" /\ on[c] = t /\ t # NULL /\ migrated[c] = NULL
         /\ state[t] = "RUNNING" /\ worker_context[t] = c
         /\ Leaves(t) = {} /\ Assigns(t) = {} /\ Terminates \subseteq stopped
  <1>1. TaskInv(t) /\ Terminates \subseteq stopped BY DEF WorkerInv
  <1>2. /\ state[t] = "RUNNING" /\ worker_context[t] = c
        /\ At(t, {c}, {}, {}, {}, {})
    BY <1>1, RunningTask
  <1>3. migrated[c] = NULL BY NoneLeaving
  <1> QED BY ZenonT(60), <1>1, <1>2, <1>3, NullFacts DEF Runs, At

(* LpelTaskBlockStream. *)
LEMMA BlockKeeps ==
  ASSUME WorkerInv, NEW c \in Ctx, NEW t \in Tasks, LpelTaskBlockStream(c, t)
  PROVE  Keeps(c)
  <1>1. /\ TypeOK' /\ Moved(t) /\ TaskInv(t)' /\ ThreadStep(c)
        /\ Nowhere(t)' /\ Becomes(t, "BLOCKED", c)
    BY ZenonT(60), BlockEffect
  <1>2. /\ Runs(c, t) /\ pc'[c] = "disp" /\ pc' \in [Ctx -> Pcs]
        /\ UNCHANGED <<mailbox, num_tasks, migrated, on, mechanism, stopped>>
    <2>1. TypeOK BY InvFacts
    <2> QED BY <2>1 DEF LpelTaskBlockStream, workervars, envvars, TypeOK, Pcs
  <1>3. /\ pc[c] = "run" /\ on[c] = t /\ t # NULL /\ migrated[c] = NULL
        /\ state[t] = "RUNNING" /\ worker_context[t] = c
        /\ Leaves(t) = {} /\ Assigns(t) = {} /\ Terminates \subseteq stopped
    BY ZenonT(60), <1>2, RunsFacts
  <1>4. Threaded(c)' BY ZenonT(60), <1>2, <1>3 DEF Threaded
  <1>5. Terminates' \subseteq stopped' BY ZenonT(60), <1>2, <1>3, SameMail
  <1>6. WorkerInv' BY ZenonT(60), <1>1, <1>2, <1>4, <1>5, MovedInv
  <1>7. state'[t] = "BLOCKED" /\ worker_context'[t] = c
        /\ Leaves(t)' = {} /\ Assigns(t)' = {}
    BY ZenonT(60), <1>1 DEF Becomes, Nowhere, At
  <1>8. StepOf(c) BY ZenonT(60), <1>1, <1>2, <1>3, <1>7, MovedStep
  <1>9. Counted(c) BY ZenonT(60), <1>1, <1>2, <1>3, <1>7, StaysCounted
  <1> QED BY <1>6, <1>8, <1>9 DEF Keeps

(* LpelTaskExit. *)
LEMMA ExitKeeps ==
  ASSUME WorkerInv, NEW c \in Ctx, NEW t \in Tasks, LpelTaskExit(c, t)
  PROVE  Keeps(c)
  <1>1. /\ TypeOK' /\ Moved(t) /\ TaskInv(t)' /\ ThreadStep(c)
        /\ Becomes(t, "ZOMBIE", c)
    BY ZenonT(60), ExitEffect
  <1>2. /\ Runs(c, t) /\ pc'[c] = "disp"
        /\ num_tasks' = [num_tasks EXCEPT ![c] = @ - 1]
        /\ UNCHANGED <<mailbox, migrated, on, mechanism, stopped>>
    <2>1. TypeOK BY InvFacts
    <2> QED BY <2>1 DEF LpelTaskExit, LpelWorkerSelfTaskExit, envvars, TypeOK, Pcs
  <1>3. /\ pc[c] = "run" /\ on[c] = t /\ t # NULL /\ migrated[c] = NULL
        /\ state[t] = "RUNNING" /\ worker_context[t] = c
        /\ Leaves(t) = {} /\ Assigns(t) = {} /\ Terminates \subseteq stopped
    BY ZenonT(60), <1>2, RunsFacts
  <1>4. Threaded(c)' BY ZenonT(60), <1>2, <1>3 DEF Threaded
  <1>5. Terminates' \subseteq stopped' BY ZenonT(60), <1>2, <1>3, SameMail
  <1>6. WorkerInv' BY ZenonT(60), <1>1, <1>2, <1>4, <1>5, MovedInv
  <1>7. state'[t] = "ZOMBIE" /\ worker_context'[t] = c
    BY ZenonT(60), <1>1 DEF Becomes
  <1>8. StepOf(c) BY ZenonT(60), <1>1, <1>2, <1>3, <1>7, MovedStep
  <1>9. Counted(c)
    <2>1. \A w \in Workers : t \in TasksOf(w) <=> w = c
      BY <1>3, OwnerHere
    <2>2. \A w \in Workers : ~(t \in TasksOf(w))'
      BY <1>7, NoOwnerNext
    <2> QED BY ZenonT(60), <1>1, <1>2, <2>1, <2>2 DEF CountDown, Counted
  <1> QED BY <1>6, <1>8, <1>9 DEF Keeps

(* A task decides to block. *)
LEMMA DecideKeeps ==
  ASSUME WorkerInv, NEW c \in Ctx, NEW t \in Tasks, Decide(c, t)
  PROVE  Keeps(c)
  <1>1. /\ TypeOK' /\ Moved(t) /\ TaskInv(t)' /\ At(t, {c}, {}, {}, {}, {})'
        /\ Becomes(t, "RUNNING", c)
    BY ZenonT(60), DecideEffect
  <1>2. /\ Runs(c, t)
        /\ UNCHANGED <<mailbox, num_tasks, migrated, pc, on, mechanism, stopped>>
    BY DEF Decide, workervars
  <1>3. /\ pc[c] = "run" /\ on[c] = t /\ t # NULL /\ migrated[c] = NULL
        /\ state[t] = "RUNNING" /\ worker_context[t] = c
        /\ Leaves(t) = {} /\ Assigns(t) = {} /\ Terminates \subseteq stopped
    BY <1>2, RunsFacts
  <1>4. Threaded(c)' /\ ThreadStep(c) BY <1>2, <1>3 DEF Threaded, ThreadStep
  <1>5. Terminates' \subseteq stopped' BY ZenonT(60), <1>2, <1>3, SameMail
  <1>6. WorkerInv' BY ZenonT(60), <1>1, <1>2, <1>4, <1>5, MovedInv
  <1>7. state'[t] = "RUNNING" /\ worker_context'[t] = c
        /\ Leaves(t)' = {} /\ Assigns(t)' = {}
    BY ZenonT(60), <1>1 DEF Becomes, At
  <1>8. StepOf(c) BY ZenonT(60), <1>1, <1>2, <1>3, <1>4, <1>7, MovedStep
  <1>9. Counted(c) BY ZenonT(60), <1>1, <1>2, <1>3, <1>7, StaysCounted
  <1> QED BY <1>6, <1>8, <1>9 DEF Keeps

(* LpelWorkerSelfTaskMigrate: the task leaves for another worker. *)
LEMMA MigrateKeeps ==
  ASSUME WorkerInv, NEW c \in Ctx, NEW t \in Tasks, NEW target \in Workers,
         Runs(c, t), park[t] = "running", mechanism # "none",
         LpelWorkerSelfTaskMigrate(c, t, target),
         state' = [state EXCEPT ![t] = "READY"],
         UNCHANGED <<mailbox, queue, num_tasks, terminate, marked_del, wraptask,
                     freed, mechanism, park, started, stopped>>
  PROVE  Keeps(c)
  <1>1. /\ TypeOK' /\ Moved(t) /\ TaskInv(t)' /\ ThreadStep(c)
        /\ At(t, {}, {}, {}, {c}, {})' /\ Becomes(t, "READY", target)
        /\ pc'[c] = "back" /\ on'[c] = NULL
        /\ \A d \in Ctx \ {c} : migrated'[d] = migrated[d]
    BY ZenonT(60), MigrateEffect
  <1>3. /\ pc[c] = "run" /\ on[c] = t /\ t # NULL /\ migrated[c] = NULL
        /\ state[t] = "RUNNING" /\ worker_context[t] = c
        /\ Leaves(t) = {} /\ Assigns(t) = {} /\ Terminates \subseteq stopped
    BY ZenonT(60), RunsFacts
  <1>4. Threaded(c)' BY ZenonT(60), <1>1 DEF Threaded
  <1>5. Terminates' \subseteq stopped' BY ZenonT(60), <1>3, SameMail
  <1>6. WorkerInv' BY ZenonT(60), <1>1, <1>4, <1>5, MovedInv
  <1>7. state'[t] = "READY" /\ worker_context'[t] = target
        /\ Leaves(t)' = {c} /\ Assigns(t)' = {}
    BY ZenonT(60), <1>1 DEF Becomes, At
  <1>8. target >= 0 BY CtxFacts
  <1>9. StepOf(c) BY ZenonT(60), <1>1, <1>3, <1>7, <1>8, MovedStep
  <1>10. Counted(c) BY ZenonT(60), <1>1, <1>3, <1>7, StaysCounted
  <1> QED BY <1>6, <1>9, <1>10 DEF Keeps

(* LpelTaskYield. *)
LEMMA YieldKeeps ==
  ASSUME WorkerInv, NEW c \in Ctx, NEW t \in Tasks, LpelTaskYield(c, t)
  PROVE  Keeps(c)
  <1>0. /\ Runs(c, t) /\ park[t] = "running"
        /\ state' = [state EXCEPT ![t] = "READY"]
        /\ UNCHANGED <<mailbox, num_tasks, terminate, marked_del, freed, mechanism,
                       park, started, stopped>>
    BY DEF LpelTaskYield
  <1>1. CASE /\ \E target \in WaitPropTargets \ {c} :
                  LpelWorkerSelfTaskMigrate(c, t, target)
             /\ UNCHANGED <<queue, wraptask>>
    <2>1. PICK target \in WaitPropTargets \ {c} :
                 LpelWorkerSelfTaskMigrate(c, t, target)
      BY <1>1
    <2>2. target \in Workers /\ mechanism # "none" BY DEF WaitPropTargets
    <2> QED BY ZenonT(60), <1>0, <1>1, <2>1, <2>2, MigrateKeeps
  <1>2. CASE /\ LpelWorkerSelfTaskYield(c, t)
             /\ pc' = [pc EXCEPT ![c] = "disp"]
             /\ UNCHANGED <<on, worker_context, migrated>>
    <2>1. /\ TypeOK' /\ Moved(t) /\ TaskInv(t)' /\ ThreadStep(c)
          /\ Becomes(t, "READY", c) /\ Leaves(t)' = {} /\ Assigns(t)' = {}
      BY ZenonT(60), <1>0, <1>2, YieldEffect
    <2>2. pc'[c] = "disp"
      <3>1. TypeOK BY InvFacts
      <3> QED BY <1>2, <3>1 DEF TypeOK
    <2>3. /\ pc[c] = "run" /\ on[c] = t /\ t # NULL /\ migrated[c] = NULL
          /\ state[t] = "RUNNING" /\ worker_context[t] = c
          /\ Leaves(t) = {} /\ Assigns(t) = {} /\ Terminates \subseteq stopped
      BY ZenonT(60), <1>0, RunsFacts
    <2>4. Threaded(c)' BY <1>2, <2>2, <2>3 DEF Threaded
    <2>5. Terminates' \subseteq stopped' BY ZenonT(60), <1>0, <2>3, SameMail
    <2>6. WorkerInv' BY ZenonT(60), <1>2, <2>1, <2>4, <2>5, MovedInv
    <2>7. state'[t] = "READY" /\ worker_context'[t] = c
      BY ZenonT(60), <2>1 DEF Becomes
    <2>8. StepOf(c) BY ZenonT(60), <1>0, <2>1, <2>3, <2>7, MovedStep
    <2>9. Counted(c) BY ZenonT(60), <1>0, <2>1, <2>3, <2>7, StaysCounted
    <2> QED BY <2>6, <2>8, <2>9 DEF Keeps
  <1> QED BY ZenonT(60), <1>1, <1>2 DEF LpelTaskYield

(* LpelTaskCheckMigrate. *)
LEMMA CheckMigrateKeeps ==
  ASSUME WorkerInv, NEW c \in Ctx, NEW t \in Tasks, LpelTaskCheckMigrate(c, t)
  PROVE  Keeps(c)
  <1>1. /\ Runs(c, t) /\ park[t] = "running" /\ mechanism # "none"
        /\ state' = [state EXCEPT ![t] = "READY"]
        /\ UNCHANGED <<mailbox, queue, num_tasks, terminate, marked_del, wraptask,
                       freed, mechanism, park, started, stopped>>
    BY DEF LpelTaskCheckMigrate
  <1>2. PICK target \in Workers : LpelWorkerSelfTaskMigrate(c, t, target)
    BY DEF LpelTaskCheckMigrate
  <1> QED BY ZenonT(60), <1>1, <1>2, MigrateKeeps

(* A blocked task of c becomes ready. *)
LEMMA ReadyKeeps ==
  ASSUME NEW c \in Ctx, NEW t \in Tasks, Moved(t), ThreadStep(c),
         mechanism' = mechanism, pc[c] # "exit",
         state[t] = "BLOCKED", Nowhere(t), worker_context[t] = c,
         Becomes(t, "READY", worker_context'[t]), Leaves(t)' = {},
         StaysReady(t) \/ SentReady(t)
  PROVE  StepOf(c) /\ Counted(c)
  <1>1. /\ state'[t] = "READY" /\ Leaves(t) = {} /\ Assigns(t) = {}
    BY ZenonT(60) DEF Becomes, Nowhere, At
  <1>2. CASE StaysReady(t)
    <2>1. /\ worker_context'[t] = c /\ Assigns(t)' = {} /\ num_tasks' = num_tasks
      BY ZenonT(60), <1>2 DEF StaysReady
    <2>2. StepOf(c) BY ZenonT(60), <2>1, MovedStep
    <2>3. Counted(c) BY ZenonT(60), <1>1, <2>1, StaysCounted
    <2> QED BY ZenonT(60), <2>2, <2>3
  <1>3. CASE SentReady(t)
    <2>1. /\ mechanism # "none" /\ worker_context'[t] >= 0
          /\ num_tasks' = [num_tasks EXCEPT ![c] = @ - 1]
          /\ Assigns(t)' = {worker_context'[t]}
      BY ZenonT(60), <1>3 DEF SentReady
    <2>2. StepOf(c) BY ZenonT(60), <2>1, MovedStep
    <2>3. \A w \in Workers : t \in TasksOf(w) <=> w = c
      BY ZenonT(60), <1>1, OwnerHere
    <2>4. Assigns(t)' # {} BY ZenonT(60), <2>1
    <2>5. \A w \in Workers : ~(t \in TasksOf(w))'
      BY ZenonT(60), <2>4, NoOwnerNext
    <2> QED BY ZenonT(60), <2>1, <2>2, <2>3, <2>5 DEF CountDown, Counted
  <1> QED BY <1>2, <1>3

(* LpelTaskUnblock: a task wakes another, of this worker or of another. *)
LEMMA UnblockKeeps ==
  ASSUME WorkerInv, NEW c \in Ctx, NEW t \in Tasks, NEW whom \in Tasks,
         LpelTaskUnblock(c, t, whom)
  PROVE  Keeps(c)
  <1>0. /\ Runs(c, t) /\ UNCHANGED <<migrated, pc, on, mechanism, stopped>>
    BY DEF LpelTaskUnblock
  <1>1. /\ pc[c] = "run" /\ on[c] = t /\ t # NULL /\ migrated[c] = NULL
        /\ Terminates \subseteq stopped
    BY <1>0, RunsFacts
  <1>2. Threaded(c)' /\ ThreadStep(c) BY <1>0, <1>1 DEF Threaded, ThreadStep
  <1>3. CASE worker_context[whom] < 0 \/ worker_context[t] # worker_context[whom]
    <2>1. /\ TypeOK' /\ Moved(whom) /\ TaskInv(whom)' /\ Terminates' = Terminates
          /\ Leaves(whom)' = Leaves(whom) /\ Assigns(whom)' = Assigns(whom)
          /\ UNCHANGED <<state, worker_context, num_tasks, started>>
      BY ZenonT(60), <1>3, UnblockFar
    <2>2. Terminates' \subseteq stopped' BY ZenonT(60), <1>0, <1>1, <2>1
    <2>3. WorkerInv' BY ZenonT(60), <1>0, <1>2, <2>1, <2>2, MovedInv
    <2>4. StepOf(c) BY ZenonT(60), <1>0, <1>1, <1>2, <2>1, SameStep
    <2>5. \A w \in Workers : (whom \in TasksOf(w))' <=> whom \in TasksOf(w)
      BY ZenonT(60), <2>1, TasksOfOwner
    <2>6. Counted(c) BY ZenonT(60), <2>1, <2>5, KeepsCount DEF Counted
    <2> QED BY <2>3, <2>4, <2>6 DEF Keeps
  <1>4. CASE ~(worker_context[whom] < 0
               \/ worker_context[t] # worker_context[whom])
    <2>1. /\ TypeOK' /\ Moved(whom) /\ TaskInv(whom)' /\ Terminates' = Terminates
          /\ state[whom] = "BLOCKED" /\ Nowhere(whom) /\ worker_context[whom] = c
          /\ Becomes(whom, "READY", worker_context'[whom])
          /\ Leaves(whom)' = {} /\ (StaysReady(whom) \/ SentReady(whom))
      BY ZenonT(60), <1>4, UnblockNear
    <2>2. Terminates' \subseteq stopped' BY ZenonT(60), <1>0, <1>1, <2>1
    <2>3. WorkerInv' BY ZenonT(60), <1>0, <1>2, <2>1, <2>2, MovedInv
    <2>4. StepOf(c) /\ Counted(c)
      BY ZenonT(60), <1>0, <1>1, <1>2, <2>1, ReadyKeeps
    <2> QED BY <2>3, <2>4 DEF Keeps
  <1> QED BY <1>3, <1>4
=============================================================================
