-------------------------- MODULE HrcWorkerSteps ---------------------------
(***************************************************************************)
(* The messages of the hierarchical scheduler and the steps of its         *)
(* threads: what each handler of MasterLoop does to the queue of ready     *)
(* tasks and to the requests that wait, and that the handlers of           *)
(* MasterLoop, WorkerLoop and WrapperLoop keep IInv of HrcWorkerInv.       *)
(***************************************************************************)
EXTENDS HrcWorkerInv, WellFoundedInduction, TLAPS

USE ZenonT(60), SMTT(60), SMTT(120)

----------------------------------------------------------------------------
(* Messages and mailboxes *)

(* The numbers of workers and wrappers: workers from 0 on, wrappers        *)
(* below.                                                                  *)
LEMMA CtxIs ==
  /\ \A w \in Workers : w \in Int /\ w >= 0 /\ w \notin Wrappers /\ w \in Ctx
  /\ \A c \in Wrappers : c \in Int /\ c < 0 /\ c \notin Workers /\ c \in Ctx
  /\ \A c \in Ctx : (c >= 0 <=> c \in Workers) /\ (c < 0 <=> c \in Wrappers)
  /\ NULL \notin Ctx /\ NULL \notin Tasks
  BY SMTT(60), SMTT(120), HrcAssumption DEF Workers, Ctx

(* A message is its type and its body. *)
LEMMA MsgIs ==
  /\ \A a, b : Msg(a, b).type = a /\ Msg(a, b).body = b
  /\ \A a, b, c, d : Msg(a, b) = Msg(c, d) <=> a = c /\ b = d
  BY DEF Msg

(* What a message in the mailbox of the master can be. *)
LEMMA MasterMessageIs ==
  ASSUME NEW x \in MasterMessages
  PROVE  /\ x = Msg(x.type, x.body)
         /\ \/ x.type \in {"ASSIGN", "RETURN", "WAKEUP"} /\ x.body \in Served
            \/ x.type = "REQUEST" /\ x.body \in Workers
            \/ x.type = "TERMINATE" /\ x.body = NULL
  BY SMTT(60), SMTT(120) DEF MasterMessages, Msg

(* The messages that are sent to the master. *)
LEMMA MasterMessageOf ==
  /\ \A t \in Served : \A y \in {"ASSIGN", "RETURN", "WAKEUP"} :
       Msg(y, t) \in MasterMessages
  /\ \A w \in Workers : Msg("REQUEST", w) \in MasterMessages
  /\ Msg("TERMINATE", NULL) \in MasterMessages
  BY DEF MasterMessages, Msg

(* What a message in the mailbox of a worker or a wrapper can be. *)
LEMMA MessageIs ==
  ASSUME NEW x \in Messages
  PROVE  /\ x = Msg(x.type, x.body)
         /\ \/ x.type \in {"ASSIGN", "WAKEUP"} /\ x.body \in Tasks
            \/ x.type = "TERMINATE" /\ x.body = NULL
  BY SMTT(60), SMTT(120) DEF Messages, Msg

(* The messages that are sent to a worker or a wrapper. *)
LEMMA MessageOf ==
  /\ \A t \in Tasks : \A y \in {"ASSIGN", "WAKEUP"} : Msg(y, t) \in Messages
  /\ Msg("TERMINATE", NULL) \in Messages
  BY DEF Messages, Msg

(* What Append does to a sequence of different elements. *)
LEMMA Appended ==
  ASSUME NEW S, NEW s \in Seq(S), NEW x \in S, Distinct(s), x \notin Range(s)
  PROVE  /\ Append(s, x) \in Seq(S) /\ Distinct(Append(s, x))
         /\ Range(Append(s, x)) = Range(s) \cup {x}
  <1>1. /\ Append(s, x) \in Seq(S) /\ DOMAIN Append(s, x) = 1 .. Len(s) + 1
        /\ DOMAIN s = 1 .. Len(s) /\ Len(s) \in Nat
        /\ \A i \in 1 .. Len(s) : Append(s, x)[i] = s[i]
        /\ Append(s, x)[Len(s) + 1] = x
    BY SMTT(60), SMTT(120)
  <1>2. \A i \in 1 .. Len(s) : s[i] # x BY <1>1 DEF Range
  <1>3. Distinct(Append(s, x)) BY SMTT(60), SMTT(120), <1>1, <1>2 DEF Distinct
  <1>4. ASSUME NEW y \in Range(Append(s, x)) PROVE y \in Range(s) \cup {x}
    BY SMTT(60), SMTT(120), <1>1 DEF Range
  <1>5. Range(s) \cup {x} \subseteq Range(Append(s, x))
    BY SMTT(60), SMTT(120), <1>1 DEF Range
  <1> QED BY <1>1, <1>3, <1>4, <1>5

(* What Tail does to it. *)
LEMMA Shortened ==
  ASSUME NEW S, NEW s \in Seq(S), s # <<>>, Distinct(s)
  PROVE  /\ Tail(s) \in Seq(S) /\ Distinct(Tail(s))
         /\ Head(s) \in Range(s) /\ Head(s) \in S
         /\ Range(Tail(s)) = Range(s) \ {Head(s)}
  <1>1. /\ Tail(s) \in Seq(S) /\ DOMAIN Tail(s) = 1 .. Len(s) - 1
        /\ DOMAIN s = 1 .. Len(s) /\ Len(s) \in Nat \ {0}
        /\ \A i \in 1 .. Len(s) - 1 : Tail(s)[i] = s[i + 1]
        /\ Head(s) = s[1] /\ s[1] \in S
    BY SMTT(60), SMTT(120)
  <1>2. 1 \in DOMAIN s /\ \A i \in 1 .. Len(s) - 1 : i + 1 \in DOMAIN s
    BY SMTT(60), SMTT(120), <1>1
  <1>3. Distinct(Tail(s))
    <2> SUFFICES ASSUME NEW i \in 1 .. Len(s) - 1, NEW j \in 1 .. Len(s) - 1,
                        s[i + 1] = s[j + 1]
                 PROVE  i = j
      BY <1>1 DEF Distinct
    <2>1. i + 1 = j + 1 BY <1>2 DEF Distinct
    <2> QED BY SMTT(60), SMTT(120), <2>1
  <1>4. Head(s) \in Range(s) BY <1>1, <1>2 DEF Range
  <1>5. ASSUME NEW y \in Range(Tail(s)) PROVE y \in Range(s) \ {Head(s)}
    <2>1. PICK i \in 1 .. Len(s) - 1 : y = s[i + 1] BY <1>1 DEF Range
    <2>2. i + 1 # 1 /\ i + 1 \in DOMAIN s BY SMTT(60), SMTT(120), <1>2
    <2>3. s[i + 1] # s[1] BY <1>2, <2>2 DEF Distinct
    <2> QED BY <1>1, <2>1, <2>2, <2>3 DEF Range
  <1>6. ASSUME NEW y \in Range(s), y # Head(s) PROVE y \in Range(Tail(s))
    <2>1. PICK k \in 1 .. Len(s) : y = s[k] BY <1>1 DEF Range
    <2>2. k - 1 \in 1 .. Len(s) - 1 /\ (k - 1) + 1 = k
      BY SMTT(60), SMTT(120), <1>1, <1>6, <2>1
    <2>3. Tail(s)[k - 1] = y BY <1>1, <2>1, <2>2
    <2> QED BY <1>1, <2>2, <2>3 DEF Range
  <1> QED BY <1>1, <1>3, <1>4, <1>5, <1>6

(* Sending x to c, and taking the first message of c. *)
Posted(mb, c, x) == [mb EXCEPT ![c] = Append(@, x)]
Taken(mb, c) == [mb EXCEPT ![c] = Tail(@)]

(* A new message in the mailbox of c. *)
LEMMA Post ==
  ASSUME NEW mb, BoxesOK(mb), NEW c \in Ctx, NEW x \in Messages,
         x \notin Range(mb[c])
  PROVE  LET n == Posted(mb, c, x)
         IN  /\ BoxesOK(n) /\ Range(n[c]) = Range(mb[c]) \cup {x}
             /\ \A d \in Ctx : d # c => n[d] = mb[d]
  <1>0. PICK n : n = Posted(mb, c, x) OBVIOUS
  <1>1. /\ mb \in [Ctx -> Seq(Messages)] /\ mb[c] \in Seq(Messages)
        /\ Distinct(mb[c])
    BY DEF BoxesOK
  <1>2. /\ Append(mb[c], x) \in Seq(Messages) /\ Distinct(Append(mb[c], x))
        /\ Range(Append(mb[c], x)) = Range(mb[c]) \cup {x}
    BY SMTT(60), SMTT(120), <1>1, Appended
  <1>3. n[c] = Append(mb[c], x) /\ \A d \in Ctx : d # c => n[d] = mb[d]
    BY <1>0, <1>1 DEF Posted
  <1>4. n \in [Ctx -> Seq(Messages)] BY <1>0, <1>1, <1>2 DEF Posted
  <1>5. \A d \in Ctx : Distinct(n[d]) BY <1>2, <1>3 DEF BoxesOK
  <1> QED BY <1>0, <1>2, <1>3, <1>4, <1>5 DEF BoxesOK

(* The first message of a mailbox is taken out. *)
LEMMA Take ==
  ASSUME NEW mb, BoxesOK(mb), NEW c \in Ctx, mb[c] # <<>>
  PROVE  LET n == Taken(mb, c)
         IN  /\ BoxesOK(n) /\ Range(n[c]) = Range(mb[c]) \ {Head(mb[c])}
             /\ Head(mb[c]) \in Range(mb[c]) /\ Head(mb[c]) \in Messages
             /\ \A d \in Ctx : d # c => n[d] = mb[d]
  <1>0. PICK n : n = Taken(mb, c) OBVIOUS
  <1>1. /\ mb \in [Ctx -> Seq(Messages)] /\ mb[c] \in Seq(Messages)
        /\ Distinct(mb[c])
    BY DEF BoxesOK
  <1>2. /\ Tail(mb[c]) \in Seq(Messages) /\ Distinct(Tail(mb[c]))
        /\ Head(mb[c]) \in Range(mb[c]) /\ Head(mb[c]) \in Messages
        /\ Range(Tail(mb[c])) = Range(mb[c]) \ {Head(mb[c])}
    BY <1>1, Shortened
  <1>3. n[c] = Tail(mb[c]) /\ \A d \in Ctx : d # c => n[d] = mb[d]
    BY <1>0, <1>1 DEF Taken
  <1>4. n \in [Ctx -> Seq(Messages)] BY <1>0, <1>1, <1>2 DEF Taken
  <1>5. \A d \in Ctx : Distinct(n[d]) BY <1>2, <1>3 DEF BoxesOK
  <1> QED BY <1>0, <1>2, <1>3, <1>4, <1>5 DEF BoxesOK

----------------------------------------------------------------------------
(* What a step leaves alone *)

(* u is where it was, and the master has the same to do with it. *)
SamePlace(m, M, n, N, u) ==
  /\ n.state[u] = m.state[u] /\ (u \in n.ready <=> u \in m.ready)
  /\ \A y \in {"ASSIGN", "RETURN"} : Msg(y, u) \in N <=> Msg(y, u) \in M
  /\ Holders(n, Msg("ASSIGN", u)) = Holders(m, Msg("ASSIGN", u))

Same(m, M, n, N, u) ==
  /\ SamePlace(m, M, n, N, u)
  /\ Msg("WAKEUP", u) \in N <=> Msg("WAKEUP", u) \in M

(* The threads that u is with stay where they are. *)
Still(u) ==
  /\ Ons(u)' = Ons(u)
  /\ \A c \in Ons(u) : pc'[c] = pc[c] /\ current_task'[c] = current_task[c]
  /\ worker_context'[u] = worker_context[u]

(* What becomes of u while LPEL runs. *)
Living(u) ==
  /\ (u \in freed' <=> u \in freed) /\ (u \in started' <=> u \in started)
  /\ (mpc' = "clean" <=> mpc = "clean")

(* The streams have the same to do with it. *)
Kept(u) == park'[u] = park[u] /\ wakenup'[u] = wakenup[u] /\ Living(u)

(* A task stays where it is when nothing about its place changes. *)
LEMMA LocatedFrame ==
  ASSUME NEW m, NEW M, NEW n, NEW N, NEW u, Located(m, M, u),
         SamePlace(m, M, n, N, u), Still(u), Living(u)
  PROVE  Located(n, N, u)'
  <1>0. \A a, r, g, o : At(m, M, u, a, r, g, o) => At(n, N, u, a, r, g, o)'
    BY DEF SamePlace, Still, At
  <1>1. /\ n.state[u] = m.state[u] /\ (u \in freed' <=> u \in freed)
        /\ (u \in started' <=> u \in started)
        /\ (mpc' = "clean" <=> mpc = "clean")
    BY DEF SamePlace, Living
  <1>2. ASSUME NEW c \in Workers, At(m, M, u, FALSE, FALSE, {}, {c})
        PROVE  /\ At(n, N, u, FALSE, FALSE, {}, {c})' /\ pc'[c] = pc[c]
               /\ current_task'[c] = current_task[c]
               /\ worker_context'[u] = worker_context[u]
    BY <1>0, <1>2 DEF At, Still
  <1>3. At(m, M, u, u \in started, FALSE, {}, {}) =>
          At(n, N, u, u \in started, FALSE, {}, {})'
    BY <1>1 DEF SamePlace, Still, At
  <1>4. CASE m.state[u] = "CREATED"
    BY <1>0, <1>1, <1>3, <1>4 DEF Located
  <1>5. CASE m.state[u] \in {"INQUEUE", "RETURNED"}
    BY <1>0, <1>1, <1>5 DEF Located
  <1>6. CASE m.state[u] = "RUNNING"
    BY <1>1, <1>2, <1>6 DEF Located
  <1>7. CASE m.state[u] \in {"READY", "BLOCKED", "ZOMBIE"}
    <2>1. CASE /\ m.state[u] = "READY" /\ u \in started \ freed
               /\ \E c \in Workers : At(m, M, u, FALSE, FALSE, {c}, {})
      BY <1>0, <1>1, <2>1 DEF Located
    <2>2. CASE /\ u \in started \ freed
               /\ \E c \in Workers : At(m, M, u, FALSE, FALSE, {}, {c}) /\ pc[c] = "back"
      <3>1. \E c \in Workers : At(n, N, u, FALSE, FALSE, {}, {c})' /\ pc'[c] = "back"
        BY <1>2, <2>2
      <3> QED BY <1>1, <1>7, <2>2, <3>1 DEF Located
    <2>3. CASE u \in started \ freed /\ At(m, M, u, FALSE, TRUE, {}, {})
      BY <1>0, <1>1, <1>7, <2>3 DEF Located
    <2>4. CASE /\ u \in started \cap freed /\ At(m, M, u, FALSE, FALSE, {}, {})
               /\ m.state[u] = "ZOMBIE" \/ mpc = "clean"
      BY <1>0, <1>1, <1>7, <2>4 DEF Located
    <2> QED BY <1>7, <2>1, <2>2, <2>3, <2>4 DEF Located
  <1> QED BY <1>4, <1>5, <1>6, <1>7 DEF Located

(* What holds of a task goes on to hold when its place and state stay. *)
LEMMA TaskFrame ==
  ASSUME NEW m, NEW M, NEW n, NEW N, NEW u, TaskInv(m, M, u),
         Same(m, M, n, N, u), Still(u), Kept(u)
  PROVE  TaskInv(n, N, u)'
  <1>1. Located(n, N, u)' BY LocatedFrame DEF TaskInv, Same, Kept
  <1>2. Parked(n, N, u)' BY DEF TaskInv, Parked, Same, SamePlace, Kept, Living
  <1> QED BY <1>1, <1>2 DEF TaskInv, Still

(* The master does not start again. *)
Going ==
  /\ mpc' = "clean" <=> mpc = "clean"
  /\ mpc' \in {"loop", "bcast"} => mpc \in {"loop", "bcast"}

(* The master has the same to do with w. *)
SameWorker(m, M, n, N, w) ==
  /\ Msg("REQUEST", w) \in N <=> Msg("REQUEST", w) \in M
  /\ w \in n.wait <=> w \in m.wait
  /\ n.mb[w] = m.mb[w]

(* What holds of a worker goes on to hold when its requests and its task   *)
(* stay.                                                                   *)
LEMMA WorkerFrame ==
  ASSUME NEW m, NEW M, NEW n, NEW N, NEW w, WorkerInv(m, M, w),
         SameWorker(m, M, n, N, w), pc'[w] = pc[w], on'[w] = on[w],
         Going
  PROVE  WorkerInv(n, N, w)'
  BY DEF WorkerInv, SameWorker, Asks, Given, Going

(* A task of a wrapper and its wrapper. *)
LEMMA WrappedFrame ==
  ASSUME NEW m, NEW n, NEW t, WrappedInv(m, t), n.state[t] = m.state[t],
         park'[t] = park[t], t \in started' <=> t \in started,
         t \in freed' <=> t \in freed, worker_context'[t] = worker_context[t],
         LET c == worker_context[t]
         IN  t \in started \ freed /\ c \in Wrappers =>
               /\ n.mb[c] = m.mb[c] /\ pc'[c] = pc[c] /\ on'[c] = on[c]
               /\ current_task'[c] = current_task[c]
  PROVE  WrappedInv(n, t)'
  BY DEF WrappedInv, AtWrapper, Wraps, Woken

(* What holds of a wrapper goes on to hold when its mailbox and its task   *)
(* stay.                                                                   *)
LEMMA WrapperFrame ==
  ASSUME NEW m, NEW n, NEW c \in Wrappers, WrapperInv(m, c),
         \A t \in Tasks : Owns(c, t)' <=> Owns(c, t),
         n.mb[c] = m.mb[c], pc'[c] = pc[c], on'[c] = on[c],
         UNCHANGED <<unused, freewrappers>>
  PROVE  WrapperInv(n, c)'
  BY DEF WrapperInv

(* A step that the wrappers have no part in. *)
NoWrapper(m, n) ==
  /\ \A c \in Wrappers :
       /\ n.mb[c] = m.mb[c] /\ pc'[c] = pc[c] /\ on'[c] = on[c]
       /\ current_task'[c] = current_task[c]
  /\ \A t \in Wrapped :
       /\ n.state[t] = m.state[t] /\ park'[t] = park[t]
       /\ worker_context'[t] = worker_context[t]
       /\ (t \in freed' <=> t \in freed) /\ (t \in started' <=> t \in started)
  /\ UNCHANGED <<unused, freewrappers>>

(* A step that touches no wrapper is right if it is for each task and      *)
(* worker.                                                                 *)
LEMMA ServedKeeps ==
  ASSUME NEW m, NEW M, NEW n, NEW N, MasterInv(m, M), NoWrapper(m, n),
         n \in MasterStates, BoxesOK(n.mb),
         \A u \in Served : TaskInv(n, N, u)',
         \A w \in Workers : WorkerInv(n, N, w)'
  PROVE  MasterInv(n, N)'
  <1>1. ASSUME NEW t \in Wrapped PROVE WrappedInv(n, t)'
    BY <1>1, WrappedFrame DEF MasterInv, NoWrapper
  <1>2. ASSUME NEW c \in Wrappers PROVE WrapperInv(n, c)'
    <2>1. \A t \in Tasks : Owns(c, t)' <=> Owns(c, t) BY DEF NoWrapper, Owns
    <2> QED BY <1>2, <2>1, WrapperFrame DEF MasterInv, NoWrapper
  <1> QED BY <1>1, <1>2 DEF MasterInv

(* A step of wrapper c and its task t. *)
LEMMA WrapperKeeps ==
  ASSUME NEW m, NEW M, NEW n, NEW N, MasterInv(m, M),
         n \in MasterStates, BoxesOK(n.mb),
         NEW c \in Wrappers, NEW t \in Wrapped,
         \A u \in Served : Same(m, M, n, N, u) /\ Still(u) /\ Kept(u),
         \A w \in Workers :
           SameWorker(m, M, n, N, w) /\ pc'[w] = pc[w] /\ on'[w] = on[w],
         Going,
         \A u \in Wrapped \ {t} :
           /\ n.state[u] = m.state[u] /\ park'[u] = park[u]
           /\ worker_context'[u] = worker_context[u]
           /\ (u \in freed' <=> u \in freed) /\ (u \in started' <=> u \in started)
           /\ ~Owns(c, u),
         \A d \in Wrappers \ {c} :
           /\ n.mb[d] = m.mb[d] /\ pc'[d] = pc[d] /\ on'[d] = on[d]
           /\ current_task'[d] = current_task[d] /\ (Owns(d, t)' <=> Owns(d, t))
           /\ d \in (unused \cup Range(freewrappers))' =>
                d \in unused \cup Range(freewrappers),
         WrappedInv(n, t)', WrapperInv(n, c)'
  PROVE  MasterInv(n, N)'
  <1>1. ASSUME NEW u \in Served PROVE TaskInv(n, N, u)'
    BY <1>1, TaskFrame DEF MasterInv
  <1>2. ASSUME NEW w \in Workers PROVE WorkerInv(n, N, w)'
    BY <1>2, WorkerFrame DEF MasterInv
  <1>3. ASSUME NEW u \in Wrapped PROVE WrappedInv(n, u)'
    <2>1. CASE u = t BY <2>1
    <2>2. CASE u # t
      <3>1. u \in started \ freed /\ worker_context[u] \in Wrappers =>
              worker_context[u] # c
        BY <1>3, <2>2 DEF Owns
      <3> QED
        BY SMTT(60), SMTT(120), <1>3, <2>2, <3>1, WrappedFrame DEF MasterInv
    <2> QED BY <2>1, <2>2
  <1>4. ASSUME NEW d \in Wrappers PROVE WrapperInv(n, d)'
    <2>1. CASE d = c BY <2>1
    <2>2. CASE d # c
      <3>1. WrapperInv(m, d) BY <1>4 DEF MasterInv
      <3>2. \A u \in Tasks : Owns(d, u)' <=> Owns(d, u)
        BY SMTT(60), SMTT(120), <1>4, <2>2 DEF Owns
      <3> QED BY <1>4, <2>2, <3>1, <3>2 DEF WrapperInv
    <2> QED BY <2>1, <2>2
  <1> QED BY <1>1, <1>2, <1>3, <1>4 DEF MasterInv


----------------------------------------------------------------------------
(* What the operators of the master give *)

Below == {ss \in Nat \X Nat : ss[1] < ss[2]}

(* waitworkers has a first worker. *)
LEMMA First ==
  ASSUME NEW S \in SUBSET Workers, S # {}
  PROVE  (CHOOSE v \in S : \A u \in S : v <= u) \in S
  <1>1. IsWellFoundedOn(Below, Nat)
    BY NatLessThanWellFounded DEF OpToRel, Below
  <1>2. S \in SUBSET Nat
    BY SMTT(60), SMTT(120), CtxIs, HrcAssumption DEF Workers
  <1>3. PICK x \in S : \A y \in S : ~ (<<y, x>> \in Below)
    BY <1>1, <1>2, WFMin
  <1>4. ASSUME NEW y \in S PROVE x <= y
    <2>1. x \in Nat /\ y \in Nat /\ ~ (<<y, x>> \in Below) BY <1>2, <1>3
    <2>2. ~ (y < x) BY <2>1 DEF Below
    <2> QED BY SMTT(60), SMTT(120), <2>1, <2>2
  <1> QED BY <1>4

(* The types of the fields of the master's state. *)
LEMMA FieldsAre ==
  ASSUME NEW m \in MasterStates
  PROVE  /\ m.ready \in SUBSET Served /\ m.wait \in SUBSET Workers
         /\ m.mb \in [Ctx -> Seq(Messages)] /\ m.state \in [Tasks -> States]
         /\ m.valid \in [Tasks -> BOOLEAN]
  BY DEF MasterStates

Rec(a, b, c, d, e) ==
  [ready |-> a, wait |-> b, mb |-> c, state |-> d, valid |-> e]

(* A record with fields of these types is a state of the master. *)
LEMMA RecIs ==
  ASSUME NEW a \in SUBSET Served, NEW b \in SUBSET Workers,
         NEW c \in [Ctx -> Seq(Messages)], NEW d \in [Tasks -> States],
         NEW e \in [Tasks -> BOOLEAN]
  PROVE  LET n == Rec(a, b, c, d, e)
         IN  /\ n \in MasterStates /\ n.ready = a /\ n.wait = b /\ n.mb = c
             /\ n.state = d /\ n.valid = e
  BY DEF MasterStates, Rec

(* The record of which all fields are given. *)
LEMMA RecordOf ==
  ASSUME NEW m \in MasterStates
  PROVE  m = Rec(m.ready, m.wait, m.mb, m.state, m.valid)
  BY DEF MasterStates, Rec

(* The state that a handler gives is the state after its step. *)
LEMMA BecomeIs ==
  ASSUME NEW n \in MasterStates, Become(n)
  PROVE  n = MasterState'
  BY RecordOf DEF Rec, Become, MasterState

(* t is sent to w. *)
Sends(m, n, w, t) ==
  /\ n \in MasterStates /\ n.ready = m.ready \ {t} /\ n.wait = m.wait \ {w}
  /\ n.mb = [m.mb EXCEPT ![w] = Append(@, Msg("ASSIGN", t))]
  /\ n.state = [m.state EXCEPT ![t] = "READY"]

(* t is queued. *)
Queues(m, n, t) ==
  /\ n \in MasterStates /\ n.ready = m.ready \cup {t} /\ n.wait = m.wait
  /\ n.mb = m.mb /\ n.state = [m.state EXCEPT ![t] = "INQUEUE"]

(* Only whether tasks are valid is looked at. *)
Revalues(m, n) ==
  /\ n \in MasterStates /\ n.ready = m.ready /\ n.wait = m.wait
  /\ n.mb = m.mb /\ n.state = m.state

(* sendTask: the task is READY and its assignment is in the worker's       *)
(* mailbox.                                                                *)
LEMMA SendIs ==
  ASSUME NEW m \in MasterStates, NEW w \in Workers, NEW t \in Served, NEW n,
         n = SendTask(m, w, t)
  PROVE  /\ n \in MasterStates /\ n.ready = m.ready /\ n.wait = m.wait
         /\ n.mb = [m.mb EXCEPT ![w] = Append(@, Msg("ASSIGN", t))]
         /\ n.state = [m.state EXCEPT ![t] = "READY"] /\ n.valid = m.valid
  <1>1. PICK b : b = [m.mb EXCEPT ![w] = Append(@, Msg("ASSIGN", t))] OBVIOUS
  <1>2. PICK s : s = [m.state EXCEPT ![t] = "READY"] OBVIOUS
  <1>3. n = Rec(m.ready, m.wait, b, s, m.valid)
    BY <1>1, <1>2 DEF SendTask, Rec, MasterStates
  <1>4. Append(m.mb[w], Msg("ASSIGN", t)) \in Seq(Messages)
    <2>1. m.mb[w] \in Seq(Messages) /\ Msg("ASSIGN", t) \in Messages
      BY FieldsAre, MessageOf, CtxIs DEF Served
    <2> QED BY SMTT(60), SMTT(120), <2>1
  <1>5. b \in [Ctx -> Seq(Messages)] BY <1>1, <1>4, FieldsAre
  <1>6. s \in [Tasks -> States] BY <1>2, FieldsAre DEF States
  <1>7. /\ n \in MasterStates /\ n.ready = m.ready /\ n.wait = m.wait
        /\ n.mb = b /\ n.state = s /\ n.valid = m.valid
    BY SMTT(60), SMTT(120), <1>3, <1>5, <1>6, FieldsAre, RecIs
  <1> QED BY <1>1, <1>2, <1>7

(* The same, to a worker that has waited. *)
Serves(m, n, w, t) ==
  /\ n \in MasterStates /\ n.ready = m.ready /\ n.wait = m.wait \ {w}
  /\ n.mb = [m.mb EXCEPT ![w] = Append(@, Msg("ASSIGN", t))]
  /\ n.state = [m.state EXCEPT ![t] = "READY"] /\ n.valid = m.valid

(* servePendingReq: the task goes to a worker that waits, which waits no   *)
(* more.                                                                   *)
LEMMA ServeIs ==
  ASSUME NEW m \in MasterStates, m.wait # {}, NEW t \in Served
  PROVE  \E w \in m.wait : Serves(m, servePendingReq(m, t), w, t)
  <1>0. PICK n : n = servePendingReq(m, t) OBVIOUS
  <1>1. PICK w \in m.wait : w = CHOOSE v \in m.wait : \A u \in m.wait : v <= u
    BY FieldsAre, First
  <1>2. PICK k : k = [m EXCEPT !.wait = @ \ {w}] OBVIOUS
  <1>3. k = Rec(m.ready, m.wait \ {w}, m.mb, m.state, m.valid)
    BY <1>2 DEF MasterStates, Rec
  <1>4. /\ k \in MasterStates /\ k.ready = m.ready /\ k.wait = m.wait \ {w}
        /\ k.mb = m.mb /\ k.state = m.state /\ k.valid = m.valid
    BY SMTT(60), SMTT(120), <1>3, FieldsAre, RecIs
  <1>5. n = SendTask(k, w, t) BY <1>0, <1>1, <1>2 DEF servePendingReq
  <1>6. w \in Workers BY FieldsAre
  <1>7. /\ n \in MasterStates /\ n.ready = k.ready /\ n.wait = k.wait
        /\ n.mb = [k.mb EXCEPT ![w] = Append(@, Msg("ASSIGN", t))]
        /\ n.state = [k.state EXCEPT ![t] = "READY"] /\ n.valid = k.valid
    BY SMTT(60), SMTT(120), <1>4, <1>5, <1>6, SendIs
  <1> QED BY <1>0, <1>4, <1>7 DEF Serves

(* LpelTaskqueueOccupyTask: the task leaves the queue and nothing else     *)
(* changes.                                                                *)
LEMMA OccupyIs ==
  ASSUME NEW m \in MasterStates, NEW t, NEW n, n = LpelTaskqueueOccupyTask(m, t)
  PROVE  /\ n \in MasterStates /\ n.ready = m.ready \ {t} /\ n.wait = m.wait
         /\ n.mb = m.mb /\ n.state = m.state /\ n.valid = m.valid
  <1>1. n = Rec(m.ready \ {t}, m.wait, m.mb, m.state, m.valid)
    BY DEF LpelTaskqueueOccupyTask, Rec, MasterStates
  <1> QED BY SMTT(60), SMTT(120), <1>1, FieldsAre, RecIs

(* LpelTaskqueuePush: the task is READY in the queue. *)
LEMMA PushIs ==
  ASSUME NEW m \in MasterStates, NEW t \in Served, NEW n,
         n = LpelTaskqueuePush(m, t)
  PROVE  Queues(m, n, t) /\ n.valid = m.valid
  <1>1. PICK s : s = [m.state EXCEPT ![t] = "INQUEUE"] OBVIOUS
  <1>2. n = Rec(m.ready \cup {t}, m.wait, m.mb, s, m.valid)
    BY <1>1 DEF LpelTaskqueuePush, Rec, MasterStates
  <1>3. s \in [Tasks -> States] BY <1>1, FieldsAre DEF States
  <1> QED BY SMTT(60), SMTT(120), <1>1, <1>2, <1>3, FieldsAre, RecIs DEF Queues

(* LpelTaskUpdateValid: only flags of validity change. *)
LEMMA UpdateIs ==
  ASSUME NEW m \in MasterStates, NEW S, NEW n, n = LpelTaskUpdateValid(m, S)
  PROVE  /\ Revalues(m, n)
         /\ \A t \in Tasks :
              n.valid[t] = IF t \in S \cap Entry THEN t \notin over ELSE m.valid[t]
  <1>1. PICK v : v = [t \in Tasks |-> IF t \in S \cap Entry THEN t \notin over
                                      ELSE m.valid[t]]
    OBVIOUS
  <1>2. n = Rec(m.ready, m.wait, m.mb, m.state, v)
    BY <1>1 DEF LpelTaskUpdateValid, Rec, MasterStates
  <1>3. v \in [Tasks -> BOOLEAN] BY <1>1, FieldsAre
  <1>4. Revalues(m, n) /\ n.valid = v
    BY SMTT(60), SMTT(120), <1>2, <1>3, FieldsAre, RecIs DEF Revalues
  <1> QED BY <1>1, <1>4

----------------------------------------------------------------------------
(* The master sends and queues tasks *)

(* The invariant but for the tasks in T and the workers in W, which the    *)
(* master has at hand.                                                     *)
But(m, M, T, W) ==
  /\ m \in MasterStates /\ BoxesOK(m.mb)
  /\ \A t \in Served \ T : TaskInv(m, M, t)
  /\ \A w \in Workers \ W : WorkerInv(m, M, w)
  /\ \A t \in Wrapped : WrappedInv(m, t)
  /\ \A c \in Wrappers : WrapperInv(m, c)

(* A task that the master may send or queue. *)
Hand(m, M, t) ==
  /\ t \in started \ freed /\ park[t] # "parking" /\ ~wakenup[t]
  /\ worker_context[t] \in Workers \cup {NULL}
  /\ \A y \in {"ASSIGN", "RETURN", "WAKEUP"} : Msg(y, t) \notin M
  /\ Holders(m, Msg("ASSIGN", t)) = {} /\ Ons(t) = {}

(* A worker that it may send one to. *)
Free(m, M, w) ==
  /\ pc[w] \in {"recv", "back", "exit"} /\ Msg("REQUEST", w) \notin M
  /\ Given(m, w) = {} /\ (on[w] = NULL <=> pc[w] \notin {"run", "back"})
  /\ on[w] \notin Wrapped /\ \A t \in Tasks : Msg("WAKEUP", t) \notin Range(m.mb[w])
  /\ mpc \in {"loop", "bcast"} => Msg("TERMINATE", NULL) \notin Range(m.mb[w])

(* What holds of a task holds in any state of the master with the same     *)
(* place for it.                                                           *)
LEMMA SameTask ==
  ASSUME NEW m, NEW M, NEW n, NEW N, NEW u, TaskInv(m, M, u), Same(m, M, n, N, u)
  PROVE  TaskInv(n, N, u)
  <1>1. \A a, r, g, o : At(m, M, u, a, r, g, o) <=> At(n, N, u, a, r, g, o)
    BY DEF Same, SamePlace, At
  <1>2. n.state[u] = m.state[u] BY DEF Same, SamePlace
  <1>3. Located(m, M, u) => Located(n, N, u) BY <1>1, <1>2 DEF Located
  <1>4. Parked(n, N, u) BY DEF TaskInv, Parked, Same, SamePlace
  <1> QED BY <1>3, <1>4 DEF TaskInv

(* A step of the master that leaves alone all tasks but T and all workers  *)
(* but W.                                                                  *)
LEMMA ButFrame ==
  ASSUME NEW m, NEW M, NEW n, NEW T, NEW W, But(m, M, T, W),
         n \in MasterStates, BoxesOK(n.mb),
         \A u \in Served \ T : Same(m, M, n, M, u),
         \A w \in Workers \ W : SameWorker(m, M, n, M, w),
         \A c \in Wrappers : n.mb[c] = m.mb[c],
         \A t \in Wrapped : n.state[t] = m.state[t]
  PROVE  But(n, M, T, W)
  <1>1. ASSUME NEW u \in Served \ T PROVE TaskInv(n, M, u)
    BY <1>1, SameTask DEF But
  <1>2. ASSUME NEW w \in Workers \ W PROVE WorkerInv(n, M, w)
    <2>1. WorkerInv(m, M, w) /\ SameWorker(m, M, n, M, w) BY DEF But
    <2> QED BY <2>1 DEF WorkerInv, SameWorker, Asks, Given
  <1>3. ASSUME NEW t \in Wrapped PROVE WrappedInv(n, t)
    <2>1. /\ WrappedInv(m, t) /\ n.state[t] = m.state[t]
          /\ worker_context[t] \in Wrappers =>
               n.mb[worker_context[t]] = m.mb[worker_context[t]]
      BY DEF But
    <2> QED BY <2>1 DEF WrappedInv, AtWrapper, Wraps
  <1>4. ASSUME NEW c \in Wrappers PROVE WrapperInv(n, c)
    <2>1. WrapperInv(m, c) /\ n.mb[c] = m.mb[c] BY DEF But
    <2> QED BY <2>1 DEF WrapperInv
  <1> QED BY <1>1, <1>2, <1>3, <1>4 DEF But

(* What a task and a worker that are not at hand are. *)
LEMMA ButLess ==
  ASSUME NEW m, NEW M, NEW T, NEW W, But(m, M, T, W)
  PROVE  /\ \A t : But(m, M, T \cup {t}, W)
         /\ \A t, w : But(m, M, T \cup {t}, W \cup {w})
  BY DEF But

(* A task and a worker that are right again leave the exceptions. *)
LEMMA ButMore ==
  ASSUME NEW m, NEW M, NEW T, NEW W, NEW t, NEW w, But(m, M, T \cup {t}, W \cup {w}),
         TaskInv(m, M, t), WorkerInv(m, M, w)
  PROVE  But(m, M, T \ {t}, W \ {w})
  BY DEF But

(* A task in hand and a free worker are both right after the task is sent  *)
(* to it.                                                                  *)
LEMMA SendKeeps ==
  ASSUME NEW m, NEW M, NEW T, NEW W, But(m, M, T, W), NEW t \in Served,
         NEW w \in Workers, Hand(m, M, t), Free(m, M, w), NEW n, Sends(m, n, w, t)
  PROVE  /\ But(n, M, T \ {t}, W \ {w})
         /\ \A u \in Served \ {t} : Same(m, M, n, M, u)
  <1>0. m \in MasterStates /\ n \in MasterStates /\ w \in Ctx /\ t \in Tasks
    BY CtxIs DEF But, Sends, Served
  <1>1. /\ BoxesOK(n.mb) /\ Range(n.mb[w]) = Range(m.mb[w]) \cup {Msg("ASSIGN", t)}
        /\ \A d \in Ctx : d # w => n.mb[d] = m.mb[d]
    <2>1. PICK b, d, x : b = m.mb /\ d = n.mb /\ x = Msg("ASSIGN", t) OBVIOUS
    <2>2. /\ BoxesOK(b) /\ x \in Messages BY <1>0, <2>1, MessageOf DEF But
    <2>4. x \notin Range(b[w]) BY <1>0, <2>1 DEF Hand, Holders
    <2>5. d = Posted(b, w, x) BY <2>1 DEF Sends, Posted
    <2>3. /\ BoxesOK(d) /\ Range(d[w]) = Range(b[w]) \cup {x}
          /\ \A c \in Ctx : c # w => d[c] = b[c]
      BY SMTT(60), SMTT(120), <1>0, <2>2, <2>4, <2>5, Post
    <2> QED BY <2>1, <2>3
  <1>2. /\ n.state[t] = "READY" /\ t \notin n.ready
        /\ \A u \in Tasks \ {t} :
             n.state[u] = m.state[u] /\ (u \in n.ready <=> u \in m.ready)
    BY <1>0, FieldsAre DEF Sends
  <1>3. ASSUME NEW u \in Served \ {t} PROVE Same(m, M, n, M, u)
    <2>1. u \in Tasks /\ u # t BY DEF Served
    <2>2. Msg("ASSIGN", u) # Msg("ASSIGN", t)
      BY SMTT(60), SMTT(120), <2>1, MsgIs
    <2>3. \A c \in Ctx : Msg("ASSIGN", u) \in Range(n.mb[c])
                         <=> Msg("ASSIGN", u) \in Range(m.mb[c])
      BY <1>1, <2>2
    <2> QED BY <1>2, <2>1, <2>3 DEF Same, SamePlace, Holders
  <1>4. TaskInv(n, M, t)
    <2>1. Holders(n, Msg("ASSIGN", t)) = {w}
      BY <1>0, <1>1 DEF Hand, Holders
    <2>2. At(n, M, t, FALSE, FALSE, {w}, {}) BY <1>2, <2>1 DEF At, Hand
    <2>3. Located(n, M, t) BY <1>2, <2>2 DEF Located, Hand
    <2>4. Parked(n, M, t) BY <1>2 DEF Parked, Hand
    <2> QED BY <2>3, <2>4 DEF TaskInv, Hand
  <1>5. ASSUME NEW v \in Workers \ {w} PROVE SameWorker(m, M, n, M, v)
    BY <1>1, CtxIs DEF SameWorker, Sends
  <1>6. WorkerInv(n, M, w)
    <2>1. Given(n, w) = {t}
      BY SMTT(60), SMTT(120), <1>0, <1>1, MsgIs DEF Given, Free
    <2>2. Asks(n, M, w, FALSE, FALSE, {t}) BY <2>1 DEF Asks, Free, Sends
    <2>3. /\ \A u \in Tasks : Msg("WAKEUP", u) \notin Range(n.mb[w])
          /\ mpc \in {"loop", "bcast"} => Msg("TERMINATE", NULL) \notin Range(n.mb[w])
      BY SMTT(60), SMTT(120), <1>1, MsgIs DEF Free
    <2> QED BY <2>1, <2>2, <2>3 DEF WorkerInv, Free
  <1>7. But(m, M, T \cup {t}, W \cup {w}) BY ButLess
  <1>8. But(n, M, T \cup {t}, W \cup {w})
    <2>1. \A c \in Wrappers : n.mb[c] = m.mb[c] BY <1>1, CtxIs
    <2>2. \A u \in Wrapped : n.state[u] = m.state[u]
      BY <1>2, HrcAssumption DEF Served
    <2> QED BY <1>0, <1>1, <1>3, <1>5, <1>7, <2>1, <2>2, ButFrame
  <1> QED BY <1>3, <1>4, <1>6, <1>8, ButMore

(* A task in hand is right after it is pushed to the queue. *)
LEMMA QueueKeeps ==
  ASSUME NEW m, NEW M, NEW t \in Served, But(m, M, {t}, {}), Hand(m, M, t),
         NEW n, Queues(m, n, t)
  PROVE  But(n, M, {}, {})
  <1>0. m \in MasterStates /\ n \in MasterStates /\ t \in Tasks /\ n.mb = m.mb
    BY DEF But, Queues, Served
  <1>1. /\ n.state[t] = "INQUEUE" /\ t \in n.ready
        /\ \A u \in Tasks \ {t} :
             n.state[u] = m.state[u] /\ (u \in n.ready <=> u \in m.ready)
    BY <1>0, FieldsAre DEF Queues
  <1>2. ASSUME NEW u \in Served \ {t} PROVE Same(m, M, n, M, u)
    BY <1>0, <1>1 DEF Same, SamePlace, Holders, Served
  <1>3. TaskInv(n, M, t)
    <2>1. At(n, M, t, FALSE, FALSE, {}, {})
      BY <1>0, <1>1 DEF At, Hand, Holders
    <2>2. Located(n, M, t) BY <1>1, <2>1 DEF Located, Hand
    <2>3. Parked(n, M, t) BY <1>1 DEF Parked, Hand
    <2> QED BY <2>2, <2>3 DEF TaskInv, Hand
  <1>4. But(n, M, {t}, {})
    <2>1. \A w \in Workers : SameWorker(m, M, n, M, w)
      BY <1>0 DEF SameWorker, Queues
    <2>2. \A u \in Wrapped : n.state[u] = m.state[u]
      BY <1>1, HrcAssumption DEF Served
    <2>3. BoxesOK(n.mb) BY <1>0 DEF But
    <2> QED BY <1>0, <1>2, <2>1, <2>2, <2>3, ButFrame
  <1> QED BY <1>3, <1>4 DEF But

----------------------------------------------------------------------------
(* The handlers of the master *)

(* t becomes ready: it is sent to a worker that waits, or queued. *)
Readied(m, n, t) == (\E w \in m.wait : Sends(m, n, w, t)) \/ Queues(m, n, t)

(* The request of w is kept. *)
Waits(m, n, w) ==
  /\ n \in MasterStates /\ n.ready = m.ready /\ n.wait = m.wait \cup {w}
  /\ n.mb = m.mb /\ n.state = m.state

(* Serving a waiting worker sends it the task, also when it is taken from  *)
(* the queue.                                                              *)
LEMMA ServeSends ==
  ASSUME NEW m \in MasterStates, m.wait # {}, NEW t \in Served
  PROVE  /\ t \notin m.ready => \E w \in m.wait :
              /\ Sends(m, servePendingReq(m, t), w, t)
              /\ servePendingReq(m, t).valid = m.valid
         /\ \E w \in m.wait :
              /\ Sends(m, LpelTaskqueueOccupyTask(servePendingReq(m, t), t), w, t)
              /\ LpelTaskqueueOccupyTask(servePendingReq(m, t), t).valid = m.valid
  <1>1. PICK n : n = servePendingReq(m, t) OBVIOUS
  <1>8. PICK w \in m.wait : Serves(m, n, w, t) BY <1>1, ServeIs
  <1>2. /\ n \in MasterStates /\ n.ready = m.ready /\ n.wait = m.wait \ {w}
        /\ n.mb = [m.mb EXCEPT ![w] = Append(@, Msg("ASSIGN", t))]
        /\ n.state = [m.state EXCEPT ![t] = "READY"] /\ n.valid = m.valid
    BY <1>8 DEF Serves
  <1>3. t \notin m.ready => n.ready = m.ready \ {t} BY <1>2
  <1>4. PICK k : k = LpelTaskqueueOccupyTask(n, t) OBVIOUS
  <1>5. /\ k \in MasterStates /\ k.ready = n.ready \ {t} /\ k.wait = n.wait
        /\ k.mb = n.mb /\ k.state = n.state /\ k.valid = n.valid
    BY SMTT(60), SMTT(120), <1>2, <1>4, OccupyIs
  <1>6. Sends(m, k, w, t) /\ k.valid = m.valid BY <1>2, <1>5 DEF Sends
  <1>7. t \notin m.ready => Sends(m, n, w, t) /\ n.valid = m.valid
    BY <1>2, <1>3 DEF Sends
  <1> QED BY <1>1, <1>4, <1>6, <1>7

(* The handler of ASSIGN sends the task to a waiting worker, or queues     *)
(* it.                                                                     *)
LEMMA AssignIs ==
  ASSUME NEW m \in MasterStates, NEW t \in Served, t \notin m.ready, NEW n,
         n = IF m.wait # {} THEN servePendingReq(m, t) ELSE LpelTaskqueuePush(m, t)
  PROVE  Readied(m, n, t)
  <1>1. CASE m.wait # {} BY <1>1, ServeSends DEF Readied
  <1>2. CASE m.wait = {} BY <1>2, PushIs DEF Readied
  <1> QED BY <1>1, <1>2

(* processTaskReady looks at the flags of validity, then sends or queues   *)
(* the task.                                                               *)
LEMMA ReadyIs ==
  ASSUME NEW m \in MasterStates, NEW t \in Served, t \notin m.ready, NEW n,
         n = processTaskReady(m, t)
  PROVE  \E u : Revalues(m, u) /\ Readied(u, n, t)
  <1>1. PICK u : u = LpelTaskUpdateValid(m, {t}) OBVIOUS
  <1>2. Revalues(m, u) BY <1>1, UpdateIs
  <1>3. u \in MasterStates /\ t \notin u.ready BY <1>2 DEF Revalues
  <1>4. n = IF u.valid[t] /\ u.wait # {} THEN servePendingReq(u, t)
                                        ELSE LpelTaskqueuePush(u, t)
    BY <1>1 DEF processTaskReady
  <1>5. CASE u.valid[t] /\ u.wait # {}
    BY <1>2, <1>3, <1>4, <1>5, ServeSends DEF Readied
  <1>6. CASE ~(u.valid[t] /\ u.wait # {})
    BY <1>2, <1>3, <1>4, <1>6, PushIs DEF Readied
  <1> QED BY <1>5, <1>6

(* LpelTaskqueuePeek gives a queued task, a valid one if there is any. *)
LEMMA PeekIs ==
  ASSUME NEW m
  PROVE  \A t \in LpelTaskqueuePeek(m) :
           t \in m.ready /\ (m.valid[t] \/ \A u \in m.ready : ~m.valid[u])
  BY DEF LpelTaskqueuePeek

(* processTaskReq lets the worker wait, or sends it a task of the queue. *)
LEMMA RequestAre ==
  ASSUME NEW m \in MasterStates, NEW w \in Workers, w \notin m.wait,
         NEW n \in processTaskReq(m, w)
  PROVE  Waits(m, n, w) \/ \E t \in m.ready : Sends(m, n, w, t)
  <1>1. ASSUME n = [m EXCEPT !.wait = @ \cup {w}] PROVE Waits(m, n, w)
    <2>1. n = Rec(m.ready, m.wait \cup {w}, m.mb, m.state, m.valid)
      BY <1>1 DEF Rec, MasterStates
    <2> QED BY SMTT(60), SMTT(120), <2>1, FieldsAre, RecIs DEF Waits
  <1>2. ASSUME NEW t \in m.ready,
               n = LpelTaskqueueOccupyTask(SendTask(m, w, t), t)
        PROVE  Sends(m, n, w, t)
    <2>1. PICK k : k = SendTask(m, w, t) OBVIOUS
    <2>2. t \in Served BY FieldsAre
    <2>3. /\ k \in MasterStates /\ k.ready = m.ready /\ k.wait = m.wait
          /\ k.mb = [m.mb EXCEPT ![w] = Append(@, Msg("ASSIGN", t))]
          /\ k.state = [m.state EXCEPT ![t] = "READY"]
      BY SMTT(60), SMTT(120), <2>1, <2>2, SendIs
    <2>4. /\ n \in MasterStates /\ n.ready = k.ready \ {t} /\ n.wait = k.wait
          /\ n.mb = k.mb /\ n.state = k.state
      BY SMTT(60), SMTT(120), <1>2, <2>1, <2>3, OccupyIs
    <2>5. m.wait = m.wait \ {w} OBVIOUS
    <2> QED BY <2>3, <2>4, <2>5 DEF Sends
  <1>3. CASE m.ready = {} BY <1>1, <1>3 DEF processTaskReq
  <1>4. CASE m.ready # {}
    <2>1. PICK t \in LpelTaskqueuePeek(m) :
            n = IF m.valid[t] THEN LpelTaskqueueOccupyTask(SendTask(m, w, t), t)
                              ELSE [m EXCEPT !.wait = @ \cup {w}]
      BY <1>4 DEF processTaskReq
    <2>2. t \in m.ready BY PeekIs
    <2>3. CASE m.valid[t] BY <1>2, <2>1, <2>2, <2>3
    <2>4. CASE ~m.valid[t] BY <1>1, <2>1, <2>4
    <2> QED BY <2>3, <2>4
  <1> QED BY <1>3, <1>4

(* updateNeighours changes flags of validity and may send one task to a    *)
(* waiting worker.                                                         *)
LEMMA NeighboursAre ==
  ASSUME NEW m \in MasterStates, NEW t, NEW n \in updateNeighours(m, t)
  PROVE  \E u : /\ Revalues(m, u)
                /\ n = u \/ \E w \in u.wait : \E top \in u.ready : Sends(u, n, w, top)
  <1>1. PICK u : u = LpelTaskUpdateValid(m, {e \in m.ready \cap Entry :
                                    Feeds[e] = t /\ state[t] # "ZOMBIE"})
    OBVIOUS
  <1>2. Revalues(m, u) BY <1>1, UpdateIs
  <1>3. CASE u.ready = {} \/ u.wait = {}
    <2>1. n = u BY <1>1, <1>3 DEF updateNeighours
    <2> QED BY <1>2, <2>1
  <1>4. CASE ~(u.ready = {} \/ u.wait = {})
    <2>1. PICK top \in LpelTaskqueuePeek(u) :
            n = IF u.valid[top]
                THEN LpelTaskqueueOccupyTask(servePendingReq(u, top), top) ELSE u
      BY <1>1, <1>4 DEF updateNeighours
    <2>2. u \in MasterStates /\ top \in u.ready BY <1>2, PeekIs DEF Revalues
    <2>3. top \in Served BY <2>2, FieldsAre
    <2>4. CASE u.valid[top]
      <3>1. \E w \in u.wait : Sends(u, n, w, top)
        BY <1>4, <2>1, <2>2, <2>3, <2>4, ServeSends
      <3> QED BY <1>2, <2>2, <3>1
    <2>5. CASE ~u.valid[top] BY <1>2, <2>1, <2>5
    <2> QED BY <2>4, <2>5
  <1> QED BY <1>3, <1>4

(* Changes of validity alone disturb nothing. *)
LEMMA RevalueKeeps ==
  ASSUME NEW m, NEW M, NEW T, NEW W, But(m, M, T, W), NEW n, Revalues(m, n)
  PROVE  But(n, M, T, W) /\ \A u : Same(m, M, n, M, u)
  <1>1. \A u : Same(m, M, n, M, u) BY DEF Same, SamePlace, Revalues, Holders
  <1>2. \A w : SameWorker(m, M, n, M, w) BY DEF SameWorker, Revalues
  <1>3. n \in MasterStates /\ BoxesOK(n.mb) BY DEF Revalues, But
  <1> QED BY <1>1, <1>2, <1>3, ButFrame DEF Revalues

(* A task of the queue is free to be given away. *)
LEMMA QueuedHand ==
  ASSUME NEW m, NEW M, NEW t, TaskInv(m, M, t), t \in m.ready
  PROVE  Hand(m, M, t)
  <1>1. m.state[t] = "INQUEUE" BY DEF TaskInv, Located, At
  <1>2. t \in started \ freed /\ At(m, M, t, FALSE, FALSE, {}, {})
    BY <1>1 DEF TaskInv, Located
  <1>3. /\ park[t] # "parking" /\ ~wakenup[t] /\ Msg("WAKEUP", t) \notin M
        /\ worker_context[t] \in Workers \cup {NULL}
    BY <1>1 DEF TaskInv, Parked
  <1> QED BY <1>2, <1>3 DEF Hand, At

(* A worker that waits may be sent a task. *)
LEMMA WaitingFree ==
  ASSUME NEW m, NEW M, NEW w, WorkerInv(m, M, w), w \in m.wait, mpc # "clean",
         pc[w] \in {"start", "recv", "run", "back", "exit"}
  PROVE  Free(m, M, w)
  <1>1. pc[w] \in {"recv", "back", "exit"} BY DEF WorkerInv, Asks
  <1>2. Asks(m, M, w, FALSE, TRUE, {}) BY <1>1 DEF WorkerInv, Asks
  <1> QED BY <1>1, <1>2 DEF WorkerInv, Asks, Free

PcOK == \A w \in Workers : pc[w] \in {"start", "recv", "run", "back", "exit"}

(* updateNeighours, with t at hand. *)
NeighbourStm ==
  \A m, M, n, t :
    /\ But(m, M, {t}, {}) /\ t \in Served /\ t \notin m.ready
    /\ mpc # "clean" /\ PcOK
    /\ \E u : /\ Revalues(m, u)
              /\ n = u \/ \E w \in u.wait : \E top \in u.ready : Sends(u, n, w, top)
    => But(n, M, {t}, {}) /\ Same(m, M, n, M, t)

(* updateNeighours keeps what holds of tasks and workers. *)
LEMMA NeighbourKeeps == NeighbourStm
  <1> SUFFICES ASSUME NEW m, NEW M, NEW n, NEW t, But(m, M, {t}, {}), t \in Served,
                      t \notin m.ready, mpc # "clean", PcOK, NEW u, Revalues(m, u),
                      n = u \/ \E w \in u.wait : \E top \in u.ready :
                                 Sends(u, n, w, top)
               PROVE  But(n, M, {t}, {}) /\ Same(m, M, n, M, t)
    BY DEF NeighbourStm
  <1>1. But(u, M, {t}, {}) /\ Same(m, M, u, M, t) BY RevalueKeeps
  <1>2. CASE n = u BY <1>1, <1>2
  <1>3. ASSUME NEW w \in u.wait, NEW top \in u.ready, Sends(u, n, w, top)
        PROVE  But(n, M, {t}, {}) /\ Same(m, M, n, M, t)
    <2>1. u \in MasterStates BY DEF Revalues
    <2>2. top \in Served /\ w \in Workers /\ top # t
      BY <2>1, FieldsAre DEF Revalues
    <2>3. TaskInv(u, M, top) /\ WorkerInv(u, M, w) BY <1>1, <2>2 DEF But
    <2>4. Hand(u, M, top) BY <2>3, QueuedHand
    <2>5. Free(u, M, w) BY <2>2, <2>3, WaitingFree DEF PcOK
    <2>6. But(n, M, {t} \ {top}, {} \ {w}) /\ Same(u, M, n, M, t)
      BY <1>1, <1>3, <2>2, <2>4, <2>5, SendKeeps
    <2>7. {t} \ {top} = {t} /\ {} \ {w} = {} BY <2>2
    <2>8. Same(m, M, n, M, t) BY <1>1, <2>6 DEF Same, SamePlace
    <2> QED BY <2>6, <2>7, <2>8
  <1> QED BY <1>2, <1>3

(* processTaskReady, and the first time that a task is ready. *)
ReadyStm ==
  \A m, M, n, t :
    /\ But(m, M, {t}, {}) /\ t \in Served /\ Hand(m, M, t)
    /\ mpc # "clean" /\ PcOK /\ \E u : Revalues(m, u) /\ Readied(u, n, t)
    => n \in MasterStates /\ MasterInv(n, M)

(* processTaskReady makes the task in hand right. *)
LEMMA ReadyKeeps == ReadyStm
  <1> SUFFICES ASSUME NEW m, NEW M, NEW n, NEW t, But(m, M, {t}, {}), t \in Served,
                      Hand(m, M, t), mpc # "clean", PcOK, NEW u, Revalues(m, u),
                      Readied(u, n, t)
               PROVE  MasterInv(n, M)
    BY SMTT(60), SMTT(120) DEF ReadyStm, MasterInv
  <1>1. But(u, M, {t}, {}) BY RevalueKeeps
  <1>2. Hand(u, M, t) BY DEF Hand, Revalues, Holders
  <1>3. CASE Queues(u, n, t)
    <2>1. But(n, M, {}, {}) BY <1>1, <1>2, <1>3, QueueKeeps
    <2> QED BY <2>1 DEF But, MasterInv
  <1>4. ASSUME NEW w \in u.wait, Sends(u, n, w, t) PROVE MasterInv(n, M)
    <2>1. u \in MasterStates BY DEF Revalues
    <2>2. w \in Workers BY <2>1, FieldsAre
    <2>3. Free(u, M, w) BY <1>1, <2>2, WaitingFree DEF PcOK, But
    <2>4. But(n, M, {t} \ {t}, {} \ {w})
      BY <1>1, <1>2, <1>4, <2>2, <2>3, SendKeeps
    <2>5. {t} \ {t} = {} /\ {} \ {w} = {} OBVIOUS
    <2>6. But(n, M, {}, {}) BY <2>4, <2>5
    <2> QED BY <2>6 DEF But, MasterInv
  <1> QED BY <1>3, <1>4 DEF Readied

(* processTaskReq, with w at hand. *)
RequestStm ==
  \A m, M, n, w :
    /\ But(m, M, {}, {w}) /\ w \in Workers /\ Free(m, M, w)
    /\ Waits(m, n, w) \/ \E t \in m.ready : Sends(m, n, w, t)
    => MasterInv(n, M)

(* processTaskReq makes the worker that asked right. *)
LEMMA RequestKeeps == RequestStm
  <1> SUFFICES ASSUME NEW m, NEW M, NEW n, NEW w, But(m, M, {}, {w}), w \in Workers,
                      Free(m, M, w),
                      Waits(m, n, w) \/ \E t \in m.ready : Sends(m, n, w, t)
               PROVE  MasterInv(n, M)
    BY DEF RequestStm
  <1>1. CASE Waits(m, n, w)
    <2>1. \A u : Same(m, M, n, M, u) BY <1>1 DEF Same, SamePlace, Waits, Holders
    <2>2. \A v \in Workers \ {w} : SameWorker(m, M, n, M, v)
      BY <1>1 DEF SameWorker, Waits
    <2>3. n \in MasterStates /\ BoxesOK(n.mb) BY <1>1 DEF Waits, But
    <2>4. But(n, M, {}, {w}) BY <1>1, <2>1, <2>2, <2>3, ButFrame DEF Waits
    <2>5. n.mb = m.mb /\ w \in n.wait BY <1>1 DEF Waits
    <2>6. Asks(n, M, w, FALSE, TRUE, {}) BY <2>5 DEF Asks, Free, Given
    <2>7. WorkerInv(n, M, w) BY <2>5, <2>6 DEF WorkerInv, Free, Given
    <2> QED BY <2>4, <2>7 DEF But, MasterInv
  <1>2. ASSUME NEW t \in m.ready, Sends(m, n, w, t) PROVE MasterInv(n, M)
    <2>1. t \in Served BY FieldsAre DEF But
    <2>2. Hand(m, M, t) BY <2>1, QueuedHand DEF But
    <2>3. But(n, M, {} \ {t}, {w} \ {w}) BY <1>2, <2>1, <2>2, SendKeeps
    <2>4. {} \ {t} = {} /\ {w} \ {w} = {} OBVIOUS
    <2>5. But(n, M, {}, {}) BY <2>3, <2>4
    <2> QED BY <2>5 DEF But, MasterInv
  <1> QED BY <1>1, <1>2

(* The state of t, at hand, is set. *)
Sets(m, n, t) ==
  /\ n \in MasterStates /\ n.ready = m.ready /\ n.wait = m.wait /\ n.mb = m.mb
  /\ \A u \in Tasks : u # t => n.state[u] = m.state[u]

SetStm ==
  \A m, M, n, t : But(m, M, {t}, {}) /\ t \in Served /\ Sets(m, n, t)
                  => But(n, M, {t}, {})

(* A new state for the task in hand disturbs no other task and no worker. *)
LEMMA SetKeeps == SetStm
  <1> SUFFICES ASSUME NEW m, NEW M, NEW n, NEW t, But(m, M, {t}, {}), t \in Served,
                      Sets(m, n, t)
               PROVE  But(n, M, {t}, {})
    BY DEF SetStm
  <1>1. \A u \in Served \ {t} : Same(m, M, n, M, u)
    BY DEF Same, SamePlace, Sets, Holders, Served
  <1>2. \A w : SameWorker(m, M, n, M, w) BY DEF SameWorker, Sets
  <1>3. n \in MasterStates /\ BoxesOK(n.mb) BY DEF Sets, But
  <1>4. \A u \in Wrapped : n.state[u] = m.state[u]
    BY HrcAssumption DEF Sets, Served
  <1> QED BY <1>1, <1>2, <1>3, <1>4, ButFrame DEF Sets

(* The same in the next state. *)
LEMMA HandlersKeep == NeighbourStm' /\ ReadyStm' /\ RequestStm' /\ SetStm'
  BY NeighbourKeeps, ReadyKeeps, RequestKeeps, SetKeeps, PTL

----------------------------------------------------------------------------
(* Where a task is *)

(* A task whose ASSIGN is with the master is CREATED, and nowhere else. *)
LEMMA AtAssign ==
  ASSUME NEW m, NEW M, NEW t, TaskInv(m, M, t), Msg("ASSIGN", t) \in M
  PROVE  /\ m.state[t] = "CREATED" /\ t \in started \ freed
         /\ At(m, M, t, TRUE, FALSE, {}, {})
  BY DEF TaskInv, Located, At

(* A task whose RETURN is with the master is nowhere else. *)
LEMMA AtReturn ==
  ASSUME NEW m, NEW M, NEW t, TaskInv(m, M, t), Msg("RETURN", t) \in M
  PROVE  /\ m.state[t] \in {"READY", "BLOCKED", "ZOMBIE"} /\ t \in started \ freed
         /\ At(m, M, t, FALSE, TRUE, {}, {})
  BY DEF TaskInv, Located, At

(* A task that waits for its wakeup, RETURNED, is nowhere else. *)
LEMMA AtReturned ==
  ASSUME NEW m, NEW M, NEW t, TaskInv(m, M, t), m.state[t] = "RETURNED"
  PROVE  t \in started \ freed /\ At(m, M, t, FALSE, FALSE, {}, {})
  BY DEF TaskInv, Located

(* A task assigned to a worker is READY, and nowhere else. *)
LEMMA AtGiven ==
  ASSUME NEW m, NEW M, NEW t, TaskInv(m, M, t), NEW w \in Ctx,
         Msg("ASSIGN", t) \in Range(m.mb[w])
  PROVE  /\ m.state[t] = "READY" /\ t \in started \ freed
         /\ At(m, M, t, FALSE, FALSE, {w}, {})
  <1>1. w \in Holders(m, Msg("ASSIGN", t)) BY DEF Holders
  <1>2. \E c \in Workers : /\ m.state[t] = "READY" /\ t \in started \ freed
                           /\ At(m, M, t, FALSE, FALSE, {c}, {})
    BY <1>1 DEF TaskInv, Located, At
  <1> QED BY <1>1, <1>2 DEF At

(* A task on a worker is nowhere else, and running unless the worker is    *)
(* about to return it.                                                     *)
LEMMA AtOn ==
  ASSUME NEW m, NEW M, NEW t, TaskInv(m, M, t), NEW c \in Ctx, on[c] = t
  PROVE  /\ c \in Workers /\ t \in started \ freed
         /\ At(m, M, t, FALSE, FALSE, {}, {c})
         /\ \/ /\ m.state[t] = "RUNNING" /\ pc[c] = "run" /\ current_task[c] = t
               /\ worker_context[t] = c
            \/ m.state[t] \in {"READY", "BLOCKED", "ZOMBIE"} /\ pc[c] = "back"
  <1>1. c \in Ons(t) BY DEF Ons
  <1>2. \E d \in Workers :
          /\ t \in started \ freed /\ At(m, M, t, FALSE, FALSE, {}, {d})
          /\ \/ /\ m.state[t] = "RUNNING" /\ pc[d] = "run" /\ current_task[d] = t
                /\ worker_context[t] = d
             \/ m.state[t] \in {"READY", "BLOCKED", "ZOMBIE"} /\ pc[d] = "back"
    BY <1>1 DEF TaskInv, Located, At
  <1> QED BY <1>1, <1>2 DEF At

----------------------------------------------------------------------------
(* Every message keeps the invariant *)

(* The master takes x from its mailbox. *)
Handles(m, M, N, x) ==
  /\ MasterInv(m, M) /\ m = MasterState /\ TypeOK
  /\ x = Head(mastermb) /\ x \in MasterMessages /\ x \in M /\ N = M \ {x}
  /\ UNCHANGED <<ctxvars, worker_context, envvars>>
  /\ mpc = "loop" /\ mpc' \in {"loop", "bcast"}

(* One turn of MasterLoop takes the first message and handles it. *)
LEMMA HandlesIs ==
  ASSUME IInv, MasterLoop, NEW m, m = MasterState, NEW M, M = Range(mastermb),
         NEW N, N = Range(mastermb')
  PROVE  \E x : /\ Handles(m, M, N, x) /\ mastermb' \in Seq(MasterMessages)
                /\ Distinct(mastermb')
  <1>1. PICK s, q : s = mastermb /\ q = mastermb' OBVIOUS
  <1>2. /\ s \in Seq(MasterMessages) /\ Distinct(s) /\ s # <<>> /\ q = Tail(s)
    BY <1>1 DEF IInv, TypeOK, MasterLoop
  <1>3. /\ q \in Seq(MasterMessages) /\ Distinct(q) /\ Head(s) \in Range(s)
        /\ Head(s) \in MasterMessages /\ Range(q) = Range(s) \ {Head(s)}
    BY <1>2, Shortened
  <1>4. mpc = "loop" /\ mpc' \in {"loop", "bcast"} BY DEF MasterLoop
  <1>5. UNCHANGED <<ctxvars, worker_context, envvars>> BY DEF MasterLoop
  <1> QED BY <1>1, <1>3, <1>4, <1>5 DEF Handles, IInv

(* All but what the message is about stay. *)
LEMMA HandlesBut ==
  ASSUME NEW m, NEW M, NEW N, NEW x, Handles(m, M, N, x), NEW T, NEW W,
         x.type \in {"ASSIGN", "RETURN", "WAKEUP"} => x.body \in T,
         x.type = "REQUEST" => x.body \in W,
         \A u \in Tasks : u \notin T =>
           wakenup'[u] = wakenup[u] /\ (u \in freed' <=> u \in freed),
         T \subseteq Served
  PROVE  But(m, N, T, W)'
  <1>0. /\ pc' = pc /\ on' = on /\ current_task' = current_task /\ park' = park
        /\ worker_context' = worker_context /\ started' = started
        /\ UNCHANGED <<unused, freewrappers>>
    BY DEF Handles, ctxvars, envvars
  <1>1. Going BY DEF Handles, Going
  <1>2. x = Msg(x.type, x.body) BY MasterMessageIs DEF Handles
  <1>3. ASSUME NEW u \in Served, u \notin T PROVE TaskInv(m, N, u)'
    <2>1. \A y \in {"ASSIGN", "RETURN", "WAKEUP"} : Msg(y, u) # x
      BY SMTT(60), SMTT(120), <1>2, <1>3, MsgIs
    <2>2. Same(m, M, m, N, u) BY <2>1 DEF Same, SamePlace, Handles
    <2>3. Still(u) BY <1>0 DEF Still, Ons
    <2>4. Kept(u) BY <1>0, <1>1, <1>3 DEF Kept, Living, Going, Served
    <2>5. TaskInv(m, M, u) BY DEF Handles, MasterInv
    <2> QED BY <2>2, <2>3, <2>4, <2>5, TaskFrame
  <1>4. ASSUME NEW w \in Workers, w \notin W PROVE WorkerInv(m, N, w)'
    <2>1. Msg("REQUEST", w) # x BY SMTT(60), SMTT(120), <1>2, <1>4, MsgIs
    <2>2. SameWorker(m, M, m, N, w) BY <2>1 DEF SameWorker, Handles
    <2>3. WorkerInv(m, M, w) BY DEF Handles, MasterInv
    <2> QED BY <1>0, <1>1, <2>2, <2>3, WorkerFrame
  <1>5. ASSUME NEW t \in Wrapped PROVE WrappedInv(m, t)'
    <2>1. t \in freed' <=> t \in freed BY HrcAssumption DEF Served
    <2>2. WrappedInv(m, t) BY DEF Handles, MasterInv
    <2> QED BY <1>0, <2>1, <2>2, WrappedFrame
  <1>6. ASSUME NEW c \in Wrappers PROVE WrapperInv(m, c)'
    <2>1. \A t \in Tasks : Owns(c, t)' <=> Owns(c, t)
      BY <1>0, HrcAssumption DEF Owns, Served
    <2>2. WrapperInv(m, c) BY DEF Handles, MasterInv
    <2> QED BY <1>0, <2>1, <2>2, WrapperFrame
  <1> QED BY <1>3, <1>4, <1>5, <1>6 DEF But, Handles, MasterInv

(* A task whose message was taken. *)
LEMMA HandlesTask ==
  ASSUME NEW m, NEW M, NEW N, NEW x, Handles(m, M, N, x),
         x.type \in {"ASSIGN", "RETURN", "WAKEUP"}
  PROVE  /\ x.body \in Served /\ x = Msg(x.type, x.body) /\ TaskInv(m, M, x.body)
         /\ m \in MasterStates /\ m.state = state
         /\ \A y : y # x.type => (Msg(y, x.body) \in N <=> Msg(y, x.body) \in M)
         /\ Msg(x.type, x.body) \notin N
         /\ mpc' # "clean" /\ PcOK'
         /\ Ons(x.body)' = Ons(x.body) /\ park' = park /\ started' = started
         /\ worker_context' = worker_context
  <1>1. x.body \in Served /\ x = Msg(x.type, x.body)
    BY MasterMessageIs DEF Handles
  <1>2. TaskInv(m, M, x.body) /\ m \in MasterStates
    BY <1>1 DEF Handles, MasterInv
  <1>3. /\ \A y : y # x.type => (Msg(y, x.body) \in N <=> Msg(y, x.body) \in M)
        /\ Msg(x.type, x.body) \notin N
    BY <1>1, MsgIs DEF Handles
  <1>4. m.state = state BY DEF Handles, MasterState
  <1>5. PcOK' BY CtxIs DEF Handles, TypeOK, PcOK, ctxvars
  <1>6. Ons(x.body)' = Ons(x.body) /\ park' = park /\ started' = started
        /\ worker_context' = worker_context
    BY DEF Handles, Ons, ctxvars, envvars
  <1>7. mpc' # "clean" BY DEF Handles
  <1> QED BY <1>1, <1>2, <1>3, <1>4, <1>5, <1>6, <1>7

(* The master handles ASSIGN. *)
LEMMA MasterAssignKeeps ==
  ASSUME NEW m, NEW M, NEW N, NEW x, Handles(m, M, N, x), MasterAssign
  PROVE  \E n \in MasterStates : Become(n) /\ MasterInv(n, N)'
  <1>1. PICK t : t = x.body OBVIOUS
  <1>2. PICK n : n = IF m.wait # {} THEN servePendingReq(m, t)
                                    ELSE LpelTaskqueuePush(m, t)
    OBVIOUS
  <1>3. /\ x.type = "ASSIGN" /\ Become(n) /\ UNCHANGED <<wakenup, freed>>
    BY <1>1, <1>2 DEF MasterAssign, Handles
  <1>4. /\ t \in Served /\ x = Msg("ASSIGN", t) /\ TaskInv(m, M, t)
        /\ m \in MasterStates
        /\ \A y : y # "ASSIGN" => (Msg(y, t) \in N <=> Msg(y, t) \in M)
        /\ Msg("ASSIGN", t) \notin N /\ mpc' # "clean" /\ PcOK'
        /\ Ons(t)' = Ons(t) /\ park' = park /\ started' = started
        /\ worker_context' = worker_context
    BY SMTT(60), SMTT(120), <1>1, <1>3, HandlesTask
  <1>5. /\ m.state[t] = "CREATED" /\ t \in started \ freed
        /\ At(m, M, t, TRUE, FALSE, {}, {})
    BY <1>4, AtAssign DEF Handles
  <1>6. But(m, N, {t}, {})'
    BY <1>1, <1>3, <1>4, HandlesBut
  <1>7. Hand(m, N, t)'
    BY <1>3, <1>4, <1>5 DEF Hand, TaskInv, Parked, At, Holders
  <1>8. Readied(m, n, t)
    <2>1. t \notin m.ready BY <1>5 DEF At
    <2> QED BY <1>2, <1>4, <2>1, AssignIs
  <1>9. Revalues(m, m) BY <1>4 DEF Revalues
  <1> QED BY <1>3, <1>4, <1>6, <1>7, <1>8, <1>9, HandlersKeep DEF ReadyStm

(* The master handles WAKEUP: a RETURNED task becomes ready, for another   *)
(* the wakeup is kept.                                                     *)
LEMMA MasterWakeupKeeps ==
  ASSUME NEW m, NEW M, NEW N, NEW x, Handles(m, M, N, x), MasterWakeup
  PROVE  \E n \in MasterStates : Become(n) /\ MasterInv(n, N)'
  <1>1. PICK t : t = x.body OBVIOUS
  <1>2. x.type = "WAKEUP" /\ freed' = freed BY DEF MasterWakeup, Handles
  <1>3. /\ t \in Served /\ x = Msg("WAKEUP", t) /\ TaskInv(m, M, t)
        /\ m \in MasterStates /\ m.state = state
        /\ \A y : y # "WAKEUP" => (Msg(y, t) \in N <=> Msg(y, t) \in M)
        /\ Msg("WAKEUP", t) \notin N /\ mpc' # "clean" /\ PcOK'
        /\ Ons(t)' = Ons(t) /\ park' = park /\ started' = started
        /\ worker_context' = worker_context
    BY SMTT(60), SMTT(120), <1>1, <1>2, HandlesTask
  <1>4. wakenup \in [Tasks -> BOOLEAN] /\ t \in Tasks
    BY <1>3 DEF Handles, TypeOK, Served
  <1>5. /\ park[t] = "granted" /\ ~wakenup[t]
        /\ state[t] \in {"RUNNING", "BLOCKED", "RETURNED"}
    BY <1>3 DEF TaskInv, Parked, Handles
  <1>6. CASE state[t] # "RETURNED"
    <2>1. wakenup' = [wakenup EXCEPT ![t] = TRUE] /\ Become(m)
      BY <1>1, <1>6 DEF MasterWakeup, Handles
    <2>2. wakenup'[t] = TRUE /\ \A u \in Tasks : u # t => wakenup'[u] = wakenup[u]
      BY <1>4, <2>1
    <2>3. But(m, N, {t}, {})'
      BY <1>1, <1>2, <1>3, <2>2, HandlesBut
    <2>4. Located(m, N, t)'
      <3>1. SamePlace(m, M, m, N, t) BY <1>3 DEF SamePlace
      <3>2. Still(t) BY <1>3 DEF Still, Handles, ctxvars
      <3>3. Living(t) BY <1>2, <1>3 DEF Living, Handles
      <3> QED BY <1>3, <3>1, <3>2, <3>3, LocatedFrame DEF TaskInv
    <2>5. Parked(m, N, t)' BY <1>3, <1>5, <1>6, <2>2 DEF Parked
    <2>6. TaskInv(m, N, t)' BY <1>3, <2>4, <2>5 DEF TaskInv
    <2>7. MasterInv(m, N)' BY <2>3, <2>6 DEF But, MasterInv
    <2> QED BY <1>3, <2>1, <2>7
  <1>7. CASE state[t] = "RETURNED"
    <2>1. PICK n : n = processTaskReady(m, t) OBVIOUS
    <2>2. Become(n) /\ wakenup' = wakenup
      BY <1>1, <1>7, <2>1 DEF MasterWakeup, Handles
    <2>3. But(m, N, {t}, {})' BY <1>1, <1>2, <1>3, <2>2, HandlesBut
    <2>4. t \in started \ freed /\ At(m, M, t, FALSE, FALSE, {}, {})
      BY <1>3, <1>7, AtReturned
    <2>5. Hand(m, N, t)'
      BY <1>2, <1>3, <1>5, <2>2, <2>4 DEF Hand, TaskInv, At, Holders
    <2>6. t \notin m.ready BY <1>3, <1>7, <2>4 DEF At
    <2>7. \E u : Revalues(m, u) /\ Readied(u, n, t) BY <1>3, <2>1, <2>6, ReadyIs
    <2>8. n \in MasterStates /\ MasterInv(n, N)'
      BY <1>3, <2>3, <2>5, <2>7, HandlersKeep DEF ReadyStm
    <2> QED BY <2>2, <2>8
  <1> QED BY <1>6, <1>7

(* The master handles RETURN, by the state that the task left with. *)
LEMMA MasterReturnKeeps ==
  ASSUME NEW m, NEW M, NEW N, NEW x, Handles(m, M, N, x), MasterReturn
  PROVE  \E n \in MasterStates : Become(n) /\ MasterInv(n, N)'
  <1>1. PICK t : t = x.body OBVIOUS
  <1>2. PICK k \in updateNeighours(m, t) :
          /\ CASE state[t] = "BLOCKED" /\ ~wakenup[t] ->
                    Become([k EXCEPT !.state[t] = "RETURNED"])
               [] state[t] = "READY" \/ (state[t] = "BLOCKED" /\ wakenup[t]) ->
                    Become(processTaskReady(k, t))
               [] state[t] = "ZOMBIE" -> Become(k)
    BY <1>1 DEF MasterReturn, Handles
  <1>3. /\ x.type = "RETURN"
        /\ wakenup' = [wakenup EXCEPT ![t] = @ /\ state[t] # "BLOCKED"]
        /\ freed' = IF state[t] = "ZOMBIE" THEN LpelTaskDestroy({t}) ELSE freed
    BY <1>1 DEF MasterReturn, Handles
  <1>4. /\ t \in Served /\ x = Msg("RETURN", t) /\ TaskInv(m, M, t)
        /\ m \in MasterStates /\ m.state = state
        /\ \A y : y # "RETURN" => (Msg(y, t) \in N <=> Msg(y, t) \in M)
        /\ Msg("RETURN", t) \notin N /\ mpc' # "clean" /\ PcOK'
        /\ Ons(t)' = Ons(t) /\ park' = park /\ started' = started
        /\ worker_context' = worker_context
    BY SMTT(60), SMTT(120), <1>1, <1>3, HandlesTask
  <1>5. /\ m.state[t] \in {"READY", "BLOCKED", "ZOMBIE"} /\ t \in started \ freed
        /\ At(m, M, t, FALSE, TRUE, {}, {})
    BY <1>4, AtReturn DEF Handles
  <1>6. wakenup \in [Tasks -> BOOLEAN] /\ t \in Tasks
    BY <1>4 DEF Handles, TypeOK, Served
  <1>7. /\ wakenup'[t] = (wakenup[t] /\ state[t] # "BLOCKED")
        /\ \A u \in Tasks : u # t =>
             wakenup'[u] = wakenup[u] /\ (u \in freed' <=> u \in freed)
        /\ t \in freed' <=> state[t] = "ZOMBIE"
    BY <1>3, <1>5, <1>6 DEF LpelTaskDestroy
  <1>8. But(m, N, {t}, {})' BY <1>1, <1>3, <1>4, <1>7, HandlesBut
  <1>9. t \notin m.ready BY <1>5 DEF At
  <1>10. But(k, N, {t}, {})' /\ Same(m, N, k, N, t)'
    <2>1. \E u : /\ Revalues(m, u)
                 /\ k = u \/ \E w \in u.wait : \E top \in u.ready : Sends(u, k, w, top)
      BY <1>4, NeighboursAre
    <2> QED BY <1>4, <1>8, <1>9, <2>1, HandlersKeep DEF NeighbourStm
  <1>11. /\ k \in MasterStates /\ k.state[t] = state[t] /\ t \notin k.ready
         /\ Holders(k, Msg("ASSIGN", t)) = {} /\ Ons(t)' = {}
         /\ Msg("ASSIGN", t) \notin N
    BY <1>4, <1>5, <1>9, <1>10 DEF But, Same, SamePlace, Holders, At
  <1>12. ASSUME state[t] = "BLOCKED", ~wakenup[t]
         PROVE  \E n \in MasterStates : Become(n) /\ MasterInv(n, N)'
    <2>1. PICK n : n = [k EXCEPT !.state[t] = "RETURNED"] OBVIOUS
    <2>2. Become(n) BY <1>2, <1>12, <2>1
    <2>3. /\ n \in MasterStates /\ n.ready = k.ready /\ n.wait = k.wait
          /\ n.mb = k.mb /\ n.state = [k.state EXCEPT ![t] = "RETURNED"]
      <3>1. PICK s : s = [k.state EXCEPT ![t] = "RETURNED"] OBVIOUS
      <3>2. n = Rec(k.ready, k.wait, k.mb, s, k.valid)
        BY <1>11, <2>1, <3>1 DEF Rec, MasterStates
      <3>3. s \in [Tasks -> States] BY <1>11, <3>1, FieldsAre DEF States
      <3>4. /\ n \in MasterStates /\ n.ready = k.ready /\ n.wait = k.wait
            /\ n.mb = k.mb /\ n.state = s
        BY SMTT(60), SMTT(120), <1>11, <3>2, <3>3, FieldsAre, RecIs
      <3> QED BY <3>1, <3>4
    <2>4. /\ n.state[t] = "RETURNED"
          /\ \A u \in Tasks : u # t => n.state[u] = k.state[u]
      BY <1>6, <1>11, <2>3, FieldsAre
    <2>5. But(n, N, {t}, {})'
      <3>1. Sets(k, n, t)' BY <2>3, <2>4 DEF Sets
      <3> QED BY <1>4, <1>10, <3>1, HandlersKeep DEF SetStm
    <2>6. Located(n, N, t)'
      <3>1. At(n, N, t, FALSE, FALSE, {}, {})'
        BY <1>4, <1>11, <2>3, <2>4 DEF At, Holders
      <3>2. t \in started' \ freed' BY <1>4, <1>5, <1>7, <1>12
      <3> QED BY <2>4, <3>1, <3>2 DEF Located
    <2>7. Parked(n, N, t)'
      BY <1>4, <1>7, <1>12, <2>4 DEF Parked, TaskInv, Handles
    <2>8. TaskInv(n, N, t)' BY <1>4, <2>6, <2>7 DEF TaskInv
    <2>9. MasterInv(n, N)' BY <2>5, <2>8 DEF But, MasterInv
    <2> QED BY <2>2, <2>3, <2>9
  <1>13. ASSUME state[t] = "READY" \/ (state[t] = "BLOCKED" /\ wakenup[t])
         PROVE  \E n \in MasterStates : Become(n) /\ MasterInv(n, N)'
    <2>1. PICK n : n = processTaskReady(k, t) OBVIOUS
    <2>2. Become(n) BY <1>2, <1>13, <2>1
    <2>3. t \in started' \ freed' BY <1>4, <1>5, <1>7, <1>13
    <2>4. park'[t] # "parking" /\ ~wakenup'[t] /\ Msg("WAKEUP", t) \notin N
      BY <1>4, <1>7, <1>13 DEF TaskInv, Parked
    <2>5. Hand(k, N, t)'
      BY <1>4, <1>11, <2>3, <2>4 DEF Hand, TaskInv, Holders
    <2>6. \E u : Revalues(k, u) /\ Readied(u, n, t)
      BY <1>4, <1>11, <2>1, ReadyIs
    <2>7. n \in MasterStates /\ MasterInv(n, N)'
      BY <1>4, <1>10, <2>5, <2>6, HandlersKeep DEF ReadyStm
    <2> QED BY <2>2, <2>7
  <1>14. ASSUME state[t] = "ZOMBIE"
         PROVE  \E n \in MasterStates : Become(n) /\ MasterInv(n, N)'
    <2>1. Become(k) BY <1>2, <1>14
    <2>2. Located(k, N, t)'
      <3>1. At(k, N, t, FALSE, FALSE, {}, {})'
        BY <1>4, <1>11, <1>14 DEF At, Holders
      <3>2. t \in started' \cap freed' BY <1>4, <1>5, <1>7, <1>14
      <3> QED BY <1>11, <1>14, <3>1, <3>2 DEF Located
    <2>3. Parked(k, N, t)'
      BY <1>4, <1>7, <1>11, <1>14 DEF Parked, TaskInv
    <2>4. TaskInv(k, N, t)' BY <1>4, <2>2, <2>3 DEF TaskInv
    <2>5. MasterInv(k, N)' BY <1>10, <2>4 DEF But, MasterInv
    <2> QED BY <1>11, <2>1, <2>5
  <1> QED BY <1>4, <1>5, <1>6, <1>12, <1>13, <1>14

(* The master handles REQUEST. *)
LEMMA MasterRequestKeeps ==
  ASSUME NEW m, NEW M, NEW N, NEW x, Handles(m, M, N, x), MasterRequest
  PROVE  \E n \in MasterStates : Become(n) /\ MasterInv(n, N)'
  <1>1. PICK w : w = x.body OBVIOUS
  <1>2. x.type = "REQUEST" /\ UNCHANGED <<wakenup, freed>>
    BY DEF MasterRequest, Handles
  <1>3. PICK n \in processTaskReq(m, w) : Become(n)
    BY <1>1 DEF MasterRequest, Handles
  <1>4. w \in Workers /\ x = Msg("REQUEST", w)
    BY <1>1, <1>2, MasterMessageIs DEF Handles
  <1>5. WorkerInv(m, M, w) /\ Msg("REQUEST", w) \in M /\ m \in MasterStates
    BY <1>4 DEF Handles, MasterInv
  <1>6. pc[w] \in {"start", "recv", "run", "back", "exit"} /\ mpc # "clean"
    BY <1>4, CtxIs DEF Handles, TypeOK
  <1>7. pc[w] \in {"recv", "back", "exit"} /\ Asks(m, M, w, TRUE, FALSE, {})
    BY <1>5, <1>6 DEF WorkerInv, Asks
  <1>8. pc' = pc /\ on' = on /\ mpc \in {"loop", "bcast"}
    BY DEF Handles, ctxvars
  <1>9. Free(m, N, w)'
    <2>1. Msg("REQUEST", w) \notin N BY <1>4 DEF Handles
    <2>2. Given(m, w) = {} BY <1>7 DEF Asks
    <2> QED BY <1>5, <1>7, <1>8, <2>1, <2>2 DEF Free, WorkerInv, Given
  <1>10. But(m, N, {}, {w})' BY <1>1, <1>2, HandlesBut
  <1>11. w \notin m.wait BY <1>7 DEF Asks
  <1>12. Waits(m, n, w) \/ \E t \in m.ready : Sends(m, n, w, t)
    BY <1>3, <1>4, <1>5, <1>11, RequestAre
  <1>13. MasterInv(n, N)'
    BY <1>4, <1>9, <1>10, <1>12, HandlersKeep DEF RequestStm
  <1>14. n \in MasterStates BY <1>13 DEF MasterInv
  <1> QED BY <1>3, <1>13, <1>14

(* The master handles TERMINATE. *)
LEMMA MasterTerminateKeeps ==
  ASSUME NEW m, NEW M, NEW N, NEW x, Handles(m, M, N, x), MasterTerminate
  PROVE  \E n \in MasterStates : Become(n) /\ MasterInv(n, N)'
  <1>1. /\ x.type = "TERMINATE" /\ UNCHANGED <<wakenup, freed>> /\ Become(m)
    BY DEF MasterTerminate, Handles
  <1>2. But(m, N, {}, {})' BY <1>1, HandlesBut
  <1> QED BY <1>1, <1>2 DEF But, MasterInv

(* Back to the variables. *)
LEMMA Lift ==
  ASSUME NEW n, NEW N, n = MasterState', N = Range(mastermb)', MasterInv(n, N)'
  PROVE  MasterInv(MasterState, Range(mastermb))'
  <1>1. ASSUME NEW t \in Served PROVE TaskInv(MasterState, Range(mastermb), t)'
    <2>1. TaskInv(n, N, t)' BY DEF MasterInv
    <2>2. Located(MasterState, Range(mastermb), t)'
      BY <2>1 DEF TaskInv, Located, At, Holders
    <2>3. Parked(MasterState, Range(mastermb), t)'
      BY <2>1 DEF TaskInv, Parked
    <2> QED BY <2>1, <2>2, <2>3 DEF TaskInv
  <1>2. ASSUME NEW w \in Workers PROVE WorkerInv(MasterState, Range(mastermb), w)'
    <2>1. WorkerInv(n, N, w)' BY DEF MasterInv
    <2> QED BY <2>1 DEF WorkerInv, Asks, Given
  <1>3. ASSUME NEW t \in Wrapped PROVE WrappedInv(MasterState, t)'
    <2>1. WrappedInv(n, t)' BY DEF MasterInv
    <2> QED BY <2>1 DEF WrappedInv, AtWrapper, Wraps
  <1>4. ASSUME NEW c \in Wrappers PROVE WrapperInv(MasterState, c)'
    <2>1. WrapperInv(n, c)' BY DEF MasterInv
    <2> QED BY <2>1 DEF WrapperInv
  <1>5. (MasterState \in MasterStates /\ BoxesOK(MasterState.mb))'
    BY DEF MasterInv, BoxesOK
  <1> QED BY <1>1, <1>2, <1>3, <1>4, <1>5 DEF MasterInv

----------------------------------------------------------------------------
(* The steps of the master keep the invariant *)

(* The parts of the invariant, of the present state of the master. *)
LEMMA Parts ==
  ASSUME IInv, NEW m, m = MasterState, NEW M, M = Range(mastermb)
  PROVE  /\ TypeOK /\ FreeList /\ MasterInv(m, M) /\ StopInv
         /\ m \in MasterStates /\ BoxesOK(m.mb)
         /\ m.ready = ready_tasks /\ m.wait = waitworkers /\ m.mb = mailbox
         /\ m.state = state /\ m.valid = valid
  BY DEF IInv, MasterInv, MasterState

(* The invariant from its parts. *)
LEMMA Whole ==
  ASSUME NEW n, n = MasterState', NEW N, N = Range(mastermb'), MasterInv(n, N)',
         TypeOK', FreeList', StopInv'
  PROVE  IInv'
  <1>1. N = Range(mastermb)' BY DEF Range
  <1>2. MasterInv(MasterState, Range(mastermb))' BY <1>1, Lift
  <1> QED BY <1>2 DEF IInv

(* StopInv, when the steps of the others do not matter. *)
LEMMA StopFrame ==
  ASSUME StopInv, UNCHANGED <<stopped, started>>,
         Msg("TERMINATE", NULL) \in Range(mastermb') =>
           Msg("TERMINATE", NULL) \in Range(mastermb),
         mterminate' => stopped, mpc' # "loop" => stopped,
         stopped /\ ~StopEarly => state' = state
  PROVE  StopInv'
  BY DEF StopInv, Range

(* When all tasks have ended the master changes no state of a task. *)
LEMMA EndedIdle ==
  ASSUME NEW m, NEW M, NEW N, NEW x, Handles(m, M, N, x),
         \A t \in Tasks : state[t] = "ZOMBIE",
         \/ MasterAssign \/ MasterReturn \/ MasterWakeup \/ MasterRequest
         \/ MasterTerminate
  PROVE  state' = state
  <1>1. /\ m \in MasterStates /\ m.state = state /\ m = MasterState
        /\ x = Head(mastermb)
    BY DEF Handles, MasterInv, MasterState
  <1>2. m.ready = {}
    <2>1. ASSUME NEW t \in m.ready PROVE FALSE
      <3>1. t \in Served /\ t \in Tasks BY <1>1, FieldsAre DEF Served
      <3>2. TaskInv(m, M, t) BY <3>1 DEF Handles, MasterInv
      <3>3. m.state[t] = "INQUEUE" BY <3>2 DEF TaskInv, Located, At
      <3> QED BY <1>1, <3>1, <3>3
    <2> QED BY <2>1
  <1>3. x.type \in {"ASSIGN", "RETURN", "WAKEUP"} =>
          /\ x.body \in Tasks /\ x = Msg(x.type, x.body) /\ x \in M
          /\ TaskInv(m, M, x.body) /\ m.state[x.body] = "ZOMBIE"
    BY SMTT(60), SMTT(120), <1>1, HandlesTask DEF Served, Handles
  <1>4. CASE MasterAssign
    BY <1>1, <1>3, <1>4, AtAssign DEF MasterAssign
  <1>5. CASE MasterReturn
    <2>1. PICK t : t = x.body OBVIOUS
    <2>2. x.type = "RETURN" /\ state[t] = "ZOMBIE"
      BY <1>1, <1>3, <1>5, <2>1 DEF MasterReturn
    <2>3. PICK k \in updateNeighours(m, t) : Become(k)
      BY <1>1, <1>5, <2>1, <2>2 DEF MasterReturn
    <2>4. PICK u : /\ Revalues(m, u)
                   /\ k = u \/ \E w \in u.wait : \E top \in u.ready : Sends(u, k, w, top)
      BY <1>1, NeighboursAre
    <2>5. u.ready = {} /\ u.state = state BY <1>1, <1>2, <2>4 DEF Revalues
    <2> QED BY <2>3, <2>4, <2>5 DEF Become
  <1>6. CASE MasterWakeup
    <2>1. x.type = "WAKEUP" BY <1>1, <1>6 DEF MasterWakeup
    <2>2. m.state[x.body] # "ZOMBIE" BY <1>3, <2>1 DEF TaskInv, Parked
    <2> QED BY <1>3, <2>1, <2>2
  <1>7. CASE MasterRequest
    <2>1. PICK w : w = x.body OBVIOUS
    <2>2. PICK n \in processTaskReq(m, w) : Become(n)
      BY <1>1, <1>7, <2>1 DEF MasterRequest
    <2>3. n = [m EXCEPT !.wait = @ \cup {w}] BY <1>2, <2>2 DEF processTaskReq
    <2>4. n.state = m.state BY <1>1, <2>3 DEF MasterStates
    <2> QED BY <1>1, <2>2, <2>4 DEF Become
  <1>8. CASE MasterTerminate
    <2>1. Become(m) BY <1>1, <1>8 DEF MasterTerminate
    <2> QED BY <1>1, <2>1 DEF Become
  <1> QED BY <1>4, <1>5, <1>6, <1>7, <1>8

(* A turn of MasterLoop keeps the invariant. *)
LEMMA MasterLoopKeeps ==
  ASSUME IInv, MasterLoop
  PROVE  IInv'
  <1>1. PICK m, M, N : m = MasterState /\ M = Range(mastermb) /\ N = Range(mastermb')
    OBVIOUS
  <1>2. PICK x : /\ Handles(m, M, N, x) /\ mastermb' \in Seq(MasterMessages)
                 /\ Distinct(mastermb')
    BY <1>1, HandlesIs
  <1>3. \/ MasterAssign \/ MasterReturn \/ MasterWakeup \/ MasterRequest
        \/ MasterTerminate
    BY DEF MasterLoop
  <1>4. PICK n \in MasterStates : Become(n) /\ MasterInv(n, N)'
    BY <1>2, <1>3, MasterAssignKeeps, MasterReturnKeeps, MasterWakeupKeeps,
       MasterRequestKeeps, MasterTerminateKeeps
  <1>5. n = MasterState' BY <1>4, BecomeIs
  <1>6. TypeOK /\ StopInv /\ FreeList BY DEF IInv
  <1>7. /\ UNCHANGED <<pc, on, current_task, freewrappers, unused, worker_context,
                       park, started, stopped>>
        /\ mpc = "loop" /\ mpc' \in {"loop", "bcast"}
        /\ mpc' = "bcast" => mterminate'
    BY DEF MasterLoop, ctxvars, envvars
  <1>8. /\ wakenup' \in [Tasks -> BOOLEAN] /\ freed' \subseteq Tasks
        /\ mterminate' \in BOOLEAN
    <2>1. /\ wakenup \in [Tasks -> BOOLEAN] /\ freed \subseteq Tasks
          /\ mterminate \in BOOLEAN
      BY <1>6 DEF TypeOK
    <2>2. CASE MasterReturn
      <3>1. Head(mastermb).body \in Tasks
        BY <1>2, <2>2, HandlesTask DEF Handles, MasterReturn, Served
      <3> QED BY <2>1, <2>2, <3>1 DEF MasterReturn, LpelTaskDestroy
    <2>3. CASE MasterWakeup BY <2>1, <2>3 DEF MasterWakeup
    <2>4. CASE MasterAssign \/ MasterRequest \/ MasterTerminate
      BY <2>1, <2>4 DEF MasterAssign, MasterRequest, MasterTerminate
    <2> QED BY <1>3, <2>2, <2>3, <2>4
  <1>9. TypeOK' BY <1>2, <1>6, <1>7, <1>8 DEF TypeOK
  <1>10. mterminate' => stopped
    <2>1. mterminate => stopped BY <1>6 DEF StopInv
    <2>2. CASE MasterTerminate
      <3>1. x.type = "TERMINATE" BY <1>2, <2>2 DEF MasterTerminate, Handles
      <3>2. x = Msg("TERMINATE", NULL)
        BY <1>2, <3>1, MasterMessageIs DEF Handles
      <3>3. Msg("TERMINATE", NULL) \in Range(mastermb)
        BY <1>1, <1>2, <3>2 DEF Handles
      <3> QED BY <1>6, <3>3 DEF StopInv
    <2>3. CASE ~MasterTerminate
      BY <1>3, <2>1, <2>3
         DEF MasterAssign, MasterReturn, MasterWakeup, MasterRequest
    <2> QED BY <2>2, <2>3
  <1>11. StopInv'
    <2>1. N \subseteq M BY <1>2 DEF Handles
    <2>2. stopped /\ ~StopEarly => state' = state
      BY <1>2, <1>3, <1>6, EndedIdle DEF StopInv
    <2>3. mpc' # "loop" => stopped BY <1>7, <1>10
    <2> QED BY <1>1, <1>6, <1>7, <1>10, <2>1, <2>2, <2>3, StopFrame
  <1>12. FreeList' BY <1>6, <1>7 DEF FreeList, Distinct, Range
  <1> QED BY <1>1, <1>4, <1>5, <1>9, <1>11, <1>12, Whole

----------------------------------------------------------------------------
(* The end of the master, and the cleanup *)

(* The master tells the workers to leave. *)
LEMMA MasterBroadcastKeeps ==
  ASSUME IInv, MasterBroadcast
  PROVE  IInv'
  <1>1. PICK m, M, n, x : /\ m = MasterState /\ M = Range(mastermb)
                          /\ n = MasterState' /\ x = Msg("TERMINATE", NULL)
    OBVIOUS
  <1>2. /\ TypeOK /\ FreeList /\ MasterInv(m, M) /\ StopInv
        /\ m \in MasterStates /\ BoxesOK(m.mb) /\ m.mb = mailbox /\ m.state = state
    BY <1>1, Parts
  <1>3. /\ mpc = "bcast" /\ mpc' = "exit" /\ mastermb' = mastermb
        /\ UNCHANGED <<pc, on, current_task, freewrappers, unused, state,
                       worker_context, wakenup, valid, freed, park, started,
                       stopped, mterminate, ready_tasks, waitworkers>>
        /\ mailbox' = [c \in Ctx |-> IF c >= 0 THEN Append(mailbox[c], x)
                                               ELSE mailbox[c]]
    BY <1>1 DEF MasterBroadcast, LpelWorkerBroadcast, ctxvars, taskvars, envvars
  <1>4. \A w \in Workers : /\ mailbox'[w] = Append(mailbox[w], x)
                           /\ mailbox[w] \in Seq(Messages) /\ Distinct(mailbox[w])
                           /\ x \notin Range(mailbox[w])
    BY <1>1, <1>2, <1>3, CtxIs DEF BoxesOK, MasterInv, WorkerInv
  <1>5. x \in Messages BY <1>1, MessageOf
  <1>6. \A w \in Workers : /\ mailbox'[w] \in Seq(Messages) /\ Distinct(mailbox'[w])
                           /\ Range(mailbox'[w]) = Range(mailbox[w]) \cup {x}
    <2>1. TAKE w \in Workers
    <2>2. PICK s : s = mailbox[w] OBVIOUS
    <2>3. s \in Seq(Messages) /\ Distinct(s) /\ x \notin Range(s) BY <1>4, <2>2
    <2>4. /\ Append(s, x) \in Seq(Messages) /\ Distinct(Append(s, x))
          /\ Range(Append(s, x)) = Range(s) \cup {x}
      BY SMTT(60), SMTT(120), <1>5, <2>3, Appended
    <2> QED BY <1>4, <2>2, <2>4
  <1>7. \A c \in Wrappers : mailbox'[c] = mailbox[c] BY <1>3, CtxIs
  <1>8. BoxesOK(mailbox')
    <2>1. \A c \in Ctx : mailbox'[c] \in Seq(Messages) /\ Distinct(mailbox'[c])
      BY <1>2, <1>6, <1>7 DEF Ctx, BoxesOK
    <2> QED BY <1>3, <2>1 DEF BoxesOK
  <1>9. /\ n.mb = mailbox' /\ n.state = m.state /\ n.ready = m.ready
        /\ n.wait = m.wait /\ n \in MasterStates
    <2>1. n = Rec(m.ready, m.wait, mailbox', m.state, m.valid)
      BY <1>1, <1>3 DEF MasterState, Rec
    <2> QED
      BY SMTT(60), SMTT(120), <1>2, <1>8, <2>1, RecIs, FieldsAre DEF BoxesOK
  <1>10. \A t : Msg("ASSIGN", t) # x /\ Msg("WAKEUP", t) # x
    BY SMTT(60), SMTT(120), <1>1, MsgIs
  <1>11. ASSUME NEW u \in Served PROVE TaskInv(n, M, u)'
    <2>1. \A c \in Ctx : Msg("ASSIGN", u) \in Range(mailbox'[c])
                         <=> Msg("ASSIGN", u) \in Range(mailbox[c])
      BY <1>6, <1>7, <1>10 DEF Ctx
    <2>2. Same(m, M, n, M, u) BY <1>2, <1>9, <2>1 DEF Same, SamePlace, Holders
    <2>3. Still(u) /\ Kept(u) BY <1>3 DEF Still, Ons, Kept, Living
    <2> QED BY <1>2, <2>2, <2>3, TaskFrame DEF MasterInv
  <1>12. ASSUME NEW w \in Workers PROVE WorkerInv(n, M, w)'
    <2>1. WorkerInv(m, M, w) BY <1>2 DEF MasterInv
    <2>2. \A t : /\ Msg("ASSIGN", t) \in Range(n.mb[w])
                    <=> Msg("ASSIGN", t) \in Range(m.mb[w])
                 /\ Msg("WAKEUP", t) \in Range(n.mb[w])
                    <=> Msg("WAKEUP", t) \in Range(m.mb[w])
      BY <1>2, <1>6, <1>9, <1>10
    <2>3. Given(n, w) = Given(m, w) BY <2>2 DEF Given
    <2>4. \A r, k, g : Asks(m, M, w, r, k, g) => Asks(n, M, w, r, k, g)'
      BY <1>9, <2>3 DEF Asks, Given
    <2> QED BY <1>3, <2>1, <2>2, <2>3, <2>4 DEF WorkerInv, Given
  <1>13. NoWrapper(m, n) BY <1>2, <1>3, <1>7, <1>9 DEF NoWrapper
  <1>14. MasterInv(n, M)'
    BY <1>2, <1>8, <1>9, <1>11, <1>12, <1>13, ServedKeeps
  <1>15. TypeOK' BY <1>2, <1>3 DEF TypeOK
  <1>16. StopInv' BY <1>2, <1>3 DEF StopInv, Range
  <1>17. FreeList' BY <1>2, <1>3 DEF FreeList, Range
  <1> QED BY <1>1, <1>3, <1>14, <1>15, <1>16, <1>17, Whole

(* LpelWorkersCleanup destroys the tasks returned too late and frees the   *)
(* free wrappers.                                                          *)
LEMMA CleanupKeeps ==
  ASSUME IInv, LpelWorkersCleanup
  PROVE  IInv'
  <1>1. PICK m, M : m = MasterState /\ M = Range(mastermb) OBVIOUS
  <1>2. /\ TypeOK /\ FreeList /\ MasterInv(m, M) /\ StopInv
        /\ m \in MasterStates /\ BoxesOK(m.mb) /\ m.state = state
    BY <1>1, Parts
  <1>3. /\ mpc = "exit" /\ mpc' = "clean" /\ \A w \in Workers : pc[w] = "exit"
        /\ UNCHANGED <<pc, on, current_task, state, worker_context, wakenup, valid,
                       park, started, stopped, mterminate, ready_tasks,
                       waitworkers, mailbox>>
        /\ mastermb' = <<>> /\ freewrappers' = <<>>
        /\ unused' = unused \cup Range(freewrappers)
        /\ freed' = freed \cup {t \in Tasks : Msg("RETURN", t) \in M}
    BY <1>1 DEF LpelWorkersCleanup, cleanupMasterMb, cleanupLocalVar,
                LpelTaskDestroy, envvars
  <1>4. m = MasterState' BY <1>1, <1>3 DEF MasterState
  <1>5. Range(mastermb') = {} /\ Range(freewrappers') = {}
    BY SMTT(60), SMTT(120), <1>3 DEF Range
  <1>6. ASSUME NEW u \in Served PROVE TaskInv(m, {}, u)'
    <2>1. TaskInv(m, M, u) /\ u \in Tasks BY <1>2 DEF MasterInv, Served
    <2>2. Ons(u)' = Ons(u) BY <1>3 DEF Ons
    <2>3. u \in freed' <=> u \in freed \/ Msg("RETURN", u) \in M BY <1>3, <2>1
    <2>4. \A a, r, g, o : At(m, M, u, a, r, g, o) => At(m, {}, u, FALSE, FALSE, g, o)'
      BY <2>2 DEF At, Holders
    <2>5. CASE Msg("RETURN", u) \in M
      <3>1. /\ m.state[u] \in {"READY", "BLOCKED", "ZOMBIE"} /\ u \in started
            /\ At(m, M, u, FALSE, TRUE, {}, {})
        BY <2>1, <2>5, AtReturn
      <3>2. Located(m, {}, u)' BY <1>3, <2>3, <2>4, <2>5, <3>1 DEF Located
      <3>3. Parked(m, {}, u)' BY <1>3, <2>1 DEF TaskInv, Parked
      <3> QED BY <1>3, <2>1, <3>2, <3>3 DEF TaskInv
    <2>6. CASE Msg("RETURN", u) \notin M
      <3>1. u \in freed' <=> u \in freed BY <2>3, <2>6
      <3>2. ~(At(m, M, u, FALSE, TRUE, {}, {})) BY <2>6 DEF At
      <3>3. Located(m, {}, u)'
        BY <1>3, <2>1, <2>4, <3>1, <3>2 DEF TaskInv, Located
      <3>4. Parked(m, {}, u)' BY <1>3, <2>1 DEF TaskInv, Parked
      <3> QED BY <1>3, <2>1, <3>3, <3>4 DEF TaskInv
    <2> QED BY <2>5, <2>6
  <1>7. ASSUME NEW w \in Workers PROVE WorkerInv(m, {}, w)'
    <2>1. WorkerInv(m, M, w) BY <1>2 DEF MasterInv
    <2> QED BY <1>3, <2>1 DEF WorkerInv, Given
  <1>8. \A t \in Wrapped : t \in freed' <=> t \in freed
    <2>1. ASSUME NEW t \in Wrapped PROVE Msg("RETURN", t) \notin M
      <3>1. \A y \in M : y \in MasterMessages
        BY SMTT(60), SMTT(120), <1>1, <1>2 DEF TypeOK, Range
      <3>2. \A y \in M : y.type = "RETURN" => y.body \in Served
        BY <3>1, MasterMessageIs
      <3> QED BY <3>2, MsgIs DEF Served
    <2> QED BY <1>3, <2>1
  <1>9. ASSUME NEW t \in Wrapped PROVE WrappedInv(m, t)'
    BY <1>2, <1>3, <1>8, WrappedFrame DEF MasterInv
  <1>10. ASSUME NEW c \in Wrappers PROVE WrapperInv(m, c)'
    <2>1. WrapperInv(m, c) BY <1>2 DEF MasterInv
    <2>2. \A t \in Tasks : Owns(c, t)' <=> Owns(c, t) BY <1>3, <1>8 DEF Owns
    <2>3. unused' \cup Range(freewrappers') = unused \cup Range(freewrappers)
      BY <1>3, <1>5
    <2> QED BY <1>3, <2>1, <2>2, <2>3 DEF WrapperInv, Range
  <1>11. MasterInv(m, {})'
    BY <1>2, <1>6, <1>7, <1>9, <1>10 DEF MasterInv
  <1>12. Range(freewrappers) \subseteq Wrappers
    BY SMTT(60), SMTT(120), <1>2 DEF TypeOK, Range
  <1>13. TypeOK'
    <2>1. <<>> \in Seq(MasterMessages) /\ <<>> \in Seq(Wrappers) /\ Distinct(<<>>)
      BY SMTT(60), SMTT(120) DEF Distinct
    <2>2. mastermb' \in Seq(MasterMessages) /\ Distinct(mastermb')
      BY <1>3, <2>1
    <2>3. freewrappers' \in Seq(Wrappers) /\ unused' \subseteq Wrappers
      BY <1>2, <1>3, <1>12, <2>1 DEF TypeOK
    <2>4. freed' \subseteq Tasks BY <1>2, <1>3 DEF TypeOK
    <2> QED BY <1>2, <1>3, <2>2, <2>3, <2>4 DEF TypeOK
  <1>14. StopInv' BY <1>2, <1>3, <1>5 DEF StopInv, Range
  <1>15. FreeList' BY SMTT(60), SMTT(120), <1>3, <1>5 DEF FreeList, Distinct
  <1> QED BY <1>4, <1>5, <1>11, <1>13, <1>14, <1>15, Whole
----------------------------------------------------------------------------
(* What a step of a thread leaves alone *)

(* A step of a worker or a wrapper changes mailboxes and states of tasks   *)
(* only.                                                                   *)
LEMMA ThreadState ==
  ASSUME NEW m \in MasterStates, m = MasterState, NEW n, n = MasterState',
         ready_tasks' = ready_tasks, waitworkers' = waitworkers, valid' = valid,
         BoxesOK(mailbox'),
         state' \in [Tasks -> States]
  PROVE  /\ n \in MasterStates /\ BoxesOK(n.mb) /\ n.mb = mailbox'
         /\ n.state = state' /\ n.ready = m.ready /\ n.wait = m.wait
         /\ n.valid = m.valid
  <1>1. /\ m.ready = ready_tasks /\ m.wait = waitworkers /\ m.valid = valid
    BY DEF MasterState
  <1>2. n = Rec(m.ready, m.wait, mailbox', state', m.valid)
    BY <1>1 DEF MasterState, Rec
  <1> QED BY SMTT(60), SMTT(120), <1>2, RecIs, FieldsAre DEF BoxesOK

(* A new message in the mailbox of the master. *)
LEMMA SentToMaster ==
  ASSUME TypeOK, NEW x \in MasterMessages, x \notin Range(mastermb), ToMaster(x)
  PROVE  /\ mastermb' \in Seq(MasterMessages) /\ Distinct(mastermb')
         /\ Range(mastermb') = Range(mastermb) \cup {x}
  <1>1. PICK s : s = mastermb OBVIOUS
  <1>2. s \in Seq(MasterMessages) /\ Distinct(s) /\ x \notin Range(s)
    BY <1>1 DEF TypeOK
  <1>3. /\ Append(s, x) \in Seq(MasterMessages) /\ Distinct(Append(s, x))
        /\ Range(Append(s, x)) = Range(s) \cup {x}
    BY SMTT(60), SMTT(120), <1>2, Appended
  <1> QED BY <1>1, <1>3 DEF ToMaster

(* A step that does not start, stop or end anything keeps what is known    *)
(* of the stop.                                                            *)
LEMMA StopSame ==
  ASSUME StopInv, UNCHANGED <<stopped, started, mterminate, mpc>>,
         Msg("TERMINATE", NULL) \in Range(mastermb') =>
           Msg("TERMINATE", NULL) \in Range(mastermb),
         state' = state \/ \E t \in Tasks : state[t] # "ZOMBIE"
  PROVE  StopInv'
  <1>1. mterminate' => stopped BY DEF StopInv
  <1>2. mpc' # "loop" => stopped BY DEF StopInv
  <1>3. stopped /\ ~StopEarly => state' = state BY DEF StopInv
  <1> QED BY <1>1, <1>2, <1>3, StopFrame

(* Only the thread c moves. *)
Alone(c) ==
  \A d \in Ctx \ {c} : /\ pc'[d] = pc[d] /\ on'[d] = on[d]
                       /\ current_task'[d] = current_task[d]

(* A step of one thread leaves the tasks of the others where they are. *)
LEMMA StillOthers ==
  ASSUME NEW c \in Ctx, Alone(c), NEW u, on[c] # u, on'[c] # u,
         worker_context'[u] = worker_context[u]
  PROVE  Still(u)
  BY DEF Still, Ons, Alone

(* The others have no part in the step. *)
LEMMA ServedStep ==
  ASSUME NEW m, NEW M, NEW n, NEW N, MasterInv(m, M), NoWrapper(m, n), Going,
         n \in MasterStates, BoxesOK(n.mb),
         \A u \in Served :
           TaskInv(n, N, u)' \/ (Same(m, M, n, N, u) /\ Still(u) /\ Kept(u)),
         \A w \in Workers :
           \/ WorkerInv(n, N, w)'
           \/ SameWorker(m, M, n, N, w) /\ pc'[w] = pc[w] /\ on'[w] = on[w]
  PROVE  MasterInv(n, N)'
  <1>1. ASSUME NEW u \in Served PROVE TaskInv(n, N, u)'
    <2>1. TaskInv(m, M, u) BY DEF MasterInv
    <2> QED BY <2>1, TaskFrame
  <1>2. ASSUME NEW w \in Workers PROVE WorkerInv(n, N, w)'
    <2>1. WorkerInv(m, M, w) BY DEF MasterInv
    <2> QED BY <2>1, WorkerFrame
  <1> QED BY <1>1, <1>2, ServedKeeps

(* A wrapper that has not ended has a task. *)
LEMMA WrapperIs ==
  ASSUME NEW m, NEW M, MasterInv(m, M), NEW c \in Wrappers, pc[c] # "exit"
  PROVE  \E t \in Wrapped :
           /\ Owns(c, t) /\ AtWrapper(m, c, t) /\ worker_context[t] = c
           /\ t \in started \ freed
           /\ \A u \in Tasks \ {t} : ~Owns(c, u)
  <1>1. WrapperInv(m, c) BY DEF MasterInv
  <1>2. PICK t \in Tasks : Owns(c, t) BY <1>1 DEF WrapperInv
  <1>3. t \in Wrapped /\ worker_context[t] = c /\ t \in started \ freed
    BY <1>2 DEF Owns
  <1>4. AtWrapper(m, c, t) BY <1>3 DEF MasterInv, WrappedInv
  <1>5. \A u \in Tasks \ {t} : ~Owns(c, u) BY <1>1, <1>2 DEF WrapperInv
  <1> QED BY <1>2, <1>3, <1>4, <1>5

----------------------------------------------------------------------------
(* Workers *)

(* A worker sends its first request. *)
LEMMA WorkerFirstKeeps ==
  ASSUME IInv, NEW c \in Ctx, WorkerFirst(c)
  PROVE  IInv'
  <1>1. PICK m, M, n, N, x :
          /\ m = MasterState /\ M = Range(mastermb) /\ n = MasterState'
          /\ N = Range(mastermb') /\ x = Msg("REQUEST", c)
    OBVIOUS
  <1>2. /\ TypeOK /\ FreeList /\ MasterInv(m, M) /\ StopInv
        /\ m \in MasterStates /\ BoxesOK(m.mb) /\ m.mb = mailbox /\ m.state = state
    BY <1>1, Parts
  <1>3. /\ pc[c] = "start" /\ pc' = [pc EXCEPT ![c] = "recv"] /\ ToMaster(x)
        /\ UNCHANGED <<mailbox, mpc, mterminate, ready_tasks, waitworkers, on,
                       current_task, freewrappers, unused, state, worker_context,
                       wakenup, valid, freed, park, started, stopped>>
    BY <1>1 DEF WorkerFirst, mastervars, taskvars, envvars
  <1>4. c \in Workers
    <2>1. ASSUME c \in Wrappers PROVE FALSE
      <3>1. PICK t \in Wrapped : AtWrapper(m, c, t)
        BY <1>2, <1>3, <2>1, WrapperIs
      <3> QED BY <1>3, <3>1 DEF AtWrapper, Wraps
    <2> QED BY <2>1 DEF Ctx
  <1>5. pc'[c] = "recv" /\ \A d \in Ctx \ {c} : pc'[d] = pc[d]
    BY <1>2, <1>3 DEF TypeOK
  <1>6. Asks(m, M, c, FALSE, FALSE, {}) /\ WorkerInv(m, M, c) /\ on[c] = NULL
    BY <1>2, <1>3, <1>4 DEF MasterInv, WorkerInv
  <1>7. x \in MasterMessages /\ x \notin M
    BY <1>1, <1>4, <1>6, MasterMessageOf DEF Asks
  <1>8. mastermb' \in Seq(MasterMessages) /\ Distinct(mastermb') /\ N = M \cup {x}
    BY <1>1, <1>2, <1>3, <1>7, SentToMaster
  <1>9. /\ n \in MasterStates /\ BoxesOK(n.mb) /\ n = m
    <2>1. n = m BY <1>1, <1>3 DEF MasterState
    <2> QED BY <1>2, <2>1
  <1>10. \A y, u : Msg(y, u) # x => (Msg(y, u) \in N <=> Msg(y, u) \in M)
    BY <1>8
  <1>11. \A u \in Served : Same(m, M, n, N, u) /\ Still(u) /\ Kept(u)
    <2>1. TAKE u \in Served
    <2>2. Same(m, M, n, N, u)
      BY SMTT(60), SMTT(120), <1>1, <1>9, <1>10, MsgIs DEF Same, SamePlace
    <2>3. u # NULL BY CtxIs DEF Served
    <2>4. Still(u)
      BY <1>3, <1>5, <1>6, <2>3, StillOthers DEF Alone
    <2> QED BY <1>3, <2>2, <2>4 DEF Kept, Living
  <1>12. \A w \in Workers \ {c} :
           SameWorker(m, M, n, N, w) /\ pc'[w] = pc[w] /\ on'[w] = on[w]
    BY SMTT(60), SMTT(120), <1>1, <1>3, <1>5, <1>9, <1>10, MsgIs, CtxIs
       DEF SameWorker
  <1>13. WorkerInv(n, N, c)'
    <2>1. Asks(n, N, c, TRUE, FALSE, {})'
      BY <1>1, <1>6, <1>8, <1>9 DEF Asks, Given
    <2> QED BY <1>3, <1>5, <1>6, <1>9, <2>1 DEF WorkerInv, Given
  <1>14. NoWrapper(m, n) BY <1>3, <1>4, <1>5, <1>9, CtxIs DEF NoWrapper
  <1>15. MasterInv(n, N)'
    BY <1>2, <1>3, <1>9, <1>11, <1>12, <1>13, <1>14, ServedStep DEF Going
  <1>16. TypeOK'
    <2>1. pc' \in [Ctx -> {"start", "recv", "run", "back", "exit"}]
      BY <1>2, <1>3 DEF TypeOK
    <2> QED BY <1>2, <1>3, <1>8, <2>1 DEF TypeOK
  <1>17. StopInv'
    BY SMTT(60), SMTT(120), <1>1, <1>2, <1>3, <1>10, MsgIs, StopSame
  <1>18. FreeList' BY <1>2, <1>3 DEF FreeList, Range
  <1> QED BY <1>1, <1>15, <1>16, <1>17, <1>18, Whole

(* A worker is told to leave. *)
LEMMA WorkerTerminateKeeps ==
  ASSUME IInv, NEW c \in Ctx, WorkerTerminate(c)
  PROVE  IInv'
  <1>1. PICK m, M, n, x :
          /\ m = MasterState /\ M = Range(mastermb) /\ n = MasterState'
          /\ x = Head(mailbox[c])
    OBVIOUS
  <1>2. /\ TypeOK /\ FreeList /\ MasterInv(m, M) /\ StopInv
        /\ m \in MasterStates /\ BoxesOK(mailbox) /\ m.mb = mailbox
        /\ m.state = state
    BY <1>1, Parts
  <1>3. /\ pc[c] = "recv" /\ c \in Workers /\ mailbox[c] # <<>>
        /\ x.type = "TERMINATE" /\ mailbox' = Taken(mailbox, c)
        /\ pc' = [pc EXCEPT ![c] = "exit"]
        /\ UNCHANGED <<mastermb, mpc, mterminate, ready_tasks, waitworkers, on,
                       current_task, freewrappers, unused, state, worker_context,
                       wakenup, valid, freed, park, started, stopped>>
    BY <1>1, CtxIs DEF WorkerTerminate, mastervars, taskvars, envvars, Taken
  <1>4. pc'[c] = "exit" /\ \A d \in Ctx \ {c} : pc'[d] = pc[d]
    BY <1>2, <1>3 DEF TypeOK
  <1>5. /\ BoxesOK(mailbox') /\ Range(mailbox'[c]) = Range(mailbox[c]) \ {x}
        /\ x \in Messages /\ \A d \in Ctx : d # c => mailbox'[d] = mailbox[d]
    BY SMTT(60), SMTT(120), <1>1, <1>2, <1>3, Take
  <1>6. /\ n \in MasterStates /\ BoxesOK(n.mb) /\ n.mb = mailbox'
        /\ n.state = m.state /\ n.ready = m.ready /\ n.wait = m.wait
    <2>1. state' \in [Tasks -> States] BY <1>2, <1>3, FieldsAre
    <2> QED BY <1>1, <1>2, <1>3, <1>5, <2>1, ThreadState
  <1>7. \A u : Msg("ASSIGN", u) # x /\ Msg("WAKEUP", u) # x
    BY SMTT(60), SMTT(120), <1>3, MsgIs
  <1>8. \A d \in Ctx : \A u : /\ Msg("ASSIGN", u) \in Range(n.mb[d])
                                 <=> Msg("ASSIGN", u) \in Range(m.mb[d])
                              /\ Msg("WAKEUP", u) \in Range(n.mb[d])
                                 <=> Msg("WAKEUP", u) \in Range(m.mb[d])
    BY <1>2, <1>5, <1>6, <1>7
  <1>9. WorkerInv(m, M, c) /\ on[c] = NULL
    BY <1>2, <1>3 DEF MasterInv, WorkerInv
  <1>10. \A u \in Served : Same(m, M, n, M, u) /\ Still(u) /\ Kept(u)
    <2>1. TAKE u \in Served
    <2>2. Same(m, M, n, M, u) BY <1>6, <1>8 DEF Same, SamePlace, Holders
    <2>3. u # NULL BY CtxIs DEF Served
    <2>4. Still(u) BY <1>3, <1>4, <1>9, <2>3, StillOthers DEF Alone
    <2> QED BY <1>3, <2>2, <2>4 DEF Kept, Living
  <1>11. \A w \in Workers \ {c} :
           SameWorker(m, M, n, M, w) /\ pc'[w] = pc[w] /\ on'[w] = on[w]
    BY <1>2, <1>3, <1>4, <1>5, <1>6, CtxIs DEF SameWorker
  <1>12. WorkerInv(n, M, c)'
    <2>1. Given(n, c) = Given(m, c) BY <1>8 DEF Given
    <2>2. \A r, k, g : Asks(m, M, c, r, k, g) => Asks(n, M, c, r, k, g)'
      BY <1>6, <2>1 DEF Asks, Given
    <2>3. \A t \in Tasks : Msg("WAKEUP", t) \notin Range(n.mb[c])
      BY <1>8, <1>9 DEF WorkerInv
    <2>4. mpc \in {"loop", "bcast"} => Msg("TERMINATE", NULL) \notin Range(n.mb[c])
      BY <1>2, <1>5, <1>6, <1>9 DEF WorkerInv
    <2>5. Given(n, c)' \subseteq Served /\ on'[c] \notin Wrapped
      BY <1>3, <1>9, <2>1 DEF WorkerInv, Given
    <2> QED BY <1>3, <1>4, <1>9, <2>2, <2>3, <2>4, <2>5 DEF WorkerInv
  <1>13. NoWrapper(m, n) BY <1>2, <1>3, <1>4, <1>5, <1>6, CtxIs DEF NoWrapper
  <1>14. MasterInv(n, M)'
    BY <1>2, <1>3, <1>6, <1>10, <1>11, <1>12, <1>13, ServedStep DEF Going
  <1>15. TypeOK'
    <2>1. pc' \in [Ctx -> {"start", "recv", "run", "back", "exit"}]
      BY <1>2, <1>3 DEF TypeOK
    <2> QED BY <1>2, <1>3, <2>1 DEF TypeOK
  <1>16. StopInv' BY <1>2, <1>3, StopSame
  <1>17. FreeList' BY <1>2, <1>3 DEF FreeList, Range
  <1> QED BY <1>1, <1>3, <1>14, <1>15, <1>16, <1>17, Whole

(* A worker takes an assigned task and switches to it. *)
LEMMA WorkerAssignKeeps ==
  ASSUME IInv, NEW c \in Ctx, WorkerAssign(c)
  PROVE  IInv'
  <1>1. PICK m, M, n, x, t :
          /\ m = MasterState /\ M = Range(mastermb) /\ n = MasterState'
          /\ x = Head(mailbox[c]) /\ t = x.body
    OBVIOUS
  <1>2. /\ TypeOK /\ FreeList /\ MasterInv(m, M) /\ StopInv
        /\ m \in MasterStates /\ BoxesOK(mailbox) /\ m.mb = mailbox
        /\ m.state = state
    BY <1>1, Parts
  <1>3. /\ pc[c] = "recv" /\ c \in Workers /\ mailbox[c] # <<>>
        /\ x.type = "ASSIGN" /\ mailbox' = Taken(mailbox, c)
        /\ worker_context' = [worker_context EXCEPT ![t] = c]
        /\ current_task' = [current_task EXCEPT ![c] = t]
        /\ on' = [on EXCEPT ![c] = t] /\ pc' = [pc EXCEPT ![c] = "run"]
        /\ state' = [state EXCEPT ![t] = "RUNNING"]
        /\ park' = [park EXCEPT ![t] = "running"]
        /\ UNCHANGED <<mastermb, mpc, mterminate, ready_tasks, waitworkers,
                       freewrappers, unused, wakenup, valid, freed, started,
                       stopped>>
    BY <1>1, CtxIs DEF WorkerAssign, SwitchTo, mastervars, Taken
  <1>4. /\ BoxesOK(mailbox') /\ Range(mailbox'[c]) = Range(mailbox[c]) \ {x}
        /\ x \in Messages /\ x \in Range(mailbox[c])
        /\ \A d \in Ctx : d # c => mailbox'[d] = mailbox[d]
    BY SMTT(60), SMTT(120), <1>1, <1>2, <1>3, Take
  <1>5. x = Msg("ASSIGN", t) /\ t \in Tasks
    BY <1>1, <1>3, <1>4, MessageIs, CtxIs
  <1>6. WorkerInv(m, M, c) /\ on[c] = NULL /\ t \in Given(m, c) /\ t \in Served
    BY <1>2, <1>3, <1>4, <1>5 DEF MasterInv, WorkerInv, Given
  <1>7. TaskInv(m, M, t) BY <1>2, <1>6 DEF MasterInv
  <1>8. /\ m.state[t] = "READY" /\ t \in started \ freed
        /\ At(m, M, t, FALSE, FALSE, {c}, {})
    BY <1>2, <1>4, <1>5, <1>7, AtGiven
  <1>9. /\ pc'[c] = "run" /\ on'[c] = t /\ current_task'[c] = t
        /\ Alone(c)
    BY <1>2, <1>3 DEF TypeOK, Alone
  <1>10. /\ state'[t] = "RUNNING" /\ park'[t] = "running" /\ worker_context'[t] = c
         /\ \A u \in Tasks \ {t} : /\ state'[u] = state[u] /\ park'[u] = park[u]
                                   /\ worker_context'[u] = worker_context[u]
    BY <1>2, <1>3, <1>5, FieldsAre DEF TypeOK
  <1>11. state' \in [Tasks -> States] BY <1>2, <1>3, FieldsAre DEF States
  <1>12. /\ n \in MasterStates /\ BoxesOK(n.mb) /\ n.mb = mailbox'
         /\ n.state = state' /\ n.ready = m.ready /\ n.wait = m.wait
    <2>1. /\ m = MasterState /\ n = MasterState' /\ ready_tasks' = ready_tasks
          /\ waitworkers' = waitworkers /\ valid' = valid
      BY <1>1, <1>3
    <2> QED BY <1>2, <1>4, <1>11, <2>1, ThreadState
  <1>13. \A u : u # t => Msg("ASSIGN", u) # x
    BY SMTT(60), SMTT(120), <1>5, MsgIs
  <1>14. ASSUME NEW u \in Served, u # t
         PROVE  Same(m, M, n, M, u) /\ Still(u) /\ Kept(u)
    <2>1. u \in Tasks /\ u # NULL BY CtxIs DEF Served
    <2>2. Holders(n, Msg("ASSIGN", u)) = Holders(m, Msg("ASSIGN", u))
      BY <1>2, <1>4, <1>12, <1>13, <1>14 DEF Holders
    <2>3. Same(m, M, n, M, u)
      BY <1>2, <1>10, <1>12, <1>14, <2>1, <2>2 DEF Same, SamePlace
    <2>4. Still(u) BY <1>6, <1>9, <1>10, <1>14, <2>1, StillOthers
    <2> QED BY <1>3, <1>10, <1>14, <2>1, <2>3, <2>4 DEF Kept, Living
  <1>15. TaskInv(n, M, t)'
    <2>1. Holders(n, Msg("ASSIGN", t))' = {}
      <3>1. Holders(m, x) = {c} BY <1>5, <1>8 DEF At
      <3>2. \A d \in Ctx : x \notin Range(n.mb[d])
        BY <1>2, <1>4, <1>12, <3>1 DEF Holders
      <3> QED BY <1>5, <3>2 DEF Holders
    <2>2. Ons(t)' = {c}
      <3>1. Ons(t) = {} BY <1>8 DEF At
      <3> QED BY <1>9, <3>1 DEF Ons, Alone
    <2>3. At(n, M, t, FALSE, FALSE, {}, {c})'
      BY <1>8, <1>10, <1>12, <2>1, <2>2 DEF At
    <2>4. Located(n, M, t)'
      BY <1>3, <1>8, <1>9, <1>10, <1>12, <2>3 DEF Located
    <2>5. Parked(n, M, t)'
      BY <1>3, <1>7, <1>8, <1>10, <1>12 DEF TaskInv, Parked
    <2> QED BY <1>3, <1>10, <2>4, <2>5 DEF TaskInv
  <1>16. \A w \in Workers \ {c} :
           SameWorker(m, M, n, M, w) /\ pc'[w] = pc[w] /\ on'[w] = on[w]
    BY <1>2, <1>4, <1>9, <1>12, CtxIs DEF SameWorker, Alone
  <1>17. WorkerInv(n, M, c)'
    <2>1. Asks(m, M, c, FALSE, FALSE, {t})
      BY <1>3, <1>6 DEF WorkerInv, Asks
    <2>2. Given(n, c)' = {}
      <3>1. \A u \in Tasks : Msg("ASSIGN", u) \in Range(n.mb[c]) => u \in Given(m, c)
        BY <1>2, <1>4, <1>12 DEF Given
      <3>2. Msg("ASSIGN", t) \notin Range(n.mb[c]) BY <1>4, <1>5, <1>12
      <3> QED BY <2>1, <3>1, <3>2 DEF Given, Asks
    <2>3. Asks(n, M, c, FALSE, FALSE, {})' BY <1>12, <2>1, <2>2 DEF Asks
    <2>4. \A u \in Tasks : Msg("WAKEUP", u) \notin Range(n.mb[c])
      BY <1>2, <1>4, <1>6, <1>12 DEF WorkerInv
    <2>5. mpc \in {"loop", "bcast"} => Msg("TERMINATE", NULL) \notin Range(n.mb[c])
      BY <1>2, <1>4, <1>6, <1>12 DEF WorkerInv
    <2>6. t # NULL /\ t \notin Wrapped BY <1>6, CtxIs DEF Served
    <2> QED BY <1>3, <1>9, <2>2, <2>3, <2>4, <2>5, <2>6 DEF WorkerInv
  <1>18. NoWrapper(m, n)
    <2>1. \A u \in Wrapped : u \in Tasks \ {t} BY <1>6, HrcAssumption DEF Served
    <2>2. \A d \in Wrappers : d \in Ctx \ {c} BY <1>3, CtxIs
    <2> QED
      BY SMTT(60), SMTT(120), <1>2, <1>3, <1>4, <1>9, <1>10, <1>12, <2>1, <2>2
         DEF NoWrapper, Alone
  <1>19. MasterInv(n, M)'
    BY SMTT(60), SMTT(120), <1>2, <1>3, <1>12, <1>14, <1>15, <1>16, <1>17,
       <1>18,
       ServedStep DEF Going
  <1>20. TypeOK'
    <2>1. pc' \in [Ctx -> {"start", "recv", "run", "back", "exit"}]
      BY <1>2, <1>3 DEF TypeOK
    <2>2. on' \in [Ctx -> Slot] /\ current_task' \in [Ctx -> Slot]
      BY <1>2, <1>3, <1>5 DEF TypeOK, Slot
    <2>3. worker_context' \in [Tasks -> Ctx \cup {NULL}]
      BY <1>2, <1>3 DEF TypeOK
    <2>4. park' \in [Tasks -> {"running", "parking", "granted"}]
      BY <1>2, <1>3 DEF TypeOK
    <2> QED BY <1>2, <1>3, <2>1, <2>2, <2>3, <2>4 DEF TypeOK
  <1>21. StopInv' BY <1>2, <1>3, <1>5, <1>8, StopSame
  <1>22. FreeList' BY <1>2, <1>3 DEF FreeList, Range
  <1> QED BY <1>1, <1>3, <1>19, <1>20, <1>21, <1>22, Whole

(* A worker returns the task that left its stack and asks for the next. *)
LEMMA WorkerReturnKeeps ==
  ASSUME IInv, NEW c \in Ctx, WorkerReturn(c)
  PROVE  IInv'
  <1>1. PICK m, M, n, N, t, x :
          /\ m = MasterState /\ M = Range(mastermb) /\ n = MasterState'
          /\ N = Range(mastermb') /\ t = on[c] /\ x = Msg("RETURN", t)
    OBVIOUS
  <1>2. /\ TypeOK /\ FreeList /\ MasterInv(m, M) /\ StopInv
        /\ m \in MasterStates /\ BoxesOK(mailbox) /\ m.mb = mailbox
        /\ m.state = state
    BY <1>1, Parts
  <1>3. /\ pc[c] = "back" /\ c \in Workers /\ ToMaster(x)
        /\ on' = [on EXCEPT ![c] = NULL]
        /\ current_task' = [current_task EXCEPT ![c] = NULL]
        /\ worker_context' = [worker_context EXCEPT ![t] = NULL]
        /\ pc' = [pc EXCEPT ![c] = "recv"]
        /\ UNCHANGED <<mailbox, mpc, mterminate, ready_tasks, waitworkers,
                       freewrappers, unused, state, wakenup, valid, freed, park,
                       started, stopped>>
    BY <1>1, CtxIs DEF WorkerReturn, mastervars, envvars
  <1>4. WorkerInv(m, M, c) /\ t \in Tasks /\ t \in Served
    <2>1. WorkerInv(m, M, c) BY <1>2, <1>3 DEF MasterInv
    <2>2. t # NULL /\ t \notin Wrapped BY <1>1, <1>3, <2>1 DEF WorkerInv
    <2>3. t \in Slot BY <1>1, <1>2 DEF TypeOK
    <2> QED BY <2>1, <2>2, <2>3 DEF Slot, Served
  <1>5. TaskInv(m, M, t) BY <1>2, <1>4 DEF MasterInv
  <1>6. /\ m.state[t] \in {"READY", "BLOCKED", "ZOMBIE"} /\ t \in started \ freed
        /\ At(m, M, t, FALSE, FALSE, {}, {c})
    BY <1>1, <1>3, <1>5, AtOn
  <1>7. x \in MasterMessages /\ x \notin M
    BY <1>1, <1>4, <1>6, MasterMessageOf DEF At
  <1>8. mastermb' \in Seq(MasterMessages) /\ Distinct(mastermb') /\ N = M \cup {x}
    BY <1>1, <1>2, <1>3, <1>7, SentToMaster
  <1>9. n = m BY <1>1, <1>3 DEF MasterState
  <1>10. pc'[c] = "recv" /\ on'[c] = NULL /\ Alone(c)
    BY <1>2, <1>3 DEF TypeOK, Alone
  <1>11. /\ worker_context'[t] = NULL
         /\ \A u \in Tasks \ {t} : worker_context'[u] = worker_context[u]
    BY <1>2, <1>3, <1>4 DEF TypeOK
  <1>12. \A y, u : Msg(y, u) # x => (Msg(y, u) \in N <=> Msg(y, u) \in M)
    BY <1>8
  <1>13. ASSUME NEW u \in Served, u # t
         PROVE  Same(m, M, n, N, u) /\ Still(u) /\ Kept(u)
    <2>1. u \in Tasks /\ u # NULL BY CtxIs DEF Served
    <2>2. Same(m, M, n, N, u)
      BY SMTT(60), SMTT(120), <1>1, <1>9, <1>12, <1>13, MsgIs
         DEF Same, SamePlace
    <2>3. Still(u) BY <1>1, <1>10, <1>11, <1>13, <2>1, StillOthers
    <2> QED BY <1>3, <2>2, <2>3 DEF Kept, Living
  <1>14. TaskInv(n, N, t)'
    <2>1. Ons(t)' = {}
      <3>1. Ons(t) = {c} BY <1>6 DEF At
      <3>2. t # NULL BY <1>4, CtxIs
      <3> QED BY <1>10, <3>1, <3>2 DEF Ons, Alone
    <2>2. Msg("ASSIGN", t) # x /\ Msg("WAKEUP", t) # x
      BY SMTT(60), SMTT(120), <1>1, MsgIs
    <2>3. At(n, N, t, FALSE, TRUE, {}, {})'
      BY <1>1, <1>6, <1>8, <1>9, <1>12, <2>1, <2>2 DEF At, Holders
    <2>4. Located(n, N, t)' BY <1>3, <1>6, <1>9, <2>3 DEF Located
    <2>5. Parked(n, N, t)' BY <1>3, <1>5, <1>9, <1>12, <2>2 DEF TaskInv, Parked
    <2> QED BY <1>11, <2>4, <2>5 DEF TaskInv
  <1>15. \A w \in Workers : SameWorker(m, M, n, N, w)
    BY SMTT(60), SMTT(120), <1>1, <1>9, <1>12, MsgIs DEF SameWorker
  <1>16. \A w \in Workers \ {c} : pc'[w] = pc[w] /\ on'[w] = on[w]
    BY <1>10, CtxIs DEF Alone
  <1>17. WorkerInv(n, N, c)'
    <2>1. \A r, k, g : Asks(m, M, c, r, k, g) => Asks(n, N, c, r, k, g)'
      BY <1>3, <1>9, <1>15 DEF Asks, Given, SameWorker
    <2>2. NULL \notin Wrapped BY HrcAssumption
    <2> QED BY <1>3, <1>4, <1>9, <1>10, <2>1, <2>2 DEF WorkerInv, Given
  <1>18. NoWrapper(m, n)
    <2>1. \A u \in Wrapped : u \in Tasks \ {t} BY <1>4, HrcAssumption DEF Served
    <2>2. \A d \in Wrappers : d \in Ctx \ {c} BY <1>3, CtxIs
    <2> QED BY <1>3, <1>9, <1>10, <1>11, <2>1, <2>2 DEF NoWrapper, Alone
  <1>19. MasterInv(n, N)'
    BY SMTT(60), SMTT(120), <1>2, <1>3, <1>9, <1>13, <1>14, <1>15, <1>16,
       <1>17, <1>18,
       ServedStep
       DEF Going
  <1>20. TypeOK'
    <2>1. pc' \in [Ctx -> {"start", "recv", "run", "back", "exit"}]
      BY <1>2, <1>3 DEF TypeOK
    <2>2. on' \in [Ctx -> Slot] /\ current_task' \in [Ctx -> Slot]
      BY <1>2, <1>3 DEF TypeOK, Slot
    <2>3. worker_context' \in [Tasks -> Ctx \cup {NULL}]
      BY <1>2, <1>3 DEF TypeOK
    <2> QED BY <1>2, <1>3, <1>8, <2>1, <2>2, <2>3 DEF TypeOK
  <1>21. StopInv'
    <2>1. Msg("TERMINATE", NULL) # x BY SMTT(60), SMTT(120), <1>1, MsgIs
    <2>2. Msg("TERMINATE", NULL) \in Range(mastermb') =>
            Msg("TERMINATE", NULL) \in Range(mastermb)
      BY <1>1, <1>8, <2>1
    <2>3. UNCHANGED <<stopped, started, mterminate, mpc>> /\ state' = state
      BY <1>3
    <2> QED BY <1>2, <2>2, <2>3, StopSame
  <1>22. FreeList' BY <1>2, <1>3 DEF FreeList, Range
  <1> QED BY <1>1, <1>19, <1>20, <1>21, <1>22, Whole

----------------------------------------------------------------------------
(* Tasks *)

(* What a task runs on. *)
LEMMA RunnerIs ==
  ASSUME NEW m, NEW M, MasterInv(m, M), TypeOK, NEW c \in Ctx, NEW t \in Tasks,
         Runs(c, t)
  PROVE  /\ m.state[t] = "RUNNING"
         /\ \/ /\ c \in Workers /\ t \in Served /\ TaskInv(m, M, t)
               /\ WorkerInv(m, M, c) /\ t \in started \ freed
               /\ At(m, M, t, FALSE, FALSE, {}, {c})
               /\ worker_context[t] = c /\ current_task[c] = t
            \/ /\ c \in Wrappers /\ t \in Wrapped /\ Owns(c, t)
               /\ worker_context[t] = c /\ t \in started \ freed
               /\ Wraps(m, c, t, Woken(t), "run", t, t)
               /\ \A u \in Tasks \ {t} : ~Owns(c, u)
  <1>1. pc[c] = "run" /\ on[c] = t BY DEF Runs
  <1>2. CASE c \in Workers
    <2>1. WorkerInv(m, M, c) BY <1>2 DEF MasterInv
    <2>2. t \in Served BY <1>1, <2>1 DEF WorkerInv, Served
    <2>3. TaskInv(m, M, t) BY <2>2 DEF MasterInv
    <2> QED BY <1>1, <1>2, <2>1, <2>2, <2>3, AtOn
  <1>3. CASE c \in Wrappers
    <2>1. PICK u \in Wrapped : /\ Owns(c, u) /\ AtWrapper(m, c, u)
                               /\ worker_context[u] = c /\ u \in started \ freed
                               /\ \A v \in Tasks \ {u} : ~Owns(c, v)
      BY <1>1, <1>3, WrapperIs
    <2>2. m.state[u] = "RUNNING" /\ Wraps(m, c, u, Woken(u), "run", u, u)
      BY <1>1, <2>1 DEF AtWrapper, Wraps
    <2>3. u = t BY <1>1, <2>2 DEF Wraps
    <2> QED BY <1>3, <2>1, <2>2, <2>3
  <1> QED BY <1>2, <1>3 DEF Ctx

(* A worker's task stops. *)
LEMMA LeaveWorkerKeeps ==
  ASSUME IInv, NEW c \in Workers, NEW t \in Tasks, Runs(c, t),
         NEW s \in {"READY", "BLOCKED", "ZOMBIE"}, Leave(c, s),
         s = "BLOCKED" <=> park[t] # "running", park' = park
  PROVE  IInv'
  <1>1. PICK m, M, n, N, x :
          /\ m = MasterState /\ M = Range(mastermb) /\ n = MasterState'
          /\ N = Range(mastermb') /\ x = Msg("REQUEST", c)
    OBVIOUS
  <1>2. /\ TypeOK /\ FreeList /\ MasterInv(m, M) /\ StopInv
        /\ m \in MasterStates /\ BoxesOK(mailbox) /\ m.mb = mailbox
        /\ m.state = state
    BY <1>1, Parts
  <1>3. pc[c] = "run" /\ on[c] = t /\ c >= 0 /\ c \in Ctx BY CtxIs DEF Runs
  <1>4. /\ state' = [state EXCEPT ![t] = s] /\ ToMaster(x) /\ on' = on
        /\ current_task' = [current_task EXCEPT ![c] = NULL]
        /\ pc' = [pc EXCEPT ![c] = "back"]
        /\ UNCHANGED <<mailbox, mpc, mterminate, ready_tasks, waitworkers,
                       freewrappers, unused, worker_context, wakenup, valid,
                       freed, started, stopped>>
    <2>1. /\ state' = [state EXCEPT ![on[c]] = s]
          /\ UNCHANGED <<mailbox, mpc, mterminate, ready_tasks, waitworkers,
                         freewrappers, unused, worker_context, wakenup, valid,
                         freed, started, stopped>>
      BY DEF Leave, mastervars
    <2>2. /\ ToMaster(Msg("REQUEST", c)) /\ on' = on
          /\ current_task' = [current_task EXCEPT ![c] = NULL]
          /\ pc' = [pc EXCEPT ![c] = "back"]
      BY <1>3 DEF Leave
    <2> QED BY <1>1, <1>3, <2>1, <2>2
  <1>5. /\ m.state[t] = "RUNNING" /\ t \in Served /\ TaskInv(m, M, t)
        /\ WorkerInv(m, M, c) /\ t \in started \ freed
        /\ At(m, M, t, FALSE, FALSE, {}, {c})
    <2>1. c \in Ctx /\ c \notin Wrappers BY CtxIs
    <2> QED BY <1>2, <2>1, RunnerIs
  <1>6. Asks(m, M, c, FALSE, FALSE, {}) BY <1>3, <1>5 DEF WorkerInv
  <1>7. x \in MasterMessages /\ x \notin M
    BY <1>1, <1>6, MasterMessageOf DEF Asks
  <1>8. mastermb' \in Seq(MasterMessages) /\ Distinct(mastermb') /\ N = M \cup {x}
    BY <1>1, <1>2, <1>4, <1>7, SentToMaster
  <1>9. state' \in [Tasks -> States] BY <1>2, <1>4, FieldsAre DEF States
  <1>10. /\ n \in MasterStates /\ BoxesOK(n.mb) /\ n.mb = m.mb
         /\ n.state = state' /\ n.ready = m.ready /\ n.wait = m.wait
    <2>1. /\ m = MasterState /\ n = MasterState' /\ ready_tasks' = ready_tasks
          /\ waitworkers' = waitworkers /\ valid' = valid /\ BoxesOK(mailbox')
          /\ mailbox' = m.mb
      BY <1>1, <1>2, <1>4
    <2> QED BY <1>2, <1>9, <2>1, ThreadState
  <1>11. pc'[c] = "back" /\ \A d \in Ctx \ {c} : /\ pc'[d] = pc[d]
                                                 /\ current_task'[d] = current_task[d]
    BY <1>2, <1>3, <1>4 DEF TypeOK
  <1>12. state'[t] = s /\ \A u \in Tasks \ {t} : state'[u] = state[u]
    BY <1>2, <1>4, FieldsAre
  <1>13. \A y, u : Msg(y, u) # x => (Msg(y, u) \in N <=> Msg(y, u) \in M)
    BY <1>8
  <1>14. \A u : /\ Msg("ASSIGN", u) # x /\ Msg("RETURN", u) # x
                /\ Msg("WAKEUP", u) # x
    BY SMTT(60), SMTT(120), <1>1, MsgIs
  <1>15. ASSUME NEW u \in Served, u # t
         PROVE  Same(m, M, n, N, u) /\ Still(u) /\ Kept(u)
    <2>1. u \in Tasks \ {t} BY <1>15 DEF Served
    <2>2. Same(m, M, n, N, u)
      BY <1>2, <1>10, <1>12, <1>13, <1>14, <2>1 DEF Same, SamePlace, Holders
    <2>3. Alone(c) BY <1>4, <1>11 DEF Alone
    <2>4. Still(u) BY <1>3, <1>4, <1>15, <2>3, StillOthers
    <2> QED BY <1>4, <2>2, <2>4 DEF Kept, Living
  <1>16. TaskInv(n, N, t)'
    <2>1. Ons(t)' = Ons(t) BY <1>4 DEF Ons
    <2>2. t \notin m.ready BY <1>5 DEF At
    <2>3. At(n, N, t, FALSE, FALSE, {}, {c})'
      BY <1>5, <1>10, <1>12, <1>13, <1>14, <2>1, <2>2 DEF At, Holders
    <2>4. Located(n, N, t)' BY <1>4, <1>5, <1>10, <1>11, <1>12, <2>3 DEF Located
    <2>5. Parked(n, N, t)'
      <3>1. Parked(m, M, t) BY <1>5 DEF TaskInv
      <3>2. Msg("WAKEUP", t) \in N <=> Msg("WAKEUP", t) \in M BY <1>13, <1>14
      <3> QED BY <1>4, <1>5, <1>10, <1>12, <3>1, <3>2 DEF Parked
    <2> QED BY <1>4, <1>5, <2>4, <2>5 DEF TaskInv
  <1>17. \A w \in Workers \ {c} :
           SameWorker(m, M, n, N, w) /\ pc'[w] = pc[w] /\ on'[w] = on[w]
    <2> TAKE w \in Workers \ {c}
    <2>1. w \in Ctx \ {c} /\ Msg("REQUEST", w) # x
      BY SMTT(60), SMTT(120), <1>1, MsgIs, CtxIs
    <2>2. pc'[w] = pc[w] /\ on'[w] = on[w] BY <1>4, <1>11, <2>1
    <2> QED BY <1>10, <1>13, <2>1, <2>2 DEF SameWorker
  <1>18. WorkerInv(n, N, c)'
    <2>1. Asks(n, N, c, TRUE, FALSE, {})'
      BY <1>1, <1>6, <1>8, <1>10 DEF Asks, Given
    <2> QED BY <1>3, <1>4, <1>5, <1>10, <1>11, <2>1 DEF WorkerInv, Given
  <1>19. NoWrapper(m, n)
    <2>1. \A u \in Wrapped : u \in Tasks \ {t} BY <1>5, HrcAssumption DEF Served
    <2>2. \A d \in Wrappers : d \in Ctx \ {c} BY CtxIs
    <2> QED BY <1>2, <1>4, <1>10, <1>11, <1>12, <2>1, <2>2 DEF NoWrapper
  <1>20. MasterInv(n, N)'
    BY <1>2, <1>4, <1>10, <1>15, <1>16, <1>17, <1>18, <1>19, ServedStep
       DEF Going
  <1>21. TypeOK'
    <2>1. pc' \in [Ctx -> {"start", "recv", "run", "back", "exit"}]
      BY <1>2, <1>4 DEF TypeOK
    <2>2. current_task' \in [Ctx -> Slot] BY <1>2, <1>4 DEF TypeOK, Slot
    <2> QED BY <1>2, <1>4, <1>8, <2>1, <2>2 DEF TypeOK
  <1>22. StopInv'
    <2>1. state[t] # "ZOMBIE" BY <1>2, <1>5
    <2>2. Msg("TERMINATE", NULL) \in N <=> Msg("TERMINATE", NULL) \in M
      BY SMTT(60), SMTT(120), <1>1, <1>13, MsgIs
    <2> QED BY <1>1, <1>2, <1>4, <2>1, <2>2, StopSame
  <1>23. FreeList' BY <1>2, <1>4 DEF FreeList, Range
  <1> QED BY <1>1, <1>20, <1>21, <1>22, <1>23, Whole

(* A worker's task finds that it must wait. *)
LEMMA DecideWorkerKeeps ==
  ASSUME IInv, NEW c \in Workers, NEW t \in Tasks, Decide(c, t)
  PROVE  IInv'
  <1>1. PICK m, M : m = MasterState /\ M = Range(mastermb) OBVIOUS
  <1>2. /\ TypeOK /\ FreeList /\ MasterInv(m, M) /\ StopInv
        /\ m \in MasterStates /\ BoxesOK(m.mb) /\ m.state = state
    BY <1>1, Parts
  <1>3. /\ Runs(c, t) /\ park[t] = "running" /\ c \in Ctx
        /\ park' = [park EXCEPT ![t] = "parking"]
        /\ UNCHANGED <<mastermb, mailbox, mpc, mterminate, ready_tasks, waitworkers,
                       pc, on, current_task, freewrappers, unused, state,
                       worker_context, wakenup, valid, freed, started, stopped>>
    BY CtxIs DEF Decide, mastervars, ctxvars, taskvars
  <1>4. m = MasterState' /\ M = Range(mastermb') BY <1>1, <1>3 DEF MasterState
  <1>5. m.state[t] = "RUNNING" /\ t \in Served /\ TaskInv(m, M, t)
    BY <1>2, <1>3, RunnerIs, CtxIs
  <1>6. park'[t] = "parking" /\ \A u \in Tasks \ {t} : park'[u] = park[u]
    BY <1>2, <1>3 DEF TypeOK
  <1>7. \A u : Still(u) /\ Living(u) /\ SamePlace(m, M, m, M, u)
    BY <1>3 DEF Still, Ons, Living, SamePlace
  <1>8. \A u \in Served : u # t => Same(m, M, m, M, u) /\ Still(u) /\ Kept(u)
    BY <1>3, <1>6, <1>7 DEF Same, Kept, Served
  <1>9. TaskInv(m, M, t)'
    <2>1. Located(m, M, t)' BY <1>5, <1>7, LocatedFrame DEF TaskInv
    <2>2. Parked(m, M, t)' BY <1>3, <1>5, <1>6 DEF TaskInv, Parked
    <2> QED BY <1>3, <1>5, <2>1, <2>2 DEF TaskInv
  <1>10. \A w \in Workers :
           SameWorker(m, M, m, M, w) /\ pc'[w] = pc[w] /\ on'[w] = on[w]
    BY <1>3 DEF SameWorker
  <1>11. NoWrapper(m, m)
    <2>1. \A u \in Wrapped : u \in Tasks \ {t} BY <1>5, HrcAssumption DEF Served
    <2> QED BY <1>3, <1>6, <2>1 DEF NoWrapper
  <1>12. MasterInv(m, M)'
    BY <1>2, <1>3, <1>8, <1>9, <1>10, <1>11, ServedStep DEF Going
  <1>13. TypeOK'
    <2>1. park' \in [Tasks -> {"running", "parking", "granted"}]
      BY <1>2, <1>3 DEF TypeOK
    <2> QED BY <1>2, <1>3, <2>1 DEF TypeOK
  <1>14. StopInv' BY <1>2, <1>3, StopSame
  <1>15. FreeList' BY <1>2, <1>3 DEF FreeList, Range
  <1> QED BY <1>4, <1>12, <1>13, <1>14, <1>15, Whole

----------------------------------------------------------------------------
(* Wrappers *)

(* The mailbox and the task of a wrapper that has one. *)
LEMMA AtWrapperIs ==
  ASSUME NEW m, NEW c, NEW t, AtWrapper(m, c, t)
  PROVE  /\ on[c] \in {t, NULL} /\ pc[c] # "exit"
         /\ Range(m.mb[c]) \subseteq {Msg("ASSIGN", t), Msg("WAKEUP", t)}
  BY DEF AtWrapper, Wraps, Woken

(* A step of the wrapper c, which has the task t, or a wakeup for t. *)
LEMMA WrapperStep ==
  ASSUME NEW m, NEW M, NEW n, MasterInv(m, M), n \in MasterStates, BoxesOK(n.mb),
         NEW c \in Wrappers, NEW t \in Wrapped, Owns(c, t), AtWrapper(m, c, t),
         n.ready = m.ready, n.wait = m.wait,
         UNCHANGED <<mpc, wakenup, started, worker_context>>,
         \A u \in Tasks \ {t} : /\ n.state[u] = m.state[u] /\ park'[u] = park[u]
                                /\ (u \in freed' <=> u \in freed),
         Alone(c), \A d \in Ctx \ {c} : n.mb[d] = m.mb[d],
         on'[c] \in {t, NULL},
         Range(n.mb[c]) \subseteq {Msg("ASSIGN", t), Msg("WAKEUP", t)},
         \A d \in Wrappers \ {c} : d \in (unused \cup Range(freewrappers))' =>
                                     d \in unused \cup Range(freewrappers),
         WrappedInv(n, t)', WrapperInv(n, c)'
  PROVE  MasterInv(n, M)'
  <1>1. \A u \in Served : u \in Tasks \ {t} /\ u # t /\ u # NULL
    BY CtxIs DEF Served
  <1>2. ASSUME NEW u \in Served PROVE Same(m, M, n, M, u) /\ Still(u) /\ Kept(u)
    <2>1. Msg("ASSIGN", u) \notin {Msg("ASSIGN", t), Msg("WAKEUP", t)}
      BY SMTT(60), SMTT(120), <1>1, MsgIs
    <2>2. Holders(n, Msg("ASSIGN", u)) = Holders(m, Msg("ASSIGN", u))
      BY <2>1, AtWrapperIs, CtxIs DEF Holders
    <2>3. Same(m, M, n, M, u) BY <1>1, <2>2 DEF Same, SamePlace
    <2>4. c \in Ctx /\ on[c] # u /\ on'[c] # u
      BY SMTT(60), SMTT(120), <1>1, AtWrapperIs, CtxIs
    <2>5. Still(u) BY <2>4, StillOthers
    <2>6. Kept(u) BY <1>1 DEF Kept, Living
    <2> QED BY <2>3, <2>5, <2>6
  <1>3. \A w \in Workers :
          SameWorker(m, M, n, M, w) /\ pc'[w] = pc[w] /\ on'[w] = on[w]
    BY CtxIs DEF SameWorker, Alone
  <1>4. Going BY DEF Going
  <1>5. \A u \in Tasks \ {t} : ~Owns(c, u)
    <2>1. WrapperInv(m, c) /\ t \in Tasks BY HrcAssumption DEF MasterInv
    <2> QED BY <2>1 DEF WrapperInv
  <1>6. \A u \in Wrapped \ {t} :
          /\ n.state[u] = m.state[u] /\ park'[u] = park[u]
          /\ worker_context'[u] = worker_context[u]
          /\ (u \in freed' <=> u \in freed) /\ (u \in started' <=> u \in started)
          /\ ~Owns(c, u)
    BY <1>5, HrcAssumption
  <1>7. \A d \in Wrappers \ {c} :
          /\ n.mb[d] = m.mb[d] /\ pc'[d] = pc[d] /\ on'[d] = on[d]
          /\ current_task'[d] = current_task[d] /\ (Owns(d, t)' <=> Owns(d, t))
    <2>1. TAKE d \in Wrappers \ {c}
    <2>2. ~Owns(d, t) /\ ~Owns(d, t)' BY DEF Owns
    <2> QED BY <2>2, CtxIs DEF Alone
  <1> QED BY <1>2, <1>3, <1>4, <1>6, <1>7, WrapperKeeps

(* WrapperInv of a wrapper that goes on. *)
LEMMA WrapperGoes ==
  ASSUME NEW m, NEW n, NEW c, WrapperInv(m, c), NEW t \in Tasks, Owns(c, t),
         pc[c] # "exit", pc'[c] # "exit",
         UNCHANGED <<started, freed, worker_context, unused, freewrappers>>
  PROVE  WrapperInv(n, c)'
  BY DEF WrapperInv, Owns

(* A wrapper switches to its task. *)
LEMMA WrapperRunKeeps ==
  ASSUME IInv, NEW c \in Ctx, WrapperRun(c)
  PROVE  IInv'
  <1>1. PICK m, M, n, t : /\ m = MasterState /\ M = Range(mastermb)
                          /\ n = MasterState' /\ t = current_task[c]
    OBVIOUS
  <1>2. /\ TypeOK /\ FreeList /\ MasterInv(m, M) /\ StopInv
        /\ m \in MasterStates /\ BoxesOK(mailbox) /\ m.mb = mailbox
        /\ m.state = state
    BY <1>1, Parts
  <1>3. /\ pc[c] = "recv" /\ c \in Wrappers /\ t # NULL
        /\ on' = [on EXCEPT ![c] = t] /\ pc' = [pc EXCEPT ![c] = "run"]
        /\ state' = [state EXCEPT ![t] = "RUNNING"]
        /\ park' = [park EXCEPT ![t] = "running"]
        /\ UNCHANGED <<mastermb, mailbox, mpc, mterminate, ready_tasks, waitworkers,
                       current_task, freewrappers, unused, worker_context, wakenup,
                       valid, freed, started, stopped>>
    BY <1>1, CtxIs DEF WrapperRun, SwitchTo, mastervars
  <1>4. PICK u \in Wrapped : Owns(c, u) /\ AtWrapper(m, c, u)
                             /\ worker_context[u] = c /\ u \in started \ freed
    BY <1>2, <1>3, WrapperIs
  <1>5. /\ u = t /\ m.state[t] = "READY" /\ Wraps(m, c, t, {}, "recv", NULL, t)
    BY <1>1, <1>3, <1>4 DEF AtWrapper, Wraps
  <1>6. t \in Wrapped /\ t \in Tasks BY <1>4, <1>5, HrcAssumption
  <1>7. state' \in [Tasks -> States] BY <1>2, <1>3, FieldsAre DEF States
  <1>8. /\ n \in MasterStates /\ BoxesOK(n.mb) /\ n.mb = m.mb
        /\ n.state = state' /\ n.ready = m.ready /\ n.wait = m.wait
    <2>1. /\ m = MasterState /\ n = MasterState' /\ ready_tasks' = ready_tasks
          /\ waitworkers' = waitworkers /\ valid' = valid /\ BoxesOK(mailbox')
          /\ mailbox' = m.mb
      BY <1>1, <1>2, <1>3
    <2> QED BY <1>2, <1>7, <2>1, ThreadState
  <1>9. pc'[c] = "run" /\ on'[c] = t /\ current_task'[c] = t /\ Alone(c)
    BY <1>1, <1>2, <1>3 DEF TypeOK, Alone
  <1>10. state'[t] = "RUNNING" /\ \A v \in Tasks \ {t} : state'[v] = state[v]
    BY <1>2, <1>3, <1>6, FieldsAre
  <1>11. park'[t] = "running" /\ \A v \in Tasks \ {t} : park'[v] = park[v]
    BY <1>2, <1>3, <1>6 DEF TypeOK
  <1>12. WrappedInv(n, t)'
    <2>1. Wraps(n, c, t, {}, "run", t, t)' BY <1>5, <1>8, <1>9 DEF Wraps
    <2>2. Woken(t)' = {} BY <1>11 DEF Woken
    <2>3. AtWrapper(n, c, t)' BY <1>8, <1>10, <2>1, <2>2 DEF AtWrapper
    <2> QED BY <1>3, <1>4, <1>5, <2>3 DEF WrappedInv
  <1>13. WrapperInv(n, c)'
    <2>1. WrapperInv(m, c) BY <1>2, <1>3 DEF MasterInv
    <2> QED BY <1>3, <1>4, <1>5, <1>6, <1>9, <2>1, WrapperGoes
  <1>14. MasterInv(n, M)'
    <2>1. Range(n.mb[c]) \subseteq {Msg("ASSIGN", t), Msg("WAKEUP", t)}
      BY <1>5, <1>8 DEF Wraps
    <2>2. \A d \in Wrappers : d \in (unused \cup Range(freewrappers))' =>
                                d \in unused \cup Range(freewrappers)
      BY <1>3 DEF Range
    <2>3. \A v \in Tasks \ {t} : /\ n.state[v] = m.state[v] /\ park'[v] = park[v]
                                 /\ (v \in freed' <=> v \in freed)
      BY <1>2, <1>3, <1>8, <1>10, <1>11
    <2>4. UNCHANGED <<mpc, wakenup, started, worker_context>> BY <1>3
    <2> QED
      BY <1>2, <1>3, <1>4, <1>5, <1>8, <1>9, <1>12, <1>13, <2>1, <2>2, <2>3,
               <2>4, WrapperStep
  <1>15. TypeOK'
    <2>1. pc' \in [Ctx -> {"start", "recv", "run", "back", "exit"}]
      BY <1>2, <1>3 DEF TypeOK
    <2>2. on' \in [Ctx -> Slot] BY <1>2, <1>3, <1>6 DEF TypeOK, Slot
    <2>3. park' \in [Tasks -> {"running", "parking", "granted"}]
      BY <1>2, <1>3 DEF TypeOK
    <2> QED BY <1>2, <1>3, <2>1, <2>2, <2>3 DEF TypeOK
  <1>16. StopInv' BY <1>2, <1>3, <1>5, <1>6, StopSame
  <1>17. FreeList' BY <1>2, <1>3 DEF FreeList, Range
  <1> QED BY <1>1, <1>3, <1>14, <1>15, <1>16, <1>17, Whole

(* What addFreeWrapper does to the list. *)
LEMMA Pushed ==
  ASSUME NEW S, NEW s \in Seq(S), NEW x \in S, Distinct(s), x \notin Range(s)
  PROVE  /\ <<x>> \o s \in Seq(S) /\ Distinct(<<x>> \o s)
         /\ Range(<<x>> \o s) = {x} \cup Range(s)
  <1>1. PICK q : q = <<x>> \o s OBVIOUS
  <1>2. /\ q \in Seq(S) /\ DOMAIN q = 1 .. Len(s) + 1 /\ DOMAIN s = 1 .. Len(s)
        /\ Len(s) \in Nat /\ q[1] = x /\ \A i \in 1 .. Len(s) : q[i + 1] = s[i]
    BY SMTT(60), SMTT(120), <1>1
  <1>3. \A i \in DOMAIN q : i = 1 \/ (i - 1 \in DOMAIN s /\ q[i] = s[i - 1])
    BY SMTT(60), SMTT(120), <1>2
  <1>4. \A i \in DOMAIN s : s[i] # x BY DEF Range
  <1>5. Distinct(q)
    <2>1. SUFFICES ASSUME NEW i \in DOMAIN q, NEW j \in DOMAIN q, q[i] = q[j]
                   PROVE  i = j
      BY DEF Distinct
    <2>2. i \in Int /\ j \in Int BY SMTT(60), SMTT(120), <1>2
    <2>3. i = 1 <=> j = 1 BY <1>2, <1>3, <1>4, <2>1
    <2>4. i # 1 => i - 1 = j - 1 BY <1>3, <2>1, <2>3 DEF Distinct
    <2> QED BY SMTT(60), SMTT(120), <2>2, <2>3, <2>4
  <1>6. ASSUME NEW y \in Range(q) PROVE y \in {x} \cup Range(s)
    <2>1. PICK i \in DOMAIN q : y = q[i] BY DEF Range
    <2> QED BY <1>2, <1>3, <2>1 DEF Range
  <1>7. ASSUME NEW y \in {x} \cup Range(s) PROVE y \in Range(q)
    <2>1. 1 \in DOMAIN q /\ \A i \in DOMAIN s : i + 1 \in DOMAIN q
      BY SMTT(60), SMTT(120), <1>2
    <2> QED BY <1>2, <2>1 DEF Range
  <1> QED BY <1>1, <1>2, <1>5, <1>6, <1>7

(* A wrapper handles a message for its task. *)
LEMMA WrapperRecvKeeps ==
  ASSUME IInv, NEW c \in Ctx, WrapperRecv(c)
  PROVE  IInv'
  <1>1. PICK m, M, n, x : /\ m = MasterState /\ M = Range(mastermb)
                          /\ n = MasterState' /\ x = Head(mailbox[c])
    OBVIOUS
  <1>2. /\ TypeOK /\ FreeList /\ MasterInv(m, M) /\ StopInv
        /\ m \in MasterStates /\ BoxesOK(mailbox) /\ m.mb = mailbox
        /\ m.state = state
    BY <1>1, Parts
  <1>3. /\ pc[c] = "recv" /\ c \in Wrappers /\ current_task[c] = NULL
        /\ mailbox[c] # <<>> /\ mailbox' = Taken(mailbox, c)
        /\ state' = [state EXCEPT ![x.body] = "READY"]
        /\ current_task' = [current_task EXCEPT ![c] = x.body]
        /\ UNCHANGED <<mastermb, mpc, mterminate, ready_tasks, waitworkers, pc, on,
                       freewrappers, unused, worker_context, wakenup, valid, freed,
                       park, started, stopped>>
    BY <1>1, CtxIs DEF WrapperRecv, mastervars, envvars, Taken
  <1>4. PICK t \in Wrapped : Owns(c, t) /\ AtWrapper(m, c, t)
                             /\ worker_context[t] = c /\ t \in started \ freed
    BY <1>2, <1>3, WrapperIs
  <1>5. t \in Tasks /\ t # NULL BY <1>4, CtxIs, HrcAssumption
  <1>6. /\ BoxesOK(mailbox') /\ Range(mailbox'[c]) = Range(mailbox[c]) \ {x}
        /\ x \in Range(mailbox[c]) /\ \A d \in Ctx : d # c => mailbox'[d] = mailbox[d]
    BY SMTT(60), SMTT(120), <1>1, <1>2, <1>3, Take
  <1>7. /\ Range(mailbox[c]) = {x} /\ x.body = t /\ on[c] = NULL
        /\ m.state[t] # "ZOMBIE" /\ park[t] # "parking"
    <2>1. CASE m.state[t] = "CREATED"
      <3>1. /\ Range(mailbox[c]) = {Msg("ASSIGN", t)} /\ on[c] = NULL
            /\ park[t] = "running"
        BY <1>2, <1>4, <2>1 DEF AtWrapper, Wraps
      <3> QED BY SMTT(60), SMTT(120), <1>6, <2>1, <3>1, MsgIs
    <2>2. CASE m.state[t] # "CREATED"
      <3>1. /\ m.state[t] = "BLOCKED" /\ park[t] # "running"
            /\ Range(mailbox[c]) = Woken(t) /\ on[c] = NULL
        BY <1>2, <1>3, <1>4, <1>5, <2>2 DEF AtWrapper, Wraps
      <3>2. park[t] = "granted" /\ Range(mailbox[c]) = {Msg("WAKEUP", t)}
        BY <1>6, <3>1 DEF Woken
      <3> QED BY SMTT(60), SMTT(120), <1>6, <3>1, <3>2, MsgIs
    <2> QED BY <2>1, <2>2
  <1>8. state' \in [Tasks -> States] BY <1>2, <1>3, FieldsAre DEF States
  <1>9. /\ n \in MasterStates /\ BoxesOK(n.mb) /\ n.mb = mailbox'
        /\ n.state = state' /\ n.ready = m.ready /\ n.wait = m.wait
    <2>1. /\ m = MasterState /\ n = MasterState' /\ ready_tasks' = ready_tasks
          /\ waitworkers' = waitworkers /\ valid' = valid
      BY <1>1, <1>3
    <2> QED BY <1>2, <1>6, <1>8, <2>1, ThreadState
  <1>10. pc'[c] = "recv" /\ on'[c] = NULL /\ current_task'[c] = t /\ Alone(c)
    BY <1>2, <1>3, <1>7 DEF TypeOK, Alone
  <1>11. state'[t] = "READY" /\ \A v \in Tasks \ {t} : state'[v] = state[v]
    BY <1>2, <1>3, <1>5, <1>7, FieldsAre
  <1>12. Range(n.mb[c]) = {} BY <1>6, <1>7, <1>9
  <1>13. WrappedInv(n, t)'
    <2>1. Wraps(n, c, t, {}, "recv", NULL, t)' BY <1>10, <1>12 DEF Wraps
    <2>2. AtWrapper(n, c, t)' BY <1>3, <1>7, <1>9, <1>11, <2>1 DEF AtWrapper
    <2> QED BY <1>3, <1>4, <2>2 DEF WrappedInv
  <1>14. WrapperInv(n, c)'
    <2>1. WrapperInv(m, c) BY <1>2, <1>3 DEF MasterInv
    <2> QED BY <1>3, <1>4, <1>5, <1>10, <2>1, WrapperGoes
  <1>15. MasterInv(n, M)'
    <2>1. Range(n.mb[c]) \subseteq {Msg("ASSIGN", t), Msg("WAKEUP", t)} BY <1>12
    <2>2. \A d \in Wrappers : d \in (unused \cup Range(freewrappers))' =>
                                d \in unused \cup Range(freewrappers)
      BY <1>3 DEF Range
    <2>3. \A v \in Tasks \ {t} : /\ n.state[v] = m.state[v] /\ park'[v] = park[v]
                                 /\ (v \in freed' <=> v \in freed)
      BY <1>2, <1>3, <1>9, <1>11
    <2>4. UNCHANGED <<mpc, wakenup, started, worker_context>> BY <1>3
    <2>5. \A d \in Ctx \ {c} : n.mb[d] = m.mb[d] BY <1>2, <1>6, <1>9
    <2> QED BY <1>2, <1>3, <1>4, <1>9, <1>10, <1>13, <1>14, <2>1, <2>2, <2>3,
               <2>4, <2>5, WrapperStep
  <1>16. TypeOK'
    <2>1. current_task' \in [Ctx -> Slot]
      BY <1>2, <1>3, <1>5, <1>7 DEF TypeOK, Slot
    <2> QED BY <1>2, <1>3, <2>1 DEF TypeOK
  <1>17. StopInv' BY <1>2, <1>3, <1>5, <1>7, StopSame
  <1>18. FreeList' BY <1>2, <1>3 DEF FreeList, Range
  <1> QED BY <1>1, <1>3, <1>15, <1>16, <1>17, <1>18, Whole

(* A wrapper whose task has ended goes to the free list. *)
LEMMA WrapperExitKeeps ==
  ASSUME IInv, NEW c \in Ctx, WrapperExit(c)
  PROVE  IInv'
  <1>1. PICK m, M, n, t : /\ m = MasterState /\ M = Range(mastermb)
                          /\ n = MasterState' /\ t = current_task[c]
    OBVIOUS
  <1>2. /\ TypeOK /\ FreeList /\ MasterInv(m, M) /\ StopInv
        /\ m \in MasterStates /\ BoxesOK(mailbox) /\ m.mb = mailbox
        /\ m.state = state
    BY <1>1, Parts
  <1>3. /\ pc[c] = "back" /\ c \in Wrappers /\ freed' = freed \cup {t}
        /\ freewrappers' = <<c>> \o freewrappers
        /\ pc' = [pc EXCEPT ![c] = "exit"] /\ on' = [on EXCEPT ![c] = NULL]
        /\ UNCHANGED <<mastermb, mailbox, mpc, mterminate, ready_tasks, waitworkers,
                       current_task, unused, state, worker_context, wakenup, valid,
                       park, started, stopped>>
    BY <1>1, CtxIs DEF WrapperExit, LpelTaskDestroy, mastervars, envvars
  <1>4. PICK u \in Wrapped : /\ Owns(c, u) /\ AtWrapper(m, c, u)
                             /\ worker_context[u] = c /\ u \in started \ freed
                             /\ \A v \in Tasks \ {u} : ~Owns(c, v)
    BY <1>2, <1>3, WrapperIs
  <1>5. /\ u = t /\ m.state[t] = "ZOMBIE" /\ park[t] = "running"
        /\ Range(mailbox[c]) = {}
    BY <1>1, <1>2, <1>3, <1>4 DEF AtWrapper, Wraps
  <1>6. t \in Wrapped /\ t \in Tasks BY <1>4, <1>5, HrcAssumption
  <1>7. mailbox[c] = <<>>
    <2>1. PICK s \in Seq(Messages) : s = mailbox[c] BY <1>2 DEF BoxesOK
    <2>2. ASSUME s # <<>> PROVE s[1] \in Range(s)
      BY SMTT(60), SMTT(120), <2>2 DEF Range
    <2> QED BY <1>5, <2>1, <2>2
  <1>8. n = m BY <1>1, <1>3 DEF MasterState
  <1>9. pc'[c] = "exit" /\ on'[c] = NULL /\ Alone(c)
    BY <1>2, <1>3 DEF TypeOK, Alone
  <1>10. /\ freewrappers' \in Seq(Wrappers) /\ Distinct(freewrappers')
         /\ Range(freewrappers') = {c} \cup Range(freewrappers)
         /\ c \notin unused
    <2>1. WrapperInv(m, c) BY <1>2, <1>3 DEF MasterInv
    <2>2. c \notin unused /\ c \notin Range(freewrappers)
      BY <1>3, <2>1 DEF WrapperInv
    <2>3. PICK f \in Seq(Wrappers) : f = freewrappers BY <1>2 DEF TypeOK
    <2>4. Distinct(f) BY <1>2, <2>3 DEF FreeList
    <2>5. /\ <<c>> \o f \in Seq(Wrappers) /\ Distinct(<<c>> \o f)
          /\ Range(<<c>> \o f) = {c} \cup Range(f)
      BY <1>3, <2>2, <2>3, <2>4, Pushed
    <2> QED BY <1>3, <2>2, <2>3, <2>5
  <1>11. WrappedInv(n, t)'
    BY <1>3, <1>4, <1>5, <1>8 DEF WrappedInv
  <1>12. WrapperInv(n, c)'
    <2>1. \A v \in Tasks : ~Owns(c, v)'
      BY <1>3, <1>4, <1>5 DEF Owns
    <2> QED BY <1>2, <1>7, <1>8, <1>9, <2>1 DEF WrapperInv
  <1>13. MasterInv(n, M)'
    <2>1. Range(n.mb[c]) \subseteq {Msg("ASSIGN", t), Msg("WAKEUP", t)}
      BY <1>2, <1>5, <1>8
    <2>2. \A d \in Wrappers \ {c} : d \in (unused \cup Range(freewrappers))' =>
                                      d \in unused \cup Range(freewrappers)
      BY <1>3, <1>10 DEF Range
    <2>3. \A v \in Tasks \ {t} : /\ n.state[v] = m.state[v] /\ park'[v] = park[v]
                                 /\ (v \in freed' <=> v \in freed)
      BY <1>3, <1>8
    <2>4. UNCHANGED <<mpc, wakenup, started, worker_context>> BY <1>3
    <2>5. n \in MasterStates /\ BoxesOK(n.mb) BY <1>2, <1>8
    <2> QED
      BY <1>2, <1>3, <1>4, <1>5, <1>8, <1>9, <1>11, <1>12, <2>1, <2>2, <2>3,
               <2>4, <2>5, WrapperStep
  <1>14. TypeOK'
    <2>1. pc' \in [Ctx -> {"start", "recv", "run", "back", "exit"}]
      BY <1>2, <1>3 DEF TypeOK
    <2>2. on' \in [Ctx -> Slot] BY <1>2, <1>3 DEF TypeOK, Slot
    <2> QED BY <1>2, <1>3, <1>6, <1>10, <2>1, <2>2 DEF TypeOK
  <1>15. StopInv' BY <1>2, <1>3, StopSame
  <1>16. FreeList' BY <1>2, <1>3, <1>10 DEF FreeList, Range
  <1> QED BY <1>1, <1>3, <1>13, <1>14, <1>15, <1>16, Whole

(* A wrapper's task stops. *)
LEMMA LeaveWrapperKeeps ==
  ASSUME IInv, NEW c \in Wrappers, NEW t \in Tasks, Runs(c, t),
         NEW s \in {"READY", "BLOCKED", "ZOMBIE"}, Leave(c, s),
         s = "BLOCKED" <=> park[t] # "running", park' = park
  PROVE  IInv'
  <1>1. PICK m, M, n : m = MasterState /\ M = Range(mastermb) /\ n = MasterState'
    OBVIOUS
  <1>2. /\ TypeOK /\ FreeList /\ MasterInv(m, M) /\ StopInv
        /\ m \in MasterStates /\ BoxesOK(mailbox) /\ m.mb = mailbox
        /\ m.state = state
    BY <1>1, Parts
  <1>3. pc[c] = "run" /\ on[c] = t /\ ~(c >= 0) /\ c \in Ctx /\ c \notin Workers
    BY CtxIs DEF Runs
  <1>4. /\ state' = [state EXCEPT ![t] = s] /\ on' = [on EXCEPT ![c] = NULL]
        /\ current_task' = [current_task EXCEPT ![c] =
                              IF s = "BLOCKED" THEN NULL ELSE @]
        /\ pc' = [pc EXCEPT ![c] = IF s = "ZOMBIE" THEN "back" ELSE "recv"]
        /\ UNCHANGED <<mastermb, mailbox, mpc, mterminate, ready_tasks, waitworkers,
                       freewrappers, unused, worker_context, wakenup, valid,
                       freed, started, stopped>>
    <2>1. /\ state' = [state EXCEPT ![on[c]] = s]
          /\ UNCHANGED <<mailbox, mpc, mterminate, ready_tasks, waitworkers,
                         freewrappers, unused, worker_context, wakenup, valid,
                         freed, started, stopped>>
      BY DEF Leave, mastervars
    <2>2. /\ on' = [on EXCEPT ![c] = NULL] /\ mastermb' = mastermb
          /\ current_task' = [current_task EXCEPT ![c] =
                                IF s = "BLOCKED" THEN NULL ELSE @]
          /\ pc' = [pc EXCEPT ![c] = IF s = "ZOMBIE" THEN "back" ELSE "recv"]
      BY <1>3 DEF Leave
    <2> QED BY <1>3, <2>1, <2>2
  <1>5. /\ m.state[t] = "RUNNING" /\ t \in Wrapped /\ Owns(c, t)
        /\ worker_context[t] = c /\ t \in started \ freed
        /\ Wraps(m, c, t, Woken(t), "run", t, t)
    BY <1>2, <1>3, RunnerIs
  <1>6. state' \in [Tasks -> States] BY <1>2, <1>4, FieldsAre DEF States
  <1>7. /\ n \in MasterStates /\ BoxesOK(n.mb) /\ n.mb = m.mb
        /\ n.state = state' /\ n.ready = m.ready /\ n.wait = m.wait
    <2>1. /\ m = MasterState /\ n = MasterState' /\ ready_tasks' = ready_tasks
          /\ waitworkers' = waitworkers /\ valid' = valid /\ BoxesOK(mailbox')
          /\ mailbox' = m.mb
      BY <1>1, <1>2, <1>4
    <2> QED BY <1>2, <1>6, <2>1, ThreadState
  <1>8. state'[t] = s /\ \A u \in Tasks \ {t} : state'[u] = state[u]
    BY <1>2, <1>4, FieldsAre
  <1>9. /\ on'[c] = NULL /\ pc'[c] = IF s = "ZOMBIE" THEN "back" ELSE "recv"
        /\ Alone(c)
    BY <1>2, <1>3, <1>4 DEF TypeOK, Alone
  <1>10. current_task'[c] = IF s = "BLOCKED" THEN NULL ELSE t
    BY <1>2, <1>3, <1>4, <1>5 DEF TypeOK, Wraps
  <1>11. WrappedInv(n, t)'
    <2>1. Woken(t)' = Woken(t) /\ Range(n.mb[c]) = Woken(t)
      BY <1>5, <1>7 DEF Woken, Wraps
    <2>2. CASE s = "BLOCKED"
      <3>1. Wraps(n, c, t, Woken(t), "recv", NULL, NULL)'
        BY <1>9, <1>10, <2>1, <2>2 DEF Wraps
      <3> QED BY <1>4, <1>5, <1>7, <1>8, <2>2, <3>1 DEF WrappedInv, AtWrapper
    <2>3. CASE s = "READY"
      <3>1. Wraps(n, c, t, {}, "recv", NULL, t)'
        BY <1>9, <1>10, <2>1, <2>3 DEF Wraps, Woken
      <3> QED BY <1>4, <1>5, <1>7, <1>8, <2>3, <3>1 DEF WrappedInv, AtWrapper
    <2>4. CASE s = "ZOMBIE"
      <3>1. Wraps(n, c, t, {}, "back", NULL, t)'
        BY <1>9, <1>10, <2>1, <2>4 DEF Wraps, Woken
      <3> QED BY <1>4, <1>5, <1>7, <1>8, <2>4, <3>1 DEF WrappedInv, AtWrapper
    <2> QED BY <2>2, <2>3, <2>4
  <1>12. WrapperInv(n, c)'
    <2>1. WrapperInv(m, c) BY <1>2 DEF MasterInv
    <2>2. pc[c] # "exit" /\ pc'[c] # "exit" BY <1>3, <1>9
    <2> QED BY <1>4, <1>5, <2>1, <2>2, WrapperGoes
  <1>13. MasterInv(n, M)'
    <2>1. Range(n.mb[c]) \subseteq {Msg("ASSIGN", t), Msg("WAKEUP", t)}
      BY <1>5, <1>7 DEF Wraps, Woken
    <2>2. \A d \in Wrappers : d \in (unused \cup Range(freewrappers))' =>
                                d \in unused \cup Range(freewrappers)
      BY <1>4 DEF Range
    <2>3. \A v \in Tasks \ {t} : /\ n.state[v] = m.state[v] /\ park'[v] = park[v]
                                 /\ (v \in freed' <=> v \in freed)
      BY <1>2, <1>4, <1>7, <1>8
    <2>4. UNCHANGED <<mpc, wakenup, started, worker_context>> BY <1>4
    <2>5. AtWrapper(m, c, t) BY <1>5 DEF AtWrapper
    <2> QED BY <1>2, <1>5, <1>7, <1>9, <1>11, <1>12, <2>1, <2>2, <2>3,
               <2>4, <2>5, WrapperStep
  <1>14. TypeOK'
    <2>1. pc' \in [Ctx -> {"start", "recv", "run", "back", "exit"}]
      BY <1>2, <1>4 DEF TypeOK
    <2>2. on' \in [Ctx -> Slot] BY <1>2, <1>4 DEF TypeOK, Slot
    <2>3. current_task' \in [Ctx -> Slot] BY <1>2, <1>4 DEF TypeOK, Slot
    <2> QED BY <1>2, <1>4, <2>1, <2>2, <2>3 DEF TypeOK
  <1>15. StopInv'
    <2>1. state[t] # "ZOMBIE" BY <1>2, <1>5
    <2> QED BY <1>2, <1>4, <2>1, StopSame
  <1>16. FreeList' BY <1>2, <1>4 DEF FreeList, Range
  <1>17. M = Range(mastermb') BY <1>1, <1>4
  <1> QED BY <1>1, <1>13, <1>14, <1>15, <1>16, <1>17, Whole

(* A wrapper's task finds that it must wait. *)
LEMMA DecideWrapperKeeps ==
  ASSUME IInv, NEW c \in Wrappers, NEW t \in Tasks, Decide(c, t)
  PROVE  IInv'
  <1>1. PICK m, M : m = MasterState /\ M = Range(mastermb) OBVIOUS
  <1>2. /\ TypeOK /\ FreeList /\ MasterInv(m, M) /\ StopInv
        /\ m \in MasterStates /\ BoxesOK(m.mb) /\ m.state = state
    BY <1>1, Parts
  <1>3. /\ Runs(c, t) /\ park[t] = "running" /\ c \in Ctx /\ c \notin Workers
        /\ park' = [park EXCEPT ![t] = "parking"]
        /\ UNCHANGED <<mastermb, mailbox, mpc, mterminate, ready_tasks, waitworkers,
                       pc, on, current_task, freewrappers, unused, state,
                       worker_context, wakenup, valid, freed, started, stopped>>
    BY CtxIs DEF Decide, mastervars, ctxvars, taskvars
  <1>4. m = MasterState' /\ M = Range(mastermb') BY <1>1, <1>3 DEF MasterState
  <1>5. /\ m.state[t] = "RUNNING" /\ t \in Wrapped /\ Owns(c, t)
        /\ worker_context[t] = c /\ t \in started \ freed
        /\ Wraps(m, c, t, Woken(t), "run", t, t)
    BY <1>2, <1>3, RunnerIs
  <1>6. park'[t] = "parking" /\ \A u \in Tasks \ {t} : park'[u] = park[u]
    BY <1>2, <1>3 DEF TypeOK
  <1>7. Woken(t) = {} /\ Woken(t)' = {} BY <1>3, <1>6 DEF Woken
  <1>8. AtWrapper(m, c, t) /\ AtWrapper(m, c, t)'
    BY <1>3, <1>5, <1>7 DEF AtWrapper, Wraps
  <1>9. WrappedInv(m, t)' BY <1>3, <1>5, <1>8 DEF WrappedInv
  <1>10. WrapperInv(m, c)'
    BY SMTT(60), SMTT(120), <1>2, <1>3 DEF MasterInv, WrapperInv, Owns
  <1>11. MasterInv(m, M)'
    <2>1. Range(m.mb[c]) \subseteq {Msg("ASSIGN", t), Msg("WAKEUP", t)}
      BY <1>8, AtWrapperIs
    <2>2. \A d \in Wrappers : d \in (unused \cup Range(freewrappers))' =>
                                d \in unused \cup Range(freewrappers)
      BY <1>3 DEF Range
    <2>3. \A v \in Tasks \ {t} : /\ m.state[v] = m.state[v] /\ park'[v] = park[v]
                                 /\ (v \in freed' <=> v \in freed)
      BY <1>3, <1>6
    <2>4. UNCHANGED <<mpc, wakenup, started, worker_context>> BY <1>3
    <2>5. Alone(c) /\ on'[c] \in {t, NULL} BY <1>3, <1>5 DEF Alone, Wraps
    <2> QED
      BY <1>2, <1>5, <1>8, <1>9, <1>10, <2>1, <2>2, <2>3, <2>4, <2>5,
         WrapperStep
  <1>12. TypeOK'
    <2>1. park' \in [Tasks -> {"running", "parking", "granted"}]
      BY <1>2, <1>3 DEF TypeOK
    <2> QED BY <1>2, <1>3, <2>1 DEF TypeOK
  <1>13. StopInv' BY <1>2, <1>3, StopSame
  <1>14. FreeList' BY <1>2, <1>3 DEF FreeList, Range
  <1> QED BY <1>4, <1>11, <1>12, <1>13, <1>14, Whole
============================================================================
