------------------------------ MODULE SpmdProofs ------------------------------
(***************************************************************************)
(* Proofs about Spmd: every step keeps the invariant IInv, and what        *)
(* follows from it: the barriers keep the workers together and the queue   *)
(* of requests is large enough, for any number of workers.                 *)
(***************************************************************************)
EXTENDS SpmdInv, FiniteSetTheorems, TLAPS

USE ZenonT(60), SMTT(60)

----------------------------------------------------------------------------
(* Counting *)

(* The workers are the numbers below num_workers. *)
LEMMA WorkersAre ==
  /\ num_workers \in Nat /\ num_workers >= 1
  /\ IsFiniteSet(Workers) /\ Cardinality(Workers) = num_workers
  /\ \A w \in Workers : w \in Nat /\ w < num_workers
  /\ \A w \in Nat : w < num_workers => w \in Workers
  /\ NULL \notin Workers
  <1>1. num_workers \in Nat /\ num_workers >= 1 /\ NULL \notin Workers
    BY SMTT(60), SpmdAssumption
  <1>2. IsFiniteSet(Workers) /\ Cardinality(Workers) = num_workers
    <2>1. 0 <= num_workers - 1 /\ num_workers - 1 - 0 + 1 = num_workers
      BY SMTT(60), <1>1
    <2>2. IsFiniteSet(0 .. num_workers - 1)
          /\ Cardinality(0 .. num_workers - 1) = num_workers - 1 - 0 + 1
      BY SMTT(60), <1>1, <2>1, FS_Interval
    <2> QED BY <1>1, <2>1, <2>2 DEF Workers
  <1>3. /\ \A w \in Workers : w \in Nat /\ w < num_workers
        /\ \A w \in Nat : w < num_workers => w \in Workers
    BY SMTT(60), <1>1 DEF Workers
  <1> QED BY <1>1, <1>2, <1>3

(* A set of workers is finite. *)
LEMMA CountType ==
  ASSUME NEW S \in SUBSET Workers
  PROVE  IsFiniteSet(S) /\ Cardinality(S) \in Nat
  BY WorkersAre, FS_Subset, FS_CardinalityType

(* One worker more. *)
LEMMA CountAdd ==
  ASSUME NEW S \in SUBSET Workers, NEW u \in Workers, u \notin S
  PROVE  Cardinality(S \cup {u}) = Cardinality(S) + 1
  BY CountType, FS_AddElement

(* One worker less. *)
LEMMA CountRemove ==
  ASSUME NEW S \in SUBSET Workers, NEW u \in S
  PROVE  Cardinality(S \ {u}) = Cardinality(S) - 1
  BY CountType, FS_RemoveElement

(* All workers but one are num_workers - 1. *)
LEMMA CountOthers ==
  ASSUME NEW w \in Workers, NEW S \in SUBSET Others(w)
  PROVE  /\ Cardinality(S) \in Nat /\ Cardinality(S) <= num_workers - 1
         /\ Cardinality(S) = num_workers - 1 => S = Others(w)
  <1>1. Others(w) \in SUBSET Workers /\ S \in SUBSET Workers BY DEF Others
  <1>2. IsFiniteSet(Others(w)) /\ Cardinality(S) \in Nat BY <1>1, CountType
  <1>3. Cardinality(Others(w)) = num_workers - 1
    BY CountRemove, WorkersAre DEF Others
  <1>4. Cardinality(S) <= Cardinality(Others(w)) BY <1>2, FS_Subset
  <1>5. Cardinality(S) = Cardinality(Others(w)) => S = Others(w)
    BY <1>2, FS_Subset
  <1> QED BY <1>2, <1>3, <1>4, <1>5

(* An index of the ring after at most one turn. *)
LEMMA Wraps ==
  ASSUME NEW n \in Nat, n >= 1, NEW x \in Nat
  PROVE  /\ x < n => x % n = x
         /\ n <= x /\ x < n + n => x % n = x - n
  BY SMTT(60)

(* Sequences without repetition have no more elements than there are       *)
(* workers.                                                                *)
LEMMA NoMore ==
  ASSUME NEW q \in Seq(Workers), \A j, k \in 1 .. Len(q) : q[j] = q[k] => j = k
  PROVE  Len(q) \in Nat /\ Len(q) <= num_workers
  <1>1. Len(q) \in Nat BY SMTT(60)
  <1>2. IsFiniteSet(1 .. Len(q)) /\ Cardinality(1 .. Len(q)) = Len(q)
    <2>1. CASE Len(q) = 0 BY SMTT(60), <2>1, FS_EmptySet
    <2>2. CASE Len(q) # 0
      <3>1. 1 <= Len(q) /\ Len(q) - 1 + 1 = Len(q) BY SMTT(60), <1>1, <2>2
      <3> QED BY SMTT(60), <1>1, <3>1, FS_Interval
    <2> QED BY <2>1, <2>2
  <1>3. \A k \in 1 .. Len(q) : q[k] \in Workers BY SMTT(60)
  <1>4. q \in [1 .. Len(q) -> Workers] BY SMTT(60)
  <1>5. q \in Injection(1 .. Len(q), Workers)
    BY <1>4 DEF Injection, IsInjective
  <1>6. Cardinality(1 .. Len(q)) <= Cardinality(Workers)
    BY <1>2, <1>5, WorkersAre, FS_Injection
  <1> QED BY <1>1, <1>2, <1>6, WorkersAre
----------------------------------------------------------------------------
(* Types, and what a step leaves alone *)

(* A step of w changes nothing that is another worker's but its semaphore. *)
Alone(w) ==
  \A v \in Others(w) :
    /\ pc'[v] = pc[v] /\ curreq'[v] = curreq[v] /\ i'[v] = i[v]
    /\ slot'[v] = slot[v] /\ pending'[v] = pending[v] /\ log'[v] = log[v]

(* A turn of a loop over the workers changes one worker only. *)
LEMMA IterateAlone ==
  ASSUME TypeOK, NEW w \in Workers, NEW last, NEW l \in Labels,
         Iterate(w, last, l)
  PROVE  /\ pc' \in [Workers -> Labels] /\ i' \in [Workers -> Nat]
         /\ \A v \in Others(w) : pc'[v] = pc[v] /\ i'[v] = i[v]
  <1>1. pc \in [Workers -> Labels] /\ i \in [Workers -> Nat] BY DEF TypeOK
  <1>2. i[w] + 1 \in Nat BY SMTT(60), <1>1
  <1>3. \/ i' = [i EXCEPT ![w] = i[w] + 1] /\ pc' = pc
        \/ i' = [i EXCEPT ![w] = 0] /\ pc' = [pc EXCEPT ![w] = l]
    BY <1>1 DEF Iterate, Goto
  <1> QED BY SMTT(60), <1>1, <1>2, <1>3 DEF Others

(* A jump changes one worker only. *)
LEMMA GotoAlone ==
  ASSUME TypeOK, NEW w \in Workers, NEW l \in Labels, Goto(w, l)
  PROVE  /\ pc' \in [Workers -> Labels] /\ pc'[w] = l
         /\ \A v \in Others(w) : pc'[v] = pc[v]
  BY DEF TypeOK, Goto, Others

(* An empty slot of the ring is a request of nobody. *)
LEMMA NoReqType == NoReq \in Requests /\ NoReq.wctx = NULL
  BY DEF NoReq, Requests

(* One lemma for each group of actions. *)
LEMMA BarrierTypes ==
  ASSUME TypeOK, NEW w \in Workers,
         Gather(w) \/ Signal(w) \/ Enter(w) \/ Entered(w) \/ Collect(w),
         pc[w] = "enter" => curreq[w].wctx \in Workers
  PROVE  TypeOK' /\ Alone(w)
  <1>1. CASE \E l \in Labels : SemWaitAll(w, l)
    <2>1. PICK l \in Labels : SemWaitAll(w, l) BY <1>1
    <2>2. sema[w] > 0 /\ sema' = [sema EXCEPT ![w] = @ - 1]
          /\ Iterate(w, num_workers - 2, l)
          /\ UNCHANGED <<queuevars, pending, slot, curreq, taskvars, log>>
      BY <2>1 DEF SemWaitAll
    <2>3. sema' \in [Workers -> Nat] BY SMTT(60), <2>2 DEF TypeOK
    <2>4. /\ pc' \in [Workers -> Labels] /\ i' \in [Workers -> Nat]
          /\ \A v \in Others(w) : pc'[v] = pc[v] /\ i'[v] = i[v]
      BY <2>2, IterateAlone
    <2> QED BY <2>2, <2>3, <2>4 DEF TypeOK, Alone, queuevars, taskvars
  <1>2. CASE Gather(w) BY <1>1, <1>2 DEF Gather, Labels
  <1>3. CASE Collect(w) BY <1>1, <1>3 DEF Collect, Labels
  <1>4. CASE Signal(w)
    <2>1. sema' \in [Workers -> Nat]
      <3>1. sema \in [Workers -> Nat] BY DEF TypeOK
      <3>2. \A v \in Workers : [sema EXCEPT ![v] = @ + 1] \in [Workers -> Nat]
        BY SMTT(60), <3>1
      <3>3. sema' = sema \/ sema' = [sema EXCEPT ![i[w]] = @ + 1]
        BY <1>4 DEF Signal
      <3> QED BY SMTT(60), <3>1, <3>3
    <2>2. "execute" \in Labels BY DEF Labels
    <2>3. /\ pc' \in [Workers -> Labels] /\ i' \in [Workers -> Nat]
          /\ \A v \in Others(w) : pc'[v] = pc[v] /\ i'[v] = i[v]
      BY <1>4, <2>2, IterateAlone DEF Signal
    <2> QED BY <1>4, <2>1, <2>3 DEF Signal, TypeOK, Alone, queuevars, taskvars
  <1>5. CASE Enter(w)
    <2>1. sema' \in [Workers -> Nat] BY SMTT(60), <1>5 DEF Enter, TypeOK
    <2>2. pc' \in [Workers -> Labels] /\ \A v \in Others(w) : pc'[v] = pc[v]
      BY <1>5, GotoAlone DEF Enter, Labels
    <2> QED BY <1>5, <2>1, <2>2
            DEF Enter, TypeOK, Alone, queuevars, taskvars, localvars
  <1>6. CASE Entered(w)
    <2>1. sema' \in [Workers -> Nat] BY SMTT(60), <1>6 DEF Entered, TypeOK
    <2>2. pc' \in [Workers -> Labels] /\ \A v \in Others(w) : pc'[v] = pc[v]
      BY <1>6, GotoAlone DEF Entered, Labels
    <2> QED BY <1>6, <2>1, <2>2
            DEF Entered, TypeOK, Alone, queuevars, taskvars, localvars
  <1> QED BY <1>2, <1>3, <1>4, <1>5, <1>6

(* The steps of LpelSpmdHandleRequests keep the types. *)
LEMMA RequestTypes ==
  ASSUME TypeOK, NEW w \in Workers,
         CopyRequest(w) \/ CriticalSection(w) \/ Executed(w) \/ Wakeup(w),
         pc[w] = "execute" => curreq[w].wctx \in Workers,
         pc[w] = "critical" => slot[w] = qhead
  PROVE  TypeOK' /\ Alone(w)
  <1>1. CASE CopyRequest(w)
    <2>1. pc' \in [Workers -> Labels] /\ \A v \in Others(w) : pc'[v] = pc[v]
      BY <1>1, GotoAlone DEF CopyRequest, Labels, Outside
    <2>2. /\ slot' \in [Workers -> Workers] /\ curreq' \in [Workers -> Requests]
          /\ \A v \in Others(w) : slot'[v] = slot[v] /\ curreq'[v] = curreq[v]
      BY <1>1 DEF CopyRequest, TypeOK, Others
    <2> QED BY <1>1, <2>1, <2>2
            DEF CopyRequest, TypeOK, Alone, queuevars, spmdvars, taskvars
  <1>2. CASE CriticalSection(w)
    <2>1. pc' \in [Workers -> Labels] /\ \A v \in Others(w) : pc'[v] = pc[v]
      BY <1>2, GotoAlone DEF CriticalSection, Labels
    <2>2. qhead' \in Workers /\ qtail' \in Nat
      <3>1. slot[w] \in Nat /\ num_workers \in Nat /\ num_workers >= 1
            /\ qtail \in Nat
        BY WorkersAre DEF TypeOK
      <3>2. \A x \in Nat : x % num_workers \in 0 .. num_workers - 1
        BY SMTT(60), <3>1
      <3> QED BY SMTT(60), <1>2, <3>1, <3>2 DEF CriticalSection, Workers
    <2>3. req_queue' \in [Workers -> Requests]
      BY <1>2 DEF CriticalSection, TypeOK, Requests
    <2> QED BY <1>2, <2>1, <2>2, <2>3
            DEF CriticalSection, TypeOK, Alone, spmdvars, localvars, taskvars
  <1>3. CASE Executed(w)
    <2>1. pc' \in [Workers -> Labels] /\ \A v \in Others(w) : pc'[v] = pc[v]
      BY <1>3, GotoAlone DEF Executed, Labels, Outside
    <2>2. sema' \in [Workers -> Nat]
      <3>1. sema \in [Workers -> Nat] BY DEF TypeOK
      <3>2. sema' = sema \/ sema' = [sema EXCEPT ![curreq[w].wctx] = @ + 1]
        BY <1>3 DEF Executed
      <3> QED BY SMTT(60), <3>1, <3>2
    <2>3. /\ slot' \in [Workers -> Workers] /\ curreq' \in [Workers -> Requests]
          /\ \A v \in Others(w) : slot'[v] = slot[v] /\ curreq'[v] = curreq[v]
      <3>1. slot \in [Workers -> Workers] /\ curreq \in [Workers -> Requests]
            /\ 0 \in Workers
        BY SMTT(60), WorkersAre DEF TypeOK
      <3>2. \/ slot' = slot /\ curreq' = curreq
            \/ slot' = [slot EXCEPT ![w] = 0]
               /\ curreq' = [curreq EXCEPT ![w] = NoReq]
        BY <1>3 DEF Executed
      <3> QED BY SMTT(60), <3>1, <3>2, NoReqType DEF Others
    <2>4. /\ log' \in [Workers -> Seq(Workers)]
          /\ \A v \in Others(w) : log'[v] = log[v]
      BY SMTT(60), <1>3 DEF Executed, TypeOK, Others
    <2> QED BY <1>3, <2>1, <2>2, <2>3, <2>4
            DEF Executed, TypeOK, Alone, queuevars, taskvars
  <1>4. CASE Wakeup(w)
    <2>1. pc' \in [Workers -> Labels] /\ \A v \in Others(w) : pc'[v] = pc[v]
      BY <1>4, GotoAlone DEF Wakeup, Labels, Outside
    <2>2. /\ slot' \in [Workers -> Workers] /\ curreq' \in [Workers -> Requests]
          /\ \A v \in Others(w) : slot'[v] = slot[v] /\ curreq'[v] = curreq[v]
      <3>1. slot \in [Workers -> Workers] /\ curreq \in [Workers -> Requests]
            /\ 0 \in Workers
        BY SMTT(60), WorkersAre DEF TypeOK
      <3>2. slot' = [slot EXCEPT ![w] = 0] /\ curreq' = [curreq EXCEPT ![w] = NoReq]
        BY <1>4 DEF Wakeup
      <3> QED BY <3>1, <3>2, NoReqType DEF Others
    <2>3. /\ pending' \in [Workers -> {0, 1}]
          /\ \A v \in Others(w) : pending'[v] = pending[v]
      BY <1>4 DEF Wakeup, TypeOK, Others
    <2>4. ready' \in [Workers -> SUBSET Tasks] /\ waiting' \in SUBSET Tasks
      BY <1>4 DEF Wakeup, TypeOK
    <2> QED BY <1>4, <2>1, <2>2, <2>3, <2>4 DEF Wakeup, TypeOK, Alone, queuevars
  <1> QED BY <1>1, <1>2, <1>3, <1>4

(* The steps of a task and of the dispatcher keep the types. *)
LEMMA TaskTypes ==
  ASSUME TypeOK, NEW w \in Workers,
         \/ LpelSpmdRequest(w) \/ SetWctx(w) \/ SetTask(w)
         \/ LpelWorkerBroadcast(w) \/ LpelTaskExit(w) \/ FetchAllMessages(w)
         \/ Pick(w) \/ WaitForNewMessage(w),
         pc[w] = "broadcast" => cur[w] \in Tasks
  PROVE  TypeOK' /\ Alone(w)
  <1>0. 0 \in Workers /\ "wctx" \in Labels /\ "task" \in Labels /\ "run" \in Labels
        /\ "broadcast" \in Labels /\ "fetch" \in Labels /\ "handle" \in Labels
        /\ "wait" \in Labels
    BY SMTT(60), WorkersAre DEF Labels, Outside
  <1>1. CASE LpelSpmdRequest(w)
    <2>1. pc' \in [Workers -> Labels] /\ \A v \in Others(w) : pc'[v] = pc[v]
      BY <1>0, <1>1, GotoAlone DEF LpelSpmdRequest
    <2>2. /\ pending' \in [Workers -> {0, 1}]
          /\ \A v \in Others(w) : pending'[v] = pending[v]
      BY <1>1 DEF LpelSpmdRequest, TypeOK, Others
    <2>3. /\ slot' \in [Workers -> Workers] /\ qtail' \in Nat
          /\ \A v \in Others(w) : slot'[v] = slot[v]
      <3>1. qtail \in Nat /\ num_workers \in Nat /\ num_workers >= 1
            /\ slot \in [Workers -> Workers]
        BY WorkersAre DEF TypeOK
      <3>2. qtail % num_workers \in Workers BY SMTT(60), <3>1 DEF Workers
      <3>3. slot' = [slot EXCEPT ![w] = qtail % num_workers] /\ qtail' = qtail + 1
        BY <1>1 DEF LpelSpmdRequest
      <3> QED BY SMTT(60), <3>1, <3>2, <3>3 DEF Others
    <2> QED BY <1>1, <2>1, <2>2, <2>3 DEF LpelSpmdRequest, TypeOK, Alone
  <1>2. CASE SetWctx(w)
    <2>1. pc' \in [Workers -> Labels] /\ \A v \in Others(w) : pc'[v] = pc[v]
      BY <1>0, <1>2, GotoAlone DEF SetWctx
    <2>2. req_queue' \in [Workers -> Requests]
      BY <1>2 DEF SetWctx, TypeOK, Requests
    <2> QED BY <1>2, <2>1, <2>2
            DEF SetWctx, TypeOK, Alone, spmdvars, localvars, taskvars
  <1>3. CASE SetTask(w)
    <2>1. pc' \in [Workers -> Labels] /\ \A v \in Others(w) : pc'[v] = pc[v]
      BY <1>0, <1>3, GotoAlone DEF SetTask
    <2>2. req_queue' \in [Workers -> Requests]
      BY <1>3 DEF SetTask, TypeOK, Requests
    <2>3. /\ slot' \in [Workers -> Workers]
          /\ \A v \in Others(w) : slot'[v] = slot[v]
      BY <1>0, <1>3 DEF SetTask, TypeOK, Others
    <2> QED BY <1>3, <2>1, <2>2, <2>3
            DEF SetTask, TypeOK, Alone, spmdvars, taskvars
  <1>4. CASE LpelWorkerBroadcast(w)
    <2>1. /\ pc' \in [Workers -> Labels] /\ i' \in [Workers -> Nat]
          /\ \A v \in Others(w) : pc'[v] = pc[v] /\ i'[v] = i[v]
      BY <1>0, <1>4, IterateAlone DEF LpelWorkerBroadcast
    <2>2. waiting' \in SUBSET Tasks
      BY <1>4 DEF LpelWorkerBroadcast, TypeOK
    <2> QED BY <1>4, <2>1, <2>2
            DEF LpelWorkerBroadcast, TypeOK, Alone, queuevars, spmdvars
  <1>5. CASE LpelTaskExit(w)
    <2>1. pc' \in [Workers -> Labels] /\ \A v \in Others(w) : pc'[v] = pc[v]
      BY <1>0, <1>5, GotoAlone DEF LpelTaskExit
    <2> QED BY <1>5, <2>1 DEF LpelTaskExit, TypeOK, Alone, queuevars, spmdvars,
                              localvars, taskvars
  <1>6. CASE FetchAllMessages(w)
    <2>1. pc' \in [Workers -> Labels] /\ \A v \in Others(w) : pc'[v] = pc[v]
      BY <1>0, <1>6, GotoAlone DEF FetchAllMessages
    <2> QED BY <1>6, <2>1 DEF FetchAllMessages, TypeOK, Alone, queuevars,
                              spmdvars, localvars
  <1>7. CASE Pick(w)
    <2>1. pc' \in [Workers -> Labels] /\ \A v \in Others(w) : pc'[v] = pc[v]
      BY <1>0, <1>7, GotoAlone DEF Pick
    <2>2. /\ cur' \in [Workers -> Tasks \cup {NULL}]
          /\ ready' \in [Workers -> SUBSET Tasks]
      <3>1. /\ cur \in [Workers -> Tasks \cup {NULL}]
            /\ ready \in [Workers -> SUBSET Tasks]
        BY DEF TypeOK
      <3>2. CASE \E t \in ready[w] : /\ cur' = [cur EXCEPT ![w] = t]
                                     /\ ready' = [ready EXCEPT ![w] = @ \ {t}]
        BY <3>1, <3>2
      <3>3. CASE cur' = [cur EXCEPT ![w] = NULL] /\ ready' = ready
        BY <3>1, <3>3
      <3> QED BY <1>7, <3>2, <3>3 DEF Pick
    <2> QED BY <1>7, <2>1, <2>2
            DEF Pick, TypeOK, Alone, queuevars, spmdvars, localvars
  <1>8. CASE WaitForNewMessage(w)
    <2>1. pc' \in [Workers -> Labels] /\ \A v \in Others(w) : pc'[v] = pc[v]
      BY <1>0, <1>8, GotoAlone DEF WaitForNewMessage
    <2> QED BY <1>8, <2>1 DEF WaitForNewMessage, TypeOK, Alone, queuevars,
                              spmdvars, localvars, taskvars
  <1> QED BY <1>1, <1>2, <1>3, <1>4, <1>5, <1>6, <1>7, <1>8
----------------------------------------------------------------------------
(* The queue and the request at its head *)

(* The parts of the invariant. *)
LEMMA Parts ==
  ASSUME IInv
  PROVE  /\ TypeOK /\ QueueInv /\ PhaseInv /\ SemaInv /\ LogInv
         /\ \A w \in Workers : PhaseOf(w)
         /\ \A v, w \in Workers : Leads(v) /\ Leads(w) => v = w
  BY DEF IInv, PhaseInv

(* The slots of the ring, counted from the head on. *)
LEMMA Slots ==
  ASSUME TypeOK
  PROVE  /\ \A k \in 1 .. num_workers : At(k) \in Workers
         /\ At(1) = qhead
         /\ \A j, k \in 1 .. num_workers : At(j) = At(k) => j = k
  <1>1. /\ num_workers \in Nat /\ num_workers >= 1
        /\ qhead \in Nat /\ qhead < num_workers
    BY WorkersAre DEF TypeOK
  <1>2. ASSUME NEW k \in 1 .. num_workers PROVE At(k) \in Workers
    BY SMTT(60), <1>1, <1>2 DEF At, Workers
  <1>3. At(1) = qhead BY SMTT(60), <1>1 DEF At
  <1>4. ASSUME NEW j \in 1 .. num_workers, NEW k \in 1 .. num_workers,
               At(j) = At(k)
        PROVE  j = k
    BY SMTT(60), <1>1, <1>4 DEF At
  <1> QED BY <1>2, <1>3, <1>4

(* The master of the request at the head has not led it out of the queue. *)
LEMMA HeadQueued ==
  ASSUME TypeOK, QueueInv, HeadMaster # NULL
  PROVE  /\ HeadMaster \in Workers /\ Queued(HeadMaster)
         /\ ~Leads(HeadMaster) /\ pc[HeadMaster] # "wctx"
  <1>1. PICK q \in Seq(Workers) : Queues(q) BY DEF QueueInv
  <1>2. PICK k \in 1 .. Len(q) : qhead = At(k)
    BY <1>1 DEF Queues, HeadMaster, TypeOK
  <1>3. req_queue[At(k)].wctx = IF pc[q[k]] = "wctx" THEN NULL ELSE q[k]
    BY <1>1 DEF Queues
  <1>4. HeadMaster = q[k] /\ pc[q[k]] # "wctx" BY <1>2, <1>3 DEF HeadMaster
  <1>5. q[k] \in Workers BY SMTT(60)
  <1>6. Queued(q[k]) BY <1>1, <1>5 DEF Queues
  <1> QED BY <1>4, <1>5, <1>6 DEF Queued

----------------------------------------------------------------------------
(* What the invariant says of the barriers *)

(* The counts of the invariant are numbers. *)
LEMMA SemaTypes ==
  ASSUME TypeOK, NEW m \in Workers, NEW w \in Workers
  PROVE  /\ sema[m] \in Nat /\ i[m] \in Nat
         /\ Gathered(m) \in Nat /\ Collected(m) \in Nat
         /\ Told(m, w) \in {0, 1} /\ Passed(m, w) \in {0, 1}
         /\ Came(m) \in SUBSET Workers /\ Done(m) \in SUBSET Others(m)
         /\ Cardinality(Came(m)) \in Nat /\ Cardinality(Done(m)) \in Nat
  <1>1. sema[m] \in Nat /\ i[m] \in Nat BY DEF TypeOK
  <1>2. Gathered(m) \in Nat /\ Collected(m) \in Nat
    BY SMTT(60), <1>1, WorkersAre DEF Gathered, Collected
  <1>3. Told(m, w) \in {0, 1} /\ Passed(m, w) \in {0, 1} BY DEF Told, Passed
  <1>4. /\ Came(m) \in SUBSET Workers /\ Done(m) \in SUBSET Others(m)
        /\ Done(m) \in SUBSET Workers
    BY DEF Came, Done, Others
  <1>5. Cardinality(Came(m)) \in Nat /\ Cardinality(Done(m)) \in Nat
    BY <1>4, CountType
  <1> QED BY <1>1, <1>2, <1>3, <1>4, <1>5

(* A master in the critical section is alone: all others have come, and    *)
(* none leads.                                                             *)
LEMMA Barrier ==
  ASSUME IInv, NEW w \in Workers, pc[w] = "critical"
  PROVE  /\ \A m \in Workers : ~Leads(m)
         /\ Came(w) = Others(w) /\ sema[w] = 0
         /\ slot[w] = qhead /\ HeadMaster = w
         /\ \A v \in Others(w) : /\ pc[v] = "entered" /\ curreq[v].wctx = w
                                 /\ Came(v) = {} /\ sema[v] = 0
  <1>0. /\ TypeOK /\ QueueInv /\ SemaInv /\ PhaseOf(w)
        /\ \A v \in Workers : PhaseOf(v)
    BY Parts
  <1>1. /\ HeadMaster = w /\ slot[w] = qhead /\ Gathered(w) = num_workers - 1
        /\ w \notin Came(w)
    BY <1>0 DEF PhaseOf, Gathered, Came
  <1>2. Came(w) \in SUBSET Others(w) BY <1>1 DEF Came, Others
  <1>3. /\ Cardinality(Came(w)) \in Nat
        /\ Cardinality(Came(w)) <= num_workers - 1
        /\ Cardinality(Came(w)) = num_workers - 1 => Came(w) = Others(w)
    BY <1>2, CountOthers
  <1>4. sema[w] \in Nat /\ num_workers \in Nat BY <1>0, WorkersAre DEF TypeOK
  <1>5. ASSUME NEW m \in Workers, Leads(m) PROVE FALSE
    <2>1. m # w BY <1>5 DEF Leads
    <2>2. sema[w] + Gathered(w) + Passed(m, w) = Cardinality(Came(w)) + Told(m, w)
      BY <1>0, <1>5, <2>1 DEF SemaInv, Others
    <2>3. Passed(m, w) = 1 /\ Told(m, w) \in {0, 1} BY DEF Passed, Told
    <2>4. Cardinality(Came(w)) = num_workers - 1
      BY SMTT(60), <1>1, <1>3, <1>4, <2>2, <2>3
    <2>5. m \in Came(w) BY <1>3, <2>1, <2>4 DEF Others
    <2> QED BY <1>5, <2>5 DEF Came, Leads
  <1>6. sema[w] + Gathered(w) = Cardinality(Came(w)) BY <1>0, <1>5 DEF SemaInv
  <1>7. Came(w) = Others(w) /\ sema[w] = 0 BY SMTT(60), <1>1, <1>3, <1>4, <1>6
  <1>8. ASSUME NEW v \in Others(w)
        PROVE  /\ pc[v] = "entered" /\ curreq[v].wctx = w
               /\ Came(v) = {} /\ sema[v] = 0
    <2>0. v \in Workers /\ v # w BY DEF Others
    <2>1. pc[v] = "entered" /\ curreq[v].wctx = w BY <1>7 DEF Came
    <2>2. ASSUME NEW u \in Workers PROVE u \notin Came(v)
      <3>1. CASE u = w BY <3>1 DEF Came
      <3>2. CASE u # w
        <4>1. u \in Came(w) BY <1>7, <3>2 DEF Others
        <4> QED BY <2>0, <4>1 DEF Came
      <3> QED BY <3>1, <3>2
    <2>3. Came(v) = {} BY <2>2 DEF Came
    <2>4. Gathered(v) = 0 BY <2>1 DEF Gathered
    <2>5. sema[v] + Gathered(v) = Cardinality(Came(v))
      BY <1>0, <1>5, <2>0 DEF SemaInv
    <2>6. sema[v] \in Nat BY <1>0, <2>0 DEF TypeOK
    <2> QED BY SMTT(60), <2>1, <2>3, <2>4, <2>5, <2>6, FS_EmptySet
  <1> QED BY <1>1, <1>5, <1>7, <1>8

(* A worker that takes a post at the Start-Barrier is told by its master,  *)
(* who leads: a post that is meant for another request is not taken for    *)
(* this one before that.                                                   *)
LEMMA TakenInTime ==
  ASSUME IInv, NEW w \in Workers, pc[w] = "entered", sema[w] > 0
  PROVE  curreq[w].wctx \in Others(w) /\ Leads(curreq[w].wctx)
  <1>0. /\ TypeOK /\ QueueInv /\ SemaInv /\ PhaseOf(w)
        /\ \A v \in Workers : PhaseOf(v)
    BY Parts
  <1>1. /\ curreq[w].wctx \in Others(w)
        /\ curreq[w].wctx = HeadMaster \/ Leads(curreq[w].wctx)
    BY <1>0 DEF PhaseOf
  <1>2. ASSUME curreq[w].wctx = HeadMaster PROVE FALSE
    <2>1. HeadMaster \in Workers /\ HeadMaster # w /\ HeadMaster # NULL
      BY <1>1, <1>2, WorkersAre DEF Others
    <2>2. ~Leads(HeadMaster) BY <1>0, <2>1, HeadQueued
    <2>3. ~Leads(w) /\ Gathered(w) = 0 BY DEF Leads, Gathered
    <2>4. ASSUME NEW u \in Workers PROVE u \notin Came(w)
      BY <1>0, <2>1, <2>3 DEF PhaseOf, Came
    <2>5. Came(w) = {} BY <2>4 DEF Came
    <2>6. Cardinality(Came(w)) = 0 /\ sema[w] \in Nat
      BY <1>0, <2>5, FS_EmptySet DEF TypeOK
    <2>7. CASE \A m \in Workers : ~Leads(m)
      BY SMTT(60), <1>0, <2>3, <2>6, <2>7 DEF SemaInv
    <2>8. CASE \E m \in Workers : Leads(m)
      <3>1. PICK m \in Workers : Leads(m) BY <2>8
      <3>2. m # w /\ Passed(m, w) = 1 /\ Told(m, w) \in {0, 1}
        BY <1>2, <2>2, <2>3, <3>1 DEF Passed, Told
      <3>3. sema[w] + Gathered(w) + Passed(m, w)
              = Cardinality(Came(w)) + Told(m, w)
        BY <1>0, <3>1, <3>2 DEF SemaInv, Others
      <3> QED BY SMTT(60), <2>3, <2>6, <3>2, <3>3
    <2> QED BY <2>7, <2>8
  <1> QED BY <1>1, <1>2

(* A master that has passed the Stop-Barrier leaves nobody behind. *)
LEMMA AllDone ==
  ASSUME IInv, NEW w \in Workers, pc[w] = "wakeup"
  PROVE  /\ Done(w) = Others(w) /\ sema[w] = 0
         /\ \A v \in Workers :
              ~(pc[v] \in {"entered", "execute"} /\ curreq[v].wctx = w)
  <1>0. TypeOK /\ SemaInv BY Parts
  <1>1. Leads(w) /\ Collected(w) = num_workers - 1 BY DEF Leads, Collected
  <1>2. sema[w] + Collected(w) = Cardinality(Done(w)) BY <1>0, <1>1 DEF SemaInv
  <1>3. Done(w) \in SUBSET Others(w) BY DEF Done
  <1>4. sema[w] \in Nat /\ num_workers \in Nat BY <1>0, WorkersAre DEF TypeOK
  <1>5. Done(w) = Others(w) /\ sema[w] = 0
    BY SMTT(60), <1>1, <1>2, <1>3, <1>4, CountOthers
  <1>6. ASSUME NEW v \in Workers
        PROVE  ~(pc[v] \in {"entered", "execute"} /\ curreq[v].wctx = w)
    BY <1>5 DEF Done, Others
  <1> QED BY <1>5, <1>6
----------------------------------------------------------------------------
(* The semaphores and the histories: one lemma for each action *)

(* A step of one worker leaves what is counted of the others. *)
LEMMA OthersSame ==
  ASSUME NEW w \in Workers, Alone(w), NEW v \in Others(w)
  PROVE  /\ v \in Workers /\ (Leads(v)' <=> Leads(v))
         /\ Gathered(v)' = Gathered(v) /\ Collected(v)' = Collected(v)
         /\ \A u : Told(v, u)' = Told(v, u)
         /\ \A m : Passed(m, v)' = Passed(m, v)
         /\ \A m : v \in Came(m)' <=> v \in Came(m)
         /\ \A m : v \in Done(m)' <=> v \in Done(m)
         /\ \A m \in Others(w) : Ran(m, v)' <=> Ran(m, v)
  <1>1. /\ v \in Workers /\ pc'[v] = pc[v] /\ curreq'[v] = curreq[v]
        /\ i'[v] = i[v]
    BY DEF Alone, Others
  <1>2. \A m : v \in Came(m)' <=> v \in Came(m) BY <1>1 DEF Came
  <1>3. \A m : v \in Done(m)' <=> v \in Done(m) BY <1>1 DEF Done
  <1>4. ASSUME NEW m \in Others(w) PROVE Ran(m, v)' <=> Ran(m, v)
    <2>1. CASE m = v BY <1>1, <2>1 DEF Ran
    <2>2. CASE m # v BY <1>3, <2>2 DEF Ran
    <2> QED BY <2>1, <2>2
  <1>5. /\ Leads(v)' <=> Leads(v)
        /\ Gathered(v)' = Gathered(v) /\ Collected(v)' = Collected(v)
    BY <1>1 DEF Leads, Gathered, Collected
  <1>6. /\ \A u : Told(v, u)' = Told(v, u)
        /\ \A m : Passed(m, v)' = Passed(m, v)
    BY <1>1 DEF Told, Passed
  <1> QED BY <1>1, <1>2, <1>3, <1>4, <1>5, <1>6

(* So a set of workers changes by w at most. *)
LEMMA SetsSame ==
  ASSUME NEW w \in Workers, Alone(w), NEW m
  PROVE  /\ (w \in Came(m)' <=> w \in Came(m)) => Came(m)' = Came(m)
         /\ w \in Came(m)' => Came(m)' = Came(m) \cup {w}
         /\ (w \in Done(m)' <=> w \in Done(m)) => Done(m)' = Done(m)
         /\ w \in Done(m)' => Done(m)' = Done(m) \cup {w}
  <1>1. \A v \in Others(w) : /\ v \in Came(m)' <=> v \in Came(m)
                             /\ v \in Done(m)' <=> v \in Done(m)
    BY OthersSame
  <1>2. /\ \A v \in Came(m)' : v = w \/ v \in Others(w)
        /\ \A v \in Came(m) : v = w \/ v \in Others(w)
        /\ \A v \in Done(m)' : v = w \/ v \in Others(w)
        /\ \A v \in Done(m) : v = w \/ v \in Others(w)
    BY DEF Came, Done, Others
  <1> QED BY SMTT(60), <1>1, <1>2

(* Steps that touch no semaphore and neither end nor begin to wait. *)
LEMMA NeutralKeeps ==
  ASSUME IInv, NEW w \in Workers, Alone(w), TypeOK',
         sema' = sema, log' = log,
         pc[w] \notin {"entered", "execute"}, pc'[w] \notin {"entered", "execute"},
         ~Leads(w), ~Leads(w)', Gathered(w)' = Gathered(w)
  PROVE  SemaInv' /\ LogInv'
  <1>0. SemaInv /\ LogInv BY Parts
  <1>1. \A m : ~(w \in Came(m)) /\ ~(w \in Came(m)') BY DEF Came
  <1>2. \A m : w \in Done(m)' <=> w \in Done(m) BY DEF Done
  <1>3. \A m : Came(m)' = Came(m) /\ Done(m)' = Done(m)
    BY <1>1, <1>2, SetsSame
  <1>4. \A m \in Workers : Leads(m)' <=> Leads(m) BY OthersSame DEF Others
  <1>5. \A v \in Workers : Gathered(v)' = Gathered(v) BY OthersSame DEF Others
  <1>6. \A m \in Workers : Leads(m) => m \in Others(w) BY DEF Others
  <1>7. \A m : Passed(m, w)' = Passed(m, w) BY DEF Passed
  <1>8. \A m \in Workers : Leads(m) =>
          /\ Collected(m)' = Collected(m)
          /\ \A v \in Workers : Told(m, v)' = Told(m, v)
                               /\ Passed(m, v)' = Passed(m, v)
    BY <1>6, <1>7, OthersSame DEF Others
  <1>9. SemaInv'
    <2>1. ASSUME NEW m \in Workers, Leads(m)'
          PROVE  /\ sema'[m] + Collected(m)' = Cardinality(Done(m)')
                 /\ \A v \in Others(m) : sema'[v] + Gathered(v)' + Passed(m, v)'
                                = Cardinality(Came(v)') + Told(m, v)'
      <3>1. Leads(m) BY <1>4, <2>1
      <3>2. /\ sema[m] + Collected(m) = Cardinality(Done(m))
            /\ \A v \in Others(m) : sema[v] + Gathered(v) + Passed(m, v)
                                = Cardinality(Came(v)) + Told(m, v)
        BY <1>0, <3>1 DEF SemaInv
      <3> QED BY <1>3, <1>5, <1>8, <3>1, <3>2 DEF Others
    <2>2. ASSUME \A m \in Workers : ~Leads(m)', NEW v \in Workers
          PROVE  sema'[v] + Gathered(v)' = Cardinality(Came(v)')
      <3>1. sema[v] + Gathered(v) = Cardinality(Came(v))
        BY <1>0, <1>4, <2>2 DEF SemaInv
      <3> QED BY <1>3, <1>5, <3>1
    <2> QED BY <2>1, <2>2 DEF SemaInv, Others
  <1>10. LogInv'
    <2>1. PICK l \in Seq(Workers) : Logs(l) BY <1>0 DEF LogInv
    <2>2. \A m, u \in Workers : Leads(m) => (Ran(m, u)' <=> Ran(m, u))
      <3>1. ASSUME NEW m \in Workers, NEW u \in Workers, Leads(m)
            PROVE  Ran(m, u)' <=> Ran(m, u)
        <4>1. m \in Others(w) BY <1>6, <3>1
        <4>2. CASE u = w BY <1>3, <4>1, <4>2 DEF Ran, Others
        <4>3. CASE u # w BY <4>1, <4>3, OthersSame DEF Others
        <4> QED BY <4>2, <4>3
      <3> QED BY <3>1
    <2>3. Logs(l)' BY <1>4, <2>1, <2>2 DEF Logs
    <2> QED BY <2>1, <2>3 DEF LogInv
  <1> QED BY <1>9, <1>10

(* A step in which nobody executes a request leaves the log right. *)
LEMMA LogKeeps ==
  ASSUME LogInv, log' = log, \A m \in Workers : Leads(m)' <=> Leads(m),
         \A m, u \in Workers : Leads(m) => (Ran(m, u)' <=> Ran(m, u))
  PROVE  LogInv'
  <1>1. PICK l \in Seq(Workers) : Logs(l) BY DEF LogInv
  <1>2. Logs(l)' BY <1>1 DEF Logs
  <1> QED BY <1>1, <1>2 DEF LogInv

(* A worker posts to the master that it is at the Start-Barrier. *)
LEMMA EnterKeeps ==
  ASSUME IInv, NEW w \in Workers, Enter(w), Alone(w), TypeOK'
  PROVE  SemaInv' /\ LogInv'
  <1>0. TypeOK /\ QueueInv /\ SemaInv /\ LogInv /\ PhaseOf(w) BY Parts
  <1>1. PICK h : h = HeadMaster OBVIOUS
  <1>2. /\ pc[w] = "enter" /\ pc'[w] = "entered" /\ curreq' = curreq
        /\ sema' = [sema EXCEPT ![curreq[w].wctx] = @ + 1] /\ log' = log
    BY <1>0, GotoAlone DEF Enter, localvars, Labels
  <1>3. curreq[w].wctx = h /\ h \in Others(w) /\ h # NULL
    BY <1>0, <1>1, <1>2, WorkersAre DEF PhaseOf, Others
  <1>4. ~Leads(h) BY <1>0, <1>1, <1>3, HeadQueued
  <1>5. /\ ~Leads(w) /\ ~Leads(w)' /\ Gathered(w) = 0 /\ Gathered(w)' = 0
        /\ \A m : m # h => Passed(m, w)' = 1 /\ Passed(m, w) = 1
    BY <1>2, <1>3 DEF Leads, Gathered, Passed
  <1>6. \A m : w \notin Came(m) /\ (w \in Came(m)' <=> m = h)
    BY <1>2, <1>3 DEF Came
  <1>7. \A m : m # h => (w \in Done(m)' <=> w \in Done(m))
    BY <1>2, <1>3 DEF Done
  <1>8. \A m : m # h => Came(m)' = Came(m) /\ Done(m)' = Done(m)
    BY <1>6, <1>7, SetsSame
  <1>9. Cardinality(Came(h)') = Cardinality(Came(h)) + 1
    <2>1. Came(h)' = Came(h) \cup {w} BY <1>6, SetsSame
    <2>2. Came(h) \in SUBSET Workers BY DEF Came
    <2> QED BY <1>6, <2>1, <2>2, CountAdd
  <1>10. /\ sema'[h] = sema[h] + 1 /\ \A v \in Workers : v # h => sema'[v] = sema[v]
    BY <1>0, <1>2, <1>3 DEF TypeOK, Others
  <1>11. \A m \in Workers : Leads(m)' <=> Leads(m)
    BY <1>5, OthersSame DEF Others
  <1>12. \A v \in Workers : Gathered(v)' = Gathered(v)
    BY <1>5, OthersSame DEF Others
  <1>13. ASSUME NEW m \in Workers, Leads(m)
         PROVE  /\ m # h /\ m \in Others(w) /\ Collected(m)' = Collected(m)
                /\ \A v \in Workers : Told(m, v)' = Told(m, v)
                                     /\ Passed(m, v)' = Passed(m, v)
                                     /\ (Ran(m, v)' <=> Ran(m, v))
    <2>1. m # h /\ m \in Others(w) BY <1>4, <1>5, <1>13 DEF Others
    <2>2. Ran(m, w)' <=> Ran(m, w) BY <1>8, <2>1 DEF Ran, Others
    <2>3. Passed(m, w)' = Passed(m, w) BY <1>5, <2>1
    <2> QED BY <2>1, <2>2, <2>3, OthersSame DEF Others
  <1>14. \A v \in Workers : sema[v] \in Nat /\ Gathered(v) \in Nat
                             /\ Cardinality(Came(v)) \in Nat
    BY <1>0, SemaTypes
  <1>15. ASSUME NEW m \in Workers, Leads(m)'
         PROVE  /\ sema'[m] + Collected(m)' = Cardinality(Done(m)')
                /\ \A v \in Others(m) : sema'[v] + Gathered(v)' + Passed(m, v)'
                               = Cardinality(Came(v)') + Told(m, v)'
    <2>1. Leads(m) BY <1>11, <1>15
    <2>2. /\ sema[m] + Collected(m) = Cardinality(Done(m))
          /\ \A v \in Others(m) : sema[v] + Gathered(v) + Passed(m, v)
                               = Cardinality(Came(v)) + Told(m, v)
      BY <1>0, <2>1 DEF SemaInv
    <2>3. ASSUME NEW v \in Others(m)
          PROVE  sema'[v] + Gathered(v)' + Passed(m, v)'
                   = Cardinality(Came(v)') + Told(m, v)'
      <3>0. v \in Workers /\ Passed(m, v) \in {0, 1} /\ Told(m, v) \in {0, 1}
        BY <1>0, SemaTypes DEF Others
      <3>1. CASE v = h
        BY SMTT(60), <1>9, <1>10, <1>12, <1>13, <1>14, <2>1, <2>2, <3>0, <3>1
      <3>2. CASE v # h
        BY <1>8, <1>10, <1>12, <1>13, <2>1, <2>2, <3>0, <3>2
      <3> QED BY <3>1, <3>2
    <2>4. sema'[m] = sema[m] /\ Done(m)' = Done(m) BY <1>8, <1>10, <1>13, <2>1
    <2> QED BY <1>13, <2>1, <2>2, <2>3, <2>4
  <1>16. ASSUME \A m \in Workers : ~Leads(m)', NEW v \in Workers
         PROVE  sema'[v] + Gathered(v)' = Cardinality(Came(v)')
    <2>1. sema[v] + Gathered(v) = Cardinality(Came(v))
      BY <1>0, <1>11, <1>16 DEF SemaInv
    <2>2. CASE v = h BY SMTT(60), <1>9, <1>10, <1>12, <1>14, <2>1, <2>2
    <2>3. CASE v # h BY <1>8, <1>10, <1>12, <2>1, <2>3
    <2> QED BY <2>2, <2>3
  <1>17. SemaInv' BY <1>15, <1>16 DEF SemaInv, Others
  <1>18. LogInv' BY <1>0, <1>2, <1>11, <1>13, LogKeeps
  <1> QED BY <1>17, <1>18

(* The master takes a post of the Start-Barrier. *)
LEMMA GatherKeeps ==
  ASSUME IInv, NEW w \in Workers, Gather(w), Alone(w), TypeOK'
  PROVE  SemaInv' /\ LogInv'
  <1>0. TypeOK /\ QueueInv /\ SemaInv /\ LogInv /\ PhaseOf(w) BY Parts
  <1>1. /\ pc[w] = "gather" /\ sema[w] > 0 /\ curreq' = curreq /\ log' = log
        /\ sema' = [sema EXCEPT ![w] = @ - 1]
        /\ Iterate(w, num_workers - 2, "critical")
    BY DEF Gather, SemWaitAll
  <1>2. /\ i[w] \in Nat /\ num_workers \in Nat /\ i[w] + 2 <= num_workers
        /\ pc \in [Workers -> Labels] /\ i \in [Workers -> Nat]
    BY <1>0, <1>1, WorkersAre DEF PhaseOf, TypeOK
  <1>3. \/ i'[w] = i[w] + 1 /\ pc'[w] = "gather" /\ i[w] < num_workers - 2
        \/ i'[w] = 0 /\ pc'[w] = "critical" /\ i[w] = num_workers - 2
    BY SMTT(60), <1>1, <1>2 DEF Iterate, Goto
  <1>4. Gathered(w)' = Gathered(w) + 1 /\ Gathered(w) \in Nat
    BY SMTT(60), <1>1, <1>2, <1>3 DEF Gathered
  <1>5. pc'[w] \in {"gather", "critical"} BY <1>3
  <1>6. /\ ~Leads(w) /\ ~Leads(w)'
        /\ \A m : Passed(m, w)' = 1 /\ Passed(m, w) = 1
    BY <1>1, <1>5 DEF Leads, Passed
  <1>7. \A m : /\ w \in Came(m)' <=> w \in Came(m)
               /\ w \in Done(m)' <=> w \in Done(m)
    BY <1>1, <1>5 DEF Came, Done
  <1>8. \A m : Came(m)' = Came(m) /\ Done(m)' = Done(m) BY <1>7, SetsSame
  <1>9. /\ sema'[w] = sema[w] - 1 /\ sema[w] \in Nat
        /\ \A v \in Others(w) : sema'[v] = sema[v]
    BY <1>0, <1>1 DEF TypeOK, Others
  <1>10. \A m \in Workers : Leads(m)' <=> Leads(m)
    BY <1>6, OthersSame DEF Others
  <1>11. \A v \in Workers :
           sema'[v] + Gathered(v)' = sema[v] + Gathered(v)
    <2>1. \A v \in Others(w) : Gathered(v)' = Gathered(v) BY OthersSame
    <2> QED BY SMTT(60), <1>4, <1>9, <2>1 DEF Others
  <1>12. ASSUME NEW m \in Workers, Leads(m)
         PROVE  /\ m \in Others(w) /\ Collected(m)' = Collected(m)
                /\ \A v \in Workers : Told(m, v)' = Told(m, v)
                                     /\ Passed(m, v)' = Passed(m, v)
                                     /\ (Ran(m, v)' <=> Ran(m, v))
    <2>1. m \in Others(w) BY <1>6, <1>12 DEF Others
    <2>2. Ran(m, w)' <=> Ran(m, w) BY <1>8, <2>1 DEF Ran, Others
    <2>3. Passed(m, w)' = Passed(m, w) BY <1>6, <2>1
    <2> QED BY <2>1, <2>2, <2>3, OthersSame DEF Others
  <1>13. ASSUME NEW m \in Workers, Leads(m)'
         PROVE  /\ sema'[m] + Collected(m)' = Cardinality(Done(m)')
                /\ \A v \in Others(m) : sema'[v] + Gathered(v)' + Passed(m, v)'
                               = Cardinality(Came(v)') + Told(m, v)'
    <2>1. Leads(m) BY <1>10, <1>13
    <2>2. /\ sema[m] + Collected(m) = Cardinality(Done(m))
          /\ \A v \in Others(m) : sema[v] + Gathered(v) + Passed(m, v)
                               = Cardinality(Came(v)) + Told(m, v)
      BY <1>0, <2>1 DEF SemaInv
    <2> QED BY <1>8, <1>9, <1>11, <1>12, <2>1, <2>2 DEF Others
  <1>14. ASSUME \A m \in Workers : ~Leads(m)', NEW v \in Workers
         PROVE  sema'[v] + Gathered(v)' = Cardinality(Came(v)')
    BY <1>0, <1>8, <1>10, <1>11, <1>14 DEF SemaInv
  <1>15. SemaInv' BY <1>13, <1>14 DEF SemaInv, Others
  <1>16. LogInv' BY <1>0, <1>1, <1>10, <1>12, LogKeeps
  <1> QED BY <1>15, <1>16

(* While m leads, before and after, the others do not. *)
LEMMA LeaderKeeps ==
  ASSUME NEW m \in Workers, \A u \in Workers : Leads(u)' <=> u = m,
         sema'[m] + Collected(m)' = Cardinality(Done(m)'),
         \A v \in Others(m) : sema'[v] + Gathered(v)' + Passed(m, v)'
                                = Cardinality(Came(v)') + Told(m, v)'
  PROVE  SemaInv'
  BY DEF SemaInv, Others

(* There is one master at a time, and what the semaphores hold then. *)
LEMMA LeaderFacts ==
  ASSUME IInv, NEW m \in Workers, Leads(m)
  PROVE  /\ \A u \in Workers : Leads(u) <=> u = m
         /\ sema[m] + Collected(m) = Cardinality(Done(m))
         /\ \A v \in Others(m) : sema[v] + Gathered(v) + Passed(m, v)
                                = Cardinality(Came(v)) + Told(m, v)
         /\ curreq[m].wctx = m /\ pending[m] = 1
  BY Parts DEF SemaInv, PhaseOf

(* The master signals to the others, one by one, that they may execute. *)
LEMMA SignalKeeps ==
  ASSUME IInv, NEW w \in Workers, Signal(w), Alone(w), TypeOK'
  PROVE  SemaInv' /\ LogInv'
  <1>0. TypeOK /\ SemaInv /\ LogInv /\ PhaseOf(w) BY Parts
  <1>1. /\ pc[w] = "signal" /\ curreq' = curreq /\ log' = log
        /\ sema' = IF i[w] = w THEN sema ELSE [sema EXCEPT ![i[w]] = @ + 1]
        /\ Iterate(w, num_workers - 1, "execute")
    BY DEF Signal
  <1>2. /\ i[w] \in Nat /\ num_workers \in Nat /\ i[w] + 1 <= num_workers
        /\ pc \in [Workers -> Labels] /\ i \in [Workers -> Nat]
    BY <1>0, <1>1, WorkersAre DEF PhaseOf, TypeOK
  <1>3. \/ i'[w] = i[w] + 1 /\ pc'[w] = "signal" /\ i[w] < num_workers - 1
        \/ i'[w] = 0 /\ pc'[w] = "execute" /\ i[w] = num_workers - 1
    BY SMTT(60), <1>1, <1>2 DEF Iterate, Goto
  <1>4. Leads(w) BY <1>1 DEF Leads
  <1>5. /\ \A u \in Workers : Leads(u) <=> u = w
        /\ sema[w] + Collected(w) = Cardinality(Done(w))
        /\ \A v \in Others(w) : sema[v] + Gathered(v) + Passed(w, v)
                               = Cardinality(Came(v)) + Told(w, v)
        /\ curreq[w].wctx = w
    BY <1>4, LeaderFacts
  <1>6. Leads(w)' /\ Collected(w)' = 0 /\ Collected(w) = 0
    BY <1>1, <1>3, <1>5 DEF Leads, Collected
  <1>7. \A u \in Workers : Leads(u)' <=> u = w
    BY <1>5, <1>6, OthersSame DEF Others
  <1>8. ASSUME NEW v \in Workers PROVE v # w => Came(v)' = Came(v)
    <2>1. v # w => ~(w \in Came(v)) /\ ~(w \in Came(v)')
      BY <1>1, <1>5 DEF Came
    <2> QED BY <2>1, SetsSame
  <1>9. Done(w)' = Done(w)
    <2>1. ~(w \in Done(w)) /\ ~(w \in Done(w)') BY DEF Done, Others
    <2> QED BY <2>1, SetsSame
  <1>10. ASSUME NEW v \in Others(w)
         PROVE  sema'[v] + Told(w, v) = sema[v] + Told(w, v)'
    <2>1. v \in Nat /\ v < num_workers /\ v # w /\ v \in Workers /\ sema[v] \in Nat
      BY <1>0, WorkersAre DEF Others, TypeOK
    <2>2. CASE v = i[w]
      <3>1. sema'[v] = sema[v] + 1 BY <1>0, <1>1, <2>1, <2>2 DEF TypeOK
      <3>2. Told(w, v) = 0 BY SMTT(60), <1>1, <2>1, <2>2 DEF Told
      <3>3. Told(w, v)' = 1 BY SMTT(60), <1>2, <1>3, <2>1, <2>2 DEF Told
      <3> QED BY SMTT(60), <2>1, <3>1, <3>2, <3>3
    <2>3. CASE v # i[w]
      <3>1. sema'[v] = sema[v] BY <1>0, <1>1, <2>1, <2>3 DEF TypeOK
      <3>2. Told(w, v)' = Told(w, v)
        BY SMTT(60), <1>1, <1>2, <1>3, <2>1, <2>3 DEF Told
      <3> QED BY <3>1, <3>2
    <2> QED BY <2>2, <2>3
  <1>11. sema'[w] = sema[w] BY <1>0, <1>1, <1>2 DEF TypeOK
  <1>12. ASSUME NEW v \in Others(w)
         PROVE  sema'[v] + Gathered(v)' + Passed(w, v)'
                               = Cardinality(Came(v)') + Told(w, v)'
    <2>1. /\ sema[v] \in Nat /\ sema'[v] \in Nat /\ Gathered(v) \in Nat
          /\ Passed(w, v) \in {0, 1} /\ Cardinality(Came(v)) \in Nat
          /\ Told(w, v) \in {0, 1}
      BY <1>0, SemaTypes DEF Others, TypeOK
    <2>2. Told(w, v)' \in {0, 1} BY DEF Told
    <2>3. Gathered(v)' = Gathered(v) /\ Passed(w, v)' = Passed(w, v)
      BY OthersSame
    <2>4. Came(v)' = Came(v) BY <1>8 DEF Others
    <2>5. sema[v] + Gathered(v) + Passed(w, v) = Cardinality(Came(v)) + Told(w, v)
      BY <1>5
    <2> QED BY SMTT(60), <1>10, <2>1, <2>2, <2>3, <2>4, <2>5
  <1>13. SemaInv' BY <1>5, <1>6, <1>7, <1>9, <1>11, <1>12, LeaderKeeps
  <1>14. ASSUME NEW u \in Workers PROVE Ran(w, u)' <=> Ran(w, u)
    BY <1>1, <1>3, <1>9 DEF Ran
  <1>15. LogInv' BY <1>0, <1>1, <1>5, <1>7, <1>14, LogKeeps
  <1> QED BY <1>13, <1>15

(* The master takes a post of the Stop-Barrier. *)
LEMMA CollectKeeps ==
  ASSUME IInv, NEW w \in Workers, Collect(w), Alone(w), TypeOK'
  PROVE  SemaInv' /\ LogInv'
  <1>0. TypeOK /\ SemaInv /\ LogInv /\ PhaseOf(w) BY Parts
  <1>1. /\ pc[w] = "collect" /\ curreq' = curreq /\ log' = log /\ sema[w] > 0
        /\ sema' = [sema EXCEPT ![w] = @ - 1]
        /\ Iterate(w, num_workers - 2, "wakeup")
    BY DEF Collect, SemWaitAll
  <1>2. /\ i[w] \in Nat /\ num_workers \in Nat /\ i[w] + 2 <= num_workers
        /\ pc \in [Workers -> Labels] /\ i \in [Workers -> Nat]
    BY <1>0, <1>1, WorkersAre DEF PhaseOf, TypeOK
  <1>3. \/ i'[w] = i[w] + 1 /\ pc'[w] = "collect" /\ i[w] < num_workers - 2
        \/ i'[w] = 0 /\ pc'[w] = "wakeup" /\ i[w] = num_workers - 2
    BY SMTT(60), <1>1, <1>2 DEF Iterate, Goto
  <1>4. Leads(w) BY <1>1 DEF Leads
  <1>5. /\ \A u \in Workers : Leads(u) <=> u = w
        /\ sema[w] + Collected(w) = Cardinality(Done(w))
        /\ \A v \in Others(w) : sema[v] + Gathered(v) + Passed(w, v)
                               = Cardinality(Came(v)) + Told(w, v)
    BY <1>4, LeaderFacts
  <1>6. Collected(w)' = Collected(w) + 1 /\ Collected(w) \in Nat
    BY SMTT(60), <1>1, <1>2, <1>3 DEF Collected
  <1>7. pc'[w] \in {"collect", "wakeup"} BY <1>3
  <1>8. \A u \in Workers : Leads(u)' <=> u = w
    <2>1. Leads(w)' BY <1>7 DEF Leads
    <2> QED BY <1>5, <2>1, OthersSame DEF Others
  <1>9. ASSUME NEW m PROVE Came(m)' = Came(m)
    <2>1. ~(w \in Came(m)) /\ ~(w \in Came(m)') BY <1>1, <1>7 DEF Came
    <2> QED BY <2>1, SetsSame
  <1>10. Done(w)' = Done(w)
    <2>1. ~(w \in Done(w)) /\ ~(w \in Done(w)') BY DEF Done, Others
    <2> QED BY <2>1, SetsSame
  <1>11. /\ sema'[w] = sema[w] - 1 /\ sema[w] \in Nat
         /\ \A v \in Others(w) : sema'[v] = sema[v]
    BY <1>0, <1>1 DEF TypeOK, Others
  <1>12. \A v : Told(w, v)' = 1 /\ Told(w, v) = 1 BY <1>1, <1>7 DEF Told
  <1>13. ASSUME NEW v \in Others(w)
         PROVE  sema'[v] + Gathered(v)' + Passed(w, v)'
                               = Cardinality(Came(v)') + Told(w, v)'
    <2>1. Gathered(v)' = Gathered(v) /\ Passed(w, v)' = Passed(w, v)
      BY OthersSame
    <2> QED BY SMTT(60), <1>5, <1>9, <1>11, <1>12, <2>1
  <1>14. sema'[w] + Collected(w)' = Cardinality(Done(w)')
    BY SMTT(60), <1>5, <1>6, <1>10, <1>11
  <1>15. SemaInv' BY <1>8, <1>13, <1>14, LeaderKeeps
  <1>16. ASSUME NEW u \in Workers PROVE Ran(w, u)' <=> Ran(w, u)
    BY <1>1, <1>7, <1>10 DEF Ran
  <1>17. LogInv' BY <1>0, <1>1, <1>5, <1>8, <1>16, LogKeeps
  <1> QED BY <1>15, <1>17

(* A worker takes the master's signal, and executes. *)
LEMMA EnteredKeeps ==
  ASSUME IInv, NEW w \in Workers, Entered(w), Alone(w), TypeOK'
  PROVE  SemaInv' /\ LogInv'
  <1>0. TypeOK /\ SemaInv /\ LogInv /\ PhaseOf(w) BY Parts
  <1>1. /\ pc[w] = "entered" /\ pc'[w] = "execute" /\ curreq' = curreq
        /\ log' = log /\ sema[w] > 0 /\ sema' = [sema EXCEPT ![w] = @ - 1]
    BY <1>0, GotoAlone DEF Entered, localvars, Labels
  <1>2. PICK m \in Others(w) : curreq[w].wctx = m /\ Leads(m)
    BY <1>1, TakenInTime
  <1>3. m \in Workers /\ m # w /\ w \in Others(m) BY DEF Others
  <1>4. /\ \A u \in Workers : Leads(u) <=> u = m
        /\ sema[m] + Collected(m) = Cardinality(Done(m))
        /\ \A v \in Others(m) : sema[v] + Gathered(v) + Passed(m, v)
                               = Cardinality(Came(v)) + Told(m, v)
    BY <1>2, <1>3, LeaderFacts
  <1>5. \A u \in Workers : Leads(u)' <=> u = m
    <2>1. ~Leads(w)' BY <1>1, <1>2, <1>3 DEF Leads
    <2> QED BY <1>3, <1>4, <2>1, OthersSame DEF Others
  <1>6. ASSUME NEW v, v # m PROVE Came(v)' = Came(v)
    <2>1. ~(w \in Came(v)) /\ ~(w \in Came(v)') BY <1>1, <1>2, <1>6 DEF Came
    <2> QED BY <2>1, SetsSame
  <1>7. Done(m)' = Done(m)
    <2>1. ~(w \in Done(m)) /\ ~(w \in Done(m)') BY <1>1, <1>2 DEF Done
    <2> QED BY <2>1, SetsSame
  <1>8. /\ sema'[w] = sema[w] - 1 /\ sema[w] \in Nat
        /\ \A v \in Others(w) : sema'[v] = sema[v]
    BY <1>0, <1>1 DEF TypeOK, Others
  <1>9. /\ Passed(m, w) = 0 /\ Passed(m, w)' = 1
        /\ Gathered(w) = 0 /\ Gathered(w)' = 0
    BY <1>1, <1>2 DEF Passed, Gathered
  <1>10. Collected(m)' = Collected(m) /\ \A v : Told(m, v)' = Told(m, v)
    BY OthersSame
  <1>11. ASSUME NEW v \in Others(m)
         PROVE  sema'[v] + Gathered(v)' + Passed(m, v)'
                               = Cardinality(Came(v)') + Told(m, v)'
    <2>1. v \in Workers /\ Came(v)' = Came(v) BY <1>6 DEF Others
    <2>2. sema[v] + Gathered(v) + Passed(m, v) = Cardinality(Came(v)) + Told(m, v)
      BY <1>4
    <2>3. CASE v = w BY SMTT(60), <1>8, <1>9, <1>10, <2>1, <2>2, <2>3
    <2>4. CASE v # w
      <3>1. v \in Others(w) BY <2>1, <2>4 DEF Others
      <3>2. Gathered(v)' = Gathered(v) /\ Passed(m, v)' = Passed(m, v)
        BY <3>1, OthersSame
      <3> QED BY <1>8, <1>10, <2>1, <2>2, <3>1, <3>2
    <2> QED BY <2>3, <2>4
  <1>12. sema'[m] + Collected(m)' = Cardinality(Done(m)')
    BY <1>4, <1>7, <1>8, <1>10
  <1>13. SemaInv' BY <1>3, <1>5, <1>11, <1>12, LeaderKeeps
  <1>14. ASSUME NEW u \in Workers PROVE Ran(m, u)' <=> Ran(m, u)
    <2>1. pc'[m] = pc[m] BY DEF Alone
    <2> QED BY <1>7, <2>1 DEF Ran
  <1>15. LogInv' BY <1>0, <1>1, <1>4, <1>5, <1>14, LogKeeps
  <1> QED BY <1>13, <1>15

(* A worker posts to its master when it has executed. *)
LEMMA FinishKeeps ==
  ASSUME IInv, NEW w \in Workers, Executed(w), curreq[w].wctx # w,
         Alone(w), TypeOK'
  PROVE  SemaInv' /\ LogInv'
  <1>0. TypeOK /\ SemaInv /\ LogInv /\ PhaseOf(w) BY Parts
  <1>1. /\ pc[w] = "execute" /\ pc'[w] = "handle"
        /\ log' = [log EXCEPT ![w] = Append(@, curreq[w].wctx)]
        /\ sema' = [sema EXCEPT ![curreq[w].wctx] = @ + 1]
    BY <1>0, GotoAlone DEF Executed, Labels, Outside
  <1>2. PICK m \in Workers : curreq[w].wctx = m /\ Leads(m)
    BY <1>0, <1>1 DEF PhaseOf
  <1>3. m # w /\ m \in Others(w) /\ w \in Others(m) BY <1>2 DEF Others
  <1>4. /\ \A u \in Workers : Leads(u) <=> u = m
        /\ sema[m] + Collected(m) = Cardinality(Done(m))
        /\ \A v \in Others(m) : sema[v] + Gathered(v) + Passed(m, v)
                               = Cardinality(Came(v)) + Told(m, v)
    BY <1>2, LeaderFacts
  <1>5. \A u \in Workers : Leads(u)' <=> u = m
    <2>1. ~Leads(w)' BY <1>1 DEF Leads
    <2> QED BY <1>3, <1>4, <2>1, OthersSame DEF Others
  <1>6. ASSUME NEW v PROVE Came(v)' = Came(v)
    <2>1. ~(w \in Came(v)) /\ ~(w \in Came(v)') BY <1>1 DEF Came
    <2> QED BY <2>1, SetsSame
  <1>7. ~(w \in Done(m)) /\ w \in Done(m)' BY <1>1, <1>2, <1>3 DEF Done
  <1>8. Done(m)' = Done(m) \cup {w} BY <1>7, SetsSame
  <1>9. Cardinality(Done(m)') = Cardinality(Done(m)) + 1
    <2>1. Done(m) \in SUBSET Workers BY DEF Done, Others
    <2> QED BY <1>7, <1>8, <2>1, CountAdd
  <1>10. /\ sema'[m] = sema[m] + 1 /\ sema[m] \in Nat
         /\ \A v \in Others(m) : sema'[v] = sema[v]
    BY <1>0, <1>1, <1>2 DEF TypeOK, Others
  <1>11. /\ Passed(m, w) = 1 /\ Passed(m, w)' = 1
         /\ Gathered(w) = 0 /\ Gathered(w)' = 0
    BY <1>1 DEF Passed, Gathered
  <1>12. Collected(m)' = Collected(m) /\ \A v : Told(m, v)' = Told(m, v)
    BY <1>3, OthersSame
  <1>13. ASSUME NEW v \in Others(m)
         PROVE  sema'[v] + Gathered(v)' + Passed(m, v)'
                               = Cardinality(Came(v)') + Told(m, v)'
    <2>1. CASE v = w BY <1>4, <1>6, <1>10, <1>11, <1>12, <2>1
    <2>2. CASE v # w
      <3>1. v \in Others(w) BY <2>2 DEF Others
      <3>2. Gathered(v)' = Gathered(v) /\ Passed(m, v)' = Passed(m, v)
        BY <3>1, OthersSame
      <3> QED BY <1>4, <1>6, <1>10, <1>12, <3>2
    <2> QED BY <2>1, <2>2
  <1>14. sema'[m] + Collected(m)' = Cardinality(Done(m)')
    <2>1. Collected(m) \in Nat /\ Cardinality(Done(m)) \in Nat
      BY <1>0, SemaTypes
    <2> QED BY SMTT(60), <1>4, <1>9, <1>10, <1>12, <2>1
  <1>15. SemaInv' BY <1>5, <1>13, <1>14, LeaderKeeps
  <1>16. LogInv'
    <2>1. PICK l \in Seq(Workers) : Logs(l) BY <1>0 DEF LogInv
    <2>2. \A u \in Workers : log[u] = IF Ran(m, u) THEN Append(l, m) ELSE l
      BY <1>2, <2>1 DEF Logs
    <2>3. ~Ran(m, w) /\ Ran(m, w)' BY <1>3, <1>7 DEF Ran
    <2>4. log'[w] = Append(l, m)
      BY <1>0, <1>1, <1>2, <2>2, <2>3 DEF TypeOK
    <2>5. ASSUME NEW u \in Others(w)
          PROVE  log'[u] = log[u] /\ (Ran(m, u)' <=> Ran(m, u)) /\ u \in Workers
      BY <1>3, OthersSame DEF Alone
    <2>6. ASSUME NEW u \in Workers
          PROVE  log'[u] = IF Ran(m, u)' THEN Append(l, m) ELSE l
      <3>1. CASE u = w BY <2>3, <2>4, <3>1
      <3>2. CASE u # w
        <4>1. u \in Others(w) BY <3>2 DEF Others
        <4> QED BY <2>2, <2>5, <4>1
      <3> QED BY <3>1, <3>2
    <2>7. Logs(l)' BY <1>5, <2>6 DEF Logs
    <2> QED BY <2>1, <2>7 DEF LogInv
  <1> QED BY <1>15, <1>16

(* The master goes on to the Stop-Barrier. *)
LEMMA LeadKeeps ==
  ASSUME IInv, NEW w \in Workers, Executed(w), curreq[w].wctx = w,
         Alone(w), TypeOK'
  PROVE  SemaInv' /\ LogInv'
  <1>0. TypeOK /\ SemaInv /\ LogInv /\ PhaseOf(w) BY Parts
  <1>1. /\ pc[w] = "execute"
        /\ pc'[w] = IF num_workers = 1 THEN "wakeup" ELSE "collect"
        /\ log' = [log EXCEPT ![w] = Append(@, w)]
        /\ sema' = sema /\ i' = i
    BY <1>0, GotoAlone DEF Executed, Labels
  <1>2. Leads(w) /\ i[w] = 0 BY <1>0, <1>1 DEF Leads, PhaseOf
  <1>3. /\ \A u \in Workers : Leads(u) <=> u = w
        /\ sema[w] + Collected(w) = Cardinality(Done(w))
        /\ \A v \in Others(w) : sema[v] + Gathered(v) + Passed(w, v)
                               = Cardinality(Came(v)) + Told(w, v)
    BY <1>2, LeaderFacts
  <1>4. pc'[w] \in {"wakeup", "collect"} BY <1>1
  <1>5. \A u \in Workers : Leads(u)' <=> u = w
    <2>1. Leads(w)' BY <1>4 DEF Leads
    <2> QED BY <1>3, <2>1, OthersSame DEF Others
  <1>6. ASSUME NEW v PROVE Came(v)' = Came(v)
    <2>1. ~(w \in Came(v)) /\ ~(w \in Came(v)') BY <1>1, <1>4 DEF Came
    <2> QED BY <2>1, SetsSame
  <1>7. Done(w)' = Done(w)
    <2>1. ~(w \in Done(w)) /\ ~(w \in Done(w)') BY DEF Done, Others
    <2> QED BY <2>1, SetsSame
  <1>8. Collected(w) = 0 /\ Collected(w)' = 0
    BY SMTT(60), <1>1, <1>2 DEF Collected
  <1>9. \A v : Told(w, v) = 1 /\ Told(w, v)' = 1 BY <1>1, <1>4 DEF Told
  <1>10. ASSUME NEW v \in Others(w)
         PROVE  sema'[v] + Gathered(v)' + Passed(w, v)'
                               = Cardinality(Came(v)') + Told(w, v)'
    <2>1. Gathered(v)' = Gathered(v) /\ Passed(w, v)' = Passed(w, v)
      BY OthersSame
    <2> QED BY SMTT(60), <1>1, <1>3, <1>6, <1>9, <2>1
  <1>11. sema'[w] + Collected(w)' = Cardinality(Done(w)')
    BY <1>1, <1>3, <1>7, <1>8
  <1>12. SemaInv' BY <1>5, <1>10, <1>11, LeaderKeeps
  <1>13. LogInv'
    <2>1. PICK l \in Seq(Workers) : Logs(l) BY <1>0 DEF LogInv
    <2>2. \A u \in Workers : log[u] = IF Ran(w, u) THEN Append(l, w) ELSE l
      BY <1>2, <2>1 DEF Logs
    <2>3. ~Ran(w, w) /\ Ran(w, w)' BY <1>1, <1>4 DEF Ran
    <2>4. log'[w] = Append(l, w) BY <1>0, <1>1, <2>2, <2>3 DEF TypeOK
    <2>5. ASSUME NEW u \in Workers
          PROVE  log'[u] = IF Ran(w, u)' THEN Append(l, w) ELSE l
      <3>1. CASE u = w BY <2>3, <2>4, <3>1
      <3>2. CASE u # w
        <4>1. log'[u] = log[u] BY <3>2 DEF Alone, Others
        <4>2. Ran(w, u)' <=> Ran(w, u) BY <1>7, <3>2 DEF Ran
        <4> QED BY <2>2, <4>1, <4>2
      <3> QED BY <3>1, <3>2
    <2>6. Logs(l)' BY <1>5, <2>5 DEF Logs
    <2> QED BY <2>1, <2>6 DEF LogInv
  <1> QED BY <1>12, <1>13

(* The master leaves the Start-Barrier: nobody has executed yet. *)
LEMMA CriticalKeeps ==
  ASSUME IInv, NEW w \in Workers, CriticalSection(w), Alone(w), TypeOK'
  PROVE  SemaInv' /\ LogInv'
  <1>0. TypeOK /\ SemaInv /\ LogInv /\ PhaseOf(w) BY Parts
  <1>1. /\ pc[w] = "critical" /\ pc'[w] = "signal"
        /\ UNCHANGED <<sema, i, log, curreq>>
    BY <1>0, GotoAlone DEF CriticalSection, Labels, spmdvars, localvars
  <1>2. /\ \A m \in Workers : ~Leads(m)
        /\ Came(w) = Others(w) /\ sema[w] = 0
        /\ \A v \in Others(w) : /\ pc[v] = "entered" /\ curreq[v].wctx = w
                                /\ Came(v) = {} /\ sema[v] = 0
    BY <1>1, Barrier
  <1>3. i[w] = 0 BY <1>0, <1>1 DEF PhaseOf
  <1>4. \A u \in Workers : Leads(u)' <=> u = w
    <2>1. Leads(w)' BY <1>1 DEF Leads
    <2> QED BY <1>2, <2>1, OthersSame DEF Others
  <1>5. \A v \in Others(w) : pc'[v] = "entered" /\ curreq'[v].wctx = w
    BY <1>1, <1>2 DEF Alone
  <1>6. Done(w)' = {} BY <1>5 DEF Done
  <1>7. Collected(w)' = 0 BY <1>1 DEF Collected
  <1>8. ASSUME NEW v \in Others(w)
        PROVE  sema'[v] + Gathered(v)' + Passed(w, v)'
                               = Cardinality(Came(v)') + Told(w, v)'
    <2>1. Came(v)' = {}
      <3>1. ~(w \in Came(v)) /\ ~(w \in Came(v)') BY <1>1 DEF Came
      <3>2. Came(v)' = Came(v) BY <3>1, SetsSame
      <3> QED BY <1>2, <3>2
    <2>2. Gathered(v)' = 0 /\ Passed(w, v)' = 0 BY <1>5 DEF Gathered, Passed
    <2>3. Told(w, v)' = 0
      <3>1. v \in Nat BY WorkersAre DEF Others
      <3>2. i'[w] <= v BY SMTT(60), <1>1, <1>3, <3>1
      <3> QED BY <1>1, <3>2 DEF Told
    <2>4. sema'[v] = 0 BY <1>1, <1>2
    <2> QED BY SMTT(60), <2>1, <2>2, <2>3, <2>4, FS_EmptySet
  <1>9. sema'[w] + Collected(w)' = Cardinality(Done(w)')
    BY SMTT(60), <1>1, <1>2, <1>6, <1>7, FS_EmptySet
  <1>10. SemaInv' BY <1>4, <1>8, <1>9, LeaderKeeps
  <1>11. LogInv'
    <2>1. PICK l \in Seq(Workers) : Logs(l) BY <1>0 DEF LogInv
    <2>2. \A u \in Workers : log'[u] = l BY <1>1, <1>2, <2>1 DEF Logs
    <2>3. \A u \in Workers : ~Ran(w, u)' BY <1>1, <1>6 DEF Ran
    <2>4. Logs(l)' BY <1>4, <2>2, <2>3 DEF Logs
    <2> QED BY <2>1, <2>4 DEF LogInv
  <1> QED BY <1>10, <1>11

(* The end of a request. *)
LEMMA WakeupKeeps ==
  ASSUME IInv, NEW w \in Workers, Wakeup(w), Alone(w), TypeOK'
  PROVE  SemaInv' /\ LogInv'
  <1>0. TypeOK /\ SemaInv /\ LogInv /\ PhaseOf(w) BY Parts
  <1>1. pc[w] = "wakeup" /\ pc'[w] = "handle" /\ UNCHANGED <<sema, log>>
    BY <1>0, GotoAlone DEF Wakeup, Labels, Outside
  <1>2. /\ Done(w) = Others(w) /\ sema[w] = 0
        /\ \A v \in Workers :
             ~(pc[v] \in {"entered", "execute"} /\ curreq[v].wctx = w)
    BY <1>1, AllDone
  <1>3. Leads(w) BY <1>1 DEF Leads
  <1>4. /\ \A u \in Workers : Leads(u) <=> u = w
        /\ \A v \in Others(w) : sema[v] + Gathered(v) + Passed(w, v)
                               = Cardinality(Came(v)) + Told(w, v)
    BY <1>3, LeaderFacts
  <1>5. \A u \in Workers : ~Leads(u)'
    <2>1. ~Leads(w)' BY <1>1 DEF Leads
    <2> QED BY <1>4, <2>1, OthersSame DEF Others
  <1>6. ASSUME NEW v PROVE Came(v)' = Came(v)
    <2>1. ~(w \in Came(v)) /\ ~(w \in Came(v)') BY <1>1 DEF Came
    <2> QED BY <2>1, SetsSame
  <1>7. Came(w) = {} BY <1>2 DEF Came
  <1>8. Gathered(w)' = 0 BY <1>1 DEF Gathered
  <1>9. ASSUME NEW v \in Workers
        PROVE  sema'[v] + Gathered(v)' = Cardinality(Came(v)')
    <2>1. CASE v = w
      <3>1. Cardinality(Came(w)') = 0 BY <1>6, <1>7, FS_EmptySet
      <3>2. sema'[w] = 0 BY <1>1, <1>2
      <3> QED BY SMTT(60), <1>8, <2>1, <3>1, <3>2
    <2>2. CASE v # w
      <3>1. v \in Others(w) BY <2>2 DEF Others
      <3>2. Gathered(v)' = Gathered(v) BY <3>1, OthersSame
      <3>3. Told(w, v) = 1 /\ Passed(w, v) = 1
        BY <1>1, <1>2 DEF Told, Passed
      <3>4. sema[v] \in Nat /\ Gathered(v) \in Nat /\ Cardinality(Came(v)) \in Nat
        BY <1>0, SemaTypes
      <3> QED BY SMTT(60), <1>1, <1>4, <1>6, <3>1, <3>2, <3>3, <3>4
    <2> QED BY <2>1, <2>2
  <1>10. SemaInv' BY <1>5, <1>9 DEF SemaInv
  <1>11. LogInv'
    <2>1. PICK l \in Seq(Workers) : Logs(l) BY <1>0 DEF LogInv
    <2>2. \A u \in Workers : log[u] = IF Ran(w, u) THEN Append(l, w) ELSE l
      BY <1>3, <2>1 DEF Logs
    <2>3. \A u \in Workers : Ran(w, u) BY <1>1, <1>2 DEF Ran, Others
    <2>4. Append(l, w) \in Seq(Workers) BY SMTT(60)
    <2>5. Logs(Append(l, w))' BY <1>1, <1>5, <2>2, <2>3 DEF Logs
    <2> QED BY <2>4, <2>5 DEF LogInv
  <1> QED BY <1>10, <1>11

----------------------------------------------------------------------------
(* The queue: one lemma for each action that changes it *)

(* Steps that change neither the queue nor who is in it. *)
LEMMA QueueFrame ==
  ASSUME QueueInv, NEW w \in Workers, Alone(w),
         UNCHANGED <<qhead, qtail>>,
         \A s \in Workers : req_queue'[s].wctx = req_queue[s].wctx,
         TypeOK, Queued(w)' <=> Queued(w),
         pc[w] # "wctx", pc'[w] # "wctx", pc'[w] # "task"
  PROVE  QueueInv'
  <1>1. PICK q \in Seq(Workers) : Queues(q) BY DEF QueueInv
  <1>2. \A v \in Workers : Queued(v)' <=> Queued(v)
    <2>1. ASSUME NEW v \in Others(w) PROVE Queued(v)' <=> Queued(v)
      <3>1. pending'[v] = pending[v] BY DEF Alone
      <3>2. Leads(v)' <=> Leads(v) BY OthersSame
      <3> QED BY <3>1, <3>2 DEF Queued
    <2> QED BY <2>1 DEF Others
  <1>3. \A v \in Workers : /\ pc'[v] = "wctx" <=> pc[v] = "wctx"
                           /\ pc'[v] \in {"wctx", "task"} =>
                                pc'[v] = pc[v] /\ slot'[v] = slot[v]
    <2>1. \A v \in Others(w) : pc'[v] = pc[v] /\ slot'[v] = slot[v] BY DEF Alone
    <2>2. ASSUME NEW v \in Workers, v # w
          PROVE  pc'[v] = pc[v] /\ slot'[v] = slot[v]
      BY <2>1, <2>2 DEF Others
    <2> QED BY <2>2
  <1>4. \A k : At(k)' = At(k) BY DEF At
  <1>5. Len(q) \in Nat /\ Len(q) <= num_workers BY <1>1, NoMore DEF Queues
  <1>6. ASSUME NEW k \in 1 .. Len(q) PROVE q[k] \in Workers /\ At(k) \in Workers
    <2>1. k \in 1 .. num_workers BY SMTT(60), <1>5, WorkersAre
    <2> QED BY SMTT(60), <2>1, Slots
  <1>7. Queues(q)'
    <2>1. ASSUME NEW k \in 1 .. Len(q)
          PROVE  /\ req_queue'[At(k)'].wctx =
                      IF pc'[q[k]] = "wctx" THEN NULL ELSE q[k]
                 /\ pc'[q[k]] \in {"wctx", "task"} => slot'[q[k]] = At(k)'
      <3>1. /\ req_queue[At(k)].wctx = IF pc[q[k]] = "wctx" THEN NULL ELSE q[k]
            /\ pc[q[k]] \in {"wctx", "task"} => slot[q[k]] = At(k)
        BY <1>1 DEF Queues
      <3>2. PICK v \in Workers : v = q[k] BY <1>6
      <3>3. PICK s \in Workers : s = At(k) /\ s = At(k)' BY <1>4, <1>6
      <3>a. /\ req_queue[s].wctx = IF pc[v] = "wctx" THEN NULL ELSE v
            /\ pc[v] \in {"wctx", "task"} => slot[v] = s
        BY <3>1, <3>2, <3>3
      <3>b. /\ pc'[v] = "wctx" <=> pc[v] = "wctx"
            /\ pc'[v] \in {"wctx", "task"} => pc'[v] = pc[v] /\ slot'[v] = slot[v]
        BY <1>3
      <3>4. req_queue'[s].wctx = IF pc'[v] = "wctx" THEN NULL ELSE v
        <4>1. req_queue'[s].wctx = req_queue[s].wctx OBVIOUS
        <4> QED BY <3>a, <3>b, <4>1
      <3>5. pc'[v] \in {"wctx", "task"} => slot'[v] = s
        BY <3>a, <3>b
      <3> QED BY <3>2, <3>3, <3>4, <3>5
    <2>2. \A s \in Workers : req_queue'[s].wctx # NULL =>
            \E k \in 1 .. Len(q) : s = At(k)'
      BY SMTT(60), <1>1, <1>4 DEF Queues
    <2>3. \/ qtail' = qhead' + Len(q)
          \/ qtail' = qhead' + Len(q) - num_workers
      BY <1>1 DEF Queues
    <2>4. \A v \in Workers : Queued(v)' <=> \E k \in 1 .. Len(q) : q[k] = v
      BY <1>1, <1>2 DEF Queues
    <2>5. \A j, k \in 1 .. Len(q) : q[j] = q[k] => j = k BY <1>1 DEF Queues
    <2> QED BY <2>1, <2>2, <2>3, <2>4, <2>5 DEF Queues
  <1> QED BY <1>1, <1>7 DEF QueueInv

(* A sequence with one more member, by position. *)
LEMMA Appended ==
  ASSUME NEW S, NEW q \in Seq(S), NEW w \in S
  PROVE  /\ Append(q, w) \in Seq(S) /\ Len(Append(q, w)) = Len(q) + 1
         /\ Append(q, w)[Len(q) + 1] = w
         /\ \A k \in 1 .. Len(q) : Append(q, w)[k] = q[k]
  BY SMTT(60)

(* A sequence without its first member, by position. *)
LEMMA Shortened ==
  ASSUME NEW S, NEW q \in Seq(S), 1 \in 1 .. Len(q)
  PROVE  /\ Tail(q) \in Seq(S) /\ Len(Tail(q)) = Len(q) - 1
         /\ \A k \in 1 .. Len(q) - 1 : Tail(q)[k] = q[k + 1]
  <1>1. q # << >> /\ Len(q) \in Nat BY SMTT(60)
  <1> QED BY SMTT(60), <1>1

(* A member of a sequence. *)
LEMMA ElementOf ==
  ASSUME NEW S, NEW q \in Seq(S), NEW k \in 1 .. Len(q)
  PROVE  q[k] \in S
  BY SMTT(60)

(* A slot is reserved behind the last: there is one for every worker. *)
LEMMA RequestQueue ==
  ASSUME IInv, NEW w \in Workers, LpelSpmdRequest(w), Alone(w), TypeOK'
  PROVE  QueueInv'
  <1>0. TypeOK /\ QueueInv BY Parts
  <1>1. /\ pc[w] = "run" /\ pending[w] = 0 /\ pc'[w] = "wctx" /\ pending'[w] = 1
        /\ slot'[w] = qtail % num_workers /\ qtail' = qtail + 1
        /\ UNCHANGED <<req_queue, qhead>>
    BY SMTT(60), <1>0, GotoAlone DEF LpelSpmdRequest, TypeOK, Labels, Outside
  <1>2. PICK q \in Seq(Workers) : Queues(q) BY <1>0 DEF QueueInv
  <1>3. PICK L \in Nat : L = Len(q) BY SMTT(60)
  <1>4. PICK r \in Seq(Workers) : r = Append(q, w) BY Appended
  <1>5. Len(r) = L + 1 /\ r[L + 1] = w /\ \A k \in 1 .. L : r[k] = q[k]
    BY SMTT(60), <1>3, <1>4, Appended
  <1>6. \A k \in 1 .. L : q[k] \in Workers /\ q[k] # w
    BY SMTT(60), <1>1, <1>2, <1>3 DEF Queues, Queued
  <1>7. \A j, k \in 1 .. Len(r) : r[j] = r[k] => j = k
    <2>1. \A j, k \in 1 .. L : q[j] = q[k] => j = k BY <1>2, <1>3 DEF Queues
    <2>2. \A j \in 1 .. Len(r) : j \in 1 .. L \/ j = L + 1 BY SMTT(60), <1>5
    <2> QED BY <1>5, <1>6, <2>1, <2>2
  <1>8. L + 1 <= num_workers BY <1>5, <1>7, NoMore
  <1>9. /\ num_workers \in Nat /\ num_workers >= 1 /\ qhead \in Nat
        /\ qhead < num_workers /\ qtail \in Nat
    BY <1>0, WorkersAre DEF TypeOK
  <1>10. \A k : At(k)' = At(k) BY <1>1 DEF At
  <1>11. qtail % num_workers = At(L + 1)
    <2>1. qtail = qhead + L \/ qtail = qhead + L - num_workers
      BY <1>2, <1>3 DEF Queues
    <2>2. CASE qtail < num_workers
      <3>1. qtail % num_workers = qtail BY <1>9, <2>2, Wraps
      <3> QED BY SMTT(60), <1>8, <1>9, <2>1, <2>2, <3>1 DEF At
    <2>3. CASE num_workers <= qtail
      <3>1. qtail = qhead + L /\ qtail < num_workers + num_workers
        BY SMTT(60), <1>8, <1>9, <2>1, <2>3
      <3>2. qtail % num_workers = qtail - num_workers
        BY <1>9, <2>3, <3>1, Wraps
      <3> QED BY SMTT(60), <1>8, <1>9, <2>3, <3>1, <3>2 DEF At
    <2> QED BY SMTT(60), <1>9, <2>2, <2>3
  <1>12. req_queue[At(L + 1)].wctx = NULL
    <2>1. L + 1 \in 1 .. num_workers /\ \A k \in 1 .. L : k \in 1 .. num_workers
      BY SMTT(60), <1>8, <1>9
    <2>2. At(L + 1) \in Workers BY <1>0, <2>1, Slots
    <2>3. ASSUME NEW k \in 1 .. L PROVE At(k) # At(L + 1)
      <3>1. k # L + 1 BY SMTT(60)
      <3> QED BY <1>0, <2>1, <3>1, Slots
    <2> QED BY <1>2, <1>3, <2>2, <2>3 DEF Queues
  <1>13. Queues(r)'
    <2>1. \A v \in Workers : Queued(v)' <=> \E k \in 1 .. Len(r) : r[k] = v
      <3>1. CASE \A v \in Workers : v # w => (Queued(v)' <=> Queued(v))
        <4>1. Queued(w)' BY <1>1 DEF Queued, Leads
        <4>2. \A v \in Workers : Queued(v) <=> \E k \in 1 .. L : q[k] = v
          BY <1>2, <1>3 DEF Queues
        <4>3. \A k \in 1 .. Len(r) : k \in 1 .. L \/ k = L + 1 BY SMTT(60), <1>5
        <4>4. \A k \in 1 .. L : k \in 1 .. Len(r) BY SMTT(60), <1>5
        <4>5. L + 1 \in 1 .. Len(r) BY SMTT(60), <1>5
        <4> QED BY <1>5, <3>1, <4>1, <4>2, <4>3, <4>4, <4>5
      <3>2. ASSUME NEW v \in Workers, v # w PROVE Queued(v)' <=> Queued(v)
        <4>1. v \in Others(w) BY <3>2 DEF Others
        <4>2. pending'[v] = pending[v] BY <4>1 DEF Alone
        <4>3. Leads(v)' <=> Leads(v) BY <4>1, OthersSame
        <4> QED BY <4>2, <4>3 DEF Queued
      <3> QED BY <3>1, <3>2
    <2>2. ASSUME NEW k \in 1 .. Len(r)
          PROVE  /\ req_queue'[At(k)'].wctx =
                      IF pc'[r[k]] = "wctx" THEN NULL ELSE r[k]
                 /\ pc'[r[k]] \in {"wctx", "task"} => slot'[r[k]] = At(k)'
      <3>1. CASE k \in 1 .. L
        <4>1. PICK v \in Workers : v = q[k] /\ v = r[k] /\ v # w
          BY <1>5, <1>6, <3>1
        <4>2. /\ req_queue[At(k)].wctx = IF pc[v] = "wctx" THEN NULL ELSE v
              /\ pc[v] \in {"wctx", "task"} => slot[v] = At(k)
          BY <1>2, <1>3, <3>1, <4>1 DEF Queues
        <4>3. pc'[v] = pc[v] /\ slot'[v] = slot[v] BY <4>1 DEF Alone, Others
        <4> QED BY <1>1, <1>10, <4>1, <4>2, <4>3
      <3>2. CASE k = L + 1 BY <1>1, <1>5, <1>10, <1>11, <1>12, <3>2
      <3> QED BY SMTT(60), <1>5, <3>1, <3>2
    <2>3. ASSUME NEW t \in Workers, req_queue'[t].wctx # NULL
          PROVE  \E k \in 1 .. Len(r) : t = At(k)'
      <3>1. PICK k \in 1 .. L : t = At(k) BY <1>1, <1>2, <1>3, <2>3 DEF Queues
      <3>2. k \in 1 .. Len(r) BY SMTT(60), <1>5
      <3> QED BY <1>10, <3>1, <3>2
    <2>4. \/ qtail' = qhead' + Len(r)
          \/ qtail' = qhead' + Len(r) - num_workers
      <3>1. qtail = qhead + L \/ qtail = qhead + L - num_workers
        BY <1>2, <1>3 DEF Queues
      <3>2. qtail' = qtail + 1 /\ qhead' = qhead /\ Len(r) = L + 1
        BY <1>1, <1>5
      <3> QED BY SMTT(60), <1>9, <3>1, <3>2
    <2> QED BY <1>7, <2>1, <2>2, <2>3, <2>4 DEF Queues
  <1> QED BY <1>13 DEF QueueInv

(* A slot of the ring is filled: the queue of requests is one longer. *)
LEMMA WctxQueue ==
  ASSUME IInv, NEW w \in Workers, SetWctx(w), Alone(w), TypeOK'
  PROVE  QueueInv'
  <1>0. TypeOK /\ QueueInv /\ PhaseOf(w) BY Parts
  <1>1. /\ pc[w] = "wctx" /\ pc'[w] = "task" /\ UNCHANGED <<slot, pending, qhead, qtail>>
        /\ req_queue' = [req_queue EXCEPT ![slot[w]].wctx = w]
    BY <1>0, GotoAlone DEF SetWctx, Labels, Outside, localvars, spmdvars
  <1>2. PICK q \in Seq(Workers) : Queues(q) BY <1>0 DEF QueueInv
  <1>3. Queued(w) BY <1>0, <1>1 DEF PhaseOf, Queued, Leads
  <1>4. PICK j \in 1 .. Len(q) : q[j] = w BY <1>2, <1>3 DEF Queues
  <1>5. slot[w] = At(j) BY <1>1, <1>2, <1>4 DEF Queues
  <1>6. Len(q) \in Nat /\ Len(q) <= num_workers BY <1>2, NoMore DEF Queues
  <1>7. \A k \in 1 .. Len(q) : k \in 1 .. num_workers
    BY SMTT(60), <1>6, WorkersAre
  <1>8. \A k \in 1 .. Len(q) : At(k) \in Workers /\ (At(k) = At(j) => k = j)
    BY <1>0, <1>7, Slots
  <1>9. /\ req_queue'[At(j)].wctx = w
        /\ \A t \in Workers : t # At(j) => req_queue'[t].wctx = req_queue[t].wctx
    BY <1>0, <1>1, <1>5, <1>8 DEF TypeOK, Requests
  <1>10. \A k : At(k)' = At(k) BY <1>1 DEF At
  <1>11. Queues(q)'
    <2>1. \A v \in Workers : Queued(v)' <=> \E k \in 1 .. Len(q) : q[k] = v
      <3>1. ASSUME NEW v \in Workers PROVE Queued(v)' <=> Queued(v)
        <4>1. CASE v = w BY <1>1, <1>3, <4>1 DEF Queued, Leads
        <4>2. CASE v # w
          <5>1. Leads(v)' <=> Leads(v) BY <4>2, OthersSame DEF Others
          <5> QED BY <1>1, <5>1 DEF Queued
        <4> QED BY <4>1, <4>2
      <3> QED BY <1>2, <3>1 DEF Queues
    <2>2. ASSUME NEW k \in 1 .. Len(q)
          PROVE  /\ req_queue'[At(k)'].wctx =
                      IF pc'[q[k]] = "wctx" THEN NULL ELSE q[k]
                 /\ pc'[q[k]] \in {"wctx", "task"} => slot'[q[k]] = At(k)'
      <3>1. CASE k = j BY <1>1, <1>4, <1>5, <1>9, <1>10, <3>1
      <3>2. CASE k # j
        <4>1. PICK v \in Workers : v = q[k] BY SMTT(60)
        <4>2. v # w BY <1>2, <1>4, <3>2, <4>1 DEF Queues
        <4>3. /\ req_queue[At(k)].wctx = IF pc[v] = "wctx" THEN NULL ELSE v
              /\ pc[v] \in {"wctx", "task"} => slot[v] = At(k)
          BY <1>2, <4>1 DEF Queues
        <4>4. pc'[v] = pc[v] BY <4>2 DEF Alone, Others
        <4>5. req_queue'[At(k)].wctx = req_queue[At(k)].wctx
          BY <1>8, <1>9, <3>2
        <4> QED BY <1>1, <1>10, <4>1, <4>3, <4>4, <4>5
      <3> QED BY <3>1, <3>2
    <2>3. ASSUME NEW t \in Workers, req_queue'[t].wctx # NULL
          PROVE  \E k \in 1 .. Len(q) : t = At(k)'
      <3>1. CASE t = At(j) BY <1>10, <3>1
      <3>2. CASE t # At(j)
        <4>1. req_queue[t].wctx # NULL BY <1>9, <2>3, <3>2
        <4> QED BY <1>2, <1>10, <4>1 DEF Queues
      <3> QED BY <3>1, <3>2
    <2>4. \/ qtail' = qhead' + Len(q)
          \/ qtail' = qhead' + Len(q) - num_workers
      BY <1>1, <1>2 DEF Queues
    <2>5. \A k, m \in 1 .. Len(q) : q[k] = q[m] => k = m BY <1>2 DEF Queues
    <2> QED BY <2>1, <2>2, <2>3, <2>4, <2>5 DEF Queues
  <1> QED BY <1>11 DEF QueueInv

(* The request at the head leaves the queue. *)
LEMMA CriticalQueue ==
  ASSUME IInv, NEW w \in Workers, CriticalSection(w), Alone(w), TypeOK'
  PROVE  QueueInv'
  <1>0. TypeOK /\ QueueInv /\ PhaseOf(w) BY Parts
  <1>1. /\ pc[w] = "critical" /\ pc'[w] = "signal" /\ UNCHANGED <<slot, pending>>
        /\ req_queue' = [req_queue EXCEPT ![slot[w]].wctx = NULL]
        /\ qhead' = (slot[w] + 1) % num_workers
        /\ qtail' = IF qtail >= num_workers THEN qtail % num_workers ELSE qtail
    BY <1>0, GotoAlone DEF CriticalSection, Labels, localvars, spmdvars
  <1>2. HeadMaster = w /\ slot[w] = qhead BY <1>0, <1>1 DEF PhaseOf
  <1>3. PICK q \in Seq(Workers) : Queues(q) BY <1>0 DEF QueueInv
  <1>4. PICK L \in Nat : L = Len(q) BY SMTT(60)
  <1>5. L <= num_workers BY <1>3, <1>4, NoMore DEF Queues
  <1>6. /\ num_workers \in Nat /\ num_workers >= 1 /\ qhead \in Nat
        /\ qhead < num_workers /\ qtail \in Nat /\ 1 \in 1 .. num_workers
    BY SMTT(60), <1>0, WorkersAre DEF TypeOK
  <1>7. \A k \in 1 .. L : k \in 1 .. num_workers BY SMTT(60), <1>5, <1>6
  <1>8. 1 \in 1 .. L /\ q[1] = w
    <2>1. req_queue[qhead].wctx = w /\ w # NULL /\ qhead \in Workers
      BY <1>0, <1>2, WorkersAre DEF HeadMaster, TypeOK
    <2>2. PICK k \in 1 .. L : qhead = At(k) BY <1>3, <1>4, <2>1 DEF Queues
    <2>3. k = 1 BY <1>0, <1>6, <1>7, <2>2, Slots
    <2>4. req_queue[At(k)].wctx = IF pc[q[k]] = "wctx" THEN NULL ELSE q[k]
      BY <1>3, <1>4 DEF Queues
    <2> QED BY <2>1, <2>2, <2>3, <2>4
  <1>9. PICK r \in Seq(Workers) : r = Tail(q) BY <1>4, <1>8, Shortened
  <1>10. Len(r) = L - 1 /\ \A k \in 1 .. L - 1 : r[k] = q[k + 1]
    BY <1>4, <1>8, <1>9, Shortened
  <1>11. qhead' = IF qhead + 1 < num_workers THEN qhead + 1 ELSE 0
    <2>0. PICK x \in Nat : x = qhead + 1 BY SMTT(60), <1>6
    <2>1. qhead' = x % num_workers BY <1>1, <1>2, <2>0
    <2>2. x < num_workers => x % num_workers = x BY <1>6, Wraps
    <2>3. num_workers <= x /\ x < num_workers + num_workers =>
            x % num_workers = x - num_workers
      BY <1>6, Wraps
    <2> QED BY SMTT(60), <1>6, <2>0, <2>1, <2>2, <2>3
  <1>12. ASSUME NEW k \in 1 .. L - 1 PROVE At(k)' = At(k + 1)
    BY SMTT(60), <1>5, <1>6, <1>11 DEF At
  <1>13. \/ qtail' = qhead' + (L - 1)
         \/ qtail' = qhead' + (L - 1) - num_workers
    <2>1. qtail = qhead + L \/ qtail = qhead + L - num_workers
      BY <1>3, <1>4 DEF Queues
    <2>2. CASE qtail < num_workers
      <3>1. qtail' = qtail BY SMTT(60), <1>1, <1>6, <2>2
      <3> QED BY SMTT(60), <1>5, <1>6, <1>8, <1>11, <2>1, <2>2, <3>1
    <2>3. CASE num_workers <= qtail
      <3>1. qtail = qhead + L /\ qtail < num_workers + num_workers
        BY SMTT(60), <1>5, <1>6, <2>1, <2>3
      <3>2. qtail' = qtail - num_workers BY <1>1, <1>6, <2>3, <3>1, Wraps
      <3> QED BY SMTT(60), <1>5, <1>6, <1>8, <1>11, <3>1, <3>2
    <2> QED BY SMTT(60), <1>6, <2>2, <2>3
  <1>14. /\ req_queue'[qhead].wctx = NULL
         /\ \A t \in Workers : t # qhead => req_queue'[t].wctx = req_queue[t].wctx
    BY <1>0, <1>1, <1>2 DEF TypeOK, Requests
  <1>15. \A k \in 1 .. L - 1 : k + 1 \in 1 .. L BY SMTT(60), <1>4
  <1>16. \A k \in 1 .. L : k = 1 \/ (k - 1 \in 1 .. L - 1 /\ (k - 1) + 1 = k)
    BY SMTT(60), <1>4
  <1>17. Queues(r)'
    <2>1. ASSUME NEW v \in Workers
          PROVE  Queued(v)' <=> \E k \in 1 .. Len(r) : r[k] = v
      <3>1. Queued(v) <=> \E k \in 1 .. L : q[k] = v BY <1>3, <1>4 DEF Queues
      <3>2. CASE v = w
        <4>1. ~Queued(v)' BY <1>1, <3>2 DEF Queued, Leads
        <4>2. ASSUME NEW k \in 1 .. L - 1 PROVE r[k] # w
          <5>1. k + 1 \in 1 .. L /\ k + 1 # 1 BY SMTT(60), <1>15
          <5> QED BY <1>3, <1>4, <1>8, <1>10, <5>1 DEF Queues
        <4> QED BY <1>10, <3>2, <4>1, <4>2
      <3>3. CASE v # w
        <4>1. Leads(v)' <=> Leads(v) BY <3>3, OthersSame DEF Others
        <4>2. Queued(v)' <=> Queued(v) BY <1>1, <4>1 DEF Queued
        <4>3. ASSUME NEW k \in 1 .. L, q[k] = v
              PROVE  \E m \in 1 .. Len(r) : r[m] = v
          <5>1. k # 1 BY <1>8, <3>3, <4>3
          <5>2. k - 1 \in 1 .. L - 1 /\ (k - 1) + 1 = k BY <1>16, <5>1
          <5> QED BY <1>10, <4>3, <5>2
        <4>4. ASSUME NEW k \in 1 .. Len(r), r[k] = v
              PROVE  \E m \in 1 .. L : q[m] = v
          BY <1>10, <1>15, <4>4
        <4> QED BY <3>1, <4>2, <4>3, <4>4
      <3> QED BY <3>2, <3>3
    <2>2. ASSUME NEW k \in 1 .. Len(r)
          PROVE  /\ req_queue'[At(k)'].wctx =
                      IF pc'[r[k]] = "wctx" THEN NULL ELSE r[k]
                 /\ pc'[r[k]] \in {"wctx", "task"} => slot'[r[k]] = At(k)'
      <3>0. k \in 1 .. L - 1 BY <1>10
      <3>m. PICK m \in 1 .. L : m = k + 1 BY <1>15, <3>0
      <3>n. m # 1 BY SMTT(60), <3>0, <3>m
      <3>1. PICK v \in Workers : v = q[m] /\ v = r[k]
        <4>1. q[m] \in Workers BY <1>4, ElementOf
        <4> QED BY <1>10, <3>0, <3>m, <4>1
      <3>2. v # w BY <1>3, <1>4, <1>8, <3>n, <3>1 DEF Queues
      <3>3. /\ req_queue[At(m)].wctx = IF pc[v] = "wctx" THEN NULL ELSE v
            /\ pc[v] \in {"wctx", "task"} => slot[v] = At(m)
        BY <1>3, <1>4, <3>1 DEF Queues
      <3>4. pc'[v] = pc[v] /\ slot'[v] = slot[v]
        BY <3>2 DEF Alone, Others
      <3>5. At(m) \in Workers /\ At(m) # qhead
        BY <1>0, <1>6, <1>7, <3>n, Slots
      <3>6. At(k)' = At(m) BY <1>12, <3>0, <3>m
      <3> QED BY <1>14, <3>1, <3>3, <3>4, <3>5, <3>6
    <2>3. ASSUME NEW t \in Workers, req_queue'[t].wctx # NULL
          PROVE  \E k \in 1 .. Len(r) : t = At(k)'
      <3>1. t # qhead /\ req_queue[t].wctx # NULL BY <1>14, <2>3
      <3>2. PICK k \in 1 .. L : t = At(k) BY <1>3, <1>4, <3>1 DEF Queues
      <3>3. k # 1 BY <1>0, <3>1, <3>2, Slots
      <3>4. k - 1 \in 1 .. L - 1 /\ (k - 1) + 1 = k BY <1>16, <3>3
      <3>5. At(k - 1)' = t BY <1>12, <3>2, <3>4
      <3> QED BY <1>10, <3>4, <3>5
    <2>4. \A j, k \in 1 .. Len(r) : r[j] = r[k] => j = k
      <3>1. ASSUME NEW j \in 1 .. L - 1, NEW k \in 1 .. L - 1, r[j] = r[k]
            PROVE  j = k
        <4>1. j + 1 = k + 1
          BY SMTT(60), <1>3, <1>4, <1>10, <1>15, <3>1 DEF Queues
        <4> QED BY SMTT(60), <4>1
      <3> QED BY <1>10, <3>1
    <2> QED BY <1>10, <1>13, <2>1, <2>2, <2>3, <2>4 DEF Queues
  <1> QED BY <1>17 DEF QueueInv

----------------------------------------------------------------------------
(* The requests at hand *)

(* The other workers see no more of a step than who leads and the request  *)
(* at the head.                                                            *)
LEMMA PhaseFrame ==
  ASSUME IInv, NEW w \in Workers, Alone(w), qhead' = qhead,
         HeadMaster' = HeadMaster \/ HeadMaster = NULL,
         \A v \in Others(w) : cur'[v] = cur[v],
         Leads(w)' <=> Leads(w), PhaseOf(w)'
  PROVE  PhaseInv'
  <1>0. /\ \A v \in Workers : PhaseOf(v)
        /\ \A u, v \in Workers : Leads(u) /\ Leads(v) => u = v
    BY Parts
  <1>1. \A v \in Workers : Leads(v)' <=> Leads(v)
    <2>1. ASSUME NEW v \in Workers, v # w PROVE Leads(v)' <=> Leads(v)
      BY <2>1, OthersSame DEF Others
    <2> QED BY <2>1
  <1>2. ASSUME NEW v \in Others(w) PROVE PhaseOf(v)'
    <2>0. v \in Workers /\ PhaseOf(v) /\ NULL \notin Workers
      BY <1>0, WorkersAre DEF Others
    <2>1. /\ pc'[v] = pc[v] /\ curreq'[v] = curreq[v] /\ i'[v] = i[v]
          /\ slot'[v] = slot[v] /\ pending'[v] = pending[v]
      BY DEF Alone
    <2>2. Leads(v)' <=> Leads(v) BY <1>1, <2>0
    <2>3. pc[v] \in {"gather", "critical"} => HeadMaster' = HeadMaster
      BY <2>0 DEF PhaseOf
    <2>4. /\ pc[v] = "enter" => HeadMaster' = HeadMaster
          /\ pc[v] = "entered" => \/ HeadMaster' = HeadMaster
                                  \/ Leads(curreq[v].wctx)
      BY <2>0 DEF PhaseOf, Others
    <2>5. pc[v] = "entered" => /\ curreq[v].wctx \in Others(v)
                               /\ \/ curreq[v].wctx = HeadMaster'
                                  \/ Leads(curreq[v].wctx)'
      <3>1. SUFFICES ASSUME pc[v] = "entered"
                     PROVE  /\ curreq[v].wctx \in Others(v)
                            /\ \/ curreq[v].wctx = HeadMaster'
                               \/ Leads(curreq[v].wctx)'
        OBVIOUS
      <3>2. PICK m \in Workers : m = curreq[v].wctx /\ m \in Others(v)
        BY <2>0, <3>1 DEF PhaseOf, Others
      <3>3. m = HeadMaster' \/ Leads(m) BY <2>0, <2>4, <3>1, <3>2 DEF PhaseOf
      <3>4. Leads(curreq[v].wctx)' <=> Leads(m)' BY <2>1, <3>2 DEF Leads
      <3> QED BY <1>1, <3>2, <3>3, <3>4
    <2>6. pc[v] = "execute" => /\ curreq[v].wctx \in Workers
                               /\ Leads(curreq[v].wctx)'
      <3>1. SUFFICES ASSUME pc[v] = "execute"
                     PROVE  curreq[v].wctx \in Workers /\ Leads(curreq[v].wctx)'
        OBVIOUS
      <3>2. PICK m \in Workers : m = curreq[v].wctx /\ Leads(m)
        BY <2>0, <3>1 DEF PhaseOf
      <3>3. Leads(curreq[v].wctx)' <=> Leads(m)' BY <2>1, <3>2 DEF Leads
      <3> QED BY <1>1, <3>2, <3>3
    <2>7. /\ pc'[v] = "entered" => /\ curreq'[v].wctx \in Others(v)
                                   /\ \/ curreq'[v].wctx = HeadMaster'
                                      \/ Leads(curreq[v].wctx)'
          /\ pc'[v] = "execute" => /\ curreq'[v].wctx \in Workers
                                   /\ Leads(curreq[v].wctx)'
      BY <2>1, <2>5, <2>6
    <2>8. /\ pc'[v] \in {"run", "wctx", "task", "broadcast"} => cur'[v] \in Tasks
          /\ pc'[v] \in {"wctx", "task"} => pending'[v] = 1
          /\ Leads(v)' => pending'[v] = 1 /\ curreq'[v].wctx = v
      BY <2>0, <2>1, <2>2 DEF PhaseOf
    <2>9. /\ pc'[v] \in {"gather", "critical"} =>
               curreq'[v].wctx = v /\ HeadMaster' = v /\ slot'[v] = qhead'
          /\ pc'[v] = "enter" =>
               curreq'[v].wctx = HeadMaster' /\ HeadMaster' \in Others(v)
      BY <2>0, <2>1, <2>3, <2>4 DEF PhaseOf
    <2>10. /\ pc'[v] \in {"gather", "collect"} => i'[v] + 2 <= num_workers
           /\ pc'[v] \in {"signal", "broadcast"} => i'[v] + 1 <= num_workers
           /\ pc'[v] \notin {"gather", "collect", "signal", "broadcast"} =>
                i'[v] = 0
      BY <2>0, <2>1 DEF PhaseOf
    <2> QED BY <2>7, <2>8, <2>9, <2>10 DEF PhaseOf
  <1> QED BY <1>0, <1>1, <1>2 DEF PhaseInv, Others

(* The steps of a worker that has no request at hand, but for those that   *)
(* reserve a slot and put the request in it.                               *)
LEMMA OutsideKeeps ==
  ASSUME IInv, NEW w \in Workers, Alone(w), TypeOK',
         \/ SetTask(w) \/ LpelWorkerBroadcast(w) \/ LpelTaskExit(w)
         \/ FetchAllMessages(w) \/ Pick(w) \/ WaitForNewMessage(w)
  PROVE  IInv'
  <1>0. TypeOK /\ QueueInv /\ PhaseOf(w) BY Parts
  <1>a. num_workers \in Nat /\ num_workers >= 1 BY WorkersAre
  <1>b. /\ pc[w] \in Labels /\ i \in [Workers -> Nat] /\ i[w] \in Nat
        /\ slot[w] \in Workers /\ req_queue \in [Workers -> Requests]
        /\ cur \in [Workers -> Tasks \cup {NULL}] /\ ready[w] \in SUBSET Tasks
    BY <1>0 DEF TypeOK
  <1>c. i'[w] \in Nat BY DEF TypeOK
  <1>1. /\ pc[w] \in {"run", "fetch", "wait", "pick", "broadcast", "task"}
        /\ UNCHANGED <<qhead, qtail, pending, curreq, sema, log>>
    BY DEF SetTask, LpelWorkerBroadcast, LpelTaskExit, FetchAllMessages, Pick,
           WaitForNewMessage, queuevars, spmdvars, localvars
  <1>2. \A s \in Workers : req_queue'[s].wctx = req_queue[s].wctx
    <2>1. CASE SetTask(w)
      <3>1. req_queue' = [req_queue EXCEPT ![slot[w]].task = cur[w]]
        BY <2>1 DEF SetTask
      <3> QED BY <1>b, <3>1 DEF Requests
    <2>2. CASE ~SetTask(w)
      BY <2>2 DEF LpelWorkerBroadcast, LpelTaskExit, FetchAllMessages, Pick,
                  WaitForNewMessage, queuevars
    <2> QED BY <2>1, <2>2
  <1>3. /\ pc'[w] \in {"fetch", "handle", "wait", "run", "broadcast"}
        /\ pc'[w] \in {"run", "broadcast"} => cur'[w] \in Tasks
        /\ \A v \in Others(w) : cur'[v] = cur[v]
        /\ pc'[w] = "broadcast" => i'[w] + 1 <= num_workers
        /\ pc'[w] # "broadcast" => i'[w] = 0
    <2>1. CASE SetTask(w)
      <3>1. /\ pc[w] = "task" /\ pc'[w] = "broadcast" /\ i' = i /\ cur' = cur
        BY <1>0, <2>1, GotoAlone DEF SetTask, Labels, Outside, taskvars
      <3>2. cur[w] \in Tasks /\ i[w] = 0 BY <1>0, <3>1 DEF PhaseOf
      <3> QED BY SMTT(60), <1>a, <3>1, <3>2
    <2>2. CASE LpelWorkerBroadcast(w)
      <3>1. /\ pc[w] = "broadcast" /\ cur' = cur /\ Iterate(w, num_workers - 1, "fetch")
        BY <2>2 DEF LpelWorkerBroadcast
      <3>2. cur[w] \in Tasks /\ i[w] + 1 <= num_workers
        BY <1>0, <3>1 DEF PhaseOf
      <3>3. CASE i[w] < num_workers - 1
        <4>1. pc' = pc /\ i'[w] = i[w] + 1 BY <1>b, <3>1, <3>3 DEF Iterate
        <4> QED BY SMTT(60), <1>a, <1>b, <3>1, <3>2, <3>3, <4>1
      <3>4. CASE ~(i[w] < num_workers - 1)
        <4>1. i'[w] = 0 /\ Goto(w, "fetch") BY <1>b, <3>1, <3>4 DEF Iterate
        <4>2. pc'[w] = "fetch" BY <1>0, <4>1, GotoAlone DEF Labels, Outside
        <4> QED BY <3>1, <4>1, <4>2
      <3> QED BY <3>3, <3>4
    <2>3. CASE LpelTaskExit(w) \/ FetchAllMessages(w) \/ WaitForNewMessage(w)
      <3>1. /\ pc[w] \in {"run", "fetch", "wait"} /\ i' = i /\ cur' = cur
            /\ Goto(w, "fetch") \/ Goto(w, "handle")
        BY <2>3 DEF LpelTaskExit, FetchAllMessages, WaitForNewMessage,
                    localvars, taskvars
      <3>2. i[w] = 0 BY <1>0, <3>1 DEF PhaseOf
      <3>3. pc'[w] \in {"fetch", "handle"}
        BY <1>0, <3>1, GotoAlone DEF Labels, Outside
      <3> QED BY <3>1, <3>2, <3>3
    <2>4. CASE Pick(w)
      <3>1. pc[w] = "pick" /\ i' = i BY <2>4 DEF Pick, localvars
      <3>2. i[w] = 0 BY <1>0, <3>1 DEF PhaseOf
      <3>3. \/ Goto(w, "run") /\ \E t \in ready[w] : cur' = [cur EXCEPT ![w] = t]
            \/ /\ Goto(w, "wait") \/ Goto(w, "fetch")
               /\ cur' = [cur EXCEPT ![w] = NULL]
        BY <2>4 DEF Pick
      <3>4. \A v \in Others(w) : cur'[v] = cur[v] BY <1>b, <3>3 DEF Others
      <3>5. \/ pc'[w] = "run" /\ cur'[w] \in Tasks
            \/ pc'[w] \in {"wait", "fetch"}
        <4>1. CASE Goto(w, "run") /\ \E t \in ready[w] : cur' = [cur EXCEPT ![w] = t]
          <5>1. cur'[w] \in Tasks BY <1>b, <4>1
          <5> QED BY <1>0, <4>1, <5>1, GotoAlone DEF Labels, Outside
        <4>2. CASE Goto(w, "wait") \/ Goto(w, "fetch")
          BY <1>0, <4>2, GotoAlone DEF Labels, Outside
        <4> QED BY <3>3, <4>1, <4>2
      <3> QED BY <3>1, <3>2, <3>4, <3>5
    <2> QED BY <2>1, <2>2, <2>3, <2>4
  <1>4. ~Leads(w) /\ ~Leads(w)' BY <1>1, <1>3 DEF Leads
  <1>5. SemaInv' /\ LogInv'
    <2>1. Gathered(w)' = 0 /\ Gathered(w) = 0 BY <1>1, <1>3 DEF Gathered
    <2>2. pc[w] \notin {"entered", "execute"} /\ pc'[w] \notin {"entered", "execute"}
      BY <1>1, <1>3
    <2> QED BY <1>1, <1>4, <2>1, <2>2, NeutralKeeps
  <1>6. QueueInv'
    <2>1. Queued(w)' <=> Queued(w) BY <1>1, <1>4 DEF Queued
    <2>2. pc[w] # "wctx" /\ pc'[w] # "wctx" /\ pc'[w] # "task" BY <1>1, <1>3
    <2> QED BY <1>0, <1>1, <1>2, <2>1, <2>2, QueueFrame
  <1>7. PhaseInv'
    <2>1. HeadMaster' = HeadMaster
      <3>1. qhead \in Workers BY <1>0 DEF TypeOK
      <3> QED BY <1>1, <1>2, <3>1 DEF HeadMaster
    <2>2. PhaseOf(w)' BY <1>3, <1>4 DEF PhaseOf
    <2> QED BY <1>1, <1>3, <1>4, <2>1, <2>2, PhaseFrame
  <1> QED BY <1>5, <1>6, <1>7 DEF IInv

(* A task reserves a slot of the ring and asks. *)
LEMMA RequestKeeps ==
  ASSUME IInv, NEW w \in Workers, LpelSpmdRequest(w), Alone(w), TypeOK'
  PROVE  IInv'
  <1>0. TypeOK /\ PhaseOf(w) BY Parts
  <1>1. /\ pc[w] = "run" /\ pc'[w] = "wctx" /\ pending'[w] = 1
        /\ UNCHANGED <<req_queue, qhead, sema, i, cur, log>>
    BY SMTT(60), <1>0, GotoAlone DEF LpelSpmdRequest, TypeOK, Labels, Outside
  <1>2. ~Leads(w) /\ ~Leads(w)' BY <1>1 DEF Leads
  <1>3. SemaInv' /\ LogInv'
    <2>1. Gathered(w)' = 0 /\ Gathered(w) = 0 BY <1>1 DEF Gathered
    <2>2. pc[w] \notin {"entered", "execute"} /\ pc'[w] \notin {"entered", "execute"}
      BY <1>1
    <2> QED BY <1>1, <1>2, <2>1, <2>2, NeutralKeeps
  <1>4. PhaseOf(w)'
    <2>1. cur[w] \in Tasks /\ i[w] = 0 BY <1>0, <1>1 DEF PhaseOf
    <2> QED BY <1>1, <1>2, <2>1 DEF PhaseOf
  <1>5. PhaseInv'
    <2>1. HeadMaster' = HeadMaster BY <1>1 DEF HeadMaster
    <2> QED BY <1>1, <1>2, <1>4, <2>1, PhaseFrame
  <1> QED BY <1>3, <1>5, RequestQueue DEF IInv

(* The task writes its worker into the slot. *)
LEMMA WctxKeeps ==
  ASSUME IInv, NEW w \in Workers, SetWctx(w), Alone(w), TypeOK'
  PROVE  IInv'
  <1>0. TypeOK /\ QueueInv /\ PhaseOf(w) BY Parts
  <1>1. /\ pc[w] = "wctx" /\ pc'[w] = "task"
        /\ UNCHANGED <<qhead, sema, pending, slot, i, cur, log>>
        /\ req_queue' = [req_queue EXCEPT ![slot[w]].wctx = w]
    BY <1>0, GotoAlone
       DEF SetWctx, Labels, Outside, spmdvars, localvars, taskvars
  <1>2. ~Leads(w) /\ ~Leads(w)' BY <1>1 DEF Leads
  <1>3. SemaInv' /\ LogInv'
    <2>1. Gathered(w)' = 0 /\ Gathered(w) = 0 BY <1>1 DEF Gathered
    <2>2. pc[w] \notin {"entered", "execute"} /\ pc'[w] \notin {"entered", "execute"}
      BY <1>1
    <2> QED BY <1>1, <1>2, <2>1, <2>2, NeutralKeeps
  <1>4. PhaseOf(w)'
    <2>1. cur[w] \in Tasks /\ i[w] = 0 /\ pending[w] = 1
      BY <1>0, <1>1 DEF PhaseOf
    <2> QED BY <1>1, <1>2, <2>1 DEF PhaseOf
  <1>5. HeadMaster' = HeadMaster \/ HeadMaster = NULL
    <2>1. qhead \in Workers /\ slot[w] \in Workers
          /\ req_queue \in [Workers -> Requests]
      BY <1>0 DEF TypeOK
    <2>2. CASE slot[w] # qhead BY <1>1, <2>1, <2>2 DEF HeadMaster
    <2>3. CASE slot[w] = qhead
      <3>1. Queued(w) BY <1>0, <1>1, <1>2 DEF Queued, PhaseOf
      <3>2. PICK q \in Seq(Workers) : Queues(q) BY <1>0 DEF QueueInv
      <3>3. PICK k \in 1 .. Len(q) : q[k] = w BY <3>1, <3>2 DEF Queues
      <3>4. req_queue[At(k)].wctx = NULL /\ slot[w] = At(k)
        BY <1>1, <3>2, <3>3 DEF Queues
      <3> QED BY <2>3, <3>4 DEF HeadMaster
    <2> QED BY <2>2, <2>3
  <1>6. PhaseInv' BY <1>1, <1>2, <1>4, <1>5, PhaseFrame
  <1> QED BY <1>3, <1>6, WctxQueue DEF IInv

(* A step that leaves the queue alone, and does not change who leads. *)
LEMMA StepFrame ==
  ASSUME IInv, NEW w \in Workers, Alone(w),
         UNCHANGED <<queuevars, pending, cur>>,
         Leads(w)' <=> Leads(w), PhaseOf(w)',
         pc[w] \notin {"wctx", "task"}, pc'[w] \notin {"wctx", "task"}
  PROVE  QueueInv' /\ PhaseInv'
  <1>0. TypeOK /\ QueueInv BY Parts
  <1>1. UNCHANGED <<req_queue, qhead, qtail, pending, cur>> BY DEF queuevars
  <1>2. Queued(w)' <=> Queued(w) BY <1>1 DEF Queued
  <1>3. pc[w] # "wctx" /\ pc'[w] # "wctx" /\ pc'[w] # "task" OBVIOUS
  <1>4. QueueInv' BY <1>0, <1>1, <1>2, <1>3, QueueFrame
  <1>5. HeadMaster' = HeadMaster BY <1>1 DEF HeadMaster
  <1>6. PhaseInv' BY <1>1, <1>5, PhaseFrame
  <1> QED BY <1>4, <1>6

(* A worker copies the first request of the ring. *)
LEMMA CopyKeeps ==
  ASSUME IInv, NEW w \in Workers, CopyRequest(w), Alone(w), TypeOK'
  PROVE  IInv'
  <1>0. TypeOK /\ PhaseOf(w) BY Parts
  <1>a. num_workers \in Nat /\ num_workers >= 1 BY WorkersAre
  <1>b. /\ slot \in [Workers -> Workers] /\ curreq \in [Workers -> Requests]
        /\ req_queue[qhead].wctx \in Workers \cup {NULL}
    BY <1>0 DEF TypeOK, Requests
  <1>1. /\ pc[w] = "handle" /\ i[w] = 0
        /\ UNCHANGED <<queuevars, pending, cur>> /\ UNCHANGED <<sema, i, log>>
    BY <1>0 DEF CopyRequest, PhaseOf, spmdvars, taskvars
  <1>2. HeadMaster' = HeadMaster /\ qhead' = qhead
    BY <1>1 DEF HeadMaster, queuevars
  <1>3. \/ pc'[w] = "pick"
        \/ /\ pc'[w] = "enter" /\ curreq'[w].wctx = HeadMaster
           /\ HeadMaster \in Others(w)
        \/ /\ pc'[w] \in {"gather", "critical"} /\ curreq'[w].wctx = w
           /\ HeadMaster = w /\ slot'[w] = qhead
           /\ pc'[w] = "gather" <=> num_workers # 1
    <2>1. CASE HeadMaster = NULL
      <3>1. Goto(w, "pick") BY <2>1 DEF CopyRequest, HeadMaster
      <3> QED BY <1>0, <3>1, GotoAlone DEF Labels, Outside
    <2>2. CASE HeadMaster # NULL /\ HeadMaster # w
      <3>1. Goto(w, "enter") /\ curreq' = [curreq EXCEPT ![w] = req_queue[qhead]]
        <4>1. HeadMaster \in Workers BY <1>b, <2>2 DEF HeadMaster
        <4>2. num_workers # 1 BY SMTT(60), <2>2, <4>1 DEF Workers
        <4>3. Goto(w, "enter") BY <2>2, <4>2 DEF CopyRequest, HeadMaster
        <4>4. curreq' = [curreq EXCEPT ![w] = req_queue[qhead]]
          BY <2>2 DEF CopyRequest, HeadMaster
        <4> QED BY <4>3, <4>4
      <3>2. pc'[w] = "enter" BY <1>0, <3>1, GotoAlone DEF Labels
      <3> QED BY <1>b, <2>2, <3>1, <3>2 DEF HeadMaster, Others
    <2>3. CASE HeadMaster # NULL /\ HeadMaster = w
      <3>1. /\ \/ Goto(w, "critical") /\ num_workers = 1
               \/ Goto(w, "gather") /\ num_workers # 1
            /\ curreq' = [curreq EXCEPT ![w] = req_queue[qhead]]
            /\ slot' = [slot EXCEPT ![w] = qhead]
        <4>1. /\ curreq' = [curreq EXCEPT ![w] = req_queue[qhead]]
              /\ slot' = [slot EXCEPT ![w] = qhead]
          BY <2>3 DEF CopyRequest, HeadMaster
        <4>2. CASE num_workers = 1
          <5>1. Goto(w, "critical") BY <2>3, <4>2 DEF CopyRequest, HeadMaster
          <5> QED BY <4>1, <4>2, <5>1
        <4>3. CASE num_workers # 1
          <5>1. Goto(w, "gather") BY <2>3, <4>3 DEF CopyRequest, HeadMaster
          <5> QED BY <4>1, <4>3, <5>1
        <4> QED BY <4>2, <4>3
      <3>2. \/ pc'[w] = "critical" /\ num_workers = 1
            \/ pc'[w] = "gather" /\ num_workers # 1
        BY <1>0, <3>1, GotoAlone DEF Labels
      <3>3. slot'[w] = qhead /\ curreq'[w] = req_queue[qhead] BY <1>b, <3>1
      <3> QED BY <2>3, <3>2, <3>3 DEF HeadMaster
    <2> QED BY <2>1, <2>2, <2>3
  <1>4. ~Leads(w) /\ ~Leads(w)' BY <1>1, <1>3 DEF Leads
  <1>5. PhaseOf(w)'
    <2>1. CASE pc'[w] = "pick" BY <1>1, <1>4, <2>1 DEF PhaseOf
    <2>2. CASE /\ pc'[w] = "enter" /\ curreq'[w].wctx = HeadMaster
               /\ HeadMaster \in Others(w)
      BY <1>1, <1>2, <1>4, <2>2 DEF PhaseOf
    <2>3. CASE /\ pc'[w] \in {"gather", "critical"} /\ curreq'[w].wctx = w
               /\ HeadMaster = w /\ slot'[w] = qhead
               /\ pc'[w] = "gather" <=> num_workers # 1
      <3>1. pc'[w] = "gather" => i'[w] + 2 <= num_workers
        BY SMTT(60), <1>a, <1>1, <2>3
      <3> QED BY <1>1, <1>2, <1>4, <2>3, <3>1 DEF PhaseOf
    <2> QED BY <1>3, <2>1, <2>2, <2>3
  <1>6. SemaInv' /\ LogInv'
    <2>1. Gathered(w)' = Gathered(w)
      <3>1. Gathered(w) = 0 BY <1>1 DEF Gathered
      <3>2. pc'[w] # "critical" => Gathered(w)' = 0 BY <1>1, <1>3 DEF Gathered
      <3>3. pc'[w] = "critical" => num_workers - 1 = 0
        <4>1. pc'[w] = "critical" => num_workers = 1 BY <1>3
        <4> QED BY SMTT(60), <4>1
      <3> QED BY <3>1, <3>2, <3>3 DEF Gathered
    <2>2. pc[w] \notin {"entered", "execute"} /\ pc'[w] \notin {"entered", "execute"}
      BY <1>1, <1>3
    <2> QED BY <1>1, <1>4, <2>1, <2>2, NeutralKeeps
  <1>7. QueueInv' /\ PhaseInv' BY <1>1, <1>3, <1>4, <1>5, StepFrame
  <1> QED BY <1>6, <1>7 DEF IInv

(* The barriers: a master that leaves one has been posted by all others, a *)
(* worker that leaves the first has been told by the master it came to.    *)
LEMMA BarrierKeeps ==
  ASSUME IInv, NEW w \in Workers, Alone(w), TypeOK',
         Gather(w) \/ Collect(w) \/ Signal(w)
  PROVE  IInv'
  <1>0. TypeOK /\ PhaseOf(w) BY Parts
  <1>a. num_workers \in Nat /\ num_workers >= 1 BY WorkersAre
  <1>b. i \in [Workers -> Nat] /\ i[w] \in Nat BY <1>0 DEF TypeOK
  <1>1. UNCHANGED <<queuevars, pending, cur>> /\ UNCHANGED <<curreq, slot>>
    BY DEF Gather, Collect, Signal, SemWaitAll, taskvars
  <1>2. HeadMaster' = HeadMaster /\ qhead' = qhead
    BY <1>1 DEF HeadMaster, queuevars
  <1>3. CASE Gather(w)
    <2>1. /\ pc[w] = "gather" /\ Iterate(w, num_workers - 2, "critical")
      BY <1>3 DEF Gather, SemWaitAll
    <2>2. /\ curreq[w].wctx = w /\ HeadMaster = w /\ slot[w] = qhead
          /\ i[w] + 2 <= num_workers
      BY <1>0, <2>1 DEF PhaseOf
    <2>3. \/ pc'[w] = "gather" /\ i'[w] + 2 <= num_workers
          \/ pc'[w] = "critical" /\ i'[w] = 0
      <3>1. CASE i[w] < num_workers - 2
        <4>1. pc' = pc /\ i'[w] = i[w] + 1 BY <1>b, <2>1, <3>1 DEF Iterate
        <4>2. i'[w] + 2 <= num_workers BY SMTT(60), <1>a, <1>b, <3>1, <4>1
        <4> QED BY <2>1, <4>1, <4>2
      <3>2. CASE ~(i[w] < num_workers - 2)
        <4>1. i'[w] = 0 /\ Goto(w, "critical") BY <1>b, <2>1, <3>2 DEF Iterate
        <4> QED BY <1>0, <4>1, GotoAlone DEF Labels
      <3> QED BY <3>1, <3>2
    <2>4. ~Leads(w) /\ ~Leads(w)' BY <2>1, <2>3 DEF Leads
    <2>5. PhaseOf(w)' BY <1>1, <1>2, <2>2, <2>3, <2>4 DEF PhaseOf
    <2>6. QueueInv' /\ PhaseInv' BY <1>1, <2>1, <2>3, <2>4, <2>5, StepFrame
    <2> QED BY <1>3, <2>6, GatherKeeps DEF IInv
  <1>4. CASE Collect(w)
    <2>1. /\ pc[w] = "collect" /\ Iterate(w, num_workers - 2, "wakeup")
      BY <1>4 DEF Collect, SemWaitAll
    <2>2. Leads(w) BY <2>1 DEF Leads
    <2>3. curreq[w].wctx = w /\ pending[w] = 1 /\ i[w] + 2 <= num_workers
      BY <1>0, <2>1, <2>2 DEF PhaseOf
    <2>4. \/ pc'[w] = "collect" /\ i'[w] + 2 <= num_workers
          \/ pc'[w] = "wakeup" /\ i'[w] = 0
      <3>1. CASE i[w] < num_workers - 2
        <4>1. pc' = pc /\ i'[w] = i[w] + 1 BY <1>b, <2>1, <3>1 DEF Iterate
        <4>2. i'[w] + 2 <= num_workers BY SMTT(60), <1>a, <1>b, <3>1, <4>1
        <4> QED BY <2>1, <4>1, <4>2
      <3>2. CASE ~(i[w] < num_workers - 2)
        <4>1. i'[w] = 0 /\ Goto(w, "wakeup") BY <1>b, <2>1, <3>2 DEF Iterate
        <4> QED BY <1>0, <4>1, GotoAlone DEF Labels
      <3> QED BY <3>1, <3>2
    <2>5. Leads(w)' BY <2>4 DEF Leads
    <2>6. PhaseOf(w)' BY <1>1, <2>3, <2>4 DEF PhaseOf
    <2>7. QueueInv' /\ PhaseInv'
      BY <1>1, <2>1, <2>2, <2>4, <2>5, <2>6, StepFrame
    <2> QED BY <1>4, <2>7, CollectKeeps DEF IInv
  <1>5. CASE Signal(w)
    <2>1. /\ pc[w] = "signal" /\ Iterate(w, num_workers - 1, "execute")
      BY <1>5 DEF Signal
    <2>2. Leads(w) BY <2>1 DEF Leads
    <2>3. curreq[w].wctx = w /\ pending[w] = 1 /\ i[w] + 1 <= num_workers
      BY <1>0, <2>1, <2>2 DEF PhaseOf
    <2>4. \/ pc'[w] = "signal" /\ i'[w] + 1 <= num_workers
          \/ pc'[w] = "execute" /\ i'[w] = 0
      <3>1. CASE i[w] < num_workers - 1
        <4>1. pc' = pc /\ i'[w] = i[w] + 1 BY <1>b, <2>1, <3>1 DEF Iterate
        <4>2. i'[w] + 1 <= num_workers BY SMTT(60), <1>a, <1>b, <3>1, <4>1
        <4> QED BY <2>1, <4>1, <4>2
      <3>2. CASE ~(i[w] < num_workers - 1)
        <4>1. i'[w] = 0 /\ Goto(w, "execute") BY <1>b, <2>1, <3>2 DEF Iterate
        <4> QED BY <1>0, <4>1, GotoAlone DEF Labels
      <3> QED BY <3>1, <3>2
    <2>5. curreq'[w].wctx = w BY <1>1, <2>3
    <2>6. Leads(w)' BY <2>4, <2>5 DEF Leads
    <2>7. Leads(curreq[w].wctx)'
      BY <2>4, <2>5 DEF Leads
    <2>8. PhaseOf(w)' BY <1>1, <2>3, <2>4, <2>5, <2>7 DEF PhaseOf
    <2>9. QueueInv' /\ PhaseInv'
      BY <1>1, <2>1, <2>2, <2>4, <2>6, <2>8, StepFrame
    <2> QED BY <1>5, <2>9, SignalKeeps DEF IInv
  <1> QED BY <1>3, <1>4, <1>5

(* The steps of a worker at the Start-Barrier keep the invariant. *)
LEMMA EntersKeep ==
  ASSUME IInv, NEW w \in Workers, Alone(w), TypeOK', Enter(w) \/ Entered(w)
  PROVE  IInv'
  <1>0. TypeOK /\ PhaseOf(w) BY Parts
  <1>1. UNCHANGED <<queuevars, pending, cur>> /\ UNCHANGED <<curreq, slot, i>>
    BY DEF Enter, Entered, localvars, taskvars
  <1>2. HeadMaster' = HeadMaster /\ qhead' = qhead
    BY <1>1 DEF HeadMaster, queuevars
  <1>3. CASE Enter(w)
    <2>1. pc[w] = "enter" /\ pc'[w] = "entered"
      BY <1>0, <1>3, GotoAlone DEF Enter, Labels
    <2>2. curreq[w].wctx = HeadMaster /\ HeadMaster \in Others(w) /\ i[w] = 0
      BY <1>0, <2>1 DEF PhaseOf
    <2>3. ~Leads(w) /\ ~Leads(w)' BY <2>1 DEF Leads
    <2>4. PhaseOf(w)' BY <1>1, <1>2, <2>1, <2>2, <2>3 DEF PhaseOf
    <2>5. QueueInv' /\ PhaseInv' BY <1>1, <2>1, <2>3, <2>4, StepFrame
    <2> QED BY <1>3, <2>5, EnterKeeps DEF IInv
  <1>4. CASE Entered(w)
    <2>1. pc[w] = "entered" /\ pc'[w] = "execute" /\ sema[w] > 0
      BY <1>0, <1>4, GotoAlone DEF Entered, Labels
    <2>2. PICK m \in Workers : m = curreq[w].wctx /\ m \in Others(w) /\ Leads(m)
      BY <2>1, TakenInTime DEF Others
    <2>3. Leads(m)' BY <2>2, OthersSame
    <2>4. curreq'[w].wctx = m /\ m # w BY <1>1, <2>2 DEF Others
    <2>5. Leads(curreq[w].wctx)' BY <2>3, <2>4 DEF Leads
    <2>6. ~Leads(w) /\ ~Leads(w)' BY <2>1, <2>4 DEF Leads
    <2>7. i[w] = 0 BY <1>0, <2>1 DEF PhaseOf
    <2>8. PhaseOf(w)' BY <1>1, <2>1, <2>4, <2>5, <2>6, <2>7 DEF PhaseOf
    <2>9. QueueInv' /\ PhaseInv' BY <1>1, <2>1, <2>6, <2>8, StepFrame
    <2> QED BY <1>4, <2>9, EnteredKeeps DEF IInv
  <1> QED BY <1>3, <1>4

(* A worker has executed the function of the request. *)
LEMMA ExecutedKeeps ==
  ASSUME IInv, NEW w \in Workers, Alone(w), TypeOK', Executed(w)
  PROVE  IInv'
  <1>0. TypeOK /\ PhaseOf(w) BY Parts
  <1>a. num_workers \in Nat /\ num_workers >= 1 BY WorkersAre
  <1>1. pc[w] = "execute" /\ UNCHANGED <<queuevars, pending, cur>> /\ i' = i
    BY DEF Executed, taskvars
  <1>2. i[w] = 0 BY <1>0, <1>1 DEF PhaseOf
  <1>3. CASE curreq[w].wctx = w
    <2>1. /\ curreq' = curreq
          /\ \/ Goto(w, "wakeup")
             \/ Goto(w, "collect") /\ num_workers # 1
      BY <1>3 DEF Executed
    <2>2. \/ pc'[w] = "wakeup"
          \/ pc'[w] = "collect" /\ num_workers # 1
      BY <1>0, <2>1, GotoAlone DEF Labels
    <2>3. Leads(w) BY <1>1, <1>3 DEF Leads
    <2>4. Leads(w)' BY <2>2 DEF Leads
    <2>5. pending[w] = 1 BY <1>0, <2>3 DEF PhaseOf
    <2>6. pc'[w] = "collect" => i'[w] + 2 <= num_workers
      BY SMTT(60), <1>a, <1>1, <1>2, <2>2
    <2>7. PhaseOf(w)' BY <1>1, <1>2, <1>3, <2>1, <2>2, <2>5, <2>6 DEF PhaseOf
    <2>8. QueueInv' /\ PhaseInv'
      BY <1>1, <2>2, <2>3, <2>4, <2>7, StepFrame
    <2> QED BY <1>3, <2>8, LeadKeeps DEF IInv
  <1>4. CASE curreq[w].wctx # w
    <2>1. pc'[w] = "handle"
      BY <1>0, <1>4, GotoAlone DEF Executed, Labels, Outside
    <2>2. ~Leads(w) /\ ~Leads(w)' BY <1>1, <1>4, <2>1 DEF Leads
    <2>3. PhaseOf(w)' BY <1>1, <1>2, <2>1, <2>2 DEF PhaseOf
    <2>4. QueueInv' /\ PhaseInv' BY <1>1, <2>1, <2>2, <2>3, StepFrame
    <2> QED BY <1>4, <2>4, FinishKeeps DEF IInv
  <1> QED BY <1>3, <1>4

(* The master becomes the leader when all others wait for it, and nobody   *)
(* leads before.                                                           *)
LEMMA CriticalStep ==
  ASSUME IInv, NEW w \in Workers, Alone(w), TypeOK', CriticalSection(w)
  PROVE  IInv'
  <1>0. TypeOK /\ QueueInv /\ PhaseOf(w) BY Parts
  <1>a. num_workers \in Nat /\ num_workers >= 1 BY WorkersAre
  <1>1. /\ pc[w] = "critical" /\ pc'[w] = "signal"
        /\ UNCHANGED <<pending, curreq, i, cur>>
    BY <1>0, GotoAlone
       DEF CriticalSection, Labels, spmdvars, localvars, taskvars
  <1>2. /\ \A m \in Workers : ~Leads(m)
        /\ HeadMaster = w
        /\ \A v \in Others(w) : pc[v] = "entered" /\ curreq[v].wctx = w
    BY <1>1, Barrier
  <1>3. Leads(w)' BY <1>1 DEF Leads
  <1>4. PhaseOf(w)'
    <2>1. Queued(w) BY <1>0, <1>2, HeadQueued, WorkersAre
    <2>2. pending[w] = 1 BY <2>1 DEF Queued
    <2>3. curreq[w].wctx = w /\ i[w] = 0 BY <1>0, <1>1 DEF PhaseOf
    <2>4. i'[w] + 1 <= num_workers BY SMTT(60), <1>a, <1>1, <2>3
    <2> QED BY <1>1, <2>2, <2>3, <2>4 DEF PhaseOf
  <1>5. ASSUME NEW v \in Others(w) PROVE PhaseOf(v)' /\ ~Leads(v)'
    <2>1. PhaseOf(v) /\ v \in Workers BY Parts DEF Others
    <2>2. /\ pc'[v] = "entered" /\ curreq'[v].wctx = w /\ w \in Others(v)
          /\ i'[v] = i[v] /\ pc[v] = "entered"
      BY <1>2 DEF Alone, Others
    <2>3. i'[v] = 0 BY <2>1, <2>2 DEF PhaseOf
    <2>4. Leads(curreq[v].wctx)' BY <1>1, <2>2 DEF Leads
    <2>5. ~Leads(v)' BY <2>2 DEF Leads
    <2> QED BY <2>2, <2>3, <2>4, <2>5 DEF PhaseOf
  <1>6. PhaseInv' BY <1>4, <1>5 DEF PhaseInv, Others
  <1> QED BY <1>6, CriticalQueue, CriticalKeeps DEF IInv

(* The leader steps down when nobody is at its request. *)
LEMMA WakeupStep ==
  ASSUME IInv, NEW w \in Workers, Alone(w), TypeOK', Wakeup(w)
  PROVE  IInv'
  <1>0. TypeOK /\ QueueInv /\ PhaseOf(w) BY Parts
  <1>1. /\ pc[w] = "wakeup" /\ pc'[w] = "handle" /\ pending'[w] = 0
        /\ UNCHANGED <<req_queue, qhead, qtail, i, cur>>
    BY SMTT(60), <1>0, GotoAlone DEF Wakeup, Labels, Outside, TypeOK, queuevars
  <1>2. Leads(w) /\ ~Leads(w)' BY <1>1 DEF Leads
  <1>3. QueueInv'
    <2>1. Queued(w)' <=> Queued(w) BY SMTT(60), <1>1, <1>2 DEF Queued
    <2>2. pc[w] # "wctx" /\ pc'[w] # "wctx" /\ pc'[w] # "task" BY <1>1
    <2> QED BY <1>0, <1>1, <2>1, <2>2, QueueFrame
  <1>4. PhaseOf(w)'
    <2>1. i[w] = 0 BY <1>0, <1>1 DEF PhaseOf
    <2> QED BY <1>1, <1>2, <2>1 DEF PhaseOf
  <1>5. HeadMaster' = HeadMaster BY <1>1 DEF HeadMaster
  <1>6. \A v \in Others(w) : ~Leads(v) BY <1>2, Parts DEF Others
  <1>7. ASSUME NEW v \in Others(w) PROVE PhaseOf(v)' /\ ~Leads(v)'
    <2>0. v \in Workers /\ PhaseOf(v) BY Parts DEF Others
    <2>1. /\ pc'[v] = pc[v] /\ curreq'[v] = curreq[v] /\ i'[v] = i[v]
          /\ slot'[v] = slot[v] /\ pending'[v] = pending[v]
      BY DEF Alone
    <2>2. ~Leads(v) /\ ~Leads(v)' BY <1>6, OthersSame
    <2>3. ~(pc[v] \in {"entered", "execute"} /\ curreq[v].wctx = w)
      BY <1>1, <2>0, AllDone
    <2>4. pc[v] # "execute"
      <3>1. pc[v] = "execute" =>
              /\ curreq[v].wctx \in Workers /\ Leads(curreq[v].wctx)
        BY <2>0 DEF PhaseOf
      <3> QED BY <1>6, <2>3, <3>1 DEF Others
    <2>5. pc[v] = "entered" =>
            curreq[v].wctx \in Others(v) /\ curreq[v].wctx = HeadMaster
      <3>1. pc[v] = "entered" =>
              /\ curreq[v].wctx \in Others(v)
              /\ curreq[v].wctx = HeadMaster \/ Leads(curreq[v].wctx)
        BY <2>0 DEF PhaseOf
      <3> QED BY <1>6, <2>3, <3>1 DEF Others
    <2>6. pc'[v] # "execute" BY <2>1, <2>4
    <2>7. pc'[v] = "entered" =>
            curreq'[v].wctx \in Others(v) /\ curreq'[v].wctx = HeadMaster'
      BY <1>5, <2>1, <2>5
    <2>8. /\ pc'[v] \in {"run", "wctx", "task", "broadcast"} => cur'[v] \in Tasks
          /\ pc'[v] \in {"wctx", "task"} => pending'[v] = 1
          /\ pc'[v] \in {"gather", "critical"} =>
               curreq'[v].wctx = v /\ HeadMaster' = v /\ slot'[v] = qhead'
          /\ pc'[v] = "enter" =>
               curreq'[v].wctx = HeadMaster' /\ HeadMaster' \in Others(v)
      BY <1>1, <1>5, <2>0, <2>1 DEF PhaseOf
    <2>9. /\ pc'[v] \in {"gather", "collect"} => i'[v] + 2 <= num_workers
          /\ pc'[v] \in {"signal", "broadcast"} => i'[v] + 1 <= num_workers
          /\ pc'[v] \notin {"gather", "collect", "signal", "broadcast"} =>
               i'[v] = 0
      BY <2>0, <2>1 DEF PhaseOf
    <2> QED BY <2>2, <2>6, <2>7, <2>8, <2>9 DEF PhaseOf
  <1>8. PhaseInv' BY <1>2, <1>4, <1>7 DEF PhaseInv, Others
  <1> QED BY <1>3, <1>8, WakeupKeeps DEF IInv

----------------------------------------------------------------------------
(* The invariant *)

(* The invariant holds in the initial state. *)
LEMMA InitInv == Init => IInv
  <1> SUFFICES ASSUME Init PROVE IInv OBVIOUS
  <1>a. num_workers \in Nat /\ num_workers >= 1 /\ 0 \in Workers
    BY SMTT(60), WorkersAre
  <1>1. TypeOK BY SMTT(60), <1>a, NoReqType DEF Init, TypeOK, Labels, Outside
  <1>2. \A w \in Workers : /\ pc[w] = "handle" /\ pending[w] = 0 /\ i[w] = 0
                           /\ sema[w] = 0 /\ log[w] = << >>
                           /\ req_queue[w].wctx = NULL
    BY NoReqType DEF Init
  <1>3. \A w \in Workers : ~Leads(w) BY <1>2 DEF Leads
  <1>4. QueueInv
    <2>1. << >> \in Seq(Workers) /\ Len(<< >>) = 0 BY SMTT(60)
    <2>2. qtail = qhead + 0 BY SMTT(60) DEF Init
    <2>3. \A w \in Workers : ~Queued(w) BY SMTT(60), <1>2 DEF Queued
    <2>4. Queues(<< >>) BY SMTT(60), <1>2, <2>1, <2>2, <2>3 DEF Queues
    <2> QED BY <2>1, <2>4 DEF QueueInv
  <1>5. PhaseInv BY <1>2, <1>3 DEF PhaseInv, PhaseOf
  <1>6. SemaInv
    <2>1. ASSUME NEW w \in Workers PROVE sema[w] + Gathered(w) = Cardinality(Came(w))
      <3>1. Came(w) = {} BY <1>2 DEF Came
      <3>2. Cardinality(Came(w)) = 0 BY <3>1, FS_EmptySet
      <3>3. Gathered(w) = 0 /\ sema[w] = 0 BY <1>2 DEF Gathered
      <3> QED BY SMTT(60), <3>2, <3>3
    <2> QED BY <1>3, <2>1 DEF SemaInv
  <1>7. LogInv
    <2>1. << >> \in Seq(Workers) BY SMTT(60)
    <2>2. Logs(<< >>) BY <1>2, <1>3 DEF Logs
    <2> QED BY <2>1, <2>2 DEF LogInv
  <1> QED BY <1>1, <1>4, <1>5, <1>6, <1>7 DEF IInv

(* Steps that change nothing of the protocol keep the invariant. *)
LEMMA StutterKeeps ==
  ASSUME IInv, UNCHANGED <<queuevars, spmdvars, pc, localvars, taskvars, log>>
  PROVE  IInv'
  <1>0. TypeOK /\ QueueInv /\ PhaseInv /\ SemaInv /\ LogInv BY Parts
  <1>1. /\ UNCHANGED <<req_queue, qhead, qtail, sema, pending, pc, slot, curreq, i>>
        /\ UNCHANGED <<cur, ready, waiting, log>>
    BY DEF queuevars, spmdvars, localvars, taskvars
  <1>2. \A w : Leads(w)' <=> Leads(w) BY <1>1 DEF Leads
  <1>3. TypeOK' BY <1>0, <1>1 DEF TypeOK
  <1>4. QueueInv'
    <2>1. \A k : At(k)' = At(k) BY <1>1 DEF At
    <2>2. \A w : Queued(w)' <=> Queued(w) BY <1>1, <1>2 DEF Queued
    <2> QED BY SMTT(60), <1>0, <1>1, <2>1, <2>2 DEF QueueInv, Queues
  <1>5. PhaseInv'
    <2>1. HeadMaster' = HeadMaster BY <1>1 DEF HeadMaster
    <2>2. \A w : Leads(curreq[w].wctx)' <=> Leads(curreq[w].wctx)
      BY <1>1 DEF Leads
    <2>3. \A w : PhaseOf(w)' <=> PhaseOf(w)
      BY SMTT(60), <1>1, <1>2, <2>1, <2>2 DEF PhaseOf
    <2> QED BY <1>0, <1>2, <2>3 DEF PhaseInv
  <1>6. \A w : Came(w)' = Came(w) /\ Done(w)' = Done(w) BY <1>1 DEF Came, Done
  <1>7. SemaInv'
    <2>1. \A w : Collected(w)' = Collected(w) /\ Gathered(w)' = Gathered(w)
      BY <1>1 DEF Collected, Gathered
    <2>2. \A m, w : Told(m, w)' = Told(m, w) /\ Passed(m, w)' = Passed(m, w)
      BY <1>1 DEF Told, Passed
    <2> QED BY <1>0, <1>1, <1>2, <1>6, <2>1, <2>2 DEF SemaInv
  <1>8. LogInv'
    <2>1. \A m, u : Ran(m, u)' <=> Ran(m, u) BY <1>1, <1>6 DEF Ran
    <2> QED BY <1>0, <1>1, <1>2, <2>1 DEF LogInv, Logs
  <1> QED BY <1>3, <1>4, <1>5, <1>7, <1>8 DEF IInv

(* Every step keeps the invariant. *)
LEMMA NextKeeps == IInv /\ [Next]_vars => IInv'
  <1> SUFFICES ASSUME IInv, [Next]_vars PROVE IInv' OBVIOUS
  <1>0. TypeOK BY Parts
  <1>1. CASE UNCHANGED vars BY <1>1, StutterKeeps DEF vars
  <1>2. ASSUME NEW w \in Workers, Step(w) PROVE IInv'
    <2>0. PhaseOf(w) BY Parts
    <2>1. CASE Abort(w) BY <2>1, StutterKeeps DEF Abort
    <2>2. CASE Gather(w) \/ Signal(w) \/ Enter(w) \/ Entered(w) \/ Collect(w)
      <3>1. pc[w] = "enter" => curreq[w].wctx \in Workers
        BY <2>0 DEF PhaseOf, Others
      <3>2. TypeOK' /\ Alone(w) BY <1>0, <2>2, <3>1, BarrierTypes
      <3> QED BY <2>2, <3>2, BarrierKeeps, EntersKeep
    <2>3. CASE CopyRequest(w) \/ CriticalSection(w) \/ Executed(w) \/ Wakeup(w)
      <3>1. /\ pc[w] = "execute" => curreq[w].wctx \in Workers
            /\ pc[w] = "critical" => slot[w] = qhead
        BY <2>0 DEF PhaseOf
      <3>2. TypeOK' /\ Alone(w) BY <1>0, <2>3, <3>1, RequestTypes
      <3> QED BY <2>3, <3>2, CopyKeeps, CriticalStep, ExecutedKeeps, WakeupStep
    <2>4. CASE \/ LpelSpmdRequest(w) \/ SetWctx(w) \/ SetTask(w)
               \/ LpelWorkerBroadcast(w) \/ LpelTaskExit(w) \/ FetchAllMessages(w)
               \/ Pick(w) \/ WaitForNewMessage(w)
      <3>1. pc[w] = "broadcast" => cur[w] \in Tasks BY <2>0 DEF PhaseOf
      <3>2. TypeOK' /\ Alone(w) BY <1>0, <2>4, <3>1, TaskTypes
      <3> QED BY <2>4, <3>2, OutsideKeeps, RequestKeeps, WctxKeeps
    <2> QED BY <1>2, <2>1, <2>2, <2>3, <2>4 DEF Step, HandleRequests
  <1> QED BY <1>1, <1>2 DEF Next, Idle

(* The invariant holds for any number of workers, tasks and requests. *)
THEOREM SpmdInvariant == Spec => []IInv
  <1> QED BY InitInv, NextKeeps, PTL DEF Spec

(* "now master is the sole thread operating on the queue": a master that   *)
(* has left the Start-Barrier finds every other worker waiting for it,     *)
(* although its semaphore also takes the posts of the request before.      *)
THEOREM MasterAlone == Spec => []SoleOperator
  <1>1. IInv => SoleOperator BY Barrier DEF SoleOperator, Others
  <1> QED BY <1>1, SpmdInvariant, PTL

(* "a fixed queue size of num_workers is sufficient": LpelSpmdRequest puts *)
(* a request in a slot that nobody else has reserved or uses.              *)
THEOREM QueueLargeEnough == Spec => []SlotIsFree
  <1>1. ASSUME IInv PROVE SlotIsFree
    <2>0. TypeOK /\ QueueInv /\ \A w \in Workers : PhaseOf(w) BY <1>1, Parts
    <2>1. PICK q \in Seq(Workers) : Queues(q) BY <2>0 DEF QueueInv
    <2>2. Len(q) \in Nat /\ Len(q) <= num_workers BY <2>1, NoMore DEF Queues
    <2>3. \A k \in 1 .. Len(q) : k \in 1 .. num_workers
      BY SMTT(60), <2>2, WorkersAre
    <2>4. ASSUME NEW w \in Workers, pc[w] = "wctx"
          PROVE  \E k \in 1 .. Len(q) : /\ q[k] = w /\ slot[w] = At(k)
                                        /\ req_queue[At(k)].wctx = NULL
      <3>1. Queued(w) BY <2>0, <2>4 DEF Queued, PhaseOf, Leads
      <3>2. PICK k \in 1 .. Len(q) : q[k] = w BY <2>1, <3>1 DEF Queues
      <3>3. req_queue[At(k)].wctx = NULL /\ slot[w] = At(k)
        BY <2>1, <2>4, <3>2 DEF Queues
      <3> QED BY <3>2, <3>3
    <2>5. ASSUME NEW w \in Workers, pc[w] = "wctx",
                 NEW v \in Workers, pc[v] = "wctx", slot[v] = slot[w]
          PROVE  v = w
      <3>1. PICK j \in 1 .. Len(q) : q[j] = w /\ slot[w] = At(j) BY <2>4, <2>5
      <3>2. PICK k \in 1 .. Len(q) : q[k] = v /\ slot[v] = At(k) BY <2>4, <2>5
      <3>3. j = k BY <2>0, <2>3, <2>5, <3>1, <3>2, Slots
      <3> QED BY <3>1, <3>2, <3>3
    <2> QED BY <2>4, <2>5 DEF SlotIsFree
  <1> QED BY <1>1, SpmdInvariant, PTL

(* The workers execute the same requests in the same order, and those that *)
(* are inside the barriers have one master and different virtual ids, of   *)
(* which the master's is 0 (LpelSpmdVId).                                  *)
THEOREM RequestsAgree == Spec => []SameRequests
  <1>1. ASSUME IInv PROVE SameRequests
    <2>0. /\ LogInv /\ \A w \in Workers : PhaseOf(w)
          /\ \A v, w \in Workers : Leads(v) /\ Leads(w) => v = w
      BY <1>1, Parts
    <2>1. ASSUME NEW v \in Workers, NEW w \in Workers,
                 NEW k \in DOMAIN log[v] \cap DOMAIN log[w]
          PROVE  log[v][k] = log[w][k]
      <3>1. PICK l \in Seq(Workers) : Logs(l) BY <2>0 DEF LogInv
      <3>2. CASE \A m \in Workers : ~Leads(m) BY <3>1, <3>2 DEF Logs
      <3>3. CASE \E m \in Workers : Leads(m)
        <4>1. PICK m \in Workers : Leads(m) BY <3>3
        <4>2. PICK a \in Seq(Workers) : a = Append(l, m) BY Appended
        <4>3. log[v] \in {l, a} /\ log[w] \in {l, a}
          BY <3>1, <4>1, <4>2 DEF Logs
        <4>4. \A j \in DOMAIN l : a[j] = l[j] BY SMTT(60), <4>2, Appended
        <4> QED BY <4>3, <4>4
      <3> QED BY <3>2, <3>3
    <2>2. ASSUME NEW v \in Workers, NEW w \in Workers,
                 pc[v] = "execute", pc[w] = "execute", v # w
          PROVE  /\ curreq[v].wctx = curreq[w].wctx
                 /\ LpelSpmdVId(v) # LpelSpmdVId(w)
                 /\ LpelSpmdVId(v) = 0 <=> curreq[v].wctx = v
      <3>1. PICK m \in Workers : m = curreq[v].wctx /\ Leads(m)
        BY <2>0, <2>2 DEF PhaseOf
      <3>2. curreq[w].wctx = m BY <2>0, <2>2, <3>1 DEF PhaseOf
      <3>3. /\ num_workers \in Nat
            /\ m \in Nat /\ m < num_workers /\ v \in Nat /\ v < num_workers
            /\ w \in Nat /\ w < num_workers
        BY WorkersAre
      <3>4. LpelSpmdVId(v) = GetVId(v, m) /\ LpelSpmdVId(w) = GetVId(w, m)
        BY <3>1, <3>2 DEF LpelSpmdVId
      <3>5. GetVId(v, m) # GetVId(w, m) BY SMTT(60), <2>2, <3>3 DEF GetVId
      <3>6. GetVId(v, m) = 0 <=> m = v BY SMTT(60), <3>3 DEF GetVId
      <3> QED BY <3>1, <3>2, <3>4, <3>5, <3>6
    <2> QED BY <2>1, <2>2 DEF SameRequests
  <1> QED BY <1>1, SpmdInvariant, PTL
=============================================================================
