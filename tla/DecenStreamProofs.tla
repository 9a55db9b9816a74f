-------------------------- MODULE DecenStreamProofs --------------------------
(***************************************************************************)
(* Proofs about DecenStream: each step of a task on its streams keeps the  *)
(* invariant IInv of DecenStreamInv, the safety properties of the streams  *)
(* follow from it, and the streams implement TaskPark.                     *)
(***************************************************************************)
EXTENDS DecenStreamInv, TLAPS

(* The provers of a leaf that names no other. *)
USE ZenonT(60), SMTT(60), SMTT(120)

----------------------------------------------------------------------------
(* The invariant, one stream or task at a time. *)

(* Every variable has its type. *)
LEMMA TypeFact == IInv => TypeOK
  BY DEF IInv

(* What the invariant says of a stream. *)
LEMMA StreamFacts ==
  ASSUME IInv, NEW x \in Streams
  PROVE  /\ CountsOf(x) /\ RingOf(x) /\ WaitsOf(x) /\ LockOf(x) /\ LifeOf(x)
         /\ ReadIsInSet(x) /\ RegisteredOf(x)
  BY DEF IInv

(* What the invariant says of a task. *)
LEMMA TaskFacts ==
  ASSUME IInv, NEW u \in Tasks
  PROVE  RolesOf(u) /\ TokensOf(u) /\ SetOf(u) /\ ArmedOf(u) /\ ReadyOf(u)
  BY DEF IInv

----------------------------------------------------------------------------
(* Types, one stream or task at a time: the provers do better with them    *)
(* than with the function sets of TypeOK.                                  *)

(* What is attached to a stream has the type its declaration gives it. *)
LEMMA StreamTypes ==
  ASSUME IInv, NEW x \in Streams
  PROVE  /\ nw[x] \in Nat /\ nr[x] \in Nat
         /\ n_sem[x] \in Int /\ e_sem[x] \in Int
         /\ n_sem[x] >= -1 /\ e_sem[x] >= -1
         /\ Size[x] \in Nat /\ Size[x] > 0 /\ Last[x] \in Nat
         /\ Producer[x] \in Tasks /\ Consumer[x] \in Tasks
  <1>1. /\ nw \in [Streams -> Nat] /\ nr \in [Streams -> Nat]
        /\ n_sem \in [Streams -> Int] /\ e_sem \in [Streams -> Int]
    BY TypeFact DEF TypeOK
  <1>2. n_sem[x] >= -1 /\ e_sem[x] >= -1 BY StreamFacts DEF CountsOf
  <1> QED BY <1>1, <1>2, StreamAssumption, SMTT(60), SMTT(120)

(* What is attached to a task has the type its declaration gives it. *)
LEMMA TaskTypes ==
  ASSUME IInv, NEW u \in Tasks
  PROVE  /\ pc[u] \in PcValues /\ sd[u] \in Streams /\ wake[u] \in Nat
         /\ poll_token[u] \in {0, 1} /\ poll_wakeup[u] \in {0, 1}
         /\ wakeup_sd[u] \in Streams /\ set[u] \in Seq(Streams)
         /\ pos[u] \in Nat /\ cnt[u] \in Int
  BY TypeFact DEF TypeOK

----------------------------------------------------------------------------
(* What a step leaves alone. *)

(* The counts of a stream do not change. *)
LEMMA CountsSame ==
  ASSUME NEW x, CountsOf(x), nw' = nw, nr' = nr, n_sem' = n_sem, e_sem' = e_sem,
         pc' = pc, sd' = sd
  PROVE  CountsOf(x)'
  BY SMTT(60), SMTT(120) DEF CountsOf, At

(* The cursor a moves on by one in a ring of z slots: the distance of slot *)
(* i from it, and the slot that is k away.                                 *)
LEMMA RingStep ==
  ASSUME NEW z \in Nat, NEW a \in 0 .. z - 1, NEW b,
         b = IF a + 1 >= z THEN a + 1 - z ELSE a + 1
  PROVE  /\ b \in 0 .. z - 1
         /\ \A i \in 0 .. z - 1 :
              (IF i >= b THEN i - b ELSE i - b + z) =
                IF i = a THEN z - 1
                ELSE (IF i >= a THEN i - a ELSE i - a + z) - 1
         /\ \A k \in 1 .. z :
              (IF a + k < z THEN a + k ELSE a + k - z) =
                IF b + (k - 1) < z THEN b + (k - 1) ELSE b + (k - 1) - z
  BY SMTT(60), SMTT(120)

PollPcs == {"p_fast", "p_token", "p_reg", "p_blk", "p_unreg"}

(* A step of t on stream x outside the poll: it touches no other stream,   *)
(* and of another task only wake, poll_token and wakeup_sd.                *)
StreamMove(t, x) ==
  /\ pc[t] \in {"user"} \cup WritePcs \cup ReadPcs
  /\ pc'[t] \in {"user"} \cup WritePcs \cup ReadPcs
  /\ pc[t] = "user" \/ sd[t] = x
  /\ sd'[t] = x
  /\ \A u \in Tasks : u # t => pc'[u] = pc[u] /\ sd'[u] = sd[u]
  /\ \A y \in Streams : y # x =>
       /\ data'[y] = data[y] /\ pread'[y] = pread[y] /\ pwrite'[y] = pwrite[y]
       /\ n_sem'[y] = n_sem[y] /\ e_sem'[y] = e_sem[y]
       /\ is_poll'[y] = is_poll[y] /\ prod_lock'[y] = prod_lock[y]
       /\ nw'[y] = nw[y] /\ nr'[y] = nr[y]
  /\ is_poll'[x] => is_poll[x]
  /\ nw'[x] \in {nw[x], nw[x] + 1}
  /\ Consumer[x] # t => nr'[x] = nr[x]
  /\ \A u \in Tasks : pc[u] \in {"r_blk", "w_blk"} /\ sd[u] # x =>
       wake'[u] = wake[u]
  /\ UNCHANGED <<lifevars, set, pos, cnt>>

(* A step of t inside the poll, or between the poll and the user code: it  *)
(* touches nothing of another task but is_poll of streams t consumes.      *)
PollMove(t) ==
  /\ pc[t] \in PollPcs \cup {"user"} /\ pc'[t] \in PollPcs \cup {"user"}
  /\ \A u \in Tasks : u # t =>
       /\ pc'[u] = pc[u] /\ wake'[u] = wake[u]
       /\ poll_token'[u] = poll_token[u] /\ wakeup_sd'[u] = wakeup_sd[u]
       /\ set'[u] = set[u] /\ pos'[u] = pos[u] /\ cnt'[u] = cnt[u]
  /\ \A x \in Streams : Consumer[x] # t => is_poll'[x] = is_poll[x]
  /\ UNCHANGED <<bufvars, n_sem, e_sem, prod_lock, nw, nr, lifevars, sd,
                 poll_wakeup>>

(* The ring only depends on the buffer and on the numbers of items. *)
LEMMA RingFrame ==
  ASSUME IInv, UNCHANGED <<bufvars, nw, nr>>
  PROVE  \A x \in Streams : RingOf(x)'
  BY StreamFacts DEF RingOf, Slots, Offset, bufvars

(* A step of the poll keeps what the invariant says of the stream          *)
(* operations.                                                             *)
LEMMA PollFrame ==
  ASSUME IInv, NEW t \in Tasks, PollMove(t)
  PROVE  /\ \A u \in Tasks : RolesOf(u)'
         /\ \A x \in Streams : /\ CountsOf(x)' /\ RingOf(x)' /\ WaitsOf(x)'
                               /\ LockOf(x)' /\ LifeOf(x)'
  <1>0. /\ UNCHANGED <<bufvars, n_sem, e_sem, prod_lock, nw, nr, sd>>
        /\ UNCHANGED <<alive, rOpen, wOpen>>
        /\ \A u \in Tasks : u # t => pc'[u] = pc[u] /\ wake'[u] = wake[u]
        /\ pc[t] \notin WritePcs \cup ReadPcs
        /\ pc'[t] \notin WritePcs \cup ReadPcs
    BY DEF PollMove, lifevars, PollPcs, WritePcs, ReadPcs
  <1>1. \A u \in Tasks : RolesOf(u)'
    BY <1>0, TaskFacts DEF RolesOf
  <1>2. ASSUME NEW x \in Streams
        PROVE  CountsOf(x)' /\ WaitsOf(x)' /\ LockOf(x)' /\ LifeOf(x)'
    <2> DEFINE p == Producer[x]
               c == Consumer[x]
    <2>0. /\ CountsOf(x) /\ WaitsOf(x) /\ LockOf(x) /\ LifeOf(x)
          /\ p \in Tasks /\ c \in Tasks
      BY StreamTypes, StreamFacts, TaskFacts
    <2>1. \A u \in Tasks, S \in SUBSET (WritePcs \cup ReadPcs) :
            At(u, S, x)' <=> At(u, S, x)
      BY <1>0 DEF At
    <2>2. \A u \in Tasks : At(u, {"r_blk"}, x) \/ At(u, {"w_blk"}, x) =>
                             wake'[u] = wake[u]
      BY <1>0 DEF At, WritePcs, ReadPcs
    <2>3. CountsOf(x)'
      <3>1. /\ At(p, {"w_poll", "w_v"}, x)' <=> At(p, {"w_poll", "w_v"}, x)
            /\ At(p, {"w_blk", "w_put"}, x)' <=> At(p, {"w_blk", "w_put"}, x)
            /\ At(c, {"r_blk", "r_pop"}, x)' <=> At(c, {"r_blk", "r_pop"}, x)
        BY <2>0, <2>1 DEF WritePcs, ReadPcs
      <3>2. /\ At(c, {"r_v"}, x)' <=> At(c, {"r_v"}, x)
            /\ At(c, {"r_pop"}, x)' <=> At(c, {"r_pop"}, x)
            /\ At(p, {"w_put"}, x)' <=> At(p, {"w_put"}, x)
        BY <2>0, <2>1 DEF WritePcs, ReadPcs
      <3> QED BY <1>0, <2>0, <3>1, <3>2 DEF CountsOf, One
    <2>4. WaitsOf(x)'
      BY <1>0, <2>0, <2>1, <2>2 DEF WaitsOf, WritePcs, ReadPcs
    <2>5. LockOf(x)' /\ LifeOf(x)'
      BY <1>0, <2>0, <2>1 DEF LockOf, LifeOf, WritePcs, ReadPcs
    <2> QED BY <2>3, <2>4, <2>5
  <1> QED BY <1>0, <1>1, <1>2, RingFrame

(* A step of the poll moves no token between writers. *)
LEMMA HoldsFrame ==
  ASSUME NEW t \in Tasks, PollMove(t)
  PROVE  \A u, v \in Tasks : HoldsToken(u, v)' <=> HoldsToken(u, v)
  BY DEF HoldsToken, PollMove, PollPcs

(* So a step of the poll keeps IInv when it keeps the types and what IInv  *)
(* says of the poller and of the streams it consumes.                      *)
LEMMA PollKeeps ==
  ASSUME IInv, NEW t \in Tasks, PollMove(t),
         TypeOK', TokensOf(t)', SetOf(t)', ArmedOf(t)', ReadyOf(t)',
         \A x \in Streams : Consumer[x] = t => RegisteredOf(x)',
         \A x \in Streams : Consumer[x] = t => ReadIsInSet(x)'
  PROVE  IInv'
  <1>0. /\ UNCHANGED <<nw, nr, sd, rOpen>>
        /\ \A u \in Tasks : u # t =>
             /\ pc'[u] = pc[u] /\ wake'[u] = wake[u]
             /\ poll_token'[u] = poll_token[u] /\ wakeup_sd'[u] = wakeup_sd[u]
             /\ set'[u] = set[u] /\ pos'[u] = pos[u] /\ cnt'[u] = cnt[u]
        /\ \A x \in Streams : Consumer[x] # t => is_poll'[x] = is_poll[x]
        /\ pc[t] # "w_poll" /\ pc'[t] # "w_poll"
        /\ pc[t] # "w_wake_poll" /\ pc'[t] # "w_wake_poll"
    BY DEF PollMove, lifevars, PollPcs
  <1>1. \A u, v \in Tasks : HoldsToken(u, v)' <=> HoldsToken(u, v)
    BY HoldsFrame
  <1>2. ASSUME NEW u \in Tasks, u # t
        PROVE  TokensOf(u)' /\ SetOf(u)' /\ ReadyOf(u)'
    <2>0. /\ TokensOf(u) /\ SetOf(u) /\ ReadyOf(u)
          /\ poll_wakeup' = poll_wakeup
      BY StreamFacts, TaskFacts DEF PollMove
    <2>1. TokensOf(u)' BY <1>0, <1>1, <1>2, <2>0 DEF TokensOf
    <2>2. SetOf(u)' BY <1>0, <1>2, <2>0, SMTT(60), SMTT(120) DEF SetOf
    <2>3. ReadyOf(u)'
      BY <1>0, <1>1, <1>2, <2>0, SMTT(60), SMTT(120) DEF ReadyOf, InSet
    <2> QED BY <2>1, <2>2, <2>3
  <1>3. ASSUME NEW u \in Tasks, u # t
        PROVE  ArmedOf(u)'
    <2>1. ArmedOf(u) /\ SetOf(u) /\ set[u] \in Seq(Streams)
      BY TaskTypes, StreamFacts, TaskFacts
    <2>2. \A x \in Streams : At(Producer[x], {"w_poll"}, x)' <=>
                             At(Producer[x], {"w_poll"}, x)
      BY <1>0, StreamTypes DEF At
    <2>3. \A j \in DOMAIN set[u] : is_poll'[set[u][j]] = is_poll[set[u][j]]
      BY <1>0, <1>3, <2>1, SMTT(60), SMTT(120) DEF SetOf
    <2> QED BY <1>0, <1>3, <2>1, <2>2, <2>3, SMTT(60), SMTT(120) DEF ArmedOf
  <1>4. ASSUME NEW x \in Streams, Consumer[x] # t
        PROVE  ReadIsInSet(x)' /\ RegisteredOf(x)'
    <2>1. Consumer[x] \in Tasks /\ ReadIsInSet(x) /\ RegisteredOf(x)
      BY StreamTypes, StreamFacts, TaskFacts
    <2> QED
      BY <1>0, <1>4, <2>1, SMTT(60), SMTT(120)
         DEF ReadIsInSet, InSet, RegisteredOf,
         Registered
  <1>5. /\ \A u \in Tasks : RolesOf(u)'
        /\ \A x \in Streams : /\ CountsOf(x)' /\ RingOf(x)' /\ WaitsOf(x)'
                              /\ LockOf(x)' /\ LifeOf(x)'
    BY PollFrame
  <1> QED BY <1>2, <1>3, <1>4, <1>5 DEF IInv

----------------------------------------------------------------------------
(* Lemmas about the buffer and the sets. *)

(* LpelBufferTop is NULL exactly when the stream has no item, and is the   *)
(* oldest item otherwise; LpelBufferIsSpace tells whether there are less   *)
(* than Size items.                                                        *)
LEMMA BufferOf ==
  ASSUME IInv, NEW x \in Streams
  PROVE  /\ LpelBufferTop(x) = NULL <=> nw[x] = nr[x]
         /\ nw[x] > nr[x] => LpelBufferTop(x) = nr[x] + 1
         /\ LpelBufferIsSpace(x) <=> nw[x] - nr[x] < Size[x]
  <1>1. /\ nw[x] \in Nat /\ nr[x] \in Nat /\ Size[x] \in Nat /\ Size[x] > 0
        /\ nr[x] <= nw[x] /\ nw[x] <= nr[x] + Size[x]
        /\ RingOf(x)
    BY StreamTypes, StreamFacts DEF CountsOf
  <1>2. pread[x] \in 0 .. Size[x] - 1 /\ pwrite[x] \in 0 .. Size[x] - 1
    BY TypeFact DEF TypeOK, Slots
  <1>3. data[x][pread[x]] = IF 0 < nw[x] - nr[x] THEN nr[x] + 1 ELSE 0
    BY <1>1, <1>2, SMTT(60), SMTT(120) DEF RingOf, Slots, Offset, NULL
  <1>4. data[x][pwrite[x]] = 0 <=> nw[x] - nr[x] < Size[x]
    BY <1>1, <1>2, SMTT(60), SMTT(120) DEF RingOf, Slots, Offset, NULL
  <1> QED
    BY <1>1, <1>3, <1>4, SMTT(60), SMTT(120)
       DEF LpelBufferTop, LpelBufferIsSpace, NULL

(* r lists the streams of q in some order, each one as often. *)
Rearranged(q, r) ==
  /\ r \in Seq(Streams) /\ Len(r) = Len(q)
  /\ \A j \in 1 .. Len(q) : \E i \in 1 .. Len(q) : r[i] = q[j]
  /\ \A j \in 1 .. Len(q) : \E i \in 1 .. Len(q) : r[j] = q[i]
  /\ (\A i, j \in 1 .. Len(q) : q[i] = q[j] => i = j) =>
       \A i, j \in 1 .. Len(q) : r[i] = r[j] => i = j

(* Assigning to *set rotates the list and loses no stream. *)
LEMMA RotateOf ==
  ASSUME NEW q \in Seq(Streams), NEW k \in 1 .. Len(q)
  PROVE  Rearranged(q, Rotate(q, k))
  <1> DEFINE n == Len(q)
             r == Rotate(q, k)
             at(j) == IF j + k <= n THEN j + k ELSE j + k - n
             to(j) == IF j > k THEN j - k ELSE j - k + n
  <1>0. n \in Nat /\ k \in Int /\ 1 <= k /\ k <= n /\ q \in [1 .. n -> Streams]
    BY SMTT(60), SMTT(120)
  <1>1. \A j \in 1 .. n : at(j) \in 1 .. n /\ to(j) \in 1 .. n /\ at(to(j)) = j
    BY <1>0, SMTT(60), SMTT(120)
  <1>2. \A i, j \in 1 .. n : at(i) = at(j) => i = j
    BY <1>0, SMTT(60), SMTT(120)
  <1>3. r = [j \in 1 .. n |-> q[at(j)]]
    <2>1. \A j \in 1 .. n : q[at(j)] = IF j + k <= n THEN q[j + k]
                                                     ELSE q[j + k - n]
      OBVIOUS
    <2> QED BY <2>1 DEF Rotate
  <1>4. r \in [1 .. n -> Streams]
    BY <1>0, <1>1, <1>3
  <1>5. r \in Seq(Streams) /\ Len(r) = n
    BY <1>0, <1>4, SMTT(60), SMTT(120)
  <1> HIDE DEF r, at, to, n
  <1>6. \A j \in 1 .. n : \E i \in 1 .. n : r[i] = q[j]
    BY <1>1, <1>3
  <1>7. \A j \in 1 .. n : \E i \in 1 .. n : r[j] = q[i]
    BY <1>1, <1>3
  <1>8. (\A i, j \in 1 .. n : q[i] = q[j] => i = j) =>
          \A i, j \in 1 .. n : r[i] = r[j] => i = j
    BY <1>1, <1>2, <1>3
  <1> QED BY <1>5, <1>6, <1>7, <1>8 DEF Rearranged, r, n

(* Rotating a set keeps what the invariant says of it. *)
LEMMA RearrangedSet ==
  ASSUME NEW t \in Tasks, SetOf(t), set[t] \in Seq(Streams), rOpen' = rOpen,
         Rearranged(set[t], set'[t]),
         pc'[t] \in PollPcs => pos'[t] \in 1 .. Len(set'[t]),
         pc'[t] = "p_token" => pos'[t] = 1,
         pc'[t] \notin {"p_reg", "p_blk"}
  PROVE  SetOf(t)'
  <1>1. /\ set'[t] \in Seq(Streams) /\ Len(set'[t]) = Len(set[t])
        /\ DOMAIN set[t] = 1 .. Len(set[t])
        /\ DOMAIN set'[t] = 1 .. Len(set[t])
    BY SMTT(60), SMTT(120) DEF Rearranged
  <1>2. \A j \in DOMAIN set'[t] : Consumer[set'[t][j]] = t /\ rOpen[set'[t][j]]
    <2> TAKE j \in DOMAIN set'[t]
    <2>1. PICK i \in 1 .. Len(set[t]) : set'[t][j] = set[t][i]
      BY <1>1 DEF Rearranged
    <2> QED BY <1>1, <2>1 DEF SetOf
  <1>3. \A i, j \in DOMAIN set'[t] : set'[t][i] = set'[t][j] => i = j
    <2>1. \A i, j \in 1 .. Len(set[t]) : set[t][i] = set[t][j] => i = j
      BY <1>1 DEF SetOf
    <2>2. \A i, j \in 1 .. Len(set[t]) : set'[t][i] = set'[t][j] => i = j
      BY <2>1 DEF Rearranged
    <2> QED BY <1>1, <2>2
  <1> QED BY <1>2, <1>3 DEF SetOf, PollPcs

(* Rotating a set keeps every open stream in it. *)
LEMMA RearrangedIn ==
  ASSUME IInv, NEW t \in Tasks, set[t] \in Seq(Streams), rOpen' = rOpen,
         Rearranged(set[t], set'[t]), NEW x \in Streams, Consumer[x] = t
  PROVE  ReadIsInSet(x)'
  <1>1. /\ DOMAIN set[t] = 1 .. Len(set[t])
        /\ DOMAIN set'[t] = 1 .. Len(set[t])
    BY SMTT(60), SMTT(120) DEF Rearranged
  <1>2. CASE ~rOpen[x] BY <1>2 DEF ReadIsInSet
  <1>3. CASE rOpen[x]
    <2>0. ReadIsInSet(x) BY StreamFacts
    <2>1. PICK j \in 1 .. Len(set[t]) : set[t][j] = x
      BY <1>1, <1>3, <2>0 DEF ReadIsInSet, InSet
    <2>2. PICK i \in 1 .. Len(set[t]) : set'[t][i] = set[t][j]
      BY DEF Rearranged
    <2> QED BY <1>1, <2>1, <2>2 DEF ReadIsInSet, InSet
  <1> QED BY <1>2, <1>3

----------------------------------------------------------------------------
(* LpelStreamPoll: one lemma per action. *)

(* Entering LpelStreamPoll with a set that is not empty. *)
LEMMA PollStartKeeps ==
  ASSUME IInv, NEW t \in Tasks, PollStart(t)
  PROVE  IInv'
  <1>0. /\ UNCHANGED <<bufvars, n_sem, e_sem, is_poll, prod_lock, nw, nr>>
        /\ UNCHANGED <<lifevars, rOpen, sd, trying, wake, poll_token>>
        /\ UNCHANGED <<wakeup_sd, poll_wakeup, set, cnt>>
    BY DEF PollStart, streamvars, lifevars
  <1>1. pc \in [Tasks -> PcValues] /\ pos \in [Tasks -> Nat]
    BY TypeFact DEF TypeOK
  <1>2. /\ pc[t] = "user" /\ pc'[t] = "p_fast" /\ pos'[t] = 1
        /\ \A u \in Tasks : u # t => pc'[u] = pc[u] /\ pos'[u] = pos[u]
    BY <1>1 DEF PollStart, Goto
  <1>3. PollMove(t) BY <1>0, <1>2 DEF PollMove, PollPcs
  <1>4. TypeOK'
    <2>1. pc' \in [Tasks -> PcValues] /\ pos' \in [Tasks -> Nat]
      BY <1>1 DEF PollStart, Goto, PcValues
    <2> QED BY <1>0, <2>1, TypeFact DEF TypeOK, bufvars, lifevars, Slots
  <1>5. /\ TokensOf(t) /\ SetOf(t) /\ ReadyOf(t) /\ set[t] \in Seq(Streams)
        /\ \A u \in Tasks : HoldsToken(u, t)' <=> HoldsToken(u, t)
    BY <1>3, TaskTypes, HoldsFrame, StreamFacts, TaskFacts
  <1>6. TokensOf(t)' BY <1>0, <1>2, <1>5, <1>3, HoldsFrame DEF TokensOf
  <1>7. SetOf(t)'
    <2>1. 1 \in 1 .. Len(set[t]) BY <1>5, SMTT(60), SMTT(120) DEF PollStart
    <2> QED BY <1>0, <1>2, <1>5, <2>1 DEF SetOf
  <1>8. ArmedOf(t)' /\ ReadyOf(t)'
    BY <1>0, <1>2, <1>5 DEF TokensOf, ArmedOf, ReadyOf, InSet
  <1>9. \A x \in Streams : ReadIsInSet(x)' /\ RegisteredOf(x)'
    BY <1>0, <1>2, StreamTypes, StreamFacts, SMTT(60), SMTT(120)
       DEF ReadIsInSet, InSet,
       RegisteredOf, Registered
  <1> QED BY <1>3, <1>4, <1>6, <1>7, <1>8, <1>9, PollKeeps

(* Setting the poll token, which no writer has. *)
LEMMA PollTokenKeeps ==
  ASSUME IInv, NEW t \in Tasks, PollToken(t)
  PROVE  IInv'
  <1>0. /\ UNCHANGED <<bufvars, n_sem, e_sem, is_poll, prod_lock, nw, nr>>
        /\ UNCHANGED <<lifevars, rOpen, sd, trying, wake, wakeup_sd>>
        /\ UNCHANGED <<poll_wakeup, set, pos>>
    BY DEF PollToken, streamvars, lifevars
  <1>1. /\ pc \in [Tasks -> PcValues] /\ cnt \in [Tasks -> Int]
        /\ poll_token \in [Tasks -> {0, 1}]
    BY TypeFact DEF TypeOK
  <1>2. /\ pc[t] = "p_token" /\ pc'[t] = "p_reg"
        /\ poll_token'[t] = 1 /\ cnt'[t] = 0
        /\ \A u \in Tasks : u # t => /\ pc'[u] = pc[u] /\ cnt'[u] = cnt[u]
                                     /\ poll_token'[u] = poll_token[u]
    BY <1>1 DEF PollToken, Goto
  <1>3. PollMove(t) BY <1>0, <1>2 DEF PollMove, PollPcs
  <1>4. TypeOK'
    <2>1. /\ pc' \in [Tasks -> PcValues] /\ cnt' \in [Tasks -> Int]
          /\ poll_token' \in [Tasks -> {0, 1}]
      BY <1>1, SMTT(60), SMTT(120) DEF PollToken, Goto, PcValues
    <2> QED BY <1>0, <2>1, TypeFact DEF TypeOK, bufvars, lifevars, Slots
  <1>5. /\ TokensOf(t) /\ SetOf(t) /\ ReadyOf(t) /\ set[t] \in Seq(Streams)
        /\ \A u \in Tasks : HoldsToken(u, t)' <=> HoldsToken(u, t)
    BY <1>3, TaskTypes, HoldsFrame, StreamFacts, TaskFacts
  <1>6. TokensOf(t)' BY <1>0, <1>2, <1>5, <1>3, HoldsFrame DEF TokensOf
  <1>7. SetOf(t)' /\ ArmedOf(t)'
    BY <1>0, <1>2, <1>5, SMTT(60), SMTT(120) DEF SetOf, ArmedOf
  <1>8. ReadyOf(t)'
    BY <1>0, <1>2, <1>5 DEF TokensOf, ReadyOf, InSet
  <1>9. \A x \in Streams : ReadIsInSet(x)' /\ RegisteredOf(x)'
    BY <1>0, <1>2, StreamTypes, StreamFacts, SMTT(60), SMTT(120)
       DEF ReadIsInSet, InSet,
       RegisteredOf, Registered
  <1> QED BY <1>3, <1>4, <1>6, <1>7, <1>8, <1>9, PollKeeps

(* A wakeup ends the poller's LpelTaskBlockStream: its token is spent. *)
LEMMA PollResumeKeeps ==
  ASSUME IInv, NEW t \in Tasks, PollResume(t)
  PROVE  IInv'
  <1>0. /\ UNCHANGED <<bufvars, n_sem, e_sem, is_poll, prod_lock, nw, nr>>
        /\ UNCHANGED <<lifevars, rOpen, sd, trying, poll_token, wakeup_sd>>
        /\ UNCHANGED <<poll_wakeup, set, pos, cnt>>
    BY DEF PollResume, streamvars, lifevars, pollvars
  <1>1. pc \in [Tasks -> PcValues] /\ wake \in [Tasks -> Nat]
    BY TypeFact DEF TypeOK
  <1>2. /\ TokensOf(t) /\ SetOf(t) /\ ReadyOf(t) /\ set[t] \in Seq(Streams)
        /\ poll_token[t] \in {0, 1} /\ cnt[t] \in Int
    BY TaskTypes, StreamFacts, TaskFacts
  <1>3. wake[t] = 1
    BY <1>2, SMTT(60), SMTT(120) DEF PollResume, Resume, TokensOf
  <1>4. /\ pc[t] = "p_blk" /\ pc'[t] = "p_unreg" /\ wake'[t] = 0
        /\ \A u \in Tasks : u # t => pc'[u] = pc[u] /\ wake'[u] = wake[u]
    BY <1>1, <1>3, SMTT(60), SMTT(120) DEF PollResume, Goto, Resume
  <1>5. PollMove(t) BY <1>0, <1>4 DEF PollMove, PollPcs
  <1>6. \A u \in Tasks : HoldsToken(u, t)' <=> HoldsToken(u, t)
    BY <1>5, HoldsFrame
  <1>7. TypeOK'
    <2>1. pc' \in [Tasks -> PcValues]
      BY <1>1 DEF PollResume, Goto, PcValues
    <2>2. wake' \in [Tasks -> Nat]
      BY <1>1, SMTT(60), SMTT(120) DEF PollResume, Resume
    <2> QED BY <1>0, <2>1, <2>2, TypeFact DEF TypeOK, bufvars, lifevars, Slots
  <1>8. TokensOf(t)'
    BY <1>0, <1>2, <1>3, <1>4, <1>6, <1>5, HoldsFrame, SMTT(60), SMTT(120)
       DEF TokensOf
  <1>9. SetOf(t)'
    BY <1>0, <1>2, <1>4 DEF SetOf
  <1>10. ArmedOf(t)' /\ ReadyOf(t)'
    BY <1>0, <1>2, <1>3, <1>4, <1>6, SMTT(60), SMTT(120)
       DEF ArmedOf, ReadyOf, InSet, TokensOf
  <1>11. \A x \in Streams : ReadIsInSet(x)'
    BY <1>0, StreamFacts DEF ReadIsInSet, InSet
  <1>12. ASSUME NEW x \in Streams, Consumer[x] = t PROVE RegisteredOf(x)'
    BY <1>0, <1>2, <1>4, <1>12, StreamFacts, TaskFacts, SMTT(60), SMTT(120)
       DEF RegisteredOf,
       Registered, SetOf
  <1> QED BY <1>5, <1>7, <1>8, <1>9, <1>10, <1>11, <1>12, PollKeeps

(* The fast path: it may rotate the set. *)
LEMMA PollFastKeeps ==
  ASSUME IInv, NEW t \in Tasks, PollFast(t)
  PROVE  IInv'
  <1>0. /\ UNCHANGED <<bufvars, n_sem, e_sem, is_poll, prod_lock, nw, nr>>
        /\ UNCHANGED <<lifevars, rOpen, sd, trying, wake, poll_token>>
        /\ UNCHANGED <<wakeup_sd, poll_wakeup, cnt>>
    BY DEF PollFast, streamvars, lifevars
  <1>1. /\ pc \in [Tasks -> PcValues] /\ pos \in [Tasks -> Nat]
        /\ set \in [Tasks -> Seq(Streams)]
    BY TypeFact DEF TypeOK
  <1>2. TokensOf(t) /\ SetOf(t) /\ ReadyOf(t) /\ set[t] \in Seq(Streams)
    BY TaskTypes, StreamFacts, TaskFacts
  <1>3. pc[t] = "p_fast" BY DEF PollFast, Goto
  <1>4. pos[t] \in 1 .. Len(set[t]) BY <1>2, <1>3 DEF SetOf
  <1>5. /\ set'[t] \in {set[t], Rotate(set[t], pos[t])}
        /\ pc'[t] = "p_fast" => pos'[t] = pos[t] + 1 /\ pos[t] # Len(set[t])
        /\ pc'[t] # "p_fast" => pos'[t] = 1
        /\ pc'[t] \in {"p_fast", "p_token", "user"}
        /\ \A u \in Tasks : u # t =>
             pc'[u] = pc[u] /\ pos'[u] = pos[u] /\ set'[u] = set[u]
    BY <1>1 DEF PollFast, Goto
  <1>6. Rearranged(set[t], set'[t])
    <2>1. Rearranged(set[t], set[t]) BY <1>2 DEF Rearranged
    <2>2. Rearranged(set[t], Rotate(set[t], pos[t])) BY <1>2, <1>4, RotateOf
    <2> QED BY <1>5, <2>1, <2>2
  <1>7. PollMove(t) BY <1>0, <1>3, <1>5 DEF PollMove, PollPcs
  <1>8. TypeOK'
    <2>1. pc' \in [Tasks -> PcValues]
      BY <1>1 DEF PollFast, Goto, PcValues
    <2>2. pos' \in [Tasks -> Nat] BY <1>1, SMTT(60), SMTT(120) DEF PollFast
    <2>3. set'[t] \in Seq(Streams) BY <1>6 DEF Rearranged
    <2>4. set' \in [Tasks -> Seq(Streams)] BY <1>1, <2>3 DEF PollFast
    <2> QED
      BY <1>0, <2>1, <2>2, <2>4, TypeFact DEF TypeOK, bufvars, lifevars, Slots
  <1>9. \A u, v \in Tasks : HoldsToken(u, v)' <=> HoldsToken(u, v)
    BY <1>7, HoldsFrame
  <1>10. TokensOf(t)' BY <1>0, <1>2, <1>3, <1>5, <1>9 DEF TokensOf
  <1>11. SetOf(t)'
    <2>1. pos'[t] \in 1 .. Len(set'[t])
      <3>1. Len(set'[t]) = Len(set[t]) BY <1>6 DEF Rearranged
      <3> QED BY <1>2, <1>4, <1>5, <3>1, SMTT(60), SMTT(120)
    <2> QED BY <1>0, <1>2, <1>5, <1>6, <2>1, RearrangedSet DEF PollPcs
  <1>12. ArmedOf(t)' /\ ReadyOf(t)'
    BY <1>0, <1>2, <1>3, <1>5, <1>9 DEF TokensOf, ArmedOf, ReadyOf
  <1>13. ASSUME NEW x \in Streams, Consumer[x] = t
         PROVE  ReadIsInSet(x)' /\ RegisteredOf(x)'
    <2>1. ReadIsInSet(x)' BY <1>0, <1>2, <1>6, <1>13, RearrangedIn
    <2>2. ~is_poll[x] BY <1>3, <1>13, StreamFacts DEF RegisteredOf, Registered
    <2> QED BY <1>0, <2>1, <2>2 DEF RegisteredOf
  <1> QED BY <1>7, <1>8, <1>10, <1>11, <1>12, <1>13, PollKeeps

(* The registration loop meets an item: either it takes the token back, or *)
(* a writer has it.                                                        *)
LEMMA PollFoundKeeps ==
  ASSUME IInv, NEW t \in Tasks, PollFound(t)
  PROVE  IInv'
  <1> DEFINE s == set[t][pos[t]]
  <1>0. /\ UNCHANGED <<bufvars, n_sem, e_sem, is_poll, prod_lock, nw, nr>>
        /\ UNCHANGED <<lifevars, rOpen, sd, trying, wake, poll_wakeup>>
        /\ UNCHANGED <<set, cnt>>
    BY DEF PollFound, streamvars, lifevars
  <1>1. /\ pc \in [Tasks -> PcValues] /\ pos \in [Tasks -> Nat]
        /\ poll_token \in [Tasks -> {0, 1}] /\ wakeup_sd \in [Tasks -> Streams]
    BY TypeFact DEF TypeOK
  <1>2. /\ TokensOf(t) /\ SetOf(t) /\ ReadyOf(t) /\ set[t] \in Seq(Streams)
        /\ poll_token[t] \in {0, 1} /\ cnt[t] \in Int
    BY TaskTypes, StreamFacts, TaskFacts
  <1>3. pc[t] = "p_reg" BY DEF PollFound, Goto
  <1>4. /\ pos[t] \in 1 .. Len(set[t]) /\ cnt[t] = pos[t] - 1
        /\ s \in Streams /\ InSet(t, s)
    BY <1>2, <1>3, SMTT(60), SMTT(120) DEF SetOf, InSet
  <1>5. nw[s] > nr[s]
    <2>1. nr[s] <= nw[s] /\ nw[s] \in Nat /\ nr[s] \in Nat
      BY <1>4, StreamTypes, StreamFacts DEF CountsOf
    <2> QED BY <1>4, <2>1, BufferOf, SMTT(60), SMTT(120) DEF PollFound
  <1>6. /\ poll_token'[t] = 0 /\ pos'[t] = 1
        /\ poll_token[t] = 1 => pc'[t] = "p_unreg" /\ wakeup_sd'[t] = s
        /\ poll_token[t] = 0 =>
             pc'[t] = "p_blk" /\ wakeup_sd'[t] = wakeup_sd[t]
        /\ \A u \in Tasks : u # t =>
             /\ pc'[u] = pc[u] /\ pos'[u] = pos[u]
             /\ poll_token'[u] = poll_token[u] /\ wakeup_sd'[u] = wakeup_sd[u]
    BY <1>1, SMTT(60), SMTT(120) DEF PollFound, Goto
  <1>7. PollMove(t) BY <1>0, <1>2, <1>3, <1>6 DEF PollMove, PollPcs
  <1>8. TypeOK'
    <2>1. pc' \in [Tasks -> PcValues] /\ poll_token' \in [Tasks -> {0, 1}]
      BY <1>1 DEF PollFound, Goto, PcValues
    <2>2. pos' \in [Tasks -> Nat] BY <1>1 DEF PollFound
    <2>3. wakeup_sd' \in [Tasks -> Streams] BY <1>1, <1>4 DEF PollFound
    <2> QED
      BY <1>0, <2>1, <2>2, <2>3, TypeFact DEF TypeOK, bufvars, lifevars, Slots
  <1>9. \A u, v \in Tasks : HoldsToken(u, v)' <=> HoldsToken(u, v)
    BY <1>7, HoldsFrame
  <1>10. TokensOf(t)' BY <1>0, <1>2, <1>3, <1>6, <1>9 DEF TokensOf
  <1>11. SetOf(t)' /\ ArmedOf(t)'
    BY <1>0, <1>2, <1>4, <1>6, SMTT(60), SMTT(120) DEF SetOf, ArmedOf
  <1>12. ReadyOf(t)'
    BY <1>0, <1>2, <1>3, <1>4, <1>5, <1>6, <1>9 DEF TokensOf, ReadyOf, InSet
  <1>13. ASSUME NEW x \in Streams, Consumer[x] = t
         PROVE  ReadIsInSet(x)' /\ RegisteredOf(x)'
    <2>1. ReadIsInSet(x)' BY <1>0, StreamFacts DEF ReadIsInSet, InSet
    <2>2. \A j \in DOMAIN set[t] : Registered(t, j) => Registered(t, j)'
      BY <1>0, <1>2, <1>3, <1>4, <1>6, SMTT(60), SMTT(120) DEF Registered
    <2> QED BY <1>0, <1>13, <2>1, <2>2, StreamFacts DEF RegisteredOf
  <1> QED BY <1>7, <1>8, <1>10, <1>11, <1>12, <1>13, PollKeeps

(* The registration loop meets an empty stream, whose writer does not hold *)
(* prod_lock: an item put later finds is_poll set.                         *)
LEMMA PollRegisterKeeps ==
  ASSUME IInv, NEW t \in Tasks, PollRegister(t)
  PROVE  IInv'
  <1> DEFINE s == set[t][pos[t]]
  <1>0. /\ UNCHANGED <<bufvars, n_sem, e_sem, prod_lock, nw, nr, lifevars>>
        /\ UNCHANGED <<rOpen, sd, trying, wake, poll_token, wakeup_sd>>
        /\ UNCHANGED <<poll_wakeup, set>>
    BY DEF PollRegister, lifevars
  <1>1. /\ pc \in [Tasks -> PcValues] /\ pos \in [Tasks -> Nat]
        /\ is_poll \in [Streams -> BOOLEAN] /\ cnt \in [Tasks -> Int]
    BY TypeFact DEF TypeOK
  <1>2. /\ TokensOf(t) /\ SetOf(t) /\ ArmedOf(t) /\ ReadyOf(t)
        /\ set[t] \in Seq(Streams) /\ cnt[t] \in Int
    BY TaskTypes, StreamFacts, TaskFacts
  <1>3. pc[t] = "p_reg" BY DEF PollRegister, Goto
  <1>4. /\ pos[t] \in 1 .. Len(set[t]) /\ cnt[t] = pos[t] - 1
        /\ s \in Streams /\ Consumer[s] = t
    BY <1>2, <1>3, SMTT(60), SMTT(120) DEF SetOf
  <1>5. nw[s] = nr[s] BY <1>4, BufferOf DEF PollRegister
  <1>6. /\ is_poll'[s] = TRUE /\ cnt'[t] = cnt[t] + 1
        /\ \A x \in Streams : x # s => is_poll'[x] = is_poll[x]
        /\ pos[t] = Len(set[t]) => pos'[t] = 1 /\ pc'[t] = "p_blk"
        /\ pos[t] # Len(set[t]) => pos'[t] = pos[t] + 1 /\ pc'[t] = "p_reg"
        /\ \A u \in Tasks : u # t =>
             pc'[u] = pc[u] /\ pos'[u] = pos[u] /\ cnt'[u] = cnt[u]
    BY <1>1, <1>4 DEF PollRegister, Goto
  <1>7. PollMove(t) BY <1>0, <1>3, <1>4, <1>6 DEF PollMove, PollPcs
  <1>8. TypeOK'
    <2>1. /\ pc' \in [Tasks -> PcValues] /\ is_poll' \in [Streams -> BOOLEAN]
      BY <1>1 DEF PollRegister, Goto, PcValues
    <2>2. pos' \in [Tasks -> Nat] /\ cnt' \in [Tasks -> Int]
      BY <1>1, SMTT(60), SMTT(120) DEF PollRegister
    <2> QED BY <1>0, <2>1, <2>2, TypeFact DEF TypeOK, bufvars, lifevars, Slots
  <1>9. \A u, v \in Tasks : HoldsToken(u, v)' <=> HoldsToken(u, v)
    BY <1>7, HoldsFrame
  <1>10. TokensOf(t)' BY <1>0, <1>2, <1>3, <1>6, <1>9 DEF TokensOf
  <1>11. SetOf(t)'
    <2>1. Len(set[t]) \in Nat BY <1>2, SMTT(60), SMTT(120)
    <2>2. /\ pos'[t] \in 1 .. Len(set[t])
          /\ pc'[t] \in {"p_reg", "p_blk"}
          /\ pc'[t] = "p_blk" => pos'[t] = 1
          /\ pc'[t] = "p_reg" => cnt'[t] = pos'[t] - 1
      BY <1>2, <1>4, <1>6, <2>1, SMTT(60), SMTT(120)
    <2> QED BY <1>0, <1>2, <2>2 DEF SetOf
  <1>12. ArmedOf(t)'
    <2>1. \A x \in Streams : At(Producer[x], {"w_poll"}, x)' <=>
                             At(Producer[x], {"w_poll"}, x)
      BY <1>0, <1>3, <1>6, StreamTypes DEF At
    <2>2. \A j \in DOMAIN set[t] : j < pos[t] => set[t][j] # s
      BY <1>2, <1>4, SMTT(60), SMTT(120) DEF SetOf
    <2>3. ASSUME poll_token[t] = 1, NEW j \in DOMAIN set[t], j <= pos[t]
          PROVE  /\ is_poll'[set[t][j]]
                 /\ \/ nw[set[t][j]] = nr[set[t][j]]
                    \/ At(Producer[set[t][j]], {"w_poll"}, set[t][j])
      <3>1. CASE j = pos[t] BY <1>5, <1>6, <3>1
      <3>2. CASE j < pos[t]
        BY <1>2, <1>6, <2>2, <2>3, <3>2, SMTT(60), SMTT(120) DEF ArmedOf
      <3> QED BY <1>2, <1>4, <2>3, <3>1, <3>2, SMTT(60), SMTT(120)
    <2>4. ASSUME NEW j \in DOMAIN set[t], pc'[t] = "p_blk" \/ j < pos'[t]
          PROVE  j <= pos[t] /\ set[t][j] \in Streams
      BY <1>2, <1>4, <1>6, <2>4, SMTT(60), SMTT(120)
    <2> QED BY <1>0, <2>1, <2>3, <2>4 DEF ArmedOf
  <1>13. ReadyOf(t)' BY <1>0, <1>2, <1>3, <1>6, <1>9 DEF ReadyOf, InSet
  <1>14. ASSUME NEW x \in Streams, Consumer[x] = t
         PROVE  ReadIsInSet(x)' /\ RegisteredOf(x)'
    <2>1. ReadIsInSet(x)' BY <1>0, StreamFacts DEF ReadIsInSet, InSet
    <2>2. \A j \in DOMAIN set[t] : Registered(t, j) => Registered(t, j)'
      BY <1>0, <1>2, <1>3, <1>4, <1>6, SMTT(60), SMTT(120) DEF Registered
    <2>3. PICK i \in 1 .. Len(set[t]) : i = pos[t] BY <1>4
    <2>4. Registered(t, i)' /\ i \in DOMAIN set[t] /\ set[t][i] = s
      BY <1>2, <1>4, <1>6, <2>3, SMTT(60), SMTT(120) DEF Registered
    <2>5. RegisteredOf(x)'
      <3>1. CASE x = s
        BY <1>0, <1>14, <2>4, <3>1 DEF RegisteredOf
      <3>2. CASE x # s
        BY <1>0, <1>6, <1>14, <2>2, <3>2, StreamFacts DEF RegisteredOf
      <3> QED BY <3>1, <3>2
    <2> QED BY <2>1, <2>5
  <1> QED BY <1>7, <1>8, <1>10, <1>11, <1>12, <1>13, <1>14, PollKeeps

(* The loop that unregisters the activators: when it ends none is left,    *)
(* and the stream the set is rotated to is in the set.                     *)
LEMMA PollUnregisterKeeps ==
  ASSUME IInv, NEW t \in Tasks, PollUnregister(t)
  PROVE  IInv'
  <1> DEFINE s == set[t][pos[t]]
             end == cnt[t] = 1 \/ pos[t] = Len(set[t])
             k == IndexOf(set[t], wakeup_sd[t])
  <1>0. /\ UNCHANGED <<bufvars, n_sem, e_sem, prod_lock, nw, nr, lifevars>>
        /\ UNCHANGED <<rOpen, sd, trying, wake, poll_token, wakeup_sd>>
        /\ UNCHANGED poll_wakeup
    BY DEF PollUnregister, lifevars
  <1>1. /\ pc \in [Tasks -> PcValues] /\ pos \in [Tasks -> Nat]
        /\ is_poll \in [Streams -> BOOLEAN] /\ cnt \in [Tasks -> Int]
        /\ set \in [Tasks -> Seq(Streams)]
    BY TypeFact DEF TypeOK
  <1>2. /\ TokensOf(t) /\ SetOf(t) /\ ReadyOf(t)
        /\ set[t] \in Seq(Streams) /\ cnt[t] \in Int
    BY TaskTypes, StreamFacts, TaskFacts
  <1>3. pc[t] = "p_unreg" BY DEF PollUnregister, Goto
  <1>4. /\ pos[t] \in 1 .. Len(set[t])
        /\ s \in Streams /\ Consumer[s] = t
    BY <1>2, <1>3, SMTT(60), SMTT(120) DEF SetOf
  <1>5. k \in 1 .. Len(set[t])
    BY <1>2, <1>3, SMTT(60), SMTT(120) DEF ReadyOf, InSet, IndexOf
  <1>6. /\ is_poll'[s] = FALSE /\ cnt'[t] = cnt[t] - 1
        /\ \A x \in Streams : x # s => is_poll'[x] = is_poll[x]
        /\ end => pos'[t] = 1 /\ pc'[t] = "user"
                  /\ set'[t] = Rotate(set[t], k)
        /\ ~end => pos'[t] = pos[t] + 1 /\ pc'[t] = "p_unreg"
                   /\ set'[t] = set[t]
        /\ \A u \in Tasks : u # t => /\ pc'[u] = pc[u] /\ pos'[u] = pos[u]
                                     /\ cnt'[u] = cnt[u] /\ set'[u] = set[u]
    <2> HIDE DEF k
    <2> QED BY <1>1, <1>4 DEF PollUnregister, Goto, k
  <1>7. Rearranged(set[t], set'[t])
    <2>1. Rearranged(set[t], set[t]) BY <1>2 DEF Rearranged
    <2>2. Rearranged(set[t], Rotate(set[t], k)) BY <1>2, <1>5, RotateOf
    <2> QED BY <1>6, <2>1, <2>2
  <1> HIDE DEF k
  <1>8. PollMove(t) BY <1>0, <1>3, <1>4, <1>6 DEF PollMove, PollPcs
  <1>9. TypeOK'
    <2>1. /\ pc' \in [Tasks -> PcValues] /\ is_poll' \in [Streams -> BOOLEAN]
      BY <1>1 DEF PollUnregister, Goto, PcValues
    <2>2. pos' \in [Tasks -> Nat] /\ cnt' \in [Tasks -> Int]
      BY <1>1, SMTT(60), SMTT(120) DEF PollUnregister
    <2>3. set'[t] \in Seq(Streams) BY <1>7 DEF Rearranged
    <2>4. set' \in [Tasks -> Seq(Streams)]
      BY <1>1, <2>3 DEF PollUnregister
    <2> QED
      BY <1>0, <2>1, <2>2, <2>4, TypeFact DEF TypeOK, bufvars, lifevars, Slots
  <1>10. \A u, v \in Tasks : HoldsToken(u, v)' <=> HoldsToken(u, v)
    BY <1>8, HoldsFrame
  <1>11. TokensOf(t)' BY <1>0, <1>2, <1>3, <1>6, <1>10 DEF TokensOf
  <1>12. SetOf(t)'
    <2>1. Len(set'[t]) = Len(set[t]) BY <1>7 DEF Rearranged
    <2>2. pc'[t] \in PollPcs => pos'[t] \in 1 .. Len(set'[t])
      BY <1>2, <1>4, <1>6, <2>1, SMTT(60), SMTT(120) DEF PollPcs
    <2> QED BY <1>0, <1>2, <1>6, <1>7, <2>2, RearrangedSet
  <1>13. ArmedOf(t)'
    BY <1>0, <1>2, <1>3 DEF TokensOf, ArmedOf
  <1>14. ReadyOf(t)'
    BY <1>0, <1>2, <1>3, <1>6, <1>10 DEF TokensOf, ReadyOf, InSet
  <1>15. ASSUME NEW x \in Streams, Consumer[x] = t
         PROVE  ReadIsInSet(x)' /\ RegisteredOf(x)'
    <2>1. ReadIsInSet(x)' BY <1>0, <1>2, <1>7, <1>15, RearrangedIn
    <2>2. CASE ~is_poll'[x] BY <2>1, <2>2 DEF RegisteredOf
    <2>3. CASE is_poll'[x]
      <3>1. x # s /\ is_poll[x] BY <1>6, <2>3
      <3>2. PICK j \in DOMAIN set[t] : set[t][j] = x /\ Registered(t, j)
        BY <1>15, <3>1, StreamFacts DEF RegisteredOf
      <3>3. j \in 1 .. Len(set[t]) /\ pos[t] < j /\ j < pos[t] + cnt[t]
        BY <1>2, <1>3, <1>4, <3>1, <3>2, SMTT(60), SMTT(120) DEF Registered
      <3>4. ~end BY <1>2, <1>4, <3>3, SMTT(60), SMTT(120)
      <3>5. Registered(t, j)'
        BY <1>2, <1>4, <1>6, <3>3, <3>4, SMTT(60), SMTT(120) DEF Registered
      <3> QED BY <1>6, <1>15, <2>1, <3>2, <3>4, <3>5 DEF RegisteredOf
    <2> QED BY <2>1, <2>2, <2>3
  <1> QED BY <1>8, <1>9, <1>11, <1>12, <1>13, <1>14, <1>15, PollKeeps

----------------------------------------------------------------------------
(* Writing and reading: what a step on one stream leaves alone. *)

(* A step on stream x keeps what the invariant says of other streams. *)
LEMMA StreamFrame ==
  ASSUME IInv, NEW t \in Tasks, NEW x \in Streams, StreamMove(t, x),
         NEW y \in Streams, y # x
  PROVE  CountsOf(y)' /\ RingOf(y)' /\ WaitsOf(y)' /\ LockOf(y)' /\ LifeOf(y)'
  <1> DEFINE p == Producer[y]
             c == Consumer[y]
  <1>0. /\ data'[y] = data[y] /\ pread'[y] = pread[y] /\ pwrite'[y] = pwrite[y]
        /\ n_sem'[y] = n_sem[y] /\ e_sem'[y] = e_sem[y]
        /\ prod_lock'[y] = prod_lock[y]
        /\ nw'[y] = nw[y] /\ nr'[y] = nr[y]
        /\ UNCHANGED <<alive, rOpen>>
    BY DEF StreamMove, lifevars
  <1>1. /\ CountsOf(y) /\ RingOf(y) /\ WaitsOf(y) /\ LockOf(y) /\ LifeOf(y)
        /\ p \in Tasks /\ c \in Tasks
    BY StreamTypes, StreamFacts, TaskFacts
  <1>2. \A u \in Tasks, S \in SUBSET (WritePcs \cup ReadPcs) :
          At(u, S, y)' <=> At(u, S, y)
    <2> TAKE u \in Tasks, S \in SUBSET (WritePcs \cup ReadPcs)
    <2>1. "user" \notin S BY DEF WritePcs, ReadPcs
    <2> QED BY <2>1, SMTT(60), SMTT(120) DEF At, StreamMove
  <1>3. \A u \in Tasks : At(u, {"r_blk"}, y) \/ At(u, {"w_blk"}, y) =>
                           wake'[u] = wake[u]
    BY DEF At, StreamMove
  <1>4. CountsOf(y)'
    <2>1. /\ At(p, {"w_poll", "w_v"}, y)' <=> At(p, {"w_poll", "w_v"}, y)
          /\ At(p, {"w_blk", "w_put"}, y)' <=> At(p, {"w_blk", "w_put"}, y)
          /\ At(c, {"r_blk", "r_pop"}, y)' <=> At(c, {"r_blk", "r_pop"}, y)
      BY <1>1, <1>2 DEF WritePcs, ReadPcs
    <2>2. /\ At(c, {"r_v"}, y)' <=> At(c, {"r_v"}, y)
          /\ At(c, {"r_pop"}, y)' <=> At(c, {"r_pop"}, y)
          /\ At(p, {"w_put"}, y)' <=> At(p, {"w_put"}, y)
      BY <1>1, <1>2 DEF WritePcs, ReadPcs
    <2> QED BY <1>0, <1>1, <2>1, <2>2 DEF CountsOf, One
  <1>5. WaitsOf(y)'
    BY <1>0, <1>1, <1>2, <1>3 DEF WaitsOf, WritePcs, ReadPcs
  <1>6. LockOf(y)' /\ LifeOf(y)'
    BY <1>0, <1>1, <1>2 DEF LockOf, LifeOf, WritePcs, ReadPcs
  <1>7. RingOf(y)' BY <1>0, <1>1 DEF RingOf, Slots, Offset
  <1> QED BY <1>4, <1>5, <1>6, <1>7

(* So a step on stream x keeps IInv when it keeps the types and what IInv  *)
(* says of the task, of x and of the poll tokens.                          *)
LEMMA StreamKeeps ==
  ASSUME IInv, NEW t \in Tasks, NEW x \in Streams, StreamMove(t, x),
         TypeOK', RolesOf(t)', CountsOf(x)', RingOf(x)', WaitsOf(x)',
         LockOf(x)', LifeOf(x)',
         \A u \in Tasks : TokensOf(u)',
         \A u \in Tasks : ArmedOf(u)',
         \A u \in Tasks : ReadyOf(u)'
  PROVE  IInv'
  <1>0. /\ UNCHANGED <<set, pos, cnt, rOpen, wOpen>>
        /\ \A u \in Tasks : u # t => pc'[u] = pc[u] /\ sd'[u] = sd[u]
        /\ pc[t] \notin PollPcs /\ pc'[t] \notin PollPcs
        /\ \A y \in Streams : is_poll'[y] => is_poll[y]
    BY DEF StreamMove, lifevars, PollPcs, WritePcs, ReadPcs
  <1>1. \A u \in Tasks : RolesOf(u)'
    BY <1>0, TaskFacts DEF RolesOf
  <1>2. \A u \in Tasks : SetOf(u)'
    <2> TAKE u \in Tasks
    <2>1. SetOf(u) BY StreamFacts, TaskFacts
    <2>2. pc'[u] = pc[u] \/ pc'[u] \notin PollPcs BY <1>0
    <2> QED BY <1>0, <2>1, <2>2 DEF SetOf, PollPcs
  <1>3. \A y \in Streams : ReadIsInSet(y)'
    BY <1>0, StreamFacts DEF ReadIsInSet, InSet
  <1>4. \A y \in Streams : RegisteredOf(y)'
    <2> TAKE y \in Streams
    <2>1. Consumer[y] \in Tasks /\ RegisteredOf(y)
      BY StreamTypes, StreamFacts, TaskFacts
    <2>2. \A j : Registered(Consumer[y], j) => Registered(Consumer[y], j)'
      BY <1>0, <2>1 DEF Registered, PollPcs
    <2> QED BY <1>0, <2>1, <2>2 DEF RegisteredOf
  <1>5. \A y \in Streams : y # x =>
          CountsOf(y)' /\ RingOf(y)' /\ WaitsOf(y)' /\ LockOf(y)' /\ LifeOf(y)'
    BY StreamFrame
  <1> QED BY <1>1, <1>2, <1>3, <1>4, <1>5 DEF IInv

(* A step that touches neither a token nor another task's wakeups. *)
LEMMA TokenFrame ==
  ASSUME IInv, NEW t \in Tasks, NEW x \in Streams, StreamMove(t, x),
         UNCHANGED <<poll_token, poll_wakeup, wakeup_sd>>,
         pc[t] \notin {"w_v", "w_wake_poll"},
         pc'[t] \notin {"w_v", "w_wake_poll"},
         \A u \in Tasks : u # t => wake'[u] = wake[u],
         wake'[t] \in {0, 1},
         wake'[t] = 1 => pc'[t] \in {"r_blk", "w_blk"}
  PROVE  /\ \A u \in Tasks : TokensOf(u)'
         /\ \A u \in Tasks : ReadyOf(u)'
  <1>0. /\ \A u \in Tasks : u # t => pc'[u] = pc[u] /\ sd'[u] = sd[u]
        /\ pc[t] \notin PollPcs /\ pc'[t] \notin PollPcs
        /\ set' = set
        /\ \A y \in Streams : Consumer[y] # t => nr'[y] = nr[y]
        /\ \A y \in Streams : nw'[y] \in {nw[y], nw[y] + 1}
    <2>1. \A y \in Streams : nw[y] \in Nat BY StreamTypes
    <2> QED BY <2>1 DEF StreamMove, PollPcs, WritePcs, ReadPcs
  <1>1. \A u, v \in Tasks : HoldsToken(u, v)' <=> HoldsToken(u, v)
    BY <1>0 DEF HoldsToken
  <1>2. \A u \in Tasks : TokensOf(u)'
    BY <1>0, <1>1, TaskFacts, SMTT(60), SMTT(120) DEF TokensOf, PollPcs
  <1>3. ASSUME NEW u \in Tasks PROVE ReadyOf(u)'
    <2>0. ReadyOf(u) /\ TokensOf(u) /\ SetOf(u) BY StreamFacts, TaskFacts
    <2>1. \A y \in Streams : InSet(u, y) => Consumer[y] = u
      BY <2>0 DEF InSet, SetOf
    <2>2. \A y \in Streams : InSet(u, y)' <=> InSet(u, y)
      BY <1>0 DEF InSet
    <2>3. \A y \in Streams : Consumer[y] # t /\ nw[y] > nr[y] =>
                               nw'[y] > nr'[y]
      BY <1>0, StreamTypes, SMTT(60), SMTT(120)
    <2>4. ASSUME NEW v \in Tasks, HoldsToken(v, u)
          PROVE  InSet(u, sd'[v]) /\ nw'[sd'[v]] > nr'[sd'[v]]
      <3>1. u # t /\ v # t
        BY <1>0, <2>0, <2>4 DEF TokensOf, HoldsToken, PollPcs
      <3>2. sd[v] \in Streams /\ InSet(u, sd[v]) /\ nw[sd[v]] > nr[sd[v]]
        BY <2>0, <2>4, TaskTypes DEF ReadyOf
      <3>3. Consumer[sd[v]] # t BY <2>1, <3>1, <3>2
      <3> QED BY <1>0, <2>3, <3>1, <3>2, <3>3
    <2>5. ASSUME \/ wake'[u] = 1 /\ pc'[u] \in {"p_reg", "p_blk"}
                 \/ pc'[u] = "p_unreg"
          PROVE  /\ InSet(u, wakeup_sd[u])
                 /\ nw'[wakeup_sd[u]] > nr'[wakeup_sd[u]]
      <3>1. u # t BY <1>0, <2>5 DEF PollPcs
      <3>2. /\ wakeup_sd[u] \in Streams /\ InSet(u, wakeup_sd[u])
            /\ nw[wakeup_sd[u]] > nr[wakeup_sd[u]]
        BY <1>0, <2>0, <2>5, <3>1, TaskTypes DEF ReadyOf
      <3> QED BY <2>1, <2>3, <3>1, <3>2
    <2> QED BY <1>0, <1>1, <2>4, <2>5 DEF ReadyOf, InSet
  <1> QED BY <1>2, <1>3

(* A step that puts no item and takes neither prod_lock, is_poll nor the   *)
(* token keeps an armed poller armed.                                      *)
LEMMA ArmedFrame ==
  ASSUME IInv, NEW t \in Tasks, NEW x \in Streams, StreamMove(t, x),
         UNCHANGED <<poll_token, is_poll, nw>>,
         pc[t] # "w_poll", pc'[t] # "w_poll"
  PROVE  \A u \in Tasks : ArmedOf(u)'
  <1> TAKE u \in Tasks
  <1>0. ArmedOf(u) /\ TokensOf(u) /\ SetOf(u) /\ set[u] \in Seq(Streams)
    BY TaskTypes, StreamFacts, TaskFacts
  <1>1. CASE u = t
    BY <1>0, <1>1 DEF ArmedOf, TokensOf, StreamMove, WritePcs, ReadPcs
  <1>2. CASE u # t
    <2>1. \A y \in Streams : At(Producer[y], {"w_poll"}, y)' <=>
                             At(Producer[y], {"w_poll"}, y)
      BY StreamTypes, ZenonT(60) DEF StreamMove, At
    <2>2. \A j \in DOMAIN set[u] : nr'[set[u][j]] = nr[set[u][j]]
      BY <1>0, <1>2, SMTT(60), SMTT(120) DEF SetOf, StreamMove
    <2>3. pc'[u] = pc[u] /\ UNCHANGED <<set, pos>>
      BY <1>2 DEF StreamMove
    <2> QED BY <1>0, <2>1, <2>2, <2>3, SMTT(60), SMTT(120) DEF ArmedOf
  <1> QED BY <1>1, <1>2

(* What a step of t on stream x may use of the invariant. *)
LEMMA StepFacts ==
  ASSUME IInv, NEW t \in Tasks, NEW x \in Streams
  PROVE  /\ RolesOf(t) /\ TokensOf(t)
         /\ CountsOf(x) /\ RingOf(x) /\ WaitsOf(x) /\ LockOf(x) /\ LifeOf(x)
         /\ pc[t] \in PcValues /\ sd[t] \in Streams
         /\ wake[t] \in {0, 1}
  <1>1. RolesOf(t) /\ TokensOf(t) BY TaskFacts
  <1>2. pc[t] \in PcValues /\ sd[t] \in Streams BY TaskTypes
  <1>3. wake[t] \in {0, 1} BY <1>1 DEF TokensOf
  <1>4. /\ CountsOf(x) /\ RingOf(x) /\ WaitsOf(x)
        /\ LockOf(x) /\ LifeOf(x)
    BY StreamFacts
  <1> QED BY <1>1, <1>2, <1>3, <1>4

(* The reader of stream x is where it was. *)
ReaderStays(x) ==
  LET c == Consumer[x] IN
  /\ At(c, {"r_blk", "r_pop"}, x)' <=> At(c, {"r_blk", "r_pop"}, x)
  /\ At(c, {"r_blk"}, x)' <=> At(c, {"r_blk"}, x)
  /\ At(c, {"r_pop"}, x)' <=> At(c, {"r_pop"}, x)
  /\ At(c, {"r_v"}, x)' <=> At(c, {"r_v"}, x)
  /\ At(c, {"r_wake"}, x)' <=> At(c, {"r_wake"}, x)

(* A step of a writer moves no reader of the stream. *)
LEMMA ReaderFrame ==
  ASSUME IInv, NEW t \in Tasks, NEW x \in Streams, StreamMove(t, x),
         pc[t] \notin ReadPcs, pc'[t] \notin ReadPcs
  PROVE  ReaderStays(x)
  <1>1. Consumer[x] \in Tasks BY StreamTypes
  <1> QED BY <1>1 DEF ReaderStays, StreamMove, At, ReadPcs

(* The writer of stream x is where it was. *)
WriterStays(x) ==
  LET p == Producer[x] IN
  /\ At(p, {"w_try", "w_blk", "w_put"}, x)' <=>
       At(p, {"w_try", "w_blk", "w_put"}, x)
  /\ At(p, {"w_blk", "w_put"}, x)' <=> At(p, {"w_blk", "w_put"}, x)
  /\ At(p, {"w_blk"}, x)' <=> At(p, {"w_blk"}, x)
  /\ At(p, {"w_put"}, x)' <=> At(p, {"w_put"}, x)
  /\ At(p, {"w_poll", "w_v"}, x)' <=> At(p, {"w_poll", "w_v"}, x)
  /\ At(p, {"w_poll"}, x)' <=> At(p, {"w_poll"}, x)
  /\ At(p, {"w_wake_read"}, x)' <=> At(p, {"w_wake_read"}, x)

(* A step of a reader moves no writer of the stream. *)
LEMMA WriterFrame ==
  ASSUME IInv, NEW t \in Tasks, NEW x \in Streams, StreamMove(t, x),
         pc[t] \notin WritePcs, pc'[t] \notin WritePcs
  PROVE  WriterStays(x)
  <1>1. Producer[x] \in Tasks BY StreamTypes
  <1> QED BY <1>1, ZenonT(60) DEF WriterStays, StreamMove, At, WritePcs

----------------------------------------------------------------------------
(* LpelStreamWrite: one lemma per action. *)

(* LpelStreamTryWrite has found a free slot. *)
LEMMA TryWriteKeeps ==
  ASSUME IInv, NEW t \in Tasks, NEW s \in Streams, TryWrite(t, s)
  PROVE  IInv'
  <1>0. /\ UNCHANGED <<data, pread, pwrite, n_sem, e_sem, is_poll, prod_lock>>
        /\ UNCHANGED <<nw, nr, lifevars, alive, wOpen, rOpen, wake>>
        /\ UNCHANGED <<poll_token, wakeup_sd, poll_wakeup, set, pos, cnt>>
    BY DEF TryWrite, streamvars, bufvars, lifevars, pollvars
  <1>1. /\ pc \in [Tasks -> PcValues] /\ sd \in [Tasks -> Streams]
        /\ trying \in [Tasks -> BOOLEAN]
    BY TypeFact DEF TypeOK
  <1>2. /\ t = Producer[s] /\ wOpen[s] /\ nw[s] < Last[s]
        /\ pc[t] = "user" /\ pc'[t] = "w_try" /\ sd'[t] = s
        /\ \A u \in Tasks : u # t => pc'[u] = pc[u] /\ sd'[u] = sd[u]
    BY <1>1 DEF TryWrite, Goto
  <1>3. StreamMove(t, s)
    BY <1>0, <1>2 DEF StreamMove, WritePcs
  <1>4. TypeOK'
    <2>1. /\ pc' \in [Tasks -> PcValues] /\ sd' \in [Tasks -> Streams]
          /\ trying' \in [Tasks -> BOOLEAN]
      BY <1>1 DEF TryWrite, Goto, PcValues
    <2> QED BY <1>0, <2>1, TypeFact DEF TypeOK, Slots
  <1>5. /\ RolesOf(t) /\ TokensOf(t)
        /\ CountsOf(s) /\ RingOf(s) /\ WaitsOf(s) /\ LockOf(s) /\ LifeOf(s)
        /\ Consumer[s] \in Tasks /\ wake[t] = 0
    BY <1>2, StepFacts, StreamTypes DEF TokensOf
  <1>6. RolesOf(t)' BY <1>0, <1>2 DEF RolesOf, WritePcs, ReadPcs
  <1>7. CountsOf(s)' /\ WaitsOf(s)'
    BY <1>0, <1>2, <1>5 DEF CountsOf, WaitsOf, At, One
  <1>8. LockOf(s)' /\ LifeOf(s)' /\ RingOf(s)'
    <2>1. LockOf(s)' BY <1>0, <1>2, <1>5 DEF LockOf, At
    <2>2. LifeOf(s)' BY <1>0, <1>2, <1>5 DEF LifeOf, At
    <2>3. RingOf(s)' BY <1>0, <1>5 DEF RingOf, Slots, Offset
    <2> QED BY <2>1, <2>2, <2>3
  <1>9. /\ \A u \in Tasks : TokensOf(u)'
        /\ \A u \in Tasks : ReadyOf(u)'
    <2>1. /\ \A u \in Tasks : u # t => wake'[u] = wake[u]
          /\ wake'[t] \in {0, 1} /\ wake'[t] # 1
      BY <1>0, <1>5, SMTT(60), SMTT(120)
    <2>2. /\ pc[t] \notin {"w_v", "w_wake_poll"}
          /\ pc'[t] \notin {"w_v", "w_wake_poll"}
      BY <1>2
    <2> QED BY <1>0, <1>3, <2>1, <2>2, TokenFrame
  <1>10. \A u \in Tasks : ArmedOf(u)' BY <1>0, <1>2, <1>3, ArmedFrame
  <1> QED BY <1>3, <1>4, <1>6, <1>7, <1>8, <1>9, <1>10, StreamKeeps

(* P(e_sem) counts the slot before the writer knows whether it waits. *)
LEMMA WritePKeeps ==
  ASSUME IInv, NEW t \in Tasks, NEW s \in Streams, WriteP(t, s)
  PROVE  IInv'
  <1>0. /\ UNCHANGED <<data, pread, pwrite, n_sem, is_poll, prod_lock, nw, nr>>
        /\ UNCHANGED <<lifevars, alive, wOpen, rOpen, trying, wake>>
        /\ UNCHANGED <<poll_token, wakeup_sd, poll_wakeup, set, pos, cnt>>
    BY DEF WriteP, bufvars, lifevars, pollvars
  <1>1. /\ pc \in [Tasks -> PcValues] /\ sd \in [Tasks -> Streams]
        /\ e_sem \in [Streams -> Int]
    BY TypeFact DEF TypeOK
  <1>2. /\ pc[t] \in {"user", "w_try"} /\ (pc[t] = "user" \/ sd[t] = s)
        /\ pc'[t] \in {"w_blk", "w_put"}
        /\ pc'[t] = "w_blk" <=> e_sem[s] = 0
        /\ e_sem'[s] = e_sem[s] - 1 /\ sd'[t] = s
        /\ \A y \in Streams : y # s => e_sem'[y] = e_sem[y]
        /\ \A u \in Tasks : u # t => pc'[u] = pc[u] /\ sd'[u] = sd[u]
    BY <1>1 DEF WriteP
  <1>3. StreamMove(t, s)
    BY <1>0, <1>2 DEF StreamMove, WritePcs
  <1>4. TypeOK'
    <2>1. /\ pc' \in [Tasks -> PcValues] /\ sd' \in [Tasks -> Streams]
      BY <1>1 DEF WriteP, PcValues
    <2>2. e_sem' \in [Streams -> Int] BY <1>1, SMTT(60), SMTT(120) DEF WriteP
    <2> QED BY <1>0, <2>1, <2>2, TypeFact DEF TypeOK, Slots
  <1>5. /\ RolesOf(t) /\ TokensOf(t)
        /\ CountsOf(s) /\ RingOf(s) /\ WaitsOf(s) /\ LockOf(s) /\ LifeOf(s)
        /\ wake[t] = 0
    BY <1>2, StepFacts DEF TokensOf
  <1>6. /\ nw[s] \in Nat /\ nr[s] \in Nat /\ n_sem[s] \in Int
        /\ e_sem[s] \in Int /\ Size[s] \in Nat /\ Consumer[s] \in Tasks
    BY StreamTypes
  <1>7. t = Producer[s] /\ wOpen[s] /\ nw[s] < Last[s]
    BY <1>2, <1>5 DEF WriteP, RolesOf, LifeOf, WritePcs, At
  <1>8. RolesOf(t)' BY <1>0, <1>2, <1>7 DEF RolesOf, WritePcs, ReadPcs
  <1>9. ReaderStays(s) BY <1>2, <1>3, ReaderFrame DEF ReadPcs
  <1>10. e_sem[s] >= 0
    <2>1. ~At(t, {"w_blk"}, s) BY <1>2 DEF At
    <2>2. e_sem[s] # -1 BY <1>5, <1>7, <2>1 DEF WaitsOf
    <2>3. e_sem[s] >= -1 BY <1>5 DEF CountsOf
    <2> QED BY <1>6, <2>2, <2>3, SMTT(60), SMTT(120)
  <1>11. CountsOf(s)'
    <2>1. /\ ~At(t, {"w_poll", "w_v"}, s) /\ ~At(t, {"w_poll", "w_v"}, s)'
          /\ ~At(t, {"w_blk", "w_put"}, s) /\ At(t, {"w_blk", "w_put"}, s)'
          /\ At(t, {"w_put"}, s)' => e_sem[s] # 0
      BY <1>2 DEF At
    <2>2. PICK m \in {0, 1} : m = One(At(Consumer[s], {"r_v"}, s))
      BY DEF One
    <2>3. e_sem[s] = Size[s] - (nw[s] - nr[s]) - 0 - m
      BY <1>5, <1>7, <2>1, <2>2 DEF CountsOf, One
    <2>4. /\ e_sem'[s] = Size[s] - (nw[s] - nr[s]) - 1 - m
          /\ e_sem'[s] >= -1
          /\ e_sem[s] # 0 => e_sem'[s] >= 0
      <3>1. e_sem'[s] = e_sem[s] - 1 BY <1>2
      <3> QED BY <1>6, <1>10, <2>3, <3>1, SMTT(60), SMTT(120)
    <2>5. m = One(At(Consumer[s], {"r_v"}, s)')
      BY <1>9, <2>2 DEF One, ReaderStays
    <2> QED
      BY <1>0, <1>5, <1>7, <1>9, <2>1, <2>4, <2>5 DEF CountsOf, One,
         ReaderStays
  <1>12. WaitsOf(s)'
    <2>1. e_sem'[s] = -1 <=> pc'[t] = "w_blk"
      BY <1>2, <1>6, <1>10, SMTT(60), SMTT(120)
    <2>2. /\ ~At(t, {"w_blk"}, s) /\ ~At(t, {"w_wake_read"}, s)
          /\ ~At(t, {"w_wake_read"}, s)'
          /\ At(t, {"w_blk"}, s)' <=> pc'[t] = "w_blk"
      BY <1>2 DEF At
    <2>3. ~At(Consumer[s], {"r_wake"}, s) BY <1>5, <1>7, <2>2 DEF WaitsOf
    <2> QED
      BY <1>0, <1>5, <1>7, <1>9, <2>1, <2>2, <2>3 DEF WaitsOf, ReaderStays
  <1>13. LifeOf(s)'
    BY <1>0, <1>2, <1>5, <1>6, <1>7, <1>9 DEF LifeOf, At, ReaderStays
  <1>14. LockOf(s)' BY <1>0, <1>2, <1>5, <1>7 DEF LockOf, At
  <1>15. RingOf(s)' BY <1>0, <1>5 DEF RingOf, Slots, Offset
  <1>16. /\ \A u \in Tasks : TokensOf(u)'
         /\ \A u \in Tasks : ReadyOf(u)'
    <2>1. /\ \A u \in Tasks : u # t => wake'[u] = wake[u]
          /\ wake'[t] \in {0, 1} /\ wake'[t] # 1
      BY <1>0, <1>5, SMTT(60), SMTT(120)
    <2>2. /\ pc[t] \notin {"w_v", "w_wake_poll"}
          /\ pc'[t] \notin {"w_v", "w_wake_poll"}
      BY <1>2
    <2> QED BY <1>0, <1>3, <2>1, <2>2, TokenFrame
  <1>17. \A u \in Tasks : ArmedOf(u)' BY <1>0, <1>2, <1>3, ArmedFrame
  <1> QED
    BY <1>3, <1>4, <1>8, <1>11, <1>12, <1>13, <1>14, <1>15, <1>16, <1>17,
       StreamKeeps

(* The wakeup of a waiting writer is delivered. *)
LEMMA WriteResumeKeeps ==
  ASSUME IInv, NEW t \in Tasks, WriteResume(t)
  PROVE  IInv'
  <1>s. PICK s \in Streams : s = sd[t] BY TaskTypes
  <1>0. /\ UNCHANGED <<data, pread, pwrite, n_sem, e_sem, is_poll, prod_lock>>
        /\ UNCHANGED <<nw, nr, lifevars, alive, wOpen, rOpen, sd, trying>>
        /\ UNCHANGED <<poll_token, wakeup_sd, poll_wakeup, set, pos, cnt>>
    BY DEF WriteResume, streamvars, bufvars, lifevars, pollvars
  <1>1. /\ pc \in [Tasks -> PcValues] /\ wake \in [Tasks -> Nat]
    BY TypeFact DEF TypeOK
  <1>2. /\ RolesOf(t) /\ TokensOf(t) /\ wake[t] \in {0, 1}
        /\ CountsOf(s) /\ RingOf(s) /\ WaitsOf(s) /\ LockOf(s) /\ LifeOf(s)
    BY StepFacts
  <1>3. /\ pc[t] = "w_blk" /\ pc'[t] = "w_put"
        /\ wake[t] = 1 /\ wake'[t] = 0
        /\ \A u \in Tasks : u # t => pc'[u] = pc[u] /\ wake'[u] = wake[u]
    BY <1>1, <1>2, SMTT(60), SMTT(120) DEF WriteResume, Goto, Resume
  <1>4. StreamMove(t, s)
    BY <1>s, <1>0, <1>2, <1>3 DEF StreamMove, WritePcs
  <1>5. TypeOK'
    <2>1. pc' \in [Tasks -> PcValues] BY <1>1 DEF WriteResume, Goto, PcValues
    <2>2. wake' \in [Tasks -> Nat]
      BY <1>1, SMTT(60), SMTT(120) DEF WriteResume, Resume
    <2> QED BY <1>0, <2>1, <2>2, TypeFact DEF TypeOK, Slots
  <1>6. /\ nw[s] \in Nat /\ nr[s] \in Nat /\ n_sem[s] \in Int
        /\ e_sem[s] \in Int /\ e_sem[s] >= -1 /\ Size[s] \in Nat /\ Consumer[s] \in Tasks
    BY <1>2, StreamTypes
  <1>7. t = Producer[s] /\ wOpen[s]
    BY <1>s, <1>2, <1>3 DEF RolesOf, WritePcs
  <1>8. RolesOf(t)' BY <1>s, <1>0, <1>3, <1>7 DEF RolesOf, WritePcs, ReadPcs
  <1>9. ReaderStays(s) BY <1>2, <1>3, <1>4, ReaderFrame DEF ReadPcs
  <1>10. /\ e_sem[s] >= 0 /\ ~At(Consumer[s], {"r_wake"}, s)
         /\ At(Consumer[s], {"r_blk"}, s) => wake'[Consumer[s]] = wake[Consumer[s]]
    <2>1. At(Consumer[s], {"r_blk"}, s) => Consumer[s] # t BY <1>3 DEF At
    <2>2. e_sem[s] # -1 /\ ~At(Consumer[s], {"r_wake"}, s)
      BY <1>2, <1>3, <1>7, SMTT(60), SMTT(120) DEF WaitsOf
    <2> QED BY <1>3, <1>6, <2>1, <2>2, SMTT(60), SMTT(120)
  <1>11. CountsOf(s)'
    <2>1. /\ ~At(t, {"w_poll", "w_v"}, s) /\ ~At(t, {"w_poll", "w_v"}, s)'
          /\ At(t, {"w_blk", "w_put"}, s) /\ At(t, {"w_blk", "w_put"}, s)'
      BY <1>s, <1>0, <1>3 DEF At
    <2> QED
      BY <1>0, <1>2, <1>6, <1>7, <1>9, <1>10, <2>1 DEF CountsOf, One,
         ReaderStays
  <1>12. WaitsOf(s)'
    <2>1. /\ ~At(t, {"w_wake_read"}, s) /\ ~At(t, {"w_wake_read"}, s)'
          /\ ~At(t, {"w_blk"}, s)'
      BY <1>s, <1>0, <1>3 DEF At
    <2>2. e_sem[s] # -1 BY <1>6, <1>10, SMTT(60), SMTT(120)
    <2> QED
      BY <1>0, <1>2, <1>7, <1>9, <1>10, <2>1, <2>2 DEF WaitsOf, ReaderStays
  <1>13. LifeOf(s)'
    BY <1>s, <1>0, <1>2, <1>3, <1>6, <1>7, <1>9 DEF LifeOf, At, ReaderStays
  <1>14. LockOf(s)' BY <1>s, <1>0, <1>2, <1>3, <1>7 DEF LockOf, At
  <1>15. RingOf(s)' BY <1>0, <1>2 DEF RingOf, Slots, Offset
  <1>16. /\ \A u \in Tasks : TokensOf(u)'
         /\ \A u \in Tasks : ReadyOf(u)'
    <2>1. /\ UNCHANGED <<poll_token, poll_wakeup, wakeup_sd>>
          /\ pc[t] \notin {"w_v", "w_wake_poll"}
          /\ pc'[t] \notin {"w_v", "w_wake_poll"}
          /\ wake'[t] = 0
          /\ \A u \in Tasks : u # t => wake'[u] = wake[u]
      BY <1>0, <1>3
    <2> QED BY <1>4, <2>1, TokenFrame, SMTT(60), SMTT(120)
  <1>17. \A u \in Tasks : ArmedOf(u)' BY <1>0, <1>2, <1>3, <1>4, ArmedFrame
  <1> QED
    BY <1>0, <1>2, <1>4, <1>5, <1>8, <1>11, <1>12, <1>13, <1>14, <1>15, <1>16,
       <1>17, StreamKeeps

(* Putting an item under prod_lock: the slot was free, the item is behind  *)
(* all others in the ring, and a poller of the stream stays armed because  *)
(* the writer is yet to look at is_poll.                                   *)
LEMMA WritePutKeeps ==
  ASSUME IInv, NEW t \in Tasks, WritePut(t)
  PROVE  IInv'
  <1>s. PICK s \in Streams : s = sd[t] BY TaskTypes
  <1>0. /\ UNCHANGED <<pread, n_sem, e_sem, is_poll, nr>>
        /\ UNCHANGED <<lifevars, alive, wOpen, rOpen, sd, trying, wake>>
        /\ UNCHANGED <<poll_token, wakeup_sd, poll_wakeup, set, pos, cnt>>
    BY DEF WritePut, LpelBufferPut, lifevars, pollvars
  <1>1. /\ pc \in [Tasks -> PcValues] /\ prod_lock \in [Streams -> BOOLEAN]
        /\ nw \in [Streams -> Nat] /\ pwrite \in [Streams -> Nat]
        /\ DOMAIN data = Streams /\ data[s] \in [Slots(s) -> Nat]
        /\ pread[s] \in Slots(s) /\ pwrite[s] \in Slots(s)
    BY TypeFact DEF TypeOK
  <1>2. /\ RolesOf(t) /\ TokensOf(t) /\ wake[t] = 0
        /\ CountsOf(s) /\ RingOf(s) /\ WaitsOf(s) /\ LockOf(s) /\ LifeOf(s)
    BY StepFacts DEF TokensOf, WritePut, Goto
  <1>3. /\ pc[t] = "w_put" /\ pc'[t] = "w_poll"
        /\ nw'[s] = nw[s] + 1 /\ pwrite'[s] = Advance(s, pwrite[s])
        /\ data'[s] = [data[s] EXCEPT ![pwrite[s]] = nw[s] + 1]
        /\ prod_lock'[s] = TRUE
        /\ \A u \in Tasks : u # t => pc'[u] = pc[u]
        /\ \A y \in Streams : y # s =>
             /\ data'[y] = data[y] /\ pwrite'[y] = pwrite[y]
             /\ nw'[y] = nw[y] /\ prod_lock'[y] = prod_lock[y]
    BY <1>s, <1>1 DEF WritePut, Goto, LpelBufferPut
  <1>4. StreamMove(t, s)
    BY <1>s, <1>0, <1>3 DEF StreamMove, WritePcs
  <1>6. /\ nw[s] \in Nat /\ nr[s] \in Nat /\ n_sem[s] \in Int
        /\ e_sem[s] \in Int /\ Size[s] \in Nat /\ Size[s] > 0
        /\ Last[s] \in Nat /\ Consumer[s] \in Tasks
    BY StreamTypes
  <1>7. t = Producer[s] /\ wOpen[s]
    BY <1>s, <1>2, <1>3 DEF RolesOf, WritePcs
  <1>8. RolesOf(t)' BY <1>s, <1>0, <1>3, <1>7 DEF RolesOf, WritePcs, ReadPcs
  <1>9. ReaderStays(s) BY <1>3, <1>4, ReaderFrame DEF ReadPcs
  <1>10. /\ ~At(t, {"w_poll", "w_v"}, s) /\ At(t, {"w_poll", "w_v"}, s)'
         /\ At(t, {"w_blk", "w_put"}, s) /\ ~At(t, {"w_blk", "w_put"}, s)'
         /\ At(t, {"w_put"}, s) /\ ~At(t, {"w_put"}, s)'
         /\ At(t, {"w_poll"}, s)' /\ ~At(t, {"w_try", "w_blk", "w_put"}, s)'
         /\ At(t, {"w_try", "w_blk", "w_put"}, s)
         /\ ~At(t, {"w_wake_read"}, s) /\ ~At(t, {"w_wake_read"}, s)'
         /\ ~At(t, {"w_blk"}, s) /\ ~At(t, {"w_blk"}, s)'
    BY <1>s, <1>0, <1>3 DEF At
  <1>k. PICK j \in {0, 1}, m \in {0, 1} :
          /\ j = One(At(Consumer[s], {"r_blk", "r_pop"}, s))
          /\ m = One(At(Consumer[s], {"r_v"}, s))
    BY DEF One
  <1>e. /\ n_sem[s] = nw[s] - nr[s] - 0 - j
        /\ e_sem[s] = Size[s] - (nw[s] - nr[s]) - 1 - m
        /\ nr[s] <= nw[s] /\ e_sem[s] >= 0
    BY <1>2, <1>7, <1>10, <1>k DEF CountsOf, One
  <1>11. nr[s] <= nw[s] /\ nw[s] - nr[s] < Size[s]
    BY <1>6, <1>e, SMTT(60), SMTT(120)
  <1>12. CountsOf(s)'
    <2>1. /\ n_sem[s] = nw'[s] - nr[s] - 1 - j
          /\ e_sem[s] = Size[s] - (nw'[s] - nr[s]) - 0 - m
          /\ nr[s] <= nw'[s] /\ nw'[s] <= nr[s] + Size[s]
      BY <1>3, <1>6, <1>e, <1>11, SMTT(60), SMTT(120)
    <2> QED
      BY <1>0, <1>2, <1>7, <1>9, <1>10, <1>k, <2>1 DEF CountsOf, One,
         ReaderStays
  <1>13. WaitsOf(s)'
    BY <1>0, <1>2, <1>6, <1>7, <1>9, <1>10 DEF WaitsOf, ReaderStays
  <1>14. LifeOf(s)' /\ LockOf(s)'
    <2>1. nw[s] < Last[s] BY <1>2, <1>7, <1>10 DEF LifeOf
    <2>2. nw'[s] <= Last[s] BY <1>3, <1>6, <2>1, SMTT(60), SMTT(120)
    <2>3. LifeOf(s)'
      BY <1>0, <1>2, <1>7, <1>9, <1>10, <2>2 DEF LifeOf, ReaderStays
    <2>4. LockOf(s)' BY <1>0, <1>3, <1>7, <1>10 DEF LockOf
    <2> QED BY <2>3, <2>4
  <1>15. pread[s] \in 0 .. Size[s] - 1 /\ pwrite[s] \in 0 .. Size[s] - 1
    BY <1>1 DEF Slots
  <1>16. RingOf(s)'
    <2> DEFINE k == nw[s] - nr[s]
    <2>1. k \in Nat /\ k < Size[s] BY <1>6, <1>11, SMTT(60), SMTT(120)
    <2>2. pwrite'[s] = IF pread[s] + (k + 1) < Size[s] THEN pread[s] + (k + 1)
                       ELSE pread[s] + (k + 1) - Size[s]
      BY <1>2, <1>3, <1>6, <1>15, <2>1, SMTT(60), SMTT(120) DEF RingOf, Advance
    <2>3. ASSUME NEW i \in Slots(s)
          PROVE  data'[s][i] = IF Offset(s, i) < k + 1
                               THEN nr[s] + 1 + Offset(s, i) ELSE NULL
      <3>0. /\ i \in 0 .. Size[s] - 1
            /\ data[s][i] = IF Offset(s, i) < k THEN nr[s] + 1 + Offset(s, i)
                                                ELSE NULL
            /\ pwrite[s] = IF pread[s] + k < Size[s] THEN pread[s] + k
                                                     ELSE pread[s] + k - Size[s]
        BY <1>2, <2>3 DEF RingOf, Slots
      <3>1. i = pwrite[s] <=> Offset(s, i) = k
        BY <1>6, <1>15, <2>1, <3>0, SMTT(60), SMTT(120) DEF Offset
      <3>2. data'[s][i] = IF i = pwrite[s] THEN nw[s] + 1 ELSE data[s][i]
        BY <1>1, <1>3, <2>3, SMTT(60), SMTT(120)
      <3>3. Offset(s, i) \in Int
        BY <1>6, <1>15, <3>0, SMTT(60), SMTT(120) DEF Offset
      <3> QED BY <1>6, <2>1, <3>0, <3>1, <3>2, <3>3, SMTT(60), SMTT(120)
    <2>4. nw'[s] - nr[s] = k + 1 BY <1>3, <1>6, SMTT(60), SMTT(120)
    <2> HIDE DEF k
    <2> QED BY <1>0, <2>2, <2>3, <2>4 DEF RingOf, Slots, Offset
  <1>17. TypeOK'
    <2>1. pc' \in [Tasks -> PcValues] /\ prod_lock' \in [Streams -> BOOLEAN]
      BY <1>1 DEF WritePut, Goto, PcValues
    <2>2. nw' = [nw EXCEPT ![s] = nw[s] + 1] BY <1>s DEF WritePut
    <2>a. nw' \in [Streams -> Nat] BY <1>1, <1>6, <2>2, SMTT(60), SMTT(120)
    <2>3. Advance(s, pwrite[s]) \in 0 .. Size[s] - 1
      BY <1>6, <1>15, SMTT(60), SMTT(120) DEF Advance
    <2>4. pwrite' \in [Streams -> Nat]
      BY <1>s, <1>1, <1>6, <2>3, SMTT(60), SMTT(120) DEF WritePut, LpelBufferPut
    <2>5. data'[s] \in [Slots(s) -> Nat]
      BY <1>1, <1>3, <1>6, SMTT(60), SMTT(120)
    <2>6. \A y \in Streams : /\ data'[y] \in [Slots(y) -> Nat]
                             /\ pread'[y] \in Slots(y) /\ pwrite'[y] \in Slots(y)
      <3> TAKE y \in Streams
      <3>1. /\ data[y] \in [Slots(y) -> Nat]
            /\ pread[y] \in Slots(y) /\ pwrite[y] \in Slots(y)
        BY TypeFact DEF TypeOK
      <3>2. CASE y = s BY <1>0, <1>1, <1>3, <2>3, <2>5, <3>2 DEF Slots
      <3>3. CASE y # s BY <1>0, <1>3, <3>1, <3>3
      <3> QED BY <3>2, <3>3
    <2>7. DOMAIN data' = Streams BY <1>1 DEF WritePut, LpelBufferPut
    <2> QED BY <1>0, <2>1, <2>a, <2>4, <2>6, <2>7, TypeFact DEF TypeOK, Slots
  <1>18. /\ \A u \in Tasks : TokensOf(u)'
         /\ \A u \in Tasks : ReadyOf(u)'
    <2>1. /\ \A u \in Tasks : u # t => wake'[u] = wake[u]
          /\ wake'[t] \in {0, 1} /\ wake'[t] # 1
      BY <1>0, <1>2, SMTT(60), SMTT(120)
    <2>2. /\ pc[t] \notin {"w_v", "w_wake_poll"}
          /\ pc'[t] \notin {"w_v", "w_wake_poll"}
      BY <1>3
    <2> QED BY <1>0, <1>4, <2>1, <2>2, TokenFrame
  <1>19. \A u \in Tasks : ArmedOf(u)'
    <2> TAKE u \in Tasks
    <2>1. ArmedOf(u) /\ set[u] \in Seq(Streams)
      BY TaskTypes, StreamFacts, TaskFacts
    <2>2. pc'[u] = "p_blk" => pc[u] = "p_blk" BY <1>3
    <2>3. \A y \in Streams : nw[y] = nr[y] \/ At(Producer[y], {"w_poll"}, y) =>
            nw'[y] = nr[y] \/ At(Producer[y], {"w_poll"}, y)'
      <3> TAKE y \in Streams
      <3>1. CASE y = s BY <1>7, <1>10, <3>1
      <3>2. CASE y # s
        <4>1. At(Producer[y], {"w_poll"}, y) => At(Producer[y], {"w_poll"}, y)'
          BY <1>0, <1>3, StreamTypes DEF At
        <4> QED BY <1>3, <3>2, <4>1
      <3> QED BY <3>1, <3>2
    <2> QED BY <1>0, <2>1, <2>2, <2>3, SMTT(60), SMTT(120) DEF ArmedOf
  <1> QED
    BY <1>4, <1>8, <1>12, <1>13, <1>14, <1>16, <1>17, <1>18, <1>19,
       StreamKeeps

(* The writer looks at is_poll and takes the token of a poller: it is then *)
(* the only one to hold it.                                                *)
LEMMA WriteCheckPollKeeps ==
  ASSUME IInv, NEW t \in Tasks, WriteCheckPoll(t)
  PROVE  IInv'
  <1>s. PICK s \in Streams : s = sd[t] BY TaskTypes
  <1>c. PICK c \in Tasks : c = Consumer[s] BY StreamTypes
  <1>0. /\ UNCHANGED <<data, pread, pwrite, n_sem, e_sem, nw, nr>>
        /\ UNCHANGED <<lifevars, alive, wOpen, rOpen, sd, trying, wake>>
        /\ UNCHANGED <<wakeup_sd, set, pos, cnt>>
    BY DEF WriteCheckPoll, bufvars, lifevars
  <1>1. /\ pc \in [Tasks -> PcValues] /\ prod_lock \in [Streams -> BOOLEAN]
        /\ is_poll \in [Streams -> BOOLEAN]
        /\ poll_token \in [Tasks -> {0, 1}] /\ poll_wakeup \in [Tasks -> {0, 1}]
    BY TypeFact DEF TypeOK
  <1>2. /\ RolesOf(t) /\ TokensOf(t)
        /\ CountsOf(s) /\ RingOf(s) /\ WaitsOf(s) /\ LockOf(s) /\ LifeOf(s)
    BY StepFacts
  <1>3. /\ pc[t] = "w_poll" /\ pc'[t] = "w_v"
        /\ prod_lock'[s] = FALSE /\ is_poll'[s] = FALSE
        /\ is_poll[s] => poll_wakeup'[t] = poll_token[c] /\ poll_token'[c] = 0
        /\ ~is_poll[s] => poll_wakeup'[t] = 0 /\ poll_token'[c] = poll_token[c]
        /\ \A u \in Tasks : u # t => /\ pc'[u] = pc[u]
                                     /\ poll_wakeup'[u] = poll_wakeup[u]
        /\ \A u \in Tasks : u # c => poll_token'[u] = poll_token[u]
        /\ \A y \in Streams : y # s => /\ is_poll'[y] = is_poll[y]
                                       /\ prod_lock'[y] = prod_lock[y]
    BY <1>s, <1>c, <1>1 DEF WriteCheckPoll, Goto
  <1>4. StreamMove(t, s)
    BY <1>s, <1>0, <1>3 DEF StreamMove, WritePcs
  <1>5. TypeOK'
    <2>1. /\ pc' \in [Tasks -> PcValues] /\ prod_lock' \in [Streams -> BOOLEAN]
          /\ is_poll' \in [Streams -> BOOLEAN]
      BY <1>1 DEF WriteCheckPoll, Goto, PcValues
    <2>2. poll_wakeup' \in [Tasks -> {0, 1}] /\ poll_token' \in [Tasks -> {0, 1}]
      BY <1>s, <1>c, <1>1 DEF WriteCheckPoll
    <2> QED BY <1>0, <2>1, <2>2, TypeFact DEF TypeOK, Slots
  <1>6. /\ nw[s] \in Nat /\ nr[s] \in Nat /\ n_sem[s] \in Int
        /\ n_sem[s] >= -1 /\ e_sem[s] \in Int /\ Size[s] \in Nat
    BY StreamTypes
  <1>7. t = Producer[s] /\ wOpen[s]
    BY <1>s, <1>2, <1>3 DEF RolesOf, WritePcs
  <1>8. RolesOf(t)' BY <1>s, <1>0, <1>3, <1>7 DEF RolesOf, WritePcs, ReadPcs
  <1>9. ReaderStays(s) BY <1>3, <1>4, ReaderFrame DEF ReadPcs
  <1>10. /\ At(t, {"w_poll", "w_v"}, s) /\ At(t, {"w_poll", "w_v"}, s)'
         /\ ~At(t, {"w_blk", "w_put"}, s) /\ ~At(t, {"w_blk", "w_put"}, s)'
         /\ ~At(t, {"w_put"}, s) /\ ~At(t, {"w_put"}, s)'
         /\ ~At(t, {"w_poll"}, s)' /\ ~At(t, {"w_try", "w_blk", "w_put"}, s)'
         /\ ~At(t, {"w_wake_read"}, s) /\ ~At(t, {"w_wake_read"}, s)'
         /\ ~At(t, {"w_blk"}, s) /\ ~At(t, {"w_blk"}, s)'
    BY <1>s, <1>0, <1>3 DEF At
  <1>11. CountsOf(s)'
    BY <1>0, <1>2, <1>3, <1>6, <1>7, <1>9, <1>10 DEF CountsOf, One,
       ReaderStays
  <1>12. WaitsOf(s)'
    BY <1>0, <1>2, <1>6, <1>7, <1>9, <1>10 DEF WaitsOf, ReaderStays
  <1>13. LifeOf(s)' /\ LockOf(s)'
    BY <1>0, <1>2, <1>3, <1>6, <1>7, <1>9, <1>10 DEF LifeOf, LockOf,
       ReaderStays, At
  <1>14. RingOf(s)' BY <1>0, <1>2 DEF RingOf, Slots, Offset
  <1>15. \A u, v \in Tasks : HoldsToken(u, v)' <=>
           HoldsToken(u, v) \/ (u = t /\ v = c /\ poll_wakeup'[t] = 1)
    BY <1>s, <1>c, <1>0, <1>3 DEF HoldsToken
  <1>16. poll_wakeup'[t] = 1 <=> is_poll[s] /\ poll_token[c] = 1
    BY <1>1, <1>3, SMTT(60), SMTT(120)
  <1>17. \A u \in Tasks : TokensOf(u)'
    <2> TAKE u \in Tasks
    <2>1. TokensOf(u) BY StreamFacts, TaskFacts
    <2>2. CASE u = c /\ poll_wakeup'[t] = 1
      <3>1. poll_token[u] = 1 /\ poll_token'[u] = 0 BY <1>3, <1>16, <2>2
      <3>2. /\ pc[u] \in {"p_reg", "p_blk"} /\ wake[u] = 0 /\ u # t
            /\ \A v \in Tasks : ~HoldsToken(v, u)
        <4>1. poll_token[u] # 0 BY <3>1
        <4>2. /\ pc[u] \in {"p_reg", "p_blk"} /\ wake[u] = 0
              /\ \A v \in Tasks : ~HoldsToken(v, u)
          BY <2>1, <3>1, <4>1 DEF TokensOf
        <4> QED BY <1>3, <4>2
      <3>3. \A v \in Tasks : HoldsToken(v, u)' <=> v = t BY <1>15, <2>2, <3>2
      <3>4. pc'[u] = pc[u] /\ wake'[u] = 0 BY <1>0, <1>3, <3>2
      <3> QED BY <3>1, <3>2, <3>3, <3>4 DEF TokensOf
    <2>3. CASE ~(u = c /\ poll_wakeup'[t] = 1)
      <3>1. poll_token'[u] = poll_token[u]
        BY <1>1, <1>3, <1>16, <2>3
      <3>2. \A v \in Tasks : HoldsToken(v, u)' <=> HoldsToken(v, u)
        BY <1>15, <2>3
      <3>3. CASE u = t
        BY <1>0, <1>3, <2>1, <3>1, <3>2, <3>3 DEF TokensOf
      <3>4. CASE u # t
        BY <1>0, <1>3, <2>1, <3>1, <3>2, <3>4 DEF TokensOf
      <3> QED BY <3>3, <3>4
    <2> QED BY <2>2, <2>3
  <1>18. ASSUME poll_wakeup'[t] = 1 PROVE InSet(c, s) /\ nw[s] > nr[s]
    <2>1. is_poll[s] /\ pc[c] \in {"p_reg", "p_blk"}
      BY <1>16, <1>18, TaskFacts DEF TokensOf
    <2>2. InSet(c, s) BY <1>c, <2>1, StreamFacts DEF RegisteredOf, InSet
    <2>3. /\ ~At(c, {"r_blk"}, s) /\ ~At(c, {"r_blk", "r_pop"}, s)
      BY <2>1 DEF At
    <2>4. n_sem[s] # -1 BY <1>c, <1>2, <2>3 DEF WaitsOf
    <2>5. n_sem[s] >= -1 /\ n_sem[s] = nw[s] - nr[s] - 1 - 0
      BY <1>c, <1>2, <1>7, <1>10, <2>3 DEF CountsOf, One
    <2>6. nw[s] > nr[s] BY <1>6, <2>4, <2>5, SMTT(60), SMTT(120)
    <2> QED BY <2>2, <2>6
  <1>19. \A u \in Tasks : ReadyOf(u)'
    <2> TAKE u \in Tasks
    <2>1. ReadyOf(u) BY StreamFacts, TaskFacts
    <2>2. \A v \in Tasks : HoldsToken(v, u)' =>
            InSet(u, sd[v]) /\ nw[sd[v]] > nr[sd[v]]
      BY <1>s, <1>15, <1>18, <2>1 DEF ReadyOf
    <2>3. \/ pc'[u] = pc[u]
          \/ pc'[u] \notin {"p_reg", "p_blk", "p_unreg"}
      BY <1>3
    <2> QED BY <1>0, <2>1, <2>2, <2>3 DEF ReadyOf, InSet
  <1>20. \A u \in Tasks : ArmedOf(u)'
    <2> TAKE u \in Tasks
    <2>0. ArmedOf(u) /\ SetOf(u) /\ set[u] \in Seq(Streams)
      BY TaskTypes, StreamFacts, TaskFacts
    <2>1. pc'[u] = "p_blk" => pc[u] = "p_blk" BY <1>3
    <2>2. poll_token'[u] = 1 => poll_token[u] = 1
      <3>1. CASE u = c
        <4>1. poll_token'[c] = 0 \/ poll_token'[c] = poll_token[c] BY <1>3
        <4> QED BY <3>1, <4>1, SMTT(60), SMTT(120)
      <3>2. CASE u # c BY <1>3, <3>2
      <3> QED BY <3>1, <3>2
    <2>3. \A j \in DOMAIN set[u] : poll_token'[u] = 1 /\ is_poll[set[u][j]] =>
            set[u][j] # s
      BY <1>c, <1>3, <2>0, SMTT(60), SMTT(120) DEF SetOf
    <2>4. \A y \in Streams : y # s =>
            /\ is_poll'[y] = is_poll[y]
            /\ At(Producer[y], {"w_poll"}, y) => At(Producer[y], {"w_poll"}, y)'
      BY <1>s, <1>0, <1>3, StreamTypes DEF At
    <2> SUFFICES ASSUME poll_token'[u] = 1, NEW j \in DOMAIN set[u],
                        pc'[u] = "p_blk" \/ j < pos[u]
                 PROVE  /\ is_poll'[set[u][j]]
                        /\ \/ nw[set[u][j]] = nr[set[u][j]]
                           \/ At(Producer[set[u][j]], {"w_poll"}, set[u][j])'
      BY <1>0 DEF ArmedOf
    <2>5. PICK y \in Streams : y = set[u][j] BY <2>0
    <2>6. is_poll[y] /\ (nw[y] = nr[y] \/ At(Producer[y], {"w_poll"}, y))
      BY <2>0, <2>1, <2>2, <2>5 DEF ArmedOf
    <2>7. y # s BY <2>3, <2>5, <2>6
    <2>8. /\ is_poll'[y]
          /\ nw[y] = nr[y] \/ At(Producer[y], {"w_poll"}, y)'
      BY <2>4, <2>6, <2>7
    <2>9. At(Producer[set[u][j]], {"w_poll"}, set[u][j])' <=>
            At(Producer[y], {"w_poll"}, y)'
      BY <1>0, <2>5 DEF At
    <2> QED BY <2>5, <2>8, <2>9
  <1> QED
    BY <1>4, <1>5, <1>8, <1>11, <1>12, <1>13, <1>14, <1>17, <1>19, <1>20,
       StreamKeeps

(* V(n_sem): a writer that finds n_sem at -1 finds its consumer in         *)
(* LpelStreamRead, so it cannot hold the consumer's poll token as well.    *)
LEMMA WriteVKeeps ==
  ASSUME IInv, NEW t \in Tasks, WriteV(t)
  PROVE  IInv'
  <1>s. PICK s \in Streams : s = sd[t] BY TaskTypes
  <1>c. PICK c \in Tasks : c = Consumer[s] BY StreamTypes
  <1>0. /\ UNCHANGED <<data, pread, pwrite, e_sem, is_poll, prod_lock, nw, nr>>
        /\ UNCHANGED <<lifevars, alive, wOpen, rOpen, sd, wake>>
        /\ UNCHANGED <<poll_token, wakeup_sd, poll_wakeup, set, pos, cnt>>
    BY DEF WriteV, bufvars, lifevars, pollvars
  <1>1. /\ pc \in [Tasks -> PcValues] /\ n_sem \in [Streams -> Int]
        /\ trying \in [Tasks -> BOOLEAN]
    BY TypeFact DEF TypeOK
  <1>2. /\ RolesOf(t) /\ TokensOf(t)
        /\ CountsOf(s) /\ RingOf(s) /\ WaitsOf(s) /\ LockOf(s) /\ LifeOf(s)
    BY StepFacts
  <1>3. /\ nw[s] \in Nat /\ nr[s] \in Nat /\ n_sem[s] \in Int
        /\ n_sem[s] >= -1 /\ e_sem[s] \in Int /\ Size[s] \in Nat
    BY StreamTypes
  <1>4. /\ pc[t] = "w_v" /\ n_sem'[s] = n_sem[s] + 1
        /\ pc'[t] \in {"w_wake_read", "w_wake_poll", "user"}
        /\ pc'[t] = "w_wake_read" <=> n_sem[s] = -1
        /\ pc'[t] = "w_wake_poll" <=> n_sem[s] # -1 /\ poll_wakeup[t] = 1
        /\ \A y \in Streams : y # s => n_sem'[y] = n_sem[y]
        /\ \A u \in Tasks : u # t => pc'[u] = pc[u]
    BY <1>s, <1>1, <1>3, SMTT(60), SMTT(120) DEF WriteV
  <1>5. StreamMove(t, s)
    BY <1>s, <1>0, <1>4 DEF StreamMove, WritePcs
  <1>6. TypeOK'
    <2>1. pc' \in [Tasks -> PcValues] /\ trying' \in [Tasks -> BOOLEAN]
      BY <1>1 DEF WriteV, PcValues
    <2>2. n_sem' = [n_sem EXCEPT ![s] = n_sem[s] + 1] BY <1>s DEF WriteV
    <2>3. n_sem' \in [Streams -> Int] BY <1>1, <1>3, <2>2, SMTT(60), SMTT(120)
    <2> QED BY <1>0, <2>1, <2>3, TypeFact DEF TypeOK, Slots
  <1>7. t = Producer[s] /\ wOpen[s]
    BY <1>s, <1>2, <1>4 DEF RolesOf, WritePcs
  <1>8. RolesOf(t)' BY <1>s, <1>0, <1>4, <1>7 DEF RolesOf, WritePcs, ReadPcs
  <1>9. ReaderStays(s) BY <1>4, <1>5, ReaderFrame DEF ReadPcs
  <1>10. /\ At(t, {"w_poll", "w_v"}, s) /\ ~At(t, {"w_poll", "w_v"}, s)'
         /\ ~At(t, {"w_blk", "w_put"}, s) /\ ~At(t, {"w_blk", "w_put"}, s)'
         /\ ~At(t, {"w_put"}, s) /\ ~At(t, {"w_put"}, s)'
         /\ ~At(t, {"w_poll"}, s) /\ ~At(t, {"w_poll"}, s)'
         /\ ~At(t, {"w_try", "w_blk", "w_put"}, s)'
         /\ ~At(t, {"w_wake_read"}, s)
         /\ At(t, {"w_wake_read"}, s)' <=> n_sem[s] = -1
         /\ ~At(t, {"w_blk"}, s) /\ ~At(t, {"w_blk"}, s)'
    BY <1>s, <1>0, <1>4 DEF At
  <1>11. CountsOf(s)'
    <2>1. PICK k \in {0, 1} : k = One(At(Consumer[s], {"r_blk", "r_pop"}, s))
      BY DEF One
    <2>2. k = One(At(Consumer[s], {"r_blk", "r_pop"}, s)')
      BY <2>1, <1>9 DEF One, ReaderStays
    <2>3. n_sem[s] = nw[s] - nr[s] - 1 - k
      BY <1>2, <1>7, <1>10, <2>1 DEF CountsOf, One
    <2>4. /\ n_sem'[s] = nw[s] - nr[s] - 0 - k /\ n_sem'[s] >= -1
          /\ n_sem[s] >= 0 => n_sem'[s] >= 0
      BY <1>3, <1>4, <2>3, SMTT(60), SMTT(120)
    <2> QED
      BY <1>0, <1>2, <1>7, <1>9, <1>10, <2>2, <2>4 DEF CountsOf, One,
         ReaderStays
  <1>12. WaitsOf(s)'
    <2>1. n_sem'[s] # -1 /\ n_sem'[s] >= 0 BY <1>3, <1>4, SMTT(60), SMTT(120)
    <2> QED
      BY <1>0, <1>2, <1>7, <1>9, <1>10, <2>1 DEF WaitsOf, ReaderStays
  <1>13. LifeOf(s)' /\ LockOf(s)'
    BY <1>0, <1>2, <1>3, <1>7, <1>9, <1>10 DEF LifeOf, LockOf, ReaderStays
  <1>14. RingOf(s)' BY <1>0, <1>2 DEF RingOf, Slots, Offset
  <1>15. n_sem[s] = -1 => poll_wakeup[t] # 1
    <2>1. n_sem[s] = -1 => pc[c] = "r_blk" BY <1>c, <1>2 DEF WaitsOf, At
    <2>2. poll_wakeup[t] = 1 => HoldsToken(t, c)
      BY <1>s, <1>c, <1>4 DEF HoldsToken
    <2>3. HoldsToken(t, c) => pc[c] \in {"p_reg", "p_blk"}
      BY TaskFacts DEF TokensOf
    <2> QED BY <2>1, <2>2, <2>3
  <1>16. \A u, v \in Tasks : HoldsToken(u, v)' <=> HoldsToken(u, v)
    BY <1>0, <1>4, <1>15 DEF HoldsToken
  <1>17. \A u \in Tasks : TokensOf(u)'
    BY <1>0, <1>4, <1>16, TaskFacts, ZenonT(60) DEF TokensOf
  <1>18. \A u \in Tasks : ReadyOf(u)'
    <2> TAKE u \in Tasks
    <2>1. ReadyOf(u) BY TaskFacts
    <2> QED BY <1>0, <1>4, <1>16, <2>1 DEF ReadyOf, InSet
  <1>19. \A u \in Tasks : ArmedOf(u)' BY <1>0, <1>4, <1>5, ArmedFrame
  <1> QED
    BY <1>5, <1>6, <1>8, <1>11, <1>12, <1>13, <1>14, <1>17, <1>18, <1>19,
       StreamKeeps

(* The wakeup of a reader goes to a task that waits and has none yet. *)
LEMMA WriteWakeReadKeeps ==
  ASSUME IInv, NEW t \in Tasks, WriteWakeRead(t)
  PROVE  IInv'
  <1>s. PICK s \in Streams : s = sd[t] BY TaskTypes
  <1>c. PICK c \in Tasks : c = Consumer[s] BY StreamTypes
  <1>0. /\ UNCHANGED <<data, pread, pwrite, n_sem, e_sem, is_poll, prod_lock>>
        /\ UNCHANGED <<nw, nr, lifevars, alive, wOpen, rOpen, sd, trying>>
        /\ UNCHANGED <<poll_token, wakeup_sd, poll_wakeup, set, pos, cnt>>
    BY DEF WriteWakeRead, streamvars, bufvars, lifevars, pollvars
  <1>1. /\ pc \in [Tasks -> PcValues] /\ wake \in [Tasks -> Nat]
    BY TypeFact DEF TypeOK
  <1>2. /\ RolesOf(t) /\ TokensOf(t)
        /\ CountsOf(s) /\ RingOf(s) /\ WaitsOf(s) /\ LockOf(s) /\ LifeOf(s)
    BY StepFacts
  <1>3. /\ nw[s] \in Nat /\ nr[s] \in Nat /\ n_sem[s] \in Int
        /\ n_sem[s] >= -1 /\ e_sem[s] \in Int /\ Size[s] \in Nat
    BY StreamTypes
  <1>4. pc[t] = "w_wake_read" BY DEF WriteWakeRead, Goto
  <1>5. t = Producer[s] /\ wOpen[s]
    BY <1>s, <1>2, <1>4 DEF RolesOf, WritePcs
  <1>6. pc[c] = "r_blk" /\ sd[c] = s /\ wake[c] = 0 /\ n_sem[s] >= 0 /\ c # t
    BY <1>s, <1>c, <1>2, <1>4, <1>5 DEF WaitsOf, At
  <1>7. /\ pc'[t] = "user" /\ wake'[c] = 1
        /\ \A u \in Tasks : u # t => pc'[u] = pc[u]
        /\ \A u \in Tasks : u # c => wake'[u] = wake[u]
    BY <1>s, <1>c, <1>1, <1>6, SMTT(60), SMTT(120)
       DEF WriteWakeRead, Goto, LpelTaskUnblock
  <1>8. StreamMove(t, s)
    BY <1>s, <1>0, <1>4, <1>6, <1>7 DEF StreamMove, WritePcs
  <1>9. TypeOK'
    <2>1. pc' \in [Tasks -> PcValues]
      BY <1>1 DEF WriteWakeRead, Goto, PcValues
    <2>2. wake' = [wake EXCEPT ![c] = wake[c] + 1]
      BY <1>s, <1>c DEF WriteWakeRead, LpelTaskUnblock
    <2>3. wake' \in [Tasks -> Nat] BY <1>1, <1>6, <2>2, SMTT(60), SMTT(120)
    <2> QED BY <1>0, <2>1, <2>3, TypeFact DEF TypeOK, Slots
  <1>10. RolesOf(t)' BY <1>7 DEF RolesOf, WritePcs, ReadPcs
  <1>11. ReaderStays(s) BY <1>4, <1>7, <1>8, ReaderFrame DEF ReadPcs
  <1>12. /\ ~At(t, {"w_poll", "w_v"}, s) /\ ~At(t, {"w_poll", "w_v"}, s)'
         /\ ~At(t, {"w_blk", "w_put"}, s) /\ ~At(t, {"w_blk", "w_put"}, s)'
         /\ ~At(t, {"w_put"}, s) /\ ~At(t, {"w_put"}, s)'
         /\ ~At(t, {"w_poll"}, s) /\ ~At(t, {"w_poll"}, s)'
         /\ ~At(t, {"w_try", "w_blk", "w_put"}, s)'
         /\ ~At(t, {"w_wake_read"}, s)'
         /\ ~At(t, {"w_blk"}, s) /\ ~At(t, {"w_blk"}, s)'
    BY <1>s, <1>0, <1>4, <1>7 DEF At
  <1>13. CountsOf(s)'
    BY <1>0, <1>2, <1>3, <1>5, <1>11, <1>12 DEF CountsOf, One, ReaderStays
  <1>14. WaitsOf(s)'
    <2>1. At(c, {"r_blk"}, s) /\ ~At(c, {"r_wake"}, s) BY <1>6 DEF At
    <2>2. e_sem[s] # -1 BY <1>2, <1>5, <1>12 DEF WaitsOf
    <2>4. n_sem[s] # -1 BY <1>3, <1>6, SMTT(60), SMTT(120)
    <2>3. /\ ~At(c, {"r_wake"}, s)' /\ n_sem'[s] # -1 /\ e_sem'[s] # -1
          /\ ~At(t, {"w_wake_read"}, s)' /\ ~At(t, {"w_blk"}, s)'
      BY <1>c, <1>0, <1>11, <1>12, <2>1, <2>2, <2>4 DEF ReaderStays
    <2> QED BY <1>c, <1>5, <1>7, <2>3 DEF WaitsOf
  <1>15. LifeOf(s)' /\ LockOf(s)'
    BY <1>0, <1>2, <1>3, <1>5, <1>11, <1>12 DEF LifeOf, LockOf, ReaderStays
  <1>16. RingOf(s)' BY <1>0, <1>2 DEF RingOf, Slots, Offset
  <1>17. \A u, v \in Tasks : HoldsToken(u, v)' <=> HoldsToken(u, v)
    BY <1>0, <1>4, <1>7 DEF HoldsToken
  <1>18. \A u \in Tasks : TokensOf(u)'
    <2> TAKE u \in Tasks
    <2>1. TokensOf(u) BY StreamFacts, TaskFacts
    <2>2. CASE u = c
      BY <1>0, <1>6, <1>7, <1>17, <2>1, <2>2 DEF TokensOf
    <2>3. CASE u # c
      BY <1>0, <1>4, <1>7, <1>17, <2>1, <2>3 DEF TokensOf
    <2> QED BY <2>2, <2>3
  <1>19. \A u \in Tasks : ReadyOf(u)'
    <2> TAKE u \in Tasks
    <2>1. ReadyOf(u) BY TaskFacts
    <2> QED BY <1>0, <1>6, <1>7, <1>17, <2>1 DEF ReadyOf, InSet
  <1>20. \A u \in Tasks : ArmedOf(u)' BY <1>0, <1>4, <1>7, <1>8, ArmedFrame
  <1> QED
    BY <1>8, <1>9, <1>10, <1>13, <1>14, <1>15, <1>16, <1>18, <1>19, <1>20,
       StreamKeeps

(* The wakeup of a poller goes to a task that is bound to wait, and names  *)
(* a stream of its set that has an item.                                   *)
LEMMA WriteWakePollKeeps ==
  ASSUME IInv, NEW t \in Tasks, WriteWakePoll(t)
  PROVE  IInv'
  <1>s. PICK s \in Streams : s = sd[t] BY TaskTypes
  <1>c. PICK c \in Tasks : c = Consumer[s] BY StreamTypes
  <1>0. /\ UNCHANGED <<data, pread, pwrite, n_sem, e_sem, is_poll, prod_lock>>
        /\ UNCHANGED <<nw, nr, lifevars, alive, wOpen, rOpen, sd, trying>>
        /\ UNCHANGED <<poll_token, set, pos, cnt>>
    BY DEF WriteWakePoll, streamvars, bufvars, lifevars
  <1>1. /\ pc \in [Tasks -> PcValues] /\ wake \in [Tasks -> Nat]
        /\ wakeup_sd \in [Tasks -> Streams] /\ poll_wakeup \in [Tasks -> {0, 1}]
    BY TypeFact DEF TypeOK
  <1>2. /\ RolesOf(t) /\ TokensOf(t) /\ TokensOf(c) /\ ReadyOf(c)
        /\ CountsOf(s) /\ RingOf(s) /\ WaitsOf(s) /\ LockOf(s) /\ LifeOf(s)
    BY StepFacts, StreamFacts, TaskFacts
  <1>3. /\ nw[s] \in Nat /\ nr[s] \in Nat /\ n_sem[s] \in Int
        /\ e_sem[s] \in Int /\ Size[s] \in Nat
    BY StreamTypes
  <1>4. pc[t] = "w_wake_poll" BY DEF WriteWakePoll, Goto
  <1>5. t = Producer[s] /\ wOpen[s]
    BY <1>s, <1>2, <1>4 DEF RolesOf, WritePcs
  <1>6. HoldsToken(t, c)
    BY <1>s, <1>c, <1>2, <1>4 DEF TokensOf, HoldsToken
  <1>7. /\ pc[c] \in {"p_reg", "p_blk"} /\ c # t
        /\ poll_token[c] = 0 /\ wake[c] = 0
        /\ \A u \in Tasks : HoldsToken(u, c) => u = t
        /\ InSet(c, s) /\ nw[s] > nr[s]
    BY <1>s, <1>2, <1>4, <1>6 DEF TokensOf, ReadyOf
  <1>8. /\ pc'[t] = "user" /\ wake'[c] = 1 /\ wakeup_sd'[c] = s
        /\ poll_wakeup'[t] = 0
        /\ \A u \in Tasks : u # t => /\ pc'[u] = pc[u]
                                     /\ poll_wakeup'[u] = poll_wakeup[u]
        /\ \A u \in Tasks : u # c => /\ wake'[u] = wake[u]
                                     /\ wakeup_sd'[u] = wakeup_sd[u]
    BY <1>s, <1>c, <1>1, <1>7, SMTT(60), SMTT(120)
       DEF WriteWakePoll, Goto, LpelTaskUnblock
  <1>9. StreamMove(t, s)
    BY <1>s, <1>0, <1>4, <1>7, <1>8 DEF StreamMove, WritePcs
  <1>10. TypeOK'
    <2>1. pc' \in [Tasks -> PcValues] /\ poll_wakeup' \in [Tasks -> {0, 1}]
      BY <1>1 DEF WriteWakePoll, Goto, PcValues
    <2>2. wake' = [wake EXCEPT ![c] = wake[c] + 1]
      BY <1>s, <1>c DEF WriteWakePoll, LpelTaskUnblock
    <2>3. wake' \in [Tasks -> Nat] BY <1>1, <1>7, <2>2, SMTT(60), SMTT(120)
    <2>4. wakeup_sd' \in [Tasks -> Streams] BY <1>s, <1>1 DEF WriteWakePoll
    <2> QED BY <1>0, <2>1, <2>3, <2>4, TypeFact DEF TypeOK, Slots
  <1>11. RolesOf(t)' BY <1>8 DEF RolesOf, WritePcs, ReadPcs
  <1>12. ReaderStays(s) BY <1>4, <1>8, <1>9, ReaderFrame DEF ReadPcs
  <1>13. /\ ~At(t, {"w_poll", "w_v"}, s) /\ ~At(t, {"w_poll", "w_v"}, s)'
         /\ ~At(t, {"w_blk", "w_put"}, s) /\ ~At(t, {"w_blk", "w_put"}, s)'
         /\ ~At(t, {"w_put"}, s) /\ ~At(t, {"w_put"}, s)'
         /\ ~At(t, {"w_poll"}, s) /\ ~At(t, {"w_poll"}, s)'
         /\ ~At(t, {"w_try", "w_blk", "w_put"}, s)'
         /\ ~At(t, {"w_wake_read"}, s)'
         /\ ~At(t, {"w_blk"}, s) /\ ~At(t, {"w_blk"}, s)'
    BY <1>s, <1>0, <1>4, <1>8 DEF At
  <1>14. CountsOf(s)'
    BY <1>0, <1>2, <1>3, <1>5, <1>12, <1>13 DEF CountsOf, One, ReaderStays
  <1>15. WaitsOf(s)'
    <2>1. ~At(c, {"r_blk"}, s) /\ ~At(c, {"r_wake"}, s) BY <1>7 DEF At
    <2>2. e_sem[s] # -1 /\ n_sem[s] # -1
      BY <1>c, <1>2, <1>5, <1>13, <2>1 DEF WaitsOf
    <2>3. /\ ~At(c, {"r_wake"}, s)' /\ ~At(c, {"r_blk"}, s)'
          /\ n_sem'[s] # -1 /\ e_sem'[s] # -1
      BY <1>c, <1>0, <1>12, <2>1, <2>2 DEF ReaderStays
    <2> QED BY <1>c, <1>5, <1>13, <2>3 DEF WaitsOf
  <1>16. LifeOf(s)' /\ LockOf(s)'
    BY <1>0, <1>2, <1>3, <1>5, <1>12, <1>13 DEF LifeOf, LockOf, ReaderStays
  <1>17. RingOf(s)' BY <1>0, <1>2 DEF RingOf, Slots, Offset
  <1>18. \A u, v \in Tasks : HoldsToken(u, v)' <=> HoldsToken(u, v) /\ u # t
    BY <1>0, <1>4, <1>8 DEF HoldsToken
  <1>19. \A u \in Tasks : TokensOf(u)'
    <2> TAKE u \in Tasks
    <2>1. TokensOf(u) BY StreamFacts, TaskFacts
    <2>2. CASE u = c
      BY <1>0, <1>7, <1>8, <1>18, <2>1, <2>2 DEF TokensOf
    <2>3. CASE u # c
      <3>1. ~HoldsToken(t, u) BY <1>c, <1>s, <2>3 DEF HoldsToken
      <3>2. \A v \in Tasks : HoldsToken(v, u)' <=> HoldsToken(v, u)
        BY <1>18, <3>1
      <3> QED BY <1>0, <1>4, <1>8, <2>1, <2>3, <3>2 DEF TokensOf
    <2> QED BY <2>2, <2>3
  <1>20. \A u \in Tasks : ReadyOf(u)'
    <2> TAKE u \in Tasks
    <2>1. ReadyOf(u) BY StreamFacts, TaskFacts
    <2>2. CASE u = c
      BY <1>0, <1>7, <1>8, <1>18, <2>1, <2>2 DEF ReadyOf, InSet
    <2>3. CASE u # c
      BY <1>0, <1>4, <1>8, <1>18, <2>1, <2>3 DEF ReadyOf, InSet
    <2> QED BY <2>2, <2>3
  <1>21. \A u \in Tasks : ArmedOf(u)' BY <1>0, <1>4, <1>8, <1>9, ArmedFrame
  <1> QED
    BY <1>9, <1>10, <1>11, <1>14, <1>15, <1>16, <1>17, <1>19, <1>20, <1>21,
       StreamKeeps

----------------------------------------------------------------------------
(* LpelStreamRead: one lemma per action. *)

(* P(n_sem) counts the item before the reader knows whether it waits. *)
LEMMA ReadPKeeps ==
  ASSUME IInv, NEW t \in Tasks, NEW s \in Streams, ReadP(t, s)
  PROVE  IInv'
  <1>0. /\ UNCHANGED <<data, pread, pwrite, e_sem, is_poll, prod_lock, nw, nr>>
        /\ UNCHANGED <<lifevars, alive, wOpen, rOpen, trying, wake>>
        /\ UNCHANGED <<poll_token, wakeup_sd, poll_wakeup, set, pos, cnt>>
    BY DEF ReadP, bufvars, lifevars, pollvars
  <1>1. /\ pc \in [Tasks -> PcValues] /\ sd \in [Tasks -> Streams]
        /\ n_sem \in [Streams -> Int]
    BY TypeFact DEF TypeOK
  <1>2. /\ t = Consumer[s] /\ rOpen[s] /\ nr[s] < Last[s]
        /\ pc[t] = "user" /\ pc'[t] \in {"r_blk", "r_pop"}
        /\ pc'[t] = "r_blk" <=> n_sem[s] = 0
        /\ n_sem'[s] = n_sem[s] - 1 /\ sd'[t] = s
        /\ \A y \in Streams : y # s => n_sem'[y] = n_sem[y]
        /\ \A u \in Tasks : u # t => pc'[u] = pc[u] /\ sd'[u] = sd[u]
    BY <1>1 DEF ReadP, Goto
  <1>3. StreamMove(t, s) BY <1>0, <1>2 DEF StreamMove, ReadPcs
  <1>4. /\ RolesOf(t) /\ TokensOf(t) /\ wake[t] = 0
        /\ CountsOf(s) /\ RingOf(s) /\ WaitsOf(s) /\ LockOf(s) /\ LifeOf(s)
    BY <1>2, StepFacts DEF TokensOf
  <1>5. /\ nw[s] \in Nat /\ nr[s] \in Nat /\ n_sem[s] \in Int
        /\ n_sem[s] >= -1 /\ e_sem[s] \in Int /\ Size[s] \in Nat
        /\ Producer[s] \in Tasks
    BY StreamTypes
  <1>6. TypeOK'
    <2>1. pc' \in [Tasks -> PcValues] /\ sd' \in [Tasks -> Streams]
      BY <1>1 DEF ReadP, Goto, PcValues
    <2>2. n_sem' = [n_sem EXCEPT ![s] = n_sem[s] - 1] BY DEF ReadP
    <2>3. n_sem' \in [Streams -> Int] BY <1>1, <1>5, <2>2, SMTT(60), SMTT(120)
    <2> QED BY <1>0, <2>1, <2>3, TypeFact DEF TypeOK, Slots
  <1>7. RolesOf(t)' BY <1>0, <1>2 DEF RolesOf, WritePcs, ReadPcs
  <1>8. WriterStays(s) BY <1>2, <1>3, WriterFrame DEF WritePcs
  <1>9. /\ ~At(t, {"r_blk", "r_pop"}, s) /\ At(t, {"r_blk", "r_pop"}, s)'
        /\ ~At(t, {"r_blk"}, s)
        /\ At(t, {"r_blk"}, s)' <=> n_sem[s] = 0
        /\ ~At(t, {"r_pop"}, s)
        /\ At(t, {"r_pop"}, s)' => n_sem[s] # 0
        /\ ~At(t, {"r_v"}, s) /\ ~At(t, {"r_v"}, s)'
        /\ ~At(t, {"r_wake"}, s) /\ ~At(t, {"r_wake"}, s)'
    BY <1>2 DEF At
  <1>10. n_sem[s] >= 0
    <2>1. n_sem[s] # -1 BY <1>2, <1>4, <1>9 DEF WaitsOf
    <2> QED BY <1>5, <2>1, SMTT(60), SMTT(120)
  <1>11. CountsOf(s)'
    <2>1. PICK k \in {0, 1} : k = One(At(Producer[s], {"w_poll", "w_v"}, s))
      BY DEF One
    <2>2. n_sem[s] = nw[s] - nr[s] - k - 0
      BY <1>2, <1>4, <1>9, <2>1 DEF CountsOf, One
    <2>3. /\ n_sem'[s] = nw[s] - nr[s] - k - 1 /\ n_sem'[s] >= -1
          /\ n_sem[s] # 0 => n_sem'[s] >= 0
      BY <1>2, <1>5, <1>10, <2>2, SMTT(60), SMTT(120)
    <2> QED
      BY <1>0, <1>2, <1>4, <1>8, <1>9, <2>1, <2>3 DEF CountsOf, One,
         WriterStays
  <1>12. WaitsOf(s)'
    <2>1. ~At(Producer[s], {"w_wake_read"}, s) BY <1>2, <1>4, <1>9 DEF WaitsOf
    <2>2. n_sem'[s] = -1 <=> n_sem[s] = 0 BY <1>2, <1>5, SMTT(60), SMTT(120)
    <2> QED
      BY <1>0, <1>2, <1>4, <1>8, <1>9, <2>1, <2>2 DEF WaitsOf, WriterStays
  <1>13. LifeOf(s)' /\ LockOf(s)'
    BY <1>0, <1>2, <1>4, <1>5, <1>8, <1>9 DEF LifeOf, LockOf, WriterStays
  <1>14. RingOf(s)' BY <1>0, <1>4 DEF RingOf, Slots, Offset
  <1>15. /\ \A u \in Tasks : TokensOf(u)'
         /\ \A u \in Tasks : ReadyOf(u)'
    <2>1. wake'[t] = 0 /\ \A u \in Tasks : u # t => wake'[u] = wake[u]
      BY <1>0, <1>4
    <2> QED BY <1>0, <1>2, <1>3, <2>1, TokenFrame, SMTT(60), SMTT(120)
  <1>16. \A u \in Tasks : ArmedOf(u)' BY <1>0, <1>2, <1>3, ArmedFrame
  <1> QED
    BY <1>3, <1>6, <1>7, <1>11, <1>12, <1>13, <1>14, <1>15, <1>16, StreamKeeps

(* The wakeup of a waiting reader is delivered. *)
LEMMA ReadResumeKeeps ==
  ASSUME IInv, NEW t \in Tasks, ReadResume(t)
  PROVE  IInv'
  <1>s. PICK s \in Streams : s = sd[t] BY TaskTypes
  <1>0. /\ UNCHANGED <<data, pread, pwrite, n_sem, e_sem, is_poll, prod_lock>>
        /\ UNCHANGED <<nw, nr, lifevars, alive, wOpen, rOpen, sd, trying>>
        /\ UNCHANGED <<poll_token, wakeup_sd, poll_wakeup, set, pos, cnt>>
    BY DEF ReadResume, streamvars, bufvars, lifevars, pollvars
  <1>1. /\ pc \in [Tasks -> PcValues] /\ wake \in [Tasks -> Nat]
    BY TypeFact DEF TypeOK
  <1>2. /\ RolesOf(t) /\ TokensOf(t) /\ wake[t] \in {0, 1}
        /\ CountsOf(s) /\ RingOf(s) /\ WaitsOf(s) /\ LockOf(s) /\ LifeOf(s)
    BY StepFacts
  <1>3. /\ pc[t] = "r_blk" /\ pc'[t] = "r_pop"
        /\ wake[t] = 1 /\ wake'[t] = 0
        /\ \A u \in Tasks : u # t => pc'[u] = pc[u] /\ wake'[u] = wake[u]
    BY <1>1, <1>2, SMTT(60), SMTT(120) DEF ReadResume, Goto, Resume
  <1>4. StreamMove(t, s)
    BY <1>s, <1>0, <1>2, <1>3 DEF StreamMove, ReadPcs
  <1>5. TypeOK'
    <2>1. pc' \in [Tasks -> PcValues] BY <1>1 DEF ReadResume, Goto, PcValues
    <2>2. wake' = [wake EXCEPT ![t] = wake[t] - 1] BY DEF ReadResume, Resume
    <2>3. wake' \in [Tasks -> Nat] BY <1>1, <1>3, <2>2, SMTT(60), SMTT(120)
    <2> QED BY <1>0, <2>1, <2>3, TypeFact DEF TypeOK, Slots
  <1>6. /\ nw[s] \in Nat /\ nr[s] \in Nat /\ n_sem[s] \in Int
        /\ n_sem[s] >= -1 /\ e_sem[s] \in Int /\ Size[s] \in Nat
        /\ Producer[s] \in Tasks
    BY StreamTypes
  <1>7. t = Consumer[s] /\ rOpen[s]
    BY <1>s, <1>2, <1>3 DEF RolesOf, ReadPcs
  <1>8. RolesOf(t)' BY <1>s, <1>0, <1>3, <1>7 DEF RolesOf, WritePcs, ReadPcs
  <1>9. WriterStays(s) BY <1>3, <1>4, WriterFrame DEF WritePcs
  <1>10. /\ n_sem[s] # -1 /\ n_sem[s] >= 0
         /\ ~At(Producer[s], {"w_wake_read"}, s)
         /\ At(Producer[s], {"w_blk"}, s) =>
              wake'[Producer[s]] = wake[Producer[s]]
    <2>1. At(Producer[s], {"w_blk"}, s) => Producer[s] # t BY <1>3 DEF At
    <2>2. n_sem[s] # -1 /\ ~At(Producer[s], {"w_wake_read"}, s)
      BY <1>2, <1>3, <1>7, SMTT(60), SMTT(120) DEF WaitsOf
    <2> QED BY <1>3, <1>6, <2>1, <2>2, SMTT(60), SMTT(120)
  <1>11. /\ At(t, {"r_blk", "r_pop"}, s) /\ At(t, {"r_blk", "r_pop"}, s)'
         /\ ~At(t, {"r_blk"}, s)' /\ At(t, {"r_pop"}, s)'
         /\ ~At(t, {"r_v"}, s) /\ ~At(t, {"r_v"}, s)'
         /\ ~At(t, {"r_wake"}, s) /\ ~At(t, {"r_wake"}, s)'
    BY <1>s, <1>0, <1>3 DEF At
  <1>12. CountsOf(s)'
    BY <1>0, <1>2, <1>6, <1>7, <1>9, <1>10, <1>11 DEF CountsOf, One,
       WriterStays
  <1>13. WaitsOf(s)'
    BY <1>0, <1>2, <1>6, <1>7, <1>9, <1>10, <1>11 DEF WaitsOf, WriterStays
  <1>14. LifeOf(s)' /\ LockOf(s)'
    BY <1>0, <1>2, <1>6, <1>7, <1>9, <1>11 DEF LifeOf, LockOf, WriterStays
  <1>15. RingOf(s)' BY <1>0, <1>2 DEF RingOf, Slots, Offset
  <1>16. /\ \A u \in Tasks : TokensOf(u)'
         /\ \A u \in Tasks : ReadyOf(u)'
    <2>1. /\ wake'[t] = 0 /\ \A u \in Tasks : u # t => wake'[u] = wake[u]
          /\ pc[t] \notin {"w_v", "w_wake_poll"}
          /\ pc'[t] \notin {"w_v", "w_wake_poll"}
      BY <1>3
    <2>2. wake'[t] \in {0, 1} /\ wake'[t] # 1 BY <2>1, SMTT(60), SMTT(120)
    <2> QED BY <1>0, <1>4, <2>1, <2>2, TokenFrame
  <1>17. \A u \in Tasks : ArmedOf(u)' BY <1>0, <1>3, <1>4, ArmedFrame
  <1> QED
    BY <1>4, <1>5, <1>8, <1>12, <1>13, <1>14, <1>15, <1>16, <1>17, StreamKeeps

(* Popping the oldest item, which is there. *)
LEMMA ReadPopKeeps ==
  ASSUME IInv, NEW t \in Tasks, ReadPop(t)
  PROVE  IInv'
  <1>s. PICK s \in Streams : s = sd[t] BY TaskTypes
  <1>0. /\ UNCHANGED <<pwrite, n_sem, e_sem, is_poll, prod_lock, nw>>
        /\ UNCHANGED <<lifevars, alive, wOpen, rOpen, sd, trying, wake>>
        /\ UNCHANGED <<poll_token, wakeup_sd, poll_wakeup, set, pos, cnt>>
    BY DEF ReadPop, LpelBufferPop, lifevars, pollvars
  <1>1. /\ pc \in [Tasks -> PcValues]
        /\ nr \in [Streams -> Nat] /\ pread \in [Streams -> Nat]
        /\ DOMAIN data = Streams /\ data[s] \in [Slots(s) -> Nat]
        /\ pread[s] \in Slots(s) /\ pwrite[s] \in Slots(s)
    BY TypeFact DEF TypeOK
  <1>2. /\ RolesOf(t) /\ TokensOf(t) /\ wake[t] = 0
        /\ CountsOf(s) /\ RingOf(s) /\ WaitsOf(s) /\ LockOf(s) /\ LifeOf(s)
    BY StepFacts DEF TokensOf, ReadPop, Goto
  <1>3. /\ pc[t] = "r_pop" /\ pc'[t] = "r_v"
        /\ nr'[s] = nr[s] + 1 /\ pread'[s] = Advance(s, pread[s])
        /\ data'[s] = [data[s] EXCEPT ![pread[s]] = NULL]
        /\ \A u \in Tasks : u # t => pc'[u] = pc[u]
        /\ \A y \in Streams : y # s =>
             data'[y] = data[y] /\ pread'[y] = pread[y] /\ nr'[y] = nr[y]
    BY <1>s, <1>1 DEF ReadPop, Goto, LpelBufferPop
  <1>5. /\ nw[s] \in Nat /\ nr[s] \in Nat /\ n_sem[s] \in Int
        /\ e_sem[s] \in Int /\ Size[s] \in Nat /\ Size[s] > 0
        /\ Last[s] \in Nat /\ Producer[s] \in Tasks
    BY StreamTypes
  <1>6. t = Consumer[s] /\ rOpen[s]
    BY <1>s, <1>2, <1>3 DEF RolesOf, ReadPcs
  <1>7. StreamMove(t, s)
    BY <1>s, <1>0, <1>3, <1>6 DEF StreamMove, ReadPcs
  <1>8. RolesOf(t)' BY <1>s, <1>0, <1>3, <1>6 DEF RolesOf, WritePcs, ReadPcs
  <1>9. WriterStays(s) BY <1>3, <1>7, WriterFrame DEF WritePcs
  <1>10. /\ At(t, {"r_blk", "r_pop"}, s) /\ ~At(t, {"r_blk", "r_pop"}, s)'
         /\ ~At(t, {"r_blk"}, s) /\ ~At(t, {"r_blk"}, s)'
         /\ At(t, {"r_pop"}, s) /\ ~At(t, {"r_pop"}, s)'
         /\ ~At(t, {"r_v"}, s) /\ At(t, {"r_v"}, s)'
         /\ ~At(t, {"r_wake"}, s) /\ ~At(t, {"r_wake"}, s)'
    BY <1>s, <1>0, <1>3 DEF At
  <1>k. PICK j \in {0, 1}, m \in {0, 1} :
          /\ j = One(At(Producer[s], {"w_poll", "w_v"}, s))
          /\ m = One(At(Producer[s], {"w_blk", "w_put"}, s))
    BY DEF One
  <1>e. /\ n_sem[s] = nw[s] - nr[s] - j - 1
        /\ e_sem[s] = Size[s] - (nw[s] - nr[s]) - m - 0
        /\ nw[s] <= nr[s] + Size[s] /\ n_sem[s] >= 0
    BY <1>2, <1>6, <1>10, <1>k DEF CountsOf, One
  <1>11. nr[s] < nw[s] /\ nw[s] <= nr[s] + Size[s]
    BY <1>5, <1>e, SMTT(60), SMTT(120)
  <1>12. CountsOf(s)'
    <2>1. /\ n_sem[s] = nw[s] - nr'[s] - j - 0
          /\ e_sem[s] = Size[s] - (nw[s] - nr'[s]) - m - 1
          /\ nr'[s] <= nw[s] /\ nw[s] <= nr'[s] + Size[s]
      BY <1>3, <1>5, <1>e, <1>11, SMTT(60), SMTT(120)
    <2> QED
      BY <1>0, <1>2, <1>6, <1>9, <1>10, <1>k, <2>1 DEF CountsOf, One,
         WriterStays
  <1>13. WaitsOf(s)'
    BY <1>0, <1>2, <1>5, <1>6, <1>9, <1>10 DEF WaitsOf, WriterStays
  <1>14. LifeOf(s)' /\ LockOf(s)'
    BY <1>0, <1>2, <1>3, <1>5, <1>6, <1>9, <1>10 DEF LifeOf, LockOf,
       WriterStays
  <1>15. pread[s] \in 0 .. Size[s] - 1 /\ pwrite[s] \in 0 .. Size[s] - 1
    BY <1>1 DEF Slots
  <1>16. Advance(s, pread[s]) \in 0 .. Size[s] - 1
    BY <1>5, <1>15, SMTT(60), SMTT(120) DEF Advance
  <1>17. RingOf(s)'
    <2> DEFINE k == nw[s] - nr[s]
               off(i) == IF i >= pread'[s] THEN i - pread'[s]
                                           ELSE i - pread'[s] + Size[s]
    <2>1. k \in Nat /\ k > 0 /\ k <= Size[s] BY <1>5, <1>11, SMTT(60), SMTT(120)
    <2>2. pwrite[s] = IF pread'[s] + (k - 1) < Size[s] THEN pread'[s] + (k - 1)
                      ELSE pread'[s] + (k - 1) - Size[s]
      BY <1>2, <1>3, <1>5, <1>15, <2>1, SMTT(60), SMTT(120) DEF RingOf, Advance
    <2>3. ASSUME NEW i \in Slots(s)
          PROVE  data'[s][i] = IF off(i) < k - 1 THEN nr'[s] + 1 + off(i)
                                                 ELSE NULL
      <3>0. /\ i \in 0 .. Size[s] - 1
            /\ data[s][i] = IF Offset(s, i) < k THEN nr[s] + 1 + Offset(s, i)
                                                ELSE NULL
        BY <1>2, <2>3 DEF RingOf, Slots
      <3>1. /\ i = pread[s] => off(i) = Size[s] - 1
            /\ i # pread[s] => off(i) = Offset(s, i) - 1
        <4>1. pread'[s] = Advance(s, pread[s]) BY <1>3
        <4>2. /\ Size[s] \in Nat /\ pread[s] \in 0 .. Size[s] - 1
              /\ pread'[s] = IF pread[s] + 1 >= Size[s] THEN pread[s] + 1 - Size[s]
                                                       ELSE pread[s] + 1
          BY <1>5, <1>15, <4>1 DEF Advance
        <4>3. off(i) = IF i = pread[s] THEN Size[s] - 1
                       ELSE (IF i >= pread[s] THEN i - pread[s]
                                              ELSE i - pread[s] + Size[s]) - 1
          BY SMTT(60), SMTT(120), <3>0, <4>2, RingStep
        <4> QED BY <4>3 DEF Offset
      <3>2. data'[s][i] = IF i = pread[s] THEN NULL ELSE data[s][i]
        BY <1>1, <1>3, <2>3
      <3>3. Offset(s, i) \in Int
        BY <1>5, <1>15, <3>0, SMTT(60), SMTT(120) DEF Offset
      <3> HIDE DEF off
      <3>4. nr'[s] = nr[s] + 1 BY <1>3
      <3> QED BY <1>5, <2>1, <3>0, <3>1, <3>2, <3>3, <3>4, SMTT(60), SMTT(120)
    <2>4. nw[s] - nr'[s] = k - 1
      <3>1. nr'[s] = nr[s] + 1 BY <1>3
      <3> QED BY <1>5, <3>1, SMTT(60), SMTT(120)
    <2> HIDE DEF k
    <2> QED BY <1>0, <2>2, <2>3, <2>4 DEF RingOf, Slots, Offset
  <1>18. TypeOK'
    <2>1. pc' \in [Tasks -> PcValues] BY <1>1 DEF ReadPop, Goto, PcValues
    <2>2. nr' = [nr EXCEPT ![s] = nr[s] + 1] BY <1>s DEF ReadPop
    <2>3. nr' \in [Streams -> Nat] BY <1>1, <1>5, <2>2, SMTT(60), SMTT(120)
    <2>4. pread' \in [Streams -> Nat]
      BY <1>s, <1>1, <1>5, <1>16, SMTT(60), SMTT(120) DEF ReadPop, LpelBufferPop
    <2>5. data'[s] \in [Slots(s) -> Nat]
      BY <1>1, <1>3, SMTT(60), SMTT(120) DEF NULL
    <2>6. \A y \in Streams : /\ data'[y] \in [Slots(y) -> Nat]
                             /\ pread'[y] \in Slots(y) /\ pwrite'[y] \in Slots(y)
      <3> TAKE y \in Streams
      <3>1. /\ data[y] \in [Slots(y) -> Nat]
            /\ pread[y] \in Slots(y) /\ pwrite[y] \in Slots(y)
        BY TypeFact DEF TypeOK
      <3>2. CASE y = s BY <1>0, <1>1, <1>3, <1>16, <2>5, <3>2 DEF Slots
      <3>3. CASE y # s BY <1>0, <1>3, <3>1, <3>3
      <3> QED BY <3>2, <3>3
    <2>7. DOMAIN data' = Streams BY <1>1 DEF ReadPop, LpelBufferPop
    <2> QED BY <1>0, <2>1, <2>3, <2>4, <2>6, <2>7, TypeFact DEF TypeOK, Slots
  <1>19. /\ \A u \in Tasks : TokensOf(u)'
         /\ \A u \in Tasks : ReadyOf(u)'
    <2>1. wake'[t] = 0 /\ \A u \in Tasks : u # t => wake'[u] = wake[u]
      BY <1>0, <1>2
    <2>2. wake'[t] \in {0, 1} /\ wake'[t] # 1 BY <2>1, SMTT(60), SMTT(120)
    <2> QED BY <1>0, <1>3, <1>7, <2>1, <2>2, TokenFrame
  <1>20. \A u \in Tasks : ArmedOf(u)' BY <1>0, <1>3, <1>7, ArmedFrame
  <1> QED
    BY <1>7, <1>8, <1>12, <1>13, <1>14, <1>17, <1>18, <1>19, <1>20,
       StreamKeeps

(* V(e_sem): a reader that finds e_sem at -1 finds its producer waiting. *)
LEMMA ReadVKeeps ==
  ASSUME IInv, NEW t \in Tasks, ReadV(t)
  PROVE  IInv'
  <1>s. PICK s \in Streams : s = sd[t] BY TaskTypes
  <1>0. /\ UNCHANGED <<data, pread, pwrite, n_sem, is_poll, prod_lock, nw, nr>>
        /\ UNCHANGED <<lifevars, alive, wOpen, rOpen, sd, trying, wake>>
        /\ UNCHANGED <<poll_token, wakeup_sd, poll_wakeup, set, pos, cnt>>
    BY DEF ReadV, bufvars, lifevars, pollvars
  <1>1. pc \in [Tasks -> PcValues] /\ e_sem \in [Streams -> Int]
    BY TypeFact DEF TypeOK
  <1>2. /\ RolesOf(t) /\ TokensOf(t) /\ wake[t] = 0
        /\ CountsOf(s) /\ RingOf(s) /\ WaitsOf(s) /\ LockOf(s) /\ LifeOf(s)
    BY StepFacts DEF TokensOf, ReadV, Goto
  <1>3. /\ nw[s] \in Nat /\ nr[s] \in Nat /\ n_sem[s] \in Int
        /\ e_sem[s] \in Int /\ e_sem[s] >= -1 /\ Size[s] \in Nat
        /\ Producer[s] \in Tasks
    BY StreamTypes
  <1>4. /\ pc[t] = "r_v" /\ pc'[t] \in {"r_wake", "user"}
        /\ pc'[t] = "r_wake" <=> e_sem[s] = -1
        /\ e_sem'[s] = e_sem[s] + 1
        /\ \A y \in Streams : y # s => e_sem'[y] = e_sem[y]
        /\ \A u \in Tasks : u # t => pc'[u] = pc[u]
    BY <1>s, <1>1, <1>3, SMTT(60), SMTT(120) DEF ReadV, Goto
  <1>5. StreamMove(t, s)
    BY <1>s, <1>0, <1>4 DEF StreamMove, ReadPcs
  <1>6. TypeOK'
    <2>1. pc' \in [Tasks -> PcValues] BY <1>1 DEF ReadV, Goto, PcValues
    <2>2. e_sem' = [e_sem EXCEPT ![s] = e_sem[s] + 1] BY <1>s DEF ReadV
    <2>3. e_sem' \in [Streams -> Int] BY <1>1, <1>3, <2>2, SMTT(60), SMTT(120)
    <2> QED BY <1>0, <2>1, <2>3, TypeFact DEF TypeOK, Slots
  <1>7. t = Consumer[s] /\ rOpen[s]
    BY <1>s, <1>2, <1>4 DEF RolesOf, ReadPcs
  <1>8. RolesOf(t)' BY <1>s, <1>0, <1>4, <1>7 DEF RolesOf, WritePcs, ReadPcs
  <1>9. WriterStays(s) BY <1>4, <1>5, WriterFrame DEF WritePcs
  <1>10. /\ ~At(t, {"r_blk", "r_pop"}, s) /\ ~At(t, {"r_blk", "r_pop"}, s)'
         /\ ~At(t, {"r_blk"}, s) /\ ~At(t, {"r_blk"}, s)'
         /\ ~At(t, {"r_pop"}, s) /\ ~At(t, {"r_pop"}, s)'
         /\ At(t, {"r_v"}, s) /\ ~At(t, {"r_v"}, s)'
         /\ ~At(t, {"r_wake"}, s)
         /\ At(t, {"r_wake"}, s)' <=> e_sem[s] = -1
    BY <1>s, <1>0, <1>4 DEF At
  <1>11. CountsOf(s)'
    <2>1. PICK m \in {0, 1} : m = One(At(Producer[s], {"w_blk", "w_put"}, s))
      BY DEF One
    <2>2. e_sem[s] = Size[s] - (nw[s] - nr[s]) - m - 1
      BY <1>2, <1>7, <1>10, <2>1 DEF CountsOf, One
    <2>3. /\ e_sem'[s] = Size[s] - (nw[s] - nr[s]) - m - 0
          /\ e_sem'[s] >= -1
          /\ e_sem[s] >= 0 => e_sem'[s] >= 0
      BY <1>3, <1>4, <2>2, SMTT(60), SMTT(120)
    <2> QED
      BY <1>0, <1>2, <1>7, <1>9, <1>10, <2>1, <2>3 DEF CountsOf, One,
         WriterStays
  <1>12. WaitsOf(s)'
    <2>1. e_sem'[s] # -1 /\ e_sem'[s] >= 0 BY <1>3, <1>4, SMTT(60), SMTT(120)
    <2> QED
      BY <1>0, <1>2, <1>7, <1>9, <1>10, <2>1 DEF WaitsOf, WriterStays
  <1>13. LifeOf(s)' /\ LockOf(s)'
    BY <1>0, <1>2, <1>3, <1>7, <1>9, <1>10 DEF LifeOf, LockOf, WriterStays
  <1>14. RingOf(s)' BY <1>0, <1>2 DEF RingOf, Slots, Offset
  <1>15. /\ \A u \in Tasks : TokensOf(u)'
         /\ \A u \in Tasks : ReadyOf(u)'
    <2>1. wake'[t] = 0 /\ \A u \in Tasks : u # t => wake'[u] = wake[u]
      BY <1>0, <1>2
    <2> QED BY <1>0, <1>4, <1>5, <2>1, TokenFrame, SMTT(60), SMTT(120)
  <1>16. \A u \in Tasks : ArmedOf(u)' BY <1>0, <1>4, <1>5, ArmedFrame
  <1> QED
    BY <1>5, <1>6, <1>8, <1>11, <1>12, <1>13, <1>14, <1>15, <1>16, StreamKeeps

(* The wakeup of a writer goes to a task that waits and has none yet. *)
LEMMA ReadWakeKeeps ==
  ASSUME IInv, NEW t \in Tasks, ReadWake(t)
  PROVE  IInv'
  <1>s. PICK s \in Streams : s = sd[t] BY TaskTypes
  <1>p. PICK p \in Tasks : p = Producer[s] BY StreamTypes
  <1>0. /\ UNCHANGED <<data, pread, pwrite, n_sem, e_sem, is_poll, prod_lock>>
        /\ UNCHANGED <<nw, nr, lifevars, alive, wOpen, rOpen, sd, trying>>
        /\ UNCHANGED <<poll_token, wakeup_sd, poll_wakeup, set, pos, cnt>>
    BY DEF ReadWake, streamvars, bufvars, lifevars, pollvars
  <1>1. /\ pc \in [Tasks -> PcValues] /\ wake \in [Tasks -> Nat]
    BY TypeFact DEF TypeOK
  <1>2. /\ RolesOf(t) /\ TokensOf(t)
        /\ CountsOf(s) /\ RingOf(s) /\ WaitsOf(s) /\ LockOf(s) /\ LifeOf(s)
    BY StepFacts
  <1>3. /\ nw[s] \in Nat /\ nr[s] \in Nat /\ n_sem[s] \in Int
        /\ e_sem[s] \in Int /\ e_sem[s] >= -1 /\ Size[s] \in Nat
    BY StreamTypes
  <1>4. pc[t] = "r_wake" BY DEF ReadWake, Goto
  <1>5. t = Consumer[s] /\ rOpen[s]
    BY <1>s, <1>2, <1>4 DEF RolesOf, ReadPcs
  <1>6. pc[p] = "w_blk" /\ sd[p] = s /\ wake[p] = 0 /\ e_sem[s] >= 0 /\ p # t
    BY <1>s, <1>p, <1>2, <1>4, <1>5 DEF WaitsOf, At
  <1>7. /\ pc'[t] = "user" /\ wake'[p] = 1
        /\ \A u \in Tasks : u # t => pc'[u] = pc[u]
        /\ \A u \in Tasks : u # p => wake'[u] = wake[u]
    BY <1>s, <1>p, <1>1, <1>6, SMTT(60), SMTT(120)
       DEF ReadWake, Goto, LpelTaskUnblock
  <1>8. StreamMove(t, s)
    BY <1>s, <1>0, <1>4, <1>6, <1>7 DEF StreamMove, ReadPcs
  <1>9. TypeOK'
    <2>1. pc' \in [Tasks -> PcValues]
      BY <1>1 DEF ReadWake, Goto, PcValues
    <2>2. wake' = [wake EXCEPT ![p] = wake[p] + 1]
      BY <1>s, <1>p DEF ReadWake, LpelTaskUnblock
    <2>3. wake' \in [Tasks -> Nat] BY <1>1, <1>6, <2>2, SMTT(60), SMTT(120)
    <2> QED BY <1>0, <2>1, <2>3, TypeFact DEF TypeOK, Slots
  <1>10. RolesOf(t)' BY <1>7 DEF RolesOf, WritePcs, ReadPcs
  <1>11. WriterStays(s) BY <1>4, <1>7, <1>8, WriterFrame DEF WritePcs
  <1>12. /\ ~At(t, {"r_blk", "r_pop"}, s) /\ ~At(t, {"r_blk", "r_pop"}, s)'
         /\ ~At(t, {"r_blk"}, s) /\ ~At(t, {"r_blk"}, s)'
         /\ ~At(t, {"r_pop"}, s) /\ ~At(t, {"r_pop"}, s)'
         /\ ~At(t, {"r_v"}, s) /\ ~At(t, {"r_v"}, s)'
         /\ ~At(t, {"r_wake"}, s)'
    BY <1>s, <1>0, <1>4, <1>7 DEF At
  <1>13. CountsOf(s)'
    BY <1>0, <1>2, <1>3, <1>5, <1>11, <1>12 DEF CountsOf, One, WriterStays
  <1>14. WaitsOf(s)'
    <2>1. At(p, {"w_blk"}, s) /\ ~At(p, {"w_wake_read"}, s) BY <1>6 DEF At
    <2>2. n_sem[s] # -1 BY <1>2, <1>5, <1>12 DEF WaitsOf
    <2>3. e_sem[s] # -1 BY <1>3, <1>6, SMTT(60), SMTT(120)
    <2>4. n_sem'[s] # -1 /\ e_sem'[s] # -1 BY <1>0, <2>2, <2>3
    <2>5. ~At(p, {"w_wake_read"}, s)' BY <1>p, <1>11, <2>1 DEF WriterStays
    <2> QED BY <1>p, <1>5, <1>7, <1>12, <2>4, <2>5 DEF WaitsOf
  <1>15. LifeOf(s)' /\ LockOf(s)'
    BY <1>0, <1>2, <1>3, <1>5, <1>11, <1>12 DEF LifeOf, LockOf, WriterStays
  <1>16. RingOf(s)' BY <1>0, <1>2 DEF RingOf, Slots, Offset
  <1>17. \A u, v \in Tasks : HoldsToken(u, v)' <=> HoldsToken(u, v)
    BY <1>0, <1>4, <1>7 DEF HoldsToken
  <1>18. \A u \in Tasks : TokensOf(u)'
    <2> TAKE u \in Tasks
    <2>1. TokensOf(u) BY StreamFacts, TaskFacts
    <2>2. CASE u = p
      BY <1>0, <1>6, <1>7, <1>17, <2>1, <2>2 DEF TokensOf
    <2>3. CASE u # p
      BY <1>0, <1>4, <1>7, <1>17, <2>1, <2>3 DEF TokensOf
    <2> QED BY <2>2, <2>3
  <1>19. \A u \in Tasks : ReadyOf(u)'
    <2> TAKE u \in Tasks
    <2>1. ReadyOf(u) BY TaskFacts
    <2>2. /\ \A v \in Tasks : HoldsToken(v, u)' =>
               InSet(u, sd[v]) /\ nw[sd[v]] > nr[sd[v]]
      BY <1>17, <2>1 DEF ReadyOf
    <2>3. (wake'[u] = 1 /\ pc'[u] \in {"p_reg", "p_blk"}) \/ pc'[u] = "p_unreg"
            => (wake[u] = 1 /\ pc[u] \in {"p_reg", "p_blk"}) \/ pc[u] = "p_unreg"
      BY <1>6, <1>7
    <2> QED BY <1>0, <2>1, <2>2, <2>3 DEF ReadyOf, InSet
  <1>20. \A u \in Tasks : ArmedOf(u)' BY <1>0, <1>4, <1>7, <1>8, ArmedFrame
  <1> QED
    BY <1>8, <1>9, <1>10, <1>13, <1>14, <1>15, <1>16, <1>18, <1>19, <1>20,
       StreamKeeps


----------------------------------------------------------------------------
(* Opening, closing and replacing. *)

(* A step of t that only allocates or frees descriptors and streams. *)
LifeMove(t) ==
  /\ pc[t] = "user"
  /\ UNCHANGED <<streamvars, ctlvars, poll_token, wakeup_sd, poll_wakeup,
                 pos, cnt>>
  /\ \A u \in Tasks : u # t => set'[u] = set[u]
  /\ \A y \in Streams : Consumer[y] # t => rOpen'[y] = rOpen[y]

(* Such a step cannot disturb what counters, buffers and tokens stand for: *)
(* its task has no operation in progress.                                  *)
LEMMA LifeKeeps ==
  ASSUME IInv, NEW t \in Tasks, LifeMove(t), TypeOK',
         \A u \in Tasks : RolesOf(u)', \A y \in Streams : LifeOf(y)',
         SetOf(t)', \A y \in Streams : Consumer[y] = t => ReadIsInSet(y)'
  PROVE  IInv'
  <1>0. /\ UNCHANGED <<data, pread, pwrite, n_sem, e_sem, is_poll, prod_lock>>
        /\ UNCHANGED <<nw, nr, pc, sd, wake, poll_token, wakeup_sd>>
        /\ UNCHANGED <<poll_wakeup, pos, cnt>>
    BY DEF LifeMove, streamvars, bufvars, ctlvars
  <1>1. /\ pc[t] = "user" /\ \A u \in Tasks : u # t => set'[u] = set[u]
        /\ \A y \in Streams : Consumer[y] # t => rOpen'[y] = rOpen[y]
    BY DEF LifeMove
  <1>2. \A y \in Streams : CountsOf(y)'
    BY <1>0, StreamFacts, CountsSame
  <1>3. \A y \in Streams : RingOf(y)'
    BY <1>0, StreamFacts DEF RingOf, Offset, Slots
  <1>4. \A y \in Streams : WaitsOf(y)'
    BY <1>0, StreamFacts, ZenonT(60) DEF WaitsOf, At
  <1>5. \A u, v \in Tasks : HoldsToken(u, v)' <=> HoldsToken(u, v)
    BY <1>0 DEF HoldsToken
  <1>6. \A u \in Tasks : TokensOf(u)' BY <1>0, <1>5, TaskFacts DEF TokensOf
  <1>7. \A y \in Streams : LockOf(y)' BY <1>0, StreamFacts DEF LockOf, At
  <1>8. \A u \in Tasks : SetOf(u)'
    <2> SUFFICES ASSUME NEW u \in Tasks, u # t PROVE SetOf(u)' OBVIOUS
    <2>1. SetOf(u) /\ set[u] \in Seq(Streams)
      BY TaskTypes, StreamFacts, TaskFacts
    <2>2. set'[u] = set[u] BY <1>1
    <2>3. \A j \in DOMAIN set[u] : rOpen'[set[u][j]]
      <3> SUFFICES ASSUME NEW j \in DOMAIN set[u] PROVE rOpen'[set[u][j]]
        OBVIOUS
      <3>1. PICK y \in Streams : y = set[u][j] BY SMTT(60), SMTT(120), <2>1
      <3>2. Consumer[y] = u /\ rOpen[y] BY <2>1, <3>1 DEF SetOf
      <3> QED BY <1>1, <3>1, <3>2
    <2> QED BY <1>0, <2>1, <2>2, <2>3, ZenonT(60) DEF SetOf
  <1>9. \A y \in Streams : ReadIsInSet(y)'
    <2> SUFFICES ASSUME NEW y \in Streams, Consumer[y] # t
                 PROVE  ReadIsInSet(y)'
      OBVIOUS
    <2>1. ReadIsInSet(y) /\ Consumer[y] \in Tasks
      BY StreamTypes, StreamFacts, TaskFacts
    <2>2. rOpen'[y] = rOpen[y] /\ set'[Consumer[y]] = set[Consumer[y]]
      BY <1>1, <2>1
    <2> QED BY <2>1, <2>2 DEF ReadIsInSet, InSet
  <1>10. \A y \in Streams : RegisteredOf(y)'
    <2> TAKE y \in Streams
    <2>1. RegisteredOf(y) /\ Consumer[y] \in Tasks
      BY StreamTypes, StreamFacts, TaskFacts
    <2>2. CASE Consumer[y] = t
      BY <1>0, <1>1, <2>1, <2>2 DEF RegisteredOf, Registered
    <2>3. CASE Consumer[y] # t
      <3>1. set'[Consumer[y]] = set[Consumer[y]] BY <1>1, <2>1, <2>3
      <3> QED BY <1>0, <2>1, <3>1 DEF RegisteredOf, Registered
    <2> QED BY <2>2, <2>3
  <1>11. TokensOf(t) BY StreamFacts, TaskFacts
  <1>12. \A u \in Tasks : ArmedOf(u)'
    <2> TAKE u \in Tasks
    <2>1. ArmedOf(u) BY StreamFacts, TaskFacts
    <2>2. CASE u = t BY <1>0, <1>1, <1>11, <2>2 DEF ArmedOf, TokensOf
    <2>3. CASE u # t BY <1>0, <1>1, <2>1, <2>3, ZenonT(60) DEF ArmedOf, At
    <2> QED BY <2>2, <2>3
  <1>13. \A u \in Tasks : ReadyOf(u)'
    <2> TAKE u \in Tasks
    <2>1. ReadyOf(u) BY StreamFacts, TaskFacts
    <2>2. CASE u = t
      BY <1>0, <1>1, <1>5, <1>11, <2>2 DEF ReadyOf, TokensOf
    <2>3. CASE u # t
      BY <1>0, <1>1, <1>5, <2>1, <2>3 DEF ReadyOf, InSet
    <2> QED BY <2>2, <2>3
  <1> QED
    BY <1>2, <1>3, <1>4, <1>6, <1>7, <1>8, <1>9, <1>10, <1>12, <1>13 DEF IInv

(* Opening the writing end. *)
LEMMA OpenWriteKeeps ==
  ASSUME IInv, NEW t \in Tasks, NEW s \in Streams, OpenWrite(t, s)
  PROVE  IInv'
  <1>0. /\ UNCHANGED <<streamvars, alive, rOpen, ctlvars, pollvars>>
        /\ UNCHANGED <<pc, sd, nw, nr, set, pos, cnt>>
    BY DEF OpenWrite, streamvars, ctlvars, pollvars
  <1>1. wOpen \in [Streams -> BOOLEAN] BY TypeFact DEF TypeOK
  <1>2. /\ pc[t] = "user" /\ wOpen' \in [Streams -> BOOLEAN]
        /\ \A y \in Streams : wOpen[y] => wOpen'[y]
    BY <1>1 DEF OpenWrite
  <1>3. TypeOK'
    BY <1>0, <1>2, TypeFact DEF TypeOK, Slots, streamvars, bufvars, ctlvars,
       pollvars
  <1>4. LifeMove(t) BY <1>0, <1>2 DEF LifeMove, pollvars
  <1>5. \A u \in Tasks : RolesOf(u)'
    <2> TAKE u \in Tasks
    <2>1. RolesOf(u) /\ sd[u] \in Streams BY TaskTypes, StreamFacts, TaskFacts
    <2> QED BY <1>0, <1>2, <2>1 DEF RolesOf
  <1>6. \A y \in Streams : LifeOf(y)' BY <1>0, StreamFacts DEF LifeOf, At
  <1>7. SetOf(t)' BY <1>0, TaskFacts DEF SetOf
  <1>8. \A y \in Streams : ReadIsInSet(y)'
    BY <1>0, StreamFacts DEF ReadIsInSet, InSet
  <1> QED BY <1>3, <1>4, <1>5, <1>6, <1>7, <1>8, LifeKeeps

(* Closing the writing end: its task has no write in progress. *)
LEMMA CloseWriteKeeps ==
  ASSUME IInv, NEW t \in Tasks, NEW s \in Streams, CloseWrite(t, s)
  PROVE  IInv'
  <1>0. /\ UNCHANGED <<streamvars, alive, rOpen, ctlvars, pollvars>>
        /\ UNCHANGED <<pc, sd, nw, nr, set, pos, cnt>>
    BY DEF CloseWrite, streamvars, ctlvars, pollvars
  <1>1. wOpen \in [Streams -> BOOLEAN] BY TypeFact DEF TypeOK
  <1>2. /\ pc[t] = "user" /\ wOpen' \in [Streams -> BOOLEAN]
        /\ t = Producer[s]
        /\ \A y \in Streams : y # s => wOpen'[y] = wOpen[y]
    BY <1>1 DEF CloseWrite
  <1>3. TypeOK'
    BY <1>0, <1>2, TypeFact DEF TypeOK, Slots, streamvars, bufvars, ctlvars,
       pollvars
  <1>4. LifeMove(t) BY <1>0, <1>2 DEF LifeMove, pollvars
  <1>5. \A u \in Tasks : RolesOf(u)'
    <2> TAKE u \in Tasks
    <2>1. RolesOf(u) BY StreamFacts, TaskFacts
    <2>2. PICK y \in Streams : y = sd[u] BY TaskTypes
    <2>3. CASE u = t BY <1>0, <1>2, <2>3 DEF RolesOf, WritePcs, ReadPcs
    <2>4. CASE u # t BY <1>0, <1>2, <2>1, <2>2, <2>4 DEF RolesOf
    <2> QED BY <2>3, <2>4
  <1>6. \A y \in Streams : LifeOf(y)' BY <1>0, StreamFacts DEF LifeOf, At
  <1>7. SetOf(t)' BY <1>0, TaskFacts DEF SetOf
  <1>8. \A y \in Streams : ReadIsInSet(y)'
    BY <1>0, StreamFacts DEF ReadIsInSet, InSet
  <1> QED BY <1>3, <1>4, <1>5, <1>6, <1>7, <1>8, LifeKeeps

(* A stream is in the set of its consumer exactly while it is open for     *)
(* reading, and at one place only.                                         *)
LEMMA PlaceOf ==
  ASSUME IInv, NEW s \in Streams, rOpen[s], NEW t \in Tasks, t = Consumer[s]
  PROVE  LET k == IndexOf(set[t], s)
         IN  /\ k \in 1 .. Len(set[t]) /\ set[t][k] = s
             /\ \A j \in 1 .. Len(set[t]) : j # k => set[t][j] # s
  <1>1. set[t] \in Seq(Streams) BY TaskTypes
  <1>2. DOMAIN set[t] = 1 .. Len(set[t]) BY SMTT(60), SMTT(120), <1>1
  <1>3. ReadIsInSet(s) /\ SetOf(t) BY StreamFacts, TaskFacts
  <1>4. \E j \in DOMAIN set[t] : set[t][j] = s
    BY <1>3 DEF ReadIsInSet, InSet
  <1>5. IndexOf(set[t], s) \in DOMAIN set[t] /\ set[t][IndexOf(set[t], s)] = s
    BY <1>4 DEF IndexOf
  <1> QED BY SMTT(60), SMTT(120), <1>2, <1>3, <1>5 DEF SetOf

(* Taking the k-th stream out of a list leaves the others, in order. *)
LEMMA WithoutOf ==
  ASSUME NEW q \in Seq(Streams), NEW k \in 1 .. Len(q)
  PROVE  /\ Without(q, k) \in Seq(Streams)
         /\ Len(Without(q, k)) = Len(q) - 1
         /\ \A j \in 1 .. Len(q) - 1 :
              Without(q, k)[j] = IF j < k THEN q[j] ELSE q[j + 1]
  <1>1. Len(q) \in Nat /\ \A j \in 1 .. Len(q) : q[j] \in Streams
    BY SMTT(60), SMTT(120)
  <1>2. Len(q) - 1 \in Nat BY SMTT(60), SMTT(120), <1>1
  <1>3. \A j \in 1 .. Len(q) - 1 :
          (IF j < k THEN q[j] ELSE q[j + 1]) \in Streams
    BY SMTT(60), SMTT(120), <1>1
  <1> QED BY SMTT(60), SMTT(120), <1>2, <1>3 DEF Without

(* Opening the reading end appends a stream that is not in the set. *)
LEMMA OpenReadKeeps ==
  ASSUME IInv, NEW t \in Tasks, NEW s \in Streams, OpenRead(t, s)
  PROVE  IInv'
  <1>0. /\ UNCHANGED <<streamvars, alive, wOpen, ctlvars, poll_token>>
        /\ UNCHANGED <<wakeup_sd, poll_wakeup, pos, cnt, pc, sd, nw, nr>>
    BY DEF OpenRead, streamvars, ctlvars
  <1>1. /\ rOpen \in [Streams -> BOOLEAN] /\ set \in [Tasks -> Seq(Streams)]
    BY TypeFact DEF TypeOK
  <1>2. /\ pc[t] = "user" /\ t = Consumer[s] /\ alive[s] /\ ~rOpen[s]
        /\ rOpen'[s] /\ \A y \in Streams : y # s => rOpen'[y] = rOpen[y]
        /\ rOpen' \in [Streams -> BOOLEAN]
        /\ \A u \in Tasks : u # t => set'[u] = set[u]
    BY <1>1 DEF OpenRead
  <1>3. /\ set[t] \in Seq(Streams) /\ Len(set[t]) \in Nat
        /\ \A j \in 1 .. Len(set[t]) : set[t][j] \in Streams
    BY SMTT(60), SMTT(120), <1>1
  <1>4. /\ set'[t] = Append(set[t], s) /\ set' \in [Tasks -> Seq(Streams)]
    BY SMTT(60), SMTT(120), <1>1 DEF OpenRead
  <1>5. /\ DOMAIN set'[t] = 1 .. Len(set[t]) + 1
        /\ \A j \in 1 .. Len(set[t]) : set'[t][j] = set[t][j]
        /\ set'[t][Len(set[t]) + 1] = s
    BY SMTT(60), SMTT(120), <1>3, <1>4
  <1>6. TypeOK'
    BY <1>0, <1>2, <1>4, TypeFact DEF TypeOK, Slots, streamvars, bufvars,
       ctlvars
  <1>7. LifeMove(t) BY <1>0, <1>2 DEF LifeMove
  <1>8. \A u \in Tasks : RolesOf(u)'
    <2> TAKE u \in Tasks
    <2>1. RolesOf(u) BY StreamFacts, TaskFacts
    <2>2. PICK y \in Streams : y = sd[u] BY TaskTypes
    <2> QED BY <1>0, <1>2, <2>1, <2>2 DEF RolesOf
  <1>9. \A y \in Streams : LifeOf(y)'
    BY <1>0, <1>2, StreamFacts DEF LifeOf, At
  <1>10. SetOf(t)'
    <2>1. /\ \A j \in 1 .. Len(set[t]) :
               Consumer[set[t][j]] = t /\ rOpen[set[t][j]] /\ set[t][j] # s
          /\ \A i, j \in 1 .. Len(set[t]) : set[t][i] = set[t][j] => i = j
      <3>1. SetOf(t) BY TaskFacts
      <3> QED BY SMTT(60), SMTT(120), <1>2, <1>3, <3>1 DEF SetOf
    <2>2. \A j \in DOMAIN set'[t] :
            Consumer[set'[t][j]] = t /\ rOpen'[set'[t][j]]
      <3> TAKE j \in DOMAIN set'[t]
      <3>1. CASE j = Len(set[t]) + 1 BY <1>2, <1>5, <3>1
      <3>2. CASE j \in 1 .. Len(set[t])
        BY SMTT(60), SMTT(120), <1>2, <1>3, <1>5, <2>1, <3>2
      <3> QED BY SMTT(60), SMTT(120), <1>3, <1>5, <3>1, <3>2
    <2>3. \A i, j \in DOMAIN set'[t] : set'[t][i] = set'[t][j] => i = j
      BY SMTT(60), SMTT(120), <1>3, <1>5, <2>1
    <2> QED BY <1>0, <1>2, <2>2, <2>3 DEF SetOf
  <1>11. \A y \in Streams : Consumer[y] = t => ReadIsInSet(y)'
    <2> SUFFICES ASSUME NEW y \in Streams, Consumer[y] = t, rOpen'[y]
                 PROVE  \E j \in DOMAIN set'[t] : set'[t][j] = y
      BY DEF ReadIsInSet, InSet
    <2>1. CASE y = s
      <3>1. Len(set[t]) + 1 \in DOMAIN set'[t]
        BY SMTT(60), SMTT(120), <1>3, <1>5
      <3> QED BY <1>5, <2>1, <3>1
    <2>2. CASE y # s
      <3>1. PICK j \in 1 .. Len(set[t]) : set[t][j] = y
        BY SMTT(60), SMTT(120), <1>2, <1>3, <2>2, StreamFacts
           DEF ReadIsInSet, InSet
      <3>2. j \in DOMAIN set'[t] /\ set'[t][j] = y
        BY SMTT(60), SMTT(120), <1>3, <1>5, <3>1
      <3> QED BY <3>2
    <2> QED BY <2>1, <2>2
  <1> QED BY <1>6, <1>7, <1>8, <1>9, <1>10, <1>11, LifeKeeps

(* Closing the reading end: the stream, drained, leaves the set. *)
LEMMA CloseReadKeeps ==
  ASSUME IInv, NEW t \in Tasks, NEW s \in Streams, CloseRead(t, s)
  PROVE  IInv'
  <1>0. /\ UNCHANGED <<streamvars, wOpen, ctlvars, poll_token>>
        /\ UNCHANGED <<wakeup_sd, poll_wakeup, pos, cnt, pc, sd, nw, nr>>
    BY DEF CloseRead, streamvars, ctlvars
  <1>1. /\ rOpen \in [Streams -> BOOLEAN] /\ alive \in [Streams -> BOOLEAN]
        /\ set \in [Tasks -> Seq(Streams)]
    BY TypeFact DEF TypeOK
  <1>2. /\ pc[t] = "user" /\ t = Consumer[s] /\ rOpen[s] /\ nr[s] = Last[s]
        /\ ~rOpen'[s] /\ \A y \in Streams : y # s => rOpen'[y] = rOpen[y]
        /\ ~alive'[s] /\ \A y \in Streams : y # s => alive'[y] = alive[y]
        /\ rOpen' \in [Streams -> BOOLEAN] /\ alive' \in [Streams -> BOOLEAN]
        /\ \A u \in Tasks : u # t => set'[u] = set[u]
    BY <1>1 DEF CloseRead, LpelStreamDestroy
  <1>3. /\ set[t] \in Seq(Streams) /\ Len(set[t]) \in Nat
        /\ \A j \in 1 .. Len(set[t]) : set[t][j] \in Streams
    BY SMTT(60), SMTT(120), <1>1
  <1>4. PICK k \in 1 .. Len(set[t]) :
          /\ k = IndexOf(set[t], s) /\ set[t][k] = s
          /\ \A j \in 1 .. Len(set[t]) : j # k => set[t][j] # s
    BY SMTT(60), SMTT(120), <1>2, PlaceOf
  <1>5. set'[t] = Without(set[t], k) BY <1>1, <1>4 DEF CloseRead
  <1>6. /\ set'[t] \in Seq(Streams) /\ Len(set'[t]) = Len(set[t]) - 1
        /\ \A j \in 1 .. Len(set[t]) - 1 :
             set'[t][j] = IF j < k THEN set[t][j] ELSE set[t][j + 1]
    BY <1>3, <1>5, WithoutOf
  <1>7. /\ DOMAIN set'[t] = 1 .. Len(set[t]) - 1
        /\ set' \in [Tasks -> Seq(Streams)]
    BY SMTT(60), SMTT(120), <1>1, <1>5, <1>6 DEF CloseRead
  <1>8. TypeOK'
    BY <1>0, <1>2, <1>7, TypeFact DEF TypeOK, Slots, streamvars, bufvars,
       ctlvars
  <1>9. LifeMove(t) BY <1>0, <1>2 DEF LifeMove
  <1>10. \A u \in Tasks : RolesOf(u)'
    <2> TAKE u \in Tasks
    <2>1. RolesOf(u) BY StreamFacts, TaskFacts
    <2>2. PICK y \in Streams : y = sd[u] BY TaskTypes
    <2>3. CASE u = t BY <1>0, <1>2, <2>3 DEF RolesOf, WritePcs, ReadPcs
    <2>4. CASE u # t BY <1>0, <1>2, <2>1, <2>2, <2>4 DEF RolesOf
    <2> QED BY <2>3, <2>4
  <1>11. \A y \in Streams : LifeOf(y)'
    BY <1>0, <1>2, StreamFacts DEF LifeOf, At
  <1>12. /\ \A j \in 1 .. Len(set[t]) :
              Consumer[set[t][j]] = t /\ rOpen[set[t][j]]
         /\ \A i, j \in 1 .. Len(set[t]) : set[t][i] = set[t][j] => i = j
    BY SMTT(60), SMTT(120), <1>3, TaskFacts DEF SetOf
  <1>13. SetOf(t)'
    <2>1. \A j \in DOMAIN set'[t] :
            Consumer[set'[t][j]] = t /\ rOpen'[set'[t][j]]
      <3> TAKE j \in DOMAIN set'[t]
      <3>1. PICK i \in 1 .. Len(set[t]) : i # k /\ set'[t][j] = set[t][i]
        <4>1. CASE j < k BY SMTT(60), SMTT(120), <1>3, <1>6, <1>7, <4>1
        <4>2. CASE ~(j < k)
          <5>1. j + 1 \in 1 .. Len(set[t]) /\ j + 1 # k
            BY SMTT(60), SMTT(120), <1>3, <1>7, <4>2
          <5>2. set'[t][j] = set[t][j + 1] BY <1>6, <1>7, <4>2
          <5> QED BY <5>1, <5>2
        <4> QED BY <4>1, <4>2
      <3>2. set[t][i] \in Streams /\ set[t][i] # s BY <1>3, <1>4, <3>1
      <3> QED BY SMTT(60), SMTT(120), <1>2, <1>12, <3>1, <3>2
    <2>2. \A i, j \in DOMAIN set'[t] : set'[t][i] = set'[t][j] => i = j
      <3> SUFFICES ASSUME NEW i \in 1 .. Len(set[t]) - 1,
                          NEW j \in 1 .. Len(set[t]) - 1,
                          set'[t][i] = set'[t][j]
                   PROVE  i = j
        BY <1>7
      <3>1. /\ set'[t][i] = IF i < k THEN set[t][i] ELSE set[t][i + 1]
            /\ set'[t][j] = IF j < k THEN set[t][j] ELSE set[t][j + 1]
        BY <1>6
      <3>2. /\ i \in 1 .. Len(set[t]) /\ i + 1 \in 1 .. Len(set[t])
            /\ j \in 1 .. Len(set[t]) /\ j + 1 \in 1 .. Len(set[t])
        BY SMTT(60), SMTT(120), <1>3
      <3>3. CASE i < k /\ j < k BY <1>12, <3>1, <3>2, <3>3
      <3>4. CASE i < k /\ ~(j < k)
        <4>1. i = j + 1 BY <1>12, <3>1, <3>2, <3>4
        <4> QED BY SMTT(60), SMTT(120), <3>4, <4>1
      <3>5. CASE ~(i < k) /\ j < k
        <4>1. i + 1 = j BY <1>12, <3>1, <3>2, <3>5
        <4> QED BY SMTT(60), SMTT(120), <3>5, <4>1
      <3>6. CASE ~(i < k) /\ ~(j < k)
        <4>1. i + 1 = j + 1 BY <1>12, <3>1, <3>2, <3>6
        <4> QED BY SMTT(60), SMTT(120), <4>1
      <3> QED BY <3>3, <3>4, <3>5, <3>6
    <2> QED BY <1>0, <1>2, <2>1, <2>2 DEF SetOf
  <1>14. \A y \in Streams : Consumer[y] = t => ReadIsInSet(y)'
    <2> SUFFICES ASSUME NEW y \in Streams, Consumer[y] = t, rOpen'[y]
                 PROVE  \E j \in DOMAIN set'[t] : set'[t][j] = y
      BY DEF ReadIsInSet, InSet
    <2>1. y # s /\ rOpen[y] BY <1>2
    <2>2. PICK j \in 1 .. Len(set[t]) : set[t][j] = y
      BY SMTT(60), SMTT(120), <1>3, <2>1, StreamFacts DEF ReadIsInSet, InSet
    <2>3. CASE j < k
      <3>1. j \in DOMAIN set'[t] /\ set'[t][j] = y
        BY SMTT(60), SMTT(120), <1>3, <1>6, <1>7, <2>2, <2>3
      <3> QED BY <3>1
    <2>4. CASE ~(j < k)
      <3>1. j > k BY SMTT(60), SMTT(120), <1>4, <2>1, <2>2, <2>4
      <3>2. j - 1 \in 1 .. Len(set[t]) - 1 /\ ~(j - 1 < k) /\ j - 1 + 1 = j
        BY SMTT(60), SMTT(120), <1>3, <3>1
      <3>3. j - 1 \in DOMAIN set'[t] /\ set'[t][j - 1] = y
        BY <1>6, <1>7, <2>2, <3>2
      <3> QED BY <3>3
    <2> QED BY <2>3, <2>4
  <1> QED BY <1>8, <1>9, <1>10, <1>11, <1>13, <1>14, LifeKeeps

(* Replacing: the new stream takes the place of the drained one. *)
LEMMA ReplaceKeeps ==
  ASSUME IInv, NEW t \in Tasks, NEW s \in Streams, NEW snew \in Streams,
         LpelStreamReplace(t, s, snew)
  PROVE  IInv'
  <1>0. /\ UNCHANGED <<streamvars, wOpen, ctlvars, poll_token>>
        /\ UNCHANGED <<wakeup_sd, poll_wakeup, pos, cnt, pc, sd, nw, nr>>
    BY DEF LpelStreamReplace, streamvars, ctlvars
  <1>1. /\ rOpen \in [Streams -> BOOLEAN] /\ alive \in [Streams -> BOOLEAN]
        /\ set \in [Tasks -> Seq(Streams)]
    BY TypeFact DEF TypeOK
  <1>2. /\ pc[t] = "user" /\ t = Consumer[s] /\ t = Consumer[snew]
        /\ rOpen[s] /\ ~rOpen[snew] /\ alive[snew] /\ nr[s] = Last[s]
    BY DEF LpelStreamReplace
  <1>3. /\ ~rOpen'[s] /\ rOpen'[snew]
        /\ \A y \in Streams : y # s /\ y # snew => rOpen'[y] = rOpen[y]
        /\ ~alive'[s] /\ \A y \in Streams : y # s => alive'[y] = alive[y]
        /\ rOpen' \in [Streams -> BOOLEAN] /\ alive' \in [Streams -> BOOLEAN]
        /\ \A u \in Tasks : u # t => set'[u] = set[u]
    BY <1>1, <1>2 DEF LpelStreamReplace, LpelStreamDestroy
  <1>4. /\ set[t] \in Seq(Streams) /\ Len(set[t]) \in Nat
        /\ \A j \in 1 .. Len(set[t]) : set[t][j] \in Streams
    BY SMTT(60), SMTT(120), <1>1
  <1>5. PICK k \in 1 .. Len(set[t]) :
          /\ k = IndexOf(set[t], s) /\ set[t][k] = s
          /\ \A j \in 1 .. Len(set[t]) : j # k => set[t][j] # s
    <2>1. t = Consumer[s] /\ rOpen[s] BY <1>2
    <2> QED BY SMTT(60), SMTT(120), <2>1, PlaceOf
  <1>6. set'[t] = [set[t] EXCEPT ![k] = snew]
    BY <1>1, <1>5 DEF LpelStreamReplace
  <1>7. /\ set'[t] \in Seq(Streams) /\ DOMAIN set'[t] = 1 .. Len(set[t])
        /\ set'[t][k] = snew
        /\ \A j \in 1 .. Len(set[t]) : j # k => set'[t][j] = set[t][j]
    BY SMTT(60), SMTT(120), <1>4, <1>6
  <1>8. set' \in [Tasks -> Seq(Streams)]
    BY <1>1, <1>6, <1>7 DEF LpelStreamReplace
  <1>9. TypeOK'
    BY <1>0, <1>3, <1>8, TypeFact DEF TypeOK, Slots, streamvars, bufvars,
       ctlvars
  <1>10. LifeMove(t) BY <1>0, <1>2, <1>3 DEF LifeMove
  <1>11. \A u \in Tasks : RolesOf(u)'
    <2> TAKE u \in Tasks
    <2>1. RolesOf(u) BY StreamFacts, TaskFacts
    <2>2. PICK y \in Streams : y = sd[u] BY TaskTypes
    <2>3. CASE u = t BY <1>0, <1>2, <2>3 DEF RolesOf, WritePcs, ReadPcs
    <2>4. CASE u # t
      BY <1>0, <1>2, <1>3, <2>1, <2>2, <2>4 DEF RolesOf
    <2> QED BY <2>3, <2>4
  <1>12. \A y \in Streams : LifeOf(y)'
    BY <1>0, <1>2, <1>3, StreamFacts DEF LifeOf, At
  <1>13. /\ \A j \in 1 .. Len(set[t]) : /\ Consumer[set[t][j]] = t
                                        /\ rOpen[set[t][j]]
                                        /\ set[t][j] # snew
         /\ \A i, j \in 1 .. Len(set[t]) : set[t][i] = set[t][j] => i = j
    <2>1. ~rOpen[snew] BY <1>2
    <2> QED BY SMTT(60), SMTT(120), <1>4, <2>1, TaskFacts DEF SetOf
  <1>14. SetOf(t)'
    <2>1. \A j \in DOMAIN set'[t] :
            Consumer[set'[t][j]] = t /\ rOpen'[set'[t][j]]
      <3> TAKE j \in DOMAIN set'[t]
      <3>1. CASE j = k BY <1>2, <1>3, <1>7, <3>1
      <3>2. CASE j # k
        <4>1. /\ set'[t][j] = set[t][j] /\ set[t][j] \in Streams
              /\ set[t][j] # s
          BY <1>4, <1>5, <1>7, <3>2
        <4> QED BY SMTT(60), SMTT(120), <1>3, <1>7, <1>13, <4>1
      <3> QED BY <3>1, <3>2
    <2>2. \A i, j \in DOMAIN set'[t] : set'[t][i] = set'[t][j] => i = j
      BY SMTT(60), SMTT(120), <1>7, <1>13
    <2> QED BY <1>0, <1>2, <2>1, <2>2 DEF SetOf
  <1>15. \A y \in Streams : Consumer[y] = t => ReadIsInSet(y)'
    <2> SUFFICES ASSUME NEW y \in Streams, Consumer[y] = t, rOpen'[y]
                 PROVE  \E j \in DOMAIN set'[t] : set'[t][j] = y
      BY DEF ReadIsInSet, InSet
    <2>1. CASE y = snew BY <1>7, <2>1
    <2>2. CASE y # snew
      <3>1. y # s /\ rOpen[y] BY <1>3, <2>2
      <3>2. PICK j \in 1 .. Len(set[t]) : set[t][j] = y
        BY SMTT(60), SMTT(120), <1>4, <3>1, StreamFacts DEF ReadIsInSet, InSet
      <3> QED BY <1>5, <1>7, <3>1, <3>2
    <2> QED BY <2>1, <2>2
  <1> QED BY <1>9, <1>10, <1>11, <1>12, <1>14, <1>15, LifeKeeps

----------------------------------------------------------------------------
(* The invariant. *)

(* Freshly created streams, and tasks that have not called anything. *)
LEMMA InitInv == Init => IInv
  <1> SUFFICES ASSUME Init PROVE IInv OBVIOUS
  <1> USE DEF Init, LpelStreamCreate
  <1>1. AnyStream \in Streams BY StreamAssumption DEF AnyStream
  <1>2. \A s \in Streams : /\ Size[s] \in Nat /\ Size[s] > 0
                           /\ Last[s] \in Nat /\ Last[s] > 0
                           /\ Producer[s] \in Tasks /\ Consumer[s] \in Tasks
    BY SMTT(60), SMTT(120), StreamAssumption
  <1>3. \A t \in Tasks : pc[t] = "user" OBVIOUS
  <1>4. TypeOK
    <2>1. \A s \in Streams : 0 \in Slots(s)
      BY SMTT(60), SMTT(120), <1>2 DEF Slots
    <2>2. \A s \in Streams : data[s] \in [Slots(s) -> Nat] BY DEF NULL
    <2>3. /\ pread \in [Streams -> Nat] /\ pwrite \in [Streams -> Nat]
          /\ nw \in [Streams -> Nat] /\ nr \in [Streams -> Nat]
          /\ n_sem \in [Streams -> Int]
      BY SMTT(60), SMTT(120)
    <2>4. e_sem \in [Streams -> Int] BY SMTT(60), SMTT(120), StreamAssumption
    <2>5. \A s \in Streams : pread[s] \in Slots(s) /\ pwrite[s] \in Slots(s)
      BY <2>1
    <2>6. /\ is_poll \in [Streams -> BOOLEAN]
          /\ prod_lock \in [Streams -> BOOLEAN]
          /\ alive \in [Streams -> BOOLEAN]
          /\ wOpen \in [Streams -> BOOLEAN] /\ rOpen \in [Streams -> BOOLEAN]
          /\ trying \in [Tasks -> BOOLEAN]
      OBVIOUS
    <2>7. /\ pc \in [Tasks -> PcValues] /\ sd \in [Tasks -> Streams]
          /\ wakeup_sd \in [Tasks -> Streams]
      BY <1>1 DEF PcValues
    <2>8. /\ wake \in [Tasks -> Nat]
          /\ poll_token \in [Tasks -> {0, 1}]
          /\ poll_wakeup \in [Tasks -> {0, 1}]
          /\ pos \in [Tasks -> Nat] /\ cnt \in [Tasks -> Int]
      BY SMTT(60), SMTT(120)
    <2>9. set \in [Tasks -> Seq(Streams)] BY SMTT(60), SMTT(120)
    <2>10. DOMAIN data = Streams OBVIOUS
    <2> QED
      BY <2>2, <2>3, <2>4, <2>5, <2>6, <2>7, <2>8, <2>9, <2>10 DEF TypeOK
  <1>5. \A t \in Tasks : \A s \in Streams :
          \A P \in SUBSET (WritePcs \cup ReadPcs) : ~At(t, P, s)
    BY <1>3 DEF At, WritePcs, ReadPcs
  <1>6. \A t \in Tasks : RolesOf(t)
    BY <1>3 DEF RolesOf, WritePcs, ReadPcs
  <1>7. \A s \in Streams : CountsOf(s)
    <2> TAKE s \in Streams
    <2>1. /\ nw[s] = 0 /\ nr[s] = 0 /\ n_sem[s] = 0 /\ e_sem[s] = Size[s]
          /\ pc[Producer[s]] = "user" /\ pc[Consumer[s]] = "user"
      BY <1>2
    <2> QED BY SMTT(60), SMTT(120), <1>2, <2>1 DEF CountsOf, At, One
  <1>8. \A s \in Streams : RingOf(s)
    <2> TAKE s \in Streams
    <2>1. /\ nw[s] = 0 /\ nr[s] = 0 /\ pread[s] = 0 /\ pwrite[s] = 0
          /\ \A i \in Slots(s) : data[s][i] = NULL
      OBVIOUS
    <2> QED BY SMTT(60), SMTT(120), <1>2, <2>1 DEF RingOf, Offset, Slots
  <1>9. \A s \in Streams : WaitsOf(s)
    <2> TAKE s \in Streams
    <2>1. n_sem[s] # -1 /\ e_sem[s] # -1 BY SMTT(60), SMTT(120), <1>2
    <2> QED BY <1>2, <1>3, <2>1 DEF WaitsOf, At
  <1>10. \A t \in Tasks : TokensOf(t)
    <2> TAKE t \in Tasks
    <2>1. wake[t] = 0 /\ poll_token[t] = 0 OBVIOUS
    <2> HIDE DEF Init, LpelStreamCreate
    <2>2. \A u \in Tasks : ~HoldsToken(u, t) BY <1>3 DEF HoldsToken
    <2>3. wake[t] # 1 /\ poll_token[t] # 1 BY SMTT(60), SMTT(120), <2>1
    <2> QED BY <1>3, <2>1, <2>2, <2>3 DEF TokensOf
  <1>11. \A s \in Streams : LockOf(s)
    <2> TAKE s \in Streams
    <2>1. ~prod_lock[s] OBVIOUS
    <2> QED BY <1>2, <1>3, <2>1 DEF LockOf, At
  <1>12. \A s \in Streams : LifeOf(s)
    <2> TAKE s \in Streams
    <2>1. nw[s] = 0 /\ alive[s] OBVIOUS
    <2> QED BY SMTT(60), SMTT(120), <1>2, <1>3, <2>1 DEF LifeOf, At
  <1>13. \A t \in Tasks : DOMAIN set[t] = {}
    <2>1. \A t \in Tasks : set[t] = << >> OBVIOUS
    <2>2. DOMAIN << >> = {} BY SMTT(60), SMTT(120)
    <2> QED BY <2>1, <2>2
  <1>14. \A t \in Tasks : SetOf(t) BY <1>3, <1>13 DEF SetOf
  <1>15. \A s \in Streams : ReadIsInSet(s) /\ RegisteredOf(s)
    BY DEF ReadIsInSet, RegisteredOf
  <1>16. \A t \in Tasks : ArmedOf(t) /\ ReadyOf(t)
    <2>1. \A t \in Tasks : wake[t] = 0 /\ poll_token[t] = 0 OBVIOUS
    <2> HIDE DEF Init, LpelStreamCreate
    <2>2. \A u, t \in Tasks : ~HoldsToken(u, t) BY <1>3 DEF HoldsToken
    <2>3. \A t \in Tasks : ArmedOf(t) BY SMTT(60), SMTT(120), <2>1 DEF ArmedOf
    <2>4. \A t \in Tasks : ReadyOf(t) BY <1>3, <2>1, <2>2 DEF ReadyOf
    <2> QED BY <2>3, <2>4
  <1> QED
    BY <1>4, <1>6, <1>7, <1>8, <1>9, <1>10, <1>11, <1>12, <1>14, <1>15, <1>16
       DEF IInv

(* No step breaks it. *)
LEMMA NextInv == IInv /\ [Next]_vars => IInv'
  <1> SUFFICES ASSUME IInv, [Next]_vars PROVE IInv' OBVIOUS
  <1>1. ASSUME NEW t \in Tasks, Step(t) PROVE IInv'
    <2>1. ASSUME WriteP(t, sd[t]) PROVE IInv'
      <3>1. PICK s \in Streams : s = sd[t] BY TaskTypes
      <3>2. WriteP(t, s) BY <2>1, <3>1
      <3> QED BY <3>2, WritePKeeps
    <2> QED
      BY <1>1, <2>1, WriteResumeKeeps, WritePutKeeps, WriteCheckPollKeeps,
         WriteVKeeps, WriteWakeReadKeeps, WriteWakePollKeeps, ReadResumeKeeps,
         ReadPopKeeps, ReadVKeeps, ReadWakeKeeps, PollFastKeeps,
         PollTokenKeeps, PollFoundKeeps, PollRegisterKeeps, PollResumeKeeps,
         PollUnregisterKeeps DEF Step
  <1>2. ASSUME NEW t \in Tasks, Call(t) PROVE IInv'
    BY <1>2, PollStartKeeps, OpenWriteKeeps, OpenReadKeeps, CloseWriteKeeps,
       CloseReadKeeps, TryWriteKeeps, ReadPKeeps, WritePKeeps, ReplaceKeeps
       DEF Call
  <1>3. ASSUME UNCHANGED vars PROVE IInv'
    <2>1. /\ UNCHANGED <<data, pread, pwrite, n_sem, e_sem, is_poll>>
          /\ UNCHANGED <<prod_lock, nw, nr, alive, wOpen, rOpen, pc, sd>>
          /\ UNCHANGED <<trying, wake, poll_token, wakeup_sd, poll_wakeup>>
          /\ UNCHANGED <<set, pos, cnt>>
      BY <1>3 DEF vars, streamvars, bufvars, lifevars, ctlvars, pollvars
    <2>2. TypeOK' BY <2>1, TypeFact DEF TypeOK, Slots
    <2>3. \A s \in Streams : CountsOf(s)'
      BY <2>1, StreamFacts, CountsSame
    <2>4. \A s \in Streams : RingOf(s)'
      BY <2>1, StreamFacts DEF RingOf, Offset, Slots
    <2>5. \A s \in Streams : WaitsOf(s)'
      BY <2>1, StreamFacts, ZenonT(60) DEF WaitsOf, At
    <2>6. \A s \in Streams : LockOf(s)' /\ LifeOf(s)'
      BY <2>1, StreamFacts DEF LockOf, LifeOf, At
    <2>7. \A s \in Streams : ReadIsInSet(s)' /\ RegisteredOf(s)'
      BY <2>1, StreamFacts DEF ReadIsInSet, InSet, RegisteredOf, Registered
    <2>8. \A t \in Tasks : RolesOf(t)' /\ SetOf(t)'
      BY SMTT(60), SMTT(120), <2>1, TaskFacts DEF RolesOf, SetOf
    <2>9. \A t \in Tasks : TokensOf(t)'
      BY SMTT(60), SMTT(120), <2>1, TaskFacts DEF TokensOf, HoldsToken
    <2>10. \A t \in Tasks : ArmedOf(t)' BY <2>1, TaskFacts DEF ArmedOf, At
    <2>11. \A t \in Tasks : ReadyOf(t)'
      BY <2>1, TaskFacts, ZenonT(60) DEF ReadyOf, InSet, HoldsToken
    <2> QED
      BY <2>2, <2>3, <2>4, <2>5, <2>6, <2>7, <2>8, <2>9, <2>10, <2>11 DEF IInv
  <1> QED BY <1>1, <1>2, <1>3 DEF Next, Finished

(* The invariant holds in every reachable state of the streams, for any    *)
(* number of tasks and streams, any topology and any buffer size.          *)
THEOREM Invariant == Spec => []IInv
  BY InitInv, NextInv, PTL DEF Spec

(* Every field keeps the type its declaration gives it; in particular the  *)
(* cursors stay inside the buffer.                                         *)
THEOREM TypeCorrect == Spec => []TypeOK
  <1>1. IInv => TypeOK BY TypeFact
  <1> QED BY <1>1, Invariant, PTL

(* LpelStreamWrite finds a free slot and LpelStreamRead the next item: the *)
(* assertions of both functions hold, and a stream delivers every item     *)
(* once and in the order of the writes.                                    *)
THEOREM Delivery == Spec => []ItemsInOrder
  <1>1. ASSUME IInv PROVE ItemsInOrder
    <2> SUFFICES ASSUME NEW t \in Tasks
                 PROVE  /\ pc[t] = "w_put" => LpelBufferIsSpace(sd[t])
                        /\ pc[t] = "r_pop" =>
                             LpelBufferTop(sd[t]) = nr[sd[t]] + 1
      BY DEF ItemsInOrder
    <2>s. PICK s \in Streams : s = sd[t] BY <1>1, TaskTypes
    <2>1. /\ RolesOf(t) /\ CountsOf(s) BY <1>1, StepFacts
    <2>2. /\ nw[s] \in Nat /\ nr[s] \in Nat /\ n_sem[s] \in Int
          /\ e_sem[s] \in Int /\ Size[s] \in Nat
      BY <1>1, StreamTypes
    <2>3. /\ nw[s] > nr[s] => LpelBufferTop(s) = nr[s] + 1
          /\ LpelBufferIsSpace(s) <=> nw[s] - nr[s] < Size[s]
      BY <1>1, BufferOf
    <2>4. pc[t] = "w_put" => LpelBufferIsSpace(s)
      <3> SUFFICES ASSUME pc[t] = "w_put" PROVE nw[s] - nr[s] < Size[s]
        BY <2>3
      <3>1. t = Producer[s] BY <2>s, <2>1 DEF RolesOf, WritePcs
      <3>2. At(t, {"w_blk", "w_put"}, s) /\ At(t, {"w_put"}, s)
        BY <2>s DEF At
      <3>3. /\ e_sem[s] = Size[s] - (nw[s] - nr[s]) - 1
                                  - One(At(Consumer[s], {"r_v"}, s))
            /\ e_sem[s] >= 0
        BY <2>1, <3>1, <3>2 DEF CountsOf, One
      <3> QED BY SMTT(60), SMTT(120), <2>2, <3>3 DEF One
    <2>5. pc[t] = "r_pop" => LpelBufferTop(s) = nr[s] + 1
      <3> SUFFICES ASSUME pc[t] = "r_pop" PROVE nw[s] > nr[s] BY <2>3
      <3>1. t = Consumer[s] BY <2>s, <2>1 DEF RolesOf, ReadPcs
      <3>2. At(t, {"r_blk", "r_pop"}, s) /\ At(t, {"r_pop"}, s)
        BY <2>s DEF At
      <3>3. /\ n_sem[s] = nw[s] - nr[s]
                           - One(At(Producer[s], {"w_poll", "w_v"}, s)) - 1
            /\ n_sem[s] >= 0
        BY <2>1, <3>1, <3>2 DEF CountsOf, One
      <3> QED BY SMTT(60), SMTT(120), <2>2, <3>3 DEF One
    <2> QED BY <2>s, <2>4, <2>5
  <1> QED BY <1>1, Invariant, PTL

(* No wakeup of a reader, a writer or a poller is lost. *)
THEOREM Wakeups == Spec => []NoLostWakeup
  <1>1. ASSUME IInv PROVE NoLostWakeup
    <2> SUFFICES ASSUME NEW t \in Tasks, NEW s \in Streams, s = sd[t],
                        NEW p \in Tasks, p = Producer[s],
                        NEW c \in Tasks, c = Consumer[s],
                        wake[t] = 0,
                        \A u \in Tasks : ~Waker(u, t) /\ ~HoldsToken(u, t)
                 PROVE
        /\ pc[t] = "r_blk" =>
             \/ nw[s] = nr[s]
             \/ nw[s] = nr[s] + 1 /\ pc[p] \in {"w_poll", "w_v"} /\ sd[p] = s
        /\ pc[t] = "w_blk" =>
             \/ nw[s] - nr[s] = Size[s]
             \/ nw[s] - nr[s] = Size[s] - 1 /\ pc[c] = "r_v" /\ sd[c] = s
        /\ pc[t] = "p_blk" =>
             \A j \in DOMAIN set[t] :
               \/ LpelBufferTop(set[t][j]) = NULL
               \/ /\ pc[Producer[set[t][j]]] = "w_poll"
                  /\ sd[Producer[set[t][j]]] = set[t][j]
      <3>1. \A u \in Tasks : sd[u] \in Streams BY <1>1, TaskTypes
      <3>2. \A x \in Streams : Producer[x] \in Tasks /\ Consumer[x] \in Tasks
        BY StreamAssumption
      <3> QED BY <3>1, <3>2 DEF NoLostWakeup
    <2>1. RolesOf(t) /\ TokensOf(t) /\ CountsOf(s) /\ WaitsOf(s)
      BY <1>1, StepFacts
    <2>2. /\ nw[s] \in Nat /\ nr[s] \in Nat /\ n_sem[s] \in Int
          /\ e_sem[s] \in Int /\ Size[s] \in Nat
      BY <1>1, StreamTypes
    <2>3. ASSUME pc[t] = "r_blk"
          PROVE  \/ nw[s] = nr[s]
                 \/ /\ nw[s] = nr[s] + 1
                    /\ pc[p] \in {"w_poll", "w_v"} /\ sd[p] = s
      <3>1. t = c BY <2>1, <2>3 DEF RolesOf, ReadPcs
      <3>2. At(c, {"r_blk"}, s) /\ At(c, {"r_blk", "r_pop"}, s)
        BY <2>3, <3>1 DEF At
      <3>3. ~At(p, {"w_wake_read"}, s) BY <3>1 DEF At, Waker
      <3>4. n_sem[s] = -1
        <4>1. wake[c] # 1 BY SMTT(60), SMTT(120), <3>1
        <4> QED BY <2>1, <3>2, <3>3, <4>1 DEF WaitsOf
      <3>5. n_sem[s] = nw[s] - nr[s] - One(At(p, {"w_poll", "w_v"}, s)) - 1
        BY <2>1, <3>2 DEF CountsOf, One
      <3>6. CASE At(p, {"w_poll", "w_v"}, s)
        <4>1. nw[s] = nr[s] + 1
          BY SMTT(60), SMTT(120), <2>2, <3>4, <3>5, <3>6 DEF One
        <4> QED BY <3>6, <4>1 DEF At
      <3>7. CASE ~At(p, {"w_poll", "w_v"}, s)
        BY SMTT(60), SMTT(120), <2>2, <3>4, <3>5, <3>7 DEF One
      <3> QED BY <3>6, <3>7
    <2>4. ASSUME pc[t] = "w_blk"
          PROVE  \/ nw[s] - nr[s] = Size[s]
                 \/ /\ nw[s] - nr[s] = Size[s] - 1
                    /\ pc[c] = "r_v" /\ sd[c] = s
      <3>1. t = p BY <2>1, <2>4 DEF RolesOf, WritePcs
      <3>2. At(p, {"w_blk"}, s) /\ At(p, {"w_blk", "w_put"}, s)
        BY <2>4, <3>1 DEF At
      <3>3. ~At(c, {"r_wake"}, s) BY <3>1 DEF At, Waker
      <3>4. e_sem[s] = -1
        <4>1. wake[p] # 1 BY SMTT(60), SMTT(120), <3>1
        <4> QED BY <2>1, <3>2, <3>3, <4>1 DEF WaitsOf
      <3>5. e_sem[s] = Size[s] - (nw[s] - nr[s]) - 1
                               - One(At(c, {"r_v"}, s))
        BY <2>1, <3>2 DEF CountsOf, One
      <3>6. CASE At(c, {"r_v"}, s)
        <4>1. nw[s] - nr[s] = Size[s] - 1
          BY SMTT(60), SMTT(120), <2>2, <3>4, <3>5, <3>6 DEF One
        <4> QED BY <3>6, <4>1 DEF At
      <3>7. CASE ~At(c, {"r_v"}, s)
        BY SMTT(60), SMTT(120), <2>2, <3>4, <3>5, <3>7 DEF One
      <3> QED BY <3>6, <3>7
    <2>5. ASSUME pc[t] = "p_blk", NEW j \in DOMAIN set[t]
          PROVE  \/ LpelBufferTop(set[t][j]) = NULL
                 \/ /\ pc[Producer[set[t][j]]] = "w_poll"
                    /\ sd[Producer[set[t][j]]] = set[t][j]
      <3>1. poll_token[t] = 1
        BY <1>1, <2>1, <2>5, TaskTypes DEF TokensOf
      <3>2. PICK x \in Streams : x = set[t][j]
        BY SMTT(60), SMTT(120), <1>1, <2>5, TaskTypes
      <3>3. nw[x] = nr[x] \/ At(Producer[x], {"w_poll"}, x)
        BY <1>1, <2>5, <3>1, <3>2, TaskFacts DEF ArmedOf
      <3>4. LpelBufferTop(x) = NULL <=> nw[x] = nr[x]
        BY <1>1, BufferOf
      <3> QED BY <3>2, <3>3, <3>4 DEF At
    <2> QED BY <2>3, <2>4, <2>5
  <1> QED BY <1>1, Invariant, PTL

(* LpelStreamPoll returns a stream of its set that has an item, with the   *)
(* poll token back at 0.                                                   *)
THEOREM PollResult == Spec => []PollReturnsReady
  <1>1. ASSUME IInv PROVE PollReturnsReady
    <2> SUFFICES ASSUME NEW t \in Tasks, pc[t] = "p_unreg"
                 PROVE  /\ poll_token[t] = 0
                        /\ \E j \in DOMAIN set[t] : set[t][j] = wakeup_sd[t]
                        /\ LpelBufferTop(wakeup_sd[t]) # NULL
      BY DEF PollReturnsReady
    <2>1. TokensOf(t) /\ ReadyOf(t) BY <1>1, StreamFacts, TaskFacts
    <2>2. poll_token[t] = 0 BY <1>1, <2>1, TaskTypes DEF TokensOf
    <2>3. PICK s \in Streams : s = wakeup_sd[t] BY <1>1, TaskTypes
    <2>4. InSet(t, s) /\ nw[s] > nr[s] BY <2>1, <2>3 DEF ReadyOf
    <2>5. LpelBufferTop(s) = NULL <=> nw[s] = nr[s] BY <1>1, BufferOf
    <2>6. nw[s] \in Nat /\ nr[s] \in Nat BY <1>1, StreamTypes
    <2>7. LpelBufferTop(s) # NULL BY SMTT(60), SMTT(120), <2>4, <2>5, <2>6
    <2> QED BY <2>2, <2>3, <2>4, <2>7 DEF InSet
  <1> QED BY <1>1, Invariant, PTL

(* Closing and destroying a drained stream never frees what the task at    *)
(* the other end still uses.                                               *)
THEOREM Lifetime == Spec => []NoUseAfterDestroy
  <1>1. ASSUME IInv PROVE NoUseAfterDestroy
    <2> SUFFICES ASSUME NEW t \in Tasks, NEW s \in Streams, s = sd[t]
        PROVE
        /\ pc[t] \in WritePcs \cup ReadPcs => alive[s]
        /\ pc[t] = "w_poll" /\ is_poll[s] => rOpen[s]
        /\ pc[t] \in {"w_wake_read", "w_wake_poll"} => rOpen[s]
        /\ pc[t] = "r_wake" => wOpen[s]
      <3>1. \A u \in Tasks : sd[u] \in Streams BY <1>1, TaskTypes
      <3> QED BY <3>1 DEF NoUseAfterDestroy, WritePcs, ReadPcs
    <2>1. PICK p \in Tasks : p = Producer[s] BY <1>1, StreamTypes
    <2>2. PICK c \in Tasks : c = Consumer[s] BY <1>1, StreamTypes
    <2>3. /\ RolesOf(t) /\ RolesOf(p) /\ RolesOf(c) /\ TokensOf(t)
          /\ CountsOf(s) /\ WaitsOf(s) /\ LifeOf(s) /\ SetOf(c)
          /\ RegisteredOf(s) /\ ReadyOf(c)
      BY <1>1, StreamFacts, TaskFacts
    <2>4. /\ nw[s] \in Nat /\ nr[s] \in Nat /\ n_sem[s] \in Int
          /\ Last[s] \in Nat
      BY <1>1, StreamTypes
    <2>5. InSet(c, s) => rOpen[s] BY <2>3 DEF InSet, SetOf
    <2>6. pc[t] \in ReadPcs => rOpen[s] /\ t = c
      BY <2>2, <2>3 DEF RolesOf
    <2>7. pc[t] \in WritePcs => t = p BY <2>1, <2>3 DEF RolesOf
    <2>8. pc[t] = "w_wake_read" => rOpen[s]
      <3> SUFFICES ASSUME pc[t] = "w_wake_read" PROVE rOpen[s] OBVIOUS
      <3>1. At(p, {"w_wake_read"}, s) BY <2>7 DEF At, WritePcs
      <3>2. At(c, {"r_blk"}, s) BY <2>1, <2>2, <2>3, <3>1 DEF WaitsOf
      <3> QED BY <2>3, <3>2 DEF At, RolesOf, ReadPcs
    <2>9. pc[t] = "w_wake_poll" => rOpen[s]
      <3> SUFFICES ASSUME pc[t] = "w_wake_poll" PROVE rOpen[s] OBVIOUS
      <3>1. HoldsToken(t, c) BY <2>2, <2>3 DEF HoldsToken, TokensOf
      <3>2. InSet(c, sd[t]) BY <2>3, <3>1 DEF ReadyOf
      <3> QED BY <2>5, <3>2
    <2>10. pc[t] = "w_poll" /\ is_poll[s] => rOpen[s]
      BY <2>2, <2>3, <2>5 DEF RegisteredOf, InSet
    <2>11. pc[t] = "r_wake" => wOpen[s]
      <3> SUFFICES ASSUME pc[t] = "r_wake" PROVE wOpen[s] OBVIOUS
      <3>1. At(c, {"r_wake"}, s) BY <2>6 DEF At, ReadPcs
      <3>2. At(p, {"w_blk"}, s) BY <2>1, <2>2, <2>3, <3>1 DEF WaitsOf
      <3> QED BY <2>3, <3>2 DEF At, RolesOf, WritePcs
    <2>12. pc[t] \in {"w_try", "w_blk", "w_put"} => alive[s]
      <3> SUFFICES ASSUME pc[t] \in {"w_try", "w_blk", "w_put"}
                   PROVE  alive[s]
        OBVIOUS
      <3>1. At(p, {"w_try", "w_blk", "w_put"}, s) BY <2>7 DEF At, WritePcs
      <3>2. nw[s] < Last[s] /\ nr[s] <= nw[s]
        BY <2>1, <2>3, <3>1 DEF LifeOf, CountsOf
      <3>3. nr[s] # Last[s] BY SMTT(60), SMTT(120), <2>4, <3>2
      <3> QED BY <2>3, <3>3 DEF LifeOf
    <2>13. pc[t] \in {"w_poll", "w_v"} => alive[s]
      <3> SUFFICES ASSUME pc[t] \in {"w_poll", "w_v"}, ~alive[s]
                   PROVE  FALSE
        OBVIOUS
      <3>1. At(p, {"w_poll", "w_v"}, s) BY <2>7 DEF At, WritePcs
      <3>2. /\ nr[s] <= nw[s] /\ n_sem[s] >= -1
            /\ n_sem[s] = nw[s] - nr[s] - 1
                                - One(At(c, {"r_blk", "r_pop"}, s))
        BY <2>1, <2>2, <2>3, <3>1 DEF CountsOf, One
      <3>3. nw[s] <= Last[s] /\ nr[s] = Last[s] BY <2>3 DEF LifeOf
      <3>4. n_sem[s] = -1 - One(At(c, {"r_blk", "r_pop"}, s))
        BY SMTT(60), SMTT(120), <2>4, <3>2, <3>3 DEF One
      <3>5. n_sem[s] = -1 BY SMTT(60), SMTT(120), <2>4, <3>2, <3>4 DEF One
      <3>6. At(c, {"r_blk"}, s) BY <2>2, <2>3, <3>5 DEF WaitsOf
      <3>7. rOpen[s] BY <2>3, <3>6 DEF At, RolesOf, ReadPcs
      <3> QED BY <2>3, <3>7 DEF LifeOf
    <2>14. pc[t] \in WritePcs \cup ReadPcs => alive[s]
      BY <2>3, <2>6, <2>8, <2>9, <2>12, <2>13 DEF WritePcs, LifeOf
    <2> QED BY <2>8, <2>9, <2>10, <2>11, <2>14
  <1> QED BY <1>1, Invariant, PTL

----------------------------------------------------------------------------
(* DecenStream implements the contract of TaskPark: every step of the      *)
(* streams is a step of the contract for one task, or none.  The mapping   *)
(* is park of DecenStream.                                                 *)

(* The value of the mapping for one task. *)
ParkOf(t) ==
  IF wake[t] > 0 THEN "granted"
  ELSE IF \/ pc[t] \in {"r_blk", "w_blk", "p_blk"}
          \/ \E u \in Tasks : HoldsToken(u, t)
       THEN "parking" ELSE "running"

(* The changes that the contract allows. *)
ParkMove(a, b) ==
  \/ a = b
  \/ a = "running" /\ b = "parking"
  \/ a = "parking" /\ b = "granted"
  \/ a = "granted" /\ b = "running"

(* A step that changes the state of one task at most, in a way that the    *)
(* contract allows, is a step of the contract.                             *)
LEMMA OneMoves ==
  ASSUME NEW x \in Tasks,
         \A t \in Tasks : t # x => ParkOf(t)' = ParkOf(t),
         ParkMove(ParkOf(x), ParkOf(x)')
  PROVE  [Park!Next]_park
  <1>1. park = [t \in Tasks |-> ParkOf(t)] BY DEF park, ParkOf
  <1>2. park' = [t \in Tasks |-> ParkOf(t)'] BY DEF park, ParkOf
  <1>3. park' = [park EXCEPT ![x] = ParkOf(x)'] BY <1>1, <1>2
  <1>4. park[x] = ParkOf(x) BY <1>1
  <1>5. CASE ParkOf(x)' = ParkOf(x)
    <2>1. park' = park BY <1>1, <1>2, <1>5
    <2> QED BY <2>1
  <1>6. CASE ParkOf(x) = "running" /\ ParkOf(x)' = "parking"
    <2>1. Park!Decide(x) BY <1>3, <1>4, <1>6 DEF Park!Decide
    <2> QED BY <2>1 DEF Park!Next
  <1>7. CASE ParkOf(x) = "parking" /\ ParkOf(x)' = "granted"
    <2>1. Park!Unblock(x) BY <1>3, <1>4, <1>7 DEF Park!Unblock
    <2> QED BY <2>1 DEF Park!Next
  <1>8. CASE ParkOf(x) = "granted" /\ ParkOf(x)' = "running"
    <2>1. Park!Resume(x) BY <1>3, <1>4, <1>8 DEF Park!Resume
    <2> QED BY <2>1 DEF Park!Next
  <1> QED BY <1>5, <1>6, <1>7, <1>8 DEF ParkMove

----------------------------------------------------------------------------
(* What a step of t leaves alone. *)

TaskMove(t) ==
  \A u \in Tasks : u # t =>
    pc'[u] = pc[u] /\ sd'[u] = sd[u] /\ poll_wakeup'[u] = poll_wakeup[u]

SameTokens(t) == \A x \in Tasks : HoldsToken(t, x)' <=> HoldsToken(t, x)

Waited(x) == \E u \in Tasks : HoldsToken(u, x)

(* A task that is not woken and whose token is not taken is as it was. *)
LEMMA Frame ==
  ASSUME NEW t \in Tasks, TaskMove(t), SameTokens(t)
  PROVE  /\ \A x \in Tasks : Waited(x)' <=> Waited(x)
         /\ \A x \in Tasks : x # t /\ wake'[x] = wake[x] =>
              ParkOf(x)' = ParkOf(x)
  <1>1. \A u \in Tasks : \A x \in Tasks : HoldsToken(u, x)' <=> HoldsToken(u, x)
    BY DEF TaskMove, SameTokens, HoldsToken
  <1>2. \A x \in Tasks : Waited(x)' <=> Waited(x) BY <1>1 DEF Waited
  <1>3. ASSUME NEW x \in Tasks, x # t, wake'[x] = wake[x]
        PROVE  ParkOf(x)' = ParkOf(x)
    <2>1. pc'[x] = pc[x] BY <1>3 DEF TaskMove
    <2> QED BY <1>2, <1>3, <2>1 DEF ParkOf, Waited
  <1> QED BY <1>2, <1>3

(* The state of a task, from the three things it depends on. *)
LEMMA ParkValue ==
  ASSUME NEW t \in Tasks, wake[t] \in {0, 1}
  PROVE  /\ wake[t] = 1 => ParkOf(t) = "granted"
         /\ wake[t] = 0 /\ (pc[t] \in {"r_blk", "w_blk", "p_blk"} \/ Waited(t)) =>
              ParkOf(t) = "parking"
         /\ wake[t] = 0 /\ pc[t] \notin {"r_blk", "w_blk", "p_blk"} /\ ~Waited(t) =>
              ParkOf(t) = "running"
  BY SMTT(60), SMTT(120) DEF ParkOf, Waited

(* The same after a step. *)
LEMMA ParkValueNext ==
  ASSUME NEW t \in Tasks, wake'[t] \in {0, 1}
  PROVE  /\ wake'[t] = 1 => ParkOf(t)' = "granted"
         /\ wake'[t] = 0 /\ (pc'[t] \in {"r_blk", "w_blk", "p_blk"} \/ Waited(t)') =>
              ParkOf(t)' = "parking"
         /\ wake'[t] = 0 /\ pc'[t] \notin {"r_blk", "w_blk", "p_blk"} /\ ~Waited(t)' =>
              ParkOf(t)' = "running"
  BY SMTT(60), SMTT(120) DEF ParkOf, Waited

(* A task that runs has no wakeup on its way and its token is not taken;   *)
(* a poller's token is taken only while none is.                           *)
LEMMA TokenValue ==
  ASSUME IInv, NEW t \in Tasks
  PROVE  /\ wake[t] \in {0, 1}
         /\ wake[t] = 1 => ~Waited(t)
         /\ pc[t] \notin {"r_blk", "w_blk", "p_reg", "p_blk"} => wake[t] = 0
         /\ pc[t] \notin {"p_reg", "p_blk"} => ~Waited(t)
         /\ poll_token[t] = 1 => wake[t] = 0 /\ ~Waited(t)
  <1>1. TokensOf(t) BY TaskFacts
  <1> QED BY SMTT(60), SMTT(120), <1>1 DEF TokensOf, Waited

(* A step by which a task that is not blocked wakes nobody: it goes on, or *)
(* finds that it must wait.  A poller whose token is taken is bound to     *)
(* block before and after the step.                                        *)
LEMMA Quiet ==
  ASSUME IInv, NEW t \in Tasks, TaskMove(t), SameTokens(t), UNCHANGED wake,
         pc[t] \notin {"r_blk", "w_blk", "p_blk"}
  PROVE  [Park!Next]_park
  <1>1. wake[t] \in {0, 1} /\ wake'[t] = wake[t] BY TokenValue
  <1>2. Waited(t)' <=> Waited(t) BY Frame
  <1>3. ParkMove(ParkOf(t), ParkOf(t)')
    BY <1>1, <1>2, ParkValue, ParkValueNext DEF ParkMove
  <1>4. \A x \in Tasks : x # t => ParkOf(x)' = ParkOf(x) BY Frame
  <1> QED BY <1>3, <1>4, OneMoves

(* The return of LpelTaskBlockStream. *)
LEMMA Resumes ==
  ASSUME IInv, NEW t \in Tasks, TaskMove(t), SameTokens(t), Resume(t),
         pc'[t] \notin {"r_blk", "w_blk", "p_blk"}
  PROVE  [Park!Next]_park
  <1>1. wake \in [Tasks -> Nat] BY TypeFact DEF TypeOK
  <1>2. wake[t] \in {0, 1} /\ (wake[t] = 1 => ~Waited(t)) BY TokenValue
  <1>3. wake[t] = 1 BY SMTT(60), SMTT(120), <1>2 DEF Resume
  <1>4. /\ wake'[t] = wake[t] - 1
        /\ \A x \in Tasks : x # t => wake'[x] = wake[x]
    BY <1>1 DEF Resume
  <1>5. wake'[t] = 0 BY SMTT(60), SMTT(120), <1>3, <1>4
  <1>6. ~Waited(t)' BY <1>2, <1>3, Frame
  <1>7. ParkOf(t) = "granted" BY <1>3, ParkValue
  <1>8. ParkOf(t)' = "running" BY <1>5, <1>6, ParkValueNext
  <1>9. \A x \in Tasks : x # t => ParkOf(x)' = ParkOf(x) BY <1>4, Frame
  <1> QED BY <1>7, <1>8, <1>9, OneMoves DEF ParkMove

(* LpelTaskUnblock of a task c that is bound to block. *)
LEMMA Unblocks ==
  ASSUME IInv, NEW c \in Tasks, LpelTaskUnblock(c),
         wake[c] = 0, ParkOf(c) = "parking",
         \A x \in Tasks : x # c /\ wake'[x] = wake[x] => ParkOf(x)' = ParkOf(x)
  PROVE  [Park!Next]_park
  <1>1. wake \in [Tasks -> Nat] BY TypeFact DEF TypeOK
  <1>2. /\ wake'[c] = wake[c] + 1
        /\ \A x \in Tasks : x # c => wake'[x] = wake[x]
    BY <1>1 DEF LpelTaskUnblock
  <1>3. wake'[c] = 1 BY SMTT(60), SMTT(120), <1>2
  <1>4. ParkOf(c)' = "granted" BY <1>3, ParkValueNext
  <1> QED BY <1>2, <1>4, OneMoves DEF ParkMove

----------------------------------------------------------------------------
(* The steps. *)

(* A step of t in which it neither takes nor gives up a poll token. *)
LEMMA TokenlessStep ==
  ASSUME NEW t \in Tasks,
         pc[t] \notin {"w_v", "w_wake_poll"}, pc'[t] \notin {"w_v", "w_wake_poll"}
  PROVE  SameTokens(t)
  BY DEF SameTokens, HoldsToken

(* Opening, closing and replacing have no part in the contract. *)
LEMMA LifeRefines ==
  ASSUME IInv, NEW t \in Tasks, NEW s \in Streams,
         \/ OpenWrite(t, s) \/ OpenRead(t, s) \/ CloseWrite(t, s)
         \/ CloseRead(t, s)
         \/ \E snew \in Streams : LpelStreamReplace(t, s, snew)
  PROVE  [Park!Next]_park
  <1>1. UNCHANGED <<pc, sd, wake, poll_wakeup>> /\ pc[t] = "user"
    <2>1. CASE OpenWrite(t, s) BY <2>1 DEF OpenWrite, ctlvars, pollvars
    <2>2. CASE OpenRead(t, s) BY <2>2 DEF OpenRead, ctlvars, pollvars
    <2>3. CASE CloseWrite(t, s) BY <2>3 DEF CloseWrite, ctlvars, pollvars
    <2>4. CASE CloseRead(t, s) BY <2>4 DEF CloseRead, ctlvars, pollvars
    <2>5. CASE \E snew \in Streams : LpelStreamReplace(t, s, snew)
       BY <2>5 DEF LpelStreamReplace, ctlvars, pollvars
    <2> QED BY <2>1, <2>2, <2>3, <2>4, <2>5
  <1>2. TaskMove(t) /\ SameTokens(t)
    BY <1>1 DEF TaskMove, SameTokens, HoldsToken
  <1> QED BY <1>1, <1>2, Quiet

(* The steps of LpelStreamPoll before and after it blocks. *)
LEMMA PollRefines ==
  ASSUME IInv, NEW t \in Tasks,
         \/ PollStart(t) \/ PollFast(t) \/ PollToken(t) \/ PollFound(t)
         \/ PollRegister(t) \/ PollUnregister(t)
  PROVE  [Park!Next]_park
  <1>1. pc \in [Tasks -> PcValues] BY TypeFact DEF TypeOK
  <1>2. UNCHANGED <<sd, wake, poll_wakeup>>
    <2>1. CASE PollStart(t) BY <2>1 DEF PollStart
    <2>2. CASE PollFast(t) BY <2>2 DEF PollFast
    <2>3. CASE PollToken(t) BY <2>3 DEF PollToken
    <2>4. CASE PollFound(t) BY <2>4 DEF PollFound
    <2>5. CASE PollRegister(t) BY <2>5 DEF PollRegister
    <2>6. CASE PollUnregister(t) BY <2>6 DEF PollUnregister
    <2> QED BY <2>1, <2>2, <2>3, <2>4, <2>5, <2>6
  <1>3. /\ pc[t] \in {"user", "p_fast", "p_token", "p_reg", "p_unreg"}
        /\ pc'[t] \in {"user", "p_fast", "p_token", "p_reg", "p_blk", "p_unreg"}
        /\ \A u \in Tasks : u # t => pc'[u] = pc[u]
    <2>1. CASE PollStart(t) BY <1>1, <2>1 DEF PollStart, Goto
    <2>2. CASE PollFast(t) BY <1>1, <2>2 DEF PollFast, Goto
    <2>3. CASE PollToken(t) BY <1>1, <2>3 DEF PollToken, Goto
    <2>4. CASE PollFound(t) BY <1>1, <2>4 DEF PollFound, Goto
    <2>5. CASE PollRegister(t) BY <1>1, <2>5 DEF PollRegister, Goto
    <2>6. CASE PollUnregister(t) BY <1>1, <2>6 DEF PollUnregister, Goto
    <2> QED BY <2>1, <2>2, <2>3, <2>4, <2>5, <2>6
  <1>4. TaskMove(t) BY <1>2, <1>3 DEF TaskMove
  <1>5. SameTokens(t) BY <1>3, TokenlessStep
  <1> QED BY <1>2, <1>3, <1>4, <1>5, Quiet

(* P on a semaphore, and the accesses to the buffer. *)
LEMMA BufferRefines ==
  ASSUME IInv, NEW t \in Tasks, NEW s \in Streams,
         \/ TryWrite(t, s) \/ WriteP(t, s) \/ WritePut(t)
         \/ ReadP(t, s) \/ ReadPop(t) \/ ReadV(t)
  PROVE  [Park!Next]_park
  <1>1. pc \in [Tasks -> PcValues] /\ sd \in [Tasks -> Streams]
    BY TypeFact, ZenonT(120) DEF TypeOK
  <1>2. UNCHANGED <<wake, poll_wakeup>>
    <2>1. CASE TryWrite(t, s) BY <2>1 DEF TryWrite, pollvars
    <2>2. CASE WriteP(t, s) BY <2>2 DEF WriteP, pollvars
    <2>3. CASE WritePut(t) BY <2>3 DEF WritePut, pollvars
    <2>4. CASE ReadP(t, s) BY <2>4 DEF ReadP, pollvars
    <2>5. CASE ReadPop(t) BY <2>5 DEF ReadPop, pollvars
    <2>6. CASE ReadV(t) BY <2>6 DEF ReadV, pollvars
    <2> QED BY <2>1, <2>2, <2>3, <2>4, <2>5, <2>6
  <1>3. /\ pc[t] \in {"user", "w_try", "w_put", "r_pop", "r_v"}
        /\ pc'[t] \in {"user", "w_try", "w_blk", "w_put", "w_poll", "r_blk",
                       "r_pop", "r_v", "r_wake"}
        /\ \A u \in Tasks : u # t => pc'[u] = pc[u] /\ sd'[u] = sd[u]
    <2>1. CASE TryWrite(t, s) BY <1>1, <2>1 DEF TryWrite, Goto
    <2>2. CASE WriteP(t, s) BY <1>1, <2>2 DEF WriteP
    <2>3. CASE WritePut(t) BY <1>1, <2>3 DEF WritePut, Goto
    <2>4. CASE ReadP(t, s) BY <1>1, <2>4 DEF ReadP, Goto
    <2>5. CASE ReadPop(t) BY <1>1, <2>5 DEF ReadPop, Goto
    <2>6. CASE ReadV(t) BY <1>1, <2>6 DEF ReadV, Goto
    <2> QED BY <2>1, <2>2, <2>3, <2>4, <2>5, <2>6, ZenonT(60)
  <1>4. TaskMove(t) BY <1>2, <1>3 DEF TaskMove
  <1>5. SameTokens(t) BY <1>3, TokenlessStep
  <1> QED BY <1>2, <1>3, <1>4, <1>5, Quiet

(* The return of LpelTaskBlockStream in write, read and poll. *)
LEMMA ResumeRefines ==
  ASSUME IInv, NEW t \in Tasks,
         WriteResume(t) \/ ReadResume(t) \/ PollResume(t)
  PROVE  [Park!Next]_park
  <1>1. pc \in [Tasks -> PcValues] BY TypeFact DEF TypeOK
  <1>2. UNCHANGED <<sd, poll_wakeup>> /\ Resume(t)
    <2>1. CASE WriteResume(t) BY <2>1 DEF WriteResume, pollvars
    <2>2. CASE ReadResume(t) BY <2>2 DEF ReadResume, pollvars
    <2>3. CASE PollResume(t) BY <2>3 DEF PollResume, pollvars
    <2> QED BY <2>1, <2>2, <2>3
  <1>3. /\ pc[t] \in {"w_blk", "r_blk", "p_blk"}
        /\ pc'[t] \in {"w_put", "r_pop", "p_unreg"}
        /\ \A u \in Tasks : u # t => pc'[u] = pc[u]
    <2>1. CASE WriteResume(t) BY <1>1, <2>1 DEF WriteResume, Goto
    <2>2. CASE ReadResume(t) BY <1>1, <2>2 DEF ReadResume, Goto
    <2>3. CASE PollResume(t) BY <1>1, <2>3 DEF PollResume, Goto
    <2> QED BY <2>1, <2>2, <2>3
  <1>4. TaskMove(t) BY <1>2, <1>3 DEF TaskMove
  <1>5. SameTokens(t) BY <1>3, TokenlessStep
  <1> QED BY <1>2, <1>3, <1>4, <1>5, Resumes

(* A writer that holds a token finds no reader to wake: the consumer is in *)
(* its poll.  So the token is kept from w_v to w_wake_poll.                *)
LEMMA WriteVRefines ==
  ASSUME IInv, NEW t \in Tasks, WriteV(t)
  PROVE  [Park!Next]_park
  <1>1. pc \in [Tasks -> PcValues] BY TypeFact DEF TypeOK
  <1>s. PICK s \in Streams : s = sd[t] BY TaskTypes
  <1>c. PICK c \in Tasks : c = Consumer[s] BY StreamTypes
  <1>2. UNCHANGED <<sd, wake, poll_wakeup>> BY DEF WriteV, pollvars
  <1>3. /\ pc[t] = "w_v"
        /\ pc'[t] = IF n_sem[s] < 0 THEN "w_wake_read"
                    ELSE IF poll_wakeup[t] = 1 THEN "w_wake_poll" ELSE "user"
        /\ \A u \in Tasks : u # t => pc'[u] = pc[u]
    BY <1>1, <1>s DEF WriteV
  <1>4. TaskMove(t) BY <1>2, <1>3 DEF TaskMove
  <1>5. poll_wakeup[t] = 1 => ~(n_sem[s] < 0)
    <2> SUFFICES ASSUME poll_wakeup[t] = 1, n_sem[s] < 0 PROVE FALSE OBVIOUS
    <2>1. n_sem[s] = -1 BY SMTT(60), SMTT(120), StreamTypes
    <2>2. pc[c] = "r_blk" BY <1>c, <2>1, StreamFacts DEF WaitsOf, At
    <2>3. HoldsToken(t, c) BY <1>s, <1>c, <1>3 DEF HoldsToken
    <2>4. Waited(c) BY <2>3 DEF Waited
    <2> QED BY <2>2, <2>4, TokenValue
  <1>6. SameTokens(t)
    BY <1>2, <1>3, <1>5 DEF SameTokens, HoldsToken
  <1> QED BY <1>2, <1>3, <1>4, <1>6, Quiet

(* A task that has nobody's token is as it was when it only goes on. *)
LEMMA StaysRunning ==
  ASSUME IInv, NEW t \in Tasks, wake'[t] = wake[t],
         pc[t] \notin {"r_blk", "w_blk", "p_reg", "p_blk"},
         pc'[t] \notin {"r_blk", "w_blk", "p_blk"},
         ~Waited(t)'
  PROVE  ParkOf(t)' = ParkOf(t)
  <1>1. wake[t] = 0 /\ ~Waited(t) BY TokenValue
  <1> QED BY SMTT(60), SMTT(120), <1>1, ParkValue, ParkValueNext

(* LpelTaskUnblock of the task at the other end, which waits in its read   *)
(* or write.                                                               *)
LEMMA WakeRefines ==
  ASSUME IInv, NEW t \in Tasks, WriteWakeRead(t) \/ ReadWake(t)
  PROVE  [Park!Next]_park
  <1>1. pc \in [Tasks -> PcValues] /\ wake \in [Tasks -> Nat]
    BY TypeFact, ZenonT(120) DEF TypeOK
  <1>s. PICK s \in Streams : s = sd[t] BY TaskTypes
  <1>2. UNCHANGED <<sd, poll_wakeup>>
    <2>1. CASE WriteWakeRead(t) BY <2>1 DEF WriteWakeRead, pollvars
    <2>2. CASE ReadWake(t) BY <2>2 DEF ReadWake, pollvars
    <2> QED BY <2>1, <2>2
  <1>3. /\ pc[t] \in {"w_wake_read", "r_wake"} /\ pc'[t] = "user"
        /\ \A u \in Tasks : u # t => pc'[u] = pc[u]
    <2>1. CASE WriteWakeRead(t) BY <1>1, <2>1 DEF WriteWakeRead, Goto
    <2>2. CASE ReadWake(t) BY <1>1, <2>2 DEF ReadWake, Goto
    <2> QED BY <2>1, <2>2
  <1>4. TaskMove(t) BY <1>2, <1>3 DEF TaskMove
  <1>5. SameTokens(t) BY <1>3, TokenlessStep
  <1>6. PICK c \in Tasks : /\ LpelTaskUnblock(c) /\ wake[c] = 0
                           /\ pc[c] \in {"r_blk", "w_blk"}
    <2>0. /\ RolesOf(t) /\ WaitsOf(s) BY StepFacts
    <2>1. CASE WriteWakeRead(t)
      <3>1. pc[t] = "w_wake_read" /\ LpelTaskUnblock(Consumer[s])
        BY <1>s, <2>1 DEF WriteWakeRead, Goto
      <3>2. t = Producer[s] BY <1>s, <2>0, <3>1 DEF RolesOf, WritePcs
      <3>3. At(Consumer[s], {"r_blk"}, s) /\ wake[Consumer[s]] = 0
        BY <1>s, <2>0, <3>1, <3>2, ZenonT(120) DEF WaitsOf, At
      <3> QED BY <3>1, <3>3, StreamTypes DEF At
    <2>2. CASE ReadWake(t)
      <3>1. pc[t] = "r_wake" /\ LpelTaskUnblock(Producer[s])
        BY <1>s, <2>2 DEF ReadWake, Goto
      <3>2. t = Consumer[s] BY <1>s, <2>0, <3>1 DEF RolesOf, ReadPcs
      <3>3. At(Producer[s], {"w_blk"}, s) /\ wake[Producer[s]] = 0
        BY <1>s, <2>0, <3>1, <3>2, ZenonT(120) DEF WaitsOf, At
      <3> QED BY <3>1, <3>3, StreamTypes DEF At
    <2> QED BY <2>1, <2>2
  <1>7. ParkOf(c) = "parking" BY <1>6, ParkValue
  <1>8. ASSUME NEW x \in Tasks, wake'[x] = wake[x]
        PROVE  ParkOf(x)' = ParkOf(x)
    <2>1. CASE x # t BY <1>4, <1>5, <1>8, <2>1, Frame
    <2>2. CASE x = t
      <3>1. ~Waited(t)' BY <1>3, <1>4, <1>5, Frame, TokenValue
      <3>2. wake'[t] = wake[t] BY <1>8, <2>2
      <3>3. ParkOf(t)' = ParkOf(t) BY <1>3, <3>1, <3>2, StaysRunning
      <3> QED BY <2>2, <3>3
    <2> QED BY <2>1, <2>2
  <1> QED BY <1>6, <1>7, <1>8, Unblocks

(* Only the state of the consumer depends on the token of a writer. *)
LEMMA OtherTokens ==
  ASSUME NEW t \in Tasks, TaskMove(t), NEW c \in Tasks,
         \A x \in Tasks : x # c => ~HoldsToken(t, x) /\ ~HoldsToken(t, x)'
  PROVE  \A x \in Tasks : x # c => (Waited(x)' <=> Waited(x))
  <1> TAKE x \in Tasks
  <1> HAVE x # c
  <1>1. ASSUME NEW u \in Tasks PROVE HoldsToken(u, x)' <=> HoldsToken(u, x)
    <2>1. CASE u = t BY <2>1
    <2>2. CASE u # t BY <2>2 DEF TaskMove, HoldsToken
    <2> QED BY <2>1, <2>2
  <1> QED BY <1>1 DEF Waited

(* Hence the other tasks are as they were, the writer included. *)
LEMMA OthersStay ==
  ASSUME IInv, NEW t \in Tasks, TaskMove(t), NEW c \in Tasks, c # t,
         \A x \in Tasks : x # c => ~HoldsToken(t, x) /\ ~HoldsToken(t, x)',
         pc[t] \notin {"r_blk", "w_blk", "p_reg", "p_blk"},
         pc'[t] \notin {"r_blk", "w_blk", "p_blk"}
  PROVE  \A x \in Tasks : x # c /\ wake'[x] = wake[x] => ParkOf(x)' = ParkOf(x)
  <1> TAKE x \in Tasks
  <1> HAVE x # c /\ wake'[x] = wake[x]
  <1>1. Waited(x)' <=> Waited(x) BY OtherTokens
  <1>2. CASE x = t
    <2>1. ~Waited(t)' BY <1>1, <1>2, TokenValue
    <2>2. ParkOf(t)' = ParkOf(t) BY <1>2, <2>1, StaysRunning
    <2> QED BY <1>2, <2>2
  <1>3. CASE x # t
    <2>1. pc'[x] = pc[x] BY <1>3 DEF TaskMove
    <2> QED BY <1>1, <2>1 DEF ParkOf, Waited
  <1> QED BY <1>2, <1>3

(* The writer that holds the token wakes the poller. *)
LEMMA WakePollRefines ==
  ASSUME IInv, NEW t \in Tasks, WriteWakePoll(t)
  PROVE  [Park!Next]_park
  <1>1. /\ pc \in [Tasks -> PcValues] /\ poll_wakeup \in [Tasks -> {0, 1}]
    BY TypeFact, ZenonT(120) DEF TypeOK
  <1>s. PICK s \in Streams : s = sd[t] BY TaskTypes
  <1>c. PICK c \in Tasks : c = Consumer[s] BY StreamTypes
  <1>2. /\ UNCHANGED sd /\ LpelTaskUnblock(c)
        /\ pc[t] = "w_wake_poll" /\ pc'[t] = "user"
        /\ \A u \in Tasks : u # t =>
             pc'[u] = pc[u] /\ poll_wakeup'[u] = poll_wakeup[u]
    BY <1>1, <1>s, <1>c DEF WriteWakePoll, Goto
  <1>3. TaskMove(t) BY <1>2 DEF TaskMove
  <1>4. poll_wakeup[t] = 1 BY <1>2, TaskFacts DEF TokensOf
  <1>5. HoldsToken(t, c) BY <1>s, <1>c, <1>2, <1>4 DEF HoldsToken
  <1>6. wake[c] = 0 /\ pc[c] \in {"p_reg", "p_blk"}
    BY <1>5, TaskFacts DEF TokensOf
  <1>7. ParkOf(c) = "parking"
    <2>1. Waited(c) BY <1>5 DEF Waited
    <2> QED BY <1>6, <2>1, ParkValue
  <1>8. \A x \in Tasks : x # c => ~HoldsToken(t, x) /\ ~HoldsToken(t, x)'
    BY <1>s, <1>c, <1>2 DEF HoldsToken
  <1>9. c # t BY <1>2, <1>6
  <1>10. \A x \in Tasks : x # c /\ wake'[x] = wake[x] => ParkOf(x)' = ParkOf(x)
    BY <1>2, <1>3, <1>8, <1>9, OthersStay
  <1> QED BY <1>2, <1>6, <1>7, <1>10, Unblocks

(* A writer that takes the token of a poller commits it to block, even if  *)
(* the poller is still in its loop and finds data on another stream.       *)
LEMMA CheckPollRefines ==
  ASSUME IInv, NEW t \in Tasks, WriteCheckPoll(t)
  PROVE  [Park!Next]_park
  <1>1. /\ pc \in [Tasks -> PcValues] /\ poll_wakeup \in [Tasks -> {0, 1}]
    BY TypeFact, ZenonT(120) DEF TypeOK
  <1>s. PICK s \in Streams : s = sd[t] BY TaskTypes
  <1>c. PICK c \in Tasks : c = Consumer[s] BY StreamTypes
  <1>2. /\ UNCHANGED <<sd, wake>> /\ pc[t] = "w_poll" /\ pc'[t] = "w_v"
        /\ poll_wakeup'[t] = IF is_poll[s] THEN poll_token[c] ELSE 0
        /\ \A u \in Tasks : u # t =>
             pc'[u] = pc[u] /\ poll_wakeup'[u] = poll_wakeup[u]
    BY <1>1, <1>s, <1>c DEF WriteCheckPoll, Goto
  <1>3. TaskMove(t) BY <1>2 DEF TaskMove
  <1>4. CASE poll_wakeup'[t] # 1
    <2>1. SameTokens(t) BY <1>2, <1>4 DEF SameTokens, HoldsToken
    <2> QED BY <1>2, <1>3, <2>1, Quiet
  <1>5. CASE poll_wakeup'[t] = 1
    <2>1. poll_token[c] = 1
      <3>1. 0 # 1 BY SMTT(60), SMTT(120)
      <3> QED BY <1>2, <1>5, <3>1
    <2>2. wake[c] = 0 /\ ~Waited(c) BY <2>1, TokenValue
    <2>3. pc[c] \in {"p_reg", "p_blk"} BY <2>1, TaskFacts DEF TokensOf
    <2>4. c # t BY <1>2, <2>3
    <2>5. HoldsToken(t, c)' BY <1>s, <1>c, <1>2, <1>5 DEF HoldsToken
    <2>6. ParkOf(c)' = "parking"
      <3>1. Waited(c)' BY <2>5 DEF Waited
      <3>2. wake'[c] = 0 BY <1>2, <2>2
      <3> QED BY <3>1, <3>2, ParkValueNext
    <2>7. ParkOf(c) \in {"running", "parking"} BY <2>2, ParkValue
    <2>8. \A x \in Tasks : x # c => ~HoldsToken(t, x) /\ ~HoldsToken(t, x)'
      BY <1>s, <1>c, <1>2 DEF HoldsToken
    <2>9. \A x \in Tasks : x # c => ParkOf(x)' = ParkOf(x)
      BY <1>2, <1>3, <2>4, <2>8, OthersStay
    <2> QED BY <2>6, <2>7, <2>9, OneMoves DEF ParkMove
  <1> QED BY <1>4, <1>5

----------------------------------------------------------------------------
(* Every step of the streams is a step of the contract, or none. *)
LEMMA StepRefines == IInv /\ [Next]_vars => [Park!Next]_park
  <1> SUFFICES ASSUME IInv, [Next]_vars PROVE [Park!Next]_park OBVIOUS
  <1>1. ASSUME NEW t \in Tasks, Step(t) PROVE [Park!Next]_park
    <2>s. PICK s \in Streams : s = sd[t] BY TaskTypes
    <2> QED
      BY <1>1, <2>s, BufferRefines, PollRefines, ResumeRefines, WriteVRefines,
         WakeRefines, WakePollRefines, CheckPollRefines, ZenonT(120) DEF Step
  <1>2. ASSUME NEW t \in Tasks, Call(t) PROVE [Park!Next]_park
    BY <1>2, BufferRefines, PollRefines, LifeRefines DEF Call
  <1>3. ASSUME UNCHANGED vars PROVE [Park!Next]_park
    <2>1. UNCHANGED <<pc, sd, wake, poll_wakeup>>
      BY <1>3 DEF vars, ctlvars, pollvars
    <2>2. UNCHANGED park BY <2>1 DEF park, HoldsToken
    <2> QED BY <2>2
  <1> QED BY <1>1, <1>2, <1>3 DEF Next, Finished

(* No task waits at the start. *)
LEMMA InitRefines == Init => Park!Init
  <1> SUFFICES ASSUME Init PROVE Park!Init OBVIOUS
  <1>1. \A t \in Tasks : wake[t] = 0 /\ pc[t] = "user" BY DEF Init
  <1>2. \A t \in Tasks : ~Waited(t) BY <1>1, ZenonT(120) DEF Waited, HoldsToken
  <1>3. \A t \in Tasks : ParkOf(t) = "running"
    BY <1>1, <1>2, ParkValue, ZenonT(120)
  <1> QED BY <1>3 DEF Park!Init, park, ParkOf

(* The streams implement the safety part of the contract with the task     *)
(* layer, for any number of tasks and streams: LpelTaskUnblock is called   *)
(* only for a task that is bound to block, and once for each time that it  *)
(* blocks.                                                                 *)
THEOREM Refinement == Spec => Park!Spec
  BY Invariant, StepRefines, InitRefines, PTL DEF Spec, Park!Spec
=============================================================================
