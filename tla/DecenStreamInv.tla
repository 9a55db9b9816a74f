--------------------------- MODULE DecenStreamInv ---------------------------
(***************************************************************************)
(* The inductive invariant of DecenStream, from which its safety           *)
(* properties follow.  It says what each counter, cursor and flag stands   *)
(* for at every point of the operations in progress.                       *)
(***************************************************************************)
EXTENDS DecenStream

At(t, places, s) == pc[t] \in places /\ sd[t] = s
One(b) == IF b THEN 1 ELSE 0

WritePcs == {"w_try", "w_blk", "w_put", "w_poll", "w_v", "w_wake_read",
             "w_wake_poll"}
ReadPcs == {"r_blk", "r_pop", "r_v", "r_wake"}

(* An operation is executed by the task at the right, open end. *)
RolesOf(t) ==
  /\ pc[t] \in WritePcs => t = Producer[sd[t]] /\ wOpen[sd[t]]
  /\ pc[t] \in ReadPcs => t = Consumer[sd[t]] /\ rOpen[sd[t]]

(* What n_sem and e_sem count: the items, resp. the free slots, less the   *)
(* operations that are between their change of the buffer and their        *)
(* change of the semaphore.                                                *)
CountsOf(s) ==
  LET p == Producer[s]
      c == Consumer[s]
  IN  /\ nr[s] <= nw[s] /\ nw[s] <= nr[s] + Size[s]
      /\ n_sem[s] = nw[s] - nr[s] - One(At(p, {"w_poll", "w_v"}, s))
                                  - One(At(c, {"r_blk", "r_pop"}, s))
      /\ e_sem[s] = Size[s] - (nw[s] - nr[s])
                            - One(At(p, {"w_blk", "w_put"}, s))
                            - One(At(c, {"r_v"}, s))
      /\ n_sem[s] >= -1 /\ e_sem[s] >= -1
      /\ At(c, {"r_pop"}, s) => n_sem[s] >= 0
      /\ At(p, {"w_put"}, s) => e_sem[s] >= 0

(* The slots hold the items nr+1 .. nw, the oldest one at pread. *)
Offset(s, i) == IF i >= pread[s] THEN i - pread[s] ELSE i - pread[s] + Size[s]

RingOf(s) ==
  LET k == nw[s] - nr[s]
  IN  /\ pwrite[s] = IF pread[s] + k < Size[s] THEN pread[s] + k
                                               ELSE pread[s] + k - Size[s]
      /\ \A i \in Slots(s) :
           data[s][i] = IF Offset(s, i) < k THEN nr[s] + 1 + Offset(s, i)
                                            ELSE NULL

(* A semaphore at -1 stands for a waiting task that nobody has woken; a    *)
(* task that is being woken waits, and no second wakeup is on its way.     *)
WaitsOf(s) ==
  LET p == Producer[s]
      c == Consumer[s]
  IN  /\ n_sem[s] = -1 => At(c, {"r_blk"}, s) /\ wake[c] = 0
      /\ At(p, {"w_wake_read"}, s) =>
           At(c, {"r_blk"}, s) /\ wake[c] = 0 /\ n_sem[s] >= 0
      /\ At(c, {"r_blk"}, s) =>
           n_sem[s] = -1 \/ wake[c] = 1 \/ At(p, {"w_wake_read"}, s)
      /\ e_sem[s] = -1 => At(p, {"w_blk"}, s) /\ wake[p] = 0
      /\ At(c, {"r_wake"}, s) =>
           At(p, {"w_blk"}, s) /\ wake[p] = 0 /\ e_sem[s] >= 0
      /\ At(p, {"w_blk"}, s) =>
           e_sem[s] = -1 \/ wake[p] = 1 \/ At(c, {"r_wake"}, s)

(* A poller's token is with the poller, with one writer that will wake it, *)
(* or spent for a wakeup on its way.                                       *)
TokensOf(t) ==
  /\ wake[t] \in {0, 1}
  /\ wake[t] = 1 => pc[t] \in {"r_blk", "w_blk", "p_reg", "p_blk"}
  /\ pc[t] = "w_wake_poll" => poll_wakeup[t] = 1
  /\ poll_token[t] = 1 => pc[t] \in {"p_reg", "p_blk"} /\ wake[t] = 0
  /\ \A u \in Tasks : HoldsToken(u, t) =>
       /\ pc[t] \in {"p_reg", "p_blk"}
       /\ poll_token[t] = 0 /\ wake[t] = 0
       /\ \A v \in Tasks : HoldsToken(v, t) => v = u
  /\ pc[t] \in {"p_reg", "p_blk"} /\ poll_token[t] = 0 =>
       wake[t] = 1 \/ \E u \in Tasks : HoldsToken(u, t)

(* The lock is held by the writer that has put its item and not looked at  *)
(* is_poll yet.                                                            *)
LockOf(s) == prod_lock[s] <=> At(Producer[s], {"w_poll"}, s)

(* Records come to an end, and only a drained stream is destroyed. *)
LifeOf(s) ==
  /\ nw[s] <= Last[s]
  /\ At(Producer[s], {"w_try", "w_blk", "w_put"}, s) => nw[s] < Last[s]
  /\ At(Consumer[s], {"r_blk", "r_pop"}, s) => nr[s] < Last[s]
  /\ rOpen[s] => alive[s]
  /\ ~alive[s] => nr[s] = Last[s]

(* A task's set holds exactly the streams it has open for reading. *)
InSet(t, s) == \E j \in DOMAIN set[t] : set[t][j] = s

SetOf(t) ==
  /\ \A j \in DOMAIN set[t] : Consumer[set[t][j]] = t /\ rOpen[set[t][j]]
  /\ \A i, j \in DOMAIN set[t] : set[t][i] = set[t][j] => i = j
  /\ pc[t] \in {"p_fast", "p_token", "p_reg", "p_blk", "p_unreg"} =>
       pos[t] \in 1 .. Len(set[t])
  /\ pc[t] = "p_token" => pos[t] = 1
  /\ pc[t] = "p_blk" => pos[t] = 1
  /\ pc[t] = "p_reg" => cnt[t] = pos[t] - 1

ReadIsInSet(s) == rOpen[s] => InSet(Consumer[s], s)

(* Which streams of the set are registered, as the iterator of the two     *)
(* loops of LpelStreamPoll moves on.                                       *)
Registered(t, j) ==
  \/ pc[t] = "p_reg" /\ j < pos[t]
  \/ pc[t] = "p_blk" /\ j <= cnt[t]
  \/ pc[t] = "p_unreg" /\ pos[t] <= j /\ j < pos[t] + cnt[t]

RegisteredOf(s) ==
  is_poll[s] =>
    \E j \in DOMAIN set[Consumer[s]] :
      set[Consumer[s]][j] = s /\ Registered(Consumer[s], j)

(* While a poller has its token, every stream its loop has passed is       *)
(* registered, and empty unless its writer is about to look at is_poll.    *)
ArmedOf(t) ==
  poll_token[t] = 1 =>
    \A j \in DOMAIN set[t] :
      LET s == set[t][j] IN
      pc[t] = "p_blk" \/ j < pos[t] =>
        is_poll[s] /\ (nw[s] = nr[s] \/ At(Producer[s], {"w_poll"}, s))

(* The stream for which a poller is woken, or returns, is in its set and   *)
(* has an item.                                                            *)
ReadyOf(t) ==
  /\ \A u \in Tasks : HoldsToken(u, t) =>
       InSet(t, sd[u]) /\ nw[sd[u]] > nr[sd[u]]
  /\ (wake[t] = 1 /\ pc[t] \in {"p_reg", "p_blk"}) \/ pc[t] = "p_unreg" =>
       InSet(t, wakeup_sd[t]) /\ nw[wakeup_sd[t]] > nr[wakeup_sd[t]]

(* The conjunction is inductive: every safety property of the streams is a *)
(* consequence of it.                                                      *)
IInv ==
  /\ TypeOK
  /\ \A t \in Tasks : RolesOf(t)
  /\ \A s \in Streams : CountsOf(s)
  /\ \A s \in Streams : RingOf(s)
  /\ \A s \in Streams : WaitsOf(s)
  /\ \A t \in Tasks : TokensOf(t)
  /\ \A s \in Streams : LockOf(s)
  /\ \A s \in Streams : LifeOf(s)
  /\ \A t \in Tasks : SetOf(t)
  /\ \A s \in Streams : ReadIsInSet(s)
  /\ \A s \in Streams : RegisteredOf(s)
  /\ \A t \in Tasks : ArmedOf(t)
  /\ \A t \in Tasks : ReadyOf(t)
=============================================================================
