----------------------------- MODULE DecenStream -----------------------------
(***************************************************************************)
(* Streams of the decentralised scheduler: a bounded single-producer,      *)
(* single-consumer buffer with two counting "quasi semaphores" and a poll  *)
(* protocol (decen_stream.c, decen_buffer.c).                              *)
(*                                                                         *)
(* A step is one access to shared memory: an atomic fetch-and-add, one     *)
(* critical section of prod_lock, one access to a buffer slot.  The two    *)
(* calls into the task layer are modelled by what the stream code relies   *)
(* on: LpelTaskBlockStream returns once for each LpelTaskUnblock of the    *)
(* task.  wake[t] counts the wakeups of t that are on their way (in a      *)
(* mailbox or in a ready queue).                                           *)
(*                                                                         *)
(* The k-th item written to a stream is the number k; 0 is the NULL slot.  *)
(* Item Last[s] is the terminate (or sync) record of s: as the comment in  *)
(* LpelStreamPoll says, nobody writes to s after it, and the consumer      *)
(* closes or replaces s after reading it.                                  *)
(***************************************************************************)
EXTENDS Integers, Sequences

CONSTANTS Tasks, Streams,
          Producer, Consumer,   \* the task at each end of a stream
          Size,                 \* number of slots of a stream's buffer
          Last                  \* number of items written to a stream

ASSUME StreamAssumption ==
  /\ Streams # {}
  /\ Producer \in [Streams -> Tasks]
  /\ Consumer \in [Streams -> Tasks]
  /\ Size \in [Streams -> Nat \ {0}]
  /\ Last \in [Streams -> Nat \ {0}]

VARIABLES
  data, pread, pwrite,        \* buffer_t: slots and the two cursors
  n_sem, e_sem,               \* items / empty slots, -1: that side waits
  is_poll, prod_lock,         \* consumer registered; lock held by producer
  alive,                      \* the stream is allocated
  wOpen, rOpen,               \* the descriptor of the end is allocated
  nw, nr,                     \* history: items put, items popped
  pc, sd,                     \* where a task is, and on which stream
  trying,                     \* the write was called by LpelStreamTryWrite
  wake,                       \* wakeups of a task not yet delivered
  poll_token, wakeup_sd,      \* fields of lpel_task_t
  poll_wakeup,                \* local of LpelStreamWrite
  set, pos, cnt               \* LpelStreamPoll: set, iterator and counter

bufvars == <<data, pread, pwrite>>
lifevars == <<alive, wOpen, rOpen>>
pollvars == <<poll_token, wakeup_sd, poll_wakeup, set, pos, cnt>>
streamvars == <<bufvars, n_sem, e_sem, is_poll, prod_lock, nw, nr>>
ctlvars == <<pc, sd, trying, wake>>
vars == <<streamvars, lifevars, ctlvars, pollvars>>

NULL == 0
Slots(s) == 0 .. Size[s] - 1
AnyStream == CHOOSE s \in Streams : TRUE    \* an uninitialised descriptor

LpelStreamCreate ==
  /\ data = [s \in Streams |-> [i \in Slots(s) |-> NULL]]
  /\ pread = [s \in Streams |-> 0]
  /\ pwrite = [s \in Streams |-> 0]
  /\ n_sem = [s \in Streams |-> 0]
  /\ e_sem = Size
  /\ is_poll = [s \in Streams |-> FALSE]
  /\ prod_lock = [s \in Streams |-> FALSE]
  /\ alive = [s \in Streams |-> TRUE]
  /\ wOpen = [s \in Streams |-> FALSE]
  /\ rOpen = [s \in Streams |-> FALSE]

Init ==
  /\ LpelStreamCreate
  /\ nw = [s \in Streams |-> 0]
  /\ nr = [s \in Streams |-> 0]
  /\ pc = [t \in Tasks |-> "user"]
  /\ sd = [t \in Tasks |-> AnyStream]
  /\ trying = [t \in Tasks |-> FALSE]
  /\ wake = [t \in Tasks |-> 0]
  /\ poll_token = [t \in Tasks |-> 0]
  /\ wakeup_sd = [t \in Tasks |-> AnyStream]
  /\ poll_wakeup = [t \in Tasks |-> 0]
  /\ set = [t \in Tasks |-> << >>]
  /\ pos = [t \in Tasks |-> 1]
  /\ cnt = [t \in Tasks |-> 0]

----------------------------------------------------------------------------
(* The circular buffer. *)

Advance(s, p) == IF p + 1 >= Size[s] THEN p + 1 - Size[s] ELSE p + 1

LpelBufferTop(s) == data[s][pread[s]]

LpelBufferIsSpace(s) == data[s][pwrite[s]] = NULL

LpelBufferPut(s, item) ==
  /\ data' = [data EXCEPT ![s][pwrite[s]] = item]
  /\ pwrite' = [pwrite EXCEPT ![s] = Advance(s, @)]
  /\ UNCHANGED pread

LpelBufferPop(s) ==
  /\ data' = [data EXCEPT ![s][pread[s]] = NULL]
  /\ pread' = [pread EXCEPT ![s] = Advance(s, @)]
  /\ UNCHANGED pwrite

----------------------------------------------------------------------------
(* Control of a task and the two calls into the task layer. *)

Goto(t, from, to) == pc[t] = from /\ pc' = [pc EXCEPT ![t] = to]

LpelTaskUnblock(t) == wake' = [wake EXCEPT ![t] = @ + 1]

(* The return from LpelTaskBlockStream: the task runs again. *)
Resume(t) == wake[t] > 0 /\ wake' = [wake EXCEPT ![t] = @ - 1]

----------------------------------------------------------------------------
(* A stream set.  set[t] lists it in iteration order; the handle *set is   *)
(* the last one, so assigning to *set rotates the list.                    *)

IndexOf(q, s) == CHOOSE j \in DOMAIN q : q[j] = s

Without(q, k) ==
  [j \in 1 .. Len(q) - 1 |-> IF j < k THEN q[j] ELSE q[j + 1]]

Rotate(q, k) ==
  [j \in 1 .. Len(q) |-> IF j + k <= Len(q) THEN q[j + k]
                                            ELSE q[j + k - Len(q)]]

----------------------------------------------------------------------------
(* Opening, closing and replacing. *)

OpenWrite(t, s) ==
  /\ pc[t] = "user" /\ t = Producer[s]
  /\ alive[s] /\ ~wOpen[s] /\ nw[s] = 0
  /\ wOpen' = [wOpen EXCEPT ![s] = TRUE]
  /\ UNCHANGED <<streamvars, alive, rOpen, ctlvars, pollvars>>

(* The consumer puts the descriptor into the stream set it polls. *)
OpenRead(t, s) ==
  /\ pc[t] = "user" /\ t = Consumer[s]
  /\ alive[s] /\ ~rOpen[s]
  /\ rOpen' = [rOpen EXCEPT ![s] = TRUE]
  /\ set' = [set EXCEPT ![t] = Append(@, s)]
  /\ UNCHANGED <<streamvars, alive, wOpen, ctlvars, poll_token, wakeup_sd,
                 poll_wakeup, pos, cnt>>

CloseWrite(t, s) ==
  /\ pc[t] = "user" /\ t = Producer[s]
  /\ wOpen[s] /\ nw[s] = Last[s]
  /\ wOpen' = [wOpen EXCEPT ![s] = FALSE]
  /\ UNCHANGED <<streamvars, alive, rOpen, ctlvars, pollvars>>

LpelStreamDestroy(s) == alive' = [alive EXCEPT ![s] = FALSE]

(* The consumer has read the last record; it takes the descriptor out of   *)
(* its set and closes it with destroy_s set.                               *)
CloseRead(t, s) ==
  /\ pc[t] = "user" /\ t = Consumer[s]
  /\ rOpen[s] /\ nr[s] = Last[s]
  /\ LpelStreamDestroy(s)
  /\ rOpen' = [rOpen EXCEPT ![s] = FALSE]
  /\ set' = [set EXCEPT ![t] = Without(@, IndexOf(@, s))]
  /\ UNCHANGED <<streamvars, wOpen, ctlvars, poll_token, wakeup_sd,
                 poll_wakeup, pos, cnt>>

(* The descriptor keeps its place in the set. *)
LpelStreamReplace(t, s, snew) ==
  /\ pc[t] = "user" /\ t = Consumer[s] /\ t = Consumer[snew]
  /\ rOpen[s] /\ nr[s] = Last[s]
  /\ alive[snew] /\ ~rOpen[snew]
  /\ LpelStreamDestroy(s)
  /\ rOpen' = [rOpen EXCEPT ![s] = FALSE, ![snew] = TRUE]
  /\ set' = [set EXCEPT ![t][IndexOf(set[t], s)] = snew]
  /\ UNCHANGED <<streamvars, wOpen, ctlvars, poll_token, wakeup_sd,
                 poll_wakeup, pos, cnt>>

----------------------------------------------------------------------------
(* LpelStreamTryWrite and LpelStreamWrite. *)

(* TryWrite found a free slot; the other outcome returns -1 and changes    *)
(* nothing.                                                                *)
TryWrite(t, s) ==
  /\ t = Producer[s] /\ wOpen[s] /\ nw[s] < Last[s]
  /\ LpelBufferIsSpace(s)
  /\ Goto(t, "user", "w_try")
  /\ sd' = [sd EXCEPT ![t] = s]
  /\ trying' = [trying EXCEPT ![t] = TRUE]
  /\ UNCHANGED <<streamvars, lifevars, wake, pollvars>>

(* quasi P(e_sem) *)
WriteP(t, s) ==
  /\ \/ /\ pc[t] = "user"
        /\ t = Producer[s] /\ wOpen[s] /\ nw[s] < Last[s]
     \/ /\ pc[t] = "w_try"
        /\ s = sd[t]
  /\ e_sem' = [e_sem EXCEPT ![s] = @ - 1]
  /\ pc' = [pc EXCEPT ![t] = IF e_sem[s] = 0 THEN "w_blk" ELSE "w_put"]
  /\ sd' = [sd EXCEPT ![t] = s]
  /\ UNCHANGED <<bufvars, n_sem, is_poll, prod_lock, nw, nr, lifevars,
                 trying, wake, pollvars>>

WriteResume(t) ==
  /\ Goto(t, "w_blk", "w_put")
  /\ Resume(t)
  /\ UNCHANGED <<streamvars, lifevars, sd, trying, pollvars>>

(* Mutant: the item is announced before the stream is left. *)
PutAndPost(t) ==
  LET s == sd[t] IN
  /\ Goto(t, "w_put", "w_poll")
  /\ ~prod_lock[s]
  /\ prod_lock' = [prod_lock EXCEPT ![s] = TRUE]
  /\ LpelBufferPut(s, nw[s] + 1)
  /\ nw' = [nw EXCEPT ![s] = @ + 1]
  /\ n_sem' = [n_sem EXCEPT ![s] = @ + 1]
  /\ UNCHANGED <<e_sem, is_poll, nr, lifevars, sd, trying, wake, pollvars>>

(* Take prod_lock and put the item. *)
WritePut(t) ==
  LET s == sd[t] IN
  /\ Goto(t, "w_put", "w_poll")
  /\ ~prod_lock[s]
  /\ prod_lock' = [prod_lock EXCEPT ![s] = TRUE]
  /\ LpelBufferPut(s, nw[s] + 1)
  /\ nw' = [nw EXCEPT ![s] = @ + 1]
  /\ UNCHANGED <<n_sem, e_sem, is_poll, nr, lifevars, sd, trying, wake,
                 pollvars>>

(* Mutant: the writer leaves the token in place. *)
CheckPollKeepsToken(t) ==
  LET s == sd[t] IN
  /\ Goto(t, "w_poll", "w_v")
  /\ poll_wakeup' = [poll_wakeup EXCEPT ![t] =
                       IF is_poll[s] THEN poll_token[Consumer[s]] ELSE 0]
  /\ is_poll' = [is_poll EXCEPT ![s] = FALSE]
  /\ prod_lock' = [prod_lock EXCEPT ![s] = FALSE]
  /\ UNCHANGED <<bufvars, n_sem, e_sem, nw, nr, lifevars, sd, trying, wake,
                 poll_token, wakeup_sd, set, pos, cnt>>

(* If the consumer polls, take its poll token; release prod_lock. *)
WriteCheckPoll(t) ==
  LET s == sd[t]
      c == Consumer[s]
  IN
  /\ Goto(t, "w_poll", "w_v")
  /\ poll_wakeup' = [poll_wakeup EXCEPT ![t] =
                       IF is_poll[s] THEN poll_token[c] ELSE 0]
  /\ poll_token' = [poll_token EXCEPT ![c] = IF is_poll[s] THEN 0 ELSE @]
  /\ is_poll' = [is_poll EXCEPT ![s] = FALSE]
  /\ prod_lock' = [prod_lock EXCEPT ![s] = FALSE]
  /\ UNCHANGED <<bufvars, n_sem, e_sem, nw, nr, lifevars, sd, trying, wake,
                 wakeup_sd, set, pos, cnt>>

(* quasi V(n_sem) *)
WriteV(t) ==
  LET s == sd[t] IN
  /\ pc[t] = "w_v"
  /\ n_sem' = [n_sem EXCEPT ![s] = @ + 1]
  /\ pc' = [pc EXCEPT ![t] = IF n_sem[s] < 0 THEN "w_wake_read"
                             ELSE IF poll_wakeup[t] = 1 THEN "w_wake_poll"
                             ELSE "user"]
  /\ trying' = [trying EXCEPT ![t] = FALSE]
  /\ UNCHANGED <<bufvars, e_sem, is_poll, prod_lock, nw, nr, lifevars, sd,
                 wake, pollvars>>

(* n_sem was -1: wake the consumer out of its LpelStreamRead. *)
WriteWakeRead(t) ==
  /\ Goto(t, "w_wake_read", "user")
  /\ LpelTaskUnblock(Consumer[sd[t]])
  /\ UNCHANGED <<streamvars, lifevars, sd, trying, pollvars>>

(* Mutant: the poller is not told which stream has data. *)
WakePollWithoutSd(t) ==
  /\ Goto(t, "w_wake_poll", "user")
  /\ poll_wakeup' = [poll_wakeup EXCEPT ![t] = 0]
  /\ LpelTaskUnblock(Consumer[sd[t]])
  /\ UNCHANGED <<streamvars, lifevars, sd, trying, poll_token, wakeup_sd, set,
                 pos, cnt>>

(* The writer holds the poll token: wake the consumer out of its poll. *)
WriteWakePoll(t) ==
  LET s == sd[t] IN
  /\ Goto(t, "w_wake_poll", "user")
  /\ wakeup_sd' = [wakeup_sd EXCEPT ![Consumer[s]] = s]
  /\ poll_wakeup' = [poll_wakeup EXCEPT ![t] = 0]
  /\ LpelTaskUnblock(Consumer[s])
  /\ UNCHANGED <<streamvars, lifevars, sd, trying, poll_token, set, pos, cnt>>

----------------------------------------------------------------------------
(* LpelStreamRead. *)

(* Mutant: the reader of an empty stream does not wait. *)
ReadPOffByOne(t, s) ==
  /\ t = Consumer[s] /\ rOpen[s] /\ nr[s] < Last[s]
  /\ Goto(t, "user", IF n_sem[s] < 0 THEN "r_blk" ELSE "r_pop")
  /\ n_sem' = [n_sem EXCEPT ![s] = @ - 1]
  /\ sd' = [sd EXCEPT ![t] = s]
  /\ UNCHANGED <<bufvars, e_sem, is_poll, prod_lock, nw, nr, lifevars,
                 trying, wake, pollvars>>

(* quasi P(n_sem) *)
ReadP(t, s) ==
  /\ t = Consumer[s] /\ rOpen[s] /\ nr[s] < Last[s]
  /\ Goto(t, "user", IF n_sem[s] = 0 THEN "r_blk" ELSE "r_pop")
  /\ n_sem' = [n_sem EXCEPT ![s] = @ - 1]
  /\ sd' = [sd EXCEPT ![t] = s]
  /\ UNCHANGED <<bufvars, e_sem, is_poll, prod_lock, nw, nr, lifevars,
                 trying, wake, pollvars>>

ReadResume(t) ==
  /\ Goto(t, "r_blk", "r_pop")
  /\ Resume(t)
  /\ UNCHANGED <<streamvars, lifevars, sd, trying, pollvars>>

ReadPop(t) ==
  LET s == sd[t] IN
  /\ Goto(t, "r_pop", "r_v")
  /\ LpelBufferPop(s)
  /\ nr' = [nr EXCEPT ![s] = @ + 1]
  /\ UNCHANGED <<n_sem, e_sem, is_poll, prod_lock, nw, lifevars, sd, trying,
                 wake, pollvars>>

(* Mutant: a producer that waits is not woken. *)
ReadVOffByOne(t) ==
  LET s == sd[t] IN
  /\ Goto(t, "r_v", IF e_sem[s] < -1 THEN "r_wake" ELSE "user")
  /\ e_sem' = [e_sem EXCEPT ![s] = @ + 1]
  /\ UNCHANGED <<bufvars, n_sem, is_poll, prod_lock, nw, nr, lifevars, sd,
                 trying, wake, pollvars>>

(* quasi V(e_sem) *)
ReadV(t) ==
  LET s == sd[t] IN
  /\ Goto(t, "r_v", IF e_sem[s] < 0 THEN "r_wake" ELSE "user")
  /\ e_sem' = [e_sem EXCEPT ![s] = @ + 1]
  /\ UNCHANGED <<bufvars, n_sem, is_poll, prod_lock, nw, nr, lifevars, sd,
                 trying, wake, pollvars>>

ReadWake(t) ==
  /\ Goto(t, "r_wake", "user")
  /\ LpelTaskUnblock(Producer[sd[t]])
  /\ UNCHANGED <<streamvars, lifevars, sd, trying, pollvars>>

----------------------------------------------------------------------------
(* LpelStreamPoll. *)

(* A task polls only while it expects data: the set is not empty, and the  *)
(* last record of one of its streams is still to be read.                  *)
PollStart(t) ==
  /\ \E j \in DOMAIN set[t] : nr[set[t][j]] < Last[set[t][j]]
  /\ Goto(t, "user", "p_fast")
  /\ pos' = [pos EXCEPT ![t] = 1]
  /\ UNCHANGED <<streamvars, lifevars, sd, trying, wake, poll_token,
                 wakeup_sd, poll_wakeup, set, cnt>>

(* The fast path: the first non-empty stream is returned at once. *)
PollFast(t) ==
  LET s == set[t][pos[t]]
      found == LpelBufferTop(s) # NULL
      end == pos[t] = Len(set[t])
  IN
  /\ Goto(t, "p_fast", IF found THEN "user"
                       ELSE IF end THEN "p_token" ELSE "p_fast")
  /\ set' = [set EXCEPT ![t] = IF found THEN Rotate(@, pos[t]) ELSE @]
  /\ pos' = [pos EXCEPT ![t] = IF found \/ end THEN 1 ELSE @ + 1]
  /\ UNCHANGED <<streamvars, lifevars, sd, trying, wake, poll_token,
                 wakeup_sd, poll_wakeup, cnt>>

PollToken(t) ==
  /\ Goto(t, "p_token", "p_reg")
  /\ poll_token' = [poll_token EXCEPT ![t] = 1]
  /\ cnt' = [cnt EXCEPT ![t] = 0]
  /\ UNCHANGED <<streamvars, lifevars, sd, trying, wake, wakeup_sd,
                 poll_wakeup, set, pos>>

(* One round of the registration loop, under the stream's prod_lock: the   *)
(* stream is non-empty, and the loop ends; *)
PollFound(t) ==
  LET s == set[t][pos[t]] IN
  /\ Goto(t, "p_reg", IF poll_token[t] = 1 THEN "p_unreg" ELSE "p_blk")
  /\ ~prod_lock[s]
  /\ LpelBufferTop(s) # NULL
  /\ poll_token' = [poll_token EXCEPT ![t] = 0]
  /\ wakeup_sd' = [wakeup_sd EXCEPT ![t] = IF poll_token[t] = 1 THEN s ELSE @]
  /\ pos' = [pos EXCEPT ![t] = 1]
  /\ UNCHANGED <<streamvars, lifevars, sd, trying, wake, poll_wakeup, set,
                 cnt>>

(* or it is empty, and it is registered as an activator. *)
PollRegister(t) ==
  LET s == set[t][pos[t]]
      end == pos[t] = Len(set[t])
  IN
  /\ Goto(t, "p_reg", IF end THEN "p_blk" ELSE "p_reg")
  /\ ~prod_lock[s]
  /\ LpelBufferTop(s) = NULL
  /\ is_poll' = [is_poll EXCEPT ![s] = TRUE]
  /\ cnt' = [cnt EXCEPT ![t] = @ + 1]
  /\ pos' = [pos EXCEPT ![t] = IF end THEN 1 ELSE @ + 1]
  /\ UNCHANGED <<bufvars, n_sem, e_sem, prod_lock, nw, nr, lifevars, sd,
                 trying, wake, poll_token, wakeup_sd, poll_wakeup, set>>

PollResume(t) ==
  /\ Goto(t, "p_blk", "p_unreg")
  /\ Resume(t)
  /\ UNCHANGED <<streamvars, lifevars, sd, trying, pollvars>>

(* One round of the loop that unregisters the activators; after the last   *)
(* one the set is rotated to the stream that has data.                     *)
PollUnregister(t) ==
  LET s == set[t][pos[t]]
      end == cnt[t] = 1 \/ pos[t] = Len(set[t])
  IN
  /\ Goto(t, "p_unreg", IF end THEN "user" ELSE "p_unreg")
  /\ ~prod_lock[s]
  /\ is_poll' = [is_poll EXCEPT ![s] = FALSE]
  /\ cnt' = [cnt EXCEPT ![t] = @ - 1]
  /\ pos' = [pos EXCEPT ![t] = IF end THEN 1 ELSE @ + 1]
  /\ set' = [set EXCEPT ![t] = 
               IF end THEN Rotate(@, IndexOf(@, wakeup_sd[t])) ELSE @]
  /\ UNCHANGED <<bufvars, n_sem, e_sem, prod_lock, nw, nr, lifevars, sd,
                 trying, wake, poll_token, wakeup_sd, poll_wakeup>>

----------------------------------------------------------------------------

(* A step inside a call of the library: taken without a choice of the user. *)
Step(t) ==
  \/ pc[t] = "w_try" /\ WriteP(t, sd[t])
  \/ WriteResume(t) \/ WritePut(t) \/ WriteCheckPoll(t) \/ WriteV(t)
  \/ WriteWakeRead(t) \/ WriteWakePoll(t)
  \/ ReadResume(t) \/ ReadPop(t) \/ ReadV(t) \/ ReadWake(t)
  \/ PollFast(t) \/ PollToken(t) \/ PollFound(t) \/ PollRegister(t)
  \/ PollResume(t) \/ PollUnregister(t)

(* What the code of the task calls. *)
Call(t) ==
  \/ PollStart(t)
  \/ \E s \in Streams :
       \/ OpenWrite(t, s) \/ OpenRead(t, s) \/ CloseWrite(t, s)
       \/ CloseRead(t, s) \/ TryWrite(t, s) \/ ReadP(t, s)
       \/ pc[t] = "user" /\ WriteP(t, s)
       \/ \E snew \in Streams : LpelStreamReplace(t, s, snew)

(* Every stream is drained and closed: the program may stop. *)
Finished ==
  /\ \A s \in Streams : ~alive[s] /\ ~wOpen[s]
  /\ UNCHANGED vars

Next == (\E t \in Tasks : Step(t) \/ Call(t)) \/ Finished

Spec == Init /\ [][Next]_vars

(* A task inside the library runs on; a woken task is resumed. *)
FairSpec == Spec /\ \A t \in Tasks : WF_vars(Step(t))

----------------------------------------------------------------------------
(* Properties. *)

PcValues == {"user", "w_try", "w_blk", "w_put", "w_poll", "w_v",
             "w_wake_read", "w_wake_poll", "r_blk", "r_pop", "r_v", "r_wake",
             "p_fast", "p_token", "p_reg", "p_blk", "p_unreg"}

(* Every variable has the type its declaration in the code gives it. *)
TypeOK ==
  /\ DOMAIN data = Streams
  /\ \A s \in Streams : data[s] \in [Slots(s) -> Nat]
  /\ pread \in [Streams -> Nat] /\ pwrite \in [Streams -> Nat]
  /\ \A s \in Streams : pread[s] \in Slots(s) /\ pwrite[s] \in Slots(s)
  /\ n_sem \in [Streams -> Int] /\ e_sem \in [Streams -> Int]
  /\ is_poll \in [Streams -> BOOLEAN] /\ prod_lock \in [Streams -> BOOLEAN]
  /\ alive \in [Streams -> BOOLEAN]
  /\ wOpen \in [Streams -> BOOLEAN] /\ rOpen \in [Streams -> BOOLEAN]
  /\ nw \in [Streams -> Nat] /\ nr \in [Streams -> Nat]
  /\ pc \in [Tasks -> PcValues] /\ sd \in [Tasks -> Streams]
  /\ trying \in [Tasks -> BOOLEAN] /\ wake \in [Tasks -> Nat]
  /\ poll_token \in [Tasks -> {0, 1}] /\ poll_wakeup \in [Tasks -> {0, 1}]
  /\ wakeup_sd \in [Tasks -> Streams] /\ set \in [Tasks -> Seq(Streams)]
  /\ pos \in [Tasks -> Nat] /\ cnt \in [Tasks -> Int]

(* The assertions of LpelStreamWrite and LpelStreamRead hold: a writer     *)
(* past P(e_sem) finds a free slot, and a reader past P(n_sem) finds the   *)
(* item that is next in the order of the writes.                           *)
ItemsInOrder ==
  \A t \in Tasks :
    /\ pc[t] = "w_put" => LpelBufferIsSpace(sd[t])
    /\ pc[t] = "r_pop" => LpelBufferTop(sd[t]) = nr[sd[t]] + 1

(* A task that is about to unblock t. *)
Waker(u, t) ==
  \/ pc[u] \in {"w_wake_read", "w_wake_poll"} /\ t = Consumer[sd[u]]
  \/ pc[u] = "r_wake" /\ t = Producer[sd[u]]

(* A writer that has taken t's poll token and has not woken t yet. *)
HoldsToken(u, t) ==
  /\ pc[u] \in {"w_v", "w_wake_poll"} /\ poll_wakeup[u] = 1
  /\ t = Consumer[sd[u]]

(* No wakeup is lost: a task that waits with no wakeup on its way and no   *)
(* waker at work has nothing to wait for it yet.  A reader's stream holds  *)
(* no item whose write is past V(n_sem); a writer's stream has no slot     *)
(* whose read is past V(e_sem); each polled stream is empty or its writer  *)
(* still has to look at is_poll.                                           *)
NoLostWakeup ==
  \A t \in Tasks :
    LET s == sd[t]
        p == Producer[s]
        c == Consumer[s]
    IN  wake[t] = 0 /\ (\A u \in Tasks : ~Waker(u, t) /\ ~HoldsToken(u, t)) =>
        /\ pc[t] = "r_blk" =>
             \/ nw[s] = nr[s]
             \/ nw[s] = nr[s] + 1 /\ pc[p] \in {"w_poll", "w_v"} /\ sd[p] = s
        /\ pc[t] = "w_blk" =>
             \/ nw[s] - nr[s] = Size[s]
             \/ nw[s] - nr[s] = Size[s] - 1 /\ pc[c] = "r_v" /\ sd[c] = s
        /\ pc[t] = "p_blk" =>
             \A j \in DOMAIN set[t] :
               LET x == set[t][j]
                   q == Producer[x]
               IN  LpelBufferTop(x) = NULL \/ (pc[q] = "w_poll" /\ sd[q] = x)

(* When LpelStreamPoll returns, the poll token is back at 0 (its           *)
(* assertion), and the descriptor it returns is one of the set whose       *)
(* buffer holds an item.                                                   *)
PollReturnsReady ==
  \A t \in Tasks : pc[t] = "p_unreg" =>
    /\ poll_token[t] = 0
    /\ \E j \in DOMAIN set[t] : set[t][j] = wakeup_sd[t]
    /\ LpelBufferTop(wakeup_sd[t]) # NULL

(* Nothing is used after it is freed: a writer that still has to touch the *)
(* stream finds it allocated although the consumer may destroy it as soon  *)
(* as it has read the last record, and whoever follows cons_sd or prod_sd  *)
(* to the task at the other end finds that descriptor open.                *)
NoUseAfterDestroy ==
  \A t \in Tasks :
    LET s == sd[t] IN
    /\ pc[t] \in {"w_try", "w_blk", "w_put", "w_poll", "w_v", "w_wake_read",
                  "w_wake_poll", "r_blk", "r_pop", "r_v", "r_wake"} => alive[s]
    /\ pc[t] = "w_poll" /\ is_poll[s] => rOpen[s]
    /\ pc[t] \in {"w_wake_read", "w_wake_poll"} => rOpen[s]
    /\ pc[t] = "r_wake" => wOpen[s]

(* LpelStreamTryWrite is documented as a non-blocking write: a write it    *)
(* called never suspends the task.                                         *)
TryWriteNeverBlocks == \A t \in Tasks : ~(trying[t] /\ pc[t] = "w_blk")

(* The stream code keeps the contract of the task layer: it unblocks a     *)
(* task only after the task is bound to block, and once.  A poller is      *)
(* bound to block from the moment a writer takes its token.                *)
park == [t \in Tasks |->
           IF wake[t] > 0 THEN "granted"
           ELSE IF \/ pc[t] \in {"r_blk", "w_blk", "p_blk"}
                   \/ \E u \in Tasks : HoldsToken(u, t)
                THEN "parking" ELSE "running"]

Park == INSTANCE TaskPark
ImplementsPark == Park!FairSpec

(* A waiting task is served: a reader whose stream has an item, a writer   *)
(* whose stream has a free slot and a poller one of whose streams has an   *)
(* item runs again.                                                        *)
WaiterServed ==
  \A t \in Tasks :
    \/ pc[t] = "r_blk" /\ nw[sd[t]] > nr[sd[t]]
    \/ pc[t] = "w_blk" /\ nw[sd[t]] - nr[sd[t]] < Size[sd[t]]
    \/ pc[t] = "p_blk" /\ \E j \in DOMAIN set[t] : LpelBufferTop(set[t][j]) # NULL
    ~> pc[t] \notin {"r_blk", "w_blk", "p_blk"}
=============================================================================
