------------------------------ MODULE HrcStream ------------------------------
(***************************************************************************)
(* Streams of the hierarchical scheduler (hrc_stream.c, hrc_buffer.c, and  *)
(* the free lists of hrc_worker_op.c).  The buffer is a linked list and    *)
(* only an entry stream is bounded.  Streams and descriptors are not freed *)
(* but kept by the worker for reuse, while the task at the other end may   *)
(* still hold a pointer to them.                                           *)
(*                                                                         *)
(* The tasks are those of a network that changes while it runs: Prod       *)
(* writes to x, Relay copies x to y, and Coll polls y.  Relay may leave:   *)
(* it sends x in a sync record, and Coll replaces y by x.  When Prod has   *)
(* written to x it creates a further stream, which Coll adds to its set.   *)
(* A step is one access to shared memory, as in DecenStream.               *)
(***************************************************************************)
EXTENDS Integers, Sequences, FiniteSets

CONSTANTS
  Prod, Relay, Coll,          \* the tasks
  x, y, Streams,              \* memory of streams; x and y are open
  px, rx, ry, cy, Descs,      \* memory of descriptors; four are open
  Workers, NULL,
  Size,                       \* size of an entry stream
  Last,                       \* bound: records on the first and the second stream
  Sources                     \* the sets of tasks that may be source or sink

Tasks == {Prod, Relay, Coll}
Ctx == Workers \cup Tasks     \* a source has a wrapper of its own

ASSUME HrcStreamAssumption ==
  /\ Cardinality(Tasks) = 3 /\ {x, y} \subseteq Streams
  /\ {px, rx, ry, cy} \subseteq Descs
  /\ NULL \notin Tasks \cup Streams \cup Descs
  /\ Size \in Nat \ {0} /\ Last \in [1 .. 2 -> Nat \ {0}]
  /\ Sources \subseteq SUBSET Tasks

VARIABLES
  S, D,                       \* lpel_stream_t, lpel_stream_desc_t
  elems,                      \* in_streams and out_streams of a task
  free_stream, free_sd,       \* free lists of a worker or wrapper
  malloced,                   \* memory that has been allocated
  pc, sd, item,               \* where a task is; arguments of its call
  wake,                       \* wakeups of a task not yet delivered
  poll_token, wakeup_sd,      \* fields of lpel_task_t
  poll_wakeup,                \* local of LpelStreamWrite
  set, pos, cnt,              \* LpelStreamPoll: set, iterator and counter
  in, out, outs,              \* descriptors of Relay; those that Prod writes
  sent, got,                  \* records written; received, by stream of Prod
  told, leaving,              \* the stream made known to Coll; left by Relay
  sosi                        \* the tasks that are source or sink

memvars == <<free_stream, free_sd, malloced>>
pollvars == <<poll_token, wakeup_sd, poll_wakeup, set, pos, cnt>>
uservars == <<in, out, outs, sent, got, told, leaving, sosi>>
vars == <<S, D, elems, memvars, pc, sd, item, wake, pollvars, uservars>>

Record(o, k) == [from |-> o, nr |-> k]
Sync(s) == [from |-> 0, nr |-> s]
Terminates(r) == r.from # 0 /\ r.nr = Last[r.from]

(* hrc_buffer.c: a linked list, whose reader and writer never meet at one  *)
(* node because the reader has taken the writer's V(n_sem).                *)
LpelBufferInit == <<>>
LpelBufferTop(b) == Head(b)
LpelBufferPop(b) == Tail(b)
LpelBufferPut(b, i) == Append(b, i)
LpelBufferIsEmpty(b) == b = <<>>

Created == [n_sem |-> 0, e_sem |-> Size, is_poll |-> FALSE, prod_sd |-> NULL,
            cons_sd |-> NULL, type |-> "MIDDLE", buf |-> LpelBufferInit, read_cnt |-> 0,
            write_cnt |-> 0]

(* The type of a stream that t opens: LpelTaskIsSoSi. *)
Type(t, mode, old) ==
  IF t \notin sosi THEN old ELSE IF mode = "r" THEN "EXIT" ELSE "ENTRY"

Desc(t, s, mode) == [task |-> t, stream |-> s, mode |-> mode]

Init ==
  /\ sosi \in Sources
  /\ S = [s \in Streams |->
            CASE s = x -> [Created EXCEPT !.prod_sd = px, !.cons_sd = rx,
                                          !.type = Type(Prod, "w", @)]
              [] s = y -> [Created EXCEPT !.prod_sd = ry, !.cons_sd = cy,
                                          !.type = Type(Coll, "r", @)]
              [] OTHER -> Created]
  /\ D = [d \in Descs |->
            CASE d = px -> Desc(Prod, x, "w") [] d = rx -> Desc(Relay, x, "r")
              [] d = ry -> Desc(Relay, y, "w") [] d = cy -> Desc(Coll, y, "r")
              [] OTHER -> Desc(NULL, NULL, "r")]
  /\ elems = [t \in Tasks |-> {d \in Descs : D[d].task = t}]
  /\ free_stream = [c \in Ctx |-> {}] /\ free_sd = [c \in Ctx |-> {}]
  /\ malloced = {x, y, px, rx, ry, cy}
  /\ pc = [t \in Tasks |-> "user"]
  /\ sd = [t \in Tasks |-> NULL] /\ item = [t \in Tasks |-> NULL]
  /\ wake = [t \in Tasks |-> 0]
  /\ poll_token = [t \in Tasks |-> 0]
  /\ wakeup_sd = [t \in Tasks |-> NULL]
  /\ poll_wakeup = [t \in Tasks |-> 0]
  /\ set = <<cy>> /\ pos = 1 /\ cnt = 0
  /\ in = rx /\ out = ry /\ outs = <<px, NULL>>
  /\ sent = <<0, 0>>
  /\ got = [t \in {Relay, Coll} |-> <<0, 0>>]
  /\ told = NULL /\ leaving = NULL

----------------------------------------------------------------------------
(* The free lists of a worker, or of the wrapper that a source has.  Each  *)
(* is kept as a set: any of its members may be the one that is found.  A   *)
(* task runs on some worker at the time of a call.                         *)

On(t) == IF t \in sosi THEN {t} ELSE Workers

(* malloc, when the list has nothing to offer *)
OrMalloc(found, M) ==
  IF found # {} THEN found ELSE {CHOOSE m \in M : m \notin malloced}

LpelWorkerGetStream(c) == OrMalloc(free_stream[c], Streams)

LpelWorkerPutStream(c, s) == free_stream' = [free_stream EXCEPT ![c] = @ \cup {s}]

(* Mutant: a descriptor is reused although its stream still points to it. *)
GetSdOfStream(c) == OrMalloc(free_sd[c], Descs)

(* A descriptor is reused when neither end needs it. *)
LpelWorkerGetSd(c) ==
  OrMalloc({d \in free_sd[c] : D[d].task = NULL /\ D[d].stream = NULL}, Descs)

LpelWorkerPutSd(c, d) == free_sd' = [free_sd EXCEPT ![c] = @ \cup {d}]

----------------------------------------------------------------------------
(* Creating, opening, closing and replacing *)

(* The master counts the records on the streams of these lists. *)
LpelTaskAddStream(t, d) == elems' = [elems EXCEPT ![t] = @ \cup {d}]
LpelTaskRemoveStream(t, d) == elems' = [elems EXCEPT ![t] = @ \ {d}]

LpelStreamOpen(t, c, s, d, mode, streams) ==
  /\ d \in LpelWorkerGetSd(c)
  /\ free_sd' = [free_sd EXCEPT ![c] = @ \ {d}]
  /\ D' = [D EXCEPT ![d] = Desc(t, s, mode)]
  /\ S' = LET u == [streams EXCEPT ![s].type = Type(t, mode, @)]
          IN  IF mode = "r" THEN [u EXCEPT ![s].cons_sd = d]
                            ELSE [u EXCEPT ![s].prod_sd = d]
  /\ LpelTaskAddStream(t, d)

(* Prod calls LpelStreamCreate, opens the stream and makes it known. *)
LpelStreamCreate(t) ==
  \E c \in On(t), d \in Descs, s \in Streams :
    /\ t = Prod /\ pc[t] = "user" /\ outs[2] = NULL /\ sent = <<Last[1], 0>>
    /\ s \in LpelWorkerGetStream(c)
    /\ free_stream' = [free_stream EXCEPT ![c] = @ \ {s}]
    /\ LpelStreamOpen(t, c, s, d, "w", [S EXCEPT ![s] = Created])
    /\ malloced' = malloced \cup {s, d}
    /\ outs' = [outs EXCEPT ![2] = d]
    /\ told' = s
    /\ UNCHANGED <<pc, sd, item, wake, pollvars, in, out, sent, got, leaving, sosi>>

(* Coll opens the new stream and puts it into its set. *)
OpenRead(t) ==
  \E c \in On(t), d \in Descs :
    /\ t = Coll /\ pc[t] = "user" /\ told # NULL
    /\ LpelStreamOpen(t, c, told, d, "r", S)
    /\ malloced' = malloced \cup {d}
    /\ set' = Append(set, d)
    /\ told' = NULL
    /\ UNCHANGED <<free_stream, pc, sd, item, wake, poll_token, wakeup_sd,
                   poll_wakeup, pos, cnt, in, out, outs, sent, got, leaving, sosi>>

(* LpelStreamClose without destroy_s: the stream keeps its pointer to d. *)
Close(t, d) ==
  \E c \in On(t) :
    /\ LpelTaskRemoveStream(t, d)
    /\ D' = [D EXCEPT ![d].task = NULL]
    /\ LpelWorkerPutSd(c, d)
    /\ UNCHANGED <<S, free_stream, malloced>>

(* Both ends of the stream of d forget it. *)
Unlinked(d) ==
  LET s == D[d].stream IN
  /\ S' = [S EXCEPT ![s].prod_sd = NULL, ![s].cons_sd = NULL]
  /\ D' = [D EXCEPT ![S[s].prod_sd].stream = NULL,
                    ![d] = [@ EXCEPT !.stream = NULL, !.task = NULL]]

(* LpelStreamClose with destroy_s. *)
CloseDestroy(t, d) ==
  \E c \in On(t) :
    /\ Unlinked(d)
    /\ LpelWorkerPutStream(c, D[d].stream)
    /\ LpelTaskRemoveStream(t, d)
    /\ LpelWorkerPutSd(c, d)
    /\ UNCHANGED malloced

LpelStreamReplace(t, d, snew) ==
  LET s == D[d].stream
      old_cons == S[snew].cons_sd
  IN  \E c \in On(t) :
        /\ S' = [S EXCEPT ![s].prod_sd = NULL, ![s].cons_sd = NULL,
                          ![snew].type = S[s].type, ![snew].cons_sd = d]
        /\ D' = [D EXCEPT ![S[s].prod_sd].stream = NULL,
                          ![old_cons].stream = NULL, ![d].stream = snew]
        /\ LpelWorkerPutStream(c, s)
        /\ UNCHANGED <<elems, free_sd, malloced>>

----------------------------------------------------------------------------
(* LpelStreamWrite *)

Goto(t, from, to) == pc[t] = from /\ pc' = [pc EXCEPT ![t] = to]

(* Go on in the call, or return from it. *)
GoOn(t, from, to) ==
  /\ Goto(t, from, to)
  /\ sd' = [sd EXCEPT ![t] = IF to = "user" /\ item[t] = NULL THEN NULL ELSE @]

LpelTaskUnblock(t) == wake' = [wake EXCEPT ![t] = @ + 1]

(* The return from LpelTaskBlockStream: the task runs again. *)
Resume(t, from, to) ==
  /\ Goto(t, from, to)
  /\ wake[t] > 0 /\ wake' = [wake EXCEPT ![t] = @ - 1]
  /\ UNCHANGED <<S, D, elems, memvars, sd, item, pollvars, uservars>>

Str(t) == D[sd[t]].stream     \* sd->stream

(* Mutant: the writer blocks one record too late. *)
WritePTooLate(t, d, r) ==
  LET s == D[d].stream
      entry == S[s].type = "ENTRY"
  IN  /\ Goto(t, "user", IF entry /\ S[s].e_sem = -1 THEN "w_blk" ELSE "w_put")
      /\ S' = [S EXCEPT ![s].e_sem = IF entry THEN @ - 1 ELSE @]
      /\ sd' = [sd EXCEPT ![t] = d]
      /\ item' = [item EXCEPT ![t] = r]
      /\ UNCHANGED <<D, elems, memvars, wake, pollvars, in, out, outs, got, told, sosi>>

(* A task calls LpelStreamWrite, or LpelStreamTryWrite, which finds that   *)
(* there is always space.  quasi P(e_sem), of an entry stream only.        *)
WriteP(t, d, r) ==
  LET s == D[d].stream
      entry == S[s].type = "ENTRY"
  IN  /\ Goto(t, "user", IF entry /\ S[s].e_sem = 0 THEN "w_blk" ELSE "w_put")
      /\ S' = [S EXCEPT ![s].e_sem = IF entry THEN @ - 1 ELSE @]
      /\ sd' = [sd EXCEPT ![t] = d]
      /\ item' = [item EXCEPT ![t] = r]
      /\ UNCHANGED <<D, elems, memvars, wake, pollvars, in, out, outs, got, told, sosi>>

(* Mutant: the writer leaves the token in place. *)
PutKeepsToken(t) ==
  LET s == Str(t)
      cons == D[S[s].cons_sd].task
      poll == S[s].is_poll
  IN  /\ Goto(t, "w_put", "w_v")
      /\ S' = [S EXCEPT ![s] = [@ EXCEPT !.buf = LpelBufferPut(@, item[t]), !.is_poll = FALSE,
                                         !.write_cnt = @ + 1]]
      /\ poll_wakeup' = [poll_wakeup EXCEPT ![t] = IF poll THEN poll_token[cons] ELSE 0]
      /\ item' = [item EXCEPT ![t] = NULL]
      /\ UNCHANGED <<D, elems, memvars, sd, wake, poll_token, wakeup_sd, set, pos, cnt, uservars>>

(* The critical section: put the item, and take the poll token. *)
WritePut(t) ==
  LET s == Str(t)
      cons == D[S[s].cons_sd].task
      poll == S[s].is_poll
  IN  /\ Goto(t, "w_put", "w_v")
      /\ S' = [S EXCEPT ![s] = [@ EXCEPT !.buf = LpelBufferPut(@, item[t]), !.is_poll = FALSE,
                                         !.write_cnt = @ + 1]]
      /\ poll_wakeup' = [poll_wakeup EXCEPT ![t] = IF poll THEN poll_token[cons] ELSE 0]
      /\ poll_token' = IF poll THEN [poll_token EXCEPT ![cons] = 0] ELSE poll_token
      /\ item' = [item EXCEPT ![t] = NULL]
      /\ UNCHANGED <<D, elems, memvars, sd, wake, wakeup_sd, set, pos, cnt, uservars>>

(* quasi V(n_sem) *)
WriteV(t) ==
  LET s == Str(t)
  IN  /\ GoOn(t, "w_v", IF S[s].n_sem < 0 THEN "w_wake_read"
                        ELSE IF poll_wakeup[t] = 1 THEN "w_wake_poll" ELSE "user")
      /\ S' = [S EXCEPT ![s].n_sem = @ + 1]
      /\ UNCHANGED <<D, elems, memvars, item, wake, pollvars, uservars>>

WriteWakeRead(t) ==
  /\ GoOn(t, "w_wake_read", "user")
  /\ LpelTaskUnblock(D[S[Str(t)].cons_sd].task)
  /\ UNCHANGED <<S, D, elems, memvars, item, pollvars, uservars>>

WriteWakePoll(t) ==
  LET d == S[Str(t)].cons_sd
  IN  /\ GoOn(t, "w_wake_poll", "user")
      /\ wakeup_sd' = [wakeup_sd EXCEPT ![D[d].task] = d]
      /\ poll_wakeup' = [poll_wakeup EXCEPT ![t] = 0]
      /\ LpelTaskUnblock(D[d].task)
      /\ UNCHANGED <<S, D, elems, memvars, item, poll_token, set, pos, cnt, uservars>>

----------------------------------------------------------------------------
(* LpelStreamRead *)

(* Mutant: the reader of an empty stream does not wait. *)
ReadPOffByOne(t, d, from) ==
  LET s == D[d].stream
  IN  /\ Goto(t, from, IF S[s].n_sem < 0 THEN "r_blk" ELSE "r_pop")
      /\ S' = [S EXCEPT ![s].n_sem = @ - 1]
      /\ sd' = [sd EXCEPT ![t] = d]
      /\ UNCHANGED <<D, elems, memvars, item, wake, pollvars, uservars>>

(* quasi P(n_sem) *)
ReadP(t, d, from) ==
  LET s == D[d].stream
  IN  /\ Goto(t, from, IF S[s].n_sem = 0 THEN "r_blk" ELSE "r_pop")
      /\ S' = [S EXCEPT ![s].n_sem = @ - 1]
      /\ sd' = [sd EXCEPT ![t] = d]
      /\ UNCHANGED <<D, elems, memvars, item, wake, pollvars, uservars>>

(* The record is kept if the task has more to do with it. *)
ReadPop(t) ==
  LET s == Str(t)
      r == LpelBufferTop(S[s].buf)
  IN  /\ Goto(t, "r_pop", IF S[s].type = "ENTRY" THEN "r_v" ELSE "user")
      /\ S' = [S EXCEPT ![s] = [@ EXCEPT !.buf = LpelBufferPop(@), !.read_cnt = @ + 1]]
      /\ got' = IF r.from = 0 THEN got ELSE [got EXCEPT ![t][r.from] = r.nr]
      /\ item' = [item EXCEPT ![t] = IF t = Relay \/ r.from = 0 \/ Terminates(r)
                                     THEN r ELSE NULL]
      /\ sd' = [sd EXCEPT ![t] = IF S[s].type = "ENTRY" \/ item'[t] # NULL THEN @ ELSE NULL]
      /\ UNCHANGED <<D, elems, memvars, wake, pollvars, in, out, outs, sent, told,
                     leaving, sosi>>

(* quasi V(e_sem), of an entry stream only *)
ReadV(t) ==
  LET s == Str(t)
  IN  /\ GoOn(t, "r_v", IF S[s].e_sem < 0 THEN "r_wake" ELSE "user")
      /\ S' = [S EXCEPT ![s].e_sem = @ + 1]
      /\ UNCHANGED <<D, elems, memvars, item, wake, pollvars, uservars>>

ReadWake(t) ==
  /\ GoOn(t, "r_wake", "user")
  /\ LpelTaskUnblock(D[S[Str(t)].prod_sd].task)
  /\ UNCHANGED <<S, D, elems, memvars, item, pollvars, uservars>>

----------------------------------------------------------------------------
(* LpelStreamPoll, called by Coll.  The set is listed in iteration order;  *)
(* *set is the last descriptor, so assigning to it rotates the list.       *)

Rotated(d) ==
  LET k == CHOOSE j \in DOMAIN set : set[j] = d
  IN  SubSeq(set, k + 1, Len(set)) \o SubSeq(set, 1, k)

End == pos = Len(set)
NextPos(stop) == pos' = IF stop THEN 1 ELSE pos + 1
Empty(d) == LpelBufferIsEmpty(S[D[d].stream].buf)

PollStart(t) ==
  /\ t = Coll /\ set # <<>> /\ item[t] = NULL
  /\ Goto(t, "user", "p_fast")
  /\ UNCHANGED <<S, D, elems, memvars, sd, item, wake, pollvars, uservars>>

(* The fast path: the first non-empty stream is returned at once. *)
PollFast(t) ==
  LET found == ~Empty(set[pos])
  IN  /\ Goto(t, "p_fast", IF found THEN "polled" ELSE IF End THEN "p_token" ELSE "p_fast")
      /\ set' = IF found THEN Rotated(set[pos]) ELSE set
      /\ NextPos(found \/ End)
      /\ UNCHANGED <<S, D, elems, memvars, sd, item, wake, poll_token, wakeup_sd,
                     poll_wakeup, cnt, uservars>>

PollToken(t) ==
  /\ Goto(t, "p_token", "p_reg")
  /\ poll_token' = [poll_token EXCEPT ![t] = 1]
  /\ cnt' = 0
  /\ UNCHANGED <<S, D, elems, memvars, sd, item, wake, wakeup_sd, poll_wakeup, set, pos,
                 uservars>>

(* Mutant: the poller blocks although it has its token back. *)
PollBlocksWithToken(t) ==
  LET d == set[pos]
      s == D[d].stream
      stop == ~Empty(d) \/ End
  IN  /\ Goto(t, "p_reg", IF stop THEN "p_blk" ELSE "p_reg")
      /\ S' = [S EXCEPT ![s].is_poll = @ \/ Empty(d)]
      /\ cnt' = IF Empty(d) THEN cnt + 1 ELSE cnt
      /\ poll_token' = IF Empty(d) THEN poll_token ELSE [poll_token EXCEPT ![t] = 0]
      /\ NextPos(stop)
      /\ UNCHANGED <<D, elems, memvars, sd, item, wake, wakeup_sd, poll_wakeup, set, uservars>>

(* One round of the registration loop, under the lock of the stream: it is *)
(* empty, and registered as an activator, or the loop ends.                *)
PollRegister(t) ==
  LET d == set[pos]
      s == D[d].stream
      tok == ~Empty(d) /\ poll_token[t] = 1
      stop == ~Empty(d) \/ End
  IN  /\ Goto(t, "p_reg", IF tok THEN "p_unreg" ELSE IF stop THEN "p_blk" ELSE "p_reg")
      /\ S' = [S EXCEPT ![s].is_poll = @ \/ Empty(d)]
      /\ cnt' = IF Empty(d) THEN cnt + 1 ELSE cnt
      /\ poll_token' = IF Empty(d) THEN poll_token ELSE [poll_token EXCEPT ![t] = 0]
      /\ wakeup_sd' = IF tok THEN [wakeup_sd EXCEPT ![t] = d] ELSE wakeup_sd
      /\ NextPos(stop)
      /\ UNCHANGED <<D, elems, memvars, sd, item, wake, poll_wakeup, set, uservars>>

(* One round of the loop that unregisters the activators. *)
PollUnregister(t) ==
  LET stop == cnt = 1 \/ End
  IN  /\ Goto(t, "p_unreg", IF stop THEN "polled" ELSE "p_unreg")
      /\ S' = [S EXCEPT ![D[set[pos]].stream].is_poll = FALSE]
      /\ cnt' = cnt - 1
      /\ NextPos(stop)
      /\ set' = IF stop THEN Rotated(wakeup_sd[t]) ELSE set
      /\ UNCHANGED <<D, elems, memvars, sd, item, wake, poll_token, wakeup_sd, poll_wakeup,
                     uservars>>

----------------------------------------------------------------------------
(* The tasks *)

Produce(t) ==
  /\ t = Prod
  /\ \E o \in 1 .. 2 :
       /\ outs[o] # NULL /\ sent[o] < Last[o]
       /\ WriteP(t, outs[o], Record(o, sent[o] + 1))
       /\ sent' = [sent EXCEPT ![o] = @ + 1]
  /\ UNCHANGED leaving

Forward(t) ==
  /\ t = Relay /\ item[t] # NULL
  /\ WriteP(t, out, item[t])
  /\ UNCHANGED <<sent, leaving>>

(* Relay leaves: it sends its input to Coll and closes it without          *)
(* destroying it, in either order.  An entry stream is not handed over:    *)
(* LpelStreamReplace would give it another type, and a source that waits   *)
(* on its e_sem would not be woken.                                        *)
Leave(t) ==
  /\ t = Relay /\ pc[t] = "user" /\ item[t] = NULL /\ leaving = NULL
  /\ in # NULL /\ got[t][1] < Last[1]
  /\ S[D[in].stream].type # "ENTRY"
  /\ leaving' = D[in].stream
  /\ UNCHANGED <<S, D, elems, memvars, pc, sd, item, wake, pollvars, in, out, outs, sent,
                 got, told, sosi>>

SendSync(t) ==
  /\ t = Relay /\ leaving \in Streams
  /\ WriteP(t, out, Sync(leaving))
  /\ leaving' = "sent"
  /\ UNCHANGED sent

Relays(t) ==
  /\ t = Relay /\ item[t] = NULL /\ leaving = NULL
  /\ in # NULL /\ got[t][1] < Last[1]
  /\ ReadP(t, in, "user")

CloseIn(t) ==
  /\ t = Relay /\ pc[t] = "user" /\ item[t] = NULL /\ in # NULL
  /\ \/ leaving # NULL /\ Close(t, in)
     \/ got[t][1] = Last[1] /\ CloseDestroy(t, in)
  /\ in' = NULL
  /\ UNCHANGED <<pc, sd, item, wake, pollvars, out, outs, sent, got, told, leaving,
                 sosi>>

CloseOut(t) ==
  /\ pc[t] = "user"
  /\ \/ /\ t = Relay /\ item[t] = NULL /\ out # NULL
        /\ leaving = "sent" \/ got[t][1] = Last[1]
        /\ Close(t, out) /\ out' = NULL /\ UNCHANGED outs
     \/ /\ t = Prod
        /\ \E o \in 1 .. 2 : /\ outs[o] # NULL /\ sent[o] = Last[o]
                             /\ Close(t, outs[o])
                             /\ outs' = [outs EXCEPT ![o] = NULL]
        /\ UNCHANGED out
  /\ UNCHANGED <<pc, sd, item, wake, pollvars, in, sent, got, told, leaving, sosi>>

(* Coll has read a sync or a terminate record. *)
Obey(t) ==
  /\ t = Coll /\ pc[t] = "user" /\ item[t] # NULL
  /\ IF item[t].from = 0
     THEN LpelStreamReplace(t, sd[t], item[t].nr) /\ UNCHANGED set
     ELSE CloseDestroy(t, sd[t]) /\ set' = SelectSeq(set, LAMBDA d : d # sd[t])
  /\ item' = [item EXCEPT ![t] = NULL] /\ sd' = [sd EXCEPT ![t] = NULL]
  /\ UNCHANGED <<pc, wake, poll_token, wakeup_sd, poll_wakeup, pos, cnt, uservars>>

Step(t) ==
  \/ Resume(t, "w_blk", "w_put") \/ WritePut(t) \/ WriteV(t)
  \/ WriteWakeRead(t) \/ WriteWakePoll(t)
  \/ Resume(t, "r_blk", "r_pop") \/ ReadPop(t) \/ ReadV(t) \/ ReadWake(t)
  \/ PollFast(t) \/ PollToken(t) \/ PollRegister(t)
  \/ Resume(t, "p_blk", "p_unreg") \/ PollUnregister(t)
  \/ t = Coll /\ ReadP(t, set[Len(set)], "polled")

User(t) ==
  \/ LpelStreamCreate(t) \/ OpenRead(t) \/ PollStart(t) \/ Produce(t)
  \/ Forward(t) \/ Leave(t) \/ SendSync(t) \/ Relays(t)
  \/ CloseIn(t) \/ CloseOut(t) \/ Obey(t)

(* Every stream has been closed at both ends. *)
Finished == (\A d \in Descs : D[d].task = NULL) /\ sent = Last /\ UNCHANGED vars

Next == (\E t \in Tasks : Step(t) \/ User(t)) \/ Finished

Spec == Init /\ [][Next]_vars

(* A task inside the library runs on; a woken task is resumed. *)
FairSpec == Spec /\ \A t \in Tasks : WF_vars(Step(t))

----------------------------------------------------------------------------
(* Correctness *)

(* The assertion of LpelStreamRead, and order: a reader past P(n_sem)      *)
(* finds an item, and the records of each stream come in the order of      *)
(* their writes, although a part of them came through Relay and the rest   *)
(* over the stream that took its place.                                    *)
ItemsInOrder ==
  \A t \in Tasks : pc[t] = "r_pop" =>
    /\ S[Str(t)].buf # <<>>
    /\ LET r == Head(S[Str(t)].buf)
       IN  r.from # 0 => r.nr = got[t][r.from] + 1

(* No stream or descriptor is reused while it is in use.  An open          *)
(* descriptor and its stream point to each other; the stream is unset only *)
(* for an end that will not touch it again, and no free or reused stream   *)
(* is touched.  What a stream points to has not been given away (the       *)
(* assertion of LpelWorkerGetStream), so that unsetting the other end's    *)
(* pointer never hits a stranger.  The lists that the master walks hold    *)
(* the open descriptors (the assertions of LpelTaskRemoveStream and        *)
(* LpelTaskDestroy).                                                       *)
InUse ==
  /\ \A d \in Descs : D[d].task # NULL =>
       LET s == D[d].stream
           t == D[d].task
       IN  /\ \A c \in Ctx : d \notin free_sd[c]
           /\ \/ s = NULL /\ ~(sd[t] = d /\ pc[t] # "user")
                          /\ d \notin {set[i] : i \in DOMAIN set}
              \/ s # NULL /\ d = (IF D[d].mode = "r" THEN S[s].cons_sd ELSE S[s].prod_sd)
  /\ \A t \in Tasks : elems[t] = {d \in Descs : D[d].task = t}
  /\ \A s \in malloced \cap Streams : \A d \in {S[s].prod_sd, S[s].cons_sd} \ {NULL} :
       D[d].stream = s
  /\ \A c \in Ctx : \A s \in free_stream[c] :
       S[s].prod_sd = NULL /\ S[s].cons_sd = NULL /\ S[s].buf = <<>>

(* "only entry stream is bounded": it never holds more than Size records,  *)
(* and LpelStreamFillLevel never gives a negative number.                  *)
EntryBounded ==
  \A s \in Streams :
    LET level == S[s].write_cnt - S[s].read_cnt
    IN  level >= 0 /\ (S[s].type = "ENTRY" => level <= Size)

HoldsToken(u, t) ==
  /\ pc[u] \in {"w_v", "w_wake_poll"} /\ poll_wakeup[u] = 1
  /\ t = D[S[Str(u)].cons_sd].task

(* The contract with the task layer, as for DecenStream. *)
park == [t \in Tasks |->
           IF wake[t] > 0 THEN "granted"
           ELSE IF \/ pc[t] \in {"r_blk", "w_blk", "p_blk"}
                   \/ \E u \in Tasks : HoldsToken(u, t)
                THEN "parking" ELSE "running"]

Park == INSTANCE TaskPark
ImplementsPark == Park!FairSpec

(* "the task is suspended until the consumer reads items from the stream,  *)
(* freeing space" (LpelStreamWrite), "until a producer writes an item"     *)
(* (LpelStreamRead), and while there is no data on all streams             *)
(* (LpelStreamPoll): no task waits for ever for what is already there.     *)
WaiterServed ==
  \A t \in Tasks :
    \/ pc[t] = "w_blk" /\ S[Str(t)].write_cnt - S[Str(t)].read_cnt < Size
    \/ pc[t] = "r_blk" /\ S[Str(t)].buf # <<>>
    \/ pc[t] = "p_blk" /\ \E i \in DOMAIN set : ~Empty(set[i])
    ~> pc[t] \notin {"w_blk", "r_blk", "p_blk"}
=============================================================================
