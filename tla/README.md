# LPEL in TLA+

TLA+ models of LPEL, the light-weight parallel execution layer, with TLC runs
that check them on small instances and TLAPS proofs about the streams, workers,
task queues and SPMD requests of the decentralised scheduler, about the master,
workers and wrappers of the hierarchical one, and about the mailboxes.
`PROJECT.json` gives for every definition the source lines it stands for, and for
every hazard of the code the properties that would catch it.

## The system

A *task* is a coroutine with a stack of its own.  It communicates over
*streams*: buffers with one producer and one consumer.  A task that finds its
stream empty or full blocks, and the task at the other end unblocks it.  Tasks
run on *workers*, one thread per core, or on *wrappers*, threads that serve one
task (sources, sinks, and whatever blocks in the operating system).  Threads
send each other messages through *mailboxes*.  There are two schedulers, of
which a build has one:

- the *decentralised* one: each worker has its own queues of ready tasks; a task
  that stops running looks for the next one on its own stack; tasks may migrate;
- the *hierarchical* one (HRC): a master thread owns one priority queue; workers
  ask it for tasks and return them; streams and descriptors are recycled.

SPMD requests let a task of the decentralised scheduler ask all workers to
execute a function together.

The parts meet at two interfaces, and each interface is a module of its own:

- **TaskPark**: what `LpelTaskBlockStream` and `LpelTaskUnblock` promise.  The
  stream modules are shown to *use* it correctly (a task is unblocked only when
  it is bound to block, and once), the worker modules to *implement* it (a task
  that blocked runs again after it was unblocked, and only then).
- **MailboxSpec**: an unbounded FIFO queue.  `Mailbox` implements it with linked
  lists; the worker modules use it.

So a stream module and a worker module never have to be explored together: the
product of their state spaces is out of reach, the contract is not.

## Modules

| Module | Code | State and steps |
|---|---|---|
| `DecenStream` | `decen_stream.c`, `decen_buffer.c` | The ring (`data`, `pread`, `pwrite`), `n_sem`, `e_sem`, `is_poll`, `prod_lock`, and for each task where it is inside a call (`pc`, `sd`). One action for each access to shared memory of write, try-write, read and poll; one for each of open, close and replace. |
| `TaskPark` | the contract above | A task is running, parking or granted. |
| `Mailbox`, `MailboxSpec` | `mailbox.c` | Nodes with `next` and `msg`, the two lists, the allocated nodes. One action for each critical section and each access outside of one. `malloc` returns any address that is free; `pthread_cond_wait` may wake spuriously. |
| `DecenWorker` | `decen_worker.c`, `decen_task.c`, `decen_scheduler.c`, `task_migration.c` | For each thread: its mailbox, its queues by priority, `num_tasks`, `current_task`, the task marked for deletion, and the stack it is on. The loop of the worker, the dispatcher run by a task, start, block, unblock, yield, migrate, exit, stop. |
| `DecenTaskqueue` | `decen_taskqueue.c` | The links `prev` and `next`; push and pop at both ends and removal during iteration. |
| `Streamset` | `streamset.c` | The ring of descriptors and an iterator; put, remove, reset, next, append and remove at the iterator. |
| `Spmd` | `spmdext.c`, `LpelTaskEnterSPMD`, the dispatcher | The ring of requests, a semaphore for each worker; one action for each access, the barriers post by post. |
| `HrcWorker` | `hrc_worker_op.c`, `hrc_worker_init.c`, `hrc_task.c` | The master's mailbox, its ready tasks and waiting workers; for each worker and wrapper its mailbox and task; each task's `state`, `wakenup`, `valid`. One action for each message handled and each operation of a task. |
| `HrcTaskqueue` | `hrc_taskqueue.c`, `taskpriority.c`, validity in `hrc_task.c` | The heap as an array, with `comparePrior` truncating to `int`, and the priority functions over small fill levels. |
| `HrcStream` | `hrc_stream.c`, `hrc_buffer.c`, free lists of `hrc_worker_op.c` | Streams and descriptors as records in reusable memory, and the calls of a network that changes while it runs. |

`MC*` modules give instances to TLC.  `DecenStreamInv`, `DecenWorkerInv`, `SpmdInv`
and `HrcWorkerInv` hold the inductive invariants of the modules they are named
after, and `DecenStreamProofs`, `DecenWorkerProofs`, `SpmdProofs` and
`HrcWorkerProofs` the proofs that rest on them.  `DecenWorkerSteps` and
`HrcWorkerSteps` are the first halves of two of these: the lemmas on the places
of a task with the steps of the dispatcher, and the steps of the master, the
workers and the wrappers.
`MailboxProofs` holds the invariant and the proofs of `Mailbox`, `ListProofs` those of
the two linked lists, `DecenTaskqueue` and `Streamset`.

Names are those of the code wherever one function is one action.  A function
with several accesses to shared data is several actions with a common prefix
(`WriteP`, `WritePut`, `WriteCheckPoll`, `WriteV`, ... for `LpelStreamWrite`).
Definitions called a mutant in their comment are plausible mistakes: replacing
the definition that follows them breaks a property, which shows that the
property depends on that code.

### Assumptions on the platform

Memory is sequentially consistent and a word is read or written at once.  The
counters and tokens are changed by GCC's `__sync` built-ins, which are full
barriers, and the item put in a buffer is ordered by `WMB`, on x86 a barrier for
the compiler, where the processor keeps the order of stores.  What a weaker
memory adds is not explored.  `malloc` does not fail.  Mutexes and POSIX
semaphores behave as specified.

### The client

A scheduler library has no state without a client, so some modules contain one.
`DecenStream` lets any task make any call that the API allows; the one rule is
the one stated in `LpelStreamPoll`: after a terminate or sync record nobody
writes to the stream, and its consumer closes or replaces it.  In `DecenWorker`
and `HrcWorker` tasks block, unblock, yield and exit in any order that
`TaskPark` allows, a bounded number of times.  `HrcStream` has the client that
its recycling is made for: a relay that hands its input to its successor and
leaves.  `Streamset` keeps to the rules of its header.

## Runs

Ten runs pass and two show a disagreement between the code and what it says of
itself.  Each takes less than three minutes with two workers of TLC.  Deadlock
is checked everywhere: a module whose system may stop has an explicit final step
(`Finished`, `Done`, `Destroyed`) that is enabled only when the work is done.
Symmetry is not used, since several runs check liveness.

| Run | Module, configuration | Instance and why it is enough |
|---|---|---|
| `stream` | `MCDecenStream_poll` | Two producers and one consumer; buffers of 1 and 2 slots, 2 and 3 items, so that both cursors wrap, both ends block, two writers race for one poll token, and the consumer closes or replaces a stream under its writer. |
| `stream_try` | `MCDecenStream_try` | The same; violated. |
| `mailbox` | `MCMailbox_queue` | Two senders of two messages: nodes go through the free list and come back, and the inbox has first, middle and last nodes. |
| `workers` | `MCDecenWorker_workers` | Two workers, a wrapper, three tasks, two priorities and one that is out of range. `LpelStop` may be called while tasks run. |
| `migration` | `MCDecenWorker_migration` | Two workers, three tasks, both mechanisms. |
| `spmd` | `MCSpmd_requests` | Two workers, three tasks, two of them on one worker, two requests each: the ring of two slots is used three times. |
| `spmd_pending` | `MCSpmd_pending` | One request each; violated. |
| `hrc_workers` | `MCHrcWorker_workers` | Two workers, three tasks, one an entry task whose output another one reads. |
| `hrc_wrappers` | `MCHrcWorker_wrappers` | Two of three tasks on wrappers, so that a wrapper is reused. |
| `hrc_stream` | `MCHrcStream_streams` | Three streams, six descriptors, one worker; entry streams of one slot. Memory is short enough to be reused. |
| `hrc_queue` | `MCHrcTaskqueue_heap` | Four tasks (three levels of the heap), fractional, difference and static priorities. |
| `lists` | `MCLists_links` | Four descriptors, three tasks: first, middle, last and only member of each list. |

### What they show

*stream.*  `ItemsInOrder`: the assertions on the buffer hold and the items come
in order.  `NoLostWakeup`: if nobody is about to wake a waiting task, there is
nothing there for it.  `PollReturnsReady`: a poll returns a member of the set
that has an item, with the token back at 0.  `NoUseAfterDestroy`: a writer that
still has to post, look at `is_poll` or wake its consumer finds the stream
allocated and the descriptor open, although the consumer frees the stream as
soon as it has the last record.  `ImplementsPark` and `WaiterServed` (liveness):
the contract is kept and no task waits for what is there.

*mailbox.*  `OneOwner`: a node is in one list or with one thread, and both lists are
intact.
`NothingLeaks`: destruction frees all nodes.  `FetchNeverWaits`: the unlocked
look of `LpelMailboxHasIncoming` never makes a worker with ready tasks sleep.
`ImplementsQueue`: refinement of `MailboxSpec`, its fairness included.

*workers.*  `OneThreadPerStack`: no two threads are on the stack of a task and
none on a destroyed one, although a task that blocks handles its worker's
messages, its own wakeup included, on its own stack.  `WokenTaskIsBlocked`: the
assertion on wakeup messages.  `NoTaskLost`: a task is in exactly one queue,
message or thread.  `NothingLeftBehind`: the assertions of the cleanup hold.
`ImplementsPark`, `Shutdown`: blocked tasks come back, and everything ends.

*migration.*  `Accounted`: `num_tasks`, which decides when a worker may leave,
is the number of its tasks, through both ways of migrating.

*spmd.*  `SoleOperator`, `SlotIsFree`, `SameRequests`: the barriers keep the
workers together over the reuse of slots and semaphores.  `RequestServed`: a
request ends, unless the assertion below stops the program first.

*hrc_workers.*  `OneThreadPerStack`, `StateAsExpected` (the assertions on
`t->state`), `NoTaskLost`, `OneRequestPerWorker` (the comment in `WorkerLoop`),
`WorkConserving` (no worker waits while a valid task is ready),
`ImplementsPark`, `Shutdown`.  *hrc_wrappers.*  `FreeWrapperIdle`: a wrapper in
the free list is as good as new.

*hrc_stream.*  `ItemsInOrder` across a hand-over, `InUse` (nothing recycled is in
use, nothing in use is recycled, the master's lists hold the open
descriptors), `EntryBounded`, `ImplementsPark`, `WaiterServed`.

*hrc_queue.*  `HoldsEachOnce`: the heap holds each queued task once.
`ValidHead`: with at most one entry task under a limit, a valid task is at the
head if there is one; this is what `HrcWorker` assumes of its set of ready
tasks.  `PeekIsHighest`: under static priorities the head is not lower than any
other task.

*lists.*  `RingHoldsSet`, `VisitsEach`, `LinksHoldQueue`: the links describe the
sequence that the other modules use in their place.

### Fairness

`DecenStream` and `HrcStream` assume weak fairness of the steps of a task inside
the library: its worker runs it on, and a woken task is resumed, which is what
the worker modules show (`ImplementsPark`).  What a task does between calls is
not fair: a client may never call again.  `DecenWorker`, `HrcWorker`, `Mailbox`
and `Spmd` assume weak fairness of each thread, which the operating system
gives, and of the program that starts the tasks and stops the library; tasks
run to their end because their budget of blocking and yielding is bounded.
There is no strong fairness.  Spurious wakeups are never assumed.

### Findings

1. **`LpelStreamTryWrite` may block** (`stream_try`).  `decen_stream.c:173` calls
   it a "Non-blocking write to a stream".  It looks at the buffer and then calls
   `LpelStreamWrite`, which waits for `e_sem`.  `LpelStreamRead` pops the item
   before it posts `e_sem`; in between there is space, and `e_sem` is still 0.
2. **A second SPMD request fails an assertion** (`spmd_pending`).  The dispatcher
   says "before executing a task, handle all pending requests!"
   (`decen_worker.c:260`), but a request behind one that another worker has
   reserved and not filled yet is not seen.  The worker runs its next task,
   whose request fails `assert( 0 == worker_data[wc->wid].pending)`
   (`spmdext.c:222`).

Further behaviour that the models leave out by a guard or a constant, because
the properties do not hold with it:

- `LPEL_MIG_WAIT_PROP` sends a task away from the dispatcher that runs on the
  task's own stack, so that the other worker may resume it too early.  The
  comment at `decen_worker.c:459` warns of this.  `OneThreadPerStack` is checked
  without migration.
- A task that migrates to a worker that has been told to stop and has left stays
  in its mailbox.  In `migration` the library is stopped when all tasks have
  ended.
- `hrc_stream.c:205`: `LpelStreamReplace` copies the type.  An entry stream that
  takes the place of an ordinary one is no longer posted, and a producer asleep
  on it stays asleep.  `HrcStream` does not hand over entry streams.
- In the hierarchical scheduler, stopping while tasks run fails the assertions
  of the cleanup (`StopEarly`), and an entry task held back by its limit stays
  so if its consumer exits first (`InOrder`).
- `comparePrior` truncates to `int`: priorities closer than 1 are equal, and
  `DBL_MAX` does not fit.  With fractional priorities the head of the heap need
  not be the highest; with two limited entry tasks an invalid head may hide a
  valid task.

## Proofs

`DecenStreamProofs` proves for every set of tasks and streams, every topology,
every buffer size and every number of items (`StreamAssumption`: streams have a
producer, a consumer, at least one slot and at least one item):

- `Invariant`: `Spec => []IInv`, and from it
- `TypeCorrect`: `[]TypeOK`,
- `Delivery`: `[]ItemsInOrder`,
- `Wakeups`: `[]NoLostWakeup`,
- `PollResult`: `[]PollReturnsReady`,
- `Lifetime`: `[]NoUseAfterDestroy`.

None of these properties is inductive: that a reader past `n_sem` finds an item
depends on what the counter means while operations are in progress.  `IInv`
(module `DecenStreamInv`) says, for every point of every operation,

- what `n_sem` and `e_sem` count: items and free slots, less the operations
  that have changed the one and not yet the other (`CountsOf`);
- which slots hold which items, in terms of `pread` (`RingOf`);
- that a semaphore at -1 stands for exactly one task, waiting and not woken, and
  that each waiting task has one wakeup on its way or due (`WaitsOf`);
- where the poll token is: with the poller, with one writer, or spent
  (`TokensOf`), and that while the poller has it every stream the loop has passed
  is registered and empty, unless its writer holds `prod_lock` and is about to
  look (`ArmedOf`, `LockOf`, `RegisteredOf`);
- that the stream for which a poller is woken is in its set and has an item
  (`ReadyOf`), and that only drained streams are closed (`LifeOf`, `SetOf`).

There is one lemma for each action (`WritePutKeeps`, `PollRegisterKeeps`, ...).
They rest on frame lemmas (`PollFrame`, `StreamFrame`, `TokenFrame`,
`ArmedFrame`): an action on one stream leaves the conjuncts of the other streams
and tasks as they were.

The last theorem, `Refinement`, is `Spec => Park!Spec`: with the mapping
`park` of `DecenStream`, every step is a step of `TaskPark` for one task, or none.
That is the safety part of `ImplementsPark`.  It rests on `IInv`: that a
writer which wakes a task finds it waiting is `WaitsOf` for the semaphores and
`TokensOf` for the poll token.

`DecenWorkerProofs` is about the other side of that contract.  For every finite
set of tasks, every set of workers and wrappers, every number of priorities and
every budget (`WorkerAssumption`) it proves

- `WorkerInvariant`: `Spec => [](WorkerInv /\ Accounted)`, and from it
- `TasksAccounted`: `[]Accounted`,
- `NoneLost`: `[]NoTaskLost`,
- `WakeupsInOrder`: `[]WokenTaskIsBlocked`,
- `StacksApart`: `[](mechanism # "wait_prop" => OneThreadPerStack)`,
- `WorkersLeaveClean`:
  `[]((mechanism = "none" \/ ~StopEarly) => NothingLeftBehind)`,
- `WorkersKeepContract`: `Spec => Park!Spec`, the safety part of `ImplementsPark`.

All but `StacksApart` and `WorkersLeaveClean` hold whatever mechanism of migration
is in use and whenever the library is stopped.  The hypotheses of these two are
those under which the code keeps the property (see the further behaviour above).
`StacksApart` covers random migration as well, which the run `workers` leaves out.

That a wakeup is handled only after its task has blocked depends on where the
task is at every moment, so `WorkerInv` (module `DecenWorkerInv`) says of every
task

- in which place it is, for each state: with a thread, in a queue, in a wrapper,
  with a loop that sends it away, in an assignment, or nowhere (`Located`).  The
  places are sets of threads, so that "exactly one" is an equality of sets;
- that the wakeup is in the mailbox of its worker from `LpelTaskUnblock` until it
  is handled, and not otherwise (`Parked`);
- that a wrapper has no task but its own (`Homed`);

and of every thread when it is on the stack of a task (`Threaded`).  `Accounted` is
carried along because it counts tasks by these places: each action adds a task
to those of a worker, takes one away or leaves them (`Counted`).

`StackInv` adds which worker destroys a task and that its own thread is the only
one on its stack; `ExitInv` adds that a worker is told to stop once, after all
tasks were started, and that one that leaves has only ended tasks.  With
`num_tasks = 0` and `Accounted` this gives the empty queues and mailbox.  TLC
checked the three invariants on the instances of `workers` and `migration` before
they were proved.

As in the streams there is one lemma for each action.  Each rests on a lemma on
what the step does to the places of the one task it moves, and on the fact that
the other tasks stay where they are.

`ListProofs` proves `QueueLinks`, `TaskqueueSpec => []LinksHoldQueue`, for any
number of tasks (`TaskqueueAssumption`: `NULL` is not a task).  The invariant
`QInv` adds that a task is in the queue once and that the iterator is on a task
of the queue.  Pop at either end and removal during iteration are one lemma,
`Unlink`: taking out the k-th task.  `LinkFirst` and `LinkLast` are the pushes.

It also proves, for any finite set of descriptors (`StreamsetAssumption`),

- `StreamsetInvariant`: `StreamsetSpec => []SInv`, and from it
- `RingIsKept`: `[]RingHoldsSet`,
- `IteratorVisitsEach`: `[]VisitsEach`.

`SInv` adds to the ring that a descriptor is in the set once, and where the
iterator is: `todo` is the rest of the set behind `cur`, or behind the place of a
descriptor it removed, and `prev` is the one before `cur` as long as `cur` may still
be removed.  After a removal `prev` is not read unless the first member went, when
`cur` is cleared and `prev` is the handle.  The search of `LpelStreamsetRemove` is a
loop over links; `RoundIs` shows, by the least position at which it could differ,
that it goes through the members in order, so that it stops at the descriptor and
has its predecessor.  Append, removal at a position and rotation of a ring are
one lemma each (`RingAppend`, `RingRemove`, `RingRotate`), used by the operations
of the set and of the iterator alike.

`MailboxProofs` proves for any number of senders, messages and nodes
(`MailboxAssumption`: there is a node for every message, so `malloc` does not fail)

- `FetchIsReady`: `Spec => []FetchNeverWaits`,
- `MailboxInvariant`: `Spec => []MailInv`, and from it
- `NodesOwnedOnce`: `[]OneOwner`,
- `NodesAllFreed`: `[]NothingLeaks`,
- `MailboxIsQueue`: `Spec => Queue!Spec`, the safety part of `ImplementsQueue`.

`FetchInv` says why an unlocked test may be used: after it the inbox only grows
until the receiver itself takes a node.  `MailInv` says that there are two sequences
of nodes, the free list and the inbox, such that

- the pointers link them in this order, the first ending in `NULL` and the second
  coming back to its first node through `list_inbox`; they, the nodes in the
  hands of the senders and that of the receiver are disjoint, and are the
  allocated ones (`Owned`);
- a sender has a node exactly between taking and inserting it, and the receiver
  between unlinking and releasing it (`HoldInv`);
- what was sent is what was received, the message in the receiver's node if it is
  yet to be copied, and those in the inbox, in this order (`Lossless`), each
  sender's messages numbered as they were sent (`SentInv`).

The lists are given by chains of pointers in `OneOwner` and in the mapping to
`MailboxSpec` (`Reachable`, `InboxNodes`).  `ReachableIs` and `RingUnique` show that the
sequences of `MailInv` are what these definitions find.  They go by the least
position at which something fails (`Least`), which stands in for induction.
`FreePop`, `FreePush`, `RingPush` and `RingPop` are the operations on the lists.
That `LpelMailboxDestroy` finds the inbox empty is counting: no more messages are
sent than received by then (`SentBound`).

`SpmdProofs` proves for any number of workers and tasks (`SpmdAssumption`: there is
a worker, and every task has one)

- `SpmdInvariant`: `Spec => []IInv`, and from it
- `MasterAlone`: `[]SoleOperator`,
- `QueueLargeEnough`: `[]SlotIsFree`,
- `RequestsAgree`: `[]SameRequests`.

The semaphores are the difficulty.  Each worker has one, both barriers of a
request use it, and the first posts for the next request arrive while the last
ones of this request are still to be waited for.  `IInv` (module `SpmdInv`) says

- that the requests in the ring are a sequence of different workers, which is why
  `num_workers` slots suffice (`QueueInv`);
- who leads, and in which phase of the request the other workers may be
  (`PhaseInv`);
- what each semaphore holds (`SemaInv`).  While m leads, what is in m's semaphore
  and what m has taken from it are the workers done with the request; for every
  other worker w, its semaphore, what w has gathered for its own next request and
  whether w has taken m's post are the workers that came to w's own request and
  whether m has posted.  Without a leader only the gathering is left;
- that the history of each worker is a common one, or the common one and the
  request of the leader (`LogInv`).

`SoleOperator` follows by counting: the leader goes on when it has taken as many
posts as there are other workers.

`HrcWorkerProofs` proves for any number of workers, wrappers and tasks, any entry
tasks, and whenever the library is stopped (`HrcAssumption`: there is a worker,
wrappers have negative ids, entry tasks are tasks of the master)

- `HrcInvariant`: `Spec => []IInv`, and from it
- `StacksAreSafe`: `[]OneThreadPerStack`,
- `StatesAreExpected`: `[]StateAsExpected`,
- `FreeWrappersIdle`: `[]FreeWrapperIdle`,
- `TasksAreKept`: `[]((mpc = "clean" => ~StopEarly) => NoTaskLost)`,
- `RequestsAreKept`: `[]OneRequestPerWorker`,
- `WorkIsConserved`: `OneFeeder => []WorkConserving`,
- `ParkContract`: `Spec => Park!Spec`, the safety part of `ImplementsPark`.

Two have hypotheses, which are those of the code.  After an early stop the
cleanup throws away what is left in the mailbox of the master, assignments and
wakeups included, and `NoTaskLost` ends there.  `updateNeighours` looks at all tasks
that feed the returned one and then serves one request: with two entry tasks
that feed one task both may become valid, and a second worker goes on waiting
(`OneFeeder` excludes this).

`IInv` (module `HrcWorkerInv`) is stated of the record that the handlers of the
master work on, since one message may change a task, the queue, a request and
a mailbox, one after the other.  It says

- of a task of the master, in which one place it is in each state (`Located`), and
  that its wakeup is kept once, as a message or as `wakenup`, from
  `LpelTaskUnblock` until it is ready (`Parked`).  A wakeup that overtakes the
  return of its task is the case that needs this;
- of a worker, that its request is with the master, among those that wait, or
  answered by one assignment, and that there is none while it runs a task
  (`WorkerInv`);
- of a task on a wrapper, what is in the mailbox of its wrapper and where the
  wrapper is, for each state (`AtWrapper`); of a wrapper, that it has one task, or
  none and an empty mailbox (`WrapperInv`, `FreeList`);
- of the library, that it is stopped after all tasks were started, and without
  `StopEarly` after they have ended (`StopInv`).  From this a worker that is told
  to leave has no task.

`HrcWorkerSteps` proves that the operations of the master keep this for all tasks
but the one in hand (`SendKeeps`, `QueueKeeps`, `NeighbourKeeps`, `RequestKeeps`), from
which the lemma for each message is put together.  The equalities of numbers in
`NoTaskLost` and `OneRequestPerWorker` come from `Located` and `WorkerInv`, which
have sets in their place (`TimesIs`, `LocatedOnce`).  TLC checked `IInv` on the
instances of `hrc_workers` and `hrc_wrappers`, with and without an early stop, before
it was proved.

Only model-checked:

- liveness and fairness, which the prover does not reason about: `WaiterServed`,
  `RequestServed`, `Shutdown`, and the fairness in the refinements of `TaskPark` and
  `MailboxSpec`;
- the heap of the hierarchical scheduler (`HrcTaskqueue`), whose sifting is
  recursive: what it leaves for every size of the heap is an induction over
  data;
- `taskpriority.c` and the recycled streams (`HrcStream`), for which no invariant
  has been carried to a proof.

## Not modelled

- Context switches (`src/ctx`): registers and stacks are below this level.
- `lpel_hwloc.c`, `lpelcfg.c`, `timing.c`, monitoring: placement, configuration,
  clock arithmetic and logs; no state that the modelled code reads again.
- `static_taskqueue.c`: a build option, the lists of `DecenTaskqueue` once more.
- `mutex.c`, `sema.c`: test-and-set loops for clients.  The first is in no
  makefile and includes a header that does not exist; nothing in the library
  calls the second.
- Which task migrates and where to: floating-point heuristics, a choice in
  `DecenWorker`.
- SPMD requests while the library stops, and the functions requested: the call
  is commented out in `spmdext.c`.
- The archive of old sources, and the SCC makefile.
- Unlocked reads by the HRC master of the fill levels of streams whose consumer
  is closing (`hrc_stream.c:589`): the counts are any number in `HrcTaskqueue`,
  and that the pointer read is still valid is not shown.
