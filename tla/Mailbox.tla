------------------------------- MODULE Mailbox -------------------------------
(***************************************************************************)
(* The mailbox of a worker (mailbox.c): a circular singly linked list of   *)
(* nodes, reached through its last node, and a pool of free nodes, each    *)
(* under a mutex of its own, with a condition variable for the one thread  *)
(* that receives.                                                          *)
(*                                                                         *)
(* A step is one critical section, or one access to a node outside of any: *)
(* a node that is in neither list is touched without a lock.  malloc hands *)
(* out any address that is not allocated, so a freed node may come back.   *)
(***************************************************************************)
EXTENDS Integers, Sequences, FiniteSets

CONSTANTS Senders, Nodes, NULL,
          Count       \* bound: number of messages each sender sends

(* malloc never fails: there is a node for every message. *)
ASSUME MailboxAssumption ==
  /\ IsFiniteSet(Senders) /\ IsFiniteSet(Nodes) /\ Count \in Nat
  /\ NULL \notin Nodes
  /\ Cardinality(Nodes) >= Cardinality(Senders) * Count

VARIABLES
  list_free, list_inbox,      \* mailbox_t
  next, msg,                  \* mailbox_node_t
  heap,                       \* the nodes that are allocated
  pc, node,                   \* of a sending thread
  rpc, rnode,                 \* of the receiving thread
  polled,                     \* it was told that the inbox is not empty
  sent, got                   \* history: inserted and received, in order

sendvars == <<pc, node>>
recvvars == <<rpc, rnode, polled>>
vars == <<list_free, list_inbox, next, msg, heap, sendvars, recvvars,
          sent, got>>

(* A message: its sender and its number. *)
Msgs == Senders \X (1 .. Count)
SentBy(q) == Cardinality({i \in DOMAIN sent : sent[i][1] = q})
Total == Cardinality(Senders) * Count
Current(q) == <<q, SentBy(q) + 1>>

LpelMailboxCreate == list_free = NULL /\ list_inbox = NULL

Init ==
  /\ LpelMailboxCreate
  /\ next = [n \in Nodes |-> NULL]
  /\ msg = [n \in Nodes |-> NULL]
  /\ heap = {}
  /\ pc = [q \in Senders |-> "idle"]
  /\ node = [q \in Senders |-> NULL]
  /\ rpc = "idle" /\ rnode = NULL /\ polled = FALSE
  /\ sent = <<>> /\ got = <<>>

----------------------------------------------------------------------------
(* LpelMailboxSend *)

(* The critical section of lock_free. *)
GetFree(q) ==
  /\ rpc # "destroyed"
  /\ pc[q] = "idle" /\ SentBy(q) < Count
  /\ IF list_free # NULL
     THEN /\ node' = [node EXCEPT ![q] = list_free]
          /\ list_free' = next[list_free]
          /\ UNCHANGED heap
     ELSE \E n \in Nodes \ heap :
            /\ node' = [node EXCEPT ![q] = n]
            /\ heap' = heap \cup {n}
            /\ UNCHANGED list_free
  /\ pc' = [pc EXCEPT ![q] = "copy"]
  /\ UNCHANGED <<list_inbox, next, msg, recvvars, sent, got>>

(* node->msg = *msg *)
CopyIn(q) ==
  /\ pc[q] = "copy"
  /\ msg' = [msg EXCEPT ![node[q]] = Current(q)]
  /\ pc' = [pc EXCEPT ![q] = "insert"]
  /\ UNCHANGED <<list_free, list_inbox, next, heap, node, recvvars, sent, got>>

(* Mutant: list_inbox is set for the first message only. *)
InsertAtHead(q) ==
  LET n == node[q]
  IN  /\ pc[q] = "insert"
      /\ IF list_inbox = NULL
         THEN /\ next' = [next EXCEPT ![n] = n]
              /\ list_inbox' = n
              /\ rpc' = IF rpc = "wait" THEN "lock" ELSE rpc
         ELSE /\ next' = [next EXCEPT ![n] = next[list_inbox],
                                      ![list_inbox] = n]
              /\ UNCHANGED <<list_inbox, rpc>>
      /\ sent' = Append(sent, msg[n])
      /\ pc' = [pc EXCEPT ![q] = "idle"]
      /\ node' = [node EXCEPT ![q] = NULL]
      /\ UNCHANGED <<list_free, msg, heap, rnode, polled, got>>

(* The critical section of lock_inbox.  Only the first message signals:    *)
(* the signal moves a thread in pthread_cond_wait to the lock's queue.     *)
Insert(q) ==
  LET n == node[q]
  IN  /\ pc[q] = "insert"
      /\ IF list_inbox = NULL
         THEN /\ next' = [next EXCEPT ![n] = n]
              /\ rpc' = IF rpc = "wait" THEN "lock" ELSE rpc
         ELSE /\ next' = [next EXCEPT ![n] = next[list_inbox],
                                      ![list_inbox] = n]
              /\ UNCHANGED rpc
      /\ list_inbox' = n
      /\ sent' = Append(sent, msg[n])
      /\ pc' = [pc EXCEPT ![q] = "idle"]
      /\ node' = [node EXCEPT ![q] = NULL]
      /\ UNCHANGED <<list_free, msg, heap, rnode, polled, got>>

----------------------------------------------------------------------------
(* LpelMailboxRecv and LpelMailboxHasIncoming *)

(* A worker with nothing to do calls LpelMailboxRecv whatever the inbox    *)
(* holds: a message is still to come, if only the one to terminate.        *)
RecvCall ==
  /\ rpc = "idle" /\ Len(got) < Total
  /\ rpc' = "lock" /\ polled' = FALSE
  /\ UNCHANGED <<list_free, list_inbox, next, msg, heap, sendvars, rnode,
                 sent, got>>

(* Mutant: the wrong list is looked at. *)
HasFree ==
  /\ rpc = "idle" /\ list_free # NULL
  /\ rpc' = "lock" /\ polled' = TRUE
  /\ UNCHANGED <<list_free, list_inbox, next, msg, heap, sendvars, rnode,
                 sent, got>>

(* A worker that has tasks to run calls it when an unlocked read of        *)
(* list_inbox says that there is a message.                                *)
LpelMailboxHasIncoming ==
  /\ rpc = "idle" /\ list_inbox # NULL
  /\ rpc' = "lock" /\ polled' = TRUE
  /\ UNCHANGED <<list_free, list_inbox, next, msg, heap, sendvars, rnode,
                 sent, got>>

(* With lock_inbox: wait, or unlink the first node. *)
RecvLocked ==
  LET first == next[list_inbox]
  IN  /\ rpc = "lock"
      /\ IF list_inbox = NULL
         THEN /\ rpc' = "wait"
              /\ UNCHANGED <<list_inbox, next, rnode>>
         ELSE /\ rnode' = first
              /\ IF first = list_inbox
                 THEN list_inbox' = NULL /\ UNCHANGED next
                 ELSE /\ next' = [next EXCEPT ![list_inbox] = next[first]]
                      /\ UNCHANGED list_inbox
              /\ rpc' = "copy"
      /\ UNCHANGED <<list_free, msg, heap, sendvars, polled, sent, got>>

(* pthread_cond_wait may return without a signal. *)
SpuriousWakeup ==
  /\ rpc = "wait" /\ rpc' = "lock"
  /\ UNCHANGED <<list_free, list_inbox, next, msg, heap, sendvars, rnode,
                 polled, sent, got>>

(* *msg = node->msg *)
CopyOut ==
  /\ rpc = "copy"
  /\ got' = Append(got, msg[rnode])
  /\ rpc' = "free"
  /\ UNCHANGED <<list_free, list_inbox, next, msg, heap, sendvars, rnode,
                 polled, sent>>

(* Mutants: the node is not linked, or starts a new list. *)
PutFreeUnlinked ==
  /\ rpc = "free"
  /\ list_free' = rnode /\ rnode' = NULL /\ rpc' = "idle"
  /\ UNCHANGED <<next, list_inbox, msg, heap, sendvars, polled, sent, got>>

PutFreeAlone ==
  /\ rpc = "free"
  /\ next' = [next EXCEPT ![rnode] = NULL]
  /\ list_free' = rnode /\ rnode' = NULL /\ rpc' = "idle"
  /\ UNCHANGED <<list_inbox, msg, heap, sendvars, polled, sent, got>>

(* The critical section of lock_free.  The two branches of the code write  *)
(* the same value.                                                         *)
PutFree ==
  /\ rpc = "free"
  /\ next' = [next EXCEPT ![rnode] = list_free]
  /\ list_free' = rnode
  /\ rnode' = NULL
  /\ rpc' = "idle"
  /\ UNCHANGED <<list_inbox, msg, heap, sendvars, polled, sent, got>>

(* The nodes that a walk along next meets from n on: those of every set    *)
(* that has n and is closed under next.                                    *)
Reachable(n) ==
  {m \in Nodes : \A S \in SUBSET Nodes :
     /\ n # NULL => n \in S
     /\ \A x \in S : next[x] \in S \cup {NULL}
     => m \in S}

FreeNodes == Reachable(list_free)

(* The owner is gone and the other threads no longer send: every node of   *)
(* the free list is freed.                                                 *)
LpelMailboxDestroy ==
  /\ rpc = "idle" /\ Len(got) = Total
  /\ heap' = heap \ FreeNodes
  /\ list_free' = NULL
  /\ rpc' = "destroyed"
  /\ UNCHANGED <<list_inbox, next, msg, sendvars, rnode, polled, sent, got>>

----------------------------------------------------------------------------
LpelMailboxSend(q) == GetFree(q) \/ CopyIn(q) \/ Insert(q)
LpelMailboxRecv ==
  RecvCall \/ LpelMailboxHasIncoming \/ RecvLocked \/ CopyOut \/ PutFree
Destroyed == rpc = "destroyed" /\ UNCHANGED vars

Next ==
  \/ \E q \in Senders : LpelMailboxSend(q)
  \/ LpelMailboxRecv
  \/ SpuriousWakeup
  \/ LpelMailboxDestroy
  \/ Destroyed

Spec == Init /\ [][Next]_vars

(* Every thread runs; a spurious wakeup need never happen. *)
FairSpec == Spec /\ WF_vars(LpelMailboxRecv)
                 /\ \A q \in Senders : WF_vars(LpelMailboxSend(q))

----------------------------------------------------------------------------
(* Correctness *)

(* The nodes of s are linked in its order. *)
Linked(s) ==
  /\ \A i, j \in 1 .. Len(s) : s[i] = s[j] => i = j
  /\ \A i \in 1 .. Len(s) - 1 : next[s[i]] = s[i + 1]

(* s is the inbox, first message first: list_inbox points to the last      *)
(* node, and the last node to the first.                                   *)
Ring(s) ==
  /\ Linked(s)
  /\ IF Len(s) = 0 THEN list_inbox = NULL
     ELSE list_inbox = s[Len(s)] /\ next[list_inbox] = s[1]

InboxNodes ==
  LET inbox == Reachable(list_inbox)
  IN  CHOOSE s \in [1 .. Cardinality(inbox) -> inbox] : Ring(s)

Messages(s) == [k \in 1 .. Len(s) |-> msg[s[k]]]

Held == ({node[q] : q \in Senders} \cup {rnode}) \ {NULL}

(* Every allocated node has one owner: it is in the free list, in the      *)
(* inbox, or in the hands of one thread.  The threads, which link and      *)
(* unlink nodes under different locks, corrupt neither list: the free list *)
(* ends, and the inbox comes back to its last node.                        *)
OneOwner ==
  LET inbox == Reachable(list_inbox)
  IN  /\ FreeNodes \cap inbox = {} /\ FreeNodes \cap Held = {}
      /\ inbox \cap Held = {}
      /\ \A q, r \in Senders : node[q] = node[r] /\ q # r => node[q] = NULL
      /\ \A q \in Senders : node[q] = rnode => rnode = NULL
      /\ heap = FreeNodes \cup inbox \cup Held
      /\ \A n \in FreeNodes : n \notin Reachable(next[n])
      /\ \A n \in inbox : list_inbox \in Reachable(next[n])

(* LpelMailboxDestroy frees every node there is. *)
NothingLeaks == rpc = "destroyed" => heap = {} /\ list_inbox = NULL

(* FetchAllMessages calls LpelMailboxRecv after LpelMailboxHasIncoming     *)
(* said yes, without a lock in between.  It does not wait then: a worker   *)
(* with ready tasks never sleeps.                                          *)
FetchNeverWaits == polled => rpc # "wait"

(* The linked list behaves like the queue of MailboxSpec: a message that   *)
(* is unlinked counts as received when it is, so its node must keep it     *)
(* until it has been copied out.                                           *)
Contents == Messages(InboxNodes)
Taken == IF rpc = "copy" THEN Append(got, msg[rnode]) ELSE got
Queue == INSTANCE MailboxSpec WITH queue <- Contents, got <- Taken

(* Messages are received once each and in order, and a thread waiting for  *)
(* a message is woken when one comes: no signal is lost.                   *)
ImplementsQueue == Queue!FairSpec
=============================================================================
