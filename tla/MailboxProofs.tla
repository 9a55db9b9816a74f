---------------------------- MODULE MailboxProofs ----------------------------
(***************************************************************************)
(* The unlocked test of LpelMailboxHasIncoming is still true when          *)
(* LpelMailboxRecv takes the lock; every node has one owner, and none is   *)
(* left at the end; and the linked list is a queue.  All for any number of *)
(* senders and messages.                                                   *)
(***************************************************************************)
EXTENDS Mailbox, FiniteSetTheorems, WellFoundedInduction, TLAPS

USE ZenonT(60), SMTT(60)

(* FetchNeverWaits is not inductive: it needs that the inbox the receiver  *)
(* was told of has not become empty, since senders put nodes and only the  *)
(* receiver takes them, and that what a sender puts is a node.             *)
FetchInv ==
  /\ \A q \in Senders : pc[q] \in {"copy", "insert"} => node[q] # NULL
  /\ polled /\ rpc = "lock" => list_inbox # NULL
  /\ FetchNeverWaits

(* The variables of the senders are functions on them. *)
SenderTypes == DOMAIN pc = Senders /\ DOMAIN node = Senders

(* The steps of a sender keep the invariant, in any place of the receiver. *)
LEMMA SendKeeps ==
  ASSUME FetchInv, NEW q \in Senders, LpelMailboxSend(q), SenderTypes
  PROVE  FetchInv'
  <1>1. CASE GetFree(q)
    <2>1. node'[q] # NULL /\ \A r \in Senders : r # q =>
            node'[r] = node[r] /\ pc'[r] = pc[r]
      BY <1>1, MailboxAssumption DEF GetFree, SenderTypes
    <2>2. UNCHANGED <<polled, rpc, list_inbox>> BY <1>1 DEF GetFree, recvvars
    <2> QED BY <2>1, <2>2 DEF FetchInv, FetchNeverWaits
  <1>2. CASE CopyIn(q)
    <2>1. UNCHANGED <<polled, rpc, list_inbox, node>>
      BY <1>2 DEF CopyIn, recvvars
    <2>2. pc[q] = "copy" /\ \A r \in Senders : r # q => pc'[r] = pc[r]
      BY <1>2 DEF CopyIn, SenderTypes
    <2> QED BY <2>1, <2>2 DEF FetchInv, FetchNeverWaits
  <1>3. CASE Insert(q)
    <2>1. list_inbox' # NULL BY <1>3 DEF Insert, FetchInv
    <2>2. /\ pc'[q] = "idle"
          /\ \A r \in Senders : r # q => node'[r] = node[r] /\ pc'[r] = pc[r]
      BY <1>3 DEF Insert, SenderTypes
    <2>3. polled' = polled /\ (rpc' = "wait" => rpc = "wait")
      BY <1>3 DEF Insert
    <2> QED BY <2>1, <2>2, <2>3 DEF FetchInv, FetchNeverWaits
  <1> QED BY <1>1, <1>2, <1>3 DEF LpelMailboxSend

(* The steps of the receiver. *)
LEMMA ReceiveKeeps ==
  ASSUME FetchInv, LpelMailboxRecv \/ SpuriousWakeup \/ LpelMailboxDestroy
  PROVE  FetchInv'
  <1>0. UNCHANGED <<pc, node>>
    BY DEF LpelMailboxRecv, RecvCall, LpelMailboxHasIncoming, RecvLocked,
           CopyOut, PutFree, SpuriousWakeup, LpelMailboxDestroy, sendvars
  <1>1. CASE RecvCall
    BY <1>0, <1>1 DEF RecvCall, FetchInv, FetchNeverWaits
  <1>2. CASE LpelMailboxHasIncoming
    BY <1>0, <1>2 DEF LpelMailboxHasIncoming, FetchInv, FetchNeverWaits
  <1>3. CASE RecvLocked
    <2>1. polled' = polled BY <1>3 DEF RecvLocked
    <2>2. rpc = "lock" /\ rpc' = IF list_inbox = NULL THEN "wait" ELSE "copy"
      BY <1>3 DEF RecvLocked
    <2> QED BY <1>0, <2>1, <2>2 DEF FetchInv, FetchNeverWaits
  <1>4. CASE CopyOut BY <1>0, <1>4 DEF CopyOut, FetchInv, FetchNeverWaits
  <1>5. CASE PutFree BY <1>0, <1>5 DEF PutFree, FetchInv, FetchNeverWaits
  <1>6. CASE SpuriousWakeup
    BY <1>0, <1>6 DEF SpuriousWakeup, FetchInv, FetchNeverWaits
  <1>7. CASE LpelMailboxDestroy
    BY <1>0, <1>7 DEF LpelMailboxDestroy, FetchInv, FetchNeverWaits
  <1> QED BY <1>1, <1>2, <1>3, <1>4, <1>5, <1>6, <1>7 DEF LpelMailboxRecv

(* A worker that is told by LpelMailboxHasIncoming that there is a message *)
(* does not wait in LpelMailboxRecv, whatever the senders do in between.   *)
THEOREM FetchIsReady == Spec => []FetchNeverWaits
  <1>1. Init => SenderTypes /\ FetchInv
    BY DEF Init, SenderTypes, FetchInv, FetchNeverWaits
  <1>2. SenderTypes /\ [Next]_vars => SenderTypes'
    BY DEF SenderTypes, Next, LpelMailboxSend, GetFree, CopyIn, Insert,
           LpelMailboxRecv, RecvCall, LpelMailboxHasIncoming, RecvLocked,
           CopyOut, PutFree, SpuriousWakeup, LpelMailboxDestroy, Destroyed,
           sendvars, vars
  <1>3. SenderTypes /\ FetchInv /\ [Next]_vars => FetchInv'
    <2> SUFFICES ASSUME SenderTypes, FetchInv, [Next]_vars PROVE FetchInv'
      OBVIOUS
    <2>1. CASE UNCHANGED vars
      BY <2>1 DEF vars, sendvars, recvvars, FetchInv, FetchNeverWaits
    <2> QED BY <2>1, SendKeeps, ReceiveKeeps DEF Next, Destroyed, SenderTypes
  <1>4. FetchInv => FetchNeverWaits BY DEF FetchInv
  <1> QED BY <1>1, <1>2, <1>3, <1>4, PTL DEF Spec

----------------------------------------------------------------------------
(* Lists of nodes *)

Below == {ss \in Nat \X Nat : ss[1] < ss[2]}

(* A set of natural numbers has a least member. *)
LEMMA Least ==
  ASSUME NEW T \in SUBSET Nat, T # {}
  PROVE  \E x \in T : \A y \in T : x <= y
  <1>1. IsWellFoundedOn(Below, Nat)
    BY NatLessThanWellFounded DEF OpToRel, Below
  <1>2. PICK x \in T : \A y \in T : ~ (<<y, x>> \in Below)
    BY <1>1, WFMin
  <1>3. ASSUME NEW y \in T PROVE x <= y
    <2>1. x \in Nat /\ y \in Nat /\ ~ (<<y, x>> \in Below) BY <1>2
    <2>2. ~ (y < x) BY <2>1 DEF Below
    <2> QED BY SMTT(60), <2>1, <2>2
  <1> QED BY <1>3

Elems(s) == {s[i] : i \in 1 .. Len(s)}

(* s is the free list: it starts at list_free and ends. *)
FreeList(s) ==
  /\ Linked(s)
  /\ IF Len(s) = 0 THEN list_free = NULL
     ELSE list_free = s[1] /\ next[s[Len(s)]] = NULL

Closed(S) == \A x \in S : next[x] \in S \cup {NULL}

(* A set that is closed under next and has a node of a list has those that *)
(* follow it.                                                              *)
LEMMA Walk ==
  ASSUME NEW s \in Seq(Nodes), Linked(s), NEW i \in 1 .. Len(s),
         NEW S \in SUBSET Nodes, Closed(S), s[i] \in S
  PROVE  \A j \in i .. Len(s) : s[j] \in S
  <1> DEFINE X == {j \in i .. Len(s) : s[j] \notin S}
  <1> SUFFICES ASSUME X # {} PROVE FALSE OBVIOUS
  <1>0. X \in SUBSET Nat BY SMTT(60)
  <1>1. PICK x \in X : \A y \in X : x <= y BY <1>0, Least
  <1>2. x # i /\ x \in i .. Len(s) /\ s[x] \notin S OBVIOUS
  <1>3. x - 1 \in i .. Len(s) /\ x - 1 \in 1 .. Len(s) - 1 BY SMTT(60), <1>2
  <1>4. x - 1 \notin X BY SMTT(60), <1>1, <1>2
  <1>5. s[x - 1] \in S BY <1>3, <1>4
  <1>6. next[s[x - 1]] = s[x - 1 + 1] BY <1>3 DEF Linked
  <1>7. x - 1 + 1 = x /\ s[x] \in Nodes BY SMTT(60), <1>2
  <1>8. s[x] \in S \cup {NULL} BY <1>5, <1>6, <1>7 DEF Closed
  <1> QED BY <1>2, <1>7, <1>8, MailboxAssumption

(* What the nodes that can be reached are: a closed set of which each      *)
(* closed set with the first node has all.                                 *)
LEMMA ReachableIs ==
  ASSUME NEW n \in Nodes, NEW R \in SUBSET Nodes, n \in R, Closed(R),
         \A S \in SUBSET Nodes : Closed(S) /\ n \in S => R \subseteq S
  PROVE  Reachable(n) = R
  <1>1. n # NULL BY MailboxAssumption
  <1>2. Reachable(n) \subseteq R
    <2> SUFFICES ASSUME NEW m \in Reachable(n) PROVE m \in R OBVIOUS
    <2> QED BY <1>1 DEF Reachable, Closed
  <1>3. R \subseteq Reachable(n)
    <2> SUFFICES ASSUME NEW m \in R PROVE m \in Reachable(n) OBVIOUS
    <2> SUFFICES ASSUME NEW S \in SUBSET Nodes, n \in S, Closed(S)
                 PROVE  m \in S
      BY <1>1 DEF Reachable, Closed
    <2> QED OBVIOUS
  <1> QED BY <1>2, <1>3

(* Nothing is reached from NULL. *)
LEMMA ReachableNull == Reachable(NULL) = {}
  <1> SUFFICES ASSUME NEW m \in Reachable(NULL) PROVE FALSE OBVIOUS
  <1>1. {} \in SUBSET Nodes /\ \A x \in {} : next[x] \in {} \cup {NULL}
    OBVIOUS
  <1>2. \A S \in SUBSET Nodes :
          (\A x \in S : next[x] \in S \cup {NULL}) => m \in S
    BY DEF Reachable
  <1>3. m \in {} BY <1>1, <1>2
  <1> QED BY <1>3

(* From a node of the free list a walk meets those that follow it. *)
LEMMA ReachFree ==
  ASSUME NEW f \in Seq(Nodes), FreeList(f), NEW i \in 1 .. Len(f)
  PROVE  Reachable(f[i]) = {f[j] : j \in i .. Len(f)}
  <1> DEFINE R == {f[j] : j \in i .. Len(f)}
  <1>1. R \in SUBSET Nodes /\ f[i] \in R /\ f[i] \in Nodes BY SMTT(60)
  <1>2. Closed(R)
    <2> SUFFICES ASSUME NEW j \in i .. Len(f) PROVE next[f[j]] \in R \cup {NULL}
      BY DEF Closed
    <2>1. CASE j = Len(f) BY SMTT(60), <2>1 DEF FreeList
    <2>2. CASE j # Len(f)
      <3>1. j \in 1 .. Len(f) - 1 /\ j + 1 \in i .. Len(f) BY SMTT(60), <2>2
      <3> QED BY <3>1 DEF FreeList, Linked
    <2> QED BY <2>1, <2>2
  <1>3. ASSUME NEW S \in SUBSET Nodes, Closed(S), f[i] \in S
        PROVE  R \subseteq S
    BY <1>3, Walk DEF FreeList
  <1> QED BY SMTT(60), <1>1, <1>2, <1>3, ReachableIs

(* The inbox is reached from each of its nodes. *)
LEMMA ReachInbox ==
  ASSUME NEW b \in Seq(Nodes), Ring(b), NEW i \in 1 .. Len(b)
  PROVE  Reachable(b[i]) = Elems(b)
  <1>0. Linked(b) /\ next[b[Len(b)]] = b[1] /\ Len(b) \in 1 .. Len(b)
    BY SMTT(60) DEF Ring
  <1>1. Elems(b) \in SUBSET Nodes /\ b[i] \in Elems(b) /\ b[i] \in Nodes
    BY SMTT(60) DEF Elems
  <1>2. Closed(Elems(b))
    <2> SUFFICES ASSUME NEW j \in 1 .. Len(b)
                 PROVE  next[b[j]] \in Elems(b)
      BY DEF Closed, Elems
    <2>1. CASE j = Len(b) BY SMTT(60), <1>0, <2>1 DEF Elems
    <2>2. CASE j # Len(b)
      <3>1. j \in 1 .. Len(b) - 1 /\ j + 1 \in 1 .. Len(b) BY SMTT(60), <2>2
      <3> QED BY <1>0, <3>1 DEF Linked, Elems
    <2> QED BY <2>1, <2>2
  <1>3. ASSUME NEW S \in SUBSET Nodes, Closed(S), b[i] \in S
        PROVE  Elems(b) \subseteq S
    <2>1. b[Len(b)] \in S BY SMTT(60), <1>0, <1>3, Walk
    <2>2. b[1] \in S \cup {NULL} BY <1>0, <2>1, <1>3 DEF Closed
    <2>3. b[1] \in S /\ 1 \in 1 .. Len(b)
      BY SMTT(60), <2>2, <1>0, MailboxAssumption
    <2>4. \A j \in 1 .. Len(b) : b[j] \in S BY <1>0, <1>3, <2>3, Walk
    <2> QED BY <2>4 DEF Elems
  <1> QED BY SMTT(60), <1>1, <1>2, <1>3, ReachableIs

(* The order of the nodes of the inbox is given by the links: two lists    *)
(* that are the inbox agree up to where they first differ, and they end at *)
(* the same node.                                                          *)
LEMMA RingPrefix ==
  ASSUME NEW b \in Seq(Nodes), NEW c \in Seq(Nodes), Ring(b), Ring(c)
  PROVE  \A i \in 1 .. Len(b) : i <= Len(c) => b[i] = c[i]
  <1> DEFINE X == {i \in 1 .. Len(b) : i <= Len(c) /\ b[i] # c[i]}
  <1> SUFFICES ASSUME X # {} PROVE FALSE OBVIOUS
  <1>0. X \in SUBSET Nat BY SMTT(60)
  <1>1. PICK x \in X : \A y \in X : x <= y BY <1>0, Least
  <1>2. x \in 1 .. Len(b) /\ x \in 1 .. Len(c) /\ b[x] # c[x] BY SMTT(60)
  <1>3. CASE x = 1
    <2>1. b[1] = next[list_inbox] /\ c[1] = next[list_inbox]
      BY SMTT(60), <1>2 DEF Ring
    <2> QED BY <1>2, <1>3, <2>1
  <1>4. CASE x # 1
    <2>1. x - 1 \in 1 .. Len(b) - 1 /\ x - 1 \in 1 .. Len(c) - 1
      BY SMTT(60), <1>2, <1>4
    <2>2. x - 1 \notin X BY SMTT(60), <1>1, <1>2
    <2>3. b[x - 1] = c[x - 1] BY SMTT(60), <2>1, <2>2
    <2>4. next[b[x - 1]] = b[x - 1 + 1] /\ next[c[x - 1]] = c[x - 1 + 1]
      BY <2>1 DEF Ring, Linked
    <2>5. x - 1 + 1 = x BY SMTT(60), <1>2
    <2> QED BY <1>2, <2>3, <2>4, <2>5
  <1> QED BY <1>3, <1>4

(* No reading of the ring is longer than another. *)
LEMMA RingNoLonger ==
  ASSUME NEW b \in Seq(Nodes), NEW c \in Seq(Nodes), Ring(b), Ring(c)
  PROVE  Len(c) <= Len(b)
  <1> SUFFICES ASSUME Len(b) < Len(c) PROVE FALSE BY SMTT(60)
  <1>1. Len(b) \in Nat /\ Len(c) \in Nat /\ Len(c) # 0 BY SMTT(60)
  <1>2. list_inbox = c[Len(c)] /\ c[Len(c)] # NULL
    BY SMTT(60), <1>1, MailboxAssumption DEF Ring
  <1>3. Len(b) # 0 /\ list_inbox = b[Len(b)] BY <1>1, <1>2 DEF Ring
  <1>4. Len(b) \in 1 .. Len(b) /\ Len(b) <= Len(c) BY SMTT(60), <1>1, <1>3
  <1>5. b[Len(b)] = c[Len(b)] BY <1>4, RingPrefix
  <1>6. c[Len(b)] = c[Len(c)] BY <1>2, <1>3, <1>5
  <1>7. Len(b) = Len(c)
    <2>1. Len(b) \in 1 .. Len(c) /\ Len(c) \in 1 .. Len(c)
      BY SMTT(60), <1>1, <1>3
    <2> QED BY <1>6, <2>1 DEF Ring, Linked
  <1> QED BY SMTT(60), <1>1, <1>7

(* The inbox is one sequence of nodes. *)
LEMMA RingUnique ==
  ASSUME NEW b \in Seq(Nodes), NEW c \in Seq(Nodes), Ring(b), Ring(c)
  PROVE  b = c
  <1>1. Len(b) = Len(c)
    <2>1. Len(c) <= Len(b) BY RingNoLonger
    <2>2. Len(b) <= Len(c) BY RingNoLonger
    <2> QED BY SMTT(60), <2>1, <2>2
  <1>2. \A i \in 1 .. Len(b) : b[i] = c[i] BY SMTT(60), <1>1, RingPrefix
  <1> QED BY SMTT(60), <1>1, <1>2

(* The nodes of a list, and how many they are. *)
LEMMA ElemsCount ==
  ASSUME NEW s \in Seq(Nodes), Linked(s)
  PROVE  IsFiniteSet(Elems(s)) /\ Cardinality(Elems(s)) = Len(s)
  <1>1. s \in Bijection(1 .. Len(s), Elems(s))
    <2>1. s \in [1 .. Len(s) -> Elems(s)] BY SMTT(60) DEF Elems
    <2>2. s \in Injection(1 .. Len(s), Elems(s))
      BY <2>1 DEF Injection, IsInjective, Linked
    <2>3. s \in Surjection(1 .. Len(s), Elems(s))
      BY <2>1 DEF Surjection, Elems
    <2> QED BY <2>2, <2>3 DEF Bijection
  <1>2. ExistsBijection(1 .. Len(s), Elems(s)) BY <1>1 DEF ExistsBijection
  <1>3. IsFiniteSet(1 .. Len(s)) /\ Cardinality(1 .. Len(s)) = Len(s)
    <2>1. 1 \in Int /\ Len(s) \in Int /\ Len(s) >= 0 BY SMTT(60)
    <2>2. /\ IsFiniteSet(1 .. Len(s))
          /\ Cardinality(1 .. Len(s)) =
               IF 1 > Len(s) THEN 0 ELSE Len(s) - 1 + 1
      BY <2>1, FS_Interval
    <2> QED BY SMTT(60), <2>1, <2>2
  <1> QED BY <1>2, <1>3, FS_Bijection

(* The nodes reached from list_inbox are those of the inbox. *)
LEMMA ReachesInbox ==
  ASSUME NEW b \in Seq(Nodes), Ring(b)
  PROVE  Reachable(list_inbox) = Elems(b)
  <1>1. CASE Len(b) = 0
    <2>1. list_inbox = NULL /\ Elems(b) = {} BY SMTT(60), <1>1 DEF Ring, Elems
    <2> QED BY <2>1, ReachableNull
  <1>2. CASE Len(b) # 0
    <2>1. Len(b) \in 1 .. Len(b) /\ list_inbox = b[Len(b)]
      BY SMTT(60), <1>2 DEF Ring
    <2> QED BY <2>1, ReachInbox
  <1> QED BY <1>1, <1>2

(* The nodes reached from list_free are those of the free list. *)
LEMMA ReachesFree ==
  ASSUME NEW f \in Seq(Nodes), FreeList(f)
  PROVE  FreeNodes = Elems(f)
  <1>1. CASE Len(f) = 0
    <2>1. list_free = NULL /\ Elems(f) = {}
      BY SMTT(60), <1>1 DEF FreeList, Elems
    <2> QED BY <2>1, ReachableNull DEF FreeNodes
  <1>2. CASE Len(f) # 0
    <2>1. 1 \in 1 .. Len(f) /\ list_free = f[1] BY SMTT(60), <1>2 DEF FreeList
    <2>2. Reachable(f[1]) = {f[j] : j \in 1 .. Len(f)} BY <2>1, ReachFree
    <2> QED BY <2>1, <2>2 DEF FreeNodes, Elems
  <1> QED BY <1>1, <1>2

(* The sequence that stands for the inbox is the inbox. *)
LEMMA InboxIs ==
  ASSUME NEW b \in Seq(Nodes), Ring(b)
  PROVE  InboxNodes = b
  <1> DEFINE D == [1 .. Cardinality(Reachable(list_inbox))
                     -> Reachable(list_inbox)]
  <1>1. Reachable(list_inbox) = Elems(b) /\ Cardinality(Elems(b)) = Len(b)
    BY ReachesInbox, ElemsCount DEF Ring
  <1>2. D = [1 .. Len(b) -> Elems(b)] BY <1>1
  <1>3. b \in D BY SMTT(60), <1>2 DEF Elems
  <1>4. InboxNodes \in D /\ Ring(InboxNodes)
    BY <1>3 DEF InboxNodes
  <1>5. InboxNodes \in Seq(Nodes)
    <2>1. Elems(b) \subseteq Nodes BY SMTT(60) DEF Elems
    <2> HIDE DEF D
    <2> QED BY SMTT(60), <1>2, <1>4, <2>1
  <1> QED BY <1>4, <1>5, RingUnique

----------------------------------------------------------------------------
(* Ownership of the nodes *)

(* The types of the variables that nodes are linked and held with. *)
OwnTypes ==
  /\ list_free \in Nodes \cup {NULL} /\ list_inbox \in Nodes \cup {NULL}
  /\ next \in [Nodes -> Nodes \cup {NULL}]
  /\ heap \in SUBSET Nodes
  /\ pc \in [Senders -> {"idle", "copy", "insert"}]
  /\ node \in [Senders -> Nodes \cup {NULL}]
  /\ rpc \in {"idle", "lock", "wait", "copy", "free", "destroyed"}
  /\ rnode \in Nodes \cup {NULL}

(* A thread has a node of its own while it fills or empties it. *)
HoldInv ==
  /\ \A q \in Senders : node[q] = NULL <=> pc[q] = "idle"
  /\ rnode = NULL <=> rpc \notin {"copy", "free"}
  /\ \A q, r \in Senders : node[q] = node[r] /\ q # r => node[q] = NULL
  /\ \A q \in Senders : node[q] = rnode => rnode = NULL

(* The free list is f, the inbox is b, and what is allocated is theirs or  *)
(* a thread's.                                                             *)
Owned(f, b) ==
  /\ FreeList(f) /\ Ring(b)
  /\ \A n \in Elems(f) : n \notin Elems(b) /\ n \notin Held
  /\ \A n \in Elems(b) : n \notin Held
  /\ heap = Elems(f) \cup Elems(b) \cup Held

OwnInv ==
  /\ OwnTypes /\ HoldInv
  /\ \E f, b \in Seq(Nodes) : Owned(f, b)

(* OneOwner is what the two lists say. *)
LEMMA OwnedOnce ==
  ASSUME OwnInv PROVE OneOwner
  <1>1. PICK f \in Seq(Nodes), b \in Seq(Nodes) : Owned(f, b) BY DEF OwnInv
  <1>2. FreeNodes = Elems(f) BY <1>1, ReachesFree DEF Owned
  <1>3. Reachable(list_inbox) = Elems(b) BY <1>1, ReachesInbox DEF Owned
  <1>4. ASSUME NEW n \in Elems(f) PROVE n \notin Reachable(next[n])
    <2>1. PICK i \in 1 .. Len(f) : n = f[i] BY DEF Elems
    <2>2. CASE i = Len(f)
      <3>1. next[n] = NULL BY SMTT(60), <1>1, <2>1, <2>2 DEF Owned, FreeList
      <3> QED BY <3>1, ReachableNull
    <2>3. CASE i # Len(f)
      <3>1. i \in 1 .. Len(f) - 1 /\ i + 1 \in 1 .. Len(f) BY SMTT(60), <2>3
      <3>2. next[n] = f[i + 1]
        BY <1>1, <2>1, <3>1 DEF Owned, FreeList, Linked
      <3>3. Reachable(f[i + 1]) = {f[j] : j \in i + 1 .. Len(f)}
        BY <1>1, <3>1, ReachFree DEF Owned
      <3>4. \A j \in i + 1 .. Len(f) : f[j] # f[i]
        <4> TAKE j \in i + 1 .. Len(f)
        <4>1. j \in 1 .. Len(f) /\ j # i BY SMTT(60), <3>1
        <4> QED BY <1>1, <4>1 DEF Owned, FreeList, Linked
      <3> QED BY <2>1, <3>2, <3>3, <3>4
    <2> QED BY <2>2, <2>3
  <1>5. ASSUME NEW n \in Elems(b) PROVE list_inbox \in Reachable(next[n])
    <2>1. PICK i \in 1 .. Len(b) : n = b[i] BY DEF Elems
    <2>2. Ring(b) /\ Linked(b) /\ Len(b) # 0 /\ list_inbox = b[Len(b)]
      BY SMTT(60), <1>1, <2>1 DEF Owned, Ring
    <2>3. PICK k \in 1 .. Len(b) : next[n] = b[k]
      <3>1. CASE i = Len(b)
        <4>1. next[n] = b[1] /\ 1 \in 1 .. Len(b)
          BY SMTT(60), <2>1, <2>2, <3>1 DEF Ring
        <4> QED BY <4>1
      <3>2. CASE i # Len(b)
        <4>1. i \in 1 .. Len(b) - 1 /\ i + 1 \in 1 .. Len(b) BY SMTT(60), <3>2
        <4>2. next[n] = b[i + 1] BY <2>1, <2>2, <4>1 DEF Linked
        <4> QED BY <4>1, <4>2
      <3> QED BY <3>1, <3>2
    <2>4. Reachable(next[n]) = Elems(b) BY <2>2, <2>3, ReachInbox
    <2>5. list_inbox \in Elems(b) BY SMTT(60), <2>2 DEF Elems
    <2> QED BY <2>4, <2>5
  <1>6. /\ \A n \in Elems(f) : n \notin Elems(b) /\ n \notin Held
        /\ \A n \in Elems(b) : n \notin Held
        /\ heap = Elems(f) \cup Elems(b) \cup Held
    BY <1>1 DEF Owned
  <1>7. /\ Elems(f) \cap Elems(b) = {} /\ Elems(f) \cap Held = {}
        /\ Elems(b) \cap Held = {}
    BY <1>6
  <1> QED BY <1>2, <1>3, <1>4, <1>5, <1>6, <1>7
          DEF OneOwner, OwnInv, HoldInv

(* Lists that grow and shrink. *)
LEMMA ElemsTail ==
  ASSUME NEW s \in Seq(Nodes), Linked(s), Len(s) # 0
  PROVE  /\ Tail(s) \in Seq(Nodes) /\ Len(Tail(s)) = Len(s) - 1
         /\ \A i \in 1 .. Len(s) - 1 : Tail(s)[i] = s[i + 1]
         /\ Elems(Tail(s)) = Elems(s) \ {s[1]}
  <1>1. /\ Tail(s) \in Seq(Nodes) /\ Len(Tail(s)) = Len(s) - 1
        /\ \A i \in 1 .. Len(s) - 1 : Tail(s)[i] = s[i + 1]
    BY SMTT(60)
  <1>2. ASSUME NEW i \in 1 .. Len(s) - 1
        PROVE  Tail(s)[i] \in Elems(s) \ {s[1]}
    <2>1. i + 1 \in 1 .. Len(s) /\ 1 \in 1 .. Len(s) /\ i + 1 # 1 BY SMTT(60)
    <2>2. s[i + 1] # s[1] BY <2>1 DEF Linked
    <2> QED BY <1>1, <2>1, <2>2 DEF Elems
  <1>3. ASSUME NEW i \in 1 .. Len(s), s[i] # s[1]
        PROVE  s[i] \in Elems(Tail(s))
    <2>1. i - 1 \in 1 .. Len(s) - 1 /\ i - 1 + 1 = i BY SMTT(60), <1>3
    <2>2. Tail(s)[i - 1] = s[i] BY <1>1, <2>1
    <2> QED BY <1>1, <2>1, <2>2 DEF Elems
  <1>4. Elems(Tail(s)) \subseteq Elems(s) \ {s[1]} BY <1>1, <1>2 DEF Elems
  <1>5. Elems(s) \ {s[1]} \subseteq Elems(Tail(s)) BY <1>3 DEF Elems
  <1> QED BY <1>1, <1>4, <1>5

(* One more node at the end. *)
LEMMA ElemsAppend ==
  ASSUME NEW s \in Seq(Nodes), NEW n \in Nodes
  PROVE  /\ Append(s, n) \in Seq(Nodes) /\ Len(Append(s, n)) = Len(s) + 1
         /\ \A i \in 1 .. Len(s) : Append(s, n)[i] = s[i]
         /\ Append(s, n)[Len(s) + 1] = n
         /\ Elems(Append(s, n)) = Elems(s) \cup {n}
  <1>1. /\ Append(s, n) \in Seq(Nodes) /\ Len(Append(s, n)) = Len(s) + 1
        /\ \A i \in 1 .. Len(s) : Append(s, n)[i] = s[i]
        /\ Append(s, n)[Len(s) + 1] = n
    BY SMTT(60)
  <1>2. ASSUME NEW i \in 1 .. Len(s) + 1
        PROVE  Append(s, n)[i] \in Elems(s) \cup {n}
    <2>1. CASE i = Len(s) + 1 BY <1>1, <2>1
    <2>2. CASE i # Len(s) + 1
      <3>1. i \in 1 .. Len(s) BY SMTT(60), <2>2
      <3> QED BY <1>1, <3>1 DEF Elems
    <2> QED BY <2>1, <2>2
  <1>3. Elems(s) \subseteq Elems(Append(s, n))
    <2> SUFFICES ASSUME NEW i \in 1 .. Len(s)
                 PROVE  s[i] \in Elems(Append(s, n))
      BY DEF Elems
    <2>1. i \in 1 .. Len(s) + 1 BY SMTT(60)
    <2> QED BY <1>1, <2>1 DEF Elems
  <1>4. n \in Elems(Append(s, n))
    <2>1. Len(s) + 1 \in 1 .. Len(s) + 1 BY SMTT(60)
    <2> QED BY <1>1, <2>1 DEF Elems
  <1>5. Elems(Append(s, n)) \subseteq Elems(s) \cup {n}
    BY <1>1, <1>2 DEF Elems
  <1> QED BY <1>1, <1>3, <1>4, <1>5

(* One more node at the front. *)
LEMMA ElemsCons ==
  ASSUME NEW s \in Seq(Nodes), NEW n \in Nodes
  PROVE  /\ <<n>> \o s \in Seq(Nodes) /\ Len(<<n>> \o s) = Len(s) + 1
         /\ (<<n>> \o s)[1] = n
         /\ \A i \in 2 .. Len(s) + 1 : (<<n>> \o s)[i] = s[i - 1]
         /\ Elems(<<n>> \o s) = Elems(s) \cup {n}
  <1> DEFINE t == <<n>> \o s
  <1>1. /\ t \in Seq(Nodes) /\ Len(t) = Len(s) + 1 /\ t[1] = n
        /\ \A i \in 2 .. Len(s) + 1 : t[i] = s[i - 1]
    BY SMTT(60)
  <1> HIDE DEF t
  <1>2. ASSUME NEW i \in 1 .. Len(s) + 1 PROVE t[i] \in Elems(s) \cup {n}
    <2>1. CASE i = 1 BY <1>1, <2>1
    <2>2. CASE i # 1
      <3>1. i \in 2 .. Len(s) + 1 /\ i - 1 \in 1 .. Len(s) BY SMTT(60), <2>2
      <3> QED BY <1>1, <3>1 DEF Elems
    <2> QED BY <2>1, <2>2
  <1>3. ASSUME NEW i \in 1 .. Len(s) PROVE s[i] \in Elems(t)
    <2>1. i + 1 \in 2 .. Len(s) + 1 /\ i + 1 - 1 = i BY SMTT(60)
    <2>2. t[i + 1] = s[i] /\ i + 1 \in 1 .. Len(t) BY SMTT(60), <1>1, <2>1
    <2> QED BY <2>2 DEF Elems
  <1>4. n \in Elems(t)
    <2>1. 1 \in 1 .. Len(t) BY SMTT(60), <1>1
    <2> QED BY <1>1, <2>1 DEF Elems
  <1>5. Elems(t) \subseteq Elems(s) \cup {n} BY <1>1, <1>2 DEF Elems
  <1>6. Elems(s) \subseteq Elems(t) BY <1>3 DEF Elems
  <1>7. Elems(t) = Elems(s) \cup {n} BY <1>4, <1>5, <1>6
  <1> QED BY <1>1, <1>7 DEF t

(* A list is not disturbed by links that change elsewhere. *)
LEMMA LinkedFrame ==
  ASSUME NEW s \in Seq(Nodes), Linked(s),
         \A n \in Elems(s) : next'[n] = next[n]
  PROVE  Linked(s)'
  <1>1. \A i \in 1 .. Len(s) - 1 : next'[s[i]] = s[i + 1]
    <2> TAKE i \in 1 .. Len(s) - 1
    <2>1. s[i] \in Elems(s) BY SMTT(60) DEF Elems
    <2> QED BY <2>1 DEF Linked
  <1> QED BY <1>1 DEF Linked

(* The free list stays when its links do. *)
LEMMA FreeFrame ==
  ASSUME NEW f \in Seq(Nodes), FreeList(f), list_free' = list_free,
         \A n \in Elems(f) : next'[n] = next[n]
  PROVE  FreeList(f)'
  <1>1. Linked(f)' BY LinkedFrame DEF FreeList
  <1>2. Len(f) # 0 => next'[f[Len(f)]] = next[f[Len(f)]]
    <2>1. Len(f) # 0 => Len(f) \in 1 .. Len(f) BY SMTT(60)
    <2> QED BY <2>1 DEF Elems
  <1> QED BY <1>1, <1>2 DEF FreeList

(* The inbox stays when its links do. *)
LEMMA RingFrame ==
  ASSUME NEW b \in Seq(Nodes), Ring(b), list_inbox' = list_inbox,
         \A n \in Elems(b) : next'[n] = next[n]
  PROVE  Ring(b)'
  <1>1. Linked(b)' BY LinkedFrame DEF Ring
  <1>2. Len(b) # 0 => next'[list_inbox] = next[list_inbox]
    <2>1. Len(b) # 0 => Len(b) \in 1 .. Len(b) BY SMTT(60)
    <2> QED BY <2>1 DEF Elems, Ring
  <1> QED BY <1>1, <1>2 DEF Ring

(* Positions of a list of two nodes or more. *)
LEMMA LongRange ==
  ASSUME NEW k \in Nat, k # 0, k # 1
  PROVE  1 \in 1 .. k - 1 /\ k - 1 \in 1 .. k - 1
  BY SMTT(60)

(* The first node is taken from the free list. *)
LEMMA FreePop ==
  ASSUME NEW f \in Seq(Nodes), FreeList(f), list_free # NULL,
         next' = next, list_free' = next[list_free]
  PROVE  FreeList(Tail(f))' /\ list_free \in Elems(f) /\ Tail(f) \in Seq(Nodes)
         /\ Elems(Tail(f)) = Elems(f) \ {list_free}
  <1>1. Len(f) # 0 /\ Linked(f) /\ list_free = f[1] /\ next[f[Len(f)]] = NULL
    BY DEF FreeList
  <1>2. /\ Tail(f) \in Seq(Nodes) /\ Len(Tail(f)) = Len(f) - 1
        /\ \A i \in 1 .. Len(f) - 1 : Tail(f)[i] = f[i + 1]
        /\ Elems(Tail(f)) = Elems(f) \ {f[1]}
    BY <1>1, ElemsTail
  <1>3. 1 \in 1 .. Len(f) /\ Len(f) \in Nat /\ Len(f) >= 1 BY SMTT(60), <1>1
  <1>4. Linked(Tail(f))'
    <2>1. ASSUME NEW i \in 1 .. Len(f) - 1, NEW j \in 1 .. Len(f) - 1,
                 Tail(f)[i] = Tail(f)[j]
          PROVE  i = j
      <3>1. f[i + 1] = f[j + 1] BY <1>2, <2>1
      <3>2. i + 1 \in 1 .. Len(f) /\ j + 1 \in 1 .. Len(f) BY SMTT(60)
      <3>3. i + 1 = j + 1 BY <1>1, <3>1, <3>2 DEF Linked
      <3> QED BY SMTT(60), <3>3
    <2>2. ASSUME NEW i \in 1 .. Len(f) - 2
          PROVE  next[Tail(f)[i]] = Tail(f)[i + 1]
      <3>1. i \in 1 .. Len(f) - 1 /\ i + 1 \in 1 .. Len(f) - 1 BY SMTT(60), <1>3
      <3>2. Tail(f)[i] = f[i + 1] /\ Tail(f)[i + 1] = f[i + 1 + 1]
        BY <1>2, <3>1
      <3>3. next[f[i + 1]] = f[i + 1 + 1] BY <1>1, <3>1 DEF Linked
      <3> QED BY <3>2, <3>3
    <2>3. Len(f) - 1 - 1 = Len(f) - 2 BY SMTT(60), <1>3
    <2> QED BY <1>2, <2>1, <2>2, <2>3 DEF Linked
  <1>5. IF Len(Tail(f)) = 0 THEN next[f[1]] = NULL
        ELSE next[f[1]] = Tail(f)[1] /\ next[Tail(f)[Len(Tail(f))]] = NULL
    <2>1. CASE Len(f) = 1 BY SMTT(60), <1>1, <1>2, <2>1
    <2>2. CASE Len(f) # 1
      <3>1. 1 \in 1 .. Len(f) - 1 /\ Len(f) - 1 \in 1 .. Len(f) - 1
        BY <1>1, <1>3, <2>2, LongRange
      <3>2. Tail(f)[1] = f[1 + 1] /\ Tail(f)[Len(f) - 1] = f[Len(f) - 1 + 1]
        BY <1>2, <3>1
      <3>3. next[f[1]] = f[1 + 1] BY <1>1, <3>1 DEF Linked
      <3>4. Len(f) - 1 + 1 = Len(f) /\ Len(Tail(f)) # 0
        BY SMTT(60), <1>2, <1>3, <3>1
      <3> QED BY <1>1, <1>2, <3>2, <3>3, <3>4
    <2> QED BY <2>1, <2>2
  <1>6. FreeList(Tail(f))' BY <1>1, <1>4, <1>5 DEF FreeList
  <1>7. list_free \in Elems(f) BY <1>1, <1>3 DEF Elems
  <1> QED BY <1>1, <1>2, <1>6, <1>7

(* A node is put in front of the free list. *)
LEMMA FreePush ==
  ASSUME NEW f \in Seq(Nodes), FreeList(f), NEW n \in Nodes, n \notin Elems(f),
         next \in [Nodes -> Nodes \cup {NULL}],
         next' = [next EXCEPT ![n] = list_free], list_free' = n
  PROVE  FreeList(<<n>> \o f)'
  <1> DEFINE t == <<n>> \o f
  <1>1. /\ t \in Seq(Nodes) /\ Len(t) = Len(f) + 1 /\ t[1] = n
        /\ \A i \in 2 .. Len(f) + 1 : t[i] = f[i - 1]
    BY ElemsCons
  <1> HIDE DEF t
  <1>2. next'[n] = list_free /\ \A x \in Elems(f) : next'[x] = next[x]
    BY SMTT(60) DEF Elems
  <1>3. Len(f) \in Nat /\ \A i \in 1 .. Len(f) : f[i] \in Elems(f)
    BY SMTT(60) DEF Elems
  <1>4. ASSUME NEW i \in 1 .. Len(t), NEW j \in 1 .. Len(t), t[i] = t[j]
        PROVE  i = j
    <2>1. \A k \in 2 .. Len(f) + 1 : t[k] \in Elems(f) /\ t[k] = f[k - 1]
      <3> TAKE k \in 2 .. Len(f) + 1
      <3>1. k - 1 \in 1 .. Len(f) BY SMTT(60), <1>3
      <3> QED BY <1>1, <1>3, <3>1
    <2>2. CASE i = 1 \/ j = 1
      <3>1. i \in {1} \cup 2 .. Len(f) + 1 /\ j \in {1} \cup 2 .. Len(f) + 1
        BY SMTT(60), <1>1, <1>3
      <3> QED BY <1>1, <1>4, <2>1, <2>2, <3>1
    <2>3. CASE i # 1 /\ j # 1
      <3>1. i \in 2 .. Len(f) + 1 /\ j \in 2 .. Len(f) + 1
        BY SMTT(60), <1>1, <1>3, <2>3
      <3>2. f[i - 1] = f[j - 1] BY <1>4, <2>1, <3>1
      <3>3. i - 1 \in 1 .. Len(f) /\ j - 1 \in 1 .. Len(f)
        BY SMTT(60), <3>1, <1>3
      <3>4. i - 1 = j - 1 BY <3>2, <3>3 DEF FreeList, Linked
      <3> QED BY SMTT(60), <3>1, <3>4
    <2> QED BY <2>2, <2>3
  <1>5. ASSUME NEW i \in 1 .. Len(t) - 1 PROVE next'[t[i]] = t[i + 1]
    <2>0. i \in 1 .. Len(f) /\ i + 1 \in 2 .. Len(f) + 1 /\ i + 1 - 1 = i
      BY SMTT(60), <1>1, <1>3
    <2>1. t[i + 1] = f[i] BY SMTT(60), <1>1, <2>0
    <2>2. CASE i = 1 BY SMTT(60), <1>1, <1>2, <2>0, <2>1, <2>2 DEF FreeList
    <2>3. CASE i # 1
      <3>1. i \in 2 .. Len(f) + 1 /\ i - 1 \in 1 .. Len(f) - 1 /\ i - 1 + 1 = i
        BY SMTT(60), <2>0, <2>3, <1>3
      <3>2. t[i] = f[i - 1] /\ next[f[i - 1]] = f[i - 1 + 1]
        BY <1>1, <3>1 DEF FreeList, Linked
      <3>3. f[i - 1] \in Elems(f) BY SMTT(60), <1>3, <3>1
      <3> QED BY <1>2, <2>1, <3>1, <3>2, <3>3
    <2> QED BY <2>2, <2>3
  <1>6. next'[t[Len(t)]] = NULL
    <2>1. CASE Len(f) = 0 BY SMTT(60), <1>1, <1>2, <2>1 DEF FreeList
    <2>2. CASE Len(f) # 0
      <3>1. Len(f) + 1 \in 2 .. Len(f) + 1 /\ Len(f) + 1 - 1 = Len(f)
            /\ Len(f) \in 1 .. Len(f)
        BY SMTT(60), <1>3, <2>2
      <3>2. t[Len(t)] = f[Len(f)]
        <4>1. PICK k \in 2 .. Len(f) + 1 : k = Len(f) + 1 BY <3>1
        <4>2. t[k] = f[k - 1] BY <1>1
        <4>3. k - 1 = Len(f) /\ k = Len(t) BY SMTT(60), <1>1, <1>3, <4>1
        <4> QED BY <4>2, <4>3
      <3> QED BY <1>2, <1>3, <2>2, <3>1, <3>2 DEF FreeList
    <2> QED BY <2>1, <2>2
  <1>7. Len(t) # 0 BY SMTT(60), <1>1, <1>3
  <1>8. FreeList(t)' BY <1>1, <1>4, <1>5, <1>6, <1>7 DEF FreeList, Linked
  <1> QED BY <1>8 DEF t

(* A node is put behind the last one of the inbox. *)
LEMMA RingPush ==
  ASSUME NEW b \in Seq(Nodes), Ring(b), NEW n \in Nodes, n \notin Elems(b),
         list_inbox' = n, next'[n] = IF Len(b) = 0 THEN n ELSE b[1],
         Len(b) # 0 => next'[b[Len(b)]] = n,
         \A x \in Elems(b) : x # b[Len(b)] => next'[x] = next[x]
  PROVE  Ring(Append(b, n))'
  <1> DEFINE t == Append(b, n)
  <1>1. /\ t \in Seq(Nodes) /\ Len(t) = Len(b) + 1
        /\ \A i \in 1 .. Len(b) : t[i] = b[i]
        /\ t[Len(b) + 1] = n
    BY ElemsAppend
  <1> HIDE DEF t
  <1>2. Len(b) \in Nat /\ (\A i \in 1 .. Len(b) : b[i] \in Elems(b)) /\ Linked(b)
    BY SMTT(60) DEF Elems, Ring
  <1>3. ASSUME NEW i \in 1 .. Len(t), NEW j \in 1 .. Len(t), t[i] = t[j]
        PROVE  i = j
    <2>1. i \in 1 .. Len(b) \/ i = Len(b) + 1 BY SMTT(60), <1>1, <1>2
    <2>2. j \in 1 .. Len(b) \/ j = Len(b) + 1 BY SMTT(60), <1>1, <1>2
    <2>3. CASE i \in 1 .. Len(b) /\ j \in 1 .. Len(b)
      BY SMTT(60), <1>1, <1>2, <1>3, <2>3 DEF Linked
    <2> QED BY <1>1, <1>2, <1>3, <2>1, <2>2, <2>3
  <1>4. ASSUME NEW i \in 1 .. Len(t) - 1 PROVE next'[t[i]] = t[i + 1]
    <2>0. i \in 1 .. Len(b) /\ Len(b) # 0 BY SMTT(60), <1>1, <1>2
    <2>1. CASE i = Len(b) BY <1>1, <2>0, <2>1
    <2>2. CASE i # Len(b)
      <3>1. i \in 1 .. Len(b) - 1 /\ i + 1 \in 1 .. Len(b)
        BY SMTT(60), <2>0, <2>2
      <3>2. next[b[i]] = b[i + 1] BY <1>2, <3>1 DEF Linked
      <3>3. Len(b) \in 1 .. Len(b) BY SMTT(60), <2>0
      <3>4. b[i] # b[Len(b)] BY <1>2, <2>0, <2>2, <3>3 DEF Linked
      <3>5. next'[b[i]] = next[b[i]] BY <1>2, <2>0, <3>4
      <3> QED BY <1>1, <2>0, <3>1, <3>2, <3>5
    <2> QED BY <2>1, <2>2
  <1>5. next'[n] = t[1]
    <2>1. CASE Len(b) = 0 BY SMTT(60), <1>1, <2>1
    <2>2. CASE Len(b) # 0
      <3>1. 1 \in 1 .. Len(b) BY SMTT(60), <1>2, <2>2
      <3> QED BY <1>1, <2>2, <3>1
    <2> QED BY <2>1, <2>2
  <1>6. Len(t) # 0 /\ n = t[Len(t)] BY SMTT(60), <1>1, <1>2
  <1>7. Linked(t)' BY <1>3, <1>4 DEF Linked
  <1>8. Ring(t)' BY <1>5, <1>6, <1>7 DEF Ring
  <1> QED BY <1>8 DEF t

(* The first node is taken from the inbox. *)
LEMMA RingPop ==
  ASSUME NEW b \in Seq(Nodes), Ring(b), Len(b) # 0,
         list_inbox' = IF Len(b) = 1 THEN NULL ELSE list_inbox,
         Len(b) # 1 => next'[b[Len(b)]] = next[b[1]],
         \A x \in Elems(b) : x # b[Len(b)] => next'[x] = next[x]
  PROVE  Ring(Tail(b))'
  <1> DEFINE t == Tail(b)
  <1>0. Linked(b) /\ list_inbox = b[Len(b)] BY DEF Ring
  <1>1. /\ t \in Seq(Nodes) /\ Len(t) = Len(b) - 1
        /\ \A i \in 1 .. Len(b) - 1 : t[i] = b[i + 1]
    BY <1>0, ElemsTail
  <1> HIDE DEF t
  <1>2. /\ Len(b) \in Nat /\ Len(b) \in 1 .. Len(b)
        /\ \A i \in 1 .. Len(b) : b[i] \in Elems(b)
    BY SMTT(60) DEF Elems
  <1>3. CASE Len(b) = 1
    <2>1. Len(t) = 0 BY SMTT(60), <1>1, <1>3
    <2>2. Linked(t)' BY SMTT(60), <2>1 DEF Linked
    <2>3. Ring(t)' BY <1>3, <2>1, <2>2 DEF Ring
    <2> QED BY <2>3 DEF t
  <1>4. CASE Len(b) # 1
    <2>0. 1 \in 1 .. Len(b) - 1 /\ Len(b) - 1 \in 1 .. Len(b) - 1
      BY <1>2, <1>4, LongRange
    <2>1. ASSUME NEW i \in 1 .. Len(t), NEW j \in 1 .. Len(t), t[i] = t[j]
          PROVE  i = j
      <3>1. i \in 1 .. Len(b) - 1 /\ j \in 1 .. Len(b) - 1 BY <1>1
      <3>2. b[i + 1] = b[j + 1] BY <1>1, <2>1, <3>1
      <3>3. i + 1 \in 1 .. Len(b) /\ j + 1 \in 1 .. Len(b)
        BY SMTT(60), <1>2, <3>1
      <3>4. i + 1 = j + 1 BY <1>0, <3>2, <3>3 DEF Linked
      <3> QED BY SMTT(60), <3>1, <3>4
    <2>2. ASSUME NEW i \in 1 .. Len(t) - 1 PROVE next'[t[i]] = t[i + 1]
      <3>1. i \in 1 .. Len(b) - 1 /\ i + 1 \in 1 .. Len(b) - 1
            /\ i + 1 \in 1 .. Len(b) /\ i + 1 # Len(b)
        BY SMTT(60), <1>1, <1>2
      <3>2. t[i] = b[i + 1] /\ t[i + 1] = b[i + 1 + 1] BY <1>1, <3>1
      <3>3. next[b[i + 1]] = b[i + 1 + 1] BY <1>0, <3>1 DEF Linked
      <3>4. b[i + 1] # b[Len(b)] BY <1>0, <1>2, <3>1 DEF Linked
      <3>5. next'[b[i + 1]] = next[b[i + 1]] BY <1>2, <3>1, <3>4
      <3> QED BY <3>2, <3>3, <3>5
    <2>3. list_inbox = t[Len(t)]
      <3>1. PICK k \in 1 .. Len(b) - 1 : k = Len(b) - 1 BY <2>0
      <3>2. t[k] = b[k + 1] BY <1>1
      <3>3. k + 1 = Len(b) /\ k = Len(t) BY SMTT(60), <1>1, <1>2, <3>1
      <3> QED BY <1>0, <3>2, <3>3
    <2>4. next'[list_inbox] = t[1]
      <3>1. next[b[1]] = b[1 + 1] BY <1>0, <2>0 DEF Linked
      <3>2. t[1] = b[1 + 1] BY <1>1, <2>0
      <3> QED BY <1>0, <1>4, <3>1, <3>2
    <2>5. Len(t) # 0 BY SMTT(60), <1>1, <1>2, <1>4
    <2>6. Linked(t)' BY <2>1, <2>2 DEF Linked
    <2>7. list_inbox' = list_inbox BY <1>4
    <2>8. Ring(t)' BY <2>3, <2>4, <2>5, <2>6, <2>7 DEF Ring
    <2> QED BY <2>8 DEF t
  <1> QED BY <1>3, <1>4

(* What the threads hold after a sender has got or given away a node. *)
LEMMA SenderTakes ==
  ASSUME OwnTypes, HoldInv, NEW q \in Senders, pc[q] = "idle",
         NEW n \in Nodes, n \notin Held, node' = [node EXCEPT ![q] = n],
         pc' = [pc EXCEPT ![q] = "copy"], rnode' = rnode, rpc' = rpc
  PROVE  HoldInv' /\ Held' = Held \cup {n}
  <1>1. /\ node'[q] = n /\ pc'[q] = "copy" /\ node[q] = NULL /\ n # NULL
        /\ \A r \in Senders : r # q => node'[r] = node[r] /\ pc'[r] = pc[r]
    BY MailboxAssumption DEF OwnTypes, HoldInv
  <1>2. n # rnode /\ \A r \in Senders : n # node[r] BY <1>1 DEF Held
  <1>3. HoldInv'
    <2>1. \A r \in Senders : node'[r] = NULL <=> pc'[r] = "idle"
      BY <1>1 DEF HoldInv
    <2>2. rnode' = NULL <=> rpc' \notin {"copy", "free"} BY DEF HoldInv
    <2>3. \A r, u \in Senders : node'[r] = node'[u] /\ r # u => node'[r] = NULL
      BY SMTT(60), <1>1, <1>2 DEF HoldInv
    <2>4. \A r \in Senders : node'[r] = rnode' => rnode' = NULL
      BY <1>1, <1>2 DEF HoldInv
    <2> QED BY <2>1, <2>2, <2>3, <2>4 DEF HoldInv
  <1>4. ASSUME NEW m PROVE m \in Held' <=> m \in Held \cup {n}
    BY SMTT(60), <1>1, <1>2 DEF Held
  <1> QED BY <1>3, <1>4

(* A sender gives up its node when it has inserted it. *)
LEMMA SenderGives ==
  ASSUME OwnTypes, HoldInv, NEW q \in Senders, pc[q] = "insert",
         node' = [node EXCEPT ![q] = NULL], pc' = [pc EXCEPT ![q] = "idle"],
         rnode' = rnode, rpc' \in {"copy", "free"} <=> rpc \in {"copy", "free"}
  PROVE  HoldInv' /\ Held' = Held \ {node[q]}
  <1>1. /\ node'[q] = NULL /\ pc'[q] = "idle" /\ node[q] # NULL
        /\ \A r \in Senders : r # q => node'[r] = node[r] /\ pc'[r] = pc[r]
    BY DEF OwnTypes, HoldInv
  <1>2. node[q] # rnode /\ \A r \in Senders : r # q => node[q] # node[r]
    BY <1>1 DEF HoldInv
  <1>3. HoldInv'
    <2>1. \A r \in Senders : node'[r] = NULL <=> pc'[r] = "idle"
      BY <1>1 DEF HoldInv
    <2>2. rnode' = NULL <=> rpc' \notin {"copy", "free"} BY DEF HoldInv
    <2>3. \A r, u \in Senders : node'[r] = node'[u] /\ r # u => node'[r] = NULL
      BY SMTT(60), <1>1 DEF HoldInv
    <2>4. \A r \in Senders : node'[r] = rnode' => rnode' = NULL
      BY <1>1 DEF HoldInv
    <2> QED BY <2>1, <2>2, <2>3, <2>4 DEF HoldInv
  <1>4. ASSUME NEW m PROVE m \in Held' <=> m \in Held \ {node[q]}
    BY SMTT(60), <1>1, <1>2 DEF Held
  <1> QED BY <1>3, <1>4

(* What they hold when the receiver has. *)
LEMMA ReceiverTakes ==
  ASSUME OwnTypes, HoldInv, rpc = "lock", rpc' = "copy",
         NEW n \in Nodes, n \notin Held, rnode' = n, UNCHANGED <<node, pc>>
  PROVE  HoldInv' /\ Held' = Held \cup {n}
  <1>1. rnode = NULL /\ n # NULL BY MailboxAssumption DEF HoldInv
  <1>2. \A r \in Senders : n # node[r] BY <1>1 DEF Held
  <1>3. HoldInv' BY <1>1, <1>2 DEF HoldInv
  <1>4. ASSUME NEW m PROVE m \in Held' <=> m \in Held \cup {n}
    BY <1>1 DEF Held
  <1> QED BY <1>3, <1>4

(* The receiver gives up its node when it has freed it. *)
LEMMA ReceiverGives ==
  ASSUME OwnTypes, HoldInv, rpc = "free", rpc' = "idle", rnode' = NULL,
         UNCHANGED <<node, pc>>
  PROVE  HoldInv' /\ Held' = Held \ {rnode}
  <1>1. rnode # NULL BY DEF HoldInv
  <1>2. \A r \in Senders : rnode # node[r] BY <1>1 DEF HoldInv
  <1>3. HoldInv' BY <1>1 DEF HoldInv
  <1>4. ASSUME NEW m PROVE m \in Held' <=> m \in Held \ {rnode}
    BY <1>1, <1>2 DEF Held
  <1> QED BY <1>3, <1>4

(* What each step does to the two lists f and b. *)
Owns(f, b) == OwnTypes /\ HoldInv /\ Owned(f, b)

(* A sender takes a node from the free list or from malloc. *)
LEMMA GetFreeOwns ==
  ASSUME NEW f \in Seq(Nodes), NEW b \in Seq(Nodes), Owns(f, b),
         NEW q \in Senders, GetFree(q)
  PROVE  \E g \in Seq(Nodes) : Owns(g, b)'
  <1>0. /\ OwnTypes /\ HoldInv /\ FreeList(f) /\ Ring(b)
        /\ \A n \in Elems(f) : n \notin Elems(b) /\ n \notin Held
        /\ \A n \in Elems(b) : n \notin Held
        /\ heap = Elems(f) \cup Elems(b) \cup Held
    BY DEF Owns, Owned
  <1>1. /\ pc[q] = "idle" /\ pc' = [pc EXCEPT ![q] = "copy"]
        /\ rnode' = rnode /\ rpc' = rpc /\ next' = next
        /\ list_inbox' = list_inbox
    BY DEF GetFree, recvvars
  <1>2. Ring(b)' BY <1>0, <1>1, RingFrame
  <1>3. CASE list_free # NULL
    <2>1. /\ node' = [node EXCEPT ![q] = list_free] /\ heap' = heap
          /\ list_free' = next[list_free]
      BY <1>3 DEF GetFree
    <2>2. /\ FreeList(Tail(f))' /\ Tail(f) \in Seq(Nodes)
          /\ list_free \in Elems(f)
          /\ Elems(Tail(f)) = Elems(f) \ {list_free}
      BY <1>0, <1>1, <1>3, <2>1, FreePop
    <2>3. list_free \in Nodes BY <1>0, <1>3 DEF OwnTypes
    <2>4. HoldInv' /\ Held' = Held \cup {list_free}
      BY <1>0, <1>1, <2>1, <2>2, <2>3, SenderTakes
    <2>5. OwnTypes' BY <1>0, <1>1, <2>1, <2>3 DEF OwnTypes
    <2>6. Owned(Tail(f), b)' BY <1>0, <1>2, <2>1, <2>2, <2>4 DEF Owned
    <2> QED BY <2>2, <2>4, <2>5, <2>6 DEF Owns
  <1>4. CASE list_free = NULL
    <2>1. PICK n \in Nodes \ heap :
            node' = [node EXCEPT ![q] = n] /\ heap' = heap \cup {n}
            /\ list_free' = list_free
      BY <1>4 DEF GetFree
    <2>2. n \notin Held /\ n \notin Elems(b) /\ n \notin Elems(f)
      BY <1>0
    <2>3. HoldInv' /\ Held' = Held \cup {n}
      BY <1>0, <1>1, <2>1, <2>2, SenderTakes
    <2>4. FreeList(f)' BY <1>0, <1>1, <2>1, FreeFrame
    <2>5. OwnTypes' BY <1>0, <1>1, <2>1 DEF OwnTypes
    <2>6. Owned(f, b)' BY <1>0, <1>2, <2>1, <2>2, <2>3, <2>4 DEF Owned
    <2> QED BY <2>3, <2>5, <2>6 DEF Owns
  <1> QED BY <1>3, <1>4

(* A sender appends its node to the inbox. *)
LEMMA InsertOwns ==
  ASSUME NEW f \in Seq(Nodes), NEW b \in Seq(Nodes), Owns(f, b),
         NEW q \in Senders, Insert(q), NEW n, n = node[q]
  PROVE  Append(b, n) \in Seq(Nodes) /\ Owns(f, Append(b, n))'
  <1>0. /\ OwnTypes /\ HoldInv /\ FreeList(f) /\ Ring(b)
        /\ \A m \in Elems(f) : m \notin Elems(b) /\ m \notin Held
        /\ \A m \in Elems(b) : m \notin Held
        /\ heap = Elems(f) \cup Elems(b) \cup Held
    BY DEF Owns, Owned
  <1>1. /\ pc[q] = "insert" /\ pc' = [pc EXCEPT ![q] = "idle"]
        /\ node' = [node EXCEPT ![q] = NULL] /\ rnode' = rnode
        /\ rpc' = rpc \/ (rpc = "wait" /\ rpc' = "lock")
        /\ list_inbox' = n /\ list_free' = list_free /\ heap' = heap
    <2>1. rpc' = rpc \/ (rpc = "wait" /\ rpc' = "lock") BY DEF Insert
    <2> QED BY <2>1 DEF Insert
  <1>2. n \in Nodes /\ n \in Held
    BY <1>0, <1>1 DEF OwnTypes, HoldInv, Held
  <1>3. n \notin Elems(b) /\ n \notin Elems(f) BY <1>0, <1>2
  <1>4. HoldInv' /\ Held' = Held \ {n}
    <2>1. rpc' \in {"copy", "free"} <=> rpc \in {"copy", "free"} BY <1>1
    <2> QED BY <1>0, <1>1, <2>1, SenderGives
  <1>5. /\ Append(b, n) \in Seq(Nodes)
        /\ Elems(Append(b, n)) = Elems(b) \cup {n}
    BY <1>2, ElemsAppend
  <1>6. /\ next' \in [Nodes -> Nodes \cup {NULL}]
        /\ next'[n] = IF Len(b) = 0 THEN n ELSE b[1]
        /\ Len(b) # 0 => next'[b[Len(b)]] = n
        /\ \A x \in Elems(b) : x # b[Len(b)] => next'[x] = next[x]
        /\ \A x \in Elems(f) : next'[x] = next[x]
    <2>0. next \in [Nodes -> Nodes \cup {NULL}] /\ Elems(f) \subseteq Nodes
          /\ Elems(b) \subseteq Nodes
      BY <1>0 DEF OwnTypes, Elems
    <2>1. CASE Len(b) = 0
      <3>1. list_inbox = NULL /\ next' = [next EXCEPT ![n] = n]
        BY <1>0, <2>1 DEF Ring, Insert
      <3> QED BY <1>2, <1>3, <2>0, <2>1, <3>1
    <2>2. CASE Len(b) # 0
      <3>1. /\ Len(b) \in 1 .. Len(b) /\ list_inbox = b[Len(b)]
            /\ next[list_inbox] = b[1] /\ 1 \in 1 .. Len(b)
        BY SMTT(60), <1>0, <2>2 DEF Ring
      <3>2. list_inbox \in Elems(b) /\ b[1] \in Nodes /\ list_inbox # NULL
        BY <3>1, <2>0, MailboxAssumption DEF Elems
      <3>3. next' = [next EXCEPT ![n] = next[list_inbox], ![list_inbox] = n]
        BY <3>2 DEF Insert
      <3>4. list_inbox \notin Elems(f) /\ list_inbox # n BY <1>0, <1>3, <3>2
      <3> HIDE DEF Elems
      <3> QED BY <1>2, <1>3, <2>0, <2>2, <3>1, <3>2, <3>3, <3>4
    <2> QED BY <2>1, <2>2
  <1>7. Ring(Append(b, n))' BY <1>0, <1>1, <1>2, <1>3, <1>6, RingPush
  <1>8. FreeList(f)' BY <1>0, <1>1, <1>6, FreeFrame
  <1>9. OwnTypes' BY <1>0, <1>1, <1>2, <1>6 DEF OwnTypes
  <1>10. Owned(f, Append(b, n))'
    BY <1>0, <1>1, <1>2, <1>3, <1>4, <1>5, <1>7, <1>8 DEF Owned
  <1> QED BY <1>4, <1>5, <1>9, <1>10 DEF Owns

(* The receiver takes the first node of the inbox. *)
LEMMA TakeOwns ==
  ASSUME NEW f \in Seq(Nodes), NEW b \in Seq(Nodes), Owns(f, b),
         RecvLocked, list_inbox # NULL
  PROVE  /\ Len(b) # 0 /\ rnode' = b[1] /\ rpc' = "copy"
         /\ Tail(b) \in Seq(Nodes) /\ Owns(f, Tail(b))'
  <1>0. /\ OwnTypes /\ HoldInv /\ FreeList(f) /\ Ring(b)
        /\ \A m \in Elems(f) : m \notin Elems(b) /\ m \notin Held
        /\ \A m \in Elems(b) : m \notin Held
        /\ heap = Elems(f) \cup Elems(b) \cup Held
    BY DEF Owns, Owned
  <1>1. /\ Len(b) # 0 /\ Linked(b) /\ list_inbox = b[Len(b)]
        /\ next[list_inbox] = b[1]
    BY <1>0 DEF Ring
  <1>2. 1 \in 1 .. Len(b) /\ Len(b) \in 1 .. Len(b) /\ Len(b) \in Nat
    BY SMTT(60), <1>1
  <1>3. /\ rpc = "lock" /\ rpc' = "copy" /\ rnode' = b[1]
        /\ UNCHANGED <<list_free, heap, pc, node>>
        /\ IF b[1] = list_inbox
           THEN list_inbox' = NULL /\ next' = next
           ELSE /\ next' = [next EXCEPT ![list_inbox] = next[b[1]]]
                /\ list_inbox' = list_inbox
    BY <1>1 DEF RecvLocked, sendvars
  <1>4. b[1] = list_inbox <=> Len(b) = 1 BY <1>1, <1>2 DEF Linked
  <1>5. b[1] \in Nodes /\ b[1] \in Elems(b) /\ list_inbox \in Elems(b)
    BY SMTT(60), <1>1, <1>2 DEF Elems
  <1>6. b[1] \notin Held /\ b[1] \notin Elems(f) /\ list_inbox \notin Elems(f)
    BY <1>0, <1>5
  <1>7. HoldInv' /\ Held' = Held \cup {b[1]}
    BY <1>0, <1>3, <1>5, <1>6, ReceiverTakes
  <1>8. /\ Tail(b) \in Seq(Nodes)
        /\ Elems(Tail(b)) = Elems(b) \ {b[1]}
    BY <1>1, ElemsTail
  <1>9. /\ next' \in [Nodes -> Nodes \cup {NULL}]
        /\ list_inbox' = IF Len(b) = 1 THEN NULL ELSE list_inbox
        /\ Len(b) # 1 => next'[b[Len(b)]] = next[b[1]]
        /\ \A x \in Elems(b) : x # b[Len(b)] => next'[x] = next[x]
        /\ \A x \in Elems(f) : next'[x] = next[x]
    <2>0. next \in [Nodes -> Nodes \cup {NULL}] /\ Elems(f) \subseteq Nodes
          /\ Elems(b) \subseteq Nodes
      BY <1>0 DEF OwnTypes, Elems
    <2>1. CASE Len(b) = 1 BY <1>3, <1>4, <2>0, <2>1
    <2>2. CASE Len(b) # 1
      <3>1. next' = [next EXCEPT ![list_inbox] = next[b[1]]]
            /\ list_inbox' = list_inbox
        BY <1>3, <1>4, <2>2
      <3> QED BY <1>1, <1>5, <1>6, <2>0, <2>2, <3>1
    <2> QED BY <2>1, <2>2
  <1>10. Ring(Tail(b))' BY <1>0, <1>1, <1>9, RingPop
  <1>11. FreeList(f)' BY <1>0, <1>3, <1>9, FreeFrame
  <1>12. OwnTypes' BY <1>0, <1>3, <1>5, <1>9 DEF OwnTypes
  <1>13. Owned(f, Tail(b))'
    <2>1. \A m \in Elems(f) : m \notin Elems(Tail(b)) /\ m \notin Held'
      BY <1>0, <1>6, <1>7, <1>8
    <2>2. \A m \in Elems(Tail(b)) : m \notin Held'
      BY <1>0, <1>7, <1>8
    <2>3. heap' = Elems(f) \cup Elems(Tail(b)) \cup Held'
      BY <1>0, <1>3, <1>5, <1>7, <1>8
    <2> QED BY <1>10, <1>11, <2>1, <2>2, <2>3 DEF Owned
  <1> QED BY <1>1, <1>3, <1>7, <1>8, <1>12, <1>13 DEF Owns

(* The receiver puts its node on the free list. *)
LEMMA PutFreeOwns ==
  ASSUME NEW f \in Seq(Nodes), NEW b \in Seq(Nodes), Owns(f, b), PutFree
  PROVE  \E g \in Seq(Nodes) : Owns(g, b)'
  <1>0. /\ OwnTypes /\ HoldInv /\ FreeList(f) /\ Ring(b)
        /\ \A m \in Elems(f) : m \notin Elems(b) /\ m \notin Held
        /\ \A m \in Elems(b) : m \notin Held
        /\ heap = Elems(f) \cup Elems(b) \cup Held
    BY DEF Owns, Owned
  <1>1. PICK n : n = rnode OBVIOUS
  <1>2. /\ rpc = "free" /\ rpc' = "idle" /\ rnode' = NULL /\ list_free' = n
        /\ next' = [next EXCEPT ![n] = list_free]
        /\ UNCHANGED <<list_inbox, heap, pc, node>>
    BY <1>1 DEF PutFree, sendvars
  <1>3. n \in Nodes /\ n \in Held
    BY <1>0, <1>1, <1>2 DEF OwnTypes, HoldInv, Held
  <1>4. n \notin Elems(f) /\ n \notin Elems(b) BY <1>0, <1>3
  <1>5. HoldInv' /\ Held' = Held \ {n}
    BY <1>0, <1>1, <1>2, ReceiverGives
  <1>6. next \in [Nodes -> Nodes \cup {NULL}] /\ Elems(b) \subseteq Nodes
        /\ list_free \in Nodes \cup {NULL}
    BY <1>0 DEF OwnTypes, Elems
  <1>7. FreeList(<<n>> \o f)' BY <1>0, <1>2, <1>3, <1>4, <1>6, FreePush
  <1>8. <<n>> \o f \in Seq(Nodes) /\ Elems(<<n>> \o f) = Elems(f) \cup {n}
    BY <1>3, ElemsCons
  <1>9. \A x \in Elems(b) : next'[x] = next[x] BY <1>2, <1>4, <1>6
  <1>10. Ring(b)' BY <1>0, <1>2, <1>9, RingFrame
  <1>11. OwnTypes' BY <1>0, <1>2, <1>3, <1>6 DEF OwnTypes
  <1>12. Owned(<<n>> \o f, b)'
    BY <1>0, <1>2, <1>3, <1>4, <1>5, <1>7, <1>8, <1>10 DEF Owned
  <1> QED BY <1>5, <1>8, <1>11, <1>12 DEF Owns

(* LpelMailboxDestroy frees the free list. *)
LEMMA DestroyOwns ==
  ASSUME NEW f \in Seq(Nodes), NEW b \in Seq(Nodes), Owns(f, b),
         LpelMailboxDestroy
  PROVE  <<>> \in Seq(Nodes) /\ Owns(<<>>, b)'
  <1>0. /\ OwnTypes /\ HoldInv /\ FreeList(f) /\ Ring(b)
        /\ \A m \in Elems(f) : m \notin Elems(b) /\ m \notin Held
        /\ \A m \in Elems(b) : m \notin Held
        /\ heap = Elems(f) \cup Elems(b) \cup Held
    BY DEF Owns, Owned
  <1>1. /\ rpc = "idle" /\ rpc' = "destroyed" /\ heap' = heap \ FreeNodes
        /\ list_free' = NULL
        /\ UNCHANGED <<list_inbox, next, pc, node, rnode>>
    BY DEF LpelMailboxDestroy, sendvars
  <1>2. FreeNodes = Elems(f) BY <1>0, ReachesFree
  <1>3. HoldInv' BY <1>0, <1>1 DEF HoldInv
  <1>4. Held' = Held BY <1>1 DEF Held
  <1>5. Ring(b)' BY <1>0, <1>1, RingFrame
  <1>6. <<>> \in Seq(Nodes) /\ Len(<<>>) = 0 /\ Elems(<<>>) = {}
    BY SMTT(60) DEF Elems
  <1>7. FreeList(<<>>)' BY SMTT(60), <1>1, <1>6 DEF FreeList, Linked
  <1>8. OwnTypes' BY <1>0, <1>1 DEF OwnTypes
  <1>9. Owned(<<>>, b)' BY <1>0, <1>1, <1>2, <1>4, <1>5, <1>6, <1>7 DEF Owned
  <1> QED BY <1>3, <1>6, <1>8, <1>9 DEF Owns

(* The other steps leave the lists and the nodes of the threads alone. *)
LEMMA OtherOwns ==
  ASSUME NEW f \in Seq(Nodes), NEW b \in Seq(Nodes), Owns(f, b),
         UNCHANGED <<list_free, list_inbox, next, heap, node, rnode>>,
         pc' \in [Senders -> {"idle", "copy", "insert"}],
         \A q \in Senders : pc'[q] = "idle" <=> pc[q] = "idle",
         rpc' \in {"idle", "lock", "wait", "copy", "free", "destroyed"},
         rpc' \in {"copy", "free"} <=> rpc \in {"copy", "free"}
  PROVE  Owns(f, b)'
  <1>1. OwnTypes' BY DEF Owns, OwnTypes
  <1>2. HoldInv' BY DEF Owns, HoldInv
  <1>3. Owned(f, b)'
    BY SMTT(60) DEF Owns, Owned, FreeList, Ring, Linked, Held, Elems
  <1> QED BY <1>1, <1>2, <1>3 DEF Owns

----------------------------------------------------------------------------
(* What the nodes carry *)

MsgTypes ==
  msg \in [Nodes -> Msgs \cup {NULL}] /\ sent \in Seq(Msgs) /\ got \in Seq(Msgs)

(* The messages of a sender are numbered as it sends them, up to Count,    *)
(* and its node carries the next one when it is inserted.                  *)
SentInv ==
  /\ \A i, j \in 1 .. Len(sent) : sent[i] = sent[j] => i = j
  /\ \A i \in 1 .. Len(sent) : \A q \in Senders :
       sent[i][1] = q => sent[i][2] <= SentBy(q)
  /\ \A q \in Senders : pc[q] # "idle" => SentBy(q) < Count
  /\ \A q \in Senders : pc[q] = "insert" => msg[node[q]] = Current(q)

(* What was sent is what was received, with the message that is being      *)
(* copied out, followed by the inbox b.                                    *)
Lossless(b) ==
  /\ Len(sent) = Len(Taken) + Len(b)
  /\ \A i \in 1 .. Len(Taken) : sent[i] = Taken[i]
  /\ \A i \in 1 .. Len(b) : sent[Len(Taken) + i] = msg[b[i]]

Carries(f, b) ==
  Owns(f, b) /\ MsgTypes /\ SentInv /\ Lossless(b) /\ NothingLeaks

MailInv == \E f, b \in Seq(Nodes) : Carries(f, b)

(* The number of messages sent by q is a number. *)
LEMMA SentByType ==
  ASSUME sent \in Seq(Msgs), NEW q
  PROVE  SentBy(q) \in Nat /\ IsFiniteSet({i \in DOMAIN sent : sent[i][1] = q})
  <1>1. DOMAIN sent = 1 .. Len(sent) /\ Len(sent) \in Int /\ 1 \in Int
    BY SMTT(60)
  <1>2. IsFiniteSet(1 .. Len(sent)) BY <1>1, FS_Interval
  <1>3. {i \in DOMAIN sent : sent[i][1] = q} \in SUBSET (1 .. Len(sent))
    BY <1>1
  <1>4. IsFiniteSet({i \in DOMAIN sent : sent[i][1] = q})
    BY <1>2, <1>3, FS_Subset
  <1> QED BY <1>4, FS_CardinalityType DEF SentBy

(* Sending a message counts it. *)
LEMMA SentByAppend ==
  ASSUME sent \in Seq(Msgs), NEW m \in Msgs, sent' = Append(sent, m), NEW q
  PROVE  SentBy(q)' = IF m[1] = q THEN SentBy(q) + 1 ELSE SentBy(q)
  <1> DEFINE I == {i \in DOMAIN sent : sent[i][1] = q}
             J == {i \in DOMAIN sent' : sent'[i][1] = q}
  <1>1. /\ DOMAIN sent = 1 .. Len(sent) /\ Len(sent) \in Nat
        /\ DOMAIN sent' = 1 .. Len(sent) + 1
        /\ \A i \in 1 .. Len(sent) : sent'[i] = sent[i]
        /\ sent'[Len(sent) + 1] = m
    BY SMTT(60)
  <1>2. IsFiniteSet(I) /\ SentBy(q) = Cardinality(I) BY SentByType DEF SentBy
  <1>3. SentBy(q)' = Cardinality(J) BY DEF SentBy
  <1>4. Len(sent) + 1 \notin I BY SMTT(60), <1>1
  <1>5. ASSUME NEW i
        PROVE  i \in J <=> i \in I \/ (i = Len(sent) + 1 /\ m[1] = q)
    <2>1. i \in DOMAIN sent' <=> i \in 1 .. Len(sent) \/ i = Len(sent) + 1
      BY SMTT(60), <1>1
    <2>2. i \in 1 .. Len(sent) => i # Len(sent) + 1 BY SMTT(60), <1>1
    <2> QED BY <1>1, <2>1, <2>2
  <1>6. CASE m[1] = q
    <2>1. J = I \cup {Len(sent) + 1} BY <1>5, <1>6
    <2>2. Cardinality(I \cup {Len(sent) + 1}) = Cardinality(I) + 1
      BY <1>2, <1>4, FS_AddElement
    <2> QED BY <1>2, <1>3, <1>6, <2>1, <2>2
  <1>7. CASE m[1] # q
    <2>1. J = I BY <1>5, <1>7
    <2> QED BY <1>2, <1>3, <1>7, <2>1
  <1> QED BY <1>6, <1>7

(* No more is sent than there is to send, and less while a sender has a    *)
(* message left.                                                           *)
LEMMA SentBound ==
  ASSUME MsgTypes, SentInv
  PROVE  /\ Len(sent) <= Total
         /\ (\E q \in Senders : SentBy(q) < Count) => Len(sent) < Total
  <1>0. sent \in Seq(Msgs) /\ Len(sent) \in Nat BY SMTT(60) DEF MsgTypes
  <1>1. Count \in Nat /\ IsFiniteSet(1 .. Count)
        /\ Cardinality(1 .. Count) = Count
    <2>1. 1 \in Int /\ Count \in Int /\ Count >= 0
      BY SMTT(60), MailboxAssumption
    <2>2. /\ IsFiniteSet(1 .. Count)
          /\ Cardinality(1 .. Count) = IF 1 > Count THEN 0 ELSE Count - 1 + 1
      BY <2>1, FS_Interval
    <2> QED BY SMTT(60), <2>1, <2>2
  <1>2. IsFiniteSet(Msgs) /\ Cardinality(Msgs) = Total
    BY <1>1, FS_Product, MailboxAssumption DEF Msgs, Total
  <1>3. Cardinality(1 .. Len(sent)) = Len(sent)
    <2>1. 1 \in Int /\ Len(sent) \in Int /\ Len(sent) >= 0 BY SMTT(60), <1>0
    <2>2. Cardinality(1 .. Len(sent)) =
            IF 1 > Len(sent) THEN 0 ELSE Len(sent) - 1 + 1
      BY <2>1, FS_Interval
    <2> QED BY SMTT(60), <2>1, <2>2
  <1>4. sent \in Injection(1 .. Len(sent), Msgs)
    <2>1. sent \in [1 .. Len(sent) -> Msgs] BY SMTT(60), <1>0
    <2> QED BY <2>1 DEF Injection, IsInjective, SentInv
  <1>5. /\ Len(sent) <= Total
        /\ Len(sent) = Total <=> sent \in Surjection(1 .. Len(sent), Msgs)
    BY SMTT(60), <1>2, <1>3, <1>4, FS_Injection
  <1>6. ASSUME NEW q \in Senders, SentBy(q) < Count PROVE Len(sent) # Total
    <2>1. SentBy(q) \in Nat BY <1>0, SentByType
    <2>2. Current(q) \in Msgs
      <3>1. SentBy(q) + 1 \in 1 .. Count BY SMTT(60), <1>1, <1>6, <2>1
      <3> QED BY <3>1 DEF Current, Msgs
    <2>3. ASSUME NEW i \in 1 .. Len(sent) PROVE sent[i] # Current(q)
      <3>1. sent[i][1] = q => sent[i][2] <= SentBy(q) BY DEF SentInv
      <3>2. Current(q)[1] = q /\ Current(q)[2] = SentBy(q) + 1
        BY DEF Current
      <3>3. ~ (SentBy(q) + 1 <= SentBy(q)) BY SMTT(60), <2>1
      <3> QED BY <3>1, <3>2, <3>3
    <2>4. sent \notin Surjection(1 .. Len(sent), Msgs)
      BY <2>2, <2>3 DEF Surjection
    <2> QED BY <1>5, <2>4
  <1>7. Total \in Nat BY <1>2, FS_CardinalityType
  <1> QED BY SMTT(60), <1>0, <1>5, <1>6, <1>7

(* The inbox is untouched by a step that neither links nor copies in. *)
LEMMA SentFrame ==
  ASSUME MsgTypes, SentInv, UNCHANGED <<msg, sent, pc, node>>
  PROVE  SentInv'
  <1>1. \A q : SentBy(q)' = SentBy(q) BY DEF SentBy
  <1> QED BY <1>1 DEF SentInv, Current

(* What was sent stays accounted for when the inbox and its messages       *)
(* stay.                                                                   *)
LEMMA LosslessFrame ==
  ASSUME NEW b \in Seq(Nodes), Lossless(b), UNCHANGED sent, Taken' = Taken,
         \A n \in Elems(b) : msg'[n] = msg[n]
  PROVE  Lossless(b)'
  <1>1. \A i \in 1 .. Len(b) : msg'[b[i]] = msg[b[i]] BY DEF Elems
  <1> QED BY <1>1 DEF Lossless

(* A sender takes a node: no message is touched. *)
LEMMA GetFreeCarries ==
  ASSUME NEW f \in Seq(Nodes), NEW b \in Seq(Nodes), Carries(f, b),
         NEW q \in Senders, GetFree(q)
  PROVE  \E g \in Seq(Nodes) : Carries(g, b)'
  <1>1. PICK g \in Seq(Nodes) : Owns(g, b)' BY GetFreeOwns DEF Carries
  <1>2. /\ UNCHANGED <<msg, sent, got, rpc, rnode>> /\ rpc # "destroyed"
        /\ SentBy(q) < Count /\ pc' = [pc EXCEPT ![q] = "copy"]
        /\ \A r \in Senders : r # q => node'[r] = node[r]
    BY DEF GetFree, recvvars, Carries, Owns, OwnTypes
  <1>3. pc'[q] = "copy" /\ \A r \in Senders : r # q => pc'[r] = pc[r]
    BY <1>2 DEF Carries, Owns, OwnTypes
  <1>4. MsgTypes' /\ NothingLeaks'
    BY <1>2 DEF Carries, MsgTypes, NothingLeaks
  <1>5. SentInv'
    <2>1. \A r : SentBy(r)' = SentBy(r) BY <1>2 DEF SentBy
    <2> QED BY <1>2, <1>3, <2>1 DEF Carries, SentInv, Current
  <1>6. Lossless(b)'
    <2>1. Taken' = Taken BY <1>2 DEF Taken
    <2> QED BY <1>2, <2>1, LosslessFrame DEF Carries
  <1>7. Carries(g, b)' BY <1>1, <1>4, <1>5, <1>6 DEF Carries
  <1> QED BY <1>7

(* A sender copies its message into the node that it owns. *)
LEMMA CopyInCarries ==
  ASSUME NEW f \in Seq(Nodes), NEW b \in Seq(Nodes), Carries(f, b),
         NEW q \in Senders, CopyIn(q)
  PROVE  /\ Carries(f, b)' /\ Taken' = Taken
         /\ \A n \in Elems(b) : msg'[n] = msg[n]
  <1>0. Owns(f, b) /\ OwnTypes /\ HoldInv /\ MsgTypes /\ SentInv /\ Lossless(b)
    BY DEF Carries, Owns
  <1>1. /\ UNCHANGED <<list_free, list_inbox, next, heap, node, rpc, rnode,
                       sent, got>>
        /\ pc[q] = "copy" /\ pc' = [pc EXCEPT ![q] = "insert"]
        /\ msg' = [msg EXCEPT ![node[q]] = Current(q)]
    BY DEF CopyIn, recvvars
  <1>2. /\ pc' \in [Senders -> {"idle", "copy", "insert"}]
        /\ pc'[q] = "insert" /\ \A r \in Senders : r # q => pc'[r] = pc[r]
    BY <1>0, <1>1 DEF OwnTypes
  <1>3. Owns(f, b)'
    <2>1. \A r \in Senders : pc'[r] = "idle" <=> pc[r] = "idle"
      BY <1>1, <1>2
    <2>2. /\ rpc' \in {"idle", "lock", "wait", "copy", "free", "destroyed"}
          /\ rpc' \in {"copy", "free"} <=> rpc \in {"copy", "free"}
      BY <1>0, <1>1 DEF OwnTypes
    <2> QED BY <1>0, <1>1, <1>2, <2>1, <2>2, OtherOwns
  <1>4. node[q] \in Nodes /\ node[q] \in Held
    BY <1>0, <1>1 DEF OwnTypes, HoldInv, Held
  <1>5. Current(q) \in Msgs
    <2>1. SentBy(q) \in Nat BY <1>0, SentByType DEF MsgTypes
    <2>2. SentBy(q) < Count BY <1>0, <1>1 DEF SentInv
    <2>3. SentBy(q) + 1 \in 1 .. Count
      BY SMTT(60), <2>1, <2>2, MailboxAssumption
    <2> QED BY <2>3 DEF Current, Msgs
  <1>6. /\ msg'[node[q]] = Current(q)
        /\ \A n \in Nodes : n # node[q] => msg'[n] = msg[n]
    BY <1>0, <1>1, <1>4 DEF MsgTypes
  <1>7. MsgTypes' BY <1>0, <1>1, <1>4, <1>5 DEF MsgTypes
  <1>8. SentInv'
    <2>1. \A r : SentBy(r)' = SentBy(r) /\ Current(r)' = Current(r)
      BY <1>1 DEF SentBy, Current
    <2>2. ASSUME NEW r \in Senders, pc'[r] = "insert"
          PROVE  msg'[node'[r]] = Current(r)'
      <3>1. CASE r = q BY <1>1, <1>6, <2>1, <3>1
      <3>2. CASE r # q
        <4>1. pc[r] = "insert" /\ node[r] # NULL /\ node[r] \in Nodes
          BY <1>0, <1>2, <2>2, <3>2 DEF HoldInv, OwnTypes
        <4>2. node[r] # node[q] BY <1>0, <3>2, <4>1 DEF HoldInv
        <4> QED BY <1>0, <1>1, <1>6, <2>1, <4>1, <4>2 DEF SentInv
      <3> QED BY <3>1, <3>2
    <2>3. ASSUME NEW r \in Senders, pc'[r] # "idle" PROVE SentBy(r)' < Count
      BY <1>0, <1>1, <1>2, <2>1, <2>3 DEF SentInv
    <2> QED BY <1>0, <1>1, <2>1, <2>2, <2>3 DEF SentInv
  <1>9. ASSUME NEW n \in Elems(b) PROVE msg'[n] = msg[n]
    <2>1. n \notin Held BY <1>0 DEF Owns, Owned
    <2>2. n \in Nodes
      <3>1. PICK i \in 1 .. Len(b) : n = b[i] BY DEF Elems
      <3> QED BY SMTT(60), <3>1
    <2> QED BY <1>4, <1>6, <2>1, <2>2
  <1>10. Taken' = Taken
    <2>1. CASE rpc = "copy"
      <3>1. rnode \in Nodes /\ rnode # node[q]
        BY <1>0, <2>1 DEF HoldInv, OwnTypes
      <3> QED BY SMTT(60), <1>1, <1>6, <3>1 DEF Taken
    <2>2. CASE rpc # "copy" BY <1>1, <2>2 DEF Taken
    <2> QED BY <2>1, <2>2
  <1>11. Lossless(b)' BY <1>0, <1>1, <1>9, <1>10, LosslessFrame
  <1>12. NothingLeaks' BY <1>1 DEF Carries, NothingLeaks
  <1>13. Carries(f, b)' BY <1>3, <1>7, <1>8, <1>11, <1>12 DEF Carries
  <1> QED BY <1>9, <1>10, <1>13

(* What the receiver took is a sequence of messages. *)
LEMMA TakenType ==
  ASSUME NEW b \in Seq(Nodes), MsgTypes, OwnTypes, HoldInv, Lossless(b)
  PROVE  Taken \in Seq(Msgs)
  <1>1. CASE rpc = "copy"
    <2>1. Taken = Append(got, msg[rnode]) /\ got \in Seq(Msgs)
      BY <1>1 DEF Taken, MsgTypes
    <2>2. msg[rnode] \in Msgs \cup {NULL}
      BY <1>1 DEF MsgTypes, HoldInv, OwnTypes
    <2>3. /\ Len(Taken) = Len(got) + 1 /\ Len(got) \in Nat
          /\ Taken[Len(got) + 1] = msg[rnode]
      BY SMTT(60), <2>1, <2>2
    <2>4. Len(sent) = Len(got) + 1 + Len(b) /\ Len(b) \in Nat
          /\ sent[Len(got) + 1] = msg[rnode]
      <3>1. Len(got) + 1 \in 1 .. Len(Taken) BY SMTT(60), <2>3
      <3> QED BY SMTT(60), <2>3, <3>1 DEF Lossless
    <2>5. Len(got) + 1 \in 1 .. Len(sent) BY SMTT(60), <2>3, <2>4
    <2>6. msg[rnode] \in Msgs BY SMTT(60), <2>4, <2>5 DEF MsgTypes
    <2> QED BY SMTT(60), <2>1, <2>6
  <1>2. CASE rpc # "copy" BY <1>2 DEF Taken, MsgTypes
  <1> QED BY <1>1, <1>2

(* A sender appends its node: its message is the last of the inbox. *)
LEMMA InsertCarries ==
  ASSUME NEW f \in Seq(Nodes), NEW b \in Seq(Nodes), Carries(f, b),
         NEW q \in Senders, Insert(q), NEW n, n = node[q]
  PROVE  /\ Append(b, n) \in Seq(Nodes) /\ Carries(f, Append(b, n))'
         /\ Taken' = Taken /\ msg' = msg /\ msg[n] \in Msgs
  <1>0. Owns(f, b) /\ OwnTypes /\ HoldInv /\ MsgTypes /\ SentInv /\ Lossless(b)
    BY DEF Carries, Owns
  <1>1. Append(b, n) \in Seq(Nodes) /\ Owns(f, Append(b, n))'
    BY <1>0, InsertOwns
  <1>2. /\ UNCHANGED <<msg, got, rnode, heap>> /\ pc[q] = "insert"
        /\ pc' = [pc EXCEPT ![q] = "idle"]
        /\ node' = [node EXCEPT ![q] = NULL]
        /\ sent' = Append(sent, msg[n])
        /\ rpc' = rpc \/ (rpc = "wait" /\ rpc' = "lock")
    <2>1. rpc' = rpc \/ (rpc = "wait" /\ rpc' = "lock") BY DEF Insert
    <2> QED BY <2>1 DEF Insert
  <1>3. /\ pc'[q] = "idle"
        /\ \A r \in Senders : r # q => pc'[r] = pc[r] /\ node'[r] = node[r]
    BY <1>0, <1>2 DEF OwnTypes
  <1>4. SentBy(q) \in Nat /\ SentBy(q) < Count /\ msg[n] = Current(q)
        /\ n \in Nodes
    BY <1>0, <1>2, SentByType DEF SentInv, MsgTypes, HoldInv, OwnTypes
  <1>5. msg[n] \in Msgs /\ msg[n][1] = q /\ msg[n][2] = SentBy(q) + 1
    <2>1. SentBy(q) + 1 \in 1 .. Count BY SMTT(60), <1>4, MailboxAssumption
    <2> QED BY SMTT(60), <1>4, <2>1 DEF Current, Msgs
  <1>6. PICK m \in Msgs : m = msg[n] BY <1>5
  <1>7. /\ sent \in Seq(Msgs) /\ sent' = Append(sent, m) /\ Len(sent) \in Nat
        /\ sent' \in Seq(Msgs) /\ Len(sent') = Len(sent) + 1
        /\ \A i \in 1 .. Len(sent) : sent'[i] = sent[i]
        /\ sent'[Len(sent) + 1] = m
    BY SMTT(60), <1>0, <1>2, <1>6 DEF MsgTypes
  <1>8. /\ SentBy(q)' = SentBy(q) + 1
        /\ \A r : r # q => SentBy(r)' = SentBy(r)
    BY <1>5, <1>6, <1>7, SentByAppend
  <1>9. MsgTypes' BY <1>0, <1>2, <1>7 DEF MsgTypes
  <1>10. SentInv'
    <2>0. \A i \in 1 .. Len(sent) : sent[i] # m
      <3> SUFFICES ASSUME NEW i \in 1 .. Len(sent), sent[i] = m PROVE FALSE
        OBVIOUS
      <3>1. sent[i][1] = q => sent[i][2] <= SentBy(q) BY <1>0 DEF SentInv
      <3>2. ~ (SentBy(q) + 1 <= SentBy(q)) BY SMTT(60), <1>4
      <3> QED BY <1>5, <1>6, <3>1, <3>2
    <2>1. ASSUME NEW i \in 1 .. Len(sent'), NEW j \in 1 .. Len(sent'),
                 sent'[i] = sent'[j]
          PROVE  i = j
      <3>1. i \in 1 .. Len(sent) \/ i = Len(sent) + 1 BY SMTT(60), <1>7
      <3>2. j \in 1 .. Len(sent) \/ j = Len(sent) + 1 BY SMTT(60), <1>7
      <3>3. CASE i \in 1 .. Len(sent) /\ j \in 1 .. Len(sent)
        BY SMTT(60), <1>0, <1>7, <2>1, <3>3 DEF SentInv
      <3> QED BY <1>7, <2>0, <2>1, <3>1, <3>2, <3>3
    <2>2. ASSUME NEW i \in 1 .. Len(sent'), NEW r \in Senders, sent'[i][1] = r
          PROVE  sent'[i][2] <= SentBy(r)'
      <3>1. CASE i = Len(sent) + 1
        <4>1. sent'[i] = m BY <1>7, <3>1
        <4>2. r = q /\ sent'[i][2] = SentBy(q) + 1
          BY <1>5, <1>6, <2>2, <4>1
        <4> QED BY SMTT(60), <1>4, <1>8, <4>2
      <3>2. CASE i # Len(sent) + 1
        <4>1. i \in 1 .. Len(sent) BY SMTT(60), <1>7, <3>2
        <4>2. sent'[i] = sent[i] BY <1>7, <4>1
        <4>3. sent[i][2] <= SentBy(r) /\ sent[i] \in Msgs
          BY SMTT(60), <1>0, <1>7, <2>2, <4>1, <4>2 DEF SentInv
        <4>4. sent[i][2] \in Nat BY SMTT(60), <4>3 DEF Msgs
        <4>5. SentBy(r)' = SentBy(r) \/ (r = q /\ SentBy(r)' = SentBy(r) + 1)
          BY <1>8
        <4> QED BY SMTT(60), <1>4, <4>2, <4>3, <4>4, <4>5
      <3> QED BY <3>1, <3>2
    <2>3. ASSUME NEW r \in Senders, pc'[r] # "idle" PROVE SentBy(r)' < Count
      BY <1>0, <1>3, <1>8, <2>3 DEF SentInv
    <2>4. ASSUME NEW r \in Senders, pc'[r] = "insert"
          PROVE  msg'[node'[r]] = Current(r)'
      <3>1. r # q /\ pc[r] = "insert" /\ node'[r] = node[r]
        BY <1>3, <2>4
      <3>2. msg[node[r]] = Current(r) BY <1>0, <3>1 DEF SentInv
      <3>3. Current(r)' = Current(r) BY <1>8, <3>1 DEF Current
      <3> QED BY <1>2, <3>1, <3>2, <3>3
    <2> QED BY <2>1, <2>2, <2>3, <2>4 DEF SentInv
  <1>11. Taken' = Taken BY <1>2 DEF Taken
  <1>12. Lossless(Append(b, n))'
    <2>1. /\ Len(Append(b, n)) = Len(b) + 1
          /\ \A i \in 1 .. Len(b) : Append(b, n)[i] = b[i]
          /\ Append(b, n)[Len(b) + 1] = n
      BY <1>4, ElemsAppend
    <2>2. PICK k \in Nat : k = Len(Taken)
      <3>1. Taken \in Seq(Msgs) BY <1>0, TakenType
      <3> QED BY SMTT(60), <3>1
    <2>3. /\ Len(b) \in Nat /\ Len(sent) = k + Len(b)
          /\ \A i \in 1 .. k : sent[i] = Taken[i]
          /\ \A i \in 1 .. Len(b) : sent[k + i] = msg[b[i]]
      BY SMTT(60), <1>0, <2>2 DEF Lossless
    <2>4. Len(sent') = k + Len(Append(b, n)) BY SMTT(60), <1>7, <2>1, <2>3
    <2>5. ASSUME NEW i \in 1 .. k PROVE sent'[i] = Taken[i]
      <3>1. i \in 1 .. Len(sent) BY SMTT(60), <2>3
      <3> QED BY <1>7, <2>3, <3>1
    <2>6. ASSUME NEW i \in 1 .. Len(b) + 1
          PROVE  sent'[k + i] = msg[Append(b, n)[i]]
      <3>1. CASE i = Len(b) + 1
        <4>1. k + i = Len(sent) + 1 BY SMTT(60), <2>3, <3>1
        <4> QED BY <1>6, <1>7, <2>1, <3>1, <4>1
      <3>2. CASE i # Len(b) + 1
        <4>1. i \in 1 .. Len(b) /\ k + i \in 1 .. Len(sent)
          BY SMTT(60), <2>3, <3>2
        <4> QED BY <1>7, <2>1, <2>3, <4>1
      <3> QED BY <3>1, <3>2
    <2> QED BY <1>2, <1>11, <2>1, <2>2, <2>4, <2>5, <2>6 DEF Lossless
  <1>13. NothingLeaks'
    <2>1. rpc # "destroyed"
      <3>1. n \in heap
        BY <1>0, <1>2 DEF Owns, Owned, Held, HoldInv, OwnTypes
      <3> QED BY <3>1 DEF Carries, NothingLeaks
    <2> QED BY <1>2, <2>1 DEF NothingLeaks
  <1>14. Carries(f, Append(b, n))'
    BY <1>1, <1>9, <1>10, <1>12, <1>13 DEF Carries
  <1> QED BY <1>1, <1>2, <1>5, <1>11, <1>14

(* The receiver takes the first node, and with it the first message. *)
LEMMA TakeCarries ==
  ASSUME NEW f \in Seq(Nodes), NEW b \in Seq(Nodes), Carries(f, b),
         RecvLocked, list_inbox # NULL
  PROVE  /\ Len(b) # 0 /\ Tail(b) \in Seq(Nodes) /\ Carries(f, Tail(b))'
         /\ msg' = msg /\ Taken' = Append(Taken, msg[b[1]])
  <1>0. Owns(f, b) /\ OwnTypes /\ HoldInv /\ MsgTypes /\ SentInv /\ Lossless(b)
    BY DEF Carries, Owns
  <1>1. /\ Len(b) # 0 /\ rnode' = b[1] /\ rpc' = "copy"
        /\ Tail(b) \in Seq(Nodes) /\ Owns(f, Tail(b))'
    BY <1>0, TakeOwns
  <1>2. UNCHANGED <<msg, sent, got, pc, node>> /\ rpc = "lock"
    BY DEF RecvLocked, sendvars
  <1>3. MsgTypes' /\ SentInv' /\ NothingLeaks'
    BY <1>0, <1>1, <1>2, SentFrame DEF MsgTypes, NothingLeaks
  <1>4. Taken = got /\ Taken' = Append(got, msg[b[1]])
    BY <1>1, <1>2 DEF Taken
  <1>5. Lossless(Tail(b))'
    <2>1. /\ Len(Tail(b)) = Len(b) - 1 /\ Len(b) \in Nat
          /\ \A i \in 1 .. Len(b) - 1 : Tail(b)[i] = b[i + 1]
      BY SMTT(60), <1>1
    <2>2. PICK k \in Nat : k = Len(got) BY SMTT(60), <1>0 DEF MsgTypes
    <2>3. PICK t : t = Append(got, msg[b[1]]) OBVIOUS
    <2>4. Len(t) = k + 1 /\ t[k + 1] = msg[b[1]]
          /\ \A i \in 1 .. k : t[i] = got[i]
      BY SMTT(60), <1>0, <2>2, <2>3 DEF MsgTypes
    <2>5. /\ Len(sent) = k + Len(b)
          /\ \A i \in 1 .. k : sent[i] = got[i]
          /\ \A i \in 1 .. Len(b) : sent[k + i] = msg[b[i]]
      BY <1>0, <1>4, <2>2 DEF Lossless
    <2>6. Len(sent) = Len(t) + Len(Tail(b))
      <3>1. k + Len(b) = (k + 1) + (Len(b) - 1) BY SMTT(60), <2>1
      <3> QED BY <2>1, <2>4, <2>5, <3>1
    <2>7. ASSUME NEW i \in 1 .. k + 1 PROVE sent[i] = t[i]
      <3>1. CASE i = k + 1
        <4>1. 1 \in 1 .. Len(b) BY SMTT(60), <1>1, <2>1
        <4> QED BY <2>4, <2>5, <3>1, <4>1
      <3>2. CASE i # k + 1
        <4>1. i \in 1 .. k BY SMTT(60), <3>2
        <4> QED BY <2>4, <2>5, <4>1
      <3> QED BY <3>1, <3>2
    <2>8. ASSUME NEW i \in 1 .. Len(b) - 1
          PROVE  sent[k + 1 + i] = msg[Tail(b)[i]]
      <3>1. i + 1 \in 1 .. Len(b) /\ k + 1 + i = k + (i + 1) BY SMTT(60), <2>1
      <3> QED BY <2>1, <2>5, <3>1
    <2>9. Taken' = t BY <1>4, <2>3
    <2> QED BY <1>2, <2>1, <2>4, <2>6, <2>7, <2>8, <2>9 DEF Lossless
  <1>6. Carries(f, Tail(b))' BY <1>1, <1>3, <1>5 DEF Carries
  <1> QED BY <1>1, <1>2, <1>4, <1>6

(* A message that is being copied out is one that was sent. *)
LEMMA CopyOutCarries ==
  ASSUME NEW f \in Seq(Nodes), NEW b \in Seq(Nodes), Carries(f, b), CopyOut
  PROVE  Carries(f, b)' /\ Taken' = Taken /\ msg' = msg
  <1>0. Owns(f, b) /\ OwnTypes /\ HoldInv /\ MsgTypes /\ SentInv /\ Lossless(b)
    BY DEF Carries, Owns
  <1>1. /\ UNCHANGED <<list_free, list_inbox, next, heap, pc, node, rnode, msg,
                       sent>>
        /\ rpc = "copy" /\ rpc' = "free" /\ got' = Append(got, msg[rnode])
    BY DEF CopyOut, sendvars
  <1>2. Owns(f, b)'
    <2>1. pc \in [Senders -> {"idle", "copy", "insert"}] BY <1>0 DEF OwnTypes
    <2> QED BY <1>0, <1>1, <2>1, OtherOwns
  <1>3. Taken' = Taken /\ got' = Taken BY <1>1 DEF Taken
  <1>4. MsgTypes' BY <1>0, <1>1, <1>3, TakenType DEF MsgTypes
  <1>5. SentInv' BY <1>0, <1>1, SentFrame
  <1>6. Lossless(b)' BY <1>0, <1>1, <1>3, LosslessFrame
  <1>7. NothingLeaks' BY <1>1 DEF NothingLeaks
  <1> QED BY <1>1, <1>2, <1>3, <1>4, <1>5, <1>6, <1>7 DEF Carries

(* The receiver waits, or begins to receive. *)
LEMMA IdleCarries ==
  ASSUME NEW f \in Seq(Nodes), NEW b \in Seq(Nodes), Carries(f, b),
         UNCHANGED <<list_free, list_inbox, next, heap, msg, pc, node, rnode,
                     sent, got>>,
         rpc \in {"idle", "lock", "wait"}, rpc' \in {"lock", "wait"}
  PROVE  Carries(f, b)' /\ Taken' = Taken
  <1>0. Owns(f, b) /\ OwnTypes /\ MsgTypes /\ SentInv /\ Lossless(b)
    BY DEF Carries, Owns
  <1>1. Owns(f, b)'
    <2>1. pc \in [Senders -> {"idle", "copy", "insert"}] BY <1>0 DEF OwnTypes
    <2> QED BY <1>0, <2>1, OtherOwns
  <1>2. Taken' = Taken BY DEF Taken
  <1>3. MsgTypes' BY <1>0 DEF MsgTypes
  <1>4. SentInv' BY <1>0, SentFrame
  <1>5. Lossless(b)' BY <1>0, <1>2, LosslessFrame
  <1>6. NothingLeaks' BY DEF NothingLeaks
  <1> QED BY <1>1, <1>2, <1>3, <1>4, <1>5, <1>6 DEF Carries

(* The receiver frees its node after the message was copied out. *)
LEMMA PutFreeCarries ==
  ASSUME NEW f \in Seq(Nodes), NEW b \in Seq(Nodes), Carries(f, b), PutFree
  PROVE  \E g \in Seq(Nodes) : Carries(g, b)' /\ Taken' = Taken /\ msg' = msg
  <1>0. Owns(f, b) /\ MsgTypes /\ SentInv /\ Lossless(b)
    BY DEF Carries
  <1>1. PICK g \in Seq(Nodes) : Owns(g, b)' BY <1>0, PutFreeOwns
  <1>2. UNCHANGED <<msg, sent, got, pc, node>> /\ rpc = "free" /\ rpc' = "idle"
    BY DEF PutFree, sendvars
  <1>3. Taken' = Taken BY <1>2 DEF Taken
  <1>4. MsgTypes' BY <1>0, <1>2 DEF MsgTypes
  <1>5. SentInv' BY <1>0, <1>2, SentFrame
  <1>6. Lossless(b)' BY <1>0, <1>2, <1>3, LosslessFrame
  <1>7. NothingLeaks' BY <1>2 DEF NothingLeaks
  <1>8. Carries(g, b)' BY <1>1, <1>4, <1>5, <1>6, <1>7 DEF Carries
  <1> QED BY <1>2, <1>3, <1>8

(* When all messages have been received, the inbox is empty and no thread  *)
(* has a node: every node is in the free list.                             *)
LEMMA DestroyCarries ==
  ASSUME NEW f \in Seq(Nodes), NEW b \in Seq(Nodes), Carries(f, b),
         LpelMailboxDestroy
  PROVE  Carries(<<>>, b)' /\ Taken' = Taken /\ msg' = msg
  <1>0. Owns(f, b) /\ OwnTypes /\ HoldInv /\ MsgTypes /\ SentInv /\ Lossless(b)
    BY DEF Carries, Owns
  <1>1. Owns(<<>>, b)' BY <1>0, DestroyOwns
  <1>2. /\ UNCHANGED <<msg, sent, got, pc, node, list_inbox>>
        /\ rpc = "idle" /\ Len(got) = Total /\ rpc' = "destroyed"
        /\ heap' = heap \ FreeNodes
    BY DEF LpelMailboxDestroy, sendvars
  <1>3. Taken' = Taken /\ Taken = got BY <1>2 DEF Taken
  <1>4. MsgTypes' BY <1>0, <1>2 DEF MsgTypes
  <1>5. SentInv' BY <1>0, <1>2, SentFrame
  <1>6. Lossless(b)' BY <1>0, <1>2, <1>3, LosslessFrame
  <1>7. /\ Len(got) \in Nat /\ Len(b) \in Nat /\ Len(sent) = Len(got) + Len(b)
        /\ Len(sent) <= Total
        /\ (\E q \in Senders : SentBy(q) < Count) => Len(sent) < Total
    BY SMTT(60), <1>0, <1>3, SentBound DEF Lossless, MsgTypes
  <1>8. Len(b) = 0 /\ ~ \E q \in Senders : SentBy(q) < Count
    BY SMTT(60), <1>2, <1>7
  <1>9. list_inbox = NULL /\ Elems(b) = {}
    BY SMTT(60), <1>0, <1>8 DEF Owns, Owned, Ring, Elems
  <1>10. Held = {}
    <2>1. \A q \in Senders : pc[q] = "idle" BY <1>0, <1>8 DEF SentInv
    <2>2. \A q \in Senders : node[q] = NULL BY <1>0, <2>1 DEF HoldInv
    <2>3. rnode = NULL BY <1>0, <1>2 DEF HoldInv
    <2> QED BY <2>2, <2>3 DEF Held
  <1>11. heap = Elems(f) /\ FreeNodes = Elems(f)
    BY <1>0, <1>9, <1>10, ReachesFree DEF Owns, Owned
  <1>12. NothingLeaks' BY <1>2, <1>9, <1>11 DEF NothingLeaks
  <1> QED BY <1>1, <1>2, <1>3, <1>4, <1>5, <1>6, <1>12 DEF Carries

(* The invariant holds of an empty mailbox. *)
LEMMA InitMail == ASSUME Init PROVE MailInv
  <1>1. <<>> \in Seq(Nodes) /\ Len(<<>>) = 0 /\ Elems(<<>>) = {}
    BY SMTT(60) DEF Elems
  <1>2. Held = {} BY DEF Init, Held
  <1>3. OwnTypes BY DEF Init, OwnTypes, LpelMailboxCreate
  <1>4. HoldInv BY DEF Init, HoldInv
  <1>5. FreeList(<<>>) /\ Ring(<<>>)
    BY SMTT(60), <1>1 DEF Init, LpelMailboxCreate, FreeList, Ring, Linked
  <1>6. Owned(<<>>, <<>>) BY <1>1, <1>2, <1>5 DEF Owned, Init
  <1>7. MsgTypes /\ NothingLeaks BY SMTT(60) DEF Init, MsgTypes, NothingLeaks
  <1>8. SentInv BY SMTT(60) DEF Init, SentInv
  <1>9. Lossless(<<>>) BY SMTT(60) DEF Init, Lossless, Taken
  <1>10. Carries(<<>>, <<>>)
    BY <1>3, <1>4, <1>6, <1>7, <1>8, <1>9 DEF Carries, Owns
  <1> QED BY <1>1, <1>10 DEF MailInv

----------------------------------------------------------------------------
(* The queue *)

Determined == \A b \in Seq(Nodes) : Ring(b) => Contents = Messages(b)

(* The contents of the mailbox are the messages of the inbox. *)
LEMMA ContentsIs == Determined
  BY InboxIs DEF Contents, Determined

(* A step takes the inbox from b to c, and the queue with it. *)
Moves(b, c) ==
  \/ Messages(c)' = Messages(b) /\ Taken' = Taken
  \/ \E m \in Msgs : Messages(c)' = Append(Messages(b), m) /\ Taken' = Taken
  \/ /\ Messages(b) # <<>> /\ Messages(c)' = Tail(Messages(b))
     /\ Taken' = Append(Taken, Head(Messages(b)))

(* A step that moves messages as a queue does is a step of MailboxSpec. *)
LEMMA MovesQueue ==
  ASSUME NEW f \in Seq(Nodes), NEW b \in Seq(Nodes), Carries(f, b),
         NEW g \in Seq(Nodes), NEW c \in Seq(Nodes), Carries(g, c)',
         Moves(b, c)
  PROVE  MailInv' /\ [Queue!Next]_<<Contents, Taken>>
  <1>1. Contents = Messages(b)
    BY ContentsIs DEF Carries, Owns, Owned, Determined
  <1>2. Determined' BY ContentsIs, PTL
  <1>3. Contents' = Messages(c)' BY <1>2 DEF Carries, Owns, Owned, Determined
  <1>4. [Queue!Next]_<<Contents, Taken>>
    BY <1>1, <1>3 DEF Moves, Queue!Next, Queue!Send, Queue!Recv
  <1>5. MailInv' BY DEF MailInv
  <1> QED BY <1>4, <1>5

(* A sequence that is s with e behind it. *)
LEMMA AppendIs ==
  ASSUME NEW S, NEW s \in Seq(S), NEW e \in S, NEW t \in Seq(S),
         Len(t) = Len(s) + 1, \A i \in 1 .. Len(s) : t[i] = s[i],
         t[Len(s) + 1] = e
  PROVE  t = Append(s, e)
  <1>1. Append(s, e) \in Seq(S) /\ Len(Append(s, e)) = Len(s) + 1
        /\ \A i \in 1 .. Len(s) + 1 :
             Append(s, e)[i] = IF i = Len(s) + 1 THEN e ELSE s[i]
    BY SMTT(60)
  <1>2. ASSUME NEW i \in 1 .. Len(t) PROVE t[i] = Append(s, e)[i]
    <2>1. i \in 1 .. Len(s) \/ i = Len(s) + 1 BY SMTT(60)
    <2>2. i \in 1 .. Len(s) + 1 OBVIOUS
    <2> QED BY <1>1, <2>1, <2>2
  <1> QED BY SMTT(60), <1>1, <1>2

(* A sequence that is s without its first member. *)
LEMMA TailIs ==
  ASSUME NEW S, NEW s \in Seq(S), s # <<>>, NEW t \in Seq(S),
         Len(t) = Len(s) - 1, \A i \in 1 .. Len(t) : t[i] = s[i + 1]
  PROVE  t = Tail(s)
  <1>1. Tail(s) \in Seq(S) /\ Len(Tail(s)) = Len(s) - 1
        /\ \A i \in 1 .. Len(s) - 1 : Tail(s)[i] = s[i + 1]
    BY SMTT(60)
  <1> QED BY SMTT(60), <1>1

(* Messages is a sequence of the messages in the nodes. *)
LEMMA MessagesIs ==
  ASSUME MsgTypes, NEW b \in Seq(Nodes)
  PROVE  /\ Messages(b) \in Seq(Msgs \cup {NULL}) /\ Len(Messages(b)) = Len(b)
         /\ \A i \in 1 .. Len(b) : Messages(b)[i] = msg[b[i]]
  <1>1. PICK M : M = Msgs \cup {NULL} OBVIOUS
  <1>2. PICK n \in Nat : n = Len(b) BY SMTT(60)
  <1>3. \A i \in 1 .. n : msg[b[i]] \in M
    <2>1. \A i \in 1 .. n : b[i] \in Nodes BY SMTT(60), <1>2
    <2> QED BY <1>1, <2>1 DEF MsgTypes
  <1>4. Messages(b) = [i \in 1 .. n |-> msg[b[i]]] BY <1>2 DEF Messages
  <1>5. Messages(b) \in Seq(M) /\ Len(Messages(b)) = n
    BY SMTT(60), <1>3, <1>4
  <1> QED BY <1>1, <1>2, <1>4, <1>5

(* The steps of the sender. *)
LEMMA SendMoves ==
  ASSUME NEW f \in Seq(Nodes), NEW b \in Seq(Nodes), Carries(f, b),
         NEW q \in Senders, LpelMailboxSend(q)
  PROVE  \E g, c \in Seq(Nodes) : Carries(g, c)' /\ Moves(b, c)
  <1>0. /\ \A n \in Elems(b) : n \in Nodes /\ n \notin Held
        /\ OwnTypes /\ HoldInv /\ MsgTypes
    BY SMTT(60) DEF Carries, Owns, Owned, Elems
  <1>1. CASE GetFree(q)
    <2>1. PICK g \in Seq(Nodes) : Carries(g, b)'
      BY <1>1, GetFreeCarries
    <2>2. UNCHANGED <<msg, got, rpc, rnode>> BY <1>1 DEF GetFree, recvvars
    <2>3. Moves(b, b) BY <2>2 DEF Moves, Messages, Taken
    <2> QED BY <2>1, <2>3
  <1>2. CASE CopyIn(q)
    <2>1. Carries(f, b)' /\ Taken' = Taken
          /\ \A n \in Elems(b) : msg'[n] = msg[n]
      BY <1>2, CopyInCarries
    <2>2. Messages(b)' = Messages(b)
      <3>1. \A i \in 1 .. Len(b) : msg'[b[i]] = msg[b[i]] BY <2>1 DEF Elems
      <3> QED BY <3>1 DEF Messages
    <2>3. Moves(b, b) BY <2>1, <2>2 DEF Moves
    <2> QED BY <2>1, <2>3
  <1>3. CASE Insert(q)
    <2>1. PICK n : n = node[q] OBVIOUS
    <2>2. /\ Append(b, n) \in Seq(Nodes) /\ Carries(f, Append(b, n))'
          /\ Taken' = Taken /\ msg' = msg /\ msg[n] \in Msgs
      BY <1>3, <2>1, InsertCarries
    <2>3. Messages(Append(b, n))' = Append(Messages(b), msg[n])
      <3>1. n \in Nodes
        BY <1>0, <1>3, <2>1 DEF Insert, HoldInv, OwnTypes
      <3>2. /\ Len(Append(b, n)) = Len(b) + 1 /\ Len(b) \in Nat
            /\ \A i \in 1 .. Len(b) : Append(b, n)[i] = b[i]
            /\ Append(b, n)[Len(b) + 1] = n
        BY SMTT(60), <3>1, ElemsAppend
      <3>3. Messages(b) \in Seq(Msgs \cup {NULL}) /\ Len(Messages(b)) = Len(b)
            /\ \A i \in 1 .. Len(b) : Messages(b)[i] = msg[b[i]]
        BY <1>0, MessagesIs
      <3>4. PICK t : t = Messages(Append(b, n)) OBVIOUS
      <3>5. /\ t \in Seq(Msgs \cup {NULL}) /\ Len(t) = Len(Append(b, n))
            /\ \A i \in 1 .. Len(Append(b, n)) : t[i] = msg[Append(b, n)[i]]
        BY <1>0, <2>2, <3>4, MessagesIs
      <3>6. Len(t) = Len(Messages(b)) + 1 /\ t[Len(Messages(b)) + 1] = msg[n]
        <4>1. Len(b) + 1 \in 1 .. Len(Append(b, n)) BY SMTT(60), <3>2
        <4> QED BY <3>2, <3>3, <3>5, <4>1
      <3>7. ASSUME NEW i \in 1 .. Len(Messages(b)) PROVE t[i] = Messages(b)[i]
        <4>1. i \in 1 .. Len(b) /\ i \in 1 .. Len(Append(b, n))
          BY SMTT(60), <3>2, <3>3
        <4> QED BY <3>2, <3>3, <3>5, <4>1
      <3>8. msg[n] \in Msgs \cup {NULL} BY <2>2
      <3>9. t = Append(Messages(b), msg[n])
        BY <3>3, <3>5, <3>6, <3>7, <3>8, AppendIs
      <3> QED BY <2>2, <3>4, <3>9 DEF Messages
    <2>4. Moves(b, Append(b, n)) BY <2>2, <2>3 DEF Moves
    <2> QED BY <2>2, <2>4
  <1> QED BY <1>1, <1>2, <1>3 DEF LpelMailboxSend

(* The steps of the receiver. *)
LEMMA TakeMoves ==
  ASSUME NEW f \in Seq(Nodes), NEW b \in Seq(Nodes), Carries(f, b),
         RecvLocked, list_inbox # NULL
  PROVE  Tail(b) \in Seq(Nodes) /\ Carries(f, Tail(b))' /\ Moves(b, Tail(b))
  <1>1. /\ Len(b) # 0 /\ Tail(b) \in Seq(Nodes) /\ Carries(f, Tail(b))'
        /\ msg' = msg /\ Taken' = Append(Taken, msg[b[1]])
    BY TakeCarries
  <1>2. /\ Len(b) \in Nat /\ Len(Tail(b)) = Len(b) - 1 /\ 1 \in 1 .. Len(b)
        /\ \A i \in 1 .. Len(b) - 1 : Tail(b)[i] = b[i + 1]
    BY SMTT(60), <1>1
  <1>3. Messages(b) \in Seq(Msgs \cup {NULL}) /\ Len(Messages(b)) = Len(b)
        /\ \A i \in 1 .. Len(b) : Messages(b)[i] = msg[b[i]]
    BY MessagesIs DEF Carries
  <1>4. Messages(b) # <<>> /\ Head(Messages(b)) = msg[b[1]]
    BY SMTT(60), <1>1, <1>2, <1>3
  <1>5. PICK t : t = Messages(Tail(b)) OBVIOUS
  <1>6. /\ t \in Seq(Msgs \cup {NULL}) /\ Len(t) = Len(b) - 1
        /\ \A i \in 1 .. Len(b) - 1 : t[i] = msg[Tail(b)[i]]
    BY <1>1, <1>2, <1>5, MessagesIs DEF Carries
  <1>7. ASSUME NEW i \in 1 .. Len(b) - 1
        PROVE  t[i] = Messages(b)[i + 1]
    <2>1. i + 1 \in 1 .. Len(b) BY SMTT(60), <1>2
    <2> QED BY SMTT(60), <1>2, <1>3, <1>6, <2>1
  <1>8. Messages(Tail(b))' = Tail(Messages(b))
    <2>1. Len(t) = Len(Messages(b)) - 1 BY <1>3, <1>6
    <2>2. \A i \in 1 .. Len(t) : t[i] = Messages(b)[i + 1] BY <1>6, <1>7
    <2>3. t = Tail(Messages(b))
      BY <1>3, <1>4, <1>6, <2>1, <2>2, TailIs
    <2> QED BY <1>1, <1>5, <2>3 DEF Messages
  <1> QED BY <1>1, <1>4, <1>8 DEF Moves

(* The steps of the receiver move messages as a queue does. *)
LEMMA ReceiveMoves ==
  ASSUME NEW f \in Seq(Nodes), NEW b \in Seq(Nodes), Carries(f, b),
         LpelMailboxRecv \/ SpuriousWakeup \/ LpelMailboxDestroy
  PROVE  \E g, c \in Seq(Nodes) : Carries(g, c)' /\ Moves(b, c)
  <1>0. ASSUME Taken' = Taken, msg' = msg PROVE Moves(b, b)
    BY <1>0 DEF Moves, Messages
  <1>1. CASE RecvCall \/ LpelMailboxHasIncoming \/ SpuriousWakeup
             \/ (RecvLocked /\ list_inbox = NULL)
    <2>1. /\ UNCHANGED <<list_free, list_inbox, next, heap, msg, pc, node,
                         rnode, sent, got>>
          /\ rpc \in {"idle", "lock", "wait"} /\ rpc' \in {"lock", "wait"}
      BY <1>1 DEF RecvCall, LpelMailboxHasIncoming, SpuriousWakeup, RecvLocked,
                  sendvars
    <2>2. Carries(f, b)' /\ Taken' = Taken BY <2>1, IdleCarries
    <2>3. Moves(b, b) BY <1>0, <2>1, <2>2
    <2> QED BY <2>2, <2>3
  <1>2. CASE RecvLocked /\ list_inbox # NULL BY <1>2, TakeMoves
  <1>3. CASE CopyOut
    <2>1. Carries(f, b)' /\ Taken' = Taken /\ msg' = msg
      BY <1>3, CopyOutCarries
    <2> QED BY <1>0, <2>1
  <1>4. CASE PutFree
    <2>1. PICK g \in Seq(Nodes) :
            Carries(g, b)' /\ Taken' = Taken /\ msg' = msg
      BY <1>4, PutFreeCarries
    <2> QED BY <1>0, <2>1
  <1>5. CASE LpelMailboxDestroy
    <2>1. Carries(<<>>, b)' /\ Taken' = Taken /\ msg' = msg
      BY <1>5, DestroyCarries
    <2>2. <<>> \in Seq(Nodes) BY SMTT(60)
    <2> QED BY <1>0, <2>1, <2>2
  <1> QED BY <1>1, <1>2, <1>3, <1>4, <1>5 DEF LpelMailboxRecv

(* Every step keeps the invariant and is a step of MailboxSpec, or none. *)
LEMMA MailStep ==
  ASSUME MailInv, [Next]_vars
  PROVE  MailInv' /\ [Queue!Next]_<<Contents, Taken>>
  <1>1. PICK f \in Seq(Nodes), b \in Seq(Nodes) : Carries(f, b)
    BY DEF MailInv
  <1>2. \E g, c \in Seq(Nodes) : Carries(g, c)' /\ Moves(b, c)
    <2>1. CASE \E q \in Senders : LpelMailboxSend(q)
      BY <1>1, <2>1, SendMoves
    <2>2. CASE LpelMailboxRecv \/ SpuriousWakeup \/ LpelMailboxDestroy
      BY <1>1, <2>2, ReceiveMoves
    <2>3. CASE UNCHANGED vars
      <3>0. UNCHANGED <<list_free, list_inbox, next, msg, heap, pc, node, rpc,
                        rnode, sent, got>>
        BY <2>3 DEF vars, sendvars, recvvars
      <3>1. Owns(f, b)'
        BY <1>1, <3>0, OtherOwns DEF Carries, Owns, OwnTypes
      <3>2. Taken' = Taken BY <3>0 DEF Taken
      <3>3. MsgTypes' /\ NothingLeaks'
        BY <1>1, <3>0 DEF Carries, MsgTypes, NothingLeaks
      <3>4. SentInv' BY <1>1, <3>0, SentFrame DEF Carries
      <3>5. Lossless(b)' BY <1>1, <3>0, <3>2, LosslessFrame DEF Carries
      <3>6. Carries(f, b)' BY <3>1, <3>3, <3>4, <3>5 DEF Carries
      <3>7. Moves(b, b) BY <3>0, <3>2 DEF Moves, Messages
      <3> QED BY <3>6, <3>7
    <2> QED BY <2>1, <2>2, <2>3 DEF Next, Destroyed
  <1>3. PICK g \in Seq(Nodes), c \in Seq(Nodes) : Carries(g, c)' /\ Moves(b, c)
    BY <1>2
  <1> QED BY <1>1, <1>3, MovesQueue

(* The two lists of nodes, what the threads hold and what the nodes carry, *)
(* at every point of LpelMailboxSend, LpelMailboxRecv and their owners.    *)
THEOREM MailboxInvariant == Spec => []MailInv
  <1>1. Init => MailInv BY InitMail
  <1>2. MailInv /\ [Next]_vars => MailInv' BY MailStep
  <1> QED BY <1>1, <1>2, PTL DEF Spec

(* Every allocated node is in the free list, in the inbox or in the hands  *)
(* of one thread, although LpelMailboxSend and LpelMailboxRecv link nodes  *)
(* under two locks and fill and empty them under none.                     *)
THEOREM NodesOwnedOnce == Spec => []OneOwner
  <1>1. MailInv => OneOwner
    <2> SUFFICES ASSUME MailInv PROVE OneOwner OBVIOUS
    <2>1. OwnInv BY DEF MailInv, Carries, Owns, OwnInv
    <2> QED BY <2>1, OwnedOnce
  <1> QED BY <1>1, MailboxInvariant, PTL

(* LpelMailboxDestroy, which frees the free list only, frees every node,   *)
(* and finds the inbox empty as it asserts, when all messages were         *)
(* received.                                                               *)
THEOREM NodesAllFreed == Spec => []NothingLeaks
  <1>1. MailInv => NothingLeaks BY DEF MailInv, Carries
  <1> QED BY <1>1, MailboxInvariant, PTL

(* The linked list behaves like the queue of MailboxSpec: each message is  *)
(* received once and in the order of the sends, whatever nodes carry it.   *)
(* It is the safety part of ImplementsQueue.                               *)
THEOREM MailboxIsQueue == Spec => Queue!Spec
  <1>1. Init => Queue!Init
    <2> SUFFICES ASSUME Init PROVE Queue!Init OBVIOUS
    <2>1. <<>> \in Seq(Nodes) /\ Ring(<<>>)
      BY SMTT(60) DEF Init, LpelMailboxCreate, Ring, Linked
    <2>2. Contents = Messages(<<>>) BY <2>1, ContentsIs DEF Determined
    <2>3. Messages(<<>>) = <<>> BY SMTT(60) DEF Messages
    <2>4. Taken = <<>> BY DEF Init, Taken
    <2> QED BY <2>2, <2>3, <2>4 DEF Queue!Init
  <1>2. MailInv /\ [Next]_vars => [Queue!Next]_<<Contents, Taken>> BY MailStep
  <1> QED BY <1>1, <1>2, MailboxInvariant, PTL DEF Spec, Queue!Spec
=============================================================================
