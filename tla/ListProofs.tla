----------------------------- MODULE ListProofs -----------------------------
(***************************************************************************)
(* The two lists that are linked through fields of their members.  The     *)
(* links of a task queue of any length describe the queue, whatever        *)
(* sequence of pushes, pops and removals during an iteration made it.  The *)
(* ring of a set of stream descriptors of any size goes round its members, *)
(* and an iterator comes to each of them, whatever is added and removed    *)
(* meanwhile.                                                              *)
(***************************************************************************)
EXTENDS Streamset, DecenTaskqueue, SequenceTheorems, FiniteSetTheorems,
        WellFoundedInduction, TLAPS

USE ZenonT(60), SMTT(60), SMTT(120)

(* A member is in the list once. *)
Once(q) == \A i, j \in 1 .. Len(q) : q[i] = q[j] => i = j

----------------------------------------------------------------------------
(* Sequences, by position *)

RemoveAt(q, k) == SubSeq(q, 1, k - 1) \o SubSeq(q, k + 1, Len(q))
Front(q) == SubSeq(q, 1, Len(q) - 1)

(* Push. *)
LEMMA AppendIs ==
  ASSUME NEW T, NEW q \in Seq(T), NEW t \in T
  PROVE  /\ Append(q, t) \in Seq(T)
         /\ Len(Append(q, t)) = Len(q) + 1
         /\ \A i \in 1 .. Len(q) + 1 :
              Append(q, t)[i] = IF i = Len(q) + 1 THEN t ELSE q[i]
  BY SMTT(60), SMTT(120)
(* Push to the front. *)
LEMMA PrependIs ==
  ASSUME NEW T, NEW q \in Seq(T), NEW t \in T
  PROVE  /\ <<t>> \o q \in Seq(T)
         /\ Len(<<t>> \o q) = Len(q) + 1
         /\ \A i \in 1 .. Len(q) + 1 :
              (<<t>> \o q)[i] = IF i = 1 THEN t ELSE q[i - 1]
  BY SMTT(60), SMTT(120)
(* Removal of the k-th member. *)
LEMMA RemoveIs ==
  ASSUME NEW T, NEW q \in Seq(T), NEW k \in 1 .. Len(q)
  PROVE  /\ RemoveAt(q, k) \in Seq(T)
         /\ Len(RemoveAt(q, k)) = Len(q) - 1
         /\ \A i \in 1 .. Len(q) - 1 :
              RemoveAt(q, k)[i] = IF i < k THEN q[i] ELSE q[i + 1]
  <1> DEFINE a == SubSeq(q, 1, k - 1)
             b == SubSeq(q, k + 1, Len(q))
  <1>0. Len(q) \in Nat /\ k \in Int /\ 1 <= k /\ k <= Len(q)
    BY SMTT(60), SMTT(120)
  <1>1. /\ \A i \in 1 .. k - 1 : q[i] \in T
        /\ \A i \in k + 1 .. Len(q) : q[i] \in T
    BY SMTT(60), SMTT(120), <1>0
  <1>2. /\ a \in Seq(T) /\ Len(a) = k - 1
        /\ \A i \in 1 .. k - 1 : a[i] = q[i]
    BY SMTT(60), SMTT(120), <1>0, <1>1, SubSeqProperties
  <1>3. /\ b \in Seq(T) /\ Len(b) = Len(q) - k
        /\ \A i \in 1 .. Len(q) - k : b[i] = q[k + i]
    BY SMTT(60), SMTT(120), <1>0, <1>1, SubSeqProperties
  <1> HIDE DEF a, b
  <1>4. /\ a \o b \in Seq(T) /\ Len(a \o b) = Len(a) + Len(b)
        /\ \A i \in 1 .. Len(a) + Len(b) :
             (a \o b)[i] = IF i <= Len(a) THEN a[i] ELSE b[i - Len(a)]
    BY <1>2, <1>3, ConcatProperties
  <1>5. ASSUME NEW i \in 1 .. Len(q) - 1
        PROVE  (a \o b)[i] = IF i < k THEN q[i] ELSE q[i + 1]
    <2>1. CASE i < k BY SMTT(60), SMTT(120), <1>0, <1>2, <1>3, <1>4, <2>1
    <2>2. CASE ~(i < k)
      <3>0. PICK j \in Int : j = i - (k - 1) BY SMTT(60), SMTT(120), <1>0
      <3>1. /\ j \in 1 .. Len(q) - k
            /\ j = i - Len(a) /\ k + j = i + 1
        BY SMTT(60), SMTT(120), <1>0, <1>2, <2>2, <3>0
      <3>2. i \in 1 .. Len(a) + Len(b) /\ ~(i <= Len(a))
        BY SMTT(60), SMTT(120), <1>0, <1>2, <1>3, <2>2
      <3>3. (a \o b)[i] = b[i - Len(a)] BY <1>4, <3>2
      <3>4. b[j] = q[k + j] BY <1>3, <3>1
      <3> QED BY <2>2, <3>1, <3>3, <3>4
    <2> QED BY <2>1, <2>2
  <1>6. RemoveAt(q, k) = a \o b BY DEF RemoveAt, a, b
  <1>7. Len(a) + Len(b) = Len(q) - 1 BY SMTT(60), SMTT(120), <1>0, <1>2, <1>3
  <1> QED BY <1>4, <1>5, <1>6, <1>7

(* Pop. *)
LEMMA TailIs ==
  ASSUME NEW T, NEW q \in Seq(T), Len(q) > 0
  PROVE  /\ Tail(q) \in Seq(T)
         /\ Len(Tail(q)) = Len(q) - 1
         /\ \A i \in 1 .. Len(q) - 1 : Tail(q)[i] = q[i + 1]
  BY SMTT(60), SMTT(120)
(* Pop from the back. *)
LEMMA FrontIs ==
  ASSUME NEW T, NEW q \in Seq(T), Len(q) > 0
  PROVE  /\ Front(q) \in Seq(T)
         /\ Len(Front(q)) = Len(q) - 1
         /\ \A i \in 1 .. Len(q) - 1 : Front(q)[i] = q[i]
  <1>1. Len(q) \in Nat /\ \A i \in 1 .. Len(q) - 1 : q[i] \in T
    BY SMTT(60), SMTT(120)
  <1>m. Len(q) - 1 \in Nat BY SMTT(60), SMTT(120), <1>1
  <1>n. PICK n \in Nat : n = Len(q) - 1 BY <1>m
  <1>2. /\ Front(q) \in Seq(T)
        /\ Len(Front(q)) = IF 1 <= n THEN n - 1 + 1 ELSE 0
        /\ \A i \in 1 .. n - 1 + 1 : Front(q)[i] = q[1 + i - 1]
    BY SMTT(60), SMTT(120), <1>1, <1>n, SubSeqProperties DEF Front
  <1>3. n - 1 + 1 = n /\ \A i \in 1 .. n : 1 + i - 1 = i BY SMTT(60), SMTT(120)
  <1>4. Len(Front(q)) = n
    <2>1. CASE 1 <= n BY <1>2, <1>3, <2>1
    <2>2. CASE ~(1 <= n)
      <3>1. n = 0 BY SMTT(60), SMTT(120), <2>2
      <3> QED BY <1>2, <2>2, <3>1
    <2> QED BY <2>1, <2>2
  <1>5. \A i \in 1 .. Len(q) - 1 : Front(q)[i] = q[i]
    BY <1>n, <1>2, <1>3
  <1> QED BY <1>n, <1>2, <1>4, <1>5

(* The two parts of a list. *)
LEMMA SubSeqsAre ==
  ASSUME NEW T, NEW q \in Seq(T), NEW k \in 0 .. Len(q), NEW l \in 1 .. Len(q) + 1
  PROVE  LET a == SubSeq(q, 1, k)
             b == SubSeq(q, l, Len(q))
             n == Len(q) + 1 - l
         IN  /\ a \in Seq(T) /\ Len(a) = k /\ \A i \in 1 .. k : a[i] = q[i]
             /\ b \in Seq(T) /\ Len(b) = n /\ \A i \in 1 .. n : b[i] = q[l + i - 1]
  <1> DEFINE a == SubSeq(q, 1, k)
             b == SubSeq(q, l, Len(q))
  <1>0. Len(q) \in Nat /\ k \in Int /\ l \in Int /\ 0 <= k /\ k <= Len(q)
        /\ 1 <= l /\ l <= Len(q) + 1
    BY SMTT(60), SMTT(120)
  <1>1. /\ \A i \in 1 .. k : q[i] \in T
        /\ \A i \in l .. Len(q) : q[i] \in T
    BY SMTT(60), SMTT(120), <1>0
  <1>2. a \in Seq(T) /\ Len(a) = k /\ \A i \in 1 .. k : a[i] = q[i]
    BY SMTT(60), SMTT(120), <1>0, <1>1, SubSeqProperties
  <1>3. /\ b \in Seq(T) /\ Len(b) = Len(q) + 1 - l
        /\ \A i \in 1 .. Len(q) + 1 - l : b[i] = q[l + i - 1]
    BY SMTT(60), SMTT(120), <1>0, <1>1, SubSeqProperties
  <1> QED BY <1>2, <1>3

----------------------------------------------------------------------------
(* Queues of ready tasks *)

(* Beside LinksHoldQueue: a task is in the queue once, and the iterator of *)
(* LpelTaskqueueIterateRemove is on a task of the queue.                   *)
QInv ==
  /\ tq \in Seq(Tasks)
  /\ tprev \in [Tasks -> Tasks \cup {NIL}]
  /\ tnext \in [Tasks -> Tasks \cup {NIL}]
  /\ \A i, j \in 1 .. Len(tq) : tq[i] = tq[j] => i = j
  /\ at # NIL => \E i \in 1 .. Len(tq) : tq[i] = at
  /\ LinksHoldQueue

(* A task of a sequence of tasks is a task. *)
LEMMA ItemIsTask ==
  ASSUME NEW q \in Seq(Tasks), NEW i \in 1 .. Len(q)
  PROVE  q[i] \in Tasks /\ q[i] # NIL
  BY SMTT(60), SMTT(120), TaskqueueAssumption

(* What LinksHoldQueue says, of any values. *)

LinkOf(q, i) == IF i \in 1 .. Len(q) THEN q[i] ELSE NIL

Linked(q, h, l, pv, nx) ==
  /\ h = LinkOf(q, 1) /\ l = LinkOf(q, Len(q))
  /\ \A i \in 1 .. Len(q) :
       pv[q[i]] = LinkOf(q, i - 1) /\ nx[q[i]] = LinkOf(q, i + 1)
  /\ \A t \in Tasks : (\A i \in 1 .. Len(q) : q[i] # t) =>
       pv[t] = NIL /\ nx[t] = NIL

(* The property is this, and the count. *)
LEMMA LinksAre ==
  ASSUME tq \in Seq(Tasks)
  PROVE  LinksHoldQueue <=>
           count = Len(tq) /\ Linked(tq, head, tail, tprev, tnext)
  <1>1. DOMAIN tq = 1 .. Len(tq) BY SMTT(60), SMTT(120)
  <1>2. \A i : Link(i) = LinkOf(tq, i) BY <1>1 DEF Link, LinkOf
  <1>3. \A t \in Tasks : t \notin Range(tq) <=>
                         \A i \in 1 .. Len(tq) : tq[i] # t
    BY <1>1 DEF Range
  <1>4. \A t : t \in Tasks \ Range(tq) <=> t \in Tasks /\ t \notin Range(tq)
    OBVIOUS
  <1> QED BY <1>1, <1>2, <1>3, <1>4 DEF LinksHoldQueue, Linked

(* The same of the next state. *)
LEMMA LinksAreNext ==
  ASSUME tq' \in Seq(Tasks)
  PROVE  LinksHoldQueue' <=>
           count' = Len(tq') /\ Linked(tq', head', tail', tprev', tnext')
  <1>1. DOMAIN tq' = 1 .. Len(tq') BY SMTT(60), SMTT(120)
  <1>2. \A i : Link(i)' = LinkOf(tq', i) BY <1>1 DEF Link, LinkOf
  <1>3. \A t \in Tasks : t \notin Range(tq') <=>
                         \A i \in 1 .. Len(tq') : tq'[i] # t
    BY <1>1 DEF Range
  <1>4. \A t : t \in Tasks \ Range(tq') <=> t \in Tasks /\ t \notin Range(tq')
    OBVIOUS
  <1> QED
    BY <1>1, <1>2, <1>3, <1>4
       DEF LinksHoldQueue, Link, LinkOf, Linked

(* Unlinking the k-th task. *)
Unlinks(q, k, r, h, l, pv, nx, g, m, pw, ny) ==
  /\ Len(r) = Len(q) - 1
  /\ \A i \in 1 .. Len(q) - 1 : r[i] = IF i < k THEN q[i] ELSE q[i + 1]
  /\ g = IF k = 1 THEN nx[q[k]] ELSE h
  /\ m = IF k = Len(q) THEN pv[q[k]] ELSE l
  /\ \A t \in Tasks : pw[t] = IF t = q[k] THEN NIL
                              ELSE IF t = nx[q[k]] THEN pv[q[k]] ELSE pv[t]
  /\ \A t \in Tasks : ny[t] = IF t = q[k] THEN NIL
                              ELSE IF t = pv[q[k]] THEN nx[q[k]] ELSE nx[t]

(* It leaves the links of the others. *)
LEMMA Unlink ==
  ASSUME NEW q \in Seq(Tasks), NEW r \in Seq(Tasks), NEW k \in 1 .. Len(q),
         NEW h, NEW l, NEW pv, NEW nx, NEW g, NEW m, NEW pw, NEW ny,
         Once(q), Linked(q, h, l, pv, nx),
         Unlinks(q, k, r, h, l, pv, nx, g, m, pw, ny)
  PROVE  Once(r) /\ Linked(r, g, m, pw, ny)
  <1>p. pv[q[k]] = LinkOf(q, k - 1) /\ nx[q[k]] = LinkOf(q, k + 1)
    BY DEF Linked
  <1>a. /\ Len(r) = Len(q) - 1
        /\ \A i \in 1 .. Len(q) - 1 : r[i] = IF i < k THEN q[i] ELSE q[i + 1]
    BY DEF Unlinks
  <1>b. /\ g = IF k = 1 THEN LinkOf(q, 2) ELSE h
        /\ m = IF k = Len(q) THEN LinkOf(q, k - 1) ELSE l
    <2>1. k = 1 => k + 1 = 2 BY SMTT(60), SMTT(120)
    <2> QED BY <1>p, <2>1 DEF Unlinks
  <1>c. \A t \in Tasks : pw[t] = IF t = q[k] THEN NIL
                                 ELSE IF t = LinkOf(q, k + 1)
                                      THEN LinkOf(q, k - 1) ELSE pv[t]
    BY <1>p DEF Unlinks
  <1>d. \A t \in Tasks : ny[t] = IF t = q[k] THEN NIL
                                 ELSE IF t = LinkOf(q, k - 1)
                                      THEN LinkOf(q, k + 1) ELSE nx[t]
    BY <1>p DEF Unlinks
  <1> USE <1>a, <1>b, <1>c, <1>d
  <1>0. Len(q) \in Nat /\ k \in Int /\ 1 <= k /\ k <= Len(q)
    BY SMTT(60), SMTT(120)
  <1>1. \A i \in 1 .. Len(q) : q[i] \in Tasks /\ q[i] # NIL BY ItemIsTask
  <1>2. \A i \in 1 .. Len(r) :
          \E j \in 1 .. Len(q) :
            r[i] = q[j] /\ j = IF i < k THEN i ELSE i + 1
    <2> TAKE i \in 1 .. Len(r)
    <2>1. CASE i < k BY SMTT(60), SMTT(120), <1>0, <2>1
    <2>2. CASE ~(i < k)
      <3>1. PICK j \in 1 .. Len(q) : j = i + 1 BY SMTT(60), SMTT(120), <1>0
      <3>2. r[i] = q[j] BY <1>0, <2>2, <3>1
      <3> QED BY <2>2, <3>1, <3>2
    <2> QED BY <2>1, <2>2
  <1>3. Once(r)
    <2> SUFFICES ASSUME NEW i \in 1 .. Len(r), NEW j \in 1 .. Len(r), r[i] = r[j]
                 PROVE  i = j
      BY DEF Once
    <2>1. PICK x \in 1 .. Len(q) : r[i] = q[x] /\ x = IF i < k THEN i ELSE i + 1
      BY <1>2
    <2>2. PICK y \in 1 .. Len(q) : r[j] = q[y] /\ y = IF j < k THEN j ELSE j + 1
      BY <1>2
    <2>3. q[x] = q[y] BY <2>1, <2>2
    <2>4. x = y BY <2>3 DEF Once
    <2> QED BY SMTT(60), SMTT(120), <1>0, <2>1, <2>2, <2>4
  <1>4. g = LinkOf(r, 1) /\ m = LinkOf(r, Len(r))
    BY SMTT(60), SMTT(120), <1>0 DEF Linked, LinkOf
  <1>5. ASSUME NEW i \in 1 .. Len(r)
        PROVE  ny[r[i]] = LinkOf(r, i + 1) /\ pw[r[i]] = LinkOf(r, i - 1)
    <2>1. PICK x \in 1 .. Len(q) : r[i] = q[x] /\ x = IF i < k THEN i ELSE i + 1
      BY <1>2
    <2>2. /\ q[x] \in Tasks /\ q[x] # q[k]
          /\ nx[q[x]] = LinkOf(q, x + 1) /\ pv[q[x]] = LinkOf(q, x - 1)
      <3>1. x # k BY SMTT(60), SMTT(120), <1>0, <2>1
      <3> QED BY <1>1, <3>1 DEF Once, Linked
    <2>3. q[x] = LinkOf(q, k - 1) <=> x = k - 1
      BY <1>0, <1>1 DEF Once, LinkOf
    <2>4. q[x] = LinkOf(q, k + 1) <=> x = k + 1
      BY <1>0, <1>1 DEF Once, LinkOf
    <2>5. ny[q[x]] = IF x = k - 1 THEN LinkOf(q, k + 1) ELSE LinkOf(q, x + 1)
      BY <2>2, <2>3
    <2>6. pw[q[x]] = IF x = k + 1 THEN LinkOf(q, k - 1) ELSE LinkOf(q, x - 1)
      BY <2>2, <2>4
    <2>7. LinkOf(r, i + 1) = IF i + 1 < k THEN LinkOf(q, i + 1)
                                          ELSE LinkOf(q, i + 2)
      <3>1. CASE i + 1 \in 1 .. Len(r)
        <4>1. PICK j \in 1 .. Len(r) : j = i + 1 BY <3>1
        <4>2. PICK y \in 1 .. Len(q) : r[j] = q[y] /\ y = IF j < k THEN j ELSE j + 1
          BY <1>2
        <4>3. y = IF i + 1 < k THEN i + 1 ELSE i + 2
          BY SMTT(60), SMTT(120), <4>1, <4>2
        <4> QED BY <4>1, <4>2, <4>3 DEF LinkOf
      <3>2. CASE i + 1 \notin 1 .. Len(r)
        BY SMTT(60), SMTT(120), <1>0, <3>2 DEF LinkOf
      <3> QED BY <3>1, <3>2
    <2>8. LinkOf(r, i - 1) = IF i - 1 < k THEN LinkOf(q, i - 1)
                                          ELSE LinkOf(q, i)
      <3>1. CASE i - 1 \in 1 .. Len(r)
        <4>1. PICK j \in 1 .. Len(r) : j = i - 1 BY <3>1
        <4>2. PICK y \in 1 .. Len(q) : r[j] = q[y] /\ y = IF j < k THEN j ELSE j + 1
          BY <1>2
        <4>3. y = IF i - 1 < k THEN i - 1 ELSE i
          BY SMTT(60), SMTT(120), <4>1, <4>2
        <4> QED BY <4>1, <4>2, <4>3 DEF LinkOf
      <3>2. CASE i - 1 \notin 1 .. Len(r)
        BY SMTT(60), SMTT(120), <1>0, <3>2 DEF LinkOf
      <3> QED BY <3>1, <3>2
    <2> HIDE DEF LinkOf
    <2>9. ny[r[i]] = LinkOf(r, i + 1)
      <3>1. CASE i + 1 < k BY SMTT(60), SMTT(120), <1>0, <2>1, <2>5, <2>7, <3>1
      <3>2. CASE i + 1 = k BY SMTT(60), SMTT(120), <1>0, <2>1, <2>5, <2>7, <3>2
      <3>3. CASE i + 1 > k BY SMTT(60), SMTT(120), <1>0, <2>1, <2>5, <2>7, <3>3
      <3> QED BY SMTT(60), SMTT(120), <1>0, <3>1, <3>2, <3>3
    <2>10. pw[r[i]] = LinkOf(r, i - 1)
      <3>1. CASE i < k BY SMTT(60), SMTT(120), <1>0, <2>1, <2>6, <2>8, <3>1
      <3>2. CASE i = k BY SMTT(60), SMTT(120), <1>0, <2>1, <2>6, <2>8, <3>2
      <3>3. CASE i > k BY SMTT(60), SMTT(120), <1>0, <2>1, <2>6, <2>8, <3>3
      <3> QED BY SMTT(60), SMTT(120), <1>0, <3>1, <3>2, <3>3
    <2> QED BY <2>9, <2>10
  <1>6. ASSUME NEW t \in Tasks, \A i \in 1 .. Len(r) : r[i] # t
        PROVE  pw[t] = NIL /\ ny[t] = NIL
    <2>1. CASE t = q[k] BY <2>1
    <2>2. CASE t # q[k]
      <3>1. ASSUME NEW i \in 1 .. Len(q), q[i] = t PROVE FALSE
        <4>1. CASE i < k BY SMTT(60), SMTT(120), <1>0, <1>6, <3>1, <4>1
        <4>2. CASE i > k
          <5>1. i - 1 \in 1 .. Len(r) /\ r[i - 1] = q[i]
            BY SMTT(60), SMTT(120), <1>0, <4>2
          <5> QED BY <1>6, <3>1, <5>1
        <4> QED BY SMTT(60), SMTT(120), <1>0, <2>2, <3>1, <4>1, <4>2
      <3>2. t # LinkOf(q, k + 1) /\ t # LinkOf(q, k - 1)
        BY <3>1, TaskqueueAssumption DEF LinkOf
      <3>3. pv[t] = NIL /\ nx[t] = NIL BY <3>1 DEF Linked
      <3> QED BY <2>2, <3>2, <3>3
    <2> QED BY <2>1, <2>2
  <1> QED BY <1>3, <1>4, <1>5, <1>6 DEF Linked

(* Linking a task behind the last. *)
AddsLast(q, x, r, h, l, pv, nx, g, pw, ny) ==
  /\ Len(r) = Len(q) + 1
  /\ \A i \in 1 .. Len(q) + 1 : r[i] = IF i = Len(q) + 1 THEN x ELSE q[i]
  /\ g = IF Len(q) = 0 THEN x ELSE h
  /\ \A t \in Tasks : pw[t] = IF t = x THEN l ELSE pv[t]
  /\ \A t \in Tasks : ny[t] = IF t = l THEN x ELSE nx[t]

(* It extends the links by the new task. *)
LEMMA LinkLast ==
  ASSUME NEW q \in Seq(Tasks), NEW r \in Seq(Tasks), NEW x \in Tasks,
         NEW h, NEW l, NEW pv, NEW nx, NEW g, NEW pw, NEW ny,
         Once(q), Linked(q, h, l, pv, nx), \A i \in 1 .. Len(q) : q[i] # x,
         AddsLast(q, x, r, h, l, pv, nx, g, pw, ny)
  PROVE  Once(r) /\ Linked(r, g, x, pw, ny)
  <1>p. l = LinkOf(q, Len(q)) BY DEF Linked
  <1>a. /\ Len(r) = Len(q) + 1
        /\ \A i \in 1 .. Len(q) + 1 : r[i] = IF i = Len(q) + 1 THEN x ELSE q[i]
        /\ g = IF Len(q) = 0 THEN x ELSE h
    BY DEF AddsLast
  <1>b. \A t \in Tasks : pw[t] = IF t = x THEN LinkOf(q, Len(q)) ELSE pv[t]
    BY <1>p DEF AddsLast
  <1>c. \A t \in Tasks : ny[t] = IF t = LinkOf(q, Len(q)) THEN x ELSE nx[t]
    BY <1>p DEF AddsLast
  <1> USE <1>a, <1>b, <1>c
  <1>0. Len(q) \in Nat BY SMTT(60), SMTT(120)
  <1>1. \A i \in 1 .. Len(q) : q[i] \in Tasks /\ q[i] # NIL BY ItemIsTask
  <1>2. Once(r) BY SMTT(60), SMTT(120), <1>0 DEF Once
  <1>3. g = LinkOf(r, 1) /\ x = LinkOf(r, Len(r))
    BY SMTT(60), SMTT(120), <1>0 DEF Linked, LinkOf
  <1>4. \A i \in 1 .. Len(q) : LinkOf(r, i) = q[i] /\ LinkOf(q, i) = q[i]
    BY SMTT(60), SMTT(120), <1>0 DEF LinkOf
  <1>5. nx[x] = NIL /\ pv[x] = NIL BY DEF Linked
  <1>6. x # LinkOf(q, Len(q)) BY TaskqueueAssumption DEF LinkOf
  <1>7. ASSUME NEW i \in 1 .. Len(r)
        PROVE  ny[r[i]] = LinkOf(r, i + 1) /\ pw[r[i]] = LinkOf(r, i - 1)
    <2>1. CASE i = Len(q) + 1
      <3>1. r[i] = x BY <2>1
      <3>2. ny[x] = NIL /\ pw[x] = LinkOf(q, Len(q)) BY <1>5, <1>6
      <3>3. LinkOf(r, i + 1) = NIL BY SMTT(60), SMTT(120), <1>0, <2>1 DEF LinkOf
      <3>4. LinkOf(r, i - 1) = LinkOf(q, Len(q))
        BY SMTT(60), SMTT(120), <1>0, <2>1 DEF LinkOf
      <3> QED BY <3>1, <3>2, <3>3, <3>4
    <2>2. CASE i \in 1 .. Len(q)
      <3>1. r[i] = q[i] /\ q[i] \in Tasks /\ q[i] # x
        BY SMTT(60), SMTT(120), <1>0, <1>1, <2>2
      <3>2. nx[q[i]] = LinkOf(q, i + 1) /\ pv[q[i]] = LinkOf(q, i - 1)
        BY <2>2 DEF Linked
      <3>3. q[i] = LinkOf(q, Len(q)) <=> i = Len(q)
        BY <1>0, <1>1, <2>2 DEF Once, LinkOf
      <3>4. LinkOf(r, i - 1) = LinkOf(q, i - 1)
        BY SMTT(60), SMTT(120), <1>0, <2>2 DEF LinkOf
      <3>5. LinkOf(r, i + 1) = IF i = Len(q) THEN x ELSE LinkOf(q, i + 1)
        BY SMTT(60), SMTT(120), <1>0, <2>2 DEF LinkOf
      <3> QED BY <3>1, <3>2, <3>3, <3>4, <3>5
    <2> QED BY SMTT(60), SMTT(120), <1>0, <2>1, <2>2
  <1>8. ASSUME NEW t \in Tasks, \A i \in 1 .. Len(r) : r[i] # t
        PROVE  pw[t] = NIL /\ ny[t] = NIL
    <2>1. t # x BY SMTT(60), SMTT(120), <1>0, <1>8
    <2>2. \A i \in 1 .. Len(q) : q[i] # t BY SMTT(60), SMTT(120), <1>0, <1>8
    <2>3. t # LinkOf(q, Len(q)) BY <2>2, TaskqueueAssumption DEF LinkOf
    <2>4. pv[t] = NIL /\ nx[t] = NIL BY <2>2 DEF Linked
    <2> QED BY <2>1, <2>3, <2>4
  <1> QED BY <1>2, <1>3, <1>7, <1>8 DEF Linked

(* Linking a task before the first. *)
AddsFirst(q, x, r, h, l, pv, nx, m, pw, ny) ==
  /\ Len(r) = Len(q) + 1
  /\ \A i \in 1 .. Len(q) + 1 : r[i] = IF i = 1 THEN x ELSE q[i - 1]
  /\ m = IF Len(q) = 0 THEN x ELSE l
  /\ \A t \in Tasks : ny[t] = IF t = x THEN h ELSE nx[t]
  /\ \A t \in Tasks : pw[t] = IF t = h THEN x ELSE pv[t]

(* It extends the links by the new task. *)
LEMMA LinkFirst ==
  ASSUME NEW q \in Seq(Tasks), NEW r \in Seq(Tasks), NEW x \in Tasks,
         NEW h, NEW l, NEW pv, NEW nx, NEW m, NEW pw, NEW ny,
         Once(q), Linked(q, h, l, pv, nx), \A i \in 1 .. Len(q) : q[i] # x,
         AddsFirst(q, x, r, h, l, pv, nx, m, pw, ny)
  PROVE  Once(r) /\ Linked(r, x, m, pw, ny)
  <1>p. h = LinkOf(q, 1) BY DEF Linked
  <1>a. /\ Len(r) = Len(q) + 1
        /\ \A i \in 1 .. Len(q) + 1 : r[i] = IF i = 1 THEN x ELSE q[i - 1]
        /\ m = IF Len(q) = 0 THEN x ELSE l
    BY DEF AddsFirst
  <1>b. \A t \in Tasks : ny[t] = IF t = x THEN LinkOf(q, 1) ELSE nx[t]
    BY <1>p DEF AddsFirst
  <1>c. \A t \in Tasks : pw[t] = IF t = LinkOf(q, 1) THEN x ELSE pv[t]
    BY <1>p DEF AddsFirst
  <1> USE <1>a, <1>b, <1>c
  <1>0. Len(q) \in Nat BY SMTT(60), SMTT(120)
  <1>1. \A i \in 1 .. Len(q) : q[i] \in Tasks /\ q[i] # NIL BY ItemIsTask
  <1>2. \A i \in 1 .. Len(r) : i # 1 =>
          \E j \in 1 .. Len(q) : r[i] = q[j] /\ j = i - 1
    <2> TAKE i \in 1 .. Len(r)
    <2> HAVE i # 1
    <2>1. i - 1 \in 1 .. Len(q) /\ i \in 1 .. Len(q) + 1
      BY SMTT(60), SMTT(120), <1>0
    <2>2. r[i] = q[i - 1] BY <2>1
    <2> QED BY <2>1, <2>2
  <1>3. Once(r)
    <2> SUFFICES ASSUME NEW i \in 1 .. Len(r), NEW j \in 1 .. Len(r), r[i] = r[j]
                 PROVE  i = j
      BY DEF Once
    <2>0. r[1] = x BY SMTT(60), SMTT(120), <1>0
    <2>1. CASE i # 1 /\ j # 1
      <3>1. PICK a \in 1 .. Len(q) : r[i] = q[a] /\ a = i - 1 BY <1>2, <2>1
      <3>2. PICK b \in 1 .. Len(q) : r[j] = q[b] /\ b = j - 1 BY <1>2, <2>1
      <3>3. q[a] = q[b] BY <3>1, <3>2
      <3>4. a = b BY <3>3 DEF Once
      <3> QED BY SMTT(60), SMTT(120), <1>0, <3>1, <3>2, <3>4
    <2>2. \A a \in 1 .. Len(r) : a # 1 => r[a] # x BY SMTT(60), SMTT(120), <1>2
    <2>3. i = 1 \/ j = 1 => i = j BY <2>0, <2>2
    <2> QED BY <2>1, <2>3
  <1>4. x = LinkOf(r, 1) BY SMTT(60), SMTT(120), <1>0 DEF LinkOf
  <1>5. ASSUME NEW i \in Int, i # 1 PROVE LinkOf(r, i) = LinkOf(q, i - 1)
    <2>1. CASE i \in 1 .. Len(r)
      <3>1. PICK j \in 1 .. Len(q) : r[i] = q[j] /\ j = i - 1
        BY <1>2, <1>5, <2>1
      <3> QED BY <2>1, <3>1 DEF LinkOf
    <2>2. CASE i \notin 1 .. Len(r)
      <3>1. i - 1 \notin 1 .. Len(q) BY SMTT(60), SMTT(120), <1>0, <1>5, <2>2
      <3> QED BY <2>2, <3>1 DEF LinkOf
    <2> QED BY <2>1, <2>2
  <1>6. m = LinkOf(r, Len(r))
    <2>1. CASE Len(q) = 0 BY SMTT(60), SMTT(120), <1>4, <2>1
    <2>2. CASE Len(q) # 0
      <3>1. Len(r) \in Int /\ Len(r) # 1 /\ Len(r) - 1 = Len(q)
        BY SMTT(60), SMTT(120), <1>0, <2>2
      <3>2. LinkOf(r, Len(r)) = LinkOf(q, Len(q)) BY <1>5, <3>1
      <3> QED BY <2>2, <3>2 DEF Linked
    <2> QED BY <2>1, <2>2
  <1>7. nx[x] = NIL /\ pv[x] = NIL /\ x # LinkOf(q, 1)
    BY TaskqueueAssumption DEF Linked, LinkOf
  <1>8. ASSUME NEW i \in 1 .. Len(r)
        PROVE  ny[r[i]] = LinkOf(r, i + 1) /\ pw[r[i]] = LinkOf(r, i - 1)
    <2>1. CASE i = 1
      <3>1. r[1] = x BY <1>4, <2>1, <1>8 DEF LinkOf
      <3>2. ny[x] = LinkOf(q, 1) /\ pw[x] = NIL BY <1>7
      <3>3. LinkOf(r, 2) = LinkOf(q, 2 - 1) BY SMTT(60), SMTT(120), <1>5
      <3>4. LinkOf(r, 0) = NIL BY SMTT(60), SMTT(120), <1>0 DEF LinkOf
      <3>5. 2 - 1 = 1 /\ i + 1 = 2 /\ i - 1 = 0 BY SMTT(60), SMTT(120), <2>1
      <3> QED BY <2>1, <3>1, <3>2, <3>3, <3>4, <3>5
    <2>2. CASE i # 1
      <3>1. PICK j \in 1 .. Len(q) : r[i] = q[j] /\ j = i - 1 BY <1>2, <2>2
      <3>2. q[j] \in Tasks /\ q[j] # x BY <1>1
      <3>3. nx[q[j]] = LinkOf(q, j + 1) /\ pv[q[j]] = LinkOf(q, j - 1)
        BY DEF Linked
      <3>4. q[j] = LinkOf(q, 1) <=> j = 1
        BY <1>0, <1>1 DEF Once, LinkOf
      <3>5. LinkOf(r, i + 1) = LinkOf(q, j + 1)
        <4>1. i + 1 \in Int /\ i + 1 # 1 /\ (i + 1) - 1 = j + 1
          BY SMTT(60), SMTT(120), <1>0, <3>1
        <4> QED BY <1>5, <4>1
      <3>6. LinkOf(r, i - 1) = IF j = 1 THEN x ELSE LinkOf(q, j - 1)
        <4>1. i - 1 = j /\ j \in Int BY SMTT(60), SMTT(120), <3>1
        <4> QED BY <1>4, <1>5, <4>1
      <3>7. ny[q[j]] = nx[q[j]] BY <3>2
      <3>8. pw[q[j]] = IF j = 1 THEN x ELSE pv[q[j]] BY <3>2, <3>4
      <3> QED BY <3>1, <3>3, <3>5, <3>6, <3>7, <3>8
    <2> QED BY <2>1, <2>2
  <1>9. ASSUME NEW t \in Tasks, \A i \in 1 .. Len(r) : r[i] # t
        PROVE  pw[t] = NIL /\ ny[t] = NIL
    <2>1. t # x BY SMTT(60), SMTT(120), <1>0, <1>9
    <2>2. ASSUME NEW j \in 1 .. Len(q) PROVE q[j] # t
      <3>1. /\ j + 1 \in 1 .. Len(r) /\ j + 1 \in 1 .. Len(q) + 1
            /\ j + 1 # 1 /\ (j + 1) - 1 = j
        BY SMTT(60), SMTT(120), <1>0
      <3>2. r[j + 1] = q[j] BY <3>1
      <3> QED BY <1>9, <3>1, <3>2
    <2>3. t # LinkOf(q, 1) BY <2>2, TaskqueueAssumption DEF LinkOf
    <2>4. pv[t] = NIL /\ nx[t] = NIL BY <2>2 DEF Linked
    <2> QED BY <2>1, <2>3, <2>4
  <1> QED BY <1>3, <1>4, <1>6, <1>8, <1>9 DEF Linked

----------------------------------------------------------------------------
(* The steps. *)

(* What the invariant says of the ends. *)
LEMMA Ends ==
  ASSUME QInv
  PROVE  /\ Len(tq) \in Nat /\ count = Len(tq)
         /\ Once(tq) /\ Linked(tq, head, tail, tprev, tnext)
         /\ head = LinkOf(tq, 1) /\ tail = LinkOf(tq, Len(tq))
         /\ head = NIL <=> Len(tq) = 0
         /\ tail = NIL <=> Len(tq) = 0
         /\ head \in Tasks \cup {NIL} /\ tail \in Tasks \cup {NIL}
  <1>1. tq \in Seq(Tasks) /\ Len(tq) \in Nat BY SMTT(60), SMTT(120) DEF QInv
  <1>2. count = Len(tq) /\ Linked(tq, head, tail, tprev, tnext)
    BY <1>1, LinksAre DEF QInv
  <1>3. Once(tq) BY DEF QInv, Once
  <1>4. \A i \in 1 .. Len(tq) : tq[i] \in Tasks /\ tq[i] # NIL
    BY <1>1, ItemIsTask
  <1>5. head = LinkOf(tq, 1) /\ tail = LinkOf(tq, Len(tq)) BY <1>2 DEF Linked
  <1>6. (head = NIL <=> Len(tq) = 0) /\ (tail = NIL <=> Len(tq) = 0)
    BY SMTT(60), SMTT(120), <1>1, <1>4, <1>5 DEF LinkOf
  <1>7. head \in Tasks \cup {NIL} /\ tail \in Tasks \cup {NIL}
    BY <1>4, <1>5 DEF LinkOf
  <1> QED BY <1>1, <1>2, <1>3, <1>5, <1>6, <1>7

(* What it says of the neighbours of the k-th task. *)
LEMMA Around ==
  ASSUME QInv, NEW k \in 1 .. Len(tq)
  PROVE  /\ tq[k] \in Tasks
         /\ tprev[tq[k]] = LinkOf(tq, k - 1) /\ tnext[tq[k]] = LinkOf(tq, k + 1)
         /\ tprev[tq[k]] = NIL <=> k = 1
         /\ tnext[tq[k]] = NIL <=> k = Len(tq)
         /\ tprev[tq[k]] \in Tasks \cup {NIL} /\ tnext[tq[k]] \in Tasks \cup {NIL}
  <1>1. tq \in Seq(Tasks) /\ Len(tq) \in Nat BY SMTT(60), SMTT(120) DEF QInv
  <1>2. \A i \in 1 .. Len(tq) : tq[i] \in Tasks /\ tq[i] # NIL
    BY <1>1, ItemIsTask
  <1>3. tprev[tq[k]] = LinkOf(tq, k - 1) /\ tnext[tq[k]] = LinkOf(tq, k + 1)
    BY Ends DEF Linked
  <1>4. LinkOf(tq, k - 1) = NIL <=> k = 1
    BY SMTT(60), SMTT(120), <1>1, <1>2 DEF LinkOf
  <1>5. LinkOf(tq, k + 1) = NIL <=> k = Len(tq)
    BY SMTT(60), SMTT(120), <1>1, <1>2 DEF LinkOf
  <1>6. LinkOf(tq, k - 1) \in Tasks \cup {NIL} /\ LinkOf(tq, k + 1) \in Tasks \cup {NIL}
    BY <1>2 DEF LinkOf
  <1> QED BY <1>2, <1>3, <1>4, <1>5, <1>6

(* The invariant of the next state, from its parts. *)
LEMMA Again ==
  ASSUME tq' \in Seq(Tasks), count' = Len(tq'),
         tprev' \in [Tasks -> Tasks \cup {NIL}],
         tnext' \in [Tasks -> Tasks \cup {NIL}],
         at' # NIL => \E i \in 1 .. Len(tq') : tq'[i] = at',
         Once(tq') /\ Linked(tq', head', tail', tprev', tnext')
  PROVE  QInv'
  <1>1. LinksHoldQueue' BY LinksAreNext
  <1> QED BY <1>1 DEF QInv, Once

(* The empty queue. *)
LEMMA InitQInv == LpelTaskqueueInit => QInv
  <1> SUFFICES ASSUME LpelTaskqueueInit PROVE QInv OBVIOUS
  <1>1. tq \in Seq(Tasks) /\ Len(tq) = 0
    BY SMTT(60), SMTT(120) DEF LpelTaskqueueInit
  <1>2. 1 .. Len(tq) = {} BY SMTT(60), SMTT(120), <1>1
  <1>3. Linked(tq, head, tail, tprev, tnext)
    BY <1>2 DEF Linked, LinkOf, LpelTaskqueueInit
  <1>4. LinksHoldQueue BY <1>1, <1>3, LinksAre DEF LpelTaskqueueInit
  <1> QED BY <1>1, <1>2, <1>4 DEF QInv, LpelTaskqueueInit

(* Push. *)
LEMMA PushQInv ==
  ASSUME QInv, NEW t \in Tasks, LpelTaskqueuePush(t) PROVE QInv'
  <1>0. tq \in Seq(Tasks) /\ tprev \in [Tasks -> Tasks \cup {NIL}]
        /\ tnext \in [Tasks -> Tasks \cup {NIL}] BY DEF QInv
  <1>1. /\ at' = NIL /\ count' = count + 1 /\ tail' = t /\ tq' = Append(tq, t)
        /\ t \notin Range(tq)
    BY DEF LpelTaskqueuePush
  <1>2. \A i \in 1 .. Len(tq) : tq[i] # t
    <2>1. DOMAIN tq = 1 .. Len(tq) BY SMTT(60), SMTT(120), <1>0
    <2> QED BY <1>1, <2>1 DEF Range
  <1>3. /\ tq' \in Seq(Tasks) /\ Len(tq') = Len(tq) + 1
        /\ \A i \in 1 .. Len(tq) + 1 :
             tq'[i] = IF i = Len(tq) + 1 THEN t ELSE tq[i]
    BY SMTT(60), SMTT(120), <1>0, <1>1, AppendIs
  <1>4. tprev[t] = NIL /\ t # tail /\ NIL \notin Tasks
    BY <1>2, Ends, TaskqueueAssumption DEF Linked, LinkOf
  <1>5. /\ head' = IF Len(tq) = 0 THEN t ELSE head
        /\ tprev' \in [Tasks -> Tasks \cup {NIL}]
        /\ tnext' \in [Tasks -> Tasks \cup {NIL}]
        /\ \A u \in Tasks : tprev'[u] = IF u = t THEN tail ELSE tprev[u]
        /\ \A u \in Tasks : tnext'[u] = IF u = tail THEN t ELSE tnext[u]
    <2>1. CASE head = NIL BY <1>0, <1>4, <2>1, Ends DEF LpelTaskqueuePush
    <2>2. CASE head # NIL BY <1>0, <1>4, <2>2, Ends DEF LpelTaskqueuePush
    <2> QED BY <2>1, <2>2
  <1>6. Once(tq') /\ Linked(tq', head', tail', tprev', tnext')
    <2>1. AddsLast(tq, t, tq', head, tail, tprev, tnext, head', tprev', tnext')
      BY <1>3, <1>5 DEF AddsLast
    <2>2. Once(tq) /\ Linked(tq, head, tail, tprev, tnext) BY Ends
    <2> QED BY <1>0, <1>1, <1>2, <1>3, <2>1, <2>2, LinkLast
  <1> QED BY <1>1, <1>3, <1>5, <1>6, Ends, Again

(* Push to the front. *)
LEMMA PushFrontQInv ==
  ASSUME QInv, NEW t \in Tasks, LpelTaskqueuePushFront(t) PROVE QInv'
  <1>0. tq \in Seq(Tasks) /\ tprev \in [Tasks -> Tasks \cup {NIL}]
        /\ tnext \in [Tasks -> Tasks \cup {NIL}] BY DEF QInv
  <1>1. /\ at' = NIL /\ count' = count + 1 /\ head' = t /\ tq' = <<t>> \o tq
        /\ t \notin Range(tq)
    BY DEF LpelTaskqueuePushFront
  <1>2. \A i \in 1 .. Len(tq) : tq[i] # t
    <2>1. DOMAIN tq = 1 .. Len(tq) BY SMTT(60), SMTT(120), <1>0
    <2> QED BY <1>1, <2>1 DEF Range
  <1>3. /\ tq' \in Seq(Tasks) /\ Len(tq') = Len(tq) + 1
        /\ \A i \in 1 .. Len(tq) + 1 : tq'[i] = IF i = 1 THEN t ELSE tq[i - 1]
    BY SMTT(60), SMTT(120), <1>0, <1>1, PrependIs
  <1>4. tnext[t] = NIL /\ t # head /\ NIL \notin Tasks
    BY <1>2, Ends, TaskqueueAssumption DEF Linked, LinkOf
  <1>5. /\ tail' = IF Len(tq) = 0 THEN t ELSE tail
        /\ tprev' \in [Tasks -> Tasks \cup {NIL}]
        /\ tnext' \in [Tasks -> Tasks \cup {NIL}]
        /\ \A u \in Tasks : tnext'[u] = IF u = t THEN head ELSE tnext[u]
        /\ \A u \in Tasks : tprev'[u] = IF u = head THEN t ELSE tprev[u]
    <2>1. CASE tail = NIL BY <1>0, <1>4, <2>1, Ends DEF LpelTaskqueuePushFront
    <2>2. CASE tail # NIL
      BY <1>0, <1>4, <2>2, Ends DEF LpelTaskqueuePushFront
    <2> QED BY <2>1, <2>2
  <1>6. Once(tq') /\ Linked(tq', head', tail', tprev', tnext')
    <2>1. AddsFirst(tq, t, tq', head, tail, tprev, tnext, tail', tprev', tnext')
      BY <1>3, <1>5 DEF AddsFirst
    <2>2. Once(tq) /\ Linked(tq, head, tail, tprev, tnext) BY Ends
    <2> QED BY <1>0, <1>1, <1>2, <1>3, <2>1, <2>2, LinkFirst
  <1> QED BY <1>1, <1>3, <1>5, <1>6, Ends, Again

(* Pop: the first is unlinked. *)
LEMMA PopQInv == ASSUME QInv, LpelTaskqueuePop PROVE QInv'
  <1>0. tq \in Seq(Tasks) /\ tprev \in [Tasks -> Tasks \cup {NIL}]
        /\ tnext \in [Tasks -> Tasks \cup {NIL}] BY DEF QInv
  <1>1. at' = NIL /\ count' = count - 1 /\ tq' = Tail(tq) /\ head # NIL
        /\ head' = tnext[head]
    BY DEF LpelTaskqueuePop
  <1>2. Len(tq) > 0 /\ 1 \in 1 .. Len(tq) BY SMTT(60), SMTT(120), <1>1, Ends
  <1>3. head = tq[1] /\ LinkOf(tq, 0) = NIL /\ 1 - 1 = 0 /\ 1 + 1 = 2
    BY SMTT(60), SMTT(120), <1>2, Ends DEF LinkOf
  <1>4. /\ tq' \in Seq(Tasks) /\ Len(tq') = Len(tq) - 1
        /\ \A i \in 1 .. Len(tq) - 1 : tq'[i] = IF i < 1 THEN tq[i] ELSE tq[i + 1]
    <2>1. \A i \in 1 .. Len(tq) - 1 : ~(i < 1)
      BY SMTT(60), SMTT(120), <1>2, Ends
    <2> QED BY <1>0, <1>1, <1>2, <2>1, TailIs
  <1>5. /\ head \in Tasks /\ tprev[head] = NIL /\ tnext[head] = LinkOf(tq, 2)
        /\ tnext[head] = NIL <=> 1 = Len(tq)
        /\ tnext[head] \in Tasks \cup {NIL} /\ NIL \notin Tasks
    BY <1>2, <1>3, Around, TaskqueueAssumption
  <1>6. /\ tail' = IF 1 = Len(tq) THEN NIL ELSE tail
        /\ tprev' \in [Tasks -> Tasks \cup {NIL}]
        /\ tnext' \in [Tasks -> Tasks \cup {NIL}]
        /\ \A u \in Tasks : tprev'[u] = IF u = head THEN NIL
                                        ELSE IF u = tnext[head] THEN NIL ELSE tprev[u]
        /\ \A u \in Tasks : tnext'[u] = IF u = head THEN NIL ELSE tnext[u]
    <2>1. CASE tnext[head] = NIL BY <1>0, <1>5, <2>1 DEF LpelTaskqueuePop
    <2>2. CASE tnext[head] # NIL
      BY SMTT(60), SMTT(120), <1>0, <1>5, <2>2 DEF LpelTaskqueuePop
    <2> QED BY <2>1, <2>2
  <1>7. Once(tq') /\ Linked(tq', head', tail', tprev', tnext')
    <2>1. Unlinks(tq, 1, tq', head, tail, tprev, tnext, head', tail', tprev', tnext')
      BY SMTT(60), SMTT(120), <1>1, <1>3, <1>4, <1>5, <1>6 DEF Unlinks
    <2>2. Once(tq) /\ Linked(tq, head, tail, tprev, tnext) BY Ends
    <2> QED BY <1>0, <1>2, <1>4, <2>1, <2>2, Unlink
  <1> QED BY <1>1, <1>4, <1>6, <1>7, Ends, Again

(* Pop from the back: the last is unlinked. *)
LEMMA PopBackQInv == ASSUME QInv, LpelTaskqueuePopBack PROVE QInv'
  <1>0. tq \in Seq(Tasks) /\ tprev \in [Tasks -> Tasks \cup {NIL}]
        /\ tnext \in [Tasks -> Tasks \cup {NIL}] BY DEF QInv
  <1>1. at' = NIL /\ count' = count - 1 /\ tq' = Front(tq) /\ tail # NIL
        /\ tail' = tprev[tail]
    BY DEF LpelTaskqueuePopBack, Front
  <1> DEFINE k == Len(tq)
  <1>2. Len(tq) > 0 /\ k \in 1 .. Len(tq) BY SMTT(60), SMTT(120), <1>1, Ends
  <1>3. tail = tq[k] /\ LinkOf(tq, k + 1) = NIL
    BY SMTT(60), SMTT(120), <1>2, Ends DEF LinkOf
  <1>4. /\ tq' \in Seq(Tasks) /\ Len(tq') = Len(tq) - 1
        /\ \A i \in 1 .. Len(tq) - 1 : tq'[i] = IF i < k THEN tq[i] ELSE tq[i + 1]
    <2>1. \A i \in 1 .. Len(tq) - 1 : i < k BY SMTT(60), SMTT(120), <1>2, Ends
    <2> QED BY <1>0, <1>1, <1>2, <2>1, FrontIs
  <1>5. /\ tail \in Tasks /\ tnext[tail] = NIL /\ tprev[tail] = LinkOf(tq, k - 1)
        /\ tprev[tail] = NIL <=> k = 1
        /\ tprev[tail] \in Tasks \cup {NIL} /\ NIL \notin Tasks
    BY <1>2, <1>3, Around, TaskqueueAssumption
  <1>6. /\ head' = IF k = 1 THEN NIL ELSE head
        /\ tprev' \in [Tasks -> Tasks \cup {NIL}]
        /\ tnext' \in [Tasks -> Tasks \cup {NIL}]
        /\ \A u \in Tasks : tnext'[u] = IF u = tail THEN NIL
                                        ELSE IF u = tprev[tail] THEN NIL ELSE tnext[u]
        /\ \A u \in Tasks : tprev'[u] = IF u = tail THEN NIL ELSE tprev[u]
    <2>1. CASE tprev[tail] = NIL BY <1>0, <1>5, <2>1 DEF LpelTaskqueuePopBack
    <2>2. CASE tprev[tail] # NIL
      BY SMTT(60), SMTT(120), <1>0, <1>5, <2>2 DEF LpelTaskqueuePopBack
    <2> QED BY <2>1, <2>2
  <1>7. Once(tq') /\ Linked(tq', head', tail', tprev', tnext')
    <2>1. Unlinks(tq, k, tq', head, tail, tprev, tnext, head', tail', tprev', tnext')
      BY <1>1, <1>3, <1>4, <1>5, <1>6 DEF Unlinks
    <2>2. Once(tq) /\ Linked(tq, head, tail, tprev, tnext) BY Ends
    <2> QED BY <1>0, <1>2, <1>4, <2>1, <2>2, Unlink
  <1> QED BY <1>1, <1>4, <1>6, <1>7, Ends, Again

(* A round of LpelTaskqueueIterateRemove that keeps the task, or the first. *)
LEMMA IterateQInv == ASSUME QInv, IterateStart \/ IterateKeep PROVE QInv'
  <1>1. UNCHANGED <<head, tail, count, tprev, tnext, tq>>
    BY DEF IterateStart, IterateKeep
  <1>2. at' # NIL => \E i \in 1 .. Len(tq) : tq[i] = at'
    <2>1. CASE IterateStart
      BY <2>1, Ends DEF IterateStart, LinkOf
    <2>2. CASE IterateKeep
      <3>1. PICK k \in 1 .. Len(tq) : tq[k] = at
        BY <2>2 DEF QInv, IterateKeep
      <3>2. at' = LinkOf(tq, k + 1) BY <2>2, <3>1, Around DEF IterateKeep
      <3> QED BY <3>2 DEF LinkOf
    <2> QED BY <2>1, <2>2
  <1> QED BY <1>1, <1>2, Ends, Again DEF QInv

(* A round that removes the task. *)
LEMMA RemoveQInv == ASSUME QInv, IterateRemove PROVE QInv'
  <1>0. tq \in Seq(Tasks) /\ tprev \in [Tasks -> Tasks \cup {NIL}]
        /\ tnext \in [Tasks -> Tasks \cup {NIL}] BY DEF QInv
  <1>1. PICK k \in 1 .. Len(tq) : tq[k] = at /\ k = Place(at)
    <2>1. DOMAIN tq = 1 .. Len(tq) BY SMTT(60), SMTT(120), <1>0
    <2>2. \E i \in 1 .. Len(tq) : tq[i] = at BY DEF QInv, IterateRemove
    <2> QED BY <2>1, <2>2 DEF Place
  <1>2. /\ tq' \in Seq(Tasks) /\ Len(tq') = Len(tq) - 1
        /\ \A i \in 1 .. Len(tq) - 1 : tq'[i] = IF i < k THEN tq[i] ELSE tq[i + 1]
    <2>1. tq' = RemoveAt(tq, k) BY <1>1 DEF IterateRemove, Others, RemoveAt
    <2> QED BY <1>0, <2>1, RemoveIs
  <1>3. /\ at \in Tasks /\ tnext[at] = LinkOf(tq, k + 1)
        /\ tprev[at] = NIL <=> k = 1
        /\ tnext[at] = NIL <=> k = Len(tq)
        /\ tprev[at] \in Tasks \cup {NIL} /\ tnext[at] \in Tasks \cup {NIL}
    BY <1>1, Around
  <1>4. /\ head' = IF k = 1 THEN tnext[at] ELSE head
        /\ tail' = IF k = Len(tq) THEN tprev[at] ELSE tail
        /\ tprev' \in [Tasks -> Tasks \cup {NIL}]
        /\ tnext' \in [Tasks -> Tasks \cup {NIL}]
        /\ \A u \in Tasks : tprev'[u] = IF u = at THEN NIL
                                        ELSE IF u = tnext[at] THEN tprev[at] ELSE tprev[u]
        /\ \A u \in Tasks : tnext'[u] = IF u = at THEN NIL
                                        ELSE IF u = tprev[at] THEN tnext[at] ELSE tnext[u]
        /\ at' = tnext[at] /\ count' = count - 1
    BY <1>0, <1>3 DEF IterateRemove
  <1>5. Once(tq') /\ Linked(tq', head', tail', tprev', tnext')
    <2>1. Unlinks(tq, k, tq', head, tail, tprev, tnext, head', tail', tprev', tnext')
      BY <1>1, <1>2, <1>4 DEF Unlinks
    <2>2. Once(tq) /\ Linked(tq, head, tail, tprev, tnext) BY Ends
    <2> QED BY <1>0, <1>2, <2>1, <2>2, Unlink
  <1>6. at' # NIL => \E i \in 1 .. Len(tq') : tq'[i] = at'
    <2> HAVE at' # NIL
    <2>1. k + 1 \in 1 .. Len(tq) /\ at' = tq[k + 1] BY <1>3, <1>4 DEF LinkOf
    <2>2. k \in 1 .. Len(tq) - 1 /\ ~(k < k) BY SMTT(60), SMTT(120), <1>0, <2>1
    <2>3. tq'[k] = tq[k + 1] BY <1>2, <2>2
    <2> QED BY <1>2, <2>1, <2>2, <2>3
  <1>7. count' = Len(tq') BY <1>2, <1>4, Ends
  <1> QED BY <1>2, <1>4, <1>5, <1>6, <1>7, Again

(* Every step keeps the invariant. *)
LEMMA NextQInv == ASSUME QInv, [TaskqueueNext]_queuevars PROVE QInv'
  <1>1. CASE \E t \in Tasks : LpelTaskqueuePush(t) \/ LpelTaskqueuePushFront(t)
    BY <1>1, PushQInv, PushFrontQInv
  <1>2. CASE UNCHANGED queuevars
    BY <1>2, Ends, Again DEF QInv, queuevars
  <1> QED BY <1>1, <1>2, PopQInv, PopBackQInv, IterateQInv, RemoveQInv
          DEF TaskqueueNext

(* Whatever pushes, pops and removals a worker performs on a queue of      *)
(* decen_taskqueue.c, of any number of tasks, the links in both            *)
(* directions, the ends and the count are those of the queue, and a task   *)
(* outside it has no links.                                                *)
THEOREM QueueLinks == TaskqueueSpec => []LinksHoldQueue
  <1>1. LpelTaskqueueInit => QInv BY InitQInv
  <1>2. QInv /\ [TaskqueueNext]_queuevars => QInv' BY NextQInv
  <1>3. QInv => LinksHoldQueue BY DEF QInv
  <1> QED BY <1>1, <1>2, <1>3, PTL DEF TaskqueueSpec

----------------------------------------------------------------------------
(* Sets of stream descriptors *)

(* What RingHoldsSet says, of any values. *)
Ring(q, nx, s) ==
  /\ s = IF Len(q) = 0 THEN NULL ELSE q[Len(q)]
  /\ \A i \in 1 .. Len(q) : nx[q[i]] = IF i = Len(q) THEN q[1] ELSE q[i + 1]

(* An iterator has td before it and the other members of q behind it.  If  *)
(* it has a current member (now), that is the last of these, and pv is the *)
(* one before in the ring.  After LpelStreamIterRemove it stands behind    *)
(* the member before the removed one, or at the start.                     *)
Iter(q, td, c, pv, now) ==
  LET n == Len(q)
      m == Len(q) - Len(td)
  IN  /\ m >= 0
      /\ \A j \in 1 .. Len(td) : td[j] = q[m + j]
      /\ now => /\ m >= 1 /\ c = q[m]
                /\ pv = IF m = 1 THEN q[n] ELSE q[m - 1]
      /\ ~now /\ n > 0 => IF m = 0 THEN c = NULL /\ pv = q[n] ELSE c = q[m]

(* The inductive invariant of streamset.c: a descriptor is in the set      *)
(* once, the ring, and where the iterator is.                              *)
SInv ==
  /\ elems \in Seq(Descs) /\ Once(elems)
  /\ next \in [Descs -> Descs \cup {NULL}]
  /\ Ring(elems, next, set)
  /\ iterating => todo \in Seq(Descs) /\ Iter(elems, todo, cur, prev, current)

(* A member of a list of descriptors is a descriptor. *)
LEMMA ItemIsDesc ==
  ASSUME NEW q \in Seq(Descs), NEW i \in 1 .. Len(q)
  PROVE  q[i] \in Descs /\ q[i] # NULL
  BY SMTT(60), SMTT(120), StreamsetAssumption

(* The descriptor in a position is the one found there. *)
LEMMA IndexIs ==
  ASSUME NEW q \in Seq(Descs), Once(q), NEW k \in 1 .. Len(q)
  PROVE  Index(q, q[k]) = k
  <1>1. DOMAIN q = 1 .. Len(q) BY SMTT(60), SMTT(120)
  <1>2. Index(q, q[k]) \in 1 .. Len(q) /\ q[Index(q, q[k])] = q[k]
    BY <1>1 DEF Index
  <1> QED BY <1>2 DEF Once

(* r is q with a new last member d. *)
Extends(q, r, d) ==
  /\ \A i \in 1 .. Len(q) : q[i] # d
  /\ Len(r) = Len(q) + 1
  /\ \A i \in 1 .. Len(q) + 1 : r[i] = IF i = Len(q) + 1 THEN d ELSE q[i]

(* The links ny are the links nx of a ring with last member s, and d behind it. *)
Links(nx, ny, s, d) ==
  \A e \in Descs : ny[e] = IF e = d THEN IF s = NULL THEN d ELSE nx[s]
                           ELSE IF e = s THEN d ELSE nx[e]

(* Linking d behind the last member of the ring. *)
LEMMA RingAppend ==
  ASSUME NEW q \in Seq(Descs), NEW r \in Seq(Descs), NEW d \in Descs,
         NEW nx, NEW ny, NEW s,
         Once(q), Ring(q, nx, s), Extends(q, r, d), Links(nx, ny, s, d)
  PROVE  Once(r) /\ Ring(r, ny, d)
  <1> USE DEF Extends, Links
  <1>0. Len(q) \in Nat BY SMTT(60), SMTT(120)
  <1>1. \A i \in 1 .. Len(q) : q[i] \in Descs /\ q[i] # NULL BY ItemIsDesc
  <1>2. Once(r) BY SMTT(60), SMTT(120), <1>0 DEF Once
  <1>3. d = IF Len(r) = 0 THEN NULL ELSE r[Len(r)] BY SMTT(60), SMTT(120), <1>0
  <1>4. ASSUME NEW i \in 1 .. Len(r)
        PROVE  ny[r[i]] = IF i = Len(r) THEN r[1] ELSE r[i + 1]
    <2>1. CASE Len(q) = 0
      <3>1. s = NULL /\ i = 1 /\ r[1] = d /\ Len(r) = 1
        BY SMTT(60), SMTT(120), <2>1 DEF Ring
      <3> QED BY <3>1
    <2>2. CASE Len(q) > 0
      <3>1. /\ s = q[Len(q)] /\ s # NULL /\ s \in Descs /\ r[1] = q[1]
            /\ nx[s] = q[1] /\ d # s
        BY SMTT(60), SMTT(120), <1>0, <1>1, <2>2 DEF Ring
      <3>2. CASE i = Len(r) BY <1>0, <3>1, <3>2
      <3>3. CASE i = Len(q)
        <4>1. r[i] = s /\ r[i + 1] = d /\ i # Len(r)
          BY SMTT(60), SMTT(120), <1>0, <2>2, <3>1, <3>3
        <4> QED BY <3>1, <4>1
      <3>4. CASE i < Len(q)
        <4>1. /\ i \in 1 .. Len(q) /\ i # Len(q) /\ Len(q) \in 1 .. Len(q)
              /\ r[i] = q[i] /\ r[i + 1] = q[i + 1] /\ i # Len(r)
          BY SMTT(60), SMTT(120), <1>0, <2>2, <3>4
        <4>2. q[i] # s /\ q[i] # d /\ q[i] \in Descs
          BY <1>1, <3>1, <4>1 DEF Once
        <4>3. nx[q[i]] = q[i + 1] BY <4>1 DEF Ring
        <4> QED BY <4>1, <4>2, <4>3
      <3> QED BY SMTT(60), SMTT(120), <1>0, <3>2, <3>3, <3>4
    <2> QED BY SMTT(60), SMTT(120), <1>0, <2>1, <2>2
  <1> QED BY <1>2, <1>3, <1>4 DEF Ring

(* Unlinking the k-th of several members, of which p is the one before. *)
LEMMA RingRemove ==
  ASSUME NEW q \in Seq(Descs), NEW r \in Seq(Descs), NEW k \in 1 .. Len(q),
         NEW nx, NEW ny, NEW s, NEW t, NEW p,
         Once(q), Ring(q, nx, s), Len(q) > 1,
         p = IF k = 1 THEN q[Len(q)] ELSE q[k - 1],
         Len(r) = Len(q) - 1,
         \A i \in 1 .. Len(q) - 1 : r[i] = IF i < k THEN q[i] ELSE q[i + 1],
         t = IF s = q[k] THEN p ELSE s,
         \A e \in Descs : ny[e] = IF e = q[k] THEN NULL
                                  ELSE IF e = p THEN nx[q[k]] ELSE nx[e]
  PROVE  Once(r) /\ Ring(r, ny, t)
  <1>0. PICK n \in Nat : n = Len(q) /\ n > 1 /\ k \in 1 .. n
    BY SMTT(60), SMTT(120)
  <1>1. \A i \in 1 .. n : q[i] \in Descs /\ q[i] # NULL BY <1>0, ItemIsDesc
  <1>2. \A i \in 1 .. n - 1 : \E x \in 1 .. n :
          x = (IF i < k THEN i ELSE i + 1) /\ x # k /\ r[i] = q[x]
    <2> TAKE i \in 1 .. n - 1
    <2>1. CASE i < k BY SMTT(60), SMTT(120), <1>0, <2>1
    <2>2. CASE ~(i < k) BY SMTT(60), SMTT(120), <1>0, <2>2
    <2> QED BY <2>1, <2>2
  <1>3. Once(r)
    <2> SUFFICES ASSUME NEW i \in 1 .. Len(r), NEW j \in 1 .. Len(r), r[i] = r[j]
                 PROVE  i = j
      BY DEF Once
    <2>0. i \in 1 .. n - 1 /\ j \in 1 .. n - 1 BY <1>0
    <2>1. PICK x \in 1 .. n : x = (IF i < k THEN i ELSE i + 1) /\ r[i] = q[x]
      BY <1>2, <2>0
    <2>2. PICK y \in 1 .. n : y = (IF j < k THEN j ELSE j + 1) /\ r[j] = q[y]
      BY <1>2, <2>0
    <2>3. x = y BY <1>0, <2>1, <2>2 DEF Once
    <2> QED BY SMTT(60), SMTT(120), <1>0, <2>0, <2>1, <2>2, <2>3
  <1>4. PICK b \in 1 .. n : b = (IF k = 1 THEN n ELSE k - 1) /\ p = q[b] /\ b # k
    BY SMTT(60), SMTT(120), <1>0
  <1>5. s = q[n] BY SMTT(60), SMTT(120), <1>0 DEF Ring
  <1>6. t = r[n - 1]
    <2>1. CASE k = n
      <3>1. s = q[k] /\ n - 1 \in 1 .. n - 1 /\ n - 1 < k /\ p = q[n - 1]
        BY SMTT(60), SMTT(120), <1>0, <1>5, <2>1
      <3> QED BY <1>0, <3>1
    <2>2. CASE k < n
      <3>1. n \in 1 .. n /\ n # k BY SMTT(60), SMTT(120), <1>0, <2>2
      <3>2. s # q[k] BY <1>0, <1>5, <3>1 DEF Once
      <3>3. r[n - 1] = q[n] BY SMTT(60), SMTT(120), <1>0, <2>2
      <3> QED BY <1>5, <3>2, <3>3
    <2> QED BY SMTT(60), SMTT(120), <1>0, <2>1, <2>2
  <1>7. ASSUME NEW i \in 1 .. n - 1
        PROVE  ny[r[i]] = IF i = n - 1 THEN r[1] ELSE r[i + 1]
    <2>1. PICK x \in 1 .. n : x = (IF i < k THEN i ELSE i + 1) /\ x # k /\ r[i] = q[x]
      BY <1>2
    <2>2. q[x] \in Descs /\ q[x] # q[k] /\ (q[x] = p <=> x = b)
      BY SMTT(60), SMTT(120), <1>0, <1>1, <1>4, <2>1 DEF Once
    <2>3. ny[r[i]] = IF x = b THEN nx[q[k]] ELSE nx[q[x]] BY <2>1, <2>2
    <2>4. /\ nx[q[k]] = IF k = n THEN q[1] ELSE q[k + 1]
          /\ nx[q[x]] = IF x = n THEN q[1] ELSE q[x + 1]
      BY <1>0 DEF Ring
    <2>5. r[1] = IF k = 1 THEN q[2] ELSE q[1] BY SMTT(60), SMTT(120), <1>0
    <2>6. i < n - 1 => r[i + 1] = IF i + 1 < k THEN q[i + 1] ELSE q[i + 2]
      BY SMTT(60), SMTT(120), <1>0
    <2>7. CASE x = b
      <3>1. CASE k = 1
        <4>1. x = n /\ i = n - 1 /\ k # n
          BY SMTT(60), SMTT(120), <1>0, <1>4, <2>1, <2>7, <3>1
        <4> QED BY SMTT(60), SMTT(120), <2>3, <2>4, <2>5, <2>7, <3>1, <4>1
      <3>2. CASE k > 1
        <4>1. x = k - 1 /\ i = k - 1
          BY SMTT(60), SMTT(120), <1>0, <1>4, <2>1, <2>7, <3>2
        <4>2. CASE k = n
          BY SMTT(60), SMTT(120), <1>0, <2>3, <2>4, <2>5, <2>7, <3>2, <4>1, <4>2
        <4>3. CASE k < n
          <5>1. i < n - 1 /\ ~(i + 1 < k) /\ i + 2 = k + 1
            BY SMTT(60), SMTT(120), <1>0, <4>1, <4>3
          <5> QED
            BY SMTT(60), SMTT(120), <1>0, <2>3, <2>4, <2>6, <2>7, <4>3, <5>1
        <4> QED BY SMTT(60), SMTT(120), <1>0, <4>2, <4>3
      <3> QED BY SMTT(60), SMTT(120), <1>0, <3>1, <3>2
    <2>8. CASE x # b
      <3>1. CASE i < k
        <4>1. x = i /\ i + 1 < k /\ i < n - 1
          BY SMTT(60), SMTT(120), <1>0, <1>4, <2>1, <2>8, <3>1
        <4> QED BY SMTT(60), SMTT(120), <1>0, <2>3, <2>4, <2>6, <2>8, <4>1
      <3>2. CASE ~(i < k)
        <4>1. x = i + 1 BY <2>1, <3>2
        <4>2. CASE i = n - 1
          <5>1. x = n /\ k # 1
            BY SMTT(60), SMTT(120), <1>0, <1>4, <2>8, <4>1, <4>2
          <5> QED BY <2>3, <2>4, <2>5, <2>8, <4>2, <5>1
        <4>3. CASE i < n - 1
          <5>1. x # n /\ x + 1 = i + 2 /\ ~(i + 1 < k)
            BY SMTT(60), SMTT(120), <1>0, <3>2, <4>1, <4>3
          <5> QED
            BY SMTT(60), SMTT(120), <1>0, <2>3, <2>4, <2>6, <2>8, <4>3, <5>1
        <4> QED BY SMTT(60), SMTT(120), <1>0, <4>2, <4>3
      <3> QED BY <3>1, <3>2
    <2> QED BY <2>7, <2>8
  <1> QED BY SMTT(60), SMTT(120), <1>0, <1>3, <1>6, <1>7 DEF Ring

(* A ring that is entered at another member. *)
LEMMA RingRotate ==
  ASSUME NEW q \in Seq(Descs), NEW r \in Seq(Descs), NEW k \in 1 .. Len(q),
         NEW nx, NEW s, Once(q), Ring(q, nx, s), Len(r) = Len(q),
         \A i \in 1 .. Len(q) : r[i] = IF i <= Len(q) - k THEN q[k + i]
                                       ELSE q[i - (Len(q) - k)]
  PROVE  Once(r) /\ Ring(r, nx, q[k])
  <1>0. PICK n \in Nat : n = Len(q) /\ n > 0 /\ k \in 1 .. n
    BY SMTT(60), SMTT(120)
  <1>1. \A i \in 1 .. n : \E x \in 1 .. n :
          x = (IF i <= n - k THEN k + i ELSE i - (n - k)) /\ r[i] = q[x]
    <2> TAKE i \in 1 .. n
    <2>1. CASE i <= n - k
      <3>1. k + i \in 1 .. n /\ i <= Len(q) - k
        BY SMTT(60), SMTT(120), <1>0, <2>1
      <3>2. r[i] = q[k + i] BY <1>0, <3>1
      <3> QED BY <2>1, <3>1, <3>2
    <2>2. CASE ~(i <= n - k)
      <3>1. i - (n - k) \in 1 .. n /\ ~(i <= Len(q) - k)
        BY SMTT(60), SMTT(120), <1>0, <2>2
      <3>2. r[i] = q[i - (n - k)] BY <1>0, <3>1
      <3> QED BY <2>2, <3>1, <3>2
    <2> QED BY <2>1, <2>2
  <1>2. Once(r)
    <2> SUFFICES ASSUME NEW i \in 1 .. Len(r), NEW j \in 1 .. Len(r), r[i] = r[j]
                 PROVE  i = j
      BY DEF Once
    <2>0. i \in 1 .. n /\ j \in 1 .. n BY <1>0
    <2>1. PICK x \in 1 .. n : /\ x = (IF i <= n - k THEN k + i ELSE i - (n - k))
                              /\ r[i] = q[x]
      BY <1>1, <2>0
    <2>2. PICK y \in 1 .. n : /\ y = (IF j <= n - k THEN k + j ELSE j - (n - k))
                              /\ r[j] = q[y]
      BY <1>1, <2>0
    <2>3. x = y BY <1>0, <2>1, <2>2 DEF Once
    <2> QED BY SMTT(60), SMTT(120), <1>0, <2>0, <2>1, <2>2, <2>3
  <1>3. q[k] = r[n]
    <2>1. n \in 1 .. Len(q) /\ ~(n <= Len(q) - k) /\ n - (Len(q) - k) = k
      BY SMTT(60), SMTT(120), <1>0
    <2> QED BY <2>1
  <1>4. ASSUME NEW i \in 1 .. n
        PROVE  nx[r[i]] = IF i = n THEN r[1] ELSE r[i + 1]
    <2>1. PICK x \in 1 .. n : /\ x = (IF i <= n - k THEN k + i ELSE i - (n - k))
                              /\ r[i] = q[x]
      BY <1>1
    <2>2. nx[q[x]] = IF x = n THEN q[1] ELSE q[x + 1] BY <1>0 DEF Ring
    <2>3. r[1] = IF k = n THEN q[1] ELSE q[k + 1] BY SMTT(60), SMTT(120), <1>0
    <2>4. i < n => r[i + 1] = IF i + 1 <= n - k THEN q[k + i + 1]
                              ELSE q[i + 1 - (n - k)]
      BY SMTT(60), SMTT(120), <1>0
    <2>5. CASE i = n
      <3>1. x = k BY SMTT(60), SMTT(120), <1>0, <2>1, <2>5
      <3> QED BY <2>1, <2>2, <2>3, <2>5, <3>1
    <2>6. CASE i < n /\ i < n - k
      <3>1. x = k + i /\ x # n /\ i + 1 <= n - k /\ x + 1 = k + i + 1
        BY SMTT(60), SMTT(120), <1>0, <2>1, <2>6
      <3> QED BY SMTT(60), SMTT(120), <2>1, <2>2, <2>4, <2>6, <3>1
    <2>7. CASE i < n /\ i = n - k
      <3>1. x = n /\ ~(i + 1 <= n - k) /\ i + 1 - (n - k) = 1
        BY SMTT(60), SMTT(120), <1>0, <2>1, <2>7
      <3> QED BY SMTT(60), SMTT(120), <2>1, <2>2, <2>4, <2>7, <3>1
    <2>8. CASE i < n /\ i > n - k
      <3>1. /\ x = i - (n - k) /\ x # n /\ ~(i + 1 <= n - k)
            /\ i + 1 - (n - k) = x + 1
        BY SMTT(60), SMTT(120), <1>0, <2>1, <2>8
      <3> QED BY SMTT(60), SMTT(120), <2>1, <2>2, <2>4, <2>8, <3>1
    <2> QED BY SMTT(60), SMTT(120), <1>0, <2>5, <2>6, <2>7, <2>8
  <1> QED BY SMTT(60), SMTT(120), <1>0, <1>2, <1>3, <1>4 DEF Ring

(* The order of the natural numbers. *)
Below == {ss \in Nat \X Nat : ss[1] < ss[2]}

(* The loop of LpelStreamsetRemove: it comes to the members in order, and  *)
(* ends at d in the position of d.                                         *)
LEMMA RoundIs ==
  ASSUME NEW q \in Seq(Descs), Ring(q, next, set), Len(q) > 0, NEW d \in Descs,
         NEW k \in Nat, k > 0, NEW w \in [0 .. k -> Descs], Round(d, k, w),
         w[k] = d
  PROVE  /\ k \in 1 .. Len(q) /\ q[k] = d
         /\ w[k - 1] = IF k = 1 THEN q[Len(q)] ELSE q[k - 1]
  <1>0. PICK n \in Nat : n = Len(q) /\ n > 0 BY SMTT(60), SMTT(120)
  <1>1. /\ w[0] = q[n] /\ set = q[n]
        /\ \A j \in 1 .. k : w[j] = next[w[j - 1]]
        /\ \A j \in 1 .. k - 1 : w[j] # q[n]
    BY SMTT(60), SMTT(120), <1>0 DEF Round, Ring
  <1>2. \A i \in 1 .. n : next[q[i]] = IF i = n THEN q[1] ELSE q[i + 1]
    BY <1>0 DEF Ring
  <1> DEFINE Bad == {j \in 1 .. k : ~(j \in 1 .. n /\ w[j] = q[j])}
  <1>3. ASSUME Bad # {} PROVE FALSE
    <2>1. IsWellFoundedOn(Below, Nat)
      BY NatLessThanWellFounded DEF OpToRel, Below
    <2>2. Bad \in SUBSET Nat BY SMTT(60), SMTT(120)
    <2> HIDE DEF Bad
    <2>3. PICK x \in Bad : \A y \in Bad : ~(<<y, x>> \in Below)
      BY <1>3, <2>1, <2>2, WFMin
    <2>4. x \in 1 .. k /\ ~(x \in 1 .. n /\ w[x] = q[x]) BY <2>3 DEF Bad
    <2>5. CASE x = 1
      <3>1. w[1] = next[q[n]] BY SMTT(60), SMTT(120), <1>1, <2>4, <2>5
      <3>2. next[q[n]] = q[1] BY SMTT(60), SMTT(120), <1>0, <1>2
      <3> QED BY SMTT(60), SMTT(120), <1>0, <2>4, <2>5, <3>1, <3>2
    <2>6. CASE x > 1
      <3>1. PICK y \in Nat : y = x - 1 /\ y \in 1 .. k - 1 /\ y \in 1 .. k
        BY SMTT(60), SMTT(120), <2>4, <2>6
      <3>2. <<y, x>> \in Below BY SMTT(60), SMTT(120), <2>4, <3>1 DEF Below
      <3>3. y \in 1 .. n /\ w[y] = q[y] BY <2>3, <3>1, <3>2 DEF Bad
      <3>4. w[y] # q[n] BY <1>1, <3>1
      <3>5. y # n BY <3>3, <3>4
      <3>6. w[x] = next[q[y]] BY <1>1, <2>4, <3>1, <3>3
      <3>7. next[q[y]] = q[y + 1] BY <1>2, <3>3, <3>5
      <3>8. x = y + 1 /\ x \in 1 .. n
        BY SMTT(60), SMTT(120), <1>0, <2>4, <3>1, <3>3, <3>5
      <3> QED BY <2>4, <3>6, <3>7, <3>8
    <2> QED BY SMTT(60), SMTT(120), <2>4, <2>5, <2>6
  <1>4. \A j \in 1 .. k : j \in 1 .. n /\ w[j] = q[j] BY <1>3
  <1> HIDE DEF Bad
  <1>5. k \in 1 .. k /\ (k > 1 => k - 1 \in 1 .. k) BY SMTT(60), SMTT(120), <1>0
  <1>6. CASE k = 1 BY SMTT(60), SMTT(120), <1>0, <1>1, <1>4, <1>5, <1>6
  <1>7. CASE k > 1 BY SMTT(60), SMTT(120), <1>0, <1>4, <1>5, <1>7
  <1> QED BY SMTT(60), SMTT(120), <1>6, <1>7

----------------------------------------------------------------------------
(* Where the iterator is *)

(* A member appended while iterating is still to come. *)
LEMMA IterAppend ==
  ASSUME NEW q \in Seq(Descs), NEW r \in Seq(Descs), NEW td \in Seq(Descs),
         NEW te \in Seq(Descs), NEW d \in Descs, NEW c, NEW pv, NEW pw,
         NEW now \in BOOLEAN,
         Once(q), Iter(q, td, c, pv, now), \A i \in 1 .. Len(q) : q[i] # d,
         Len(q) > 0, Len(r) = Len(q) + 1,
         \A i \in 1 .. Len(q) + 1 : r[i] = IF i = Len(q) + 1 THEN d ELSE q[i],
         Len(te) = Len(td) + 1,
         \A i \in 1 .. Len(td) + 1 : te[i] = IF i = Len(td) + 1 THEN d ELSE td[i],
         pw = IF pv = q[Len(q)] THEN d ELSE IF pv = c THEN d ELSE pv
  PROVE  Iter(r, te, c, pw, now)
  <1>0. PICK n \in Nat, l \in Nat, m \in Int :
          n = Len(q) /\ l = Len(td) /\ m = n - l /\ n > 0
    BY SMTT(60), SMTT(120)
  <1>1. m >= 0 /\ Len(r) - Len(te) = m /\ Len(r) = n + 1 /\ Len(te) = l + 1
    BY SMTT(60), SMTT(120), <1>0 DEF Iter
  <1>2. \A j \in 1 .. l : td[j] = q[m + j] BY <1>0 DEF Iter
  <1>3. \A j \in 1 .. l + 1 : te[j] = r[m + j]
    <2> TAKE j \in 1 .. l + 1
    <2>1. CASE j = l + 1 BY SMTT(60), SMTT(120), <1>0, <1>1, <2>1
    <2>2. CASE j \in 1 .. l
      <3>1. m + j \in 1 .. n /\ m + j # n + 1
        BY SMTT(60), SMTT(120), <1>0, <1>1, <2>2
      <3> QED BY SMTT(60), SMTT(120), <1>0, <1>1, <1>2, <2>2, <3>1
    <2> QED BY SMTT(60), SMTT(120), <1>0, <2>1, <2>2
  <1>4. \A i \in 1 .. n : r[i] = q[i] BY SMTT(60), SMTT(120), <1>0
  <1>5. r[n + 1] = d BY SMTT(60), SMTT(120), <1>0
  <1>6. ASSUME now
        PROVE  /\ m >= 1 /\ c = r[m]
               /\ pw = IF m = 1 THEN r[n + 1] ELSE r[m - 1]
    <2>1. m >= 1 /\ c = q[m] /\ pv = IF m = 1 THEN q[n] ELSE q[m - 1]
      BY <1>0, <1>6 DEF Iter
    <2>2. m \in 1 .. n /\ (m # 1 => m - 1 \in 1 .. n /\ m - 1 # n)
      BY SMTT(60), SMTT(120), <1>0, <1>1, <2>1
    <2>3. CASE m = 1 BY <1>0, <1>4, <1>5, <2>1, <2>2, <2>3
    <2>4. CASE m # 1
      <3>1. n \in 1 .. n /\ m - 1 # m BY SMTT(60), SMTT(120), <1>0, <2>2
      <3>2. q[m - 1] # q[n] /\ q[m - 1] # q[m]
        BY <1>0, <2>2, <2>4, <3>1 DEF Once
      <3> QED BY <1>0, <1>4, <2>1, <2>2, <2>4, <3>2
    <2> QED BY <2>3, <2>4
  <1>7. ASSUME ~now
        PROVE  IF m = 0 THEN c = NULL /\ pw = r[n + 1] ELSE c = r[m]
    <2>1. IF m = 0 THEN c = NULL /\ pv = q[n] ELSE c = q[m]
      BY <1>0, <1>7 DEF Iter
    <2>2. CASE m = 0 BY <1>0, <1>5, <2>1, <2>2
    <2>3. CASE m # 0
      <3>1. m \in 1 .. n BY SMTT(60), SMTT(120), <1>0, <1>1, <2>3
      <3> QED BY <1>4, <2>1, <2>3, <3>1
    <2> QED BY <2>2, <2>3
  <1> QED BY <1>1, <1>3, <1>6, <1>7 DEF Iter

(* Removing the current member, of several. *)
LEMMA IterRemove ==
  ASSUME NEW q \in Seq(Descs), NEW r \in Seq(Descs), NEW td \in Seq(Descs),
         NEW c, NEW pv, NEW e, NEW k \in 1 .. Len(q),
         Once(q), Iter(q, td, c, pv, TRUE), k = Len(q) - Len(td), Len(q) > 1,
         Len(r) = Len(q) - 1,
         \A i \in 1 .. Len(q) - 1 : r[i] = IF i < k THEN q[i] ELSE q[i + 1],
         e = IF q[Len(q)] = pv THEN NULL ELSE pv
  PROVE  Iter(r, td, e, pv, FALSE)
  <1>0. PICK n \in Nat, l \in Nat :
          n = Len(q) /\ l = Len(td) /\ k = n - l /\ n > 1 /\ k \in 1 .. n
    BY SMTT(60), SMTT(120)
  <1>1. Len(r) = n - 1 /\ Len(r) - Len(td) = k - 1 /\ k - 1 >= 0
    BY SMTT(60), SMTT(120), <1>0
  <1>2. \A j \in 1 .. l : td[j] = r[k - 1 + j]
    <2> TAKE j \in 1 .. l
    <2>1. td[j] = q[k + j] BY <1>0 DEF Iter
    <2>2. k - 1 + j \in 1 .. n - 1 /\ ~(k - 1 + j < k) /\ k - 1 + j + 1 = k + j
      BY SMTT(60), SMTT(120), <1>0
    <2> QED BY <1>0, <2>1, <2>2
  <1>3. pv = IF k = 1 THEN q[n] ELSE q[k - 1] BY <1>0 DEF Iter
  <1>4. CASE k = 1
    <2>1. e = NULL /\ pv = q[n] BY <1>0, <1>3, <1>4
    <2>2. r[n - 1] = q[n] BY SMTT(60), SMTT(120), <1>0, <1>4
    <2> QED BY SMTT(60), SMTT(120), <1>0, <1>1, <1>2, <1>4, <2>1, <2>2 DEF Iter
  <1>5. CASE k # 1
    <2>1. k - 1 \in 1 .. n /\ n \in 1 .. n /\ k - 1 # n /\ k - 1 # 0 /\ k - 1 < k
          /\ k - 1 \in 1 .. n - 1
      BY SMTT(60), SMTT(120), <1>0, <1>5
    <2>2. q[k - 1] # q[n] BY <1>0, <2>1 DEF Once
    <2>3. e = q[k - 1] BY <1>0, <1>3, <1>5, <2>2
    <2>4. r[k - 1] = q[k - 1] BY <1>0, <2>1
    <2> QED BY <1>0, <1>1, <1>2, <2>1, <2>3, <2>4 DEF Iter
  <1> QED BY <1>4, <1>5

----------------------------------------------------------------------------
(* The operations *)

(* A descriptor is added at the end. *)
LEMMA PutKeeps ==
  ASSUME SInv, NEW d \in Descs, LpelStreamsetPut(d)
  PROVE  SInv'
  <1>0. /\ elems \in Seq(Descs) /\ Once(elems) /\ Ring(elems, next, set)
        /\ next \in [Descs -> Descs \cup {NULL}]
    BY DEF SInv
  <1>1. /\ elems' = Append(elems, d) /\ set' = d /\ d \notin Range(elems)
        /\ ~iterating /\ iterating' = iterating
        /\ next' = IF set = NULL THEN [next EXCEPT ![d] = d]
                   ELSE [next EXCEPT ![d] = next[set], ![set] = d]
    BY DEF LpelStreamsetPut, itervars
  <1>2. \A i \in 1 .. Len(elems) : elems[i] # d
    <2>1. DOMAIN elems = 1 .. Len(elems) BY SMTT(60), SMTT(120), <1>0
    <2> QED BY <1>1, <2>1 DEF Range
  <1>3. /\ elems' \in Seq(Descs) /\ Len(elems') = Len(elems) + 1
        /\ \A i \in 1 .. Len(elems) + 1 :
             elems'[i] = IF i = Len(elems) + 1 THEN d ELSE elems[i]
    BY SMTT(60), SMTT(120), <1>0, <1>1, AppendIs
  <1>4. set = NULL \/ (set \in Descs /\ set # d)
    <2>1. CASE Len(elems) = 0 BY <1>0, <2>1 DEF Ring
    <2>2. CASE Len(elems) # 0
      <3>1. Len(elems) \in 1 .. Len(elems) BY SMTT(60), SMTT(120), <1>0, <2>2
      <3>2. set = elems[Len(elems)] BY <1>0, <2>2 DEF Ring
      <3> QED BY <1>0, <1>2, <3>1, <3>2, ItemIsDesc
    <2> QED BY <2>1, <2>2
  <1>5. next' \in [Descs -> Descs \cup {NULL}] BY <1>0, <1>1, <1>4
  <1>6. \A e \in Descs : next'[e] = IF e = d THEN IF set = NULL THEN d ELSE next[set]
                                    ELSE IF e = set THEN d ELSE next[e]
    BY <1>0, <1>1, <1>4, StreamsetAssumption
  <1>7. Once(elems') /\ Ring(elems', next', set')
    <2>1. set' = d BY <1>1
    <2>2. PICK q, r, nx, ny, s : /\ q = elems /\ r = elems' /\ nx = next
                                 /\ ny = next' /\ s = set
      OBVIOUS
    <2>3. q \in Seq(Descs) /\ r \in Seq(Descs) /\ Once(q) /\ Ring(q, nx, s)
      BY <1>0, <1>3, <2>2
    <2>4. Extends(q, r, d) BY <1>2, <1>3, <2>2 DEF Extends
    <2>5. Links(nx, ny, s, d) BY <1>6, <2>2 DEF Links
    <2>6. Once(r) /\ Ring(r, ny, d) BY <2>3, <2>4, <2>5, RingAppend
    <2> QED BY <2>1, <2>2, <2>6
  <1> QED BY <1>1, <1>3, <1>5, <1>7 DEF SInv, Once, Ring

(* A descriptor is found in a round of the ring, and unlinked. *)
LEMMA RemoveKeeps ==
  ASSUME SInv, NEW d \in Descs, LpelStreamsetRemove(d)
  PROVE  SInv'
  <1>0. /\ elems \in Seq(Descs) /\ Once(elems) /\ Ring(elems, next, set)
        /\ next \in [Descs -> Descs \cup {NULL}] /\ Len(elems) \in Nat
    BY SMTT(60), SMTT(120) DEF SInv
  <1> DEFINE Found(k, w) ==
        /\ Round(d, k, w) /\ w[k] = d
        /\ IF w[k - 1] = d THEN set' = NULL /\ next' = next
           ELSE /\ next' = [next EXCEPT ![w[k - 1]] = next[d], ![d] = NULL]
                /\ set' = IF set = d THEN w[k - 1] ELSE set
  <1>a. PICK k \in 1 .. Cardinality(Descs) : \E w \in [0 .. k -> Descs] : Found(k, w)
    BY DEF LpelStreamsetRemove
  <1>1. PICK w \in [0 .. k -> Descs] : Found(k, w) BY <1>a
  <1>2. /\ ~iterating /\ iterating' = iterating /\ set # NULL
        /\ elems' = Without(elems, d)
    BY DEF LpelStreamsetRemove, itervars
  <1>3. Len(elems) > 0 BY SMTT(60), SMTT(120), <1>0, <1>2 DEF Ring
  <1>4. Cardinality(Descs) \in Nat BY StreamsetAssumption, FS_CardinalityType
  <1>5. k \in Nat /\ k > 0 BY SMTT(60), SMTT(120), <1>4
  <1>6. /\ k \in 1 .. Len(elems) /\ elems[k] = d
        /\ w[k - 1] = IF k = 1 THEN elems[Len(elems)] ELSE elems[k - 1]
    <2>1. Round(d, k, w) /\ w[k] = d BY <1>1
    <2> HIDE DEF Found
    <2> QED BY SMTT(60), SMTT(120), <1>0, <1>3, <1>5, <2>1, RoundIs
  <1>7. elems' = RemoveAt(elems, k)
    BY <1>0, <1>2, <1>6, IndexIs DEF Without, RemoveAt
  <1>8. /\ elems' \in Seq(Descs) /\ Len(elems') = Len(elems) - 1
        /\ \A i \in 1 .. Len(elems) - 1 :
             elems'[i] = IF i < k THEN elems[i] ELSE elems[i + 1]
    BY <1>0, <1>6, <1>7, RemoveIs
  <1>9. Once(elems') /\ Ring(elems', next', set')
        /\ next' \in [Descs -> Descs \cup {NULL}]
    <2>1. CASE Len(elems) = 1
      <3>1. k = 1 /\ w[k - 1] = d BY SMTT(60), SMTT(120), <1>6, <2>1
      <3>2. Len(elems') = 0 /\ set' = NULL /\ next' = next
        BY SMTT(60), SMTT(120), <1>1, <1>8, <2>1, <3>1
      <3> QED BY SMTT(60), SMTT(120), <1>0, <3>2 DEF Once, Ring
    <2>2. CASE Len(elems) > 1
      <3> DEFINE b == IF k = 1 THEN Len(elems) ELSE k - 1
      <3>1. b \in 1 .. Len(elems) /\ b # k /\ w[k - 1] = elems[b]
        BY SMTT(60), SMTT(120), <1>0, <1>6, <2>2
      <3> HIDE DEF b
      <3>2. w[k - 1] # d /\ w[k - 1] \in Descs
        BY <1>0, <1>6, <3>1, ItemIsDesc DEF Once
      <3>3. /\ next' = [next EXCEPT ![w[k - 1]] = next[d], ![d] = NULL]
            /\ set' = IF set = elems[k] THEN w[k - 1] ELSE set
        BY <1>1, <1>6, <3>2
      <3>4. \A e \in Descs : next'[e] = IF e = elems[k] THEN NULL
                               ELSE IF e = w[k - 1] THEN next[elems[k]] ELSE next[e]
        BY <1>0, <1>6, <3>2, <3>3
      <3>5. next' \in [Descs -> Descs \cup {NULL}] BY <1>0, <3>2, <3>3
      <3>6. set' = IF set = elems[k] THEN w[k - 1] ELSE set BY <3>3
      <3>7. Once(elems') /\ Ring(elems', next', set')
        BY SMTT(60), SMTT(120), <1>0, <1>6, <1>8, <2>2, <3>4, <3>6, RingRemove
      <3> QED BY <3>5, <3>7
    <2>3. Len(elems) = 1 \/ Len(elems) > 1 BY SMTT(60), SMTT(120), <1>0, <1>3
    <2> QED BY <2>1, <2>2, <2>3
  <1> QED BY <1>2, <1>8, <1>9 DEF SInv, Once, Ring

(* The handle is moved to the descriptor that LpelStreamPoll returns. *)
LEMMA PollKeeps ==
  ASSUME SInv, NEW d \in Descs, Poll(d)
  PROVE  SInv'
  <1>0. /\ elems \in Seq(Descs) /\ Once(elems) /\ Ring(elems, next, set)
        /\ next \in [Descs -> Descs \cup {NULL}]
    BY DEF SInv
  <1>1. /\ ~iterating /\ iterating' = iterating /\ next' = next /\ set' = d
        /\ d \in Range(elems)
        /\ elems' = SubSeq(elems, Index(elems, d) + 1, Len(elems))
                    \o SubSeq(elems, 1, Index(elems, d))
    BY DEF Poll, itervars
  <1>2. PICK k \in 1 .. Len(elems) : elems[k] = d
    <2>1. DOMAIN elems = 1 .. Len(elems) BY SMTT(60), SMTT(120), <1>0
    <2> QED BY <1>1, <2>1 DEF Range
  <1>3. Index(elems, d) = k BY <1>0, <1>2, IndexIs
  <1>4. PICK n \in Nat : n = Len(elems) /\ k \in 1 .. n
    BY SMTT(60), SMTT(120), <1>0
  <1>5. PICK a, b : a = SubSeq(elems, 1, k) /\ b = SubSeq(elems, k + 1, n) OBVIOUS
  <1>6. /\ a \in Seq(Descs) /\ Len(a) = k /\ \A i \in 1 .. k : a[i] = elems[i]
        /\ b \in Seq(Descs) /\ Len(b) = n - k
        /\ \A i \in 1 .. n - k : b[i] = elems[k + i]
    <2>1. k \in 0 .. Len(elems) /\ k + 1 \in 1 .. Len(elems) + 1
      BY SMTT(60), SMTT(120), <1>4
    <2>2. \A i \in 1 .. n - k : k + 1 + i - 1 = k + i
      BY SMTT(60), SMTT(120), <1>4
    <2>3. n + 1 - (k + 1) = n - k BY SMTT(60), SMTT(120), <1>4
    <2>4. /\ a \in Seq(Descs) /\ Len(a) = k /\ \A i \in 1 .. k : a[i] = elems[i]
          /\ b \in Seq(Descs) /\ Len(b) = Len(elems) + 1 - (k + 1)
          /\ \A i \in 1 .. Len(elems) + 1 - (k + 1) : b[i] = elems[k + 1 + i - 1]
      BY SMTT(60), SMTT(120), <1>0, <1>4, <1>5, <2>1, SubSeqsAre
    <2> QED BY SMTT(60), SMTT(120), <1>4, <2>2, <2>3, <2>4
  <1>7. elems' = b \o a BY <1>1, <1>3, <1>4, <1>5
  <1>8. /\ elems' \in Seq(Descs) /\ Len(elems') = Len(b) + Len(a)
        /\ \A i \in 1 .. Len(b) + Len(a) :
             elems'[i] = IF i <= Len(b) THEN b[i] ELSE a[i - Len(b)]
    BY <1>6, <1>7, ConcatProperties
  <1>9. Len(elems') = n BY SMTT(60), SMTT(120), <1>4, <1>6, <1>8
  <1>10. ASSUME NEW i \in 1 .. n
         PROVE  elems'[i] = IF i <= n - k THEN elems[k + i] ELSE elems[i - (n - k)]
    <2>1. CASE i <= n - k
      <3>1. i \in 1 .. n - k /\ i \in 1 .. Len(b) + Len(a) /\ i <= Len(b)
        BY SMTT(60), SMTT(120), <1>4, <1>6, <2>1
      <3> QED BY <1>6, <1>8, <2>1, <3>1
    <2>2. CASE ~(i <= n - k)
      <3>1. /\ i - (n - k) \in 1 .. k /\ i \in 1 .. Len(b) + Len(a)
            /\ ~(i <= Len(b)) /\ i - Len(b) = i - (n - k)
        BY SMTT(60), SMTT(120), <1>4, <1>6, <2>2
      <3> QED BY <1>6, <1>8, <2>2, <3>1
    <2> QED BY <2>1, <2>2
  <1>11. Once(elems') /\ Ring(elems', next, d)
    BY <1>0, <1>2, <1>4, <1>8, <1>9, <1>10, RingRotate
  <1> QED BY <1>0, <1>1, <1>8, <1>11 DEF SInv, Once, Ring

(* An iterator starts. *)
LEMMA ResetKeeps ==
  ASSUME SInv, LpelStreamIterReset
  PROVE  SInv'
  <1>0. /\ elems \in Seq(Descs) /\ Once(elems) /\ Ring(elems, next, set)
        /\ next \in [Descs -> Descs \cup {NULL}] /\ Len(elems) \in Nat
    BY SMTT(60), SMTT(120) DEF SInv
  <1>1. /\ prev' = set /\ cur' = NULL /\ iterating' /\ ~current' /\ todo' = elems
        /\ next' = next /\ set' = set /\ elems' = elems
    BY DEF LpelStreamIterReset
  <1>2. Len(elems) > 0 => set = elems[Len(elems)]
    BY SMTT(60), SMTT(120), <1>0 DEF Ring
  <1>3. Iter(elems, elems, NULL, set, FALSE)
    BY SMTT(60), SMTT(120), <1>0, <1>2 DEF Iter
  <1>4. Iter(elems', todo', cur', prev', current') BY <1>1, <1>3 DEF Iter
  <1>5. Once(elems') /\ Ring(elems', next', set') BY <1>0, <1>1 DEF Once, Ring
  <1> QED BY <1>0, <1>1, <1>4, <1>5 DEF SInv, Once, Ring, Iter

(* An iterator ends. *)
LEMMA DestroyKeeps ==
  ASSUME SInv, LpelStreamIterDestroy
  PROVE  SInv'
  BY DEF SInv, LpelStreamIterDestroy, Once, Ring, Iter

(* What the position of the iterator says of the next member. *)
LEMMA AtIterator ==
  ASSUME NEW q \in Seq(Descs), NEW td \in Seq(Descs), NEW c, NEW pv,
         NEW now \in BOOLEAN, NEW nx, NEW s,
         Once(q), Ring(q, nx, s), Iter(q, td, c, pv, now)
  PROVE  /\ (s # NULL /\ (c # s \/ c = NULL)) <=> Len(td) > 0
         /\ Len(td) > 0 => /\ nx[IF c # NULL THEN c ELSE pv] = td[1]
                           /\ Len(td) = Len(q) => c = NULL /\ pv = q[Len(q)]
                           /\ Len(td) < Len(q) =>
                                c # NULL /\ c = q[Len(q) - Len(td)]
  <1>0. PICK n \in Nat, l \in Nat, m \in Nat :
          n = Len(q) /\ l = Len(td) /\ m = n - l
    BY SMTT(60), SMTT(120) DEF Iter
  <1>1. /\ \A j \in 1 .. l : td[j] = q[m + j]
        /\ now => m >= 1 /\ c = q[m]
        /\ ~now /\ n > 0 => IF m = 0 THEN c = NULL /\ pv = q[n] ELSE c = q[m]
    BY <1>0 DEF Iter
  <1>2. n > 0 => s = q[n] /\ s # NULL
    <2>1. n > 0 => n \in 1 .. Len(q) BY SMTT(60), SMTT(120), <1>0
    <2> QED BY SMTT(60), SMTT(120), <1>0, <2>1, ItemIsDesc DEF Ring
  <1>3. n = 0 => s = NULL BY <1>0 DEF Ring
  <1>4. \A i \in 1 .. n : nx[q[i]] = IF i = n THEN q[1] ELSE q[i + 1]
    BY <1>0 DEF Ring
  <1>5. CASE n = 0 BY SMTT(60), SMTT(120), <1>0, <1>3, <1>5
  <1>6. CASE n > 0 /\ m = 0
    <2>1. c = NULL /\ pv = q[n] /\ l = n
      BY SMTT(60), SMTT(120), <1>0, <1>1, <1>6
    <2>2. td[1] = q[1] /\ nx[q[n]] = q[1]
      BY SMTT(60), SMTT(120), <1>0, <1>1, <1>4, <1>6
    <2> QED BY SMTT(60), SMTT(120), <1>0, <1>2, <1>6, <2>1, <2>2
  <1>7. CASE n > 0 /\ m > 0
    <2>1. m \in 1 .. n /\ n \in 1 .. n BY SMTT(60), SMTT(120), <1>0, <1>7
    <2>2. c = q[m] BY SMTT(60), SMTT(120), <1>0, <1>1, <1>7
    <2>3. c # NULL BY <1>0, <2>1, <2>2, ItemIsDesc
    <2>4. c = s <=> m = n BY <1>0, <1>2, <1>7, <2>1, <2>2 DEF Once
    <2>5. m = n <=> l = 0 BY SMTT(60), SMTT(120), <1>0
    <2>6. l > 0 => td[1] = q[m + 1] /\ nx[c] = q[m + 1]
      BY SMTT(60), SMTT(120), <1>0, <1>1, <1>4, <2>1, <2>2, <2>5
    <2> QED
      BY SMTT(60), SMTT(120), <1>0, <1>2, <1>7, <2>2, <2>3, <2>4, <2>5, <2>6
  <1> QED BY SMTT(60), SMTT(120), <1>0, <1>5, <1>6, <1>7

(* An iterator with a current member. *)
LEMMA IterCurrent ==
  ASSUME NEW q, NEW td, NEW c, NEW pv, NEW m \in Nat, m = Len(q) - Len(td), m >= 1,
         \A j \in 1 .. Len(td) : td[j] = q[m + j],
         c = q[m], pv = IF m = 1 THEN q[Len(q)] ELSE q[m - 1]
  PROVE  Iter(q, td, c, pv, TRUE)
  <1>1. m >= 0 BY SMTT(60), SMTT(120)
  <1> QED BY <1>1 DEF Iter

(* An iterator goes on. *)
LEMMA NextKeeps ==
  ASSUME SInv, LpelStreamIterNext
  PROVE  SInv'
  <1>0. /\ elems \in Seq(Descs) /\ Once(elems) /\ Ring(elems, next, set)
        /\ next \in [Descs -> Descs \cup {NULL}] /\ Len(elems) \in Nat
    BY SMTT(60), SMTT(120) DEF SInv
  <1>1. /\ cur' = next[IF cur # NULL THEN cur ELSE prev]
        /\ prev' = (IF cur # NULL THEN cur ELSE prev)
        /\ iterating /\ iterating' /\ current' /\ todo' = Tail(todo)
        /\ next' = next /\ set' = set /\ elems' = elems
        /\ (set # NULL /\ (cur # set \/ cur = NULL))
    BY DEF LpelStreamIterNext, Following, LpelStreamIterHasNext
  <1>2. todo \in Seq(Descs) /\ Iter(elems, todo, cur, prev, current)
    BY <1>1 DEF SInv
  <1>3. Iter(elems, todo, cur, prev, FALSE) \/ Iter(elems, todo, cur, prev, TRUE)
    BY <1>2 DEF Iter
  <1>4. /\ Len(todo) > 0 /\ cur' = todo[1]
        /\ Len(todo) = Len(elems) => prev' = elems[Len(elems)]
        /\ Len(todo) < Len(elems) => prev' = elems[Len(elems) - Len(todo)]
    <2>1. PICK now \in BOOLEAN : Iter(elems, todo, cur, prev, now) BY <1>3
    <2> QED BY SMTT(60), SMTT(120), <1>0, <1>1, <1>2, <2>1, AtIterator
  <1>5. /\ Tail(todo) \in Seq(Descs) /\ Len(Tail(todo)) = Len(todo) - 1
        /\ \A i \in 1 .. Len(todo) - 1 : Tail(todo)[i] = todo[i + 1]
    BY <1>2, <1>4, TailIs
  <1>6. PICK n \in Nat, l \in Nat, m \in Nat :
          n = Len(elems) /\ l = Len(todo) /\ m = n - l /\ l > 0
    BY SMTT(60), SMTT(120), <1>0, <1>2, <1>4 DEF Iter
  <1>7. \A j \in 1 .. l : todo[j] = elems[m + j] BY <1>2, <1>6 DEF Iter
  <1>8. Len(elems) - Len(Tail(todo)) = m + 1 /\ Len(Tail(todo)) = l - 1
    BY SMTT(60), SMTT(120), <1>5, <1>6
  <1>9. \A j \in 1 .. l - 1 : Tail(todo)[j] = elems[m + 1 + j]
    <2> TAKE j \in 1 .. l - 1
    <2>1. j + 1 \in 1 .. l /\ m + (j + 1) = m + 1 + j /\ j \in 1 .. Len(todo) - 1
      BY SMTT(60), SMTT(120), <1>6
    <2>2. todo[j + 1] = elems[m + (j + 1)] BY <1>7, <2>1
    <2> QED BY <1>5, <2>1, <2>2
  <1>10. cur' = elems[m + 1] BY SMTT(60), SMTT(120), <1>4, <1>6, <1>7
  <1>11. prev' = IF m + 1 = 1 THEN elems[n] ELSE elems[m + 1 - 1]
    <2>1. CASE m = 0 BY SMTT(60), SMTT(120), <1>4, <1>6, <2>1
    <2>2. CASE m > 0
      <3>1. m + 1 # 1 /\ m + 1 - 1 = m /\ l < n
        BY SMTT(60), SMTT(120), <1>6, <2>2
      <3> QED BY <1>4, <1>6, <3>1
    <2> QED BY SMTT(60), SMTT(120), <1>6, <2>1, <2>2
  <1>12. Iter(elems, Tail(todo), cur', prev', TRUE)
    <2>0. PICK td : td = Tail(todo) OBVIOUS
    <2>1. PICK h \in Nat : h = m + 1 /\ h >= 1 BY SMTT(60), SMTT(120), <1>6
    <2>2. h = Len(elems) - Len(td) BY <1>8, <2>0, <2>1
    <2>3. cur' = elems[h] BY <1>10, <2>1
    <2>4. prev' = IF h = 1 THEN elems[Len(elems)] ELSE elems[h - 1]
      BY SMTT(60), SMTT(120), <1>6, <1>11, <2>1
    <2>5. Len(td) = l - 1 BY <1>8, <2>0
    <2>6. \A j \in 1 .. Len(td) : td[j] = elems[h + j] BY <1>9, <2>0, <2>1, <2>5
    <2>7. Iter(elems, td, cur', prev', TRUE)
      BY <2>1, <2>2, <2>3, <2>4, <2>6, IterCurrent
    <2> QED BY <2>0, <2>7
  <1> QED BY <1>0, <1>1, <1>5, <1>12 DEF SInv, Once, Ring, Iter

(* A descriptor is added while iterating. *)
LEMMA AppendKeeps ==
  ASSUME SInv, NEW d \in Descs, LpelStreamIterAppend(d)
  PROVE  SInv'
  <1>0. /\ elems \in Seq(Descs) /\ Once(elems) /\ Ring(elems, next, set)
        /\ next \in [Descs -> Descs \cup {NULL}] /\ Len(elems) \in Nat
    BY SMTT(60), SMTT(120) DEF SInv
  <1>1. /\ elems' = Append(elems, d) /\ todo' = Append(todo, d) /\ set' = d
        /\ next' = [next EXCEPT ![d] = next[set], ![set] = d]
        /\ prev' = (LET p == IF prev = set THEN d ELSE prev
                    IN  IF p = cur THEN d ELSE p)
        /\ cur' = cur /\ current' = current /\ iterating' = iterating
        /\ iterating /\ set # NULL /\ d \notin Range(elems)
    BY DEF LpelStreamIterAppend
  <1>2. todo \in Seq(Descs) /\ Iter(elems, todo, cur, prev, current)
    BY <1>1 DEF SInv
  <1>3. \A i \in 1 .. Len(elems) : elems[i] # d
    <2>1. DOMAIN elems = 1 .. Len(elems) BY SMTT(60), SMTT(120), <1>0
    <2> QED BY <1>1, <2>1 DEF Range
  <1>4. /\ Len(elems) > 0 /\ set = elems[Len(elems)] /\ set \in Descs /\ set # d
    <2>1. Len(elems) > 0 /\ set = elems[Len(elems)]
      BY SMTT(60), SMTT(120), <1>0, <1>1 DEF Ring
    <2>2. Len(elems) \in 1 .. Len(elems) BY SMTT(60), SMTT(120), <1>0, <2>1
    <2> QED BY <1>0, <1>3, <2>1, <2>2, ItemIsDesc
  <1>5. PICK q, r, nx, ny, td, te :
          /\ q = elems /\ r = elems' /\ nx = next /\ ny = next'
          /\ td = todo /\ te = todo'
    OBVIOUS
  <1>6. /\ r \in Seq(Descs) /\ Len(r) = Len(q) + 1
        /\ \A i \in 1 .. Len(q) + 1 : r[i] = IF i = Len(q) + 1 THEN d ELSE q[i]
    BY SMTT(60), SMTT(120), <1>0, <1>1, <1>5, AppendIs
  <1>7. /\ te \in Seq(Descs) /\ Len(te) = Len(td) + 1
        /\ \A i \in 1 .. Len(td) + 1 : te[i] = IF i = Len(td) + 1 THEN d ELSE td[i]
    BY SMTT(60), SMTT(120), <1>1, <1>2, <1>5, AppendIs
  <1>8. /\ q \in Seq(Descs) /\ Once(q) /\ Ring(q, nx, set) /\ td \in Seq(Descs)
        /\ (\A i \in 1 .. Len(q) : q[i] # d) /\ Len(q) > 0 /\ set = q[Len(q)]
    BY <1>0, <1>2, <1>3, <1>4, <1>5
  <1>9. \A e \in Descs : ny[e] = IF e = d THEN IF set = NULL THEN d ELSE nx[set]
                                 ELSE IF e = set THEN d ELSE nx[e]
    BY <1>0, <1>1, <1>4, <1>5
  <1>10. Once(r) /\ Ring(r, ny, d)
    <2>1. PICK s : s = set OBVIOUS
    <2>2. q \in Seq(Descs) /\ r \in Seq(Descs) /\ Once(q) /\ Ring(q, nx, s)
      BY <1>6, <1>8, <2>1
    <2>3. Extends(q, r, d) BY <1>6, <1>8 DEF Extends
    <2>4. Links(nx, ny, s, d) BY <1>9, <2>1 DEF Links
    <2> QED BY <2>2, <2>3, <2>4, RingAppend
  <1>11. next' \in [Descs -> Descs \cup {NULL}] BY <1>0, <1>1, <1>4
  <1>12. ASSUME NEW now \in BOOLEAN, Iter(q, td, cur, prev, now)
         PROVE  Iter(r, te, cur, prev', now)
    <2>1. prev' = IF prev = q[Len(q)] THEN d ELSE IF prev = cur THEN d ELSE prev
      BY <1>1, <1>8
    <2> QED BY SMTT(60), SMTT(120), <1>6, <1>7, <1>8, <1>12, <2>1, IterAppend
  <1>13. Iter(elems', todo', cur', prev', current')
    <2>1. CASE current
      <3>1. Iter(q, td, cur, prev, TRUE) BY <1>2, <1>5, <2>1 DEF Iter
      <3>2. Iter(r, te, cur, prev', TRUE) BY <1>12, <3>1
      <3> QED BY <1>1, <1>5, <2>1, <3>2 DEF Iter
    <2>2. CASE ~current
      <3>1. Iter(q, td, cur, prev, FALSE) BY <1>2, <1>5, <2>2 DEF Iter
      <3>2. Iter(r, te, cur, prev', FALSE) BY <1>12, <3>1
      <3> QED BY <1>1, <1>5, <2>2, <3>2 DEF Iter
    <2> QED BY <2>1, <2>2
  <1>14. /\ elems' \in Seq(Descs) /\ todo' \in Seq(Descs)
         /\ Once(elems') /\ Ring(elems', next', set')
    BY <1>1, <1>5, <1>6, <1>7, <1>10
  <1> QED BY <1>11, <1>13, <1>14 DEF SInv, Once, Ring, Iter

(* The current descriptor is removed while iterating. *)
LEMMA IterRemoveKeeps ==
  ASSUME SInv, LpelStreamIterRemove
  PROVE  SInv'
  <1>0. /\ elems \in Seq(Descs) /\ Once(elems) /\ Ring(elems, next, set)
        /\ next \in [Descs -> Descs \cup {NULL}] /\ Len(elems) \in Nat
    BY SMTT(60), SMTT(120) DEF SInv
  <1>1. /\ iterating /\ current /\ iterating' = iterating /\ ~current'
        /\ elems' = Without(elems, cur) /\ prev' = prev /\ todo' = todo
    BY DEF LpelStreamIterRemove
  <1>2. todo \in Seq(Descs) /\ Iter(elems, todo, cur, prev, TRUE)
    BY <1>1 DEF SInv, Iter
  <1>3. PICK n \in Nat, l \in Nat, k \in Nat :
          n = Len(elems) /\ l = Len(todo) /\ k = n - l /\ k >= 1
    BY SMTT(60), SMTT(120), <1>0, <1>2 DEF Iter
  <1>4. /\ k \in 1 .. Len(elems) /\ cur = elems[k]
        /\ prev = IF k = 1 THEN elems[n] ELSE elems[k - 1]
    BY SMTT(60), SMTT(120), <1>2, <1>3 DEF Iter
  <1>5. elems' = RemoveAt(elems, k)
    BY <1>0, <1>1, <1>4, IndexIs DEF Without, RemoveAt
  <1>6. PICK q, r, nx, ny : q = elems /\ r = elems' /\ nx = next /\ ny = next'
    OBVIOUS
  <1>7. /\ r \in Seq(Descs) /\ Len(r) = Len(q) - 1
        /\ \A i \in 1 .. Len(q) - 1 : r[i] = IF i < k THEN q[i] ELSE q[i + 1]
    BY <1>0, <1>4, <1>5, <1>6, RemoveIs
  <1>8. /\ q \in Seq(Descs) /\ Once(q) /\ Ring(q, nx, set) /\ k \in 1 .. Len(q)
        /\ Iter(q, todo, cur, prev, TRUE) /\ k = Len(q) - Len(todo)
    BY <1>0, <1>2, <1>3, <1>4, <1>6
  <1>9. /\ next' \in [Descs -> Descs \cup {NULL}]
        /\ Once(r) /\ Ring(r, ny, set') /\ Iter(r, todo, cur', prev, FALSE)
    <2>1. CASE n = 1
      <3>1. prev = cur /\ k = 1 BY SMTT(60), SMTT(120), <1>3, <1>4, <2>1
      <3>2. next' = [next EXCEPT ![cur] = NULL] /\ set' = NULL /\ cur' = cur
        BY <3>1 DEF LpelStreamIterRemove
      <3>3. Len(r) = 0 /\ Len(todo) = 0
        BY SMTT(60), SMTT(120), <1>3, <1>6, <1>7, <2>1, <3>1
      <3>4. next' \in [Descs -> Descs \cup {NULL}] BY <1>0, <3>2
      <3>5. Once(r) /\ Ring(r, ny, NULL)
        BY SMTT(60), SMTT(120), <3>3 DEF Once, Ring
      <3>6. Iter(r, todo, cur', prev, FALSE)
        BY SMTT(60), SMTT(120), <3>3 DEF Iter
      <3> QED BY <3>2, <3>4, <3>5, <3>6
    <2>2. CASE n > 1
      <3>1. PICK b \in 1 .. Len(elems) : b = (IF k = 1 THEN n ELSE k - 1)
                                         /\ b # k /\ prev = elems[b]
        BY SMTT(60), SMTT(120), <1>3, <1>4, <2>2
      <3>2. prev # cur /\ prev \in Descs /\ cur \in Descs
        BY <1>0, <1>4, <3>1, ItemIsDesc DEF Once
      <3>3. /\ next' = [next EXCEPT ![prev] = next[cur], ![cur] = NULL]
            /\ cur' = (IF set = prev THEN NULL ELSE prev)
            /\ set' = (IF set = cur THEN prev ELSE set)
        BY <3>2 DEF LpelStreamIterRemove
      <3>4. next' \in [Descs -> Descs \cup {NULL}] BY <1>0, <3>2, <3>3
      <3>5. \A e \in Descs : ny[e] = IF e = q[k] THEN NULL
                               ELSE IF e = prev THEN nx[q[k]] ELSE nx[e]
        BY <1>0, <1>4, <1>6, <3>2, <3>3
      <3>6. /\ Len(q) > 1 /\ prev = (IF k = 1 THEN q[Len(q)] ELSE q[k - 1])
            /\ set' = (IF set = q[k] THEN prev ELSE set) /\ set = q[Len(q)]
        <4>1. set = elems[Len(elems)]
          BY SMTT(60), SMTT(120), <1>0, <1>3, <2>2 DEF Ring
        <4> QED BY <1>3, <1>4, <1>6, <2>2, <3>3, <4>1
      <3>7. Once(r) /\ Ring(r, ny, set')
        <4>1. PICK s, t, p : s = set /\ t = set' /\ p = prev OBVIOUS
        <4>2. /\ Ring(q, nx, s) /\ p = (IF k = 1 THEN q[Len(q)] ELSE q[k - 1])
              /\ t = (IF s = q[k] THEN p ELSE s)
          BY <1>8, <3>6, <4>1
        <4>3. \A e \in Descs : ny[e] = IF e = q[k] THEN NULL
                                 ELSE IF e = p THEN nx[q[k]] ELSE nx[e]
          BY <3>5, <4>1
        <4>4. /\ q \in Seq(Descs) /\ r \in Seq(Descs) /\ k \in 1 .. Len(q)
              /\ Once(q) /\ Len(q) > 1 /\ Len(r) = Len(q) - 1
              /\ \A i \in 1 .. Len(q) - 1 : r[i] = IF i < k THEN q[i] ELSE q[i + 1]
          BY <1>7, <1>8, <3>6
        <4>5. Once(r) /\ Ring(r, ny, t)
          BY SMTT(60), SMTT(120), <4>2, <4>3, <4>4, RingRemove
        <4> QED BY <4>1, <4>5
      <3>8. cur' = IF q[Len(q)] = prev THEN NULL ELSE prev
        BY <3>3, <3>6
      <3>9. Iter(r, todo, cur', prev, FALSE)
        BY <1>2, <1>7, <1>8, <3>6, <3>8, IterRemove
      <3> QED BY <3>4, <3>7, <3>9
    <2>3. n = 1 \/ n > 1 BY SMTT(60), SMTT(120), <1>3, <1>4
    <2> QED BY <2>1, <2>2, <2>3
  <1>10. /\ elems' \in Seq(Descs) /\ todo' \in Seq(Descs)
         /\ Once(elems') /\ Ring(elems', next', set')
    BY <1>1, <1>2, <1>6, <1>7, <1>9
  <1>11. Iter(elems', todo', cur', prev', current')
    BY <1>1, <1>6, <1>9 DEF Iter
  <1> QED BY <1>9, <1>10, <1>11 DEF SInv, Once, Ring, Iter

(* The empty set. *)
LEMMA InitSInv ==
  ASSUME StreamsetInit PROVE SInv
  <1>1. Len(<<>>) = 0 /\ <<>> \in Seq(Descs) BY SMTT(60), SMTT(120)
  <1> QED BY SMTT(60), SMTT(120), <1>1 DEF StreamsetInit, SInv, Once, Ring

(* The invariant holds whatever operations are called. *)
THEOREM StreamsetInvariant == StreamsetSpec => []SInv
  <1>1. StreamsetInit => SInv BY InitSInv
  <1>2. SInv /\ [StreamsetNext]_setvars => SInv'
    <2> SUFFICES ASSUME SInv, [StreamsetNext]_setvars PROVE SInv'
      OBVIOUS
    <2>1. CASE UNCHANGED setvars
      BY <2>1 DEF SInv, setvars, itervars, Once, Ring, Iter
    <2>2. CASE StreamsetNext
      BY <2>2, PutKeeps, RemoveKeeps, PollKeeps, AppendKeeps, ResetKeeps,
         DestroyKeeps, NextKeeps, IterRemoveKeeps DEF StreamsetNext
    <2> QED BY <2>1, <2>2
  <1> QED BY <1>1, <1>2, PTL DEF StreamsetSpec

(* However the operations of a set and of its iterator are mixed, the      *)
(* handle points to the last member and the links go round all members in  *)
(* order: for a set of any size.                                           *)
THEOREM RingIsKept == StreamsetSpec => []RingHoldsSet
  <1>1. ASSUME SInv PROVE RingHoldsSet
    <2>1. elems \in Seq(Descs) /\ Ring(elems, next, set) BY <1>1 DEF SInv
    <2>2. DOMAIN elems = 1 .. Len(elems) /\ (elems = <<>> <=> Len(elems) = 0)
      BY SMTT(60), SMTT(120), <2>1
    <2> QED BY <2>1, <2>2 DEF Ring, RingHoldsSet
  <1> QED BY <1>1, StreamsetInvariant, PTL

(* An iterator comes to each member once and in order, although members    *)
(* are appended and the current one removed under way.                     *)
THEOREM IteratorVisitsEach == StreamsetSpec => []VisitsEach
  <1>1. ASSUME SInv PROVE VisitsEach
    <2> SUFFICES ASSUME iterating
                 PROVE  /\ LpelStreamIterHasNext <=> todo # <<>>
                        /\ LpelStreamIterHasNext => Following = Head(todo)
      BY DEF VisitsEach
    <2>1. /\ elems \in Seq(Descs) /\ Once(elems) /\ Ring(elems, next, set)
          /\ todo \in Seq(Descs) /\ Iter(elems, todo, cur, prev, current)
      BY <1>1 DEF SInv
    <2>2. PICK now \in BOOLEAN : Iter(elems, todo, cur, prev, now)
      <3>1. CASE current
        <4>1. Iter(elems, todo, cur, prev, TRUE) BY <2>1, <3>1 DEF Iter
        <4> QED BY <4>1
      <3>2. CASE ~current
        <4>1. Iter(elems, todo, cur, prev, FALSE) BY <2>1, <3>2 DEF Iter
        <4> QED BY <4>1
      <3> QED BY <3>1, <3>2
    <2>3. /\ LpelStreamIterHasNext <=> Len(todo) > 0
          /\ Len(todo) > 0 => next[IF cur # NULL THEN cur ELSE prev] = todo[1]
      BY SMTT(60), SMTT(120), <2>1, <2>2, AtIterator DEF LpelStreamIterHasNext
    <2>4. Len(todo) > 0 <=> todo # <<>> BY SMTT(60), SMTT(120), <2>1
    <2>5. Len(todo) > 0 => Head(todo) = todo[1] BY SMTT(60), SMTT(120), <2>1
    <2> QED BY <2>3, <2>4, <2>5 DEF Following
  <1> QED BY <1>1, StreamsetInvariant, PTL
=============================================================================
