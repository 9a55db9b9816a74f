------------------------------ MODULE Streamset ------------------------------
(***************************************************************************)
(* Sets of stream descriptors and their iterators (streamset.c).  A set is *)
(* a ring linked through the field next of the descriptors; the handle     *)
(* *set points to the last one.  An iterator keeps the current descriptor  *)
(* and the one before it, so that it can unlink the current one, and the   *)
(* set may grow and shrink while it is used.                               *)
(*                                                                         *)
(* A set belongs to one task.  The client keeps to the documented rules:   *)
(* Put and Remove are not mixed with an iteration, an iterator is reset    *)
(* over a non-empty set, and IterRemove is called once after IterNext.     *)
(* elems and todo record what the set and the iterator promise.            *)
(***************************************************************************)
EXTENDS Integers, Sequences, FiniteSets, Functions

CONSTANTS Descs, NULL

ASSUME StreamsetAssumption == IsFiniteSet(Descs) /\ NULL \notin Descs

VARIABLES
  next, set,      \* NODE_NEXT of a descriptor; the handle
  cur, prev,      \* lpel_stream_iter_t
  iterating,      \* an iterator is in use
  current,        \* IterNext has been called since the last IterRemove
  elems,          \* the members of the set, in the order of iteration
  todo            \* those that the iterator has not come to yet

itervars == <<cur, prev, iterating, current, todo>>
setvars == <<next, set, itervars, elems>>

StreamsetInit ==
  /\ next = [d \in Descs |-> NULL]
  /\ set = NULL /\ cur = NULL /\ prev = NULL
  /\ iterating = FALSE /\ current = FALSE
  /\ elems = <<>> /\ todo = <<>>

(* Where a descriptor is in a list that has it once. *)
Index(s, d) == CHOOSE i \in DOMAIN s : s[i] = d
Without(s, d) ==
  LET k == Index(s, d) IN SubSeq(s, 1, k - 1) \o SubSeq(s, k + 1, Len(s))

----------------------------------------------------------------------------
LpelStreamsetPut(d) ==
  /\ ~iterating /\ d \notin Range(elems)
  /\ next' = IF set = NULL THEN [next EXCEPT ![d] = d]
             ELSE [next EXCEPT ![d] = next[set], ![set] = d]
  /\ set' = d
  /\ elems' = Append(elems, d)
  /\ UNCHANGED itervars

(* The loop of LpelStreamsetRemove in k rounds: the descriptors it comes   *)
(* to, from the handle on, until d or the handle.                          *)
Round(d, k, w) ==
  /\ w[0] = set
  /\ \A j \in 1 .. k : w[j] = next[w[j - 1]]
  /\ \A j \in 1 .. k - 1 : w[j] \notin {d, set}

(* Looks for d in one round of the ring, and unlinks it; a set without d   *)
(* stays as it is.                                                         *)
LpelStreamsetRemove(d) ==
  /\ ~iterating /\ set # NULL
  /\ \E k \in 1 .. Cardinality(Descs) : \E w \in [0 .. k -> Descs] :
       LET p == w[k - 1] IN
       /\ Round(d, k, w) /\ w[k] = d
       /\ IF p = d THEN set' = NULL /\ UNCHANGED next
          ELSE /\ next' = [next EXCEPT ![p] = next[d], ![d] = NULL]
               /\ set' = IF set = d THEN p ELSE set
  /\ elems' = Without(elems, d)
  /\ UNCHANGED itervars

(* LpelStreamPoll points *set to the descriptor it returns: the next poll  *)
(* starts behind it.                                                       *)
Poll(d) ==
  /\ ~iterating /\ d \in Range(elems)
  /\ set' = d
  /\ elems' = LET k == Index(elems, d)
              IN  SubSeq(elems, k + 1, Len(elems)) \o SubSeq(elems, 1, k)
  /\ UNCHANGED <<next, itervars>>

(* LpelStreamIterCreate does the same. *)
LpelStreamIterReset ==
  /\ set # NULL
  /\ prev' = set /\ cur' = NULL
  /\ iterating' = TRUE /\ current' = FALSE
  /\ todo' = elems
  /\ UNCHANGED <<next, set, elems>>

LpelStreamIterDestroy ==
  /\ iterating
  /\ iterating' = FALSE /\ current' = FALSE
  /\ cur' = NULL /\ prev' = NULL /\ todo' = <<>>
  /\ UNCHANGED <<next, set, elems>>

LpelStreamIterHasNext == set # NULL /\ (cur # set \/ cur = NULL)

(* The descriptor that LpelStreamIterNext returns. *)
Following == next[IF cur # NULL THEN cur ELSE prev]

LpelStreamIterNext ==
  /\ iterating /\ LpelStreamIterHasNext
  /\ cur' = Following
  /\ prev' = IF cur # NULL THEN cur ELSE prev
  /\ current' = TRUE
  /\ todo' = Tail(todo)
  /\ UNCHANGED <<next, set, iterating, elems>>

(* At the end of the set; prev follows when it was the last, or the only   *)
(* descriptor.                                                             *)
LpelStreamIterAppend(d) ==
  LET p == IF prev = set THEN d ELSE prev
  IN  /\ iterating /\ set # NULL /\ d \notin Range(elems)
      /\ next' = [next EXCEPT ![d] = next[set], ![set] = d]
      /\ set' = d
      /\ prev' = IF p = cur THEN d ELSE p
      /\ elems' = Append(elems, d) /\ todo' = Append(todo, d)
      /\ UNCHANGED <<cur, iterating, current>>

(* Mutants: the handle is not corrected when the last descriptor goes; cur *)
(* is not cleared when the first goes.                                     *)
RemoveKeepsHandle ==
  /\ iterating /\ current
  /\ IF prev = cur
     THEN /\ next' = [next EXCEPT ![cur] = NULL]
          /\ set' = NULL /\ UNCHANGED cur
     ELSE /\ next' = [next EXCEPT ![prev] = next[cur], ![cur] = NULL]
          /\ cur' = IF set = prev THEN NULL ELSE prev
          /\ UNCHANGED set
  /\ current' = FALSE
  /\ elems' = Without(elems, cur)
  /\ UNCHANGED <<prev, iterating, todo>>

RemoveKeepsCur ==
  /\ iterating /\ current
  /\ IF prev = cur
     THEN /\ next' = [next EXCEPT ![cur] = NULL]
          /\ set' = NULL /\ UNCHANGED cur
     ELSE /\ next' = [next EXCEPT ![prev] = next[cur], ![cur] = NULL]
          /\ cur' = prev
          /\ set' = IF set = cur THEN prev ELSE set
  /\ current' = FALSE
  /\ elems' = Without(elems, cur)
  /\ UNCHANGED <<prev, iterating, todo>>

LpelStreamIterRemove ==
  /\ iterating /\ current
  /\ IF prev = cur
     THEN /\ next' = [next EXCEPT ![cur] = NULL]
          /\ set' = NULL /\ UNCHANGED cur
     ELSE /\ next' = [next EXCEPT ![prev] = next[cur], ![cur] = NULL]
          /\ cur' = IF set = prev THEN NULL ELSE prev
          /\ set' = IF set = cur THEN prev ELSE set
  /\ current' = FALSE
  /\ elems' = Without(elems, cur)
  /\ UNCHANGED <<prev, iterating, todo>>

StreamsetNext ==
  \/ \E d \in Descs : \/ LpelStreamsetPut(d) \/ LpelStreamsetRemove(d)
                      \/ Poll(d) \/ LpelStreamIterAppend(d)
  \/ LpelStreamIterReset \/ LpelStreamIterDestroy
  \/ LpelStreamIterNext \/ LpelStreamIterRemove

StreamsetSpec == StreamsetInit /\ [][StreamsetNext]_setvars

----------------------------------------------------------------------------
(* Correctness *)

(* However the operations of the set and of the iterator are mixed, the    *)
(* handle points to the last member and the links go round all members in  *)
(* the order in which they were added.                                     *)
RingHoldsSet ==
  /\ set = IF elems = <<>> THEN NULL ELSE elems[Len(elems)]
  /\ \A i \in DOMAIN elems :
       next[elems[i]] = IF i = Len(elems) THEN elems[1] ELSE elems[i + 1]

(* "Iteration can be continued though" (LpelStreamIterRemove): an iterator *)
(* comes to each member once and in order, to those appended meanwhile as  *)
(* well, and LpelStreamIterHasNext says when there are no more.            *)
VisitsEach ==
  iterating =>
    /\ LpelStreamIterHasNext <=> todo # <<>>
    /\ LpelStreamIterHasNext => Following = Head(todo)
=============================================================================
