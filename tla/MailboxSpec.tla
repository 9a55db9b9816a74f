----------------------------- MODULE MailboxSpec -----------------------------
(***************************************************************************)
(* What a mailbox promises to the workers: an unbounded queue.  A message  *)
(* is received once, in the order of the sends, and a receiver that keeps  *)
(* asking gets every message.  The worker modules use a mailbox in this    *)
(* form; Mailbox.tla is shown to implement it.                             *)
(***************************************************************************)
EXTENDS Sequences

CONSTANT Msgs
VARIABLES queue, got

Init == queue = <<>> /\ got = <<>>

Send(m) == queue' = Append(queue, m) /\ UNCHANGED got

Recv ==
  /\ queue # <<>>
  /\ got' = Append(got, Head(queue))
  /\ queue' = Tail(queue)

Next == Recv \/ \E m \in Msgs : Send(m)

Spec == Init /\ [][Next]_<<queue, got>>

FairSpec == Spec /\ WF_<<queue, got>>(Recv)
=============================================================================
