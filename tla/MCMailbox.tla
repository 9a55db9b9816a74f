------------------------------ MODULE MCMailbox ------------------------------
(* An instance of Mailbox for TLC: two senders of two messages each. *)
EXTENDS Mailbox

CONSTANTS a, b, n1, n2, n3, n4

TwoSenders == {a, b}
FourNodes == {n1, n2, n3, n4}
=============================================================================
