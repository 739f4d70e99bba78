------------------------ MODULE MCReceiptSubscriber ------------------------
(* ReceiptSubscriber on a small instance. *)
EXTENDS ReceiptSubscriber

CONSTANTS c1, a, b

\* The client wants one of two logs.
MCWants == [c \in Clients |-> {b}]

\* A block without logs, one with a log of each kind, and one with two
\* wanted logs.
MCBodies == {<<>>, <<a, b>>, <<b, b>>}
=============================================================================
