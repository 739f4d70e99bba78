------------------------------ MODULE MCPubsub ------------------------------
(* Pubsub on small instances. *)
EXTENDS Pubsub, TLC

CONSTANTS p1, m1, c1, c2

deploy == [type |-> "deploy"]
Reg(p, m) == [type |-> "reg", pub |-> p, em |-> m]
Notify(m) == [type |-> "notify", em |-> m]

\* One manager: its registration, alone or with an event behind it, and
\* blocks with one event or two.
MCBodies == {
    <<deploy>>,
    <<Reg(p1, m1)>>,
    <<Notify(m1)>>,
    <<Notify(m1), Notify(m1)>>}

ClientSymmetry == Permutations({c1, c2})
=============================================================================
