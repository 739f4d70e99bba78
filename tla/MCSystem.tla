------------------------------ MODULE MCSystem ------------------------------
(* System on a small instance. *)
EXTENDS System

CONSTANTS p1, m1, m2, c1

deploy == [type |-> "deploy"]
Reg(p, m) == [type |-> "reg", pub |-> p, em |-> m]
Notify(m) == [type |-> "notify", em |-> m]

\* Deployment, registration, events: which ones depends on the branch, and on
\* one of them is an event of a manager that nobody registered.
MCContent(h) ==
    CASE h.num = 2                   -> <<deploy>>
      [] h.num = 3                   -> <<Reg(p1, m1)>>
      [] h.num = 4 /\ h.branch = 0   -> <<Notify(m1)>>
      [] OTHER                       -> <<Notify(m2), Notify(m1)>>

MCBodies == {<<deploy>>, <<Reg(p1, m1)>>, <<Notify(m1)>>, <<Notify(m2), Notify(m1)>>}
=============================================================================
