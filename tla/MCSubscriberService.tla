------------------------ MODULE MCSubscriberService ------------------------
(* SubscriberService on small instances. *)
EXTENDS SubscriberService

CONSTANTS p1, p2, m1, m2

deploy == [type |-> "deploy"]
Reg(p, m) == [type |-> "reg", pub |-> p, em |-> m]
Notify(m) == [type |-> "notify", em |-> m]

\* Deployment alone and with a registration behind it, registrations of two
\* managers by one or two publishers (one between two events), blocks of
\* events of one manager or of both.
MCBodies == {
    <<deploy>>,
    <<deploy, Reg(p1, m1)>>,
    <<Notify(m1), Reg(p1, m1), Notify(m1)>>,
    <<Reg(p1, m2), Reg(p2, m1)>>,
    <<Notify(m1), Notify(m2)>>,
    <<Notify(m1), Notify(m1)>>}
=============================================================================
