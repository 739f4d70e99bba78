------------------------------ MODULE EventFeed ------------------------------
(***************************************************************************)
(* What a subscriber sees of the pub/sub service, and nothing of how it    *)
(* comes about: topics on which events are published, and to each client   *)
(* messages that carry a block number and some events.                     *)
(***************************************************************************)
EXTENDS Naturals, Sequences, Functions

CONSTANTS Clients, Topics

VARIABLES
    log,   \* the events published on each topic
    feed,  \* the events a client was sent so far
    told   \* the block number in its last message

vars == <<log, feed, told>>

\* An event is known by its block number and its index in there.
Before(e, f) == e.blk < f.blk \/ (e.blk = f.blk /\ e.idx < f.idx)

InOrder(s) == \A i, j \in DOMAIN s : i < j => Before(s[i], s[j])

\* Events in order, and all there are on the topic from the first to the last.
Stretch(s, events) ==
    /\ Range(s) \subseteq events
    /\ InOrder(s)
    /\ \A e \in events, i, j \in DOMAIN s :
            Before(s[i], e) /\ Before(e, s[j]) => e \in Range(s)

Init ==
    /\ log = [t \in Topics |-> {}]
    /\ feed = [c \in Clients |-> <<>>]
    /\ told = [c \in Clients |-> 0]

\* Later events come behind the earlier ones.
Publish ==
    /\ \A t \in Topics : log[t] \subseteq log'[t]
    /\ \A t \in Topics : \A e \in log[t], f \in log'[t] \ log[t] : Before(e, f)
    /\ UNCHANGED <<feed, told>>

\* A message carries on with the feed, which stays a stretch of one topic; no
\* event is of a block beyond the number sent with it, and numbers do not go
\* back.
Send(c) ==
    /\ \E n \in 0..Len(feed'[c]) : feed[c] = SubSeq(feed'[c], 1, n)
    /\ \E t \in Topics : Stretch(feed'[c], log[t])
    /\ told[c] <= told'[c]
    /\ \A e \in Range(feed'[c]) : e.blk <= told'[c]
    /\ \A d \in Clients \ {c} : feed'[d] = feed[d] /\ told'[d] = told[d]
    /\ UNCHANGED log

Next == Publish \/ \E c \in Clients : Send(c)

Spec == Init /\ [][Next]_vars
=============================================================================
