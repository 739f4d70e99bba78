-------------------------------- MODULE System --------------------------------
(***************************************************************************)
(* The host and the enclave together: the updator's PushBlock is an ECALL  *)
(* that runs AppendBlock, which comes back to the host with an OCALL for   *)
(* the receipts.  An exception in the enclave travels back the same way    *)
(* and ends the updator (Main.cpp, DecentEthereumEnclave.hpp, Enclave.cpp, *)
(* Trusted/HostBlockService.hpp).                                          *)
(*                                                                         *)
(* HostBlocks and Pubsub keep their actions; here they are joined at the   *)
(* call, beside the threads that serve subscribers, which call on the      *)
(* enclave by themselves.  EclipseMonitor is external: it is taken to      *)
(* validate a header, or to refuse it, in the call that brings it, and to  *)
(* compare receipts with the root in the header, so that those of another  *)
(* branch are an exception.                                                *)
(***************************************************************************)
EXTENDS Naturals, Sequences

CONSTANTS StartBlock, MaxNum, MaxReorgs,
          Publishers, EvMgrs, NoAddr, BlockBodies, Readers, NoReader, NoClient,
          Content(_)  \* the logs in the block of a header

ASSUME StartAssumption   == StartBlock \in Nat \ {0}
ASSUME BoundsAssumption  == MaxNum \in Nat /\ MaxReorgs \in Nat
ASSUME ContentAssumption ==
    \A n \in StartBlock..MaxNum, b \in 0..MaxReorgs :
        Content([num |-> n, branch |-> b]) \in BlockBodies

VARIABLES canon, reorgs, currBlk, updPc, hdr, interval, lastLogged,
          recv,
          chain, lastBlk, blkPc, cur, listeners, todo, isDeployed,
          evMgrAddrMap, pastStore, copy,
          pc, em, subs, subTodo, queue, got, resp, hb, hbOut, hbGot, hbBlk,
          fed, told, sure, joined, lossy,
          ecall  \* the ECALL under way: none, begun, or with its block appended

Host == INSTANCE HostBlocks
Sub  == INSTANCE Pubsub WITH MaxBlk <- MaxNum

ASSUME ServiceAssumption ==
    /\ BlockBodies \subseteq Seq(Sub!Log)
    /\ NoAddr \notin EvMgrs
    /\ NoReader \notin Readers
    /\ NoClient \notin Readers

hostVars == <<canon, reorgs, currBlk, updPc, hdr, interval, lastLogged,
              recv>>
svcVars  == <<chain, lastBlk, blkPc, cur, listeners, todo, isDeployed,
              evMgrAddrMap, pastStore, copy>>
subVars  == <<pc, em, subs, subTodo, queue, got, resp, hb, hbOut, hbGot, hbBlk,
              fed, told, sure, joined, lossy>>
vars == <<hostVars, svcVars, subVars, ecall>>

Init ==
    /\ Host!Init
    /\ Sub!Init
    /\ ecall = "none"

-----------------------------------------------------------------------------
(* The updator's thread outside the ECALL, and Geth; the status task only  *)
(* reads the counter and is left, with the end of the program, to          *)
(* HostProgram.                                                            *)

UpdatorStep ==
    /\ \/ Host!StartSendingBlocks
       \/ Host!Wake
       \/ Host!NothingNew
       \/ Host!GethFails
       \/ Host!AskLatest
       \/ Host!FetchHeader
       \/ Host!CountBlock
    /\ UNCHANGED <<svcVars, subVars, ecall>>

GethStep ==
    /\ Host!Mine \/ \E n \in DOMAIN canon : Host!Reorg(n)
    /\ UNCHANGED <<svcVars, subVars, ecall>>

-----------------------------------------------------------------------------
(* The ECALL *)

RecvBlock ==
    /\ updPc = "push"
    /\ ecall = "none"
    /\ ecall' = "begun"
    /\ UNCHANGED <<hostVars, svcVars, subVars>>

AppendBlock ==
    /\ ecall = "begun"
    /\ Sub!BlockAppend(Content(hdr))
    /\ ecall' = "appended"
    /\ UNCHANGED hostVars

\* ocall_decent_ethereum_get_receipts: the host asks Geth by number alone.
ReceiptsOfHeader == Len(canon) >= hdr.num /\ canon[hdr.num] = hdr.branch

\* No listener asks for a log that the header promises: then the event manager
\* may do without the receipts.
NothingMatches == todo' = {} /\ subTodo = {}

CheckEvents ==
    /\ ecall = "appended"
    /\ Sub!CheckEvents
    /\ ReceiptsOfHeader \/ NothingMatches
    /\ UNCHANGED <<hostVars, subVars, ecall>>

CallbackStep ==
    /\ \/ \E i \in DOMAIN Sub!Body, k \in 0..Len(Sub!Body) : Sub!DeployEventHandler(i, k)
       \/ \E i \in DOMAIN Sub!Body : Sub!RegEventHandler(i)
       \/ Sub!RegEventStore
       \/ \E k \in 0..Len(Sub!Body) : Sub!RegEventListen(k)
       \/ \E l \in listeners : \E i \in DOMAIN Sub!Body : Sub!NotifyPastFind(l, i)
       \/ Sub!NotifyPastPush
    /\ UNCHANGED <<hostVars, subVars, ecall>>

\* The callbacks of the subscribers' listeners, and the end of the check.
NotifyStep ==
    /\ \/ \E c \in Readers : \E i \in DOMAIN Sub!Body :
                Sub!NotifyEventHandler(c, i) \/ Sub!SkipCancelled(c, i)
       \/ Sub!BlockDoneAll
    /\ UNCHANGED <<hostVars, ecall>>

\* An exception at any point of the ECALL.
EnclaveThrows ==
    /\ ecall # "none"
    /\ ecall = "appended" => blkPc # "idle"
    /\ Sub!BlockThrowAll
    /\ UNCHANGED <<hostVars, ecall>>

\* Mutant: the status that the ECALL returns is not looked at.
StatusIgnored == blkPc = "stopped" \/ (ecall = "appended" /\ blkPc = "idle")

Success == ecall = "appended" /\ blkPc = "idle"

\* SGX_SUCCESS: the updator goes on to count the block.
RecvBlockReturns ==
    /\ Success
    /\ Host!PushBlock
    /\ ecall' = "none"
    /\ UNCHANGED <<svcVars, subVars>>

\* SGX_ERROR_UNEXPECTED becomes an exception again, which ends the updator.
RecvBlockThrows ==
    /\ ecall # "none"
    /\ blkPc = "stopped"
    /\ Host!PushThrows
    /\ ecall' = "none"
    /\ UNCHANGED <<svcVars, subVars>>

\* The updator is gone; Geth may be at its bounds.
Terminated ==
    /\ updPc = "stopped"
    /\ UNCHANGED vars

-----------------------------------------------------------------------------
(* Request threads and the heartbeat thread, which call on the enclave at  *)
(* any time.                                                               *)

SubscriberStep ==
    /\ \/ \E c \in Readers, p \in Publishers : Sub!SubReqLookup(c, p)
       \/ \E c \in Readers : Sub!SubReqWork(c) \/ Sub!EmitSwap(c)
       \/ Sub!EmitWork
    /\ UNCHANGED <<hostVars, ecall>>

-----------------------------------------------------------------------------
Ecall ==
    \/ RecvBlock
    \/ AppendBlock
    \/ CheckEvents
    \/ CallbackStep
    \/ NotifyStep
    \/ EnclaveThrows
    \/ RecvBlockReturns
    \/ RecvBlockThrows

Next ==
    \/ UpdatorStep
    \/ GethStep
    \/ Ecall
    \/ SubscriberStep
    \/ Terminated

Spec == Init /\ [][Next]_vars

\* The updator's thread runs, inside the ECALL and outside, Geth answers now
\* and then, and a request thread that can run does, so it gives back the mutex
\* of the store.
Fairness ==
    /\ WF_vars(UpdatorStep \/ Ecall)
    /\ SF_vars(Host!AskLatest /\ UpdatorStep)
    /\ SF_vars(Host!FetchHeader /\ UpdatorStep)
    /\ \A c \in Readers : WF_vars(Sub!SubReqWork(c) /\ SubscriberStep)

FairSpec == Spec /\ Fairness

-----------------------------------------------------------------------------
(* What the two promise together *)

\* The blocks of the enclave are those the host counts as pushed, with the
\* contents of their headers; ahead of them is only the block of a call that
\* is under way or has failed.
SameBlocks ==
    /\ Len(recv) <= Len(chain)
    /\ Len(chain) <= Len(recv) + 1
    /\ Len(chain) > Len(recv) => ecall = "appended" \/ blkPc = "stopped"
    /\ \A i \in DOMAIN recv : chain[i] = Content(recv[i])

\* LatestBlkNum as a subscriber sees it, against the updator's counter: the
\* number of the enclave is that of the block before the one waited for, or
\* of that one while it is being pushed or after its push failed.
NumbersAgree ==
    \/ updPc = "off" /\ lastBlk = 0
    \/ StartBlock + lastBlk = currBlk
    \/ StartBlock + lastBlk = currBlk + 1 /\ updPc \in {"push", "count", "stopped"}

\* The logs of the n-th block pushed.
Logs(n) == Content(recv[n])

\* Manager m was registered in a block before the n-th, after a deployment.
Registered(m, n) ==
    \E d, r \in 1..n : \E i \in DOMAIN Logs(d), j \in DOMAIN Logs(r) :
        /\ d < r /\ r < n
        /\ Logs(d)[i].type = "deploy"
        /\ Logs(r)[j].type = "reg" /\ Logs(r)[j].em = m

\* A block that the host counts as pushed has all its events in the past
\* events that subscribers are served, those of registered managers, whatever
\* the enclave threw before or after and whichever branch the block is on.
CountedStored ==
    \A n \in DOMAIN recv : \A i \in DOMAIN Logs(n) :
        LET log == Logs(n)[i] IN
        log.type = "notify" /\ Registered(log.em, n) =>
            /\ log.em \in DOMAIN pastStore
            /\ \E k \in DOMAIN pastStore[log.em] :
                    pastStore[log.em][k] = [blk |-> n, idx |-> i]

\* The i-th log of the n-th block pushed is an event of c's manager.
EventOf(c, n, i) == Logs(n)[i].type = "notify" /\ Logs(n)[i].em = em[c]

\* It must reach client c: its manager was registered before, and it is not of
\* the block under check when c's listener joined, nor was a copy in a race.
Promised(c, n, i) ==
    EventOf(c, n, i) /\ Registered(em[c], n) /\ n # joined[c] /\ ~lossy[c]

\* From Geth to a subscriber: of the blocks that the host counts as pushed, a
\* client is sent its manager's events and nothing else.  None is missing up to
\* the number in the message before the last, and while the client is served
\* none is lost on the way, whatever fails in between and whether or not the
\* enclave has given up since.
CountedServed ==
    \A c \in Readers, n \in DOMAIN recv :
        /\ \A i \in DOMAIN Logs(n) : Promised(c, n, i) =>
            LET e == [blk |-> n, idx |-> i] IN
            /\ n <= sure[c] => e \in Sub!Delivered(c)
            /\ c \in subs /\ "past" \in got[c] => e \in Sub!Delivered(c) \cup Sub!InFlight(c)
        /\ \A e \in Sub!Delivered(c) : e.blk = n =>
            e.idx \in DOMAIN Logs(n) /\ EventOf(c, n, e.idx)

\* The updator never goes on after the enclave gave up.
StopTogether == blkPc = "stopped" ~> updPc = "stopped"

\* A block that Geth has in the end is handled by the enclave with all its
\* callbacks, unless an exception ended the feed.
Handled(n) == StartBlock + Len(chain) > n /\ blkPc = "idle"

BlocksHandled ==
    \A n \in StartBlock..MaxNum :
        <>[](Len(canon) >= n) => <>(Handled(n) \/ updPc = "stopped")
=============================================================================
