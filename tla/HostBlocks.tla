----------------------------- MODULE HostBlocks -----------------------------
(***************************************************************************)
(* The untrusted host that feeds block headers to the enclave:             *)
(* HostBlockService with its two tasks, BlockUpdatorServiceTask and        *)
(* HostBlockStatusLogTask, each on a thread of its own.                    *)
(*                                                                         *)
(* External: the Geth node, whose chain grows, is reorganised and whose    *)
(* requests may fail; the enclave, which takes a header or throws; and     *)
(* TickingTask, which runs Tick again and again, after a wait while the    *)
(* interval is enabled, and ends when Tick throws.                         *)
(***************************************************************************)
EXTENDS Integers, Sequences

CONSTANTS
    StartBlock,  \* the first block to push
    MaxNum,      \* bound: height of the chain
    MaxReorgs    \* bound: reorganisations in a behaviour

ASSUME StartAssumption == StartBlock \in Nat \ {0}
ASSUME HostBoundAssumption == MaxNum \in Nat /\ MaxReorgs \in Nat

VARIABLES
    canon,       \* Geth: canon[n] is the branch that block n was mined on
    reorgs,      \* Geth: reorganisations so far, the branch mined on now
    currBlk,     \* m_currBlockNum
    updPc,       \* where BlockUpdatorServiceTask is in Tick
    hdr,         \* headerRlp
    interval,    \* IsTickIntervalEnabled()
    lastLogged,  \* m_lastBlockNum of the status task
    recv         \* history: the headers the enclave took

geth == <<canon, reorgs>>
upd  == <<currBlk, updPc, hdr, interval>>
vars == <<geth, upd, lastLogged, recv>>

Header == [num: Nat, branch: Nat]
NoHeader == [num |-> 0, branch |-> 0]

\* Mutant: the operands are swapped.
DiffSwapped == lastLogged - currBlk

\* What the status task would print now; unsigned in the code.
Diff == currBlk - lastLogged

TypeOK ==
    /\ canon \in Seq(Nat)
    /\ reorgs \in Nat
    /\ currBlk \in Nat
    /\ updPc \in {"off", "wait", "ask", "header", "push", "count", "stopped"}
    /\ hdr \in Header
    /\ interval \in BOOLEAN
    /\ lastLogged \in Nat
    /\ Diff \in Nat
    /\ recv \in Seq(Header)

Init ==
    /\ canon = <<>>
    /\ reorgs = 0
    /\ currBlk = 0
    /\ updPc = "off"
    /\ hdr = NoHeader
    /\ interval = FALSE
    /\ lastLogged = 0
    /\ recv = <<>>

-----------------------------------------------------------------------------
(* Geth *)

Mine ==
    /\ Len(canon) < MaxNum
    /\ canon' = Append(canon, reorgs)
    /\ UNCHANGED <<reorgs, upd, lastLogged, recv>>

\* Another branch wins from block n on.
Reorg(n) ==
    /\ reorgs < MaxReorgs
    /\ reorgs' = reorgs + 1
    /\ canon' = Append(SubSeq(canon, 1, n - 1), reorgs + 1)
    /\ UNCHANGED <<upd, lastLogged, recv>>

-----------------------------------------------------------------------------
(* The tasks as main starts and stops them *)

\* Refused if the counter was set before.  Both tasks are made, the updater
\* without an interval.
StartSendingBlocks ==
    /\ currBlk = 0
    /\ currBlk' = StartBlock
    /\ updPc' = "ask"
    /\ UNCHANGED <<geth, hdr, interval, lastLogged, recv>>

\* ThreadPool::Terminate: a TickingTask ends between two ticks.
StopUpdator ==
    /\ updPc \in {"wait", "ask"}
    /\ updPc' = "stopped"
    /\ UNCHANGED <<geth, currBlk, hdr, interval, lastLogged, recv>>

-----------------------------------------------------------------------------
(* BlockUpdatorServiceTask::Tick and HostBlockService::TryPushNewBlock *)

\* TickingTask waits before the next tick while the interval is enabled.
NextTick(enabled) == updPc' = IF enabled THEN "wait" ELSE "ask"

Wake ==
    /\ updPc = "wait"
    /\ updPc' = "ask"
    /\ UNCHANGED <<geth, currBlk, hdr, interval, lastLogged, recv>>

\* TryPushNewBlock returned false.
TickFalse ==
    /\ interval' = TRUE
    /\ NextTick(TRUE)
    /\ UNCHANGED <<geth, currBlk, hdr, lastLogged, recv>>

\* Mutant: the latest block itself does not count.
AvailableBefore == Len(canon) > currBlk

Available == Len(canon) >= currBlk

\* The latest block number is smaller than the one waited for.
NothingNew ==
    /\ updPc = "ask"
    /\ ~Available
    /\ TickFalse

\* A request to Geth throws: the latest number, or the header, which is also
\* missing when the chain became shorter in between.
GethFails ==
    /\ updPc \in {"ask", "header"}
    /\ TickFalse

AskLatest ==
    /\ updPc = "ask"
    /\ Available
    /\ updPc' = "header"
    /\ UNCHANGED <<geth, currBlk, hdr, interval, lastLogged, recv>>

FetchHeader ==
    /\ updPc = "header"
    /\ Len(canon) >= currBlk
    /\ hdr' = [num |-> currBlk, branch |-> canon[currBlk]]
    /\ updPc' = "push"
    /\ UNCHANGED <<geth, currBlk, interval, lastLogged, recv>>

PushBlock ==
    /\ updPc = "push"
    /\ recv' = Append(recv, hdr)
    /\ updPc' = "count"
    /\ UNCHANGED <<geth, currBlk, hdr, interval, lastLogged>>

\* The enclave rejects the block or is gone; nothing catches the exception.
PushThrows ==
    /\ updPc = "push"
    /\ updPc' = "stopped"
    /\ UNCHANGED <<geth, currBlk, hdr, interval, lastLogged, recv>>

\* Mutant: go on behind the latest block.
SkipToLatest == Len(canon) + 1

NextBlk == currBlk + 1

CountBlock ==
    /\ updPc = "count"
    /\ currBlk' = NextBlk
    /\ interval' = FALSE
    /\ NextTick(FALSE)
    /\ UNCHANGED <<geth, hdr, lastLogged, recv>>

-----------------------------------------------------------------------------
(* HostBlockStatusLogTask::Tick *)

\* Prints Diff as a rate.
LogStatus ==
    /\ updPc # "off"
    /\ lastLogged' = currBlk
    /\ UNCHANGED <<geth, upd, recv>>

-----------------------------------------------------------------------------
Tick ==
    \/ Wake
    \/ NothingNew
    \/ GethFails
    \/ AskLatest
    \/ FetchHeader
    \/ PushBlock
    \/ PushThrows
    \/ CountBlock

Next ==
    \/ Mine
    \/ \E n \in DOMAIN canon : Reorg(n)
    \/ StartSendingBlocks
    \/ StopUpdator
    \/ Tick
    \/ LogStatus

Spec == Init /\ [][Next]_vars

-----------------------------------------------------------------------------
\* The enclave is given every block number from StartBlock on once and in
\* order, whatever fails and however the chain is reorganised meanwhile.
Consecutive ==
    \A i \in DOMAIN recv : recv[i].num = StartBlock + i - 1

\* The counter that the status task reads on another thread lags behind the
\* enclave by at most the block being counted.
CounterLag ==
    updPc # "off" =>
        Len(recv) - (currBlk - StartBlock) = IF updPc = "count" THEN 1 ELSE 0

\* "Failed to push a new block to the enclave, wait for a while before
\* retry": a push that failed leaves the updater waiting.
RetriesAfterWait == [][PushThrows => interval' /\ updPc' = "wait"]_vars
=============================================================================
