-------------------------- MODULE ReceiptSubscriber --------------------------
(***************************************************************************)
(* Receipt subscriptions (ReceiptSubscriber.hpp): the logs of a contract   *)
(* under chosen topics, collected by a listener and sent by an emitter.    *)
(* Other than Pubsub there is no first response: a subscriber learns from  *)
(* the first heartbeat alone where its feed begins.                        *)
(*                                                                         *)
(* The block thread is AppendBlock of BlockchainMgr, reduced to what these *)
(* listeners see of it.  External, and kept general: the event manager,    *)
(* whose listeners added during a check may miss a leading part of the     *)
(* block, and the heartbeat manager, which runs one emitter at a time.     *)
(***************************************************************************)
EXTENDS Naturals, Sequences, Functions

CONSTANTS
    Clients,      \* one per request: its socket, listener, queue, emitter
    NoClient,     \* the heartbeat thread is between two emitters
    Logs,         \* logs of contracts
    Wants,        \* Wants[c]: those that match the contract and topics of c
    BlockBodies,  \* the logs a block may carry, as sequences of Logs
    MaxBlk        \* bound: blocks appended in a behaviour

ASSUME ClientAssumption == NoClient \notin Clients
ASSUME WantsAssumption  == Wants \in [Clients -> SUBSET Logs]
ASSUME BodiesAssumption == BlockBodies \subseteq Seq(Logs)
ASSUME BoundAssumption  == MaxBlk \in Nat

VARIABLES
    chain,    \* the bodies of the validated blocks
    lastBlk,  \* m_lastValidatedBlkNum
    blkPc,    \* where the block processing thread is
    todo,     \* callbacks <<client, log index>> left in this block
    pc,       \* how far the request of a client is
    subs,     \* clients whose listener is in the event manager
    queue,    \* the client's ThreadedReceiptQueue
    hb,       \* the client whose SubscribedReceiptEmitter runs
    hbPc,     \* what the emitter does next
    hbOut,    \* its outQueue
    hbBlk,    \* its latestBlkNum
    fed,      \* history: the receipts sent
    told,     \* history: the LatestBlkNum of every message sent
    joined    \* history: the last block of which receipts may be missing

block   == <<chain, lastBlk, blkPc>>
emitter == <<hb, hbPc, hbOut, hbBlk>>
sent    == <<fed, told>>
vars    == <<block, todo, pc, subs, queue, emitter, sent, joined>>

Receipt == [blk: Nat, idx: Nat]

TypeOK ==
    /\ chain \in Seq(BlockBodies)
    /\ lastBlk \in Nat
    /\ blkPc \in {"idle", "fetch", "check", "stopped"}
    /\ todo \subseteq Clients \X Nat
    /\ pc \in [Clients -> {"idle", "listen", "add", "live", "rejected", "dropped"}]
    /\ subs \subseteq Clients
    /\ queue \in [Clients -> Seq(Receipt)]
    /\ hb \in Clients \cup {NoClient}
    /\ hbPc \in {"sec", "blk", "send"}
    /\ hbOut \in Seq(Receipt)
    /\ hbBlk \in Nat
    /\ fed \in [Clients -> Seq(Receipt)]
    /\ told \in [Clients -> Seq(Nat)]
    /\ joined \in [Clients -> Nat]

Init ==
    /\ chain = <<>>
    /\ lastBlk = 0
    /\ blkPc = "idle"
    /\ todo = {}
    /\ pc = [c \in Clients |-> "idle"]
    /\ subs = {}
    /\ queue = [c \in Clients |-> <<>>]
    /\ hb = NoClient
    /\ hbPc = "sec"
    /\ hbOut = <<>>
    /\ hbBlk = 0
    /\ fed = [c \in Clients |-> <<>>]
    /\ told = [c \in Clients |-> <<>>]
    /\ joined = [c \in Clients |-> 0]

Body == IF chain = <<>> THEN <<>> ELSE chain[Len(chain)]
Here(i) == [blk |-> Len(chain), idx |-> i]

\* Mutant: the monitor is read without its mutex.
MonitorUnlocked == TRUE

\* AppendBlock holds m_monitorMutex for as long as it handles a block.
MonitorFree == blkPc \in {"idle", "stopped"}

-----------------------------------------------------------------------------
(* The block processing thread *)

\* Mutants: the number of the block before, or of the one before that.
NumberBefore    == Len(chain)
NumberUnderflow == Len(chain) - 1

NextNumber == Len(chain) + 1

\* The number is recorded and CheckEvents begins: the listeners that are there
\* get all of the block, once the receipts tell what that is.
AppendBlock(body) ==
    /\ blkPc = "idle"
    /\ Len(chain) < MaxBlk
    /\ chain' = Append(chain, body)
    /\ lastBlk' = NextNumber
    /\ todo' = {t \in subs \X DOMAIN body : body[t[2]] \in Wants[t[1]]}
    /\ blkPc' = "fetch"
    /\ UNCHANGED <<pc, subs, queue, emitter, sent, joined>>

\* The callback of CheckEvents returns with the receipts: the listeners run.
GetReceipts ==
    /\ blkPc = "fetch"
    /\ blkPc' = "check"
    /\ UNCHANGED <<chain, lastBlk, todo, pc, subs, queue, emitter, sent, joined>>

IsNext(c, i) ==
    /\ <<c, i>> \in todo
    /\ \A j \in DOMAIN Body : <<c, j>> \in todo => i <= j

\* The receipt is copied and pushed under the mutex of the queue.
SubscribedReceiptHandler(c, i) ==
    /\ blkPc = "check"
    /\ IsNext(c, i)
    /\ queue' = [queue EXCEPT ![c] = Append(@, Here(i))]
    /\ todo' = todo \ {<<c, i>>}
    /\ UNCHANGED <<block, pc, subs, emitter, sent, joined>>

\* The event manager may pass over a listener cancelled meanwhile.
SkipCancelled(c, i) ==
    /\ blkPc = "check"
    /\ <<c, i>> \in todo
    /\ c \notin subs
    /\ todo' = todo \ {<<c, i>>}
    /\ UNCHANGED <<block, pc, subs, queue, emitter, sent, joined>>

BlockDone ==
    /\ blkPc = "check"
    /\ todo = {}
    /\ blkPc' = "idle"
    /\ UNCHANGED <<chain, lastBlk, todo, pc, subs, queue, emitter, sent, joined>>

\* An exception ends the update and, in the host, the feed of blocks.
BlockThrow ==
    /\ blkPc # "stopped"
    /\ blkPc' = "stopped"
    /\ todo' = {}
    /\ UNCHANGED <<chain, lastBlk, pc, subs, queue, emitter, sent, joined>>

-----------------------------------------------------------------------------
(* ReceiptSubReq *)

\* 1. and 2. the contract and the topics: refused if a length is wrong.
ReceiptSubReqParse(c) ==
    /\ pc[c] = "idle"
    /\ \E next \in {"listen", "rejected"} : pc' = [pc EXCEPT ![c] = next]
    /\ UNCHANGED <<block, todo, subs, queue, emitter, sent, joined>>

\* CheckEvents is under way, while it fetches the receipts too.
Checking == blkPc \in {"fetch", "check"}

\* 3. subscribe: from the next check on, and from some point k of one under
\* way, which may be past its end.
ReceiptSubReqListen(c, k) ==
    /\ pc[c] = "listen"
    /\ pc' = [pc EXCEPT ![c] = "add"]
    /\ subs' = subs \cup {c}
    /\ todo' = IF Checking
               THEN todo \cup {<<c, i>> : i \in {j \in DOMAIN Body : j > k /\ Body[j] \in Wants[c]}}
               ELSE todo
    /\ joined' = [joined EXCEPT ![c] = Len(chain)]
    /\ UNCHANGED <<block, queue, emitter, sent>>

\* 4. set up the heartbeat emitter.
ReceiptSubReqAddEmitter(c) ==
    /\ pc[c] = "add"
    /\ pc' = [pc EXCEPT ![c] = "live"]
    /\ UNCHANGED <<block, todo, subs, queue, emitter, sent, joined>>

-----------------------------------------------------------------------------
(* SubscribedReceiptEmitter, run by the heartbeat thread *)

\* Mutants: one receipt is taken and the rest dropped; the queue is copied
\* and not reset.
TakeOne(q)  == IF q = <<>> THEN q ELSE <<Head(q)>>
LeaveAll(q) == q

Taken(q) == q
Left(q)  == <<>>

EmitSwap(c) ==
    /\ hb = NoClient
    /\ pc[c] = "live"
    /\ hb' = c
    /\ hbPc' = "sec"
    /\ hbOut' = Taken(queue[c])
    /\ queue' = [queue EXCEPT ![c] = Left(@)]
    /\ UNCHANGED <<block, todo, pc, subs, hbBlk, sent, joined>>

EmitSecState ==
    /\ hb # NoClient
    /\ hbPc = "sec"
    /\ MonitorFree
    /\ hbPc' = "blk"
    /\ UNCHANGED <<block, todo, pc, subs, queue, hb, hbOut, hbBlk, sent, joined>>

EmitBlkNum ==
    /\ hb # NoClient
    /\ hbPc = "blk"
    /\ MonitorFree
    /\ hbBlk' = lastBlk
    /\ hbPc' = "send"
    /\ UNCHANGED <<block, todo, pc, subs, queue, hb, hbOut, sent, joined>>

Remember(t, n) == IF t = <<>> THEN <<n>> ELSE <<t[1], t[Len(t)], n>>

\* The emitter returns and its variables are gone.
HeartbeatFree == hb' = NoClient /\ hbPc' = "sec" /\ hbOut' = <<>> /\ hbBlk' = 0

EmitSend ==
    /\ hb # NoClient
    /\ hbPc = "send"
    /\ fed' = [fed EXCEPT ![hb] = @ \o hbOut]
    /\ told' = [told EXCEPT ![hb] = Remember(@, hbBlk)]
    /\ HeartbeatFree
    /\ UNCHANGED <<block, todo, pc, subs, queue, joined>>

\* Mutant: the exception goes on without the listener being cancelled.
CancelNone == subs

Cancelled == subs \ {hb}

\* The send throws: the listener is cancelled, and the emitter forgotten.
EmitFail ==
    /\ hb # NoClient
    /\ hbPc = "send"
    /\ subs' = Cancelled
    /\ pc' = [pc EXCEPT ![hb] = "dropped"]
    /\ HeartbeatFree
    /\ UNCHANGED <<block, todo, queue, sent, joined>>

-----------------------------------------------------------------------------
\* The block thread is done for good and so are all clients.
Terminated ==
    /\ blkPc = "stopped"
    /\ \A c \in Clients : pc[c] \in {"rejected", "dropped"}
    /\ hb = NoClient
    /\ UNCHANGED vars

BlockWork ==
    \/ \E body \in BlockBodies : AppendBlock(body)
    \/ GetReceipts
    \/ \E c \in Clients : \E i \in DOMAIN Body :
        SubscribedReceiptHandler(c, i) \/ SkipCancelled(c, i)
    \/ BlockDone
    \/ BlockThrow

RequestWork(c) ==
    \/ \E k \in 0..Len(Body) : ReceiptSubReqListen(c, k)
    \/ ReceiptSubReqAddEmitter(c)

EmitWork ==
    \/ EmitSecState
    \/ EmitBlkNum
    \/ EmitSend
    \/ EmitFail

Next ==
    \/ BlockWork
    \/ \E c \in Clients : ReceiptSubReqParse(c)
    \/ \E c \in Clients : RequestWork(c)
    \/ \E c \in Clients : EmitSwap(c)
    \/ EmitWork
    \/ Terminated

Spec == Init /\ [][Next]_vars

\* As in Pubsub: a block begun is worked through, the threads get the
\* mutexes again and again, and the heartbeat comes back to every emitter.
Fairness ==
    /\ WF_vars(blkPc # "idle" /\ BlockWork)
    /\ \A c \in Clients : WF_vars(RequestWork(c)) /\ SF_vars(EmitSwap(c))
    /\ SF_vars(EmitWork)

FairSpec == Spec /\ Fairness

-----------------------------------------------------------------------------
(* What a subscriber is promised *)

\* The receipts client c asked for in the blocks handled so far.
Done == IF blkPc = "idle" THEN Len(chain) ELSE Len(chain) - 1

Wanted(c) ==
    {r \in UNION {{[blk |-> n, idx |-> i] : i \in DOMAIN chain[n]} : n \in 1..Done} :
        chain[r.blk][r.idx] \in Wants[c]}

Before(r, s) == r.blk < s.blk \/ (r.blk = s.blk /\ r.idx < s.idx)

Increasing(s) == \A i, j \in DOMAIN s : i < j => Before(s[i], s[j])

InFlight(c) == (IF hb = c THEN hbOut ELSE <<>>) \o queue[c]

\* Every receipt is sent at most once and in chain order, and belongs to the
\* client, across the hand-over from the queue to the message.
FeedExact ==
    \A c \in Clients :
        /\ Increasing(fed[c] \o InFlight(c))
        /\ \A r \in Range(fed[c] \o InFlight(c)) : chain[r.blk][r.idx] \in Wants[c]

\* No message carries a receipt of a block beyond its own LatestBlkNum.
NotAhead ==
    \A c \in Clients : \A r \in Range(fed[c]) : r.blk <= told[c][Len(told[c])]

\* What a subscriber may rely on without knowing when its listener was added:
\* past the LatestBlkNum of its first message, it has every receipt of the
\* blocks up to the LatestBlkNum of the message before the last.
Reliable ==
    \A c \in Clients : Len(told[c]) = 3 =>
        \A r \in Wanted(c) : told[c][1] < r.blk /\ r.blk <= told[c][2] => r \in Range(fed[c])

\* The receipts on the chain, handled or not, whose logs are in a set.
LogOf(logs) ==
    {r \in UNION {{[blk |-> n, idx |-> i] : i \in DOMAIN chain[n]} : n \in DOMAIN chain} :
        chain[r.blk][r.idx] \in logs}

Feed == INSTANCE EventFeed WITH
    Topics <- {Wants[c] : c \in Clients},
    log <- [logs \in {Wants[c] : c \in Clients} |-> LogOf(logs)],
    feed <- fed,
    told <- [c \in Clients |-> IF told[c] = <<>> THEN 0 ELSE told[c][Len(told[c])]]

\* The messages to a subscriber are those of an EventFeed, as in Pubsub: from
\* the first receipt sent to the last, every one on the chain that matches the
\* request, each once, in order, under a number that covers it.
FeedSpec == Feed!Spec

\* A listener is in the event manager exactly as long as an emitter will
\* empty its queue: unlike in Pubsub nothing can fail in between.
ServedIffListening ==
    \A c \in Clients : c \in subs <=> pc[c] \in {"add", "live"}

\* Every receipt a live subscriber asked for is sent, or its connection broke.
ReceiptsArrive ==
    \A c \in Clients, n \in 1..MaxBlk, i \in UNION {DOMAIN b : b \in BlockBodies} :
        LET r == [blk |-> n, idx |-> i] IN
        pc[c] = "live" /\ r \in Wanted(c) /\ joined[c] < n
            ~> r \in Range(fed[c]) \/ pc[c] = "dropped"
=============================================================================
