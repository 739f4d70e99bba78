------------------------- MODULE SubscriberService -------------------------
(***************************************************************************)
(* The pub/sub side of the enclave as the block processing thread drives   *)
(* it: BlockchainMgr::AppendBlock takes the monitor mutex and, through     *)
(* OnHeaderValidated, hands the block to the event manager, which runs the *)
(* callbacks of SubscriberService: deployment, registration and past       *)
(* events.  Request threads read the two stores meanwhile.                 *)
(*                                                                         *)
(* The event manager is external (the EclipseMonitor submodule), so it is  *)
(* kept as general as its users allow: the callbacks of one listener run   *)
(* in log order, those of different listeners in any order, and a listener *)
(* added while a block is checked may miss any leading part of its logs.   *)
(***************************************************************************)
EXTENDS Naturals, Sequences, FiniteSets, Functions

CONSTANTS
    Publishers,   \* publisher contract addresses
    EvMgrs,       \* event manager contract addresses
    NoAddr,       \* ContractAddr(): the zero address
    BlockBodies,  \* the logs a block may carry, as sequences of Log
    MaxBlk,       \* bound: blocks appended in a behaviour
    Readers,      \* threads that serve subscribe requests
    NoReader      \* nobody holds the past-event-store mutex

DeployLogs == [type: {"deploy"}]
RegLogs    == [type: {"reg"}, pub: Publishers, em: EvMgrs]
NotifyLogs == [type: {"notify"}, em: EvMgrs]
Log        == DeployLogs \cup RegLogs \cup NotifyLogs

ASSUME BoundAssumption  == MaxBlk \in Nat
ASSUME BodiesAssumption == BlockBodies \subseteq Seq(Log)
ASSUME NoAddrAssumption == NoAddr \notin EvMgrs
ASSUME ReaderAssumption == NoReader \notin Readers

\* An event is known by the place of its log: block number and log index.
Event == [blk: Nat, idx: Nat]

DeployListener   == [kind |-> "deploy"]
RegListener      == [kind |-> "reg"]
\* `at' is the registration log whose handler installed the listener.
PastListener(m, at) == [kind |-> "past", em |-> m, at |-> at]
Listener == {DeployListener, RegListener} \cup
            [kind: {"past"}, em: EvMgrs, at: Event]

\* Topics and contract address of a listener's description against a log.
Matches(l, log) ==
    \/ l.kind = "deploy" /\ log.type = "deploy"
    \/ l.kind = "reg" /\ log.type = "reg"
    \/ l.kind = "past" /\ log.type = "notify" /\ l.em = log.em

VARIABLES
    chain,         \* the bodies of the validated blocks; block n is chain[n]
    lastBlk,       \* m_lastValidatedBlkNum
    blkPc,         \* where the block processing thread is
    cur,           \* index of the log whose handler is under way
    listeners,     \* SubscriberService's listeners in the event manager
    todo,          \* callbacks <<listener, log index>> left in this block
    isDeployed,    \* m_isDeployed
    evMgrAddrMap,  \* m_evMgrAddrMap, NoAddr where there is no entry
    pastStore,     \* m_pastEventStore, one queue per registered manager
    copy           \* the GetPastEvents under way, who holds the store mutex

svcVars == <<chain, lastBlk, blkPc, cur, listeners, todo,
             isDeployed, evMgrAddrMap, pastStore, copy>>

NoCopy == [by |-> NoReader, em |-> NoAddr, raced |-> FALSE]

SvcTypeOK ==
    /\ chain \in Seq(BlockBodies)
    /\ lastBlk \in Nat
    /\ blkPc \in {"idle", "fetch", "check", "regStore", "regListen", "push", "stopped"}
    /\ cur \in Nat
    /\ listeners \subseteq Listener
    /\ todo \subseteq Listener \X Nat
    /\ isDeployed \in BOOLEAN
    /\ evMgrAddrMap \in [Publishers -> EvMgrs \cup {NoAddr}]
    /\ DOMAIN pastStore \subseteq EvMgrs
    /\ pastStore \in [DOMAIN pastStore -> Seq(Event)]
    /\ copy \in [by: Readers \cup {NoReader}, em: EvMgrs \cup {NoAddr}, raced: BOOLEAN]

SvcInit ==
    /\ chain = <<>>
    /\ lastBlk = 0
    /\ blkPc = "idle"
    /\ cur = 0
    /\ listeners = {DeployListener}   \* SubscriberService::Start
    /\ todo = {}
    /\ isDeployed = FALSE
    /\ evMgrAddrMap = [p \in Publishers |-> NoAddr]
    /\ pastStore = [m \in {} |-> <<>>]
    /\ copy = NoCopy

\* The logs of the block under way.
Body == IF chain = <<>> THEN <<>> ELSE chain[Len(chain)]
Here(i) == [blk |-> Len(chain), idx |-> i]

\* Mutants: the monitor is read without its mutex; the mutex is not released
\* when the update throws.
MonitorUnlocked == TRUE
MonitorKeptOnThrow == blkPc = "idle"

\* AppendBlock holds m_monitorMutex for as long as it handles a block.
MonitorFree == blkPc \in {"idle", "stopped"}
StoreFree   == copy.by = NoReader

-----------------------------------------------------------------------------
(* The block processing thread *)

\* A contract is deployed at its address once.
DeployedOnce(blocks) ==
    \A m, n \in DOMAIN blocks : \A i \in DOMAIN blocks[m], j \in DOMAIN blocks[n] :
        blocks[m][i].type = "deploy" /\ blocks[n][j].type = "deploy"
            => m = n /\ i = j

\* Mutants: the number is one less, that of the block before, or narrow.
NumberUnderflow == Len(chain) - 1
NumberBefore    == Len(chain)
NumberNarrow    == (Len(chain) + 1) % 4

NextNumber == Len(chain) + 1

\* The header passes validation; the block number is recorded before any
\* event of the block is looked at.
AppendBlock(body) ==
    /\ blkPc = "idle"
    /\ Len(chain) < MaxBlk
    /\ DeployedOnce(Append(chain, body))
    /\ chain' = Append(chain, body)
    /\ lastBlk' = NextNumber
    /\ blkPc' = "fetch"
    /\ UNCHANGED <<cur, listeners, todo, isDeployed, evMgrAddrMap, pastStore, copy>>

\* CheckEvents has the receipts, which it gets by a callback, and runs its
\* listeners.  When it picked them makes no difference for the service's own:
\* only their handlers, later in this thread, add or cancel one.
CheckEvents ==
    /\ blkPc = "fetch"
    /\ todo' = {c \in listeners \X DOMAIN Body : Matches(c[1], Body[c[2]])}
    /\ blkPc' = "check"
    /\ UNCHANGED <<chain, lastBlk, cur, listeners, isDeployed, evMgrAddrMap, pastStore, copy>>

\* <<l, i>> is the callback that listener l runs next.
IsNext(l, i) ==
    /\ <<l, i>> \in todo
    /\ \A j \in DOMAIN Body : <<l, j>> \in todo => i <= j

\* What a listener added during the check gets of this block: the logs past
\* some point k.
JoinFrom(l, k) == {<<l, i>> : i \in {j \in DOMAIN Body : j > k /\ Matches(l, Body[j])}}

\* Mutant: the handler cancels its listener and starts no other.
OnlyCancel == listeners \ {DeployListener}

AfterDeploy == (listeners \ {DeployListener}) \cup {RegListener}

DeployEventHandler(i, k) ==
    /\ blkPc = "check"
    /\ IsNext(DeployListener, i)
    /\ isDeployed' = TRUE
    /\ listeners' = AfterDeploy
    /\ todo' = (todo \ {<<DeployListener, i>>}) \cup JoinFrom(RegListener, k)
    /\ UNCHANGED <<chain, lastBlk, blkPc, cur, evMgrAddrMap, pastStore, copy>>

\* Mutant: emplace instead of assignment, the first address stays.
AddressKept(p, m) ==
    IF evMgrAddrMap[p] = NoAddr THEN [evMgrAddrMap EXCEPT ![p] = m] ELSE evMgrAddrMap

Address(p, m) == [evMgrAddrMap EXCEPT ![p] = m]

\* RegEventHandler, in three steps: under m_evMgrAddrMapMutex ...
RegEventHandler(i) ==
    /\ blkPc = "check"
    /\ IsNext(RegListener, i)
    /\ evMgrAddrMap' = Address(Body[i].pub, Body[i].em)
    /\ todo' = todo \ {<<RegListener, i>>}
    /\ cur' = i
    /\ blkPc' = "regStore"
    /\ UNCHANGED <<chain, lastBlk, listeners, isDeployed, pastStore, copy>>

\* Mutant: assignment instead of emplace, a queue that is there is replaced.
QueueReplaced(m) ==
    [e \in DOMAIN pastStore \cup {m} |-> IF e = m THEN <<>> ELSE pastStore[e]]

\* ... under m_pastEventStoreMutex, where emplace keeps a queue that is there ...
Emplace(m) ==
    [e \in DOMAIN pastStore \cup {m} |->
        IF e \in DOMAIN pastStore THEN pastStore[e] ELSE <<>>]

RegEventStore ==
    /\ blkPc = "regStore"
    /\ StoreFree
    /\ pastStore' = Emplace(Body[cur].em)
    /\ blkPc' = "regListen"
    /\ UNCHANGED <<chain, lastBlk, cur, listeners, todo, isDeployed, evMgrAddrMap, copy>>

\* ... and Listen on the new event manager.
RegEventListen(k) ==
    LET l == PastListener(Body[cur].em, Here(cur)) IN
    /\ blkPc = "regListen"
    /\ listeners' = listeners \cup {l}
    /\ todo' = todo \cup JoinFrom(l, k)
    /\ blkPc' = "check"
    /\ UNCHANGED <<chain, lastBlk, cur, isDeployed, evMgrAddrMap, pastStore, copy>>

\* NotifyPastEventHandler finds the queue under the store mutex ...
NotifyPastFind(l, i) ==
    /\ blkPc = "check"
    /\ l.kind = "past"
    /\ IsNext(l, i)
    /\ StoreFree
    /\ todo' = todo \ {<<l, i>>}
    /\ cur' = i
    /\ blkPc' = IF Body[i].em \in DOMAIN pastStore THEN "push" ELSE "check"
    /\ UNCHANGED <<chain, lastBlk, listeners, isDeployed, evMgrAddrMap, pastStore, copy>>

\* Mutant: a new event goes to the front.
PushFront(q, e) == <<e>> \o q

PushBack(q, e) == Append(q, e)

\* ... and pushes under the queue's own mutex, which no reader takes.
NotifyPastPush ==
    LET m == Body[cur].em IN
    /\ blkPc = "push"
    /\ pastStore' = [pastStore EXCEPT ![m] = PushBack(@, Here(cur))]
    /\ copy' = [copy EXCEPT !.raced = @ \/ (copy.by # NoReader /\ copy.em = m)]
    /\ blkPc' = "check"
    /\ UNCHANGED <<chain, lastBlk, cur, listeners, todo, isDeployed, evMgrAddrMap>>

\* All callbacks ran; the monitor mutex is released.
BlockDone ==
    /\ blkPc = "check"
    /\ todo = {}
    /\ blkPc' = "idle"
    /\ UNCHANGED <<chain, lastBlk, cur, listeners, todo, isDeployed, evMgrAddrMap, pastStore, copy>>

\* An exception ends the update: the header is rejected ("idle"), the
\* receipts cannot be had ("fetch"), a log does not parse or the bootstrap
\* plan cannot be refreshed ("check").  The mutex is released and the thread
\* that pushes blocks ends.
BlockThrow ==
    /\ blkPc \in {"idle", "fetch", "check"}
    /\ blkPc' = "stopped"
    /\ todo' = {}
    /\ UNCHANGED <<chain, lastBlk, cur, listeners, isDeployed, evMgrAddrMap, pastStore, copy>>

-----------------------------------------------------------------------------
(* Reads by the request threads *)

GetEventMgrAddr(p) == evMgrAddrMap[p]

\* GetPastEvents holds the store mutex, and not the queue's, while it copies.
GetPastEventsBegin(r, m) ==
    /\ StoreFree
    /\ copy' = [by |-> r, em |-> m, raced |-> FALSE]
    /\ UNCHANGED <<chain, lastBlk, blkPc, cur, listeners, todo, isDeployed, evMgrAddrMap, pastStore>>

\* Mutant: the store mutex is not released.
GetPastEventsLocked(r) == copy.by = r /\ UNCHANGED svcVars

GetPastEventsEnd(r) ==
    /\ copy.by = r
    /\ copy' = NoCopy
    /\ UNCHANGED <<chain, lastBlk, blkPc, cur, listeners, todo, isDeployed, evMgrAddrMap, pastStore>>

\* What the copy may return: the queue, and any prefix of it when a push
\* overlapped the copy (a data race; that it may also crash is left out).
CopyResults ==
    LET q == IF copy.em \in DOMAIN pastStore THEN pastStore[copy.em] ELSE <<>>
    IN IF copy.raced THEN {SubSeq(q, 1, n) : n \in 0..Len(q)} ELSE {q}

-----------------------------------------------------------------------------
BlockThread ==
    \/ \E body \in BlockBodies : AppendBlock(body)
    \/ CheckEvents
    \/ \E i \in DOMAIN Body, k \in 0..Len(Body) : DeployEventHandler(i, k)
    \/ \E i \in DOMAIN Body : RegEventHandler(i)
    \/ RegEventStore
    \/ \E k \in 0..Len(Body) : RegEventListen(k)
    \/ \E l \in listeners : \E i \in DOMAIN Body : NotifyPastFind(l, i)
    \/ NotifyPastPush
    \/ BlockDone
    \/ BlockThrow

SvcNext ==
    \/ BlockThread
    \/ \E r \in Readers, m \in EvMgrs : GetPastEventsBegin(r, m)
    \/ \E r \in Readers : GetPastEventsEnd(r)

SvcSpec == SvcInit /\ [][SvcNext]_svcVars

-----------------------------------------------------------------------------
(* What the stores promise *)

\* The blocks whose events are all handled.
Done == IF blkPc = "idle" THEN Len(chain) ELSE Len(chain) - 1

LogAt(e) == chain[e.blk][e.idx]

\* The logs of one type in the blocks handled so far.
Handled(type) ==
    {e \in UNION {{[blk |-> n, idx |-> i] : i \in DOMAIN chain[n]} : n \in 1..Done} :
        LogAt(e).type = type}

\* The registrations the service must know: those in a block after the one
\* that deployed the contract.
Registrations ==
    {r \in Handled("reg") : \E d \in Handled("deploy") : d.blk < r.blk}

\* The events the service must have kept for a manager: those in a block
\* after one that registered it.
Owed(m) ==
    {e \in Handled("notify") :
        LogAt(e).em = m /\ \E r \in Registrations : LogAt(r).em = m /\ r.blk < e.blk}

Before(e, f) == e.blk < f.blk \/ (e.blk = f.blk /\ e.idx < f.idx)

Increasing(s) == \A i, j \in DOMAIN s : i < j => Before(s[i], s[j])

\* No event is lost on the way from the deployment over the registration to
\* the past-event store (the "past events" that a subscriber is served).
PastComplete ==
    \A m \in EvMgrs : Owed(m) # {} =>
        m \in DOMAIN pastStore /\ Owed(m) \subseteq Range(pastStore[m])

\* The logs of the chain, handled or not.
OnChain == UNION {{[blk |-> n, idx |-> i] : i \in DOMAIN chain[n]} : n \in DOMAIN chain}

RegLogsOf(m) == {r \in OnChain : LogAt(r).type = "reg" /\ LogAt(r).em = m}

\* The places of event e in the queue of manager m.
Copies(m, e) == {i \in DOMAIN pastStore[m] : pastStore[m][i] = e}

\* A listener may also get what stands before its registration in that block.
RegsUpTo(m, e) == {r \in RegLogsOf(m) : r.blk <= e.blk}

\* Past events are stored block after block, and each no more often than its
\* manager was registered up to its block: each registration adds one
\* listener, in the middle of a check.  With a single one they are in chain
\* order.
PastOrdered ==
    \A m \in DOMAIN pastStore :
        LET past == pastStore[m]
        IN  /\ \A i, j \in DOMAIN past : i < j => past[i].blk <= past[j].blk
            /\ \A e \in Range(past) : Cardinality(Copies(m, e)) <= Cardinality(RegsUpTo(m, e))
            /\ Cardinality(RegLogsOf(m)) = 1 => Increasing(past)

\* Between blocks, a publisher's address is the one it registered last.
AddrLatest ==
    blkPc = "idle" => \A r \in Registrations :
        \/ evMgrAddrMap[LogAt(r).pub] = LogAt(r).em
        \/ \E s \in Registrations : LogAt(s).pub = LogAt(r).pub /\ Before(r, s)

\* A queue of past events only ever grows at its end: a manager that is
\* registered again keeps what was stored.
PastGrows ==
    [][\A m \in DOMAIN pastStore :
        /\ m \in DOMAIN pastStore'
        /\ \E n \in 0..Len(pastStore'[m]) : pastStore[m] = SubSeq(pastStore'[m], 1, n)]_svcVars

\* "Shared between the Registered handler [...] and the heartbeat emitter": no
\* other thread reads a queue while the block thread pushes to it.
NoQueueRace == ~copy.raced
=============================================================================
