------------------------------- MODULE Pubsub -------------------------------
(***************************************************************************)
(* Subscribers of the enclave: the threads that serve SubReq, the          *)
(* heartbeat thread that runs EmitterHandler, and the block thread of      *)
(* SubscriberService, which also runs each subscriber's NotifyEventHandler *)
(* (SubscriberHandler.hpp).  One client stands for one subscribe request,  *)
(* its socket and the emitter made for it.                                 *)
(*                                                                         *)
(* HeartbeatEmitterMgr and the thread pool are external (DecentEnclave):   *)
(* one thread runs the emitters, one after the other in any order, and     *)
(* forgets an emitter that throws.                                         *)
(***************************************************************************)
EXTENDS SubscriberService

CONSTANT NoClient  \* the heartbeat thread is between two emitters

Clients == Readers

\* The arguments of BuildEmittedMsg: GetMonitorSecState(),
\* GetLastValidatedBlkNum(), GetPastEvents().  C++ leaves their order to the
\* compiler.
Args == {"sec", "blk", "past"}

ASSUME ClientAssumption == NoClient \notin Clients

VARIABLES
    pc,       \* how far the request of a client is
    em,       \* eventMgrAddr, the manager subscribed to
    subs,     \* clients whose listener is in the event manager
    subTodo,  \* callbacks <<client, log index>> left in this block
    queue,    \* the client's ThreadedEventQueue
    got,      \* the arguments evaluated for the first response
    resp,     \* their values: LatestBlkNum and Events
    hb,       \* the client whose EmitterHandler runs
    hbOut,    \* its outEvQueue
    hbGot,    \* the arguments evaluated for its message
    hbBlk,    \* the value of LatestBlkNum among them
    fed,      \* history: the events of the heartbeat messages sent
    told,     \* history: LatestBlkNum of the last message sent
    sure,     \* history: LatestBlkNum of the message before that
    joined,   \* history: the block under check when the listener was added,
              \* until a read of the monitor has waited for its end
    lossy     \* history: the past events were copied in a data race

subVars == <<pc, em, subs, subTodo, queue, got, resp, hb, hbOut, hbGot, hbBlk,
             fed, told, sure, joined, lossy>>
vars == <<svcVars, subVars>>

TypeOK ==
    /\ SvcTypeOK
    /\ pc \in [Clients -> {"idle", "listen", "read", "copy", "add", "live",
                           "rejected", "failed", "dropped"}]
    /\ em \in [Clients -> EvMgrs \cup {NoAddr}]
    /\ subs \subseteq Clients
    /\ subTodo \subseteq Clients \X Nat
    /\ queue \in [Clients -> Seq(Event)]
    /\ got \in [Clients -> SUBSET Args]
    /\ resp \in [Clients -> [blk: Nat, past: Seq(Event)]]
    /\ hb \in Clients \cup {NoClient}
    /\ hbOut \in Seq(Event)
    /\ hbGot \subseteq Args
    /\ hbBlk \in Nat
    /\ fed \in [Clients -> Seq(Event)]
    /\ told \in [Clients -> Nat]
    /\ sure \in [Clients -> Nat]
    /\ joined \in [Clients -> Nat]
    /\ lossy \in [Clients -> BOOLEAN]

Init ==
    /\ SvcInit
    /\ pc = [c \in Clients |-> "idle"]
    /\ em = [c \in Clients |-> NoAddr]
    /\ subs = {}
    /\ subTodo = {}
    /\ queue = [c \in Clients |-> <<>>]
    /\ got = [c \in Clients |-> {}]
    /\ resp = [c \in Clients |-> [blk |-> 0, past |-> <<>>]]
    /\ hb = NoClient
    /\ hbOut = <<>>
    /\ hbGot = {}
    /\ hbBlk = 0
    /\ fed = [c \in Clients |-> <<>>]
    /\ told = [c \in Clients |-> 0]
    /\ sure = [c \in Clients |-> 0]
    /\ joined = [c \in Clients |-> 0]
    /\ lossy = [c \in Clients |-> FALSE]

-----------------------------------------------------------------------------
(* SubReq *)

\* 1. look up the event manager; an unknown publisher gets no answer.
SubReqLookup(c, p) ==
    /\ pc[c] = "idle"
    /\ em' = [em EXCEPT ![c] = GetEventMgrAddr(p)]
    /\ pc' = [pc EXCEPT ![c] = IF GetEventMgrAddr(p) = NoAddr THEN "rejected" ELSE "listen"]
    /\ UNCHANGED <<svcVars, subs, subTodo, queue, got, resp, hb, hbOut, hbGot, hbBlk,
                   fed, told, sure, joined, lossy>>

\* CheckEvents gets the receipts by a callback, an OCALL: it is under way from
\* the moment the block is appended, while the receipts are fetched too.
Checking == blkPc \in {"fetch", "check", "regStore", "regListen", "push"}

\* The logs of the block under way that concern client c, past some point k.
SubJoinFrom(c, k) ==
    {<<c, i>> : i \in {j \in DOMAIN Body :
        j > k /\ Body[j].type = "notify" /\ Body[j].em = em[c]}}

\* 2. subscribe to the event manager first.  Listen does not wait for a
\* block under check; the new listener may miss any leading part of it, and
\* all of it if the listeners were picked before the receipts were fetched.
SubReqListen(c, k) ==
    /\ pc[c] = "listen"
    /\ pc' = [pc EXCEPT ![c] = "read"]
    /\ subs' = subs \cup {c}
    /\ IF Checking
       THEN /\ subTodo' = subTodo \cup SubJoinFrom(c, k)
            /\ joined' = [joined EXCEPT ![c] = Len(chain)]
       ELSE UNCHANGED <<subTodo, joined>>
    /\ UNCHANGED <<svcVars, em, queue, got, resp, hb, hbOut, hbGot, hbBlk,
                   fed, told, sure, lossy>>

\* 3. the arguments of the first response.  The security state and the block
\* number are read under the monitor mutex, each by itself.
SubReqReadMonitor(c, a) ==
    /\ pc[c] = "read"
    /\ MonitorFree
    /\ a \notin got[c]
    /\ got' = [got EXCEPT ![c] = @ \cup {a}]
    /\ resp' = IF a = "blk" THEN [resp EXCEPT ![c].blk = lastBlk] ELSE resp
    /\ joined' = IF "past" \in got[c] THEN joined ELSE [joined EXCEPT ![c] = 0]
    /\ UNCHANGED <<svcVars, pc, em, subs, subTodo, queue, hb, hbOut, hbGot, hbBlk,
                   fed, told, sure, lossy>>

SubReqCopyBegin(c) ==
    /\ pc[c] = "read"
    /\ "past" \notin got[c]
    /\ GetPastEventsBegin(c, em[c])
    /\ pc' = [pc EXCEPT ![c] = "copy"]
    /\ UNCHANGED <<em, subs, subTodo, queue, got, resp, hb, hbOut, hbGot, hbBlk,
                   fed, told, sure, joined, lossy>>

SubReqCopyEnd(c, events) ==
    /\ pc[c] = "copy"
    /\ GetPastEventsEnd(c)
    /\ resp' = [resp EXCEPT ![c].past = events]
    /\ lossy' = [lossy EXCEPT ![c] = copy.raced]
    /\ got' = [got EXCEPT ![c] = @ \cup {"past"}]
    /\ pc' = [pc EXCEPT ![c] = "read"]
    /\ UNCHANGED <<em, subs, subTodo, queue, hb, hbOut, hbGot, hbBlk,
                   fed, told, sure, joined>>

SubReqRespond(c) ==
    /\ pc[c] = "read"
    /\ got[c] = Args
    /\ told' = [told EXCEPT ![c] = resp[c].blk]
    /\ pc' = [pc EXCEPT ![c] = "add"]
    /\ UNCHANGED <<svcVars, em, subs, subTodo, queue, got, resp, hb, hbOut, hbGot, hbBlk,
                   fed, sure, joined, lossy>>

\* The send throws: the handler ends, the listener stays.
SubReqRespondFail(c) ==
    /\ pc[c] = "read"
    /\ got[c] = Args
    /\ pc' = [pc EXCEPT ![c] = "failed"]
    /\ UNCHANGED <<svcVars, em, subs, subTodo, queue, got, resp, hb, hbOut, hbGot, hbBlk,
                   fed, told, sure, joined, lossy>>

\* 4. set up the heartbeat emitter.
SubReqAddEmitter(c) ==
    /\ pc[c] = "add"
    /\ pc' = [pc EXCEPT ![c] = "live"]
    /\ UNCHANGED <<svcVars, em, subs, subTodo, queue, got, resp, hb, hbOut, hbGot, hbBlk,
                   fed, told, sure, joined, lossy>>

-----------------------------------------------------------------------------
(* The block thread in the presence of subscribers *)

SubMatches(c, log) == log.type = "notify" /\ log.em = em[c]

\* CheckEvents begins: the listeners that are there get all of the block,
\* once the receipts tell what that is.
BlockAppend(body) ==
    /\ AppendBlock(body)
    /\ subTodo' = {t \in subs \X DOMAIN body : SubMatches(t[1], body[t[2]])}
    /\ UNCHANGED <<pc, em, subs, queue, got, resp, hb, hbOut, hbGot, hbBlk,
                   fed, told, sure, joined, lossy>>

SubIsNext(c, i) ==
    /\ <<c, i>> \in subTodo
    /\ \A j \in DOMAIN Body : <<c, j>> \in subTodo => i <= j

\* The client's callback, under the mutex of its queue.
NotifyEventHandler(c, i) ==
    /\ blkPc = "check"
    /\ SubIsNext(c, i)
    /\ queue' = [queue EXCEPT ![c] = PushBack(@, Here(i))]
    /\ subTodo' = subTodo \ {<<c, i>>}
    /\ UNCHANGED <<svcVars, pc, em, subs, got, resp, hb, hbOut, hbGot, hbBlk,
                   fed, told, sure, joined, lossy>>

\* The event manager may pass over a listener cancelled meanwhile.
SkipCancelled(c, i) ==
    /\ blkPc = "check"
    /\ <<c, i>> \in subTodo
    /\ c \notin subs
    /\ subTodo' = subTodo \ {<<c, i>>}
    /\ UNCHANGED <<svcVars, pc, em, subs, queue, got, resp, hb, hbOut, hbGot, hbBlk,
                   fed, told, sure, joined, lossy>>

BlockDoneAll ==
    /\ BlockDone
    /\ subTodo = {}
    /\ UNCHANGED subVars

\* Mutant: the exception is swallowed and the next block taken.
BlockThrowSwallowed ==
    /\ blkPc \in {"fetch", "check"}
    /\ blkPc' = "idle"
    /\ todo' = {} /\ subTodo' = {}
    /\ UNCHANGED <<chain, lastBlk, cur, listeners, isDeployed, evMgrAddrMap, pastStore, copy>>
    /\ UNCHANGED <<pc, em, subs, queue, got, resp, hb, hbOut, hbGot, hbBlk,
                   fed, told, sure, joined, lossy>>

BlockThrowAll ==
    /\ BlockThrow
    /\ subTodo' = {}
    /\ UNCHANGED <<pc, em, subs, queue, got, resp, hb, hbOut, hbGot, hbBlk,
                   fed, told, sure, joined, lossy>>

\* The steps of SubscriberService that subscribers do not see.
ServiceStep ==
    /\ \/ CheckEvents
       \/ \E i \in DOMAIN Body, k \in 0..Len(Body) : DeployEventHandler(i, k)
       \/ \E i \in DOMAIN Body : RegEventHandler(i)
       \/ RegEventStore
       \/ \E k \in 0..Len(Body) : RegEventListen(k)
       \/ \E l \in listeners : \E i \in DOMAIN Body : NotifyPastFind(l, i)
       \/ NotifyPastPush
    /\ UNCHANGED subVars

-----------------------------------------------------------------------------
(* EmitterHandler, run by the heartbeat thread *)

\* Mutants: one event is taken and the rest dropped; the queue is copied
\* and not reset.
TakeOne(q)   == IF q = <<>> THEN q ELSE <<Head(q)>>
LeaveAll(q)  == q

Taken(q) == q
Left(q)  == <<>>

\* The queue is taken under its mutex ...
EmitSwap(c) ==
    /\ hb = NoClient
    /\ pc[c] = "live"
    /\ hb' = c
    /\ hbOut' = Taken(queue[c])
    /\ queue' = [queue EXCEPT ![c] = Left(@)]
    /\ UNCHANGED <<svcVars, pc, em, subs, subTodo, got, resp, hbGot, hbBlk,
                   fed, told, sure, joined, lossy>>

\* ... then the monitor is read ...
EmitRead(a) ==
    /\ hb # NoClient
    /\ MonitorFree
    /\ a \notin hbGot
    /\ hbGot' = hbGot \cup {a}
    /\ hbBlk' = IF a = "blk" THEN lastBlk ELSE hbBlk
    /\ UNCHANGED <<svcVars, pc, em, subs, subTodo, queue, got, resp, hb, hbOut,
                   fed, told, sure, joined, lossy>>

\* The handler returns and its variables are gone.
HeartbeatFree ==
    /\ hb' = NoClient
    /\ hbOut' = <<>>
    /\ hbGot' = {}
    /\ hbBlk' = 0

\* ... and the message is sent.
EmitSend ==
    /\ hb # NoClient
    /\ hbGot = {"sec", "blk"}
    /\ fed' = [fed EXCEPT ![hb] = @ \o hbOut]
    /\ told' = [told EXCEPT ![hb] = hbBlk]
    /\ sure' = [sure EXCEPT ![hb] = told[hb]]
    /\ HeartbeatFree
    /\ UNCHANGED <<svcVars, pc, em, subs, subTodo, queue, got, resp, joined, lossy>>

\* The send throws: the listener is cancelled and the emitter forgotten.
EmitFail ==
    /\ hb # NoClient
    /\ hbGot = {"sec", "blk"}
    /\ subs' = subs \ {hb}
    /\ pc' = [pc EXCEPT ![hb] = "dropped"]
    /\ HeartbeatFree
    /\ UNCHANGED <<svcVars, em, subTodo, queue, got, resp,
                   fed, told, sure, joined, lossy>>

-----------------------------------------------------------------------------
\* The block thread is done for good and so are all clients.
Terminated ==
    /\ blkPc = "stopped"
    /\ \A c \in Clients : pc[c] \in {"rejected", "failed", "dropped"}
    /\ hb = NoClient
    /\ UNCHANGED vars

BlockWork ==
    \/ \E body \in BlockBodies : BlockAppend(body)
    \/ ServiceStep
    \/ \E c \in Clients : \E i \in DOMAIN Body : NotifyEventHandler(c, i) \/ SkipCancelled(c, i)
    \/ BlockDoneAll
    \/ BlockThrowAll

SubReqWork(c) ==
    \/ \E k \in 0..Len(Body) : SubReqListen(c, k)
    \/ \E a \in {"sec", "blk"} : SubReqReadMonitor(c, a)
    \/ SubReqCopyBegin(c)
    \/ \E events \in CopyResults : SubReqCopyEnd(c, events)
    \/ SubReqRespond(c)
    \/ SubReqRespondFail(c)
    \/ SubReqAddEmitter(c)

EmitWork ==
    \/ \E a \in {"sec", "blk"} : EmitRead(a)
    \/ EmitSend
    \/ EmitFail

Next ==
    \/ BlockWork
    \/ \E c \in Clients, p \in Publishers : SubReqLookup(c, p)
    \/ \E c \in Clients : SubReqWork(c)
    \/ \E c \in Clients : EmitSwap(c)
    \/ EmitWork
    \/ Terminated

Spec == Init /\ [][Next]_vars

\* A block that was begun is worked through; no new block is promised.  The
\* threads that meet at the mutexes get them again and again (SF): the mutex
\* is free for long between two blocks.  The heartbeat manager keeps coming
\* back to every emitter it holds.
Fairness ==
    /\ WF_vars(blkPc # "idle" /\ BlockWork)
    /\ \A c \in Clients : SF_vars(SubReqWork(c)) /\ SF_vars(EmitSwap(c))
    /\ SF_vars(EmitWork)

FairSpec == Spec /\ Fairness

-----------------------------------------------------------------------------
(* What a subscriber is promised *)

\* The events that must reach client c by way of the first response or of the
\* queue.  If the past events are copied before the monitor is read, those of
\* the block under check at subscription, whose receipts may still be on their
\* way, can slip through in between: some of them or all.
Expected(c) == IF lossy[c] THEN {} ELSE {e \in Owed(em[c]) : e.blk # joined[c]}

Delivered(c) == Range(resp[c].past) \cup Range(fed[c])

InFlight(c) == Range(queue[c]) \cup (IF hb = c THEN Range(hbOut) ELSE {})

\* Between the snapshot of past events in the first response and the queue
\* filled by the client's own listener no event falls through, in whatever
\* order subscription, registration, the check and the reads take place.
NoGap ==
    \A c \in subs : "past" \in got[c] => Expected(c) \subseteq Delivered(c) \cup InFlight(c)

\* The heartbeat messages carry every event at most once and in chain order,
\* across the hand-over from the queue to the message.
FeedOrdered ==
    \A c \in Clients :
        Increasing(fed[c] \o (IF hb = c THEN hbOut ELSE <<>>) \o queue[c])

\* No heartbeat message carries an event of a block beyond its own
\* LatestBlkNum: the queue is taken before the number is read.
NotAhead ==
    \A c \in Clients : \A e \in Range(fed[c]) : e.blk <= told[c]

\* LatestBlkNum is not a watermark for the message it comes in, but for the
\* next one: by then every event of the blocks up to it has been sent.
WatermarkLag ==
    \A c \in Clients : \A e \in Expected(c) : e.blk <= sure[c] => e \in Delivered(c)

\* LatestBlkNum never goes back from one message to the next.
TellsForward == [][\A c \in Clients : told'[c] >= told[c]]_vars

\* The events of a manager on the chain, handled or not.
LogOf(m) == {e \in OnChain : LogAt(e).type = "notify" /\ LogAt(e).em = m}

Feed == INSTANCE EventFeed WITH
    Topics <- EvMgrs,
    log <- [m \in EvMgrs |-> LogOf(m)],
    feed <- fed

\* The messages to a subscriber are those of an EventFeed: a growing stretch
\* of its manager's events without a hole or a repetition, with numbers that
\* cover it, whatever the threads do in between.
FeedSpec == Feed!Spec

\* A listener is in the event manager exactly while somebody will empty or
\* has yet to set up its queue.
ServedIffListening ==
    \A c \in Clients : c \in subs <=> pc[c] \in {"read", "copy", "add", "live"}

\* Every block whose check has begun is finished or given up: the mutexes of
\* the monitor, the store and the queues never block each other.
BlockEnds == blkPc = "fetch" ~> MonitorFree

\* A subscribe request that found its manager is answered or fails.
SubReqResolves ==
    \A c \in Clients : pc[c] = "listen" ~> pc[c] \in {"live", "failed", "dropped"}

\* The events a live subscriber is owed up to any block reach it, or its
\* connection broke.
EventsArrive ==
    \A c \in Clients, n \in 1..MaxBlk :
        []<>(pc[c] = "live" => \A e \in Expected(c) : e.blk <= n => e \in Delivered(c))
=============================================================================
