---------------------------- MODULE PubsubProofs ----------------------------
(***************************************************************************)
(* Pubsub implements SubscriberService, so what is proved of the stores    *)
(* holds with any number of subscribers around; type correctness; the      *)
(* properties of LatestBlkNum, NotAhead, TellsForward and WatermarkLag;    *)
(* that it implements EventFeed; that no event falls through (NoGap); and  *)
(* that a client is sent no other events than its manager's (OnlyOwn).     *)
(***************************************************************************)
EXTENDS Pubsub, SubscriberServiceProofs

\* The types of the subscribers' state.
SubTypeOK ==
    /\ pc \in [Clients -> {"idle", "listen", "read", "copy", "add", "live",
                           "rejected", "failed", "dropped"}]
    /\ em \in [Clients -> EvMgrs \cup {NoAddr}]
    /\ subs \subseteq Clients
    /\ subTodo \subseteq Clients \X Nat
    /\ queue \in [Clients -> Seq(Event)]
    /\ got \in [Clients -> SUBSET Args]
    /\ resp \in [Clients -> [blk: Nat, past: Seq(Event)]]
    /\ hb \in Clients \cup {NoClient}
    /\ hbOut \in Seq(Event)
    /\ hbGot \subseteq Args
    /\ hbBlk \in Nat
    /\ fed \in [Clients -> Seq(Event)]
    /\ told \in [Clients -> Nat]
    /\ sure \in [Clients -> Nat]
    /\ joined \in [Clients -> Nat]
    /\ lossy \in [Clients -> BOOLEAN]

\* A request past the lookup has found a manager, and the emitter that runs
\* is one that was added and not dropped.
RequestOK ==
    /\ \A c \in Clients : pc[c] \notin {"idle", "rejected"} => em[c] \in EvMgrs
    /\ hb # NoClient => pc[hb] = "live"

FullTypeInv == TypeInv /\ SubTypeOK /\ RequestOK

\* The start is well typed.
LEMMA FullTypeInit == Init => FullTypeInv
  <1> SUFFICES ASSUME Init PROVE FullTypeInv
    OBVIOUS
  <1>1. TypeInv
    BY TypeInit DEF Init
  <1>2. SubTypeOK
    BY DEF Init, SubTypeOK
  <1> QED
    BY <1>1, <1>2 DEF Init, FullTypeInv, RequestOK

\* Every step of Pubsub is a step of SubscriberService or leaves its state
\* alone.
LEMMA ServiceStepSimulation == FullTypeInv /\ [Next]_vars => [SvcNext]_svcVars
  <1> SUFFICES ASSUME FullTypeInv, [Next]_vars PROVE [SvcNext]_svcVars
    OBVIOUS
  <1>1. CASE ServiceStep
    BY <1>1 DEF ServiceStep, SvcNext, BlockThread
  <1>2. CASE (\E body \in BlockBodies : BlockAppend(body)) \/ BlockDoneAll \/ BlockThrowAll
    BY <1>2 DEF BlockAppend, BlockDoneAll, BlockThrowAll, SvcNext, BlockThread
  <1>3. ASSUME NEW c \in Clients, NEW i \in DOMAIN Body,
               NotifyEventHandler(c, i) \/ SkipCancelled(c, i)
        PROVE  UNCHANGED svcVars
    BY <1>3 DEF NotifyEventHandler, SkipCancelled
  <1>4. ASSUME NEW c \in Clients, NEW p \in Publishers, SubReqLookup(c, p)
        PROVE  UNCHANGED svcVars
    BY <1>4 DEF SubReqLookup
  <1>5. ASSUME NEW c \in Clients, SubReqWork(c) PROVE [SvcNext]_svcVars
    <2>1. CASE SubReqCopyBegin(c)
      <3>1. em[c] \in EvMgrs
        BY <2>1 DEF SubReqCopyBegin, FullTypeInv, RequestOK
      <3> QED
        BY <2>1, <3>1 DEF SubReqCopyBegin, Clients, SvcNext
    <2>2. ASSUME NEW events \in CopyResults, SubReqCopyEnd(c, events) PROVE SvcNext
      BY <2>2 DEF SubReqCopyEnd, Clients, SvcNext
    <2>3. ASSUME NEW k \in 0..Len(Body), SubReqListen(c, k) PROVE UNCHANGED svcVars
      BY <2>3 DEF SubReqListen
    <2>4. ASSUME NEW a \in {"sec", "blk"}, SubReqReadMonitor(c, a) PROVE UNCHANGED svcVars
      BY <2>4 DEF SubReqReadMonitor
    <2>5. ASSUME SubReqRespond(c) \/ SubReqRespondFail(c) \/ SubReqAddEmitter(c)
          PROVE  UNCHANGED svcVars
      BY <2>5 DEF SubReqRespond, SubReqRespondFail, SubReqAddEmitter
    <2> QED
      BY <1>5, <2>1, <2>2, <2>3, <2>4, <2>5 DEF SubReqWork
  <1>6. ASSUME NEW c \in Clients, EmitSwap(c) PROVE UNCHANGED svcVars
    BY <1>6 DEF EmitSwap
  <1>7. ASSUME EmitWork PROVE UNCHANGED svcVars
    BY <1>7 DEF EmitWork, EmitRead, EmitSend, EmitFail
  <1>8. ASSUME Terminated \/ UNCHANGED vars PROVE UNCHANGED svcVars
    BY <1>8 DEF Terminated, vars
  <1> QED
    BY <1>1, <1>2, <1>3, <1>4, <1>5, <1>6, <1>7, <1>8 DEF Next, BlockWork

\* Updating a function within its range, for Boolean ranges too.
LEMMA ExceptType ==
    ASSUME NEW S, NEW T, NEW f \in [S -> T], NEW x, NEW v \in T
    PROVE  [f EXCEPT ![x] = v] \in [S -> T]
  OBVIOUS

\* What a copy of the past events returns.
LEMMA CopyType ==
    ASSUME SvcTypeOK
    PROVE  CopyResults \subseteq Seq(Event)
  <1> DEFINE q == IF copy.em \in DOMAIN pastStore THEN pastStore[copy.em] ELSE <<>>
  <1>1. q \in Seq(Event)
    BY DEF SvcTypeOK
  <1> HIDE DEF q
  <1>2. \A n \in 0..Len(q) : SubSeq(q, 1, n) \in Seq(Event)
    BY <1>1
  <1>3. CopyResults = IF copy.raced THEN {SubSeq(q, 1, n) : n \in 0..Len(q)} ELSE {q}
    BY DEF CopyResults, q
  <1> QED
    BY <1>1, <1>2, <1>3

\* A step that leaves what the subscribers own alone.
LEMMA SubTypeQuiet ==
    ASSUME SubTypeOK, RequestOK, UNCHANGED subVars
    PROVE  SubTypeOK' /\ RequestOK'
  BY DEF SubTypeOK, RequestOK, subVars

\* Each step keeps the types of what the subscribers own.
LEMMA SubTypeStep == FullTypeInv /\ [Next]_vars => (SubTypeOK /\ RequestOK)'
  <1> SUFFICES ASSUME FullTypeInv, [Next]_vars PROVE (SubTypeOK /\ RequestOK)'
    OBVIOUS
  <1>0. TypeInv /\ SvcTypeOK /\ SubTypeOK /\ RequestOK
    BY DEF FullTypeInv, TypeInv
  <1>h. DOMAIN Body \subseteq Nat
    BY <1>0, BodyType
  <1>1. CASE ServiceStep
    BY <1>0, <1>1, SubTypeQuiet DEF ServiceStep
  <1>2. ASSUME NEW body \in BlockBodies, BlockAppend(body) PROVE (SubTypeOK /\ RequestOK)'
    <2>1. DOMAIN body \subseteq Nat
      BY BodiesAssumption
    <2>2. subTodo' \subseteq Clients \X Nat
      BY <1>0, <1>2, <2>1 DEF BlockAppend, SubTypeOK
    <2> QED
      BY <1>0, <1>2, <2>2 DEF BlockAppend, SubTypeOK, RequestOK
  <1>3. CASE BlockDoneAll
    BY <1>0, <1>3, SubTypeQuiet DEF BlockDoneAll
  <1>4. CASE BlockThrowAll
    BY <1>0, <1>4 DEF BlockThrowAll, SubTypeOK, RequestOK
  <1>5. ASSUME NEW c \in Clients, NEW i \in DOMAIN Body, NotifyEventHandler(c, i)
        PROVE  (SubTypeOK /\ RequestOK)'
    <2>1. Here(i) \in Event
      BY <1>0, LogType
    <2>2. queue' \in [Clients -> Seq(Event)]
      BY <1>0, <1>5, <2>1 DEF NotifyEventHandler, PushBack, SubTypeOK
    <2> QED
      BY <1>0, <1>5, <2>2 DEF NotifyEventHandler, SubTypeOK, RequestOK
  <1>6. ASSUME NEW c \in Clients, NEW i \in DOMAIN Body, SkipCancelled(c, i)
        PROVE  (SubTypeOK /\ RequestOK)'
    BY <1>0, <1>6 DEF SkipCancelled, SubTypeOK, RequestOK
  <1>7. ASSUME NEW c \in Clients, NEW p \in Publishers, SubReqLookup(c, p)
        PROVE  (SubTypeOK /\ RequestOK)'
    <2>1. GetEventMgrAddr(p) \in EvMgrs \cup {NoAddr}
      BY <1>0 DEF GetEventMgrAddr, SvcTypeOK
    <2> QED
      BY <1>0, <1>7, <2>1 DEF SubReqLookup, SubTypeOK, RequestOK
  <1>8. ASSUME NEW c \in Clients, NEW k \in 0..Len(Body), SubReqListen(c, k)
        PROVE  (SubTypeOK /\ RequestOK)'
    <2>1. SubJoinFrom(c, k) \subseteq Clients \X Nat
      BY <1>h DEF SubJoinFrom
    <2>2. subTodo' \subseteq Clients \X Nat
      BY <1>0, <1>8, <2>1 DEF SubReqListen, SubTypeOK
    <2>3. joined' \in [Clients -> Nat]
      BY <1>0, <1>8, BodyType DEF SubReqListen, SubTypeOK
    <2> QED
      BY <1>0, <1>8, <2>2, <2>3 DEF SubReqListen, SubTypeOK, RequestOK
  <1>9. ASSUME NEW c \in Clients, NEW a \in {"sec", "blk"}, SubReqReadMonitor(c, a)
        PROVE  (SubTypeOK /\ RequestOK)'
    <2>1. got' \in [Clients -> SUBSET Args]
      BY <1>0, <1>9 DEF SubReqReadMonitor, SubTypeOK, Args
    <2>2. resp' \in [Clients -> [blk: Nat, past: Seq(Event)]]
      BY <1>0, <1>9 DEF SubReqReadMonitor, SubTypeOK, SvcTypeOK
    <2> QED
      BY <1>0, <1>9, <2>1, <2>2 DEF SubReqReadMonitor, SubTypeOK, RequestOK
  <1>10. ASSUME NEW c \in Clients, SubReqCopyBegin(c) PROVE (SubTypeOK /\ RequestOK)'
    BY <1>0, <1>10 DEF SubReqCopyBegin, SubTypeOK, RequestOK
  <1>11. ASSUME NEW c \in Clients, NEW events \in CopyResults, SubReqCopyEnd(c, events)
         PROVE  (SubTypeOK /\ RequestOK)'
    <2>1. got' \in [Clients -> SUBSET Args]
      BY <1>0, <1>11 DEF SubReqCopyEnd, SubTypeOK, Args
    <2>2. resp' \in [Clients -> [blk: Nat, past: Seq(Event)]]
      BY <1>0, <1>11, CopyType DEF SubReqCopyEnd, SubTypeOK
    <2>3. lossy' \in [Clients -> BOOLEAN]
      <3>1. copy.raced \in BOOLEAN
        BY <1>0 DEF SvcTypeOK
      <3>2. lossy' = [lossy EXCEPT ![c] = copy.raced]
        BY <1>11 DEF SubReqCopyEnd
      <3>3. lossy \in [Clients -> BOOLEAN]
        BY <1>0 DEF SubTypeOK
      <3> QED
        BY <3>1, <3>2, <3>3, ExceptType
    <2>4. /\ pc' = [pc EXCEPT ![c] = "read"]
          /\ pc[c] = "copy"
          /\ UNCHANGED <<em, subs, subTodo, queue, hb, hbOut, hbGot, hbBlk,
                         fed, told, sure, joined>>
      BY <1>11 DEF SubReqCopyEnd
    <2>5. SubTypeOK'
      BY <1>0, <2>1, <2>2, <2>3, <2>4 DEF SubTypeOK
    <2> QED
      BY <1>0, <2>4, <2>5 DEF SubTypeOK, RequestOK
  <1>12. ASSUME NEW c \in Clients, SubReqRespond(c) PROVE (SubTypeOK /\ RequestOK)'
    BY <1>0, <1>12 DEF SubReqRespond, SubTypeOK, RequestOK
  <1>13. ASSUME NEW c \in Clients, SubReqRespondFail(c) PROVE (SubTypeOK /\ RequestOK)'
    BY <1>0, <1>13 DEF SubReqRespondFail, SubTypeOK, RequestOK
  <1>14. ASSUME NEW c \in Clients, SubReqAddEmitter(c) PROVE (SubTypeOK /\ RequestOK)'
    BY <1>0, <1>14 DEF SubReqAddEmitter, SubTypeOK, RequestOK
  <1>15. ASSUME NEW c \in Clients, EmitSwap(c) PROVE (SubTypeOK /\ RequestOK)'
    <2>1. /\ hb' = c /\ hbOut' = queue[c] /\ queue' = [queue EXCEPT ![c] = <<>>] /\ pc[c] = "live"
          /\ UNCHANGED <<pc, em, subs, subTodo, got, resp, hbGot, hbBlk,
                         fed, told, sure, joined, lossy>>
      BY <1>15 DEF EmitSwap, Taken, Left
    <2>2. hbOut' \in Seq(Event) /\ queue' \in [Clients -> Seq(Event)]
      BY <1>0, <2>1 DEF SubTypeOK
    <2>3. hb' \in Clients \cup {NoClient}
      BY <2>1
    <2>4. SubTypeOK'
      BY <1>0, <2>1, <2>2, <2>3, Zenon DEF SubTypeOK
    <2>5. RequestOK'
      BY <1>0, <2>1, Zenon DEF RequestOK
    <2> QED
      BY <2>4, <2>5
  <1>16. ASSUME NEW a \in {"sec", "blk"}, EmitRead(a) PROVE (SubTypeOK /\ RequestOK)'
    BY <1>0, <1>16 DEF EmitRead, SubTypeOK, RequestOK, Args, SvcTypeOK
  <1>17. CASE EmitSend
    <2>1. hb \in Clients
      BY <1>0, <1>17 DEF EmitSend, SubTypeOK
    <2>2. fed' \in [Clients -> Seq(Event)]
      BY <1>0, <1>17, <2>1 DEF EmitSend, SubTypeOK
    <2>3. told' \in [Clients -> Nat] /\ sure' \in [Clients -> Nat]
      BY <1>0, <1>17, <2>1 DEF EmitSend, SubTypeOK
    <2>4. /\ hb' = NoClient /\ hbOut' = <<>> /\ hbGot' = {} /\ hbBlk' = 0
          /\ UNCHANGED <<pc, em, subs, subTodo, queue, got, resp, joined, lossy>>
      BY <1>17 DEF EmitSend, HeartbeatFree
    <2>5. hb' \in Clients \cup {NoClient} /\ hbOut' \in Seq(Event) /\ hbGot' \subseteq Args /\ hbBlk' \in Nat
      BY <2>4
    <2>6. SubTypeOK'
      BY <1>0, <2>2, <2>3, <2>4, <2>5, Zenon DEF SubTypeOK
    <2> QED
      BY <1>0, <2>4, <2>6 DEF RequestOK
  <1>18. CASE EmitFail
    <2>1. hb \in Clients
      BY <1>0, <1>18 DEF EmitFail, SubTypeOK
    <2>2. /\ hb' = NoClient /\ hbOut' = <<>> /\ hbGot' = {} /\ hbBlk' = 0
          /\ pc' = [pc EXCEPT ![hb] = "dropped"] /\ subs' = subs \ {hb} /\ pc[hb] = "live"
          /\ UNCHANGED <<em, subTodo, queue, got, resp, fed, told, sure, joined, lossy>>
      BY <1>0, <1>18 DEF EmitFail, HeartbeatFree, RequestOK
    <2>3. hb' \in Clients \cup {NoClient} /\ hbOut' \in Seq(Event) /\ hbGot' \subseteq Args /\ hbBlk' \in Nat
      BY <2>2
    <2>4. /\ pc' \in [Clients -> {"idle", "listen", "read", "copy", "add", "live", "rejected", "failed", "dropped"}]
          /\ subs' \subseteq Clients
      BY <1>0, <2>1, <2>2 DEF SubTypeOK
    <2>5. SubTypeOK'
      BY <1>0, <2>2, <2>3, <2>4, Zenon DEF SubTypeOK
    <2> QED
      BY <1>0, <2>1, <2>2, <2>5 DEF RequestOK, SubTypeOK
  <1>19. CASE Terminated \/ UNCHANGED vars
    BY <1>0, <1>19, SubTypeQuiet DEF Terminated, vars
  <1> QED
    BY <1>1, <1>2, <1>3, <1>4, <1>5, <1>6, <1>7, <1>8, <1>9, <1>10, <1>11, <1>12, <1>13,
       <1>14, <1>15, <1>16, <1>17, <1>18, <1>19
    DEF Next, BlockWork, SubReqWork, EmitWork

\* Each step keeps all types.
LEMMA FullTypeStep == FullTypeInv /\ [Next]_vars => FullTypeInv'
  BY ServiceStepSimulation, TypeStep, SubTypeStep DEF FullTypeInv

\* All types, and where requests and callbacks point to, throughout.
LEMMA FullTypeCorrect == Spec => []FullTypeInv
  BY FullTypeInit, FullTypeStep, PTL DEF Spec

\* Every variable keeps its type, in SubscriberService and for subscribers.
THEOREM TypeCorrect == Spec => []TypeOK
  <1>1. FullTypeInv => TypeOK
    BY DEF FullTypeInv, TypeInv, SubTypeOK, TypeOK
  <1> QED
    BY <1>1, FullTypeCorrect, PTL

\* With subscribers around, the stores behave as SubscriberService says.
THEOREM ServiceImplemented == Spec => SvcSpec
  <1>1. Init => SvcInit
    BY DEF Init
  <1> QED
    BY <1>1, ServiceStepSimulation, FullTypeCorrect, PTL DEF Spec, SvcSpec

\* So no past event is lost either, whatever the subscribers do.
THEOREM PastEventsCompleteServed == Spec => []PastComplete
  BY ServiceImplemented, PastEventsComplete, PTL

-----------------------------------------------------------------------------
(***************************************************************************)
(* LatestBlkNum against the events of the same message, and from one       *)
(* message to the next.  An event is pushed only after the number of its   *)
(* block is recorded; the emitter takes the queue first and reads the      *)
(* number second, and the number never decreases.                          *)
(***************************************************************************)
NumberInv ==
    /\ lastBlk = Len(chain)
    /\ \A c \in Clients :
        /\ \A e \in Range(queue[c]) : e.blk <= lastBlk
        /\ \A e \in Range(fed[c]) : e.blk <= told[c]
        /\ resp[c].blk <= lastBlk
        /\ told[c] <= lastBlk
        /\ pc[c] \in {"idle", "listen", "read", "copy"} => told[c] = 0 /\ fed[c] = <<>>
    /\ \A e \in Range(hbOut) : e.blk <= lastBlk
    /\ hb = NoClient => hbGot = {}
    /\ "blk" \in hbGot =>
        /\ told[hb] <= hbBlk
        /\ hbBlk <= lastBlk
        /\ \A e \in Range(hbOut) : e.blk <= hbBlk

\* The steps that touch no number and no queue.
LEMMA NumberQuiet ==
    ASSUME SubTypeOK, NumberInv,
           UNCHANGED <<chain, lastBlk, queue, fed, told, resp, hb, hbOut, hbGot, hbBlk>>,
           \A c \in Clients : pc'[c] \in {"idle", "listen", "read", "copy"} =>
                              pc[c] \in {"idle", "listen", "read", "copy"}
    PROVE  NumberInv'
  BY DEF NumberInv

\* The members of a sequence.
LEMMA RangeType ==
    ASSUME NEW S, NEW s \in Seq(S)
    PROVE  \A x \in Range(s) : x \in S
  BY DEF Range

\* The members of a concatenation.
LEMMA RangeConcat ==
    ASSUME NEW S, NEW s \in Seq(S), NEW t \in Seq(S), NEW x \in Range(s \o t)
    PROVE  x \in Range(s) \/ x \in Range(t)
  <1>1. PICK i \in DOMAIN (s \o t) : x = (s \o t)[i]
    BY DEF Range
  <1>2. CASE i \in 1..Len(s)
    BY <1>1, <1>2 DEF Range
  <1>3. CASE i \in (Len(s) + 1)..(Len(s) + Len(t))
    <2>1. x = t[i - Len(s)] /\ i - Len(s) \in DOMAIN t
      BY <1>1, <1>3
    <2> QED
      BY <2>1 DEF Range
  <1> QED
    BY <1>1, <1>2, <1>3

\* Of the block thread's steps only AppendBlock changes the chain.
LEMMA ChainStep ==
    ASSUME SvcTypeOK, lastBlk = Len(chain), [SvcNext]_svcVars
    PROVE  lastBlk' = Len(chain') /\ lastBlk <= lastBlk'
  <1>1. ASSUME NEW body \in BlockBodies, AppendBlock(body) PROVE lastBlk' = Len(chain') /\ lastBlk <= lastBlk'
    BY <1>1 DEF AppendBlock, NextNumber, SvcTypeOK
  <1>2. ASSUME ~\E body \in BlockBodies : AppendBlock(body)
        PROVE  chain' = chain /\ lastBlk' = lastBlk
    BY <1>2 DEF SvcNext, BlockThread, CheckEvents, DeployEventHandler, RegEventHandler,
       RegEventStore, RegEventListen, NotifyPastFind, NotifyPastPush, BlockDone,
       BlockThrow, GetPastEventsBegin, GetPastEventsEnd, svcVars
  <1> QED
    BY <1>1, <1>2 DEF SvcTypeOK

\* Each step keeps the events behind the numbers.
LEMMA NumberStep == FullTypeInv /\ NumberInv /\ [Next]_vars => NumberInv'
  <1> SUFFICES ASSUME FullTypeInv, NumberInv, [Next]_vars PROVE NumberInv'
    OBVIOUS
  <1>0. SvcTypeOK /\ SubTypeOK /\ RequestOK
    BY DEF FullTypeInv, TypeInv
  <1>a. lastBlk' = Len(chain') /\ lastBlk <= lastBlk' /\ lastBlk \in Nat /\ lastBlk' \in Nat
    BY <1>0, ServiceStepSimulation, TypeStep, ChainStep DEF NumberInv, FullTypeInv, TypeInv, SvcTypeOK
  <1>b. /\ \A c \in Clients : \A e \in Range(queue[c]) : e.blk \in Nat
        /\ \A e \in Range(hbOut) : e.blk \in Nat
        /\ \A c \in Clients : resp[c].blk \in Nat /\ told[c] \in Nat
    <2>1. \A c \in Clients : \A e \in Range(queue[c]) : e \in Event
      BY <1>0, RangeType DEF SubTypeOK
    <2>2. \A e \in Range(hbOut) : e \in Event
      BY <1>0, RangeType DEF SubTypeOK
    <2> QED
      BY <1>0, <2>1, <2>2 DEF SubTypeOK, Event
  <1>1. CASE UNCHANGED subVars \/ \E body \in BlockBodies : BlockAppend(body)
    <2>1. UNCHANGED <<queue, fed, told, resp, hb, hbOut, hbGot, hbBlk, pc>>
      BY <1>1 DEF subVars, BlockAppend
    <2>2. ASSUME NEW n \in Nat, n <= lastBlk PROVE n <= lastBlk'
      BY <1>a, <2>2
    <2>3. ASSUME NEW c \in Clients
          PROVE  /\ \A e \in Range(queue[c]) : e.blk <= lastBlk'
                 /\ \A e \in Range(fed[c]) : e.blk <= told[c]
                 /\ resp[c].blk <= lastBlk' /\ told[c] <= lastBlk'
                 /\ pc[c] \in {"idle", "listen", "read", "copy"} => told[c] = 0 /\ fed[c] = <<>>
      BY <1>b, <2>2 DEF NumberInv
    <2>4. \A e \in Range(hbOut) : e.blk <= lastBlk'
      BY <1>b, <2>2 DEF NumberInv
    <2>5. "blk" \in hbGot =>
            told[hb] <= hbBlk /\ hbBlk <= lastBlk' /\ \A e \in Range(hbOut) : e.blk <= hbBlk
      <3>1. hbBlk \in Nat
        BY <1>0 DEF SubTypeOK
      <3> QED
        BY <2>2, <3>1 DEF NumberInv
    <2> QED
      BY <1>a, <2>1, <2>3, <2>4, <2>5 DEF NumberInv
  <1>2. CASE BlockThrowAll
    BY <1>0, <1>2, NumberQuiet DEF BlockThrowAll, BlockThrow
  <1>3. ASSUME NEW c \in Clients, NEW i \in DOMAIN Body, NotifyEventHandler(c, i)
        PROVE  NumberInv'
    <2>1. Here(i) \in Event /\ Here(i).blk = lastBlk
      BY <1>0, LogType DEF Here, NumberInv
    <2>2. /\ queue' = [queue EXCEPT ![c] = Append(queue[c], Here(i))]
          /\ UNCHANGED <<chain, lastBlk, fed, told, resp, hb, hbOut, hbGot, hbBlk, pc>>
      BY <1>3 DEF NotifyEventHandler, PushBack, svcVars
    <2>3. \A e \in Range(Append(queue[c], Here(i))) : e.blk <= lastBlk
      BY <1>0, <1>a, <2>1, RangeAppend DEF NumberInv, SubTypeOK
    <2>4. \A d \in Clients : \A e \in Range(queue'[d]) : e.blk <= lastBlk
      BY <1>0, <2>2, <2>3 DEF NumberInv, SubTypeOK
    <2> QED
      BY <1>0, <2>2, <2>4 DEF NumberInv
  <1>4. ASSUME NEW c \in Clients, NEW i \in DOMAIN Body, SkipCancelled(c, i) PROVE NumberInv'
    BY <1>0, <1>4, NumberQuiet DEF SkipCancelled, svcVars
  <1>5. ASSUME NEW c \in Clients, NEW p \in Publishers, SubReqLookup(c, p) PROVE NumberInv'
    BY <1>0, <1>5, NumberQuiet DEF SubReqLookup, svcVars, SubTypeOK
  <1>6. ASSUME NEW c \in Clients, NEW k \in 0..Len(Body), SubReqListen(c, k) PROVE NumberInv'
    BY <1>0, <1>6, NumberQuiet DEF SubReqListen, svcVars, SubTypeOK
  <1>7. ASSUME NEW c \in Clients, NEW a \in {"sec", "blk"}, SubReqReadMonitor(c, a)
        PROVE  NumberInv'
    <2>1. /\ resp' = IF a = "blk" THEN [resp EXCEPT ![c].blk = lastBlk] ELSE resp
          /\ UNCHANGED <<chain, lastBlk, queue, fed, told, hb, hbOut, hbGot, hbBlk, pc>>
      BY <1>7 DEF SubReqReadMonitor, svcVars
    <2>2. \A d \in Clients : resp'[d].blk <= lastBlk
      BY <1>0, <1>a, <2>1 DEF NumberInv, SubTypeOK
    <2> QED
      BY <2>1, <2>2 DEF NumberInv
  <1>8. ASSUME NEW c \in Clients, SubReqCopyBegin(c) PROVE NumberInv'
    BY <1>0, <1>8, NumberQuiet DEF SubReqCopyBegin, GetPastEventsBegin, SubTypeOK
  <1>9. ASSUME NEW c \in Clients, NEW events \in CopyResults, SubReqCopyEnd(c, events)
        PROVE  NumberInv'
    <2>1. /\ resp' = [resp EXCEPT ![c].past = events]
          /\ pc[c] = "copy" /\ pc' = [pc EXCEPT ![c] = "read"]
          /\ UNCHANGED <<chain, lastBlk, queue, fed, told, hb, hbOut, hbGot, hbBlk>>
      BY <1>9 DEF SubReqCopyEnd, GetPastEventsEnd
    <2>2. \A d \in Clients : resp'[d].blk = resp[d].blk
      BY <1>0, <2>1 DEF SubTypeOK
    <2>3. \A d \in Clients : pc'[d] \in {"idle", "listen", "read", "copy"} =>
                             pc[d] \in {"idle", "listen", "read", "copy"}
      BY <1>0, <2>1 DEF SubTypeOK
    <2> QED
      BY <2>1, <2>2, <2>3 DEF NumberInv
  <1>10. ASSUME NEW c \in Clients, SubReqRespond(c) PROVE NumberInv'
    <2>1. /\ told' = [told EXCEPT ![c] = resp[c].blk]
          /\ pc[c] = "read" /\ pc' = [pc EXCEPT ![c] = "add"]
          /\ UNCHANGED <<chain, lastBlk, queue, fed, resp, hb, hbOut, hbGot, hbBlk>>
      BY <1>10 DEF SubReqRespond, svcVars
    <2>2. hb # c
      BY <1>0, <2>1, ClientAssumption DEF RequestOK
    <2>3. /\ \A d \in Clients : d # c => told'[d] = told[d] /\ pc'[d] = pc[d]
          /\ told'[c] = resp[c].blk /\ pc'[c] = "add" /\ told[c] = 0 /\ fed[c] = <<>>
      BY <1>0, <2>1 DEF SubTypeOK, NumberInv
    <2>4. \A e \in Range(fed'[c]) : e.blk <= told'[c]
      BY <2>1, <2>3 DEF Range
    <2>5. "blk" \in hbGot => told'[hb] = told[hb]
      BY <1>0, <2>1, <2>2, <2>3 DEF NumberInv, SubTypeOK
    <2> QED
      BY <1>0, <2>1, <2>3, <2>4, <2>5 DEF NumberInv
  <1>11. ASSUME NEW c \in Clients, SubReqRespondFail(c) PROVE NumberInv'
    BY <1>0, <1>11, NumberQuiet DEF SubReqRespondFail, svcVars, SubTypeOK
  <1>12. ASSUME NEW c \in Clients, SubReqAddEmitter(c) PROVE NumberInv'
    BY <1>0, <1>12, NumberQuiet DEF SubReqAddEmitter, svcVars, SubTypeOK
  <1>13. ASSUME NEW c \in Clients, EmitSwap(c) PROVE NumberInv'
    <2>1. /\ hb = NoClient /\ hb' = c /\ hbOut' = queue[c]
          /\ queue' = [queue EXCEPT ![c] = <<>>]
          /\ UNCHANGED <<chain, lastBlk, fed, told, resp, hbGot, hbBlk, pc>>
      BY <1>13 DEF EmitSwap, Taken, Left, svcVars
    <2>2. \A d \in Clients : \A e \in Range(queue'[d]) : e \in Range(queue[d])
      BY <1>0, <2>1 DEF SubTypeOK, Range
    <2> QED
      BY <1>0, <2>1, <2>2 DEF NumberInv
  <1>14. ASSUME NEW a \in {"sec", "blk"}, EmitRead(a) PROVE NumberInv'
    <2>1. /\ hb \in Clients
          /\ hbGot' = hbGot \cup {a}
          /\ hbBlk' = IF a = "blk" THEN lastBlk ELSE hbBlk
          /\ UNCHANGED <<chain, lastBlk, queue, fed, told, resp, hb, hbOut, pc>>
      BY <1>0, <1>14 DEF EmitRead, svcVars, SubTypeOK
    <2>2. hb # NoClient
      BY <1>14 DEF EmitRead
    <2>3. "blk" \in hbGot' =>
            told[hb] <= hbBlk' /\ hbBlk' <= lastBlk /\ \A e \in Range(hbOut) : e.blk <= hbBlk'
      BY <1>0, <1>a, <2>1 DEF NumberInv
    <2> QED
      BY <2>1, <2>2, <2>3 DEF NumberInv
  <1>15. CASE EmitSend
    <2>1. /\ hb \in Clients /\ "blk" \in hbGot
          /\ fed' = [fed EXCEPT ![hb] = fed[hb] \o hbOut]
          /\ told' = [told EXCEPT ![hb] = hbBlk]
          /\ hb' = NoClient /\ hbOut' = <<>> /\ hbGot' = {} /\ hbBlk' = 0
          /\ UNCHANGED <<chain, lastBlk, queue, resp, pc>>
      BY <1>0, <1>15 DEF EmitSend, HeartbeatFree, svcVars, SubTypeOK
    <2>2. told[hb] <= hbBlk /\ hbBlk <= lastBlk /\ \A e \in Range(hbOut) : e.blk <= hbBlk
      BY <2>1 DEF NumberInv
    <2>3. \A e \in Range(fed[hb] \o hbOut) : e.blk <= hbBlk
      <3> SUFFICES ASSUME NEW e \in Range(fed[hb] \o hbOut) PROVE e.blk <= hbBlk
        OBVIOUS
      <3>1. fed[hb] \in Seq(Event) /\ hbOut \in Seq(Event)
        BY <1>0, <2>1 DEF SubTypeOK
      <3>2. e \in Range(fed[hb]) \/ e \in Range(hbOut)
        BY <3>1, RangeConcat
      <3>3. e \in Range(fed[hb]) => e \in Event
        BY <3>1, RangeType
      <3>4. e \in Range(fed[hb]) => e.blk <= told[hb] /\ e.blk \in Nat
        BY <2>1, <3>3 DEF NumberInv, Event
      <3> QED
        BY <1>0, <1>b, <2>1, <2>2, <3>2, <3>4 DEF SubTypeOK
    <2>4. pc[hb] = "live" /\ hb # NoClient
      BY <1>0, <2>1, ClientAssumption DEF RequestOK
    <2>5. /\ \A d \in Clients : d # hb => fed'[d] = fed[d] /\ told'[d] = told[d]
          /\ fed'[hb] = fed[hb] \o hbOut /\ told'[hb] = hbBlk
      BY <1>0, <2>1 DEF SubTypeOK
    <2>6. Range(hbOut') = {}
      BY <2>1 DEF Range
    <2> QED
      BY <1>0, <2>1, <2>2, <2>3, <2>4, <2>5, <2>6 DEF NumberInv
  <1>16. CASE EmitFail
    <2>1. /\ hb \in Clients /\ pc' = [pc EXCEPT ![hb] = "dropped"]
          /\ hb' = NoClient /\ hbOut' = <<>> /\ hbGot' = {} /\ hbBlk' = 0
          /\ UNCHANGED <<chain, lastBlk, queue, fed, told, resp>>
      BY <1>0, <1>16 DEF EmitFail, HeartbeatFree, svcVars, SubTypeOK
    <2>2. \A d \in Clients : pc'[d] \in {"idle", "listen", "read", "copy"} => pc'[d] = pc[d]
      BY <1>0, <2>1 DEF SubTypeOK
    <2>3. Range(hbOut') = {}
      BY <2>1 DEF Range
    <2> QED
      BY <2>1, <2>2, <2>3 DEF NumberInv
  <1>17. CASE ServiceStep \/ BlockDoneAll \/ Terminated \/ UNCHANGED vars
    BY <1>1, <1>17 DEF ServiceStep, BlockDoneAll, Terminated, vars
  <1>18. CASE BlockWork
    BY <1>1, <1>2, <1>3, <1>4, <1>17, <1>18 DEF BlockWork
  <1> QED
    BY <1>5, <1>6, <1>7, <1>8, <1>9, <1>10, <1>11, <1>12, <1>13,
       <1>14, <1>15, <1>16, <1>17, <1>18
    DEF Next, SubReqWork, EmitWork

\* The events are behind the numbers throughout.
LEMMA NumberCorrect == Spec => []NumberInv
  <1>1. Init => NumberInv
    <2> SUFFICES ASSUME Init PROVE NumberInv
      OBVIOUS
    <2>1. \A c \in Clients : Range(queue[c]) = {} /\ Range(fed[c]) = {}
      BY DEF Init, Range
    <2>2. Range(hbOut) = {}
      BY DEF Init, Range
    <2>3. lastBlk = 0 /\ Len(chain) = 0
      BY DEF Init, SvcInit
    <2>4. \A c \in Clients : resp[c].blk = 0 /\ told[c] = 0 /\ fed[c] = <<>>
      BY DEF Init
    <2> QED
      BY <2>1, <2>2, <2>3, <2>4 DEF Init, NumberInv
  <1> QED
    BY <1>1, NumberStep, FullTypeCorrect, PTL DEF Spec

\* No heartbeat message announces less than the events it carries, for any
\* number of clients, managers and blocks and any order of the arguments.
THEOREM NeverAhead == Spec => []NotAhead
  <1>1. NumberInv => NotAhead
    BY DEF NumberInv, NotAhead
  <1> QED
    BY <1>1, NumberCorrect, PTL

\* LatestBlkNum never goes back from one message of a subscriber to the next.
THEOREM NumberTellsForward == Spec => TellsForward
  <1>1. FullTypeInv /\ NumberInv /\ [Next]_vars => [\A c \in Clients : told'[c] >= told[c]]_vars
    <2> SUFFICES ASSUME FullTypeInv, NumberInv, [Next]_vars, NEW c \in Clients
                 PROVE  told'[c] >= told[c]
      OBVIOUS
    <2>0. SubTypeOK
      BY DEF FullTypeInv
    <2>1. told[c] \in Nat /\ told \in [Clients -> Nat]
      BY <2>0 DEF SubTypeOK
    <2>2. ASSUME NEW d \in Clients, SubReqRespond(d) PROVE told'[c] >= told[c]
      <3>1. told[d] = 0 /\ told' = [told EXCEPT ![d] = resp[d].blk] /\ resp[d].blk \in Nat
        BY <2>0, <2>2 DEF SubReqRespond, NumberInv, SubTypeOK
      <3> QED
        BY <2>1, <3>1
    <2>3. CASE EmitSend
      <3>1. told[hb] <= hbBlk /\ told' = [told EXCEPT ![hb] = hbBlk] /\ hb \in Clients /\ hbBlk \in Nat
        BY <2>0, <2>3 DEF EmitSend, NumberInv, SubTypeOK
      <3> QED
        BY <2>1, <3>1
    <2>4. ASSUME ~EmitSend, ~\E d \in Clients : SubReqRespond(d) PROVE told' = told
      BY <2>4 DEF Next, BlockWork, SubReqWork, EmitWork, ServiceStep, BlockAppend,
         NotifyEventHandler, SkipCancelled, BlockDoneAll, BlockThrowAll, SubReqLookup,
         SubReqListen, SubReqReadMonitor, SubReqCopyBegin, SubReqCopyEnd, SubReqRespondFail,
         SubReqAddEmitter, EmitSwap, EmitRead, EmitFail, Terminated, subVars, vars
    <2> QED
      BY <2>1, <2>2, <2>3, <2>4
  <1> QED
    BY <1>1, FullTypeCorrect, NumberCorrect, PTL DEF Spec, TellsForward


-----------------------------------------------------------------------------
(***************************************************************************)
(* EventFeed.  A client whose listener is in the event manager has its     *)
(* events sent, taken or queued, one after the other; what is sent, taken  *)
(* and queued is a stretch of its manager's events, and an event behind it *)
(* that is not in there is one of the last block, still to come.           *)
(***************************************************************************)

\* The beginning of a stretch is a stretch.
LEMMA StretchPrefix ==
    ASSUME NEW E, E \subseteq Event, NEW s \in Seq(Event), NEW t \in Seq(Event),
           Feed!Stretch(s \o t, E)
    PROVE  Feed!Stretch(s, E)
  <1> DEFINE st == s \o t
  <1>1. /\ st \in Seq(Event) /\ Len(s) \in Nat
        /\ DOMAIN s = 1..Len(s) /\ DOMAIN st = 1..Len(st) /\ Len(s) <= Len(st)
        /\ \A i \in DOMAIN s : i \in DOMAIN st /\ st[i] = s[i]
    OBVIOUS
  <1> HIDE DEF st
  <1>2. /\ \A i \in DOMAIN st : st[i] \in E /\ st[i] \in Event
        /\ \A i, j \in DOMAIN st : i < j => Before(st[i], st[j])
        /\ \A e \in E, i, j \in DOMAIN st :
              Before(st[i], e) /\ Before(e, st[j]) => \E k \in DOMAIN st : e = st[k]
    BY DEF Feed!Stretch, Feed!InOrder, Feed!Before, Feed!Range, Before, st, Range
  <1>3. ASSUME NEW e \in E, NEW i \in DOMAIN s, NEW j \in DOMAIN s,
               Before(s[i], e), Before(e, s[j])
        PROVE  e \in Range(s)
    <2>1. PICK k \in DOMAIN st : e = st[k]
      BY <1>1, <1>2, <1>3
    <2>2. k \in DOMAIN s
      <3>1. ASSUME j < k PROVE FALSE
        <4>1. Before(s[j], e) /\ s[j] \in Event /\ e \in Event
          BY <1>1, <1>2, <2>1, <3>1
        <4> QED
          BY <1>3, <4>1 DEF Before, Event
      <3> QED
        BY <1>1, <3>1
    <2> QED
      BY <1>1, <2>1, <2>2 DEF Range
  <1>4. Range(s) \subseteq E
    BY <1>1, <1>2 DEF Range
  <1>5. \A i, j \in DOMAIN s : i < j => Before(s[i], s[j])
    BY <1>1, <1>2
  <1> QED
    BY <1>3, <1>4, <1>5 DEF Feed!Stretch, Feed!InOrder, Feed!Before, Feed!Range, Before, Range

\* A stretch and the event that comes next.
LEMMA StretchAppend ==
    ASSUME NEW E, E \subseteq Event, NEW s \in Seq(Event), NEW x \in E,
           Feed!Stretch(s, E),
           \A f \in Range(s) : Before(f, x),
           \A e \in E, f \in Range(s) : Before(f, e) /\ Before(e, x) => e \in Range(s)
    PROVE  Feed!Stretch(Append(s, x), E)
  <1> DEFINE sx == Append(s, x)
  <1>1. /\ Len(s) \in Nat /\ DOMAIN s = 1..Len(s) /\ DOMAIN sx = 1..(Len(s) + 1)
        /\ \A i \in DOMAIN s : sx[i] = s[i] /\ s[i] \in Event /\ s[i] \in Range(s)
        /\ sx[Len(s) + 1] = x /\ x \in Event
    BY DEF Range
  <1>2. Range(sx) = Range(s) \cup {x}
    BY RangeAppend
  <1> HIDE DEF sx
  <1>3. /\ Range(s) \subseteq E
        /\ \A i, j \in DOMAIN s : i < j => Before(s[i], s[j])
        /\ \A e \in E, i, j \in DOMAIN s :
              Before(s[i], e) /\ Before(e, s[j]) => e \in Range(s)
    BY DEF Feed!Stretch, Feed!InOrder, Feed!Before, Feed!Range, Before, Range
  <1>4. \A i, j \in DOMAIN sx : i < j => Before(sx[i], sx[j])
    BY <1>1, <1>3
  <1>5. ASSUME NEW e \in E, NEW i \in DOMAIN sx, NEW j \in DOMAIN sx,
               Before(sx[i], e), Before(e, sx[j])
        PROVE  e \in Range(sx)
    <2>1. i \in DOMAIN s
      <3>1. e \in Event
        OBVIOUS
      <3>2. CASE i = Len(s) + 1
        <4>1. Before(x, e) /\ (Before(e, x) \/ \E f \in Range(s) : Before(e, f) /\ f \in Event)
          BY <1>1, <1>5, <3>2
        <4> QED
          BY <1>1, <3>1, <4>1 DEF Before, Event
      <3> QED
        BY <1>1, <3>2
    <2> QED
      BY <1>1, <1>2, <1>3, <1>5, <2>1
  <1> QED
    BY <1>2, <1>3, <1>4, <1>5 DEF Feed!Stretch, Feed!InOrder, Feed!Before, Feed!Range, Before, Range, sx

\* A stretch stays one when later events are published.
LEMMA StretchMore ==
    ASSUME NEW E, NEW F, E \subseteq F, F \subseteq Event, NEW s \in Seq(Event),
           Feed!Stretch(s, E),
           \A e \in F \ E, f \in Range(s) : ~Before(e, f)
    PROVE  Feed!Stretch(s, F)
  BY DEF Feed!Stretch, Feed!InOrder, Feed!Before, Feed!Range, Before, Range

\* Nothing is a stretch of anything.
LEMMA StretchEmpty ==
    ASSUME NEW E
    PROVE  Feed!Stretch(<<>>, E)
  BY DEF Feed!Stretch, Feed!InOrder, Feed!Range

\* What client c was sent, what the heartbeat thread took for it, its queue.
Piped(c) == fed[c] \o (IF hb = c THEN hbOut ELSE <<>>) \o queue[c]

UnderWay == {"fetch", "check", "regStore", "regListen", "push"}

\* An event of the last block whose callback is to come.
StillDue(c, e) == e.blk = Len(chain) /\ <<c, e.idx>> \in subTodo

ServedInv(c) ==
    /\ Feed!Stretch(Piped(c), LogOf(em[c]))
    /\ \A i, j \in DOMAIN Body :
          <<c, i>> \in subTodo /\ i < j /\ SubMatches(c, Body[j]) => <<c, j>> \in subTodo
    /\ \A i \in DOMAIN Body : <<c, i>> \in subTodo => \A e \in Range(Piped(c)) : Before(e, Here(i))
    /\ \A e \in LogOf(em[c]), f \in Range(Piped(c)) :
          Before(f, e) => e \in Range(Piped(c)) \/ blkPc = "stopped" \/ StillDue(c, e)

FeedInv ==
    /\ \A c \in Clients : c \in subs <=> pc[c] \in {"read", "copy", "add", "live", "failed"}
    /\ blkPc \in {"idle", "stopped"} => subTodo = {}
    /\ \A c \in Clients : c \notin subs /\ pc[c] # "dropped" =>
          queue[c] = <<>> /\ fed[c] = <<>> /\ \A i : <<c, i>> \notin subTodo
    /\ \A c \in Clients : \A i : <<c, i>> \in subTodo => i \in DOMAIN Body /\ SubMatches(c, Body[i])
    /\ \A c \in subs : ServedInv(c)

\* The pipe is made of events.
LEMMA PipedType ==
    ASSUME SubTypeOK, NEW c \in Clients
    PROVE  /\ Piped(c) \in Seq(Event)
           /\ \A e \in Range(Piped(c)) : e \in Event
  <1>1. Piped(c) \in Seq(Event)
    BY DEF Piped, SubTypeOK
  <1> QED
    BY <1>1, RangeType

\* No event of the pipe is of a block that is not there yet.
LEMMA PipedBehind ==
    ASSUME SubTypeOK, SvcTypeOK, NumberInv, NEW c \in Clients
    PROVE  \A e \in Range(Piped(c)) : e.blk <= Len(chain)
  <1> SUFFICES ASSUME NEW e \in Range(Piped(c)) PROVE e.blk <= Len(chain)
    OBVIOUS
  <1> DEFINE out == IF hb = c THEN hbOut ELSE <<>>
  <1>1. /\ fed[c] \in Seq(Event) /\ out \in Seq(Event) /\ queue[c] \in Seq(Event)
        /\ fed[c] \o out \in Seq(Event) /\ told[c] \in Nat /\ lastBlk \in Nat
    BY DEF SubTypeOK, SvcTypeOK
  <1>2. e \in Range(fed[c]) \/ e \in Range(out) \/ e \in Range(queue[c])
    BY <1>1, RangeConcat DEF Piped
  <1>3. CASE e \in Range(fed[c])
    <2>1. e \in Event
      BY <1>1, <1>3, RangeType
    <2>2. e.blk <= told[c] /\ told[c] <= lastBlk /\ lastBlk = Len(chain) /\ e.blk \in Nat
      BY <1>3, <2>1 DEF NumberInv, Event
    <2> QED
      BY <1>1, <2>2
  <1>4. CASE e \in Range(out)
    BY <1>4 DEF NumberInv, Range
  <1>5. CASE e \in Range(queue[c])
    BY <1>5 DEF NumberInv
  <1> HIDE DEF out
  <1> QED
    BY <1>2, <1>3, <1>4, <1>5

\* The events of a manager on the chain are events.
LEMMA LogOfType ==
    ASSUME SvcTypeOK, NEW m
    PROVE  /\ LogOf(m) \subseteq Event
           /\ \A e : e \in LogOf(m) <=>
                 /\ e \in Event /\ e.blk \in DOMAIN chain /\ e.idx \in DOMAIN chain[e.blk]
                 /\ chain[e.blk][e.idx].type = "notify" /\ chain[e.blk][e.idx].em = m
  <1>1. \A n \in DOMAIN chain : n \in Nat /\ chain[n] \in Seq(Log) /\ DOMAIN chain[n] \subseteq Nat
    BY BodiesAssumption DEF SvcTypeOK
  <1>2. \A e : e \in OnChain <=> e \in Event /\ e.blk \in DOMAIN chain /\ e.idx \in DOMAIN chain[e.blk]
    BY <1>1 DEF OnChain, Event
  <1> QED
    BY <1>2 DEF LogOf, LogAt

\* Nothing of a client changes that its promise depends on.
LEMMA ServedQuiet ==
    ASSUME NEW c \in Clients, ServedInv(c), UNCHANGED chain,
           em'[c] = em[c], Piped(c)' = Piped(c),
           \A i \in DOMAIN Body : <<c, i>> \in subTodo' <=> <<c, i>> \in subTodo,
           blkPc' = blkPc \/ (blkPc \in UnderWay /\ blkPc' \in UnderWay),
           SvcTypeOK
    PROVE  ServedInv(c)'
  <1>1. Body' = Body /\ Len(chain') = Len(chain) /\ \A i : Here(i)' = Here(i)
    BY DEF Body, Here
  <1>2. \A m : LogOf(m)' = LogOf(m)
    BY DEF LogOf, OnChain, LogAt
  <1>3. LogOf(em[c])' = LogOf(em[c])
    BY DEF LogOf, OnChain, LogAt
  <1>4. \A e \in LogOf(em[c]) : StillDue(c, e) => StillDue(c, e)'
    <2> SUFFICES ASSUME NEW e \in LogOf(em[c]), StillDue(c, e) PROVE StillDue(c, e)'
      OBVIOUS
    <2>1. e.blk = Len(chain) => e.idx \in DOMAIN Body
      BY LogOfType, BodyType DEF Body
    <2> QED
      BY <2>1 DEF StillDue, UnderWay
  <1>5. \A log : SubMatches(c, log)' <=> SubMatches(c, log)
    BY DEF SubMatches
  <1>6. Feed!Stretch(Piped(c), LogOf(em[c]))'
    BY <1>3 DEF ServedInv, Feed!Stretch, Feed!InOrder, Feed!Before, Feed!Range
  <1> QED
    BY <1>1, <1>3, <1>4, <1>5, <1>6 DEF ServedInv, UnderWay, SubMatches

\* A block adds the events in it.
LEMMA AppendLogOf ==
    ASSUME SvcTypeOK, NEW body \in BlockBodies, AppendBlock(body), NEW m
    PROVE  /\ LogOf(m) \subseteq LogOf(m)' /\ LogOf(m)' \subseteq Event
           /\ \A e \in LogOf(m)' : e \in LogOf(m) \/ e.blk = Len(chain')
           /\ \A e \in LogOf(m)' : e.blk = Len(chain') =>
                 e.idx \in DOMAIN body /\ body[e.idx].type = "notify" /\ body[e.idx].em = m
  <1>1. /\ chain' = Append(chain, body) /\ body \in Seq(Log) /\ chain \in Seq(BlockBodies)
        /\ Len(chain) \in Nat /\ Len(chain') = Len(chain) + 1
        /\ DOMAIN chain' = 1..(Len(chain) + 1) /\ DOMAIN chain = 1..Len(chain)
        /\ \A n \in DOMAIN chain : n \in DOMAIN chain' /\ chain'[n] = chain[n]
        /\ chain'[Len(chain')] = body
    BY BodiesAssumption DEF AppendBlock, SvcTypeOK
  <1>2. \A n \in DOMAIN chain' : n \in Nat /\ chain'[n] \in Seq(Log) /\ DOMAIN chain'[n] \subseteq Nat
    BY <1>1, BodiesAssumption
  <1>3. \A e : e \in OnChain' <=> e \in Event /\ e.blk \in DOMAIN chain' /\ e.idx \in DOMAIN chain'[e.blk]
    BY <1>2 DEF OnChain, Event
  <1>4. \A e : e \in LogOf(m)' <=>
            /\ e \in Event /\ e.blk \in DOMAIN chain' /\ e.idx \in DOMAIN chain'[e.blk]
            /\ chain'[e.blk][e.idx].type = "notify" /\ chain'[e.blk][e.idx].em = m
    BY <1>3 DEF LogOf, LogAt
  <1>5. \A e : e \in LogOf(m) <=>
            /\ e \in Event /\ e.blk \in DOMAIN chain /\ e.idx \in DOMAIN chain[e.blk]
            /\ chain[e.blk][e.idx].type = "notify" /\ chain[e.blk][e.idx].em = m
    BY LogOfType
  <1>6. \A e \in Event : e.blk \in DOMAIN chain' => e.blk \in DOMAIN chain \/ e.blk = Len(chain')
    BY <1>1 DEF Event
  <1> QED
    BY <1>1, <1>4, <1>5, <1>6

\* A block is appended, and the callbacks for all of it are due.
LEMMA ServedAppend ==
    ASSUME NEW c \in subs, NEW body \in BlockBodies, BlockAppend(body),
           FullTypeInv, NumberInv, FeedInv
    PROVE  ServedInv(c)'
  <1>0. SvcTypeOK /\ SubTypeOK /\ c \in Clients /\ ServedInv(c) /\ subTodo = {} /\ AppendBlock(body)
    BY DEF FullTypeInv, TypeInv, SubTypeOK, FeedInv, BlockAppend, AppendBlock
  <1>1. /\ chain' = Append(chain, body) /\ body \in Seq(Log) /\ chain \in Seq(BlockBodies)
        /\ blkPc = "idle" /\ blkPc' = "fetch" /\ chain' \in Seq(BlockBodies)
        /\ Len(chain) \in Nat /\ Len(chain') = Len(chain) + 1
        /\ \A n \in DOMAIN chain : n \in DOMAIN chain' /\ chain'[n] = chain[n]
        /\ chain' # <<>> /\ chain'[Len(chain')] = body
    BY <1>0, BodiesAssumption DEF AppendBlock, SvcTypeOK
  <1>2. /\ Piped(c)' = Piped(c) /\ em' = em
        /\ \A i : <<c, i>> \in subTodo' <=> i \in DOMAIN body /\ SubMatches(c, body[i])
    BY <1>0 DEF Piped, BlockAppend
  <1>3. Body' = body /\ \A i : Here(i)' = [blk |-> Len(chain'), idx |-> i]
    BY <1>1 DEF Body, Here
  <1>4. /\ LogOf(em[c]) \subseteq LogOf(em[c])' /\ LogOf(em[c])' \subseteq Event
        /\ \A e \in LogOf(em[c])' : e \in LogOf(em[c]) \/ e.blk = Len(chain')
        /\ \A e \in LogOf(em[c])' : e.blk = Len(chain') => <<c, e.idx>> \in subTodo'
    BY <1>0, <1>2, AppendLogOf DEF SubMatches
  <1>5. \A f \in Range(Piped(c)) : f.blk <= Len(chain) /\ f \in Event
    BY <1>0, PipedBehind, PipedType
  <1>6. Feed!Stretch(Piped(c), LogOf(em[c])')
    <2>1. \A e \in LogOf(em[c])' \ LogOf(em[c]), f \in Range(Piped(c)) : ~Before(e, f)
      BY <1>1, <1>4, <1>5 DEF Before, Event
    <2> QED
      BY <1>0, <1>4, <2>1, PipedType, StretchMore DEF ServedInv
  <1>7. \A i, f : f \in Range(Piped(c)) => Before(f, Here(i)')
    BY <1>1, <1>3, <1>5 DEF Before, Event
  <1>8. ASSUME NEW e \in LogOf(em[c])', NEW f \in Range(Piped(c)), Before(f, e)
        PROVE  e \in Range(Piped(c)) \/ e.blk = Len(chain')
    BY <1>0, <1>1, <1>4, <1>8 DEF ServedInv, StillDue
  <1>9. Feed!Stretch(Piped(c), LogOf(em[c]))'
    BY <1>2, <1>6 DEF Feed!Stretch, Feed!InOrder, Feed!Before, Feed!Range
  <1>10. \A i, f : f \in Range(Piped(c))' => Before(f, Here(i))'
    BY <1>2, <1>7 DEF Before
  <1> QED
    BY <1>1, <1>2, <1>3, <1>4, <1>8, <1>9, <1>10 DEF ServedInv, StillDue, SubMatches, Before

\* What is appended to the second part is appended to the whole.
LEMMA AppendLast ==
    ASSUME NEW S, NEW s \in Seq(S), NEW t \in Seq(S), NEW x \in S
    PROVE  s \o Append(t, x) = Append(s \o t, x)
  OBVIOUS

\* An event is queued.
LEMMA ServedNotify ==
    ASSUME NEW c \in subs, NEW i \in DOMAIN Body, NotifyEventHandler(c, i), FullTypeInv, FeedInv
    PROVE  ServedInv(c)'
  <1> DEFINE s == Piped(c)
             x == Here(i)
             E == LogOf(em[c])
  <1>0. SvcTypeOK /\ SubTypeOK /\ c \in Clients /\ ServedInv(c) /\ s \in Seq(Event)
    BY PipedType DEF FullTypeInv, TypeInv, SubTypeOK, FeedInv
  <1>1. /\ chain' = chain /\ blkPc = "check" /\ blkPc' = "check" /\ em' = em
        /\ hb' = hb /\ hbOut' = hbOut /\ fed' = fed
        /\ Body' = Body /\ Len(chain') = Len(chain) /\ \A k : Here(k)' = Here(k)
        /\ E' = E
    BY DEF NotifyEventHandler, svcVars, Body, Here, LogOf, OnChain, LogAt
  <1>2. /\ subTodo' = subTodo \ {<<c, i>>} /\ <<c, i>> \in subTodo
        /\ \A j \in DOMAIN Body : <<c, j>> \in subTodo => i <= j
        /\ SubMatches(c, Body[i]) /\ DOMAIN Body \subseteq Nat
    BY <1>0, BodyType DEF NotifyEventHandler, SubIsNext, FeedInv
  <1>3. Piped(c)' = Append(s, x)
    <2>1. queue'[c] = Append(queue[c], x)
      BY <1>0 DEF NotifyEventHandler, PushBack, SubTypeOK
    <2> DEFINE a == fed[c] \o (IF hb = c THEN hbOut ELSE <<>>)
    <2>2. a \in Seq(Event) /\ queue[c] \in Seq(Event) /\ x \in Event
      BY <1>0, LogType DEF SubTypeOK
    <2>3. Piped(c)' = a \o Append(queue[c], x) /\ s = a \o queue[c]
      BY <1>1, <2>1 DEF Piped
    <2> HIDE DEF a, s, x
    <2>4. a \o Append(queue[c], x) = Append(a \o queue[c], x)
      BY <2>2, AppendLast
    <2> QED
      BY <2>3, <2>4
  <1>4. x \in Event /\ E \subseteq Event /\ x \in E
    <2>1. chain # <<>> /\ Len(chain) \in DOMAIN chain /\ Body = chain[Len(chain)]
      BY <1>0, BodyType DEF Body, SvcTypeOK
    <2> QED
      BY <1>0, <1>2, <2>1, LogType, LogOfType DEF SubMatches, Here
  <1>5. /\ Feed!Stretch(s, E)
        /\ \A f \in Range(s) : Before(f, x)
        /\ \A e \in E, f \in Range(s) : Before(f, e) => e \in Range(s) \/ StillDue(c, e)
        /\ \A j, k \in DOMAIN Body :
              <<c, j>> \in subTodo /\ j < k /\ SubMatches(c, Body[k]) => <<c, k>> \in subTodo
    BY <1>0, <1>1, <1>2 DEF ServedInv
  <1>a. \A e \in E : e.blk = Len(chain) => e.idx \in DOMAIN Body /\ SubMatches(c, Body[e.idx])
    BY <1>0, LogOfType, BodyType DEF SubMatches, Body
  <1>b. \A e \in E : e.blk \in 1..Len(chain) /\ e.idx \in Nat
    BY <1>0, LogOfType DEF Event, SvcTypeOK
  <1>c. Range(Append(s, x)) = Range(s) \cup {x}
    BY <1>0, <1>4, RangeAppend
  <1> HIDE DEF s, E
  <1>6. Feed!Stretch(Append(s, x), E)
    <2>1. ASSUME NEW e \in E, NEW f \in Range(s), Before(f, e), Before(e, x)
          PROVE  e \in Range(s)
      <3>1. ASSUME e \notin Range(s) PROVE FALSE
        <4>1. e.blk = Len(chain) /\ <<c, e.idx>> \in subTodo
          BY <1>1, <1>5, <2>1, <3>1 DEF StillDue
        <4>2. i <= e.idx
          BY <1>2, <1>a, <4>1
        <4> QED
          BY <1>2, <1>b, <2>1, <4>1, <4>2 DEF Before, Here
      <3> QED
        BY <3>1
    <2> QED
      BY <1>0, <1>4, <1>5, <2>1, StretchAppend
  <1>7. \A j \in DOMAIN Body : <<c, j>> \in subTodo' =>
            \A e \in Range(Append(s, x)) : Before(e, Here(j))
    <2>1. \A j \in DOMAIN Body : <<c, j>> \in subTodo' => i < j
      BY <1>2
    <2>2. \A j \in DOMAIN Body : i < j => Before(x, Here(j))
      BY DEF Before, Here
    <2> QED
      BY <1>0, <1>2, <1>c, <2>1, <2>2 DEF ServedInv, s
  <1>8. ASSUME NEW e \in E, NEW f \in Range(Append(s, x)), Before(f, e), e \notin Range(Append(s, x))
        PROVE  e.blk = Len(chain) /\ <<c, e.idx>> \in subTodo'
    <2>1. CASE f \in Range(s)
      <3>1. e.blk = Len(chain) /\ <<c, e.idx>> \in subTodo
        BY <1>1, <1>5, <1>8, <1>c, <2>1 DEF StillDue
      <3>2. e.idx # i
        BY <1>4, <1>8, <1>c, <3>1 DEF Here, Event
      <3> QED
        BY <1>2, <3>1, <3>2
    <2>2. CASE f = x
      <3>1. e.blk = Len(chain) /\ i < e.idx
        BY <1>0, <1>8, <1>b, <2>2 DEF Before, Here, SvcTypeOK
      <3> QED
        BY <1>2, <1>5, <1>a, <3>1
    <2> QED
      BY <1>8, <1>c, <2>1, <2>2
  <1>9. \A j, k \in DOMAIN Body :
            <<c, j>> \in subTodo' /\ j < k /\ SubMatches(c, Body[k]) => <<c, k>> \in subTodo'
    BY <1>2, <1>5
  <1>10. Feed!Stretch(Piped(c), LogOf(em[c]))'
    BY <1>1, <1>3, <1>6 DEF E, Feed!Stretch, Feed!InOrder, Feed!Before, Feed!Range
  <1> QED
    BY <1>1, <1>3, <1>7, <1>8, <1>9, <1>10 DEF ServedInv, StillDue, SubMatches, E

\* Nothing that the subscribers' promises depend on changes.
LEMMA FeedQuiet ==
    ASSUME FeedInv, SvcTypeOK, UNCHANGED <<chain, em, subs, subTodo, queue, fed, hb, hbOut>>,
           blkPc' = blkPc \/ (blkPc \in UnderWay /\ blkPc' \in UnderWay),
           \A c \in Clients :
              \/ pc'[c] = pc[c]
              \/ {pc[c], pc'[c]} \subseteq {"idle", "listen", "rejected"}
              \/ {pc[c], pc'[c]} \subseteq {"read", "copy", "add", "live", "failed"},
           subs \subseteq Clients
    PROVE  FeedInv'
  <1>1. ASSUME NEW c \in subs PROVE ServedInv(c)'
    <2>1. Piped(c)' = Piped(c)
      BY DEF Piped
    <2> QED
      BY <1>1, <2>1, ServedQuiet DEF FeedInv
  <1>2. Body' = Body /\ \A c, log : SubMatches(c, log)' <=> SubMatches(c, log)
    BY DEF Body, SubMatches
  <1>3. \A c \in Clients : pc'[c] = "dropped" <=> pc[c] = "dropped"
    OBVIOUS
  <1>4. \A c \in Clients : c \in subs' <=> pc'[c] \in {"read", "copy", "add", "live", "failed"}
    BY DEF FeedInv
  <1>5. blkPc' \in {"idle", "stopped"} => subTodo' = {}
    BY DEF FeedInv, UnderWay
  <1> QED
    BY <1>1, <1>2, <1>3, <1>4, <1>5 DEF FeedInv

\* A block is finished, with nothing left, or given up.
LEMMA ServedStop ==
    ASSUME NEW c \in Clients, ServedInv(c),
           UNCHANGED <<chain, em, fed, hb, hbOut, queue>>, subTodo' = {},
           blkPc' = "stopped" \/ (blkPc = "check" /\ blkPc' = "idle" /\ subTodo = {})
    PROVE  ServedInv(c)'
  <1>1. /\ Piped(c)' = Piped(c) /\ LogOf(em[c])' = LogOf(em[c])
    BY DEF Piped, LogOf, OnChain, LogAt
  <1>2. Feed!Stretch(Piped(c), LogOf(em[c]))'
    BY <1>1 DEF ServedInv, Feed!Stretch, Feed!InOrder, Feed!Before, Feed!Range
  <1> QED
    BY <1>1, <1>2 DEF ServedInv, StillDue

\* The steps of the block thread.
LEMMA FeedBlockStep == FullTypeInv /\ NumberInv /\ FeedInv /\ BlockWork => FeedInv'
  <1> SUFFICES ASSUME FullTypeInv, NumberInv, FeedInv, BlockWork PROVE FeedInv'
    OBVIOUS
  <1>0. SvcTypeOK /\ SubTypeOK /\ subs \subseteq Clients
    BY DEF FullTypeInv, TypeInv, SubTypeOK
  <1>1. ASSUME NEW body \in BlockBodies, BlockAppend(body) PROVE FeedInv'
    <2>1. /\ UNCHANGED <<pc, em, subs, queue, fed>> /\ blkPc' = "fetch" /\ Body' = body
          /\ subTodo' = {t \in subs \X DOMAIN body : SubMatches(t[1], body[t[2]])}
      BY <1>0, <1>1 DEF BlockAppend, AppendBlock, Body, SvcTypeOK
    <2>2. \A c \in subs : ServedInv(c)'
      BY <1>1, ServedAppend
    <2> QED
      BY <1>0, <2>1, <2>2 DEF FeedInv, SubMatches
  <1>2. CASE ServiceStep
    <2>1. UNCHANGED subVars /\ chain' = chain /\ blkPc \in UnderWay /\ blkPc' \in UnderWay
      BY <1>2 DEF ServiceStep, CheckEvents, DeployEventHandler, RegEventHandler, RegEventStore, RegEventListen,
         NotifyPastFind, NotifyPastPush, UnderWay
    <2> QED
      BY <1>0, <2>1, FeedQuiet DEF subVars
  <1>4. ASSUME NEW c \in Clients, NEW i \in DOMAIN Body, NotifyEventHandler(c, i) PROVE FeedInv'
    <2>1. /\ UNCHANGED <<chain, pc, em, subs, fed, hb, hbOut, blkPc>>
          /\ blkPc = "check" /\ subTodo' = subTodo \ {<<c, i>>} /\ <<c, i>> \in subTodo
          /\ \A d \in Clients : d # c => queue'[d] = queue[d]
          /\ Body' = Body
      BY <1>0, <1>4 DEF NotifyEventHandler, SubIsNext, svcVars, Body, SubTypeOK
    <2>2. ASSUME NEW d \in subs PROVE ServedInv(d)'
      <3>1. CASE d = c
        BY <1>4, <3>1, ServedNotify
      <3>2. CASE d # c
        <4>1. Piped(d)' = Piped(d)
          BY <1>0, <2>1, <3>2 DEF Piped
        <4> QED
          BY <1>0, <2>1, <3>2, <4>1, ServedQuiet DEF FeedInv
      <3> QED
        BY <3>1, <3>2
    <2> QED
      BY <2>1, <2>2 DEF FeedInv, SubMatches
  <1>5. ASSUME NEW c \in Clients, NEW i \in DOMAIN Body, SkipCancelled(c, i) PROVE FeedInv'
    <2>1. /\ UNCHANGED <<chain, pc, em, subs, queue, fed, hb, hbOut, blkPc>>
          /\ blkPc = "check" /\ subTodo' = subTodo \ {<<c, i>>} /\ c \notin subs
          /\ Body' = Body
      BY <1>5 DEF SkipCancelled, svcVars, Body
    <2>2. ASSUME NEW d \in subs PROVE ServedInv(d)'
      <3>1. Piped(d)' = Piped(d)
        BY <2>1 DEF Piped
      <3> QED
        BY <1>0, <2>1, <3>1, ServedQuiet DEF FeedInv
    <2> QED
      BY <2>1, <2>2 DEF FeedInv, SubMatches
  <1>6. CASE BlockDoneAll
    <2>1. /\ UNCHANGED <<chain, pc, em, subs, subTodo, queue, fed, hb, hbOut>>
          /\ blkPc = "check" /\ blkPc' = "idle" /\ subTodo = {} /\ Body' = Body
      BY <1>6 DEF BlockDoneAll, BlockDone, subVars, Body
    <2>2. ASSUME NEW c \in subs PROVE ServedInv(c)'
      BY <1>0, <2>1, ServedStop DEF FeedInv
    <2> QED
      BY <2>1, <2>2 DEF FeedInv, SubMatches
  <1>7. CASE BlockThrowAll
    <2>1. /\ UNCHANGED <<chain, pc, em, subs, queue, fed, hb, hbOut>>
          /\ blkPc' = "stopped" /\ subTodo' = {} /\ Body' = Body
      BY <1>7 DEF BlockThrowAll, BlockThrow, Body
    <2>2. ASSUME NEW c \in subs PROVE ServedInv(c)'
      BY <1>0, <2>1, ServedStop DEF FeedInv
    <2> QED
      BY <2>1, <2>2 DEF FeedInv, SubMatches
  <1> QED
    BY <1>1, <1>2, <1>4, <1>5, <1>6, <1>7 DEF BlockWork

\* A subscription begins, in the middle of a block or between two.
LEMMA FeedListen ==
    ASSUME FullTypeInv, FeedInv, NEW c \in Clients, NEW k \in 0..Len(Body), SubReqListen(c, k)
    PROVE  FeedInv'
  <1>a. SvcTypeOK /\ SubTypeOK /\ RequestOK /\ subs \subseteq Clients
    BY DEF FullTypeInv, TypeInv, SubTypeOK
  <1>b. DOMAIN Body \subseteq Nat
    BY <1>a, BodyType
  <1>0. SvcTypeOK /\ SubTypeOK /\ RequestOK /\ subs \subseteq Clients /\ DOMAIN Body \subseteq Nat
    BY <1>a, <1>b
  <1>1. /\ pc[c] = "listen" /\ pc' = [pc EXCEPT ![c] = "read"] /\ subs' = subs \cup {c}
        /\ UNCHANGED <<chain, blkPc, em, queue, hb, hbOut, fed>> /\ Body' = Body
        /\ subTodo' = IF Checking THEN subTodo \cup SubJoinFrom(c, k) ELSE subTodo
    BY DEF SubReqListen, svcVars, Body
  <1>2. /\ c \notin subs /\ queue[c] = <<>> /\ fed[c] = <<>> /\ \A i : <<c, i>> \notin subTodo
        /\ hb # c
    BY <1>0, <1>1, ClientAssumption DEF FeedInv, RequestOK
  <1>3. \A d, i : <<d, i>> \in SubJoinFrom(c, k) <=>
            d = c /\ i \in DOMAIN Body /\ i > k /\ SubMatches(c, Body[i])
    BY DEF SubJoinFrom, SubMatches
  <1>4. ASSUME NEW d \in subs PROVE ServedInv(d)'
    <2>1. Piped(d)' = Piped(d)
      BY <1>1 DEF Piped
    <2>2. \A i : <<d, i>> \in subTodo' <=> <<d, i>> \in subTodo
      BY <1>1, <1>2, <1>3
    <2> QED
      BY <1>0, <1>1, <2>1, <2>2, ServedQuiet DEF FeedInv
  <1>5. ServedInv(c)'
    <2>1. Piped(c)' = <<>> /\ Range(Piped(c)') = {}
      BY <1>1, <1>2 DEF Piped, Range
    <2>2. Feed!Stretch(Piped(c), LogOf(em[c]))'
      BY <2>1 DEF Range, Feed!Stretch, Feed!InOrder, Feed!Before, Feed!Range
    <2>3. \A i, j \in DOMAIN Body :
            <<c, i>> \in subTodo' /\ i < j /\ SubMatches(c, Body[j]) => <<c, j>> \in subTodo'
      BY <1>0, <1>1, <1>2, <1>3
    <2>4. Range(Piped(c))' = {} /\ (\A j : SubMatches(c, Body[j])' <=> SubMatches(c, Body[j]))
      BY <1>1, <2>1 DEF SubMatches, Range
    <2> QED
      BY <1>1, <2>2, <2>3, <2>4 DEF ServedInv
  <1>6. \A d \in Clients : d \in subs' <=> pc'[d] \in {"read", "copy", "add", "live", "failed"}
    BY <1>0, <1>1 DEF FeedInv, SubTypeOK
  <1>7. blkPc' \in {"idle", "stopped"} => subTodo' = {}
    BY <1>1 DEF FeedInv, Checking
  <1>8. \A d \in Clients : d \notin subs' /\ pc'[d] # "dropped" =>
            queue'[d] = <<>> /\ fed'[d] = <<>> /\ \A i : <<d, i>> \notin subTodo'
    BY <1>0, <1>1, <1>3 DEF FeedInv, SubTypeOK
  <1>9. \A d \in Clients : \A i : <<d, i>> \in subTodo' =>
            i \in DOMAIN Body' /\ SubMatches(d, Body[i])'
    BY <1>1, <1>3 DEF FeedInv, SubMatches
  <1> QED
    BY <1>1, <1>4, <1>5, <1>6, <1>7, <1>8, <1>9 DEF FeedInv

\* The heartbeat thread moves events along the pipe.
LEMMA FeedMove ==
    ASSUME FeedInv, SvcTypeOK, SubTypeOK,
           UNCHANGED <<chain, blkPc, em, subs, subTodo, pc>>,
           NEW c \in Clients, pc[c] = "live",
           \A d \in Clients : Piped(d)' = Piped(d),
           \A d \in Clients : d # c => queue'[d] = queue[d] /\ fed'[d] = fed[d]
    PROVE  FeedInv'
  <1>1. subs \subseteq Clients /\ c \in subs
    BY DEF FeedInv, SubTypeOK
  <1>2. \A d \in subs : ServedInv(d)'
    BY <1>1, ServedQuiet DEF FeedInv
  <1>3. Body' = Body
    BY DEF Body
  <1> QED
    BY <1>1, <1>2, <1>3 DEF FeedInv, SubMatches

\* Each step keeps the pipes in order.
LEMMA FeedStep == FullTypeInv /\ NumberInv /\ FeedInv /\ [Next]_vars => FeedInv'
  <1> SUFFICES ASSUME FullTypeInv, NumberInv, FeedInv, [Next]_vars PROVE FeedInv'
    OBVIOUS
  <1>0. SvcTypeOK /\ SubTypeOK /\ RequestOK /\ subs \subseteq Clients
    BY DEF FullTypeInv, TypeInv, SubTypeOK
  <1>1. CASE BlockWork
    BY <1>1, FeedBlockStep
  <1>2. ASSUME NEW c \in Clients, NEW p \in Publishers, SubReqLookup(c, p) PROVE FeedInv'
    <2>1. /\ pc[c] = "idle" /\ pc'[c] \in {"rejected", "listen"}
          /\ UNCHANGED <<chain, blkPc, subs, subTodo, queue, hb, hbOut, fed>> /\ Body' = Body
          /\ \A d \in Clients : d # c => pc'[d] = pc[d] /\ em'[d] = em[d]
      BY <1>0, <1>2 DEF SubReqLookup, svcVars, Body, SubTypeOK
    <2>2. c \notin subs /\ \A i : <<c, i>> \notin subTodo
      BY <2>1 DEF FeedInv
    <2>3. ASSUME NEW d \in subs PROVE ServedInv(d)'
      <3>1. Piped(d)' = Piped(d) /\ d # c
        BY <2>1, <2>2 DEF Piped
      <3> QED
        BY <1>0, <2>1, <3>1, ServedQuiet DEF FeedInv
    <2>4. \A d \in Clients : d \in subs' <=> pc'[d] \in {"read", "copy", "add", "live", "failed"}
      BY <2>1, <2>2 DEF FeedInv
    <2>5. \A d \in Clients : \A i : <<d, i>> \in subTodo' =>
              i \in DOMAIN Body' /\ SubMatches(d, Body[i])'
      BY <2>1, <2>2 DEF FeedInv, SubMatches
    <2> QED
      BY <2>1, <2>2, <2>3, <2>4, <2>5 DEF FeedInv
  <1>3. ASSUME NEW c \in Clients, SubReqWork(c) PROVE FeedInv'
    <2>1. ASSUME NEW k \in 0..Len(Body), SubReqListen(c, k) PROVE FeedInv'
      BY <2>1, FeedListen
    <2>2. ASSUME SubReqWork(c), ~\E k \in 0..Len(Body) : SubReqListen(c, k)
          PROVE  /\ UNCHANGED <<chain, blkPc, em, subs, subTodo, queue, fed, hb, hbOut>>
                 /\ \A d \in Clients :
                       pc'[d] = pc[d] \/ {pc[d], pc'[d]} \subseteq {"read", "copy", "add", "live", "failed"}
      BY <1>0, <2>2 DEF SubReqWork, SubReqReadMonitor, SubReqCopyBegin, SubReqCopyEnd, SubReqRespond,
         SubReqRespondFail, SubReqAddEmitter, GetPastEventsBegin, GetPastEventsEnd, svcVars, SubTypeOK
    <2> QED
      BY <1>0, <1>3, <2>1, <2>2, FeedQuiet
  <1>4. ASSUME NEW c \in Clients, EmitSwap(c) PROVE FeedInv'
    <2>1. /\ hb = NoClient /\ hb' = c /\ hbOut' = queue[c] /\ pc[c] = "live"
          /\ queue' = [queue EXCEPT ![c] = <<>>]
          /\ UNCHANGED <<chain, blkPc, em, subs, subTodo, pc, fed>>
      BY <1>4 DEF EmitSwap, Taken, Left, svcVars
    <2>2. ASSUME NEW d \in Clients PROVE Piped(d)' = Piped(d)
      <3>1. fed[d] \in Seq(Event) /\ queue[d] \in Seq(Event) /\ hb # d
        BY <1>0, <2>1, ClientAssumption DEF SubTypeOK
      <3>2. CASE d = c
        <4>1. Piped(d)' = fed[d] \o queue[d] \o <<>> /\ Piped(d) = fed[d] \o <<>> \o queue[d]
          BY <1>0, <2>1, <3>1, <3>2 DEF Piped, SubTypeOK
        <4> QED
          BY <3>1, <4>1
      <3>3. CASE d # c
        BY <1>0, <2>1, <3>1, <3>3 DEF Piped, SubTypeOK
      <3> QED
        BY <3>2, <3>3
    <2> QED
      BY <1>0, <2>1, <2>2, FeedMove DEF SubTypeOK
  <1>5. ASSUME NEW a \in {"sec", "blk"}, EmitRead(a) PROVE FeedInv'
    BY <1>0, <1>5, FeedQuiet DEF EmitRead, svcVars
  <1>6. CASE EmitSend
    <2>1. /\ hb \in Clients /\ fed' = [fed EXCEPT ![hb] = fed[hb] \o hbOut]
          /\ hb' = NoClient /\ hbOut' = <<>> /\ pc[hb] = "live"
          /\ UNCHANGED <<chain, blkPc, em, subs, subTodo, pc, queue>>
      BY <1>0, <1>6 DEF EmitSend, HeartbeatFree, svcVars, SubTypeOK, RequestOK
    <2>2. ASSUME NEW d \in Clients PROVE Piped(d)' = Piped(d)
      <3>1. /\ fed[d] \in Seq(Event) /\ queue[d] \in Seq(Event) /\ hbOut \in Seq(Event)
            /\ NoClient # d
        BY <1>0, ClientAssumption DEF SubTypeOK
      <3>2. CASE d = hb
        <4>1. Piped(d)' = fed[d] \o hbOut \o <<>> \o queue[d] /\ Piped(d) = fed[d] \o hbOut \o queue[d]
          BY <1>0, <2>1, <3>1, <3>2 DEF Piped, SubTypeOK
        <4>2. fed[d] \o hbOut \in Seq(Event)
          BY <3>1
        <4>3. (fed[d] \o hbOut) \o <<>> = fed[d] \o hbOut
          BY <4>2
        <4> QED
          BY <4>1, <4>3
      <3>3. CASE d # hb
        BY <1>0, <2>1, <3>1, <3>3 DEF Piped, SubTypeOK
      <3> QED
        BY <3>2, <3>3
    <2> QED
      BY <1>0, <2>1, <2>2, FeedMove DEF SubTypeOK
  <1>7. CASE EmitFail
    <2>1. /\ hb \in Clients /\ pc' = [pc EXCEPT ![hb] = "dropped"] /\ subs' = subs \ {hb}
          /\ hb' = NoClient /\ hbOut' = <<>> /\ hb # NoClient
          /\ UNCHANGED <<chain, blkPc, em, subTodo, queue, fed>> /\ Body' = Body
      BY <1>0, <1>7 DEF EmitFail, HeartbeatFree, svcVars, SubTypeOK, Body
    <2>2. ASSUME NEW d \in subs' PROVE ServedInv(d)'
      <3>1. d \in subs /\ d # hb /\ d # NoClient
        BY <1>0, <2>1, ClientAssumption
      <3>2. Piped(d)' = Piped(d)
        BY <2>1, <3>1 DEF Piped
      <3> QED
        BY <1>0, <2>1, <3>1, <3>2, ServedQuiet DEF FeedInv
    <2>3. \A d \in Clients : pc'[d] = IF d = hb THEN "dropped" ELSE pc[d]
      BY <1>0, <2>1 DEF SubTypeOK
    <2> QED
      BY <2>1, <2>2, <2>3 DEF FeedInv, SubMatches
  <1>8. CASE Terminated \/ UNCHANGED vars
    BY <1>0, <1>8, FeedQuiet DEF Terminated, vars, svcVars, subVars
  <1> QED
    BY <1>1, <1>2, <1>3, <1>4, <1>5, <1>6, <1>7, <1>8 DEF Next, EmitWork

\* The pipes are in order throughout.
LEMMA FeedCorrect == Spec => []FeedInv
  <1>1. Init => FeedInv
    BY DEF Init, SvcInit, FeedInv
  <1> QED
    BY <1>1, FeedStep, FullTypeCorrect, NumberCorrect, PTL DEF Spec

\* The beginning of a concatenation.
LEMMA ConcatPrefix ==
    ASSUME NEW S, NEW s \in Seq(S), NEW t \in Seq(S)
    PROVE  /\ Len(s) \in 0..Len(s \o t)
           /\ s = SubSeq(s \o t, 1, Len(s))
  OBVIOUS

\* What the feed's log is.
LEMMA FeedLogs == \A m \in EvMgrs : [t \in EvMgrs |-> LogOf(t)][m] = LogOf(m)
  OBVIOUS

\* A heartbeat message carries on with a stretch of the manager's events.
LEMMA SendFeeds ==
    ASSUME FullTypeInv, NumberInv, NumberInv', FeedInv, EmitSend
    PROVE  Feed!Send(hb)
  <1>1. SvcTypeOK /\ SubTypeOK /\ RequestOK
    BY DEF FullTypeInv, TypeInv
  <1>2. /\ hb \in Clients /\ hb # NoClient /\ pc[hb] = "live" /\ em[hb] \in EvMgrs
        /\ fed' = [fed EXCEPT ![hb] = fed[hb] \o hbOut]
        /\ told' = [told EXCEPT ![hb] = hbBlk] /\ "blk" \in hbGot
        /\ chain' = chain
    BY <1>1 DEF EmitSend, SubTypeOK, RequestOK, svcVars
  <1>3. fed[hb] \in Seq(Event) /\ hbOut \in Seq(Event) /\ queue[hb] \in Seq(Event)
        /\ fed[hb] \o hbOut \in Seq(Event) /\ fed'[hb] = fed[hb] \o hbOut
    BY <1>1, <1>2 DEF SubTypeOK
  <1>4. Feed!Stretch(fed'[hb], LogOf(em[hb]))
    <2>1. hb \in subs /\ Piped(hb) = (fed[hb] \o hbOut) \o queue[hb]
      BY <1>2 DEF FeedInv, Piped
    <2>2. Feed!Stretch((fed[hb] \o hbOut) \o queue[hb], LogOf(em[hb]))
      BY <2>1 DEF FeedInv, ServedInv
    <2>3. LogOf(em[hb]) \subseteq Event
      BY <1>1, LogOfType
    <2>4. queue[hb] \in Seq(Event) /\ fed[hb] \o hbOut \in Seq(Event)
      BY <1>3
    <2> DEFINE s == fed[hb] \o hbOut
    <2> DEFINE t == queue[hb]
    <2> DEFINE E == LogOf(em[hb])
    <2>5. E \subseteq Event /\ s \in Seq(Event) /\ t \in Seq(Event) /\ Feed!Stretch(s \o t, E)
      BY <2>2, <2>3, <2>4
    <2>6. fed'[hb] = s
      BY <1>3
    <2> HIDE DEF s, t, E
    <2>7. Feed!Stretch(s, E)
      BY <2>5, StretchPrefix
    <2> QED
      BY <2>6, <2>7 DEF E
  <1>5. \E n \in 0..Len(fed'[hb]) : fed[hb] = SubSeq(fed'[hb], 1, n)
    BY <1>3, ConcatPrefix
  <1>6. told[hb] <= told'[hb] /\ \A e \in Range(fed'[hb]) : e.blk <= told'[hb]
    BY <1>1, <1>2 DEF NumberInv, SubTypeOK
  <1>7. \A d \in Clients \ {hb} : fed'[d] = fed[d] /\ told'[d] = told[d]
    BY <1>1, <1>2 DEF SubTypeOK
  <1>8. UNCHANGED [m \in EvMgrs |-> LogOf(m)]
    BY <1>2 DEF LogOf, OnChain, LogAt
  <1> QED
    BY <1>2, <1>4, <1>5, <1>6, <1>7, <1>8, FeedLogs DEF Feed!Send, Feed!Range, Range

\* The first response is a message without events of the feed.
LEMMA RespondFeeds ==
    ASSUME FullTypeInv, NumberInv, NEW c \in Clients, SubReqRespond(c)
    PROVE  Feed!Send(c)
  <1>1. SvcTypeOK /\ SubTypeOK /\ RequestOK
    BY DEF FullTypeInv, TypeInv
  <1>2. /\ em[c] \in EvMgrs /\ fed[c] = <<>> /\ fed' = fed /\ told[c] = 0
        /\ told' = [told EXCEPT ![c] = resp[c].blk] /\ resp[c].blk \in Nat /\ chain' = chain
    BY <1>1 DEF SubReqRespond, SubTypeOK, RequestOK, NumberInv, svcVars
  <1>3. told[c] <= told'[c] /\ \A d \in Clients \ {c} : told'[d] = told[d]
    BY <1>1, <1>2 DEF SubTypeOK
  <1>4. \E n \in 0..Len(fed'[c]) : fed[c] = SubSeq(fed'[c], 1, n)
    BY <1>2
  <1>5. UNCHANGED [m \in EvMgrs |-> LogOf(m)]
    BY <1>2 DEF LogOf, OnChain, LogAt
  <1>6. Feed!Stretch(fed'[c], LogOf(em[c])) /\ Range(fed'[c]) = {}
    BY <1>2, StretchEmpty DEF Range
  <1> QED
    BY <1>2, <1>3, <1>4, <1>5, <1>6, FeedLogs DEF Feed!Send, Feed!Range, Range

\* A block publishes its events, behind those of the blocks before.
LEMMA AppendPublishes ==
    ASSUME FullTypeInv, NEW body \in BlockBodies, BlockAppend(body)
    PROVE  Feed!Publish
  <1>1. SvcTypeOK /\ AppendBlock(body)
    BY DEF FullTypeInv, TypeInv, BlockAppend
  <1>2. \A m : /\ LogOf(m) \subseteq LogOf(m)' /\ LogOf(m)' \subseteq Event
               /\ \A e \in LogOf(m)' : e \in LogOf(m) \/ e.blk = Len(chain')
    BY <1>1, AppendLogOf
  <1>3. Len(chain') = Len(chain) + 1 /\ Len(chain) \in Nat /\ DOMAIN chain = 1..Len(chain)
    BY <1>1 DEF AppendBlock, SvcTypeOK
  <1>4. \A m : \A e \in LogOf(m), f \in LogOf(m)' \ LogOf(m) : Before(e, f)
    BY <1>1, <1>2, <1>3, LogOfType DEF Before, Event
  <1>5. \A m \in EvMgrs : [t \in EvMgrs |-> LogOf(t)]'[m] = LogOf(m)'
    OBVIOUS
  <1>6. UNCHANGED <<fed, told>>
    BY DEF BlockAppend
  <1> QED
    BY <1>2, <1>4, <1>5, <1>6, FeedLogs DEF Feed!Publish, Feed!Before, Before

\* Every step of Pubsub is one of EventFeed, or is not seen by subscribers.
LEMMA FeedSimulation ==
    FullTypeInv /\ NumberInv /\ FeedInv /\ [Next]_vars => [Feed!Next]_(Feed!vars)
  <1> SUFFICES ASSUME FullTypeInv, NumberInv, FeedInv, [Next]_vars PROVE [Feed!Next]_(Feed!vars)
    OBVIOUS
  <1>1. ASSUME NEW body \in BlockBodies, BlockAppend(body) PROVE Feed!Next
    BY <1>1, AppendPublishes DEF Feed!Next
  <1>2. ASSUME NEW c \in Clients, SubReqRespond(c) PROVE Feed!Next
    BY <1>2, RespondFeeds DEF Feed!Next
  <1>3. CASE EmitSend
    <2>1. hb \in Clients
      BY <1>3 DEF EmitSend, FullTypeInv, SubTypeOK
    <2> QED
      BY <1>3, <2>1, NumberStep, SendFeeds DEF Feed!Next
  <1>4. ASSUME ~\E body \in BlockBodies : BlockAppend(body),
               ~EmitSend, ~\E c \in Clients : SubReqRespond(c)
        PROVE  UNCHANGED <<chain, fed, told>>
    <2>1. ServiceStep => UNCHANGED <<chain, fed, told>>
      BY DEF ServiceStep, CheckEvents, DeployEventHandler, RegEventHandler, RegEventStore,
         RegEventListen, NotifyPastFind, NotifyPastPush, subVars
    <2> QED
      BY <1>4, <2>1 DEF Next, BlockWork, SubReqWork, EmitWork,
         NotifyEventHandler, SkipCancelled, BlockDoneAll, BlockDone, BlockThrowAll, BlockThrow,
         SubReqLookup, SubReqListen, SubReqReadMonitor, SubReqCopyBegin, GetPastEventsBegin,
         SubReqCopyEnd, GetPastEventsEnd, SubReqRespondFail, SubReqAddEmitter, EmitSwap, EmitRead,
         EmitFail, Terminated, subVars, svcVars, vars
  <1>5. UNCHANGED <<chain, fed, told>> => UNCHANGED Feed!vars
    BY DEF Feed!vars, LogOf, OnChain, LogAt
  <1> QED
    BY <1>1, <1>2, <1>3, <1>4, <1>5

\* A subscriber sees an EventFeed: its manager's events in order and without
\* a hole, under numbers that cover them, for any number of clients, managers
\* and blocks and any interleaving of the threads.
THEOREM FeedImplemented == Spec => FeedSpec
  <1>1. Init => Feed!Init
    BY DEF Init, SvcInit, Feed!Init, LogOf, OnChain
  <1> QED
    BY <1>1, FeedSimulation, FullTypeCorrect, NumberCorrect, FeedCorrect, PTL
    DEF Spec, FeedSpec, Feed!Spec

-----------------------------------------------------------------------------

\* A client that was dropped keeps what is in its queue, and a callback may
\* still add to it.
GoneInv ==
    \A c \in Clients : pc[c] = "dropped" =>
        /\ Increasing(fed[c] \o queue[c])
        /\ \A i : <<c, i>> \in subTodo =>
              \A e \in Range(fed[c] \o queue[c]) : Before(e, Here(i))

\* A sequence in order without a part in its middle.
LEMMA IncreasingWithout ==
    ASSUME NEW s \in Seq(Event), NEW t \in Seq(Event), NEW u \in Seq(Event),
           Increasing(s \o t \o u)
    PROVE  /\ Increasing(s \o u)
           /\ Range(s \o u) \subseteq Range(s \o t \o u)
  <1> DEFINE whole == s \o t \o u
  <1> DEFINE rest == s \o u
  <1> DEFINE At(i) == IF i <= Len(s) THEN i ELSE i + Len(t)
  <1>1. /\ DOMAIN rest = 1..(Len(s) + Len(u)) /\ DOMAIN whole = 1..(Len(s) + Len(t) + Len(u))
        /\ Len(s) \in Nat /\ Len(t) \in Nat /\ Len(u) \in Nat
    OBVIOUS
  <1>2. ASSUME NEW i \in DOMAIN rest
        PROVE  At(i) \in DOMAIN whole /\ rest[i] = whole[At(i)]
    <2>1. s \o t \in Seq(Event) /\ Len(s \o t) = Len(s) + Len(t)
      OBVIOUS
    <2>2. CASE i <= Len(s)
      BY <1>1, <2>1, <2>2
    <2>3. CASE i > Len(s)
      <3>1. rest[i] = u[i - Len(s)]
        BY <1>1, <2>3
      <3>2. whole[i + Len(t)] = u[i + Len(t) - (Len(s) + Len(t))]
        BY <1>1, <2>1, <2>3
      <3> QED
        BY <1>1, <2>3, <3>1, <3>2
    <2> QED
      BY <1>1, <2>2, <2>3
  <1>3. \A i, j \in DOMAIN rest : i < j => At(i) < At(j)
    BY <1>1
  <1> HIDE DEF whole, rest, At
  <1>4. Increasing(rest)
    BY <1>2, <1>3 DEF Increasing, whole
  <1>5. Range(rest) \subseteq Range(whole)
    BY <1>2 DEF Range
  <1> QED
    BY <1>4, <1>5 DEF whole, rest

\* A sequence in order and an event behind it.
LEMMA IncreasingAppend ==
    ASSUME NEW s \in Seq(Event), Increasing(s), NEW x \in Event,
           \A e \in Range(s) : Before(e, x)
    PROVE  Increasing(Append(s, x))
  <1> DEFINE sx == Append(s, x)
  <1>1. /\ Len(s) \in Nat /\ DOMAIN s = 1..Len(s) /\ DOMAIN sx = 1..(Len(s) + 1)
        /\ \A i \in DOMAIN s : sx[i] = s[i] /\ s[i] \in Range(s)
        /\ sx[Len(s) + 1] = x
    BY DEF Range
  <1> HIDE DEF sx
  <1>2. Increasing(sx)
    BY <1>1 DEF Increasing
  <1> QED
    BY <1>2 DEF sx

\* Only the failure of a heartbeat drops a client, and only a callback that
\* was due reaches it afterwards.
LEMMA GoneStep == FullTypeInv /\ FeedInv /\ GoneInv /\ [Next]_vars => GoneInv'
  <1> SUFFICES ASSUME FullTypeInv, FeedInv, GoneInv, [Next]_vars,
                      NEW c \in Clients, pc'[c] = "dropped"
               PROVE  /\ Increasing(fed[c] \o queue[c])'
                      /\ \A i : <<c, i>> \in subTodo' =>
                            \A e \in Range(fed[c] \o queue[c])' : Before(e, Here(i)')
    BY DEF GoneInv
  <1>0. /\ SvcTypeOK /\ SubTypeOK /\ RequestOK
        /\ fed[c] \in Seq(Event) /\ queue[c] \in Seq(Event) /\ hbOut \in Seq(Event)
    BY DEF FullTypeInv, TypeInv, SubTypeOK
  <1>1. CASE pc[c] = "dropped"
    <2>0. c \notin subs /\ hb # c
      BY <1>0, <1>1, ClientAssumption DEF FeedInv, RequestOK
    <2>1. ASSUME NEW i \in DOMAIN Body, NotifyEventHandler(c, i)
          PROVE  /\ Increasing(fed[c] \o queue[c])'
                 /\ \A j : <<c, j>> \in subTodo' =>
                       \A e \in Range(fed[c] \o queue[c])' : Before(e, Here(j)')
      <3> DEFINE s == fed[c] \o queue[c]
      <3>1. /\ queue'[c] = Append(queue[c], Here(i)) /\ fed' = fed /\ chain' = chain
            /\ subTodo' = subTodo \ {<<c, i>>} /\ <<c, i>> \in subTodo /\ blkPc = "check"
            /\ \A j \in DOMAIN Body : <<c, j>> \in subTodo => i <= j
        BY <1>0, <2>1 DEF NotifyEventHandler, SubIsNext, PushBack, svcVars, SubTypeOK
      <3>2. Here(i) \in Event /\ i \in Nat /\ DOMAIN Body \subseteq Nat
        BY <1>0, <2>1, BodyType, LogType
      <3>3. (fed[c] \o queue[c])' = Append(s, Here(i)) /\ s \in Seq(Event)
        <4>1. fed[c] \o Append(queue[c], Here(i)) = Append(fed[c] \o queue[c], Here(i))
          <5> HIDE DEF s
          <5> DEFINE f == fed[c]
          <5> DEFINE q == queue[c]
          <5> DEFINE x == Here(i)
          <5>1. f \in Seq(Event) /\ q \in Seq(Event) /\ x \in Event
            BY <1>0, <3>2
          <5> HIDE DEF f, q, x
          <5>2. f \o Append(q, x) = Append(f \o q, x)
            BY <5>1, AppendLast
          <5> QED
            BY <5>2 DEF f, q, x
        <4> QED
          BY <1>0, <3>1, <4>1
      <3>4. Increasing(s) /\ \A e \in Range(s) : Before(e, Here(i))
        BY <1>1, <3>1 DEF GoneInv
      <3> HIDE DEF s
      <3>5. Range(Append(s, Here(i))) = Range(s) \cup {Here(i)}
        BY <3>2, <3>3, RangeAppend
      <3>6. Increasing(Append(s, Here(i)))
        BY <3>2, <3>3, <3>4, IncreasingAppend
      <3>7. ASSUME NEW j, <<c, j>> \in subTodo'
            PROVE  Here(j)' = Here(j) /\ Before(Here(i), Here(j)) /\ \A e \in Range(s) : Before(e, Here(j))
        <4>1. j \in DOMAIN Body /\ i < j
          BY <3>1, <3>2, <3>7 DEF FeedInv
        <4>2. \A e \in Range(s) : Before(e, Here(j))
          BY <1>1, <3>1, <3>7 DEF GoneInv, s
        <4> QED
          BY <3>1, <4>1, <4>2 DEF Here, Before
      <3> QED
        BY <3>3, <3>5, <3>6, <3>7 DEF Increasing
    <2>2. ASSUME ~\E i \in DOMAIN Body : NotifyEventHandler(c, i)
          PROVE  /\ fed'[c] = fed[c] /\ queue'[c] = queue[c]
                 /\ \A i : <<c, i>> \in subTodo' => <<c, i>> \in subTodo /\ chain' = chain
      <3>1. CASE BlockWork
        <4>1. CASE ServiceStep
          <5>1. UNCHANGED subVars /\ chain' = chain
            BY <4>1 DEF ServiceStep, CheckEvents, DeployEventHandler, RegEventHandler,
               RegEventStore, RegEventListen, NotifyPastFind, NotifyPastPush
          <5> QED
            BY <5>1 DEF subVars
        <4>2. CASE \E body \in BlockBodies : BlockAppend(body)
          BY <2>0, <4>2 DEF BlockAppend
        <4>3. ASSUME NEW d \in Clients, NEW i \in DOMAIN Body, NotifyEventHandler(d, i) \/ SkipCancelled(d, i)
              PROVE  /\ fed'[c] = fed[c] /\ queue'[c] = queue[c]
                     /\ subTodo' \subseteq subTodo /\ chain' = chain
          BY <1>0, <2>2, <4>3 DEF NotifyEventHandler, SkipCancelled, svcVars, SubTypeOK
        <4>4. CASE BlockDoneAll \/ BlockThrowAll
          BY <4>4 DEF BlockDoneAll, BlockDone, BlockThrowAll, BlockThrow, subVars
        <4> QED
          BY <3>1, <4>1, <4>2, <4>3, <4>4 DEF BlockWork
      <3>2. ASSUME NEW d \in Clients, NEW p \in Publishers, SubReqLookup(d, p)
            PROVE  UNCHANGED <<fed, queue, subTodo, chain>>
        BY <3>2 DEF SubReqLookup, svcVars
      <3>3. ASSUME NEW d \in Clients, SubReqWork(d)
            PROVE  /\ fed'[c] = fed[c] /\ queue'[c] = queue[c] /\ chain' = chain
                   /\ \A i : <<c, i>> \in subTodo' => <<c, i>> \in subTodo
        <4>1. ASSUME NEW k \in 0..Len(Body), SubReqListen(d, k)
              PROVE  /\ fed'[c] = fed[c] /\ queue'[c] = queue[c] /\ chain' = chain
                     /\ \A i : <<c, i>> \in subTodo' => <<c, i>> \in subTodo
          <5>1. d # c /\ UNCHANGED <<chain, fed, queue>>
            BY <1>1, <4>1 DEF SubReqListen, svcVars
          <5>2. subTodo' \subseteq subTodo \cup SubJoinFrom(d, k)
            BY <4>1 DEF SubReqListen
          <5> QED
            BY <5>1, <5>2 DEF SubJoinFrom
        <4>2. ASSUME ~\E k \in 0..Len(Body) : SubReqListen(d, k)
              PROVE  UNCHANGED <<chain, subTodo, queue, fed>>
          BY <3>3, <4>2 DEF SubReqWork, SubReqReadMonitor, SubReqCopyBegin, SubReqCopyEnd, SubReqRespond,
             SubReqRespondFail, SubReqAddEmitter, GetPastEventsBegin, GetPastEventsEnd, svcVars
        <4> QED
          BY <4>1, <4>2
      <3>4. ASSUME NEW d \in Clients, EmitSwap(d)
            PROVE  /\ fed'[c] = fed[c] /\ queue'[c] = queue[c] /\ UNCHANGED <<chain, subTodo>>
        BY <1>0, <1>1, <3>4 DEF EmitSwap, svcVars, SubTypeOK
      <3>5. CASE EmitWork
        BY <1>0, <2>0, <3>5 DEF EmitWork, EmitRead, EmitSend, EmitFail, svcVars, SubTypeOK
      <3>6. CASE Terminated \/ UNCHANGED vars
        BY <3>6 DEF Terminated, vars, svcVars, subVars
      <3> QED
        BY <3>1, <3>2, <3>3, <3>4, <3>5, <3>6 DEF Next
    <2>3. ASSUME ~\E i \in DOMAIN Body : NotifyEventHandler(c, i)
          PROVE  /\ Increasing(fed[c] \o queue[c])'
                 /\ \A j : <<c, j>> \in subTodo' =>
                       \A e \in Range(fed[c] \o queue[c])' : Before(e, Here(j)')
      BY <1>1, <2>2, <2>3 DEF GoneInv, Here, Increasing
    <2> QED
      BY <2>1, <2>3
  <1>2. CASE pc[c] # "dropped"
    <2>1. EmitFail /\ hb = c
      BY <1>0, <1>2 DEF Next, BlockWork, ServiceStep, BlockAppend, NotifyEventHandler, SkipCancelled,
         BlockDoneAll, BlockThrowAll, SubReqLookup, SubReqWork, SubReqListen, SubReqReadMonitor,
         SubReqCopyBegin, SubReqCopyEnd, SubReqRespond, SubReqRespondFail, SubReqAddEmitter,
         EmitSwap, EmitWork, EmitRead, EmitSend, EmitFail, Terminated, vars, subVars, SubTypeOK
    <2>2. UNCHANGED <<fed, queue, subTodo, chain>> /\ c \in subs
      BY <1>0, <2>1 DEF EmitFail, svcVars, FeedInv, RequestOK
    <2>3. /\ Piped(c) = fed[c] \o hbOut \o queue[c] /\ Increasing(Piped(c))
          /\ \A i \in DOMAIN Body : <<c, i>> \in subTodo => \A e \in Range(Piped(c)) : Before(e, Here(i))
      BY <2>1, <2>2 DEF Piped, FeedInv, ServedInv, Feed!Stretch, Feed!InOrder, Feed!Before, Increasing, Before
    <2>4. Increasing(fed[c] \o queue[c]) /\ Range(fed[c] \o queue[c]) \subseteq Range(Piped(c))
      BY <1>0, <2>3, IncreasingWithout
    <2> QED
      BY <2>2, <2>3, <2>4 DEF FeedInv, Here, Increasing
  <1> QED
    BY <1>1, <1>2

\* The heartbeat messages to a client, with what is still to be sent, carry
\* each event at most once and in chain order, be the client served or dropped.
THEOREM FeedInOrder == Spec => []FeedOrdered
  <1>1. Init => GoneInv
    BY DEF Init, GoneInv
  <1>2. FullTypeInv /\ FeedInv /\ GoneInv => FeedOrdered
    <2> SUFFICES ASSUME FullTypeInv, FeedInv, GoneInv, NEW c \in Clients
                 PROVE  Increasing(Piped(c))
      BY DEF FeedOrdered, Piped
    <2>0. SubTypeOK /\ RequestOK /\ fed[c] \in Seq(Event) /\ queue[c] \in Seq(Event)
      BY DEF FullTypeInv, SubTypeOK
    <2>1. CASE c \in subs
      BY <2>1 DEF FeedInv, ServedInv, Feed!Stretch, Feed!InOrder, Feed!Before, Increasing, Before
    <2>2. CASE c \notin subs
      <3>1. hb # c
        BY <2>0, <2>2, ClientAssumption DEF FeedInv, RequestOK
      <3>2. Piped(c) = fed[c] \o queue[c]
        <4>1. fed[c] \o <<>> = fed[c]
          BY <2>0
        <4> QED
          BY <3>1, <4>1 DEF Piped
      <3>3. CASE pc[c] = "dropped"
        BY <3>2, <3>3 DEF GoneInv
      <3>4. CASE pc[c] # "dropped"
        <4>1. Piped(c) = <<>>
          BY <2>2, <3>2, <3>4 DEF FeedInv
        <4> QED
          BY <4>1 DEF Increasing
      <3> QED
        BY <3>3, <3>4
    <2> QED
      BY <2>1, <2>2
  <1> QED
    BY <1>1, <1>2, GoneStep, FeedCorrect, FullTypeCorrect, PTL DEF Spec

-----------------------------------------------------------------------------
(***************************************************************************)
(* NoGap and WatermarkLag.  An owed event is in the past events copied for *)
(* the first response or in the client's pipe.  The copy has what was owed *)
(* when it ended (PastComplete); of a block handled after that the         *)
(* client's listener has seen all, unless it was added during its check.   *)
(***************************************************************************)

\* How far the request is, against what it has read and been told.
RequestInv(c) ==
    /\ pc[c] \in {"idle", "listen", "copy", "rejected"} => "past" \notin got[c]
    /\ pc[c] \in {"add", "live"} => "past" \in got[c]
    /\ pc[c] = "copy" => copy.by = c /\ copy.em = em[c]
    /\ pc[c] \notin {"live", "dropped"} => sure[c] = 0
    /\ sure[c] <= told[c]

Stages == \A c \in Clients : RequestInv(c)

\* The start satisfies it.
LEMMA StagesInit == Init => Stages
  BY DEF Init, Stages, RequestInv

\* Every step keeps the requests in order.
LEMMA StagesStep == FullTypeInv /\ NumberInv /\ Stages /\ [Next]_vars => Stages'
  <1> SUFFICES ASSUME FullTypeInv, NumberInv, Stages, [Next]_vars, NEW c \in Clients
               PROVE  RequestInv(c)'
    BY DEF Stages
  <1>0. SvcTypeOK /\ SubTypeOK /\ RequestOK /\ RequestInv(c) /\ c # NoReader /\ c # NoClient
    BY ReaderAssumption, ClientAssumption DEF FullTypeInv, TypeInv, Stages, Clients
  <1>1. ASSUME UNCHANGED <<pc, em, got, told, sure>>, copy'.by = copy.by, copy'.em = copy.em
        PROVE  RequestInv(c)'
    BY <1>0, <1>1 DEF RequestInv
  <1>2. CASE ServiceStep \/ (\E body \in BlockBodies : BlockAppend(body)) \/ BlockDoneAll \/ BlockThrowAll
    <2>1. UNCHANGED <<pc, em, got, told, sure>>
      BY <1>2 DEF ServiceStep, BlockAppend, BlockDoneAll, BlockThrowAll, subVars
    <2>2. copy' = copy \/ NotifyPastPush
      BY <1>2 DEF ServiceStep, BlockAppend, BlockDoneAll, BlockThrowAll, AppendBlock, CheckEvents,
         DeployEventHandler, RegEventHandler, RegEventStore, RegEventListen, NotifyPastFind, BlockDone, BlockThrow
    <2>3. NotifyPastPush => copy'.by = copy.by /\ copy'.em = copy.em
      BY <1>0 DEF NotifyPastPush, SvcTypeOK
    <2> QED
      BY <1>1, <2>1, <2>2, <2>3
  <1>3. ASSUME NEW d \in Clients, NEW i \in DOMAIN Body, NotifyEventHandler(d, i) \/ SkipCancelled(d, i)
        PROVE  RequestInv(c)'
    BY <1>1, <1>3 DEF NotifyEventHandler, SkipCancelled, svcVars
  <1>4. ASSUME NEW d \in Clients, NEW p \in Publishers, SubReqLookup(d, p) PROVE RequestInv(c)'
    <2>1. /\ pc[d] = "idle" /\ UNCHANGED <<got, told, sure, copy>>
          /\ d # c => pc'[c] = pc[c] /\ em'[c] = em[c]
          /\ d = c => pc'[c] \in {"listen", "rejected"}
      BY <1>0, <1>4 DEF SubReqLookup, svcVars, SubTypeOK
    <2> QED
      BY <1>0, <2>1 DEF RequestInv
  <1>5. ASSUME NEW d \in Clients, NEW k \in 0..Len(Body), SubReqListen(d, k) PROVE RequestInv(c)'
    <2>1. /\ pc[d] = "listen" /\ UNCHANGED <<em, got, told, sure, copy>>
          /\ d # c => pc'[c] = pc[c]
          /\ d = c => pc'[c] = "read"
      BY <1>0, <1>5 DEF SubReqListen, svcVars, SubTypeOK
    <2> QED
      BY <1>0, <2>1 DEF RequestInv
  <1>6. ASSUME NEW d \in Clients, NEW a \in {"sec", "blk"}, SubReqReadMonitor(d, a) PROVE RequestInv(c)'
    <2>1. /\ pc[d] = "read" /\ UNCHANGED <<pc, em, told, sure, copy>>
          /\ d # c => got'[c] = got[c]
          /\ d = c => got'[c] = got[c] \cup {a}
      BY <1>0, <1>6 DEF SubReqReadMonitor, svcVars, SubTypeOK
    <2> QED
      BY <1>0, <2>1 DEF RequestInv
  <1>7. ASSUME NEW d \in Clients, SubReqCopyBegin(d) PROVE RequestInv(c)'
    <2>1. /\ pc[d] = "read" /\ "past" \notin got[d] /\ UNCHANGED <<em, got, told, sure>>
          /\ copy.by = NoReader /\ copy' = [by |-> d, em |-> em[d], raced |-> FALSE]
          /\ d # c => pc'[c] = pc[c]
          /\ d = c => pc'[c] = "copy"
      BY <1>0, <1>7 DEF SubReqCopyBegin, GetPastEventsBegin, StoreFree, SubTypeOK
    <2> QED
      BY <1>0, <2>1 DEF RequestInv
  <1>8. ASSUME NEW d \in Clients, NEW events \in CopyResults, SubReqCopyEnd(d, events) PROVE RequestInv(c)'
    <2>1. /\ pc[d] = "copy" /\ UNCHANGED <<em, told, sure>> /\ copy.by = d
          /\ d # c => pc'[c] = pc[c] /\ got'[c] = got[c]
          /\ d = c => pc'[c] = "read"
      BY <1>0, <1>8 DEF SubReqCopyEnd, GetPastEventsEnd, SubTypeOK
    <2> QED
      BY <1>0, <2>1 DEF RequestInv
  <1>9. ASSUME NEW d \in Clients, SubReqRespond(d) PROVE RequestInv(c)'
    <2>1. /\ pc[d] = "read" /\ got[d] = Args /\ UNCHANGED <<em, got, sure, copy>>
          /\ d # c => pc'[c] = pc[c] /\ told'[c] = told[c]
          /\ d = c => pc'[c] = "add" /\ told'[c] \in Nat
      BY <1>0, <1>9 DEF SubReqRespond, svcVars, SubTypeOK
    <2> QED
      BY <1>0, <2>1 DEF RequestInv, Args
  <1>10. ASSUME NEW d \in Clients, SubReqRespondFail(d) \/ SubReqAddEmitter(d) PROVE RequestInv(c)'
    <2>1. /\ UNCHANGED <<em, got, told, sure, copy>>
          /\ pc'[c] = pc[c] \/ (pc[c] = "read" /\ pc'[c] = "failed") \/ (pc[c] = "add" /\ pc'[c] = "live")
      BY <1>0, <1>10 DEF SubReqRespondFail, SubReqAddEmitter, svcVars, SubTypeOK
    <2> QED
      BY <1>0, <2>1 DEF RequestInv
  <1>11. ASSUME (\E d \in Clients : EmitSwap(d)) \/ \E a \in {"sec", "blk"} : EmitRead(a) PROVE RequestInv(c)'
    BY <1>1, <1>11 DEF EmitSwap, EmitRead, svcVars
  <1>12. CASE EmitSend
    <2>1. /\ hb \in Clients /\ pc[hb] = "live" /\ "blk" \in hbGot
          /\ UNCHANGED <<pc, em, got, copy>>
          /\ hb # c => told'[c] = told[c] /\ sure'[c] = sure[c]
          /\ hb = c => told'[c] = hbBlk /\ sure'[c] = told[c]
      BY <1>0, <1>12 DEF EmitSend, svcVars, SubTypeOK, RequestOK
    <2> QED
      BY <1>0, <2>1 DEF RequestInv, NumberInv
  <1>13. CASE EmitFail
    <2>1. /\ hb \in Clients /\ UNCHANGED <<em, got, told, sure, copy>>
          /\ hb # c => pc'[c] = pc[c]
          /\ hb = c => pc'[c] = "dropped"
      BY <1>0, <1>13 DEF EmitFail, svcVars, SubTypeOK, RequestOK
    <2> QED
      BY <1>0, <2>1 DEF RequestInv
  <1>14. CASE Terminated \/ UNCHANGED vars
    BY <1>1, <1>14 DEF Terminated, vars, svcVars, subVars
  <1> QED
    BY <1>2, <1>3, <1>4, <1>5, <1>6, <1>7, <1>8, <1>9, <1>10, <1>11, <1>12, <1>13, <1>14
    DEF Next, BlockWork, SubReqWork, EmitWork

\* The requests are in order throughout.
LEMMA StagesCorrect == Spec => []Stages
  BY StagesInit, StagesStep, FullTypeCorrect, NumberCorrect, PTL DEF Spec

-----------------------------------------------------------------------------
\* What an owed event means.
OwedMeaning == SvcTypeOK => \A m, e :
    e \in Owed(m) <=> /\ e \in Event /\ e.blk <= Done
                      /\ LogAt(e).em = m /\ \E r \in Event : Follows(e, r)

\* It is so in every well-typed state.
LEMMA OwedMeans == OwedMeaning
  <1> SUFFICES ASSUME SvcTypeOK, NEW m, NEW e
               PROVE  e \in Owed(m) <=> /\ e \in Event /\ e.blk <= Done
                                        /\ LogAt(e).em = m /\ \E r \in Event : Follows(e, r)
    BY DEF OwedMeaning
  <1>1. ASSUME e \in Owed(m)
        PROVE  e \in Event /\ e.blk <= Done /\ LogAt(e).em = m /\ \E r \in Event : Follows(e, r)
    <2>1. e \in Handled("notify") /\ LogAt(e).em = m
      BY <1>1 DEF Owed
    <2>2. PICK r \in Registrations : LogAt(r).em = m /\ r.blk < e.blk
      BY <1>1 DEF Owed
    <2>3. r \in Handled("reg")
      BY DEF Registrations
    <2>4. PICK d \in Handled("deploy") : d.blk < r.blk
      BY DEF Registrations
    <2>5. /\ e \in Event /\ IsLog(e, "notify") /\ e.blk <= Done
          /\ r \in Event /\ IsLog(r, "reg") /\ d \in Event /\ IsLog(d, "deploy")
      BY <2>1, <2>3, HandledLogs
    <2> QED
      BY <2>1, <2>2, <2>4, <2>5 DEF Follows, Due
  <1>2. ASSUME e \in Event, e.blk <= Done, LogAt(e).em = m, NEW r \in Event, Follows(e, r)
        PROVE  e \in Owed(m)
    <2>1. IsLog(e, "notify") /\ IsLog(r, "reg") /\ r.blk < e.blk /\ LogAt(r).em = m
      BY <1>2 DEF Follows, Due
    <2>2. PICK d \in Event : IsLog(d, "deploy") /\ d.blk < r.blk
      BY <1>2 DEF Follows, Due
    <2>3. r.blk <= Done /\ d.blk <= Done
      <3>1. Done \in Int /\ e.blk \in Nat /\ r.blk \in Nat /\ d.blk \in Nat
        BY <1>2 DEF Event, Done, SvcTypeOK
      <3> QED
        BY <1>2, <2>1, <2>2, <3>1
    <2>4. e \in Handled("notify") /\ r \in Handled("reg") /\ d \in Handled("deploy")
      BY <1>2, <2>1, <2>2, <2>3, LogHandled
    <2> QED
      BY <1>2, <2>1, <2>2, <2>4 DEF Owed, Registrations
  <1> QED
    BY <1>1, <1>2

\* A step adds a block, ends one, or leaves the handled blocks handled.
LEMMA BlockActs ==
    ASSUME FullTypeInv, [Next]_vars
    PROVE  \/ \E body \in BlockBodies : BlockAppend(body)
           \/ BlockDoneAll
           \/ chain' = chain /\ Done' <= Done
  <1>0. SvcTypeOK /\ Done \in Int
    BY DEF FullTypeInv, TypeInv, SvcTypeOK, Done
  <1>2. CASE ServiceStep
    <2>1. chain' = chain /\ blkPc # "idle" /\ blkPc' # "idle"
      BY <1>2 DEF ServiceStep, CheckEvents, DeployEventHandler, RegEventHandler, RegEventStore, RegEventListen,
         NotifyPastFind, NotifyPastPush
    <2> QED
      BY <1>0, <2>1 DEF Done
  <1>3. CASE BlockThrowAll
    <2>1. chain' = chain /\ blkPc' # "idle"
      BY <1>3 DEF BlockThrowAll, BlockThrow
    <2> QED
      BY <1>0, <2>1 DEF Done, SvcTypeOK
  <1>4. ASSUME chain' = chain, blkPc' = blkPc PROVE chain' = chain /\ Done' <= Done
    BY <1>0, <1>4 DEF Done
  <1>5. ASSUME NEW c \in Clients, NEW i \in DOMAIN Body, NotifyEventHandler(c, i) \/ SkipCancelled(c, i)
        PROVE  chain' = chain /\ blkPc' = blkPc
    BY <1>5 DEF NotifyEventHandler, SkipCancelled, svcVars
  <1>6. ASSUME NEW c \in Clients, NEW p \in Publishers, SubReqLookup(c, p)
        PROVE  chain' = chain /\ blkPc' = blkPc
    BY <1>6 DEF SubReqLookup, svcVars
  <1>7. ASSUME NEW c \in Clients, SubReqWork(c)
        PROVE  chain' = chain /\ blkPc' = blkPc
    BY <1>7 DEF SubReqWork, SubReqListen, SubReqReadMonitor, SubReqCopyBegin, GetPastEventsBegin,
       SubReqCopyEnd, GetPastEventsEnd, SubReqRespond, SubReqRespondFail, SubReqAddEmitter, svcVars
  <1>8. CASE (\E c \in Clients : EmitSwap(c)) \/ EmitWork \/ Terminated \/ UNCHANGED vars
    <2>1. chain' = chain /\ blkPc' = blkPc
      BY <1>8 DEF EmitSwap, EmitWork, EmitRead, EmitSend, EmitFail, Terminated, vars, svcVars
    <2> QED
      BY <1>4, <2>1
  <1> QED
    BY <1>2, <1>3, <1>4, <1>5, <1>6, <1>7, <1>8 DEF Next, BlockWork

\* What a client is owed grows by the events of a block at its end only.
LEMMA OwedStep ==
    ASSUME FullTypeInv, FullTypeInv', [Next]_vars, NEW m, NEW e \in Owed(m)', e \notin Owed(m)
    PROVE  BlockDoneAll /\ e.blk = Len(chain) /\ e \in LogOf(m) /\ e \in Event
  <1>0. SvcTypeOK /\ SvcTypeOK' /\ Done \in Int /\ Len(chain) \in Nat
    BY DEF FullTypeInv, TypeInv, SvcTypeOK, Done
  <1>1. OwedMeaning /\ OwedMeaning'
    BY OwedMeans, PTL
  <1>2. e \in Event /\ e.blk <= Done' /\ LogAt(e)'.em = m
    BY <1>0, <1>1 DEF OwedMeaning
  <1>3. PICK r \in Event : Follows(e, r)'
    BY <1>0, <1>1 DEF OwedMeaning
  <1>4. PICK d \in Event : IsLog(d, "deploy")' /\ d.blk < r.blk
    BY <1>3 DEF Follows, Due
  <1>5. IsLog(e, "notify")' /\ IsLog(r, "reg")' /\ r.blk < e.blk /\ LogAt(e)'.em = LogAt(r)'.em
    BY <1>3 DEF Follows, Due
  <1>6. e.blk \in Nat /\ r.blk \in Nat /\ d.blk \in Nat
    BY <1>2 DEF Event
  <1>7. ASSUME chain' = chain PROVE ~(e.blk <= Done)
    <2>1. Follows(e, r) /\ LogAt(e).em = m
      BY <1>2, <1>3, <1>7, SameLogs
    <2> QED
      BY <1>0, <1>2, <2>1, <1>1 DEF OwedMeaning
  <1>8. ASSUME NEW body \in BlockBodies, AppendBlock(body) PROVE FALSE
    <2>1. /\ DOMAIN chain = 1..Len(chain) /\ Done = Len(chain) /\ Done' = Len(chain)
          /\ DOMAIN chain' = 1..(Len(chain) + 1)
          /\ \A n \in DOMAIN chain : chain'[n] = chain[n]
      BY <1>0, <1>8, AppendLogs
    <2>2. e.blk \in DOMAIN chain /\ r.blk \in DOMAIN chain /\ d.blk \in DOMAIN chain
      BY <1>0, <1>2, <1>4, <1>5, <1>6, <2>1 DEF IsLog
    <2>3. IsLog(e, "notify") /\ IsLog(r, "reg") /\ IsLog(d, "deploy")
          /\ LogAt(e) = LogAt(e)' /\ LogAt(r) = LogAt(r)'
      BY <1>4, <1>5, <2>1, <2>2 DEF IsLog, LogAt
    <2>4. Follows(e, r) /\ LogAt(e).em = m /\ e.blk <= Done
      BY <1>2, <1>4, <1>5, <2>1, <2>3 DEF Follows, Due
    <2> QED
      BY <1>0, <1>2, <2>4, <1>1 DEF OwedMeaning
  <1>9. ASSUME chain' = chain, Done' <= Done PROVE FALSE
    <2>1. Done' \in Int
      BY <1>0 DEF Done, SvcTypeOK
    <2> QED
      BY <1>0, <1>2, <1>6, <1>7, <1>9, <2>1
  <1>10. BlockDoneAll
    BY <1>8, <1>9, BlockActs DEF BlockAppend
  <1>11. chain' = chain /\ Done' = Len(chain) /\ Done = Len(chain) - 1
    BY <1>10 DEF BlockDoneAll, BlockDone, Done
  <1>12. e.blk = Len(chain)
    BY <1>0, <1>2, <1>6, <1>7, <1>11
  <1>13. e \in LogOf(m)
    <2>1. IsLog(e, "notify") /\ LogAt(e).em = m
      BY <1>2, <1>5, <1>11, SameLogs
    <2> QED
      BY <1>0, <1>2, <2>1, LogOfType DEF IsLog, LogAt
  <1> QED
    BY <1>2, <1>10, <1>12, <1>13

-----------------------------------------------------------------------------
\* The events on their way to a client, or sent to it by the heartbeat thread.
Pipe(c) == Range(fed[c]) \cup InFlight(c)

\* Both parts of a concatenation are in it.
LEMMA ConcatHolds ==
    ASSUME NEW S, NEW s \in Seq(S), NEW t \in Seq(S)
    PROVE  Range(s) \subseteq Range(s \o t) /\ Range(t) \subseteq Range(s \o t)
  <1>1. ASSUME NEW i \in DOMAIN s PROVE s[i] \in Range(s \o t)
    <2>1. i \in DOMAIN (s \o t) /\ (s \o t)[i] = s[i]
      OBVIOUS
    <2> QED
      BY <2>1 DEF Range
  <1>2. ASSUME NEW i \in DOMAIN t PROVE t[i] \in Range(s \o t)
    <2>1. Len(s) + i \in DOMAIN (s \o t) /\ (s \o t)[Len(s) + i] = t[i]
      OBVIOUS
    <2> QED
      BY <2>1 DEF Range
  <1> QED
    BY <1>1, <1>2 DEF Range

\* A served client's pipe loses nothing, and a callback that is over has put
\* its event there.
LEMMA PipeStep ==
    ASSUME FullTypeInv, FeedInv, [Next]_vars, NEW c \in Clients
    PROVE  /\ c \in subs' => Pipe(c) \subseteq Pipe(c)'
           /\ c \in subs /\ Checking' => \A i \in DOMAIN Body :
                 <<c, i>> \in subTodo => <<c, i>> \in subTodo' \/ Here(i) \in Pipe(c)'
  <1> DEFINE Goal == /\ c \in subs' => Pipe(c) \subseteq Pipe(c)'
                     /\ c \in subs /\ Checking' => \A i \in DOMAIN Body :
                           <<c, i>> \in subTodo => <<c, i>> \in subTodo' \/ Here(i) \in Pipe(c)'
  <1> SUFFICES Goal
    OBVIOUS
  <1>0. SvcTypeOK /\ SubTypeOK /\ RequestOK /\ c # NoClient
    BY ClientAssumption DEF FullTypeInv, TypeInv, Clients
  <1>1. ASSUME UNCHANGED <<fed, queue, hb, hbOut>>, subTodo \subseteq subTodo' \/ ~Checking'
        PROVE  Goal
    BY <1>1 DEF Pipe, InFlight
  <1>2. CASE ServiceStep \/ BlockDoneAll
    BY <1>1, <1>2 DEF ServiceStep, BlockDoneAll, subVars
  <1>3. ASSUME NEW body \in BlockBodies, BlockAppend(body) PROVE Goal
    <2>1. subTodo = {}
      BY <1>3 DEF BlockAppend, AppendBlock, FeedInv
    <2> QED
      BY <1>1, <1>3, <2>1 DEF BlockAppend
  <1>4. CASE BlockThrowAll
    <2>1. ~Checking'
      BY <1>4 DEF BlockThrowAll, BlockThrow, Checking
    <2> QED
      BY <1>1, <1>4, <2>1 DEF BlockThrowAll
  <1>5. ASSUME NEW d \in Clients, NEW i \in DOMAIN Body, NotifyEventHandler(d, i) PROVE Goal
    <2>1. /\ UNCHANGED <<fed, hb, hbOut, chain>> /\ subTodo' = subTodo \ {<<d, i>>}
          /\ d # c => queue'[c] = queue[c]
          /\ queue'[d] = Append(queue[d], Here(i))
      <3>1. queue \in [Clients -> Seq(Event)]
        BY <1>0 DEF SubTypeOK
      <3>2. /\ UNCHANGED <<fed, hb, hbOut, chain>> /\ subTodo' = subTodo \ {<<d, i>>}
            /\ queue' = [queue EXCEPT ![d] = PushBack(@, Here(i))]
        BY <1>5 DEF NotifyEventHandler, svcVars
      <3> QED
        BY <3>1, <3>2 DEF PushBack
    <2>2. Range(queue'[d]) = Range(queue[d]) \cup {Here(i)}
      <3>1. queue[d] \in Seq(Event) /\ Here(i) \in Event
        BY <1>0, LogType DEF SubTypeOK
      <3> QED
        BY <2>1, <3>1, RangeAppend
    <2>3. CASE d # c
      BY <2>1, <2>3 DEF Pipe, InFlight
    <2>4. CASE d = c
      <3>1. Range(queue'[c]) = Range(queue[c]) \cup {Here(i)}
        BY <2>2, <2>4
      <3>2. Pipe(c) \subseteq Pipe(c)' /\ Here(i) \in Pipe(c)'
        BY <2>1, <3>1 DEF Pipe, InFlight
      <3> QED
        BY <2>1, <2>4, <3>2
    <2> QED
      BY <2>3, <2>4
  <1>6. ASSUME NEW d \in Clients, NEW i \in DOMAIN Body, SkipCancelled(d, i) PROVE Goal
    <2>1. UNCHANGED <<fed, queue, hb, hbOut>> /\ subTodo' = subTodo \ {<<d, i>>} /\ d \notin subs
      BY <1>6 DEF SkipCancelled
    <2>2. Pipe(c) = Pipe(c)'
      BY <2>1 DEF Pipe, InFlight
    <2> QED
      BY <2>1, <2>2
  <1>7. ASSUME NEW d \in Clients, NEW p \in Publishers, SubReqLookup(d, p) PROVE Goal
    BY <1>1, <1>7 DEF SubReqLookup
  <1>8. ASSUME NEW d \in Clients, SubReqWork(d) PROVE Goal
    <2>1. UNCHANGED <<fed, queue, hb, hbOut>> /\ subTodo \subseteq subTodo'
      BY <1>8 DEF SubReqWork, SubReqListen, SubReqReadMonitor, SubReqCopyBegin,
         SubReqCopyEnd, SubReqRespond, SubReqRespondFail, SubReqAddEmitter
    <2> QED
      BY <1>1, <2>1
  <1>9. ASSUME NEW d \in Clients, EmitSwap(d) PROVE Goal
    <2>1. /\ UNCHANGED <<fed, subTodo>> /\ hb = NoClient /\ hb' = d /\ hbOut' = queue[d]
          /\ d # c => queue'[c] = queue[c]
      BY <1>0, <1>9 DEF EmitSwap, Taken, SubTypeOK
    <2>2. Pipe(c) \subseteq Pipe(c)'
      BY <1>0, <2>1 DEF Pipe, InFlight
    <2> QED
      BY <2>1, <2>2
  <1>10. ASSUME NEW a \in {"sec", "blk"}, EmitRead(a) PROVE Goal
    BY <1>1, <1>10 DEF EmitRead
  <1>11. CASE EmitSend
    <2>1. /\ UNCHANGED <<queue, subTodo>> /\ hb \in Clients /\ hb' = NoClient
          /\ hb # c => fed'[c] = fed[c]
          /\ hb = c => fed'[c] = fed[c] \o hbOut
      BY <1>0, <1>11 DEF EmitSend, HeartbeatFree, SubTypeOK
    <2>2. Pipe(c) \subseteq Pipe(c)'
      <3>1. CASE hb # c
        BY <1>0, <2>1, <3>1 DEF Pipe, InFlight
      <3>2. CASE hb = c
        <4>1. Range(fed[c]) \subseteq Range(fed'[c]) /\ Range(hbOut) \subseteq Range(fed'[c])
          BY <1>0, <2>1, <3>2, ConcatHolds DEF SubTypeOK
        <4> QED
          BY <1>0, <2>1, <4>1 DEF Pipe, InFlight
      <3> QED
        BY <3>1, <3>2
    <2> QED
      BY <2>1, <2>2
  <1>12. CASE EmitFail
    <2>1. UNCHANGED <<fed, queue, subTodo>> /\ hb' = NoClient /\ subs' = subs \ {hb}
      BY <1>12 DEF EmitFail, HeartbeatFree
    <2>2. c # hb => Pipe(c) \subseteq Pipe(c)'
      BY <1>0, <2>1 DEF Pipe, InFlight
    <2> QED
      BY <2>1, <2>2
  <1>13. CASE Terminated \/ UNCHANGED vars
    BY <1>1, <1>13 DEF Terminated, vars, subVars
  <1> HIDE DEF Goal
  <1>14. CASE BlockWork
    BY <1>2, <1>3, <1>4, <1>5, <1>6, <1>14 DEF BlockWork
  <1>15. CASE EmitWork
    BY <1>10, <1>11, <1>12, <1>15 DEF EmitWork
  <1> QED
    BY <1>7, <1>8, <1>9, <1>13, <1>14, <1>15 DEF Next

\* What the first response has read of the past events stays; only the end
\* of their copy brings them.
LEMMA ArgsStep ==
    ASSUME FullTypeInv, Stages, [Next]_vars, NEW c \in Clients
    PROVE  \/ /\ em'[c] = em[c] /\ joined'[c] = joined[c] /\ lossy'[c] = lossy[c]
              /\ resp'[c].past = resp[c].past
              /\ "past" \in got'[c] => "past" \in got[c]
              /\ c \in subs' => c \in subs
           \/ "past" \notin got'[c] /\ pc'[c] \notin {"live", "dropped"}
           \/ \E events \in CopyResults : SubReqCopyEnd(c, events)
  <1> DEFINE Same == /\ em'[c] = em[c] /\ joined'[c] = joined[c] /\ lossy'[c] = lossy[c]
                     /\ resp'[c].past = resp[c].past
                     /\ "past" \in got'[c] => "past" \in got[c]
                     /\ c \in subs' => c \in subs
             Early == "past" \notin got'[c] /\ pc'[c] \notin {"live", "dropped"}
             Ended == \E events \in CopyResults : SubReqCopyEnd(c, events)
  <1> SUFFICES Same \/ Early \/ Ended
    OBVIOUS
  <1>0. SubTypeOK /\ RequestInv(c)
    BY DEF FullTypeInv, Stages
  <1>1. ASSUME UNCHANGED <<em, joined, lossy, resp, got>>, subs' \subseteq subs PROVE Same
    BY <1>1
  <1>2. CASE BlockWork
    <2>1. UNCHANGED <<em, joined, lossy, resp, got>> /\ subs' \subseteq subs
      BY <1>2 DEF BlockWork, ServiceStep, BlockAppend, NotifyEventHandler, SkipCancelled,
         BlockDoneAll, BlockThrowAll, subVars
    <2> QED
      BY <1>1, <2>1
  <1>3. ASSUME NEW d \in Clients, NEW p \in Publishers, SubReqLookup(d, p) PROVE Same \/ Early
    <2>1. /\ pc[d] = "idle" /\ UNCHANGED <<got, joined, lossy, resp, subs>>
          /\ d # c => em'[c] = em[c]
          /\ d = c => pc'[c] \in {"listen", "rejected"}
      BY <1>0, <1>3 DEF SubReqLookup, SubTypeOK
    <2> QED
      BY <1>0, <2>1 DEF RequestInv
  <1>4. ASSUME NEW d \in Clients, NEW k \in 0..Len(Body), SubReqListen(d, k) PROVE Same \/ Early
    <2>1. /\ pc[d] = "listen" /\ UNCHANGED <<em, got, lossy, resp>>
          /\ subs' = subs \cup {d}
          /\ d # c => joined'[c] = joined[c]
          /\ d = c => pc'[c] = "read"
      BY <1>0, <1>4 DEF SubReqListen, SubTypeOK
    <2> QED
      BY <1>0, <2>1 DEF RequestInv
  <1>5. ASSUME NEW d \in Clients, NEW a \in {"sec", "blk"}, SubReqReadMonitor(d, a) PROVE Same \/ Early
    <2>1. /\ pc[d] = "read" /\ UNCHANGED <<em, lossy, subs, pc>>
          /\ resp'[c].past = resp[c].past
          /\ d # c => joined'[c] = joined[c] /\ got'[c] = got[c]
          /\ d = c => /\ got'[c] = got[c] \cup {a}
                      /\ "past" \in got[c] => joined'[c] = joined[c]
      BY <1>0, <1>5 DEF SubReqReadMonitor, SubTypeOK
    <2> QED
      BY <1>0, <2>1
  <1>6. ASSUME NEW d \in Clients, d # c, NEW events \in CopyResults, SubReqCopyEnd(d, events) PROVE Same
    BY <1>0, <1>6 DEF SubReqCopyEnd, SubTypeOK
  <1>7. ASSUME NEW d \in Clients, SubReqCopyBegin(d) \/ SubReqRespond(d) \/ SubReqRespondFail(d)
                                  \/ SubReqAddEmitter(d) \/ EmitSwap(d)
        PROVE Same
    BY <1>1, <1>7 DEF SubReqCopyBegin, SubReqRespond, SubReqRespondFail, SubReqAddEmitter, EmitSwap
  <1>8. CASE EmitWork \/ Terminated \/ UNCHANGED vars
    BY <1>1, <1>8 DEF EmitWork, EmitRead, EmitSend, EmitFail, Terminated, vars, subVars
  <1>e. \A events \in CopyResults : SubReqCopyEnd(c, events) => Ended
    OBVIOUS
  <1> HIDE DEF Same, Early, Ended
  <1>9. ASSUME NEW d \in Clients, SubReqWork(d)
        PROVE  Same \/ Early \/ Ended
    BY <1>e, <1>4, <1>5, <1>6, <1>7, <1>9 DEF SubReqWork
  <1> QED
    BY <1>2, <1>3, <1>7, <1>8, <1>9 DEF Next

-----------------------------------------------------------------------------
\* Of the block under check a listener has, or will get, every event, unless
\* it was added during the check.
WatchInv ==
    \A c \in subs : Checking /\ joined[c] # Len(chain) =>
        \A e \in LogOf(em[c]) :
            e.blk = Len(chain) => e \in Pipe(c) \/ <<c, e.idx>> \in subTodo

\* Who watches a block under check did so before the step, or the check has
\* just begun.
LEMMA WatchActs ==
    ASSUME FullTypeInv, FeedInv, [Next]_vars, NEW c \in subs', Checking', joined'[c] # Len(chain')
    PROVE  \/ \E body \in BlockBodies : BlockAppend(body)
           \/ c \in subs /\ Checking /\ em'[c] = em[c] /\ joined'[c] = joined[c] /\ chain' = chain
  <1> DEFINE Watched == c \in subs /\ Checking /\ em'[c] = em[c] /\ joined'[c] = joined[c]
                        /\ chain' = chain
  <1> SUFFICES ASSUME ~\E body \in BlockBodies : BlockAppend(body) PROVE Watched
    OBVIOUS
  <1>0. SvcTypeOK /\ SubTypeOK
    BY DEF FullTypeInv, TypeInv
  <1>1. ASSUME UNCHANGED <<chain, em, joined>>, blkPc' = blkPc \/ Checking, subs' \subseteq subs
        PROVE  Watched
    BY <1>1 DEF Checking
  <1>3. CASE ServiceStep
    <2>1. UNCHANGED subVars /\ chain' = chain /\ Checking
      BY <1>3 DEF ServiceStep, CheckEvents, DeployEventHandler, RegEventHandler, RegEventStore, RegEventListen,
         NotifyPastFind, NotifyPastPush, Checking
    <2> QED
      BY <1>1, <2>1 DEF subVars
  <1>4. CASE BlockDoneAll \/ BlockThrowAll
    <2>1. ~Checking'
      BY <1>4 DEF BlockDoneAll, BlockDone, BlockThrowAll, BlockThrow, Checking
    <2> QED
      BY <2>1
  <1>5. ASSUME NEW d \in Clients, NEW i \in DOMAIN Body, NotifyEventHandler(d, i) \/ SkipCancelled(d, i)
        PROVE  Watched
    BY <1>1, <1>5 DEF NotifyEventHandler, SkipCancelled, svcVars
  <1>6. ASSUME NEW d \in Clients, NEW p \in Publishers, SubReqLookup(d, p), d # c PROVE Watched
    BY <1>0, <1>6 DEF SubReqLookup, svcVars, SubTypeOK, Checking
  <1>7. ASSUME NEW d \in Clients, NEW k \in 0..Len(Body), SubReqListen(d, k) PROVE Watched
    <2>1. CASE d = c
      <3>1. Checking
        BY <1>7 DEF SubReqListen, svcVars, Checking
      <3>2. joined'[c] = Len(chain) /\ chain' = chain
        BY <1>0, <1>7, <2>1, <3>1 DEF SubReqListen, svcVars, SubTypeOK
      <3> QED
        BY <3>2
    <2>2. CASE d # c
      <3>1. /\ chain' = chain /\ blkPc' = blkPc /\ em' = em /\ subs' = subs \cup {d}
            /\ joined'[c] = joined[c]
        BY <1>0, <1>7, <2>2 DEF SubReqListen, svcVars, SubTypeOK
      <3> QED
        BY <2>2, <3>1 DEF Checking
    <2> QED
      BY <2>1, <2>2
  <1>8. ASSUME NEW d \in Clients, NEW a \in {"sec", "blk"}, SubReqReadMonitor(d, a) PROVE Watched
    <2>1. ~Checking'
      BY <1>8 DEF SubReqReadMonitor, svcVars, MonitorFree, Checking
    <2> QED
      BY <2>1
  <1>9. ASSUME NEW d \in Clients, NEW events \in CopyResults, SubReqCopyEnd(d, events) PROVE Watched
    BY <1>1, <1>9 DEF SubReqCopyEnd, GetPastEventsEnd
  <1>10. ASSUME NEW d \in Clients, SubReqCopyBegin(d) \/ SubReqRespond(d) \/ SubReqRespondFail(d)
                                  \/ SubReqAddEmitter(d) \/ EmitSwap(d)
        PROVE Watched
    BY <1>1, <1>10 DEF SubReqCopyBegin, GetPastEventsBegin, SubReqRespond, SubReqRespondFail,
       SubReqAddEmitter, EmitSwap, svcVars
  <1>11. CASE EmitWork \/ Terminated \/ UNCHANGED vars
    <2>1. UNCHANGED <<chain, em, joined, blkPc>> /\ subs' \subseteq subs
      BY <1>11 DEF EmitWork, EmitRead, EmitSend, EmitFail, Terminated, vars, svcVars, subVars
    <2> QED
      BY <1>1, <2>1
  <1>12. ASSUME NEW p \in Publishers, SubReqLookup(c, p), c \in Clients PROVE FALSE
    <2>1. pc[c] = "idle" /\ c \in subs
      BY <1>12 DEF SubReqLookup
    <2> QED
      BY <1>12, <2>1 DEF FeedInv
  <1> HIDE DEF Watched
  <1>13. ASSUME NEW d \in Clients, SubReqWork(d) PROVE Watched
    BY <1>7, <1>8, <1>9, <1>10, <1>13 DEF SubReqWork
  <1>14. CASE BlockWork
    BY <1>3, <1>4, <1>5, <1>14 DEF BlockWork
  <1> QED
    BY <1>6, <1>12, <1>10, <1>11, <1>13, <1>14 DEF Next

\* A listener keeps its watch.
LEMMA WatchStep == FullTypeInv /\ FullTypeInv' /\ FeedInv /\ WatchInv /\ [Next]_vars => WatchInv'
  <1> SUFFICES ASSUME FullTypeInv, FullTypeInv', FeedInv, WatchInv, [Next]_vars,
                      NEW c \in subs', Checking', joined'[c] # Len(chain'),
                      NEW e \in LogOf(em[c])', e.blk = Len(chain')
               PROVE  e \in Pipe(c)' \/ <<c, e.idx>> \in subTodo'
    BY DEF WatchInv
  <1>0. SvcTypeOK /\ SvcTypeOK' /\ c \in Clients
    BY DEF FullTypeInv, TypeInv, SubTypeOK
  <1>1. ASSUME chain' = chain
        PROVE  /\ e \in Event /\ e.idx \in DOMAIN Body /\ e = Here(e.idx)
               /\ Body[e.idx].type = "notify" /\ Body[e.idx].em = em'[c]
               /\ em'[c] = em[c] => e \in LogOf(em[c])
    <2>1. LogOf(em[c])' = {f \in OnChain' : LogAt(f)'.type = "notify" /\ LogAt(f)'.em = em'[c]}
      BY DEF LogOf
    <2>2. OnChain' = OnChain /\ \A f : LogAt(f)' = LogAt(f)
      BY <1>1 DEF OnChain, LogAt
    <2>3. e \in LogOf(em'[c])
      BY <2>1, <2>2 DEF LogOf
    <2>4. /\ e \in Event /\ e.blk \in DOMAIN chain /\ e.idx \in DOMAIN chain[e.blk]
          /\ chain[e.blk][e.idx].type = "notify" /\ chain[e.blk][e.idx].em = em'[c]
      BY <1>0, <2>3, LogOfType
    <2>5. Body = chain[e.blk]
      BY <1>1, <2>4 DEF Body
    <2>6. e = Here(e.idx)
      BY <1>1, <2>4 DEF Event, Here
    <2> QED
      BY <2>3, <2>4, <2>5, <2>6
  <1>2. ASSUME NEW body \in BlockBodies, BlockAppend(body) PROVE <<c, e.idx>> \in subTodo'
    <2>1. /\ em' = em /\ subs' = subs /\ AppendBlock(body)
          /\ \A i : i \in DOMAIN body /\ SubMatches(c, body[i]) => <<c, i>> \in subTodo'
      BY <1>2 DEF BlockAppend
    <2>2. LogOf(em[c])' = {f \in OnChain' : LogAt(f)'.type = "notify" /\ LogAt(f)'.em = em[c]}
      BY <2>1 DEF LogOf
    <2>3. e.idx \in DOMAIN body /\ body[e.idx].type = "notify" /\ body[e.idx].em = em[c]
      BY <1>0, <2>1, <2>2, AppendLogOf DEF LogOf
    <2> QED
      BY <2>1, <2>3 DEF SubMatches
  <1>3. CASE c \in subs /\ Checking /\ em'[c] = em[c] /\ joined'[c] = joined[c] /\ chain' = chain
    <2>1. e \in LogOf(em[c]) /\ e.blk = Len(chain) /\ joined[c] # Len(chain)
      BY <1>1, <1>3
    <2>2. e \in Pipe(c) \/ <<c, e.idx>> \in subTodo
      BY <1>3, <2>1 DEF WatchInv
    <2> QED
      BY <1>0, <1>1, <1>3, <2>2, PipeStep
  <1> QED
    BY <1>2, <1>3, WatchActs

\* No event falls through: the copy of the past events has all the client was
\* owed by then, its own listener all of a block that ends later.
LEMMA GapStep ==
    FullTypeInv /\ FullTypeInv' /\ Stages /\ FeedInv /\ PastComplete /\ WatchInv /\ NoGap
        /\ [Next]_vars => NoGap'
  <1> SUFFICES ASSUME FullTypeInv, FullTypeInv', Stages, FeedInv, PastComplete, WatchInv, NoGap,
                      [Next]_vars, NEW c \in subs', "past" \in got'[c], NEW e \in Expected(c)'
               PROVE  e \in (Delivered(c) \cup InFlight(c))'
    BY DEF NoGap
  <1>0. /\ SvcTypeOK /\ SubTypeOK /\ RequestOK /\ c \in Clients /\ RequestInv(c)
        /\ NoReader \notin Clients
    BY ReaderAssumption DEF FullTypeInv, TypeInv, SubTypeOK, Stages, Clients
  <1>m. PICK m : m = em'[c]
    OBVIOUS
  <1>1. ~lossy'[c] /\ e \in Owed(m)' /\ e.blk # joined'[c]
    <2>1. ~lossy'[c] /\ e \in Owed(em[c])' /\ e.blk # joined'[c]
      BY DEF Expected
    <2> QED
      BY <1>m, <2>1 DEF Owed
  <1>2. CASE /\ em'[c] = em[c] /\ joined'[c] = joined[c] /\ lossy'[c] = lossy[c]
             /\ resp'[c].past = resp[c].past
             /\ "past" \in got'[c] => "past" \in got[c]
             /\ c \in subs' => c \in subs
    <2>1. m = em[c]
      BY <1>m, <1>2
    <2>2. CASE e \in Owed(m)
      <3>1. e \in Expected(c)
        BY <1>1, <1>2, <2>1, <2>2 DEF Expected
      <3>2. e \in Delivered(c) \cup InFlight(c)
        BY <1>2, <3>1 DEF NoGap
      <3>3. e \in Range(resp[c].past) \/ e \in Pipe(c)
        BY <3>2 DEF Delivered, Pipe
      <3> QED
        BY <1>0, <1>2, <3>3, PipeStep DEF Delivered, Pipe
    <2>3. CASE e \notin Owed(m)
      <3>1. BlockDoneAll /\ e.blk = Len(chain) /\ e \in LogOf(em[c])
        BY <1>1, <2>1, <2>3, OwedStep
      <3>2. Checking /\ subTodo = {}
        BY <3>1 DEF BlockDoneAll, BlockDone, Checking
      <3>3. e \in Pipe(c)
        BY <1>1, <1>2, <3>1, <3>2 DEF WatchInv
      <3> QED
        BY <1>0, <3>3, PipeStep DEF Delivered, Pipe
    <2> QED
      BY <2>2, <2>3
  <1>3. ASSUME NEW events \in CopyResults, SubReqCopyEnd(c, events)
        PROVE  e \in (Delivered(c) \cup InFlight(c))'
    <2>1. /\ pc[c] = "copy" /\ lossy'[c] = copy.raced /\ resp'[c].past = events /\ em' = em
          /\ UNCHANGED <<chain, blkPc, pastStore>>
      BY <1>0, <1>3 DEF SubReqCopyEnd, GetPastEventsEnd, SubTypeOK
    <2>2. copy.em = em[c] /\ em[c] \in EvMgrs
      BY <1>0, <2>1 DEF RequestInv, RequestOK
    <2>3. e \in Owed(em[c])
      <3>1. m = em[c]
        BY <1>m, <2>1
      <3>2. ~BlockDoneAll
        BY <1>3, <2>1 DEF BlockDoneAll, BlockDone
      <3> QED
        BY <1>1, <3>1, <3>2, OwedStep
    <2>4. em[c] \in DOMAIN pastStore /\ e \in Range(pastStore[em[c]])
      BY <2>2, <2>3 DEF PastComplete
    <2>5. events = pastStore[em[c]]
      BY <1>1, <2>1, <2>2, <2>4 DEF CopyResults
    <2> QED
      BY <2>1, <2>4, <2>5 DEF Delivered
  <1> QED
    BY <1>0, <1>2, <1>3, ArgsStep

\* Between the past events of the first response and the client's own queue no
\* event falls through, for any number of clients, managers and blocks.
THEOREM NothingFallsThrough == Spec => []NoGap
  <1>1. Init => WatchInv /\ NoGap
    BY DEF Init, WatchInv, NoGap
  <1>2. Spec => []WatchInv
    BY <1>1, WatchStep, FullTypeCorrect, FeedCorrect, PTL DEF Spec
  <1> QED
    BY <1>1, <1>2, GapStep, StagesCorrect, FullTypeCorrect, FeedCorrect, PastEventsCompleteServed,
       PTL DEF Spec

-----------------------------------------------------------------------------
(***************************************************************************)
(* WatermarkLag.  Numbers told during a block are of blocks before it, so  *)
(* a block that ends adds nothing to what they cover; and the queue that   *)
(* is taken after a number was told has all that number covers.            *)
(***************************************************************************)
BehindInv ==
    ~MonitorFree =>
        /\ \A c \in Clients : resp[c].blk < Len(chain) /\ told[c] < Len(chain)
        /\ "blk" \in hbGot => hbBlk < Len(chain)

TakenInv ==
    hb # NoClient => \A e \in Expected(hb) :
        e.blk <= told[hb] => e \in Delivered(hb) \/ e \in Range(hbOut)

\* While a block is under way nobody reads its number.
LEMMA BehindStep == FullTypeInv /\ NumberInv /\ BehindInv /\ [Next]_vars => BehindInv'
  <1> SUFFICES ASSUME FullTypeInv, NumberInv, BehindInv, [Next]_vars, ~MonitorFree'
               PROVE  /\ \A c \in Clients : resp'[c].blk < Len(chain') /\ told'[c] < Len(chain')
                      /\ "blk" \in hbGot' => hbBlk' < Len(chain')
    BY DEF BehindInv
  <1> DEFINE Goal == /\ \A c \in Clients : resp'[c].blk < Len(chain') /\ told'[c] < Len(chain')
                     /\ "blk" \in hbGot' => hbBlk' < Len(chain')
  <1> SUFFICES Goal
    OBVIOUS
  <1>0. SvcTypeOK /\ SubTypeOK /\ RequestOK /\ Len(chain) \in Nat
    BY DEF FullTypeInv, TypeInv, SvcTypeOK
  <1>1. ASSUME UNCHANGED <<chain, resp, told, hbGot, hbBlk>>, blkPc' = blkPc \/ ~MonitorFree
        PROVE  Goal
    BY <1>1 DEF BehindInv, MonitorFree
  <1>2. ASSUME NEW body \in BlockBodies, BlockAppend(body) PROVE Goal
    <2>1. UNCHANGED <<resp, told, hbGot, hbBlk>> /\ Len(chain') = Len(chain) + 1
      BY <1>0, <1>2, AppendLogs DEF BlockAppend
    <2>2. \A c \in Clients : /\ resp[c].blk \in Nat /\ resp[c].blk <= Len(chain)
                             /\ told[c] \in Nat /\ told[c] <= Len(chain)
      BY <1>0 DEF NumberInv, SubTypeOK
    <2>3. hbBlk \in Nat /\ ("blk" \in hbGot => hbBlk <= Len(chain))
      BY <1>0 DEF NumberInv, SubTypeOK
    <2> QED
      BY <1>0, <2>1, <2>2, <2>3
  <1>3. CASE ServiceStep
    <2>1. UNCHANGED subVars /\ chain' = chain /\ ~MonitorFree
      BY <1>3 DEF ServiceStep, CheckEvents, DeployEventHandler, RegEventHandler, RegEventStore, RegEventListen,
         NotifyPastFind, NotifyPastPush, MonitorFree
    <2> QED
      BY <1>1, <2>1 DEF subVars
  <1>4. CASE BlockDoneAll \/ BlockThrowAll
    <2>1. UNCHANGED <<chain, resp, told, hbGot, hbBlk>> /\ (~MonitorFree \/ MonitorFree')
      BY <1>4 DEF BlockDoneAll, BlockDone, BlockThrowAll, BlockThrow,
         MonitorFree, subVars
    <2> QED
      BY <1>1, <2>1
  <1>5. ASSUME NEW d \in Clients, NEW i \in DOMAIN Body, NotifyEventHandler(d, i) \/ SkipCancelled(d, i)
        PROVE  Goal
    BY <1>1, <1>5 DEF NotifyEventHandler, SkipCancelled, svcVars
  <1>6. ASSUME NEW d \in Clients, NEW p \in Publishers, SubReqLookup(d, p) PROVE Goal
    BY <1>1, <1>6 DEF SubReqLookup, svcVars
  <1>7. ASSUME NEW d \in Clients, NEW a \in {"sec", "blk"}, SubReqReadMonitor(d, a) PROVE Goal
    <2>1. MonitorFree'
      BY <1>7 DEF SubReqReadMonitor, svcVars, MonitorFree
    <2> QED
      BY <2>1
  <1>8. ASSUME NEW d \in Clients, NEW events \in CopyResults, SubReqCopyEnd(d, events) PROVE Goal
    <2>1. /\ UNCHANGED <<chain, blkPc, told, hbGot, hbBlk>>
          /\ \A c \in Clients : resp'[c].blk = resp[c].blk
      BY <1>0, <1>8 DEF SubReqCopyEnd, GetPastEventsEnd, SubTypeOK
    <2> QED
      BY <2>1 DEF BehindInv, MonitorFree
  <1>9. ASSUME NEW d \in Clients, SubReqRespond(d) PROVE Goal
    <2>1. /\ UNCHANGED <<chain, blkPc, resp, hbGot, hbBlk>>
          /\ \A c \in Clients : told'[c] = IF c = d THEN resp[d].blk ELSE told[c]
      BY <1>0, <1>9 DEF SubReqRespond, svcVars, SubTypeOK
    <2> QED
      BY <2>1 DEF BehindInv, MonitorFree
  <1>10. ASSUME NEW d \in Clients, SubReqCopyBegin(d) \/ SubReqRespondFail(d)
                                  \/ SubReqAddEmitter(d) \/ EmitSwap(d)
        PROVE Goal
    BY <1>1, <1>10 DEF SubReqCopyBegin, GetPastEventsBegin, SubReqRespondFail,
       SubReqAddEmitter, EmitSwap, svcVars
  <1>11. ASSUME NEW d \in Clients, NEW k \in 0..Len(Body), SubReqListen(d, k) PROVE Goal
    BY <1>1, <1>11 DEF SubReqListen, svcVars
  <1>12. ASSUME NEW a \in {"sec", "blk"}, EmitRead(a) PROVE Goal
    <2>1. MonitorFree'
      BY <1>12 DEF EmitRead, svcVars, MonitorFree
    <2> QED
      BY <2>1
  <1>13. CASE EmitSend
    <2>1. /\ UNCHANGED <<chain, blkPc, resp>> /\ hbGot' = {} /\ "blk" \in hbGot
          /\ \A c \in Clients : told'[c] = IF c = hb THEN hbBlk ELSE told[c]
      BY <1>0, <1>13 DEF EmitSend, HeartbeatFree, svcVars, SubTypeOK
    <2> QED
      BY <2>1 DEF BehindInv, MonitorFree
  <1>14. CASE EmitFail
    <2>1. UNCHANGED <<chain, blkPc, resp, told>> /\ hbGot' = {}
      BY <1>14 DEF EmitFail, HeartbeatFree, svcVars
    <2> QED
      BY <2>1 DEF BehindInv, MonitorFree
  <1>15. CASE Terminated \/ UNCHANGED vars
    BY <1>1, <1>15 DEF Terminated, vars, svcVars, subVars
  <1> HIDE DEF Goal
  <1>16. CASE BlockWork
    BY <1>2, <1>3, <1>4, <1>5, <1>16 DEF BlockWork
  <1>17. ASSUME NEW d \in Clients, SubReqWork(d) PROVE Goal
    BY <1>7, <1>8, <1>9, <1>10, <1>11, <1>17 DEF SubReqWork
  <1>18. CASE EmitWork
    BY <1>12, <1>13, <1>14, <1>18 DEF EmitWork
  <1> QED
    BY <1>6, <1>10, <1>15, <1>16, <1>17, <1>18 DEF Next

\* What a live or a dropped client is to get grows with the end of a block.
LEMMA ExpectedStep ==
    ASSUME FullTypeInv, FullTypeInv', Stages, [Next]_vars, NEW c \in Clients,
           NEW e \in Expected(c)', pc'[c] \in {"live", "dropped"}
    PROVE  /\ resp'[c].past = resp[c].past
           /\ e \in Expected(c) \/ (BlockDoneAll /\ e.blk = Len(chain))
  <1>m. PICK m : m = em'[c]
    OBVIOUS
  <1>1. ~lossy'[c] /\ e \in Owed(m)' /\ e.blk # joined'[c]
    <2>1. ~lossy'[c] /\ e \in Owed(em[c])' /\ e.blk # joined'[c]
      BY DEF Expected
    <2> QED
      BY <1>m, <2>1 DEF Owed
  <1>2. ~\E events \in CopyResults : SubReqCopyEnd(c, events)
    BY DEF SubReqCopyEnd, FullTypeInv, SubTypeOK
  <1>3. /\ em'[c] = em[c] /\ joined'[c] = joined[c] /\ lossy'[c] = lossy[c]
        /\ resp'[c].past = resp[c].past
    BY <1>2, ArgsStep
  <1>4. ASSUME e \notin Owed(m) PROVE BlockDoneAll /\ e.blk = Len(chain)
    BY <1>1, <1>4, OwedStep
  <1> QED
    BY <1>m, <1>1, <1>3, <1>4 DEF Expected

\* An owed event is of a block of the chain.
LEMMA OwedOnChain == SvcTypeOK => \A m : \A e \in Owed(m) : e.blk \in Nat /\ e.blk > 0
  <1> SUFFICES ASSUME SvcTypeOK, NEW m, NEW e \in Owed(m) PROVE e.blk \in Nat /\ e.blk > 0
    OBVIOUS
  <1>1. PICK r \in Event : Follows(e, r)
    BY OwedMeans DEF OwedMeaning
  <1> QED
    BY <1>1 DEF Follows, IsLog, SvcTypeOK

\* The steps of the heartbeat thread, and what the others leave to it.
LEMMA HeartbeatActs ==
    ASSUME FullTypeInv, NumberInv, [Next]_vars
    PROVE  \/ \E c \in Clients : EmitSwap(c)
           \/ EmitSend
           \/ EmitFail
           \/ /\ UNCHANGED <<fed, sure, hb, hbOut>>
              /\ hb # NoClient => told'[hb] = told[hb]
  <1> DEFINE Quiet == UNCHANGED <<fed, sure, hb, hbOut>> /\ (hb # NoClient => told'[hb] = told[hb])
  <1> SUFFICES ASSUME ~\E c \in Clients : EmitSwap(c), ~EmitSend, ~EmitFail PROVE Quiet
    OBVIOUS
  <1>0. SubTypeOK /\ RequestOK
    BY DEF FullTypeInv
  <1>1. ASSUME UNCHANGED <<fed, sure, hb, hbOut, told>> PROVE Quiet
    BY <1>1
  <1>2. CASE BlockWork
    BY <1>2 DEF BlockWork, ServiceStep, BlockAppend, NotifyEventHandler, SkipCancelled,
       BlockDoneAll, BlockThrowAll, subVars
  <1>3. ASSUME NEW d \in Clients, NEW p \in Publishers, SubReqLookup(d, p) PROVE Quiet
    BY <1>3 DEF SubReqLookup
  <1>4. ASSUME NEW d \in Clients, SubReqRespond(d) PROVE Quiet
    <2>1. hb # d
      BY <1>0, <1>4, ClientAssumption DEF SubReqRespond, RequestOK
    <2> QED
      BY <1>0, <1>4, <2>1 DEF SubReqRespond, SubTypeOK
  <1>5. ASSUME NEW d \in Clients, SubReqWork(d), ~SubReqRespond(d) PROVE Quiet
    BY <1>5 DEF SubReqWork, SubReqListen, SubReqReadMonitor, SubReqCopyBegin, SubReqCopyEnd,
       SubReqRespondFail, SubReqAddEmitter
  <1>6. CASE (\E a \in {"sec", "blk"} : EmitRead(a)) \/ Terminated \/ UNCHANGED vars
    BY <1>6 DEF EmitRead, Terminated, vars, subVars
  <1> QED
    BY <1>2, <1>3, <1>4, <1>5, <1>6 DEF Next, EmitWork

\* What is told at the start of a turn is covered by what the turn takes.
LEMMA TakenStep ==
    FullTypeInv /\ FullTypeInv' /\ NumberInv /\ Stages /\ FeedInv /\ FeedInv' /\ NoGap /\ NoGap'
        /\ BehindInv /\ TakenInv /\ [Next]_vars => TakenInv'
  <1> SUFFICES ASSUME FullTypeInv, FullTypeInv', NumberInv, Stages, FeedInv, FeedInv', NoGap, NoGap',
                      BehindInv, TakenInv, [Next]_vars, hb' # NoClient
               PROVE  (\A e \in Expected(hb) :
                          e.blk <= told[hb] => e \in Delivered(hb) \/ e \in Range(hbOut))'
    BY DEF TakenInv
  <1>0. SvcTypeOK /\ SubTypeOK /\ RequestOK /\ SubTypeOK' /\ RequestOK'
    BY DEF FullTypeInv, TypeInv
  <1>c. PICK c \in Clients : c = hb'
    BY <1>0 DEF SubTypeOK
  <1> SUFFICES ASSUME NEW e \in Expected(c)', e.blk <= told'[c]
               PROVE  e \in Delivered(c)' \/ e \in Range(hbOut')
    BY <1>c DEF Expected, Owed, Delivered
  <1>1. pc'[c] = "live"
    BY <1>0, <1>c DEF RequestOK
  <1>2. ASSUME NEW d \in Clients, EmitSwap(d) PROVE e \in Delivered(c)' \/ e \in Range(hbOut')
    <2>1. d = c /\ pc[c] = "live" /\ queue'[c] = <<>> /\ UNCHANGED <<subs, got>>
      BY <1>0, <1>c, <1>2 DEF EmitSwap, Left, SubTypeOK
    <2>2. c \in subs' /\ "past" \in got'[c]
      BY <2>1 DEF FeedInv, Stages, RequestInv
    <2>3. e \in Delivered(c)' \/ e \in InFlight(c)'
      BY <2>2 DEF NoGap
    <2>4. InFlight(c)' = Range(hbOut')
      <3>1. InFlight(c)' = Range(queue'[c]) \cup Range(hbOut')
        BY <1>c DEF InFlight
      <3>2. Range(queue'[c]) = {}
        BY <2>1 DEF Range
      <3> QED
        BY <3>1, <3>2
    <2> QED
      BY <2>3, <2>4
  <1>3. ~EmitSend /\ ~EmitFail
    BY DEF EmitSend, EmitFail, HeartbeatFree
  <1>4. CASE UNCHANGED <<fed, sure, hb, hbOut>> /\ (hb # NoClient => told'[hb] = told[hb])
    <2>1. hb = c /\ told'[c] = told[c] /\ fed'[c] = fed[c]
      BY <1>c, <1>4
    <2>2. resp'[c].past = resp[c].past /\ (e \in Expected(c) \/ (BlockDoneAll /\ e.blk = Len(chain)))
      BY <1>1, ExpectedStep
    <2>3. ~(BlockDoneAll /\ e.blk = Len(chain))
      <3>1. ASSUME BlockDoneAll PROVE told[c] < Len(chain)
        BY <3>1 DEF BlockDoneAll, BlockDone, BehindInv, MonitorFree
      <3>2. told[c] \in Nat /\ Len(chain) \in Nat
        BY <1>0 DEF SubTypeOK, SvcTypeOK
      <3>3. e.blk <= told[c]
        BY <2>1
      <3> QED
        BY <3>1, <3>2, <3>3
    <2>4. e \in Delivered(c) \/ e \in Range(hbOut)
      BY <1>c, <2>1, <2>2, <2>3 DEF TakenInv
    <2> QED
      BY <1>4, <2>1, <2>2, <2>4 DEF Delivered
  <1> QED
    BY <1>2, <1>3, <1>4, HeartbeatActs

\* The number of the message before covers what has been sent.
LEMMA LagStep ==
    FullTypeInv /\ FullTypeInv' /\ NumberInv /\ Stages /\ Stages' /\ BehindInv /\ TakenInv
        /\ WatermarkLag /\ [Next]_vars => WatermarkLag'
  <1> SUFFICES ASSUME FullTypeInv, FullTypeInv', NumberInv, Stages, Stages', BehindInv, TakenInv,
                      WatermarkLag, [Next]_vars, NEW c \in Clients, NEW e \in Expected(c)',
                      e.blk <= sure'[c]
               PROVE  e \in Delivered(c)'
    BY DEF WatermarkLag
  <1>0. /\ SvcTypeOK /\ SubTypeOK /\ RequestOK /\ SvcTypeOK' /\ SubTypeOK' /\ RequestInv(c)
        /\ c # NoClient /\ RequestInv(c)'
    BY ClientAssumption DEF FullTypeInv, TypeInv, Stages, Clients
  <1>1. pc'[c] \in {"live", "dropped"}
    <2>1. pc'[c] \notin {"live", "dropped"} => sure'[c] = 0
      BY <1>0 DEF RequestInv
    <2>2. PICK m : m = em'[c]
      OBVIOUS
    <2>3. e \in Owed(m)'
      BY <2>2 DEF Expected, Owed
    <2>4. OwedMeaning'
      BY OwedMeans, PTL
    <2>5. PICK r \in Event : Follows(e, r)'
      BY <1>0, <2>3, <2>4 DEF OwedMeaning
    <2>6. e.blk \in Nat /\ e.blk > 0
      BY <1>0, <2>5 DEF Follows, IsLog, SvcTypeOK
    <2> QED
      BY <2>1, <2>6
  <1>2. resp'[c].past = resp[c].past /\ (e \in Expected(c) \/ (BlockDoneAll /\ e.blk = Len(chain)))
    BY <1>1, ExpectedStep
  <1>3. CASE BlockDoneAll
    <2>1. told[c] < Len(chain) /\ sure'[c] = sure[c] /\ fed'[c] = fed[c]
      BY <1>3 DEF BlockDoneAll, BlockDone, BehindInv, MonitorFree, subVars
    <2>2. e.blk # Len(chain)
      <3>1. sure[c] \in Nat /\ told[c] \in Nat /\ Len(chain) \in Nat
        BY <1>0 DEF SubTypeOK, SvcTypeOK
      <3>2. e.blk <= sure[c] /\ sure[c] <= told[c]
        BY <1>0, <2>1 DEF RequestInv
      <3> QED
        BY <2>1, <3>1, <3>2
    <2> QED
      BY <1>2, <2>1, <2>2 DEF WatermarkLag, Delivered
  <1>4. CASE EmitSend /\ hb = c
    <2>1. sure'[c] = told[c] /\ fed'[c] = fed[c] \o hbOut /\ e \in Expected(c)
      BY <1>0, <1>2, <1>4 DEF EmitSend, BlockDoneAll, BlockDone, svcVars, SubTypeOK
    <2>2. e \in Delivered(c) \/ e \in Range(hbOut)
      BY <1>0, <1>4, <2>1 DEF TakenInv
    <2>3. Range(fed[c]) \subseteq Range(fed'[c]) /\ Range(hbOut) \subseteq Range(fed'[c])
      BY <1>0, <2>1, ConcatHolds DEF SubTypeOK
    <2> QED
      BY <1>2, <2>2, <2>3 DEF Delivered
  <1>5. ASSUME sure'[c] = sure[c], fed'[c] = fed[c], ~BlockDoneAll PROVE e \in Delivered(c)'
    BY <1>2, <1>5 DEF WatermarkLag, Delivered
  <1>6. CASE (EmitSend /\ hb # c) \/ EmitFail \/ \E d \in Clients : EmitSwap(d)
    <2>1. sure'[c] = sure[c] /\ fed'[c] = fed[c]
      BY <1>0, <1>6 DEF EmitSend, EmitFail, EmitSwap, SubTypeOK
    <2> QED
      BY <1>3, <1>5, <2>1
  <1> QED
    BY <1>3, <1>4, <1>5, <1>6, HeartbeatActs

\* LatestBlkNum of one heartbeat message covers the events sent up to and with
\* the next, for any number of clients, managers and blocks.
THEOREM WatermarkOneBehind == Spec => []WatermarkLag
  <1>1. Init => BehindInv /\ TakenInv
    BY DEF Init, SvcInit, BehindInv, TakenInv, MonitorFree
  <1>2. Init /\ FullTypeInv => WatermarkLag
    <2> SUFFICES ASSUME Init, FullTypeInv, NEW c \in Clients, NEW e \in Expected(c), e.blk <= sure[c]
                 PROVE  FALSE
      BY DEF WatermarkLag
    <2>1. e.blk \in Nat /\ e.blk > 0
      BY OwedOnChain DEF Expected, FullTypeInv, TypeInv
    <2>2. sure[c] = 0
      BY DEF Init
    <2> QED
      BY <2>1, <2>2
  <1>3. Spec => []BehindInv
    BY <1>1, BehindStep, FullTypeCorrect, NumberCorrect, PTL DEF Spec
  <1>4. Spec => []TakenInv
    BY <1>1, <1>3, TakenStep, FullTypeCorrect, NumberCorrect, StagesCorrect, FeedCorrect,
       NothingFallsThrough, PTL DEF Spec
  <1> QED
    BY <1>2, <1>3, <1>4, LagStep, FullTypeCorrect, NumberCorrect, StagesCorrect, PTL DEF Spec

-----------------------------------------------------------------------------
(***************************************************************************)
(* A client is sent the events of its own manager only.  The queue kept    *)
(* for a manager has logs of that manager; a copy is of the queue that     *)
(* belongs to the client's manager, or of a prefix of it; and a callback   *)
(* is due for logs that match the client's listener.                       *)
(***************************************************************************)
StoredOwn == \A m \in DOMAIN pastStore : Range(pastStore[m]) \subseteq LogOf(m)

OwnInv(c) ==
    /\ Pipe(c) \cup Range(resp[c].past) \subseteq LogOf(em[c])
    /\ "past" \notin got[c] => resp[c].past = <<>>

\* The events on the chain stay there.
LEMMA LogOfStays ==
    ASSUME SvcTypeOK, [SvcNext]_svcVars, NEW m
    PROVE  LogOf(m) \subseteq LogOf(m)'
  <1>1. ASSUME NEW body \in BlockBodies, AppendBlock(body) PROVE LogOf(m) \subseteq LogOf(m)'
    BY <1>1, AppendLogOf
  <1>2. CASE UNCHANGED chain
    BY <1>2 DEF LogOf, OnChain, LogAt
  <1>3. (\E body \in BlockBodies : AppendBlock(body)) \/ UNCHANGED chain
    BY DEF SvcNext, BlockThread, CheckEvents, DeployEventHandler, RegEventHandler, RegEventStore,
       RegEventListen, NotifyPastFind, NotifyPastPush, BlockDone, BlockThrow, GetPastEventsBegin,
       GetPastEventsEnd, svcVars
  <1> QED
    BY <1>1, <1>2, <1>3

\* A log of the block under way is one of the chain.
LEMMA HereLog ==
    ASSUME SvcTypeOK, NEW i \in DOMAIN Body, Body[i].type = "notify"
    PROVE  Here(i) \in LogOf(Body[i].em)
  <1>1. chain # <<>>
    BY DEF Body
  <1>2. Len(chain) \in DOMAIN chain /\ Body = chain[Len(chain)]
    BY <1>1, BodyType DEF SvcTypeOK
  <1>3. Here(i) \in Event /\ Here(i).blk = Len(chain) /\ Here(i).idx = i
    BY LogType DEF Here
  <1> QED
    BY <1>2, <1>3, LogOfType

\* Each step keeps every queue to its own manager.
LEMMA StoredOwnStep == TypeInv /\ StoredOwn /\ [SvcNext]_svcVars => StoredOwn'
  <1> SUFFICES ASSUME TypeInv, StoredOwn, [SvcNext]_svcVars, NEW m \in DOMAIN pastStore'
               PROVE  Range(pastStore'[m]) \subseteq LogOf(m)'
    BY DEF StoredOwn
  <1>0. SvcTypeOK /\ CurOK /\ LogOf(m) \subseteq LogOf(m)'
    BY LogOfStays DEF TypeInv
  <1>1. CASE RegEventStore
    <2>1. (m \in DOMAIN pastStore /\ pastStore'[m] = pastStore[m]) \/ pastStore'[m] = <<>>
      BY <1>1 DEF RegEventStore, Emplace
    <2>2. Range(<<>>) = {}
      BY DEF Range
    <2> QED
      BY <1>0, <2>1, <2>2 DEF StoredOwn
  <1>2. CASE NotifyPastPush
    <2> DEFINE n == Body[cur].em
    <2>1. /\ cur \in DOMAIN Body /\ Body[cur].type = "notify" /\ n \in DOMAIN pastStore
          /\ pastStore' = [pastStore EXCEPT ![n] = Append(@, Here(cur))]
      BY <1>0, <1>2 DEF NotifyPastPush, CurOK, PushBack
    <2>2. Here(cur) \in LogOf(n) /\ Here(cur) \in Event /\ pastStore[n] \in Seq(Event)
      BY <1>0, <2>1, HereLog, LogType DEF SvcTypeOK
    <2> HIDE DEF n
    <2>3. CASE m = n
      <3>1. pastStore'[m] = Append(pastStore[n], Here(cur))
        BY <2>1, <2>3
      <3>2. Range(pastStore'[m]) = Range(pastStore[n]) \cup {Here(cur)}
        BY <2>2, <3>1, RangeAppend
      <3> QED
        BY <1>0, <2>1, <2>2, <2>3, <3>2 DEF StoredOwn
    <2>4. CASE m # n
      BY <1>0, <2>1, <2>4 DEF StoredOwn
    <2> QED
      BY <2>3, <2>4
  <1>3. CASE UNCHANGED pastStore
    BY <1>0, <1>3 DEF StoredOwn
  <1>4. RegEventStore \/ NotifyPastPush \/ UNCHANGED pastStore
    BY DEF SvcNext, BlockThread, AppendBlock, CheckEvents, DeployEventHandler, RegEventHandler,
       RegEventListen, NotifyPastFind, BlockDone, BlockThrow, GetPastEventsBegin, GetPastEventsEnd, svcVars
  <1> QED
    BY <1>1, <1>2, <1>3, <1>4

\* A copy, whole or cut short, has events of the manager it was made for.
LEMMA CopyOwn ==
    ASSUME SvcTypeOK, StoredOwn, NEW events \in CopyResults
    PROVE  Range(events) \subseteq LogOf(copy.em)
  <1> DEFINE q == IF copy.em \in DOMAIN pastStore THEN pastStore[copy.em] ELSE <<>>
  <1>1. q \in Seq(Event) /\ Range(q) \subseteq LogOf(copy.em)
    <2>1. Range(<<>>) = {}
      BY DEF Range
    <2> QED
      BY <2>1 DEF SvcTypeOK, StoredOwn
  <1> HIDE DEF q
  <1>2. \A n \in 0..Len(q) : Range(SubSeq(q, 1, n)) \subseteq Range(q)
    <2> SUFFICES ASSUME NEW n \in 0..Len(q), NEW i \in DOMAIN SubSeq(q, 1, n)
                 PROVE  SubSeq(q, 1, n)[i] \in Range(q)
      BY DEF Range
    <2>1. i \in DOMAIN q /\ SubSeq(q, 1, n)[i] = q[i]
      BY <1>1
    <2> QED
      BY <2>1 DEF Range
  <1>3. CopyResults = IF copy.raced THEN {SubSeq(q, 1, n) : n \in 0..Len(q)} ELSE {q}
    BY DEF CopyResults, q
  <1> QED
    BY <1>1, <1>2, <1>3

\* Each step keeps what goes to a client to its own manager.
LEMMA OwnStep ==
    ASSUME FullTypeInv, FeedInv, Stages, StoredOwn, [Next]_vars, NEW c \in Clients, OwnInv(c)
    PROVE  OwnInv(c)'
  <1>0. SvcTypeOK /\ SubTypeOK /\ RequestOK /\ RequestInv(c) /\ c # NoClient
    BY ClientAssumption DEF FullTypeInv, TypeInv, Stages, Clients
  <1>a. \A m : LogOf(m) \subseteq LogOf(m)'
    BY <1>0, ServiceStepSimulation, LogOfStays
  <1>1. ASSUME em'[c] = em[c], Pipe(c)' \subseteq Pipe(c), resp'[c].past = resp[c].past,
               "past" \in got[c] => "past" \in got'[c]
        PROVE  OwnInv(c)'
    <2>1. (LogOf(em[c]))' = (LogOf(em[c]))' /\ LogOf(em[c]) \subseteq LogOf(em[c])'
      BY <1>1, <1>a DEF LogOf, OnChain, LogAt
    <2> QED
      BY <1>1, <2>1 DEF OwnInv
  <1>2. CASE ServiceStep \/ (\E body \in BlockBodies : BlockAppend(body)) \/ BlockDoneAll \/ BlockThrowAll
    <2>1. UNCHANGED <<em, resp, got, fed, queue, hb, hbOut>>
      BY <1>2 DEF ServiceStep, BlockAppend, BlockDoneAll, BlockThrowAll, subVars
    <2> QED
      BY <1>1, <2>1 DEF Pipe, InFlight
  <1>3. ASSUME NEW d \in Clients, NEW i \in DOMAIN Body, NotifyEventHandler(d, i) PROVE OwnInv(c)'
    <2>1. /\ UNCHANGED <<em, resp, got, fed, hb, hbOut, chain>> /\ <<d, i>> \in subTodo
          /\ queue' = [queue EXCEPT ![d] = Append(@, Here(i))]
      BY <1>3 DEF NotifyEventHandler, SubIsNext, PushBack, svcVars
    <2>2. CASE d # c
      <3>1. queue'[c] = queue[c]
        BY <1>0, <2>1, <2>2 DEF SubTypeOK
      <3> QED
        BY <1>1, <2>1, <3>1 DEF Pipe, InFlight
    <2>3. CASE d = c
      <3>1. Body[i].type = "notify" /\ Body[i].em = em[c]
        BY <2>1, <2>3 DEF FeedInv, SubMatches
      <3>2. Here(i) \in LogOf(em[c]) /\ Here(i) \in Event /\ queue[c] \in Seq(Event)
        BY <1>0, <3>1, HereLog, LogType DEF SubTypeOK
      <3>3. queue'[c] = Append(queue[c], Here(i))
        BY <1>0, <2>1, <2>3 DEF SubTypeOK
      <3>4. Range(queue'[c]) = Range(queue[c]) \cup {Here(i)}
        BY <3>2, <3>3, RangeAppend
      <3>5. Pipe(c)' \subseteq Pipe(c) \cup {Here(i)}
        BY <2>1, <3>4 DEF Pipe, InFlight
      <3>6. LogOf(em[c])' = LogOf(em[c])
        BY <2>1 DEF LogOf, OnChain, LogAt
      <3> QED
        BY <2>1, <3>2, <3>5, <3>6 DEF OwnInv
    <2> QED
      BY <2>2, <2>3
  <1>4. ASSUME NEW d \in Clients, NEW i \in DOMAIN Body, SkipCancelled(d, i) PROVE OwnInv(c)'
    <2>1. UNCHANGED <<em, resp, got, fed, queue, hb, hbOut>>
      BY <1>4 DEF SkipCancelled
    <2> QED
      BY <1>1, <2>1 DEF Pipe, InFlight
  <1>5. ASSUME NEW d \in Clients, NEW p \in Publishers, SubReqLookup(d, p) PROVE OwnInv(c)'
    <2>1. /\ pc[d] = "idle" /\ UNCHANGED <<resp, got, fed, queue, hb, hbOut>>
          /\ d # c => em'[c] = em[c]
      BY <1>0, <1>5 DEF SubReqLookup, SubTypeOK
    <2>2. CASE d # c
      BY <1>1, <2>1, <2>2 DEF Pipe, InFlight
    <2>3. CASE d = c
      <3>1. queue[c] = <<>> /\ fed[c] = <<>> /\ hb # c
        BY <1>0, <2>1, <2>3 DEF FeedInv, RequestOK
      <3>2. resp[c].past = <<>>
        BY <1>0, <2>1, <2>3 DEF OwnInv, RequestInv
      <3>3. Range(<<>>) = {}
        BY DEF Range
      <3>4. Pipe(c)' = {} /\ Range(resp'[c].past) = {} /\ resp'[c].past = <<>>
        BY <2>1, <3>1, <3>2, <3>3 DEF Pipe, InFlight
      <3> QED
        BY <3>4 DEF OwnInv
    <2> QED
      BY <2>2, <2>3
  <1>6. ASSUME NEW d \in Clients, NEW events \in CopyResults, SubReqCopyEnd(d, events) PROVE OwnInv(c)'
    <2>1. /\ pc[d] = "copy" /\ UNCHANGED <<em, fed, queue, hb, hbOut, chain>>
          /\ resp' = [resp EXCEPT ![d].past = events]
          /\ got' = [got EXCEPT ![d] = @ \cup {"past"}]
      BY <1>6 DEF SubReqCopyEnd, GetPastEventsEnd
    <2>2. CASE d # c
      <3>1. resp'[c] = resp[c] /\ got'[c] = got[c]
        BY <1>0, <2>1, <2>2 DEF SubTypeOK
      <3> QED
        BY <1>1, <2>1, <3>1 DEF Pipe, InFlight
    <2>3. CASE d = c
      <3>1. resp'[c].past = events /\ "past" \in got'[c]
        BY <1>0, <2>1, <2>3 DEF SubTypeOK
      <3>2. Range(events) \subseteq LogOf(em[c])
        BY <1>0, <2>1, <2>3, CopyOwn DEF RequestInv
      <3>3. Pipe(c)' = Pipe(c) /\ LogOf(em[c])' = LogOf(em[c])
        BY <2>1 DEF Pipe, InFlight, LogOf, OnChain, LogAt
      <3> QED
        BY <2>1, <3>1, <3>2, <3>3 DEF OwnInv
    <2> QED
      BY <2>2, <2>3
  <1>7. ASSUME NEW d \in Clients, SubReqWork(d), ~\E events \in CopyResults : SubReqCopyEnd(d, events)
        PROVE  OwnInv(c)'
    <2>1. /\ UNCHANGED <<em, fed, queue, hb, hbOut>>
          /\ UNCHANGED <<resp, got>> \/ \E a \in {"sec", "blk"} : SubReqReadMonitor(d, a)
      BY <1>7 DEF SubReqWork, SubReqListen, SubReqReadMonitor, SubReqCopyBegin, SubReqRespond,
         SubReqRespondFail, SubReqAddEmitter
    <2>2. ASSUME NEW a \in {"sec", "blk"}, SubReqReadMonitor(d, a)
          PROVE  resp'[c].past = resp[c].past /\ ("past" \in got[c] => "past" \in got'[c])
      BY <1>0, <2>2 DEF SubReqReadMonitor, SubTypeOK
    <2> QED
      BY <1>1, <2>1, <2>2 DEF Pipe, InFlight
  <1>8. ASSUME NEW d \in Clients, EmitSwap(d) PROVE OwnInv(c)'
    <2>1. /\ UNCHANGED <<em, resp, got, fed>> /\ hb' = d /\ hbOut' = queue[d]
          /\ d # c => queue'[c] = queue[c]
          /\ d = c => queue'[c] = <<>>
      BY <1>0, <1>8 DEF EmitSwap, Taken, Left, SubTypeOK
    <2>2. Range(<<>>) = {}
      BY DEF Range
    <2>3. Pipe(c)' \subseteq Pipe(c)
      BY <2>1, <2>2 DEF Pipe, InFlight
    <2> QED
      BY <1>1, <2>1, <2>3
  <1>9. CASE EmitSend
    <2>1. /\ hb \in Clients /\ UNCHANGED <<em, resp, got, queue>> /\ hb' = NoClient
          /\ hb # c => fed'[c] = fed[c]
          /\ hb = c => fed'[c] = fed[c] \o hbOut
      BY <1>0, <1>9 DEF EmitSend, HeartbeatFree, SubTypeOK
    <2>2. hb = c => \A x \in Range(fed[c] \o hbOut) : x \in Range(fed[c]) \/ x \in Range(hbOut)
      BY <1>0, <2>1, RangeConcat DEF SubTypeOK
    <2>3. Pipe(c)' \subseteq Pipe(c)
      BY <1>0, <2>1, <2>2 DEF Pipe, InFlight
    <2> QED
      BY <1>1, <2>1, <2>3
  <1>10. CASE EmitFail \/ \E a \in {"sec", "blk"} : EmitRead(a)
    <2>1. /\ UNCHANGED <<em, resp, got, fed, queue>>
          /\ hb' = NoClient \/ UNCHANGED <<hb, hbOut>>
      BY <1>10 DEF EmitFail, EmitRead, HeartbeatFree
    <2>2. Pipe(c)' \subseteq Pipe(c)
      BY <1>0, <2>1 DEF Pipe, InFlight
    <2> QED
      BY <1>1, <2>1, <2>2
  <1>11. CASE Terminated \/ UNCHANGED vars
    BY <1>1, <1>11 DEF Terminated, vars, subVars, Pipe, InFlight
  <1> QED
    BY <1>2, <1>3, <1>4, <1>5, <1>6, <1>7, <1>8, <1>9, <1>10, <1>11 DEF Next, BlockWork, EmitWork

\* Nothing else than events of its manager that are on the chain is sent to a
\* client or on the way to it, and that stays so when requests fail, copies
\* race and managers are registered again.
OnlyOwn == \A c \in Clients : OwnInv(c)

THEOREM OwnEventsOnly == Spec => []OnlyOwn
  <1>1. Init => StoredOwn /\ OnlyOwn
    <2> SUFFICES ASSUME Init PROVE StoredOwn /\ OnlyOwn
      OBVIOUS
    <2>1. Range(<<>>) = {}
      BY DEF Range
    <2> QED
      BY <2>1, ClientAssumption DEF Init, SvcInit, StoredOwn, OnlyOwn, OwnInv, Pipe, InFlight
  <1>2. FullTypeInv /\ StoredOwn /\ [Next]_vars => StoredOwn'
    BY ServiceStepSimulation, StoredOwnStep DEF FullTypeInv
  <1>3. FullTypeInv /\ FeedInv /\ Stages /\ StoredOwn /\ OnlyOwn /\ [Next]_vars => OnlyOwn'
    BY OwnStep DEF OnlyOwn
  <1> QED
    BY <1>1, <1>2, <1>3, FullTypeCorrect, FeedCorrect, StagesCorrect, PTL DEF Spec
=============================================================================
