---------------------- MODULE SubscriberServiceProofs ----------------------
(***************************************************************************)
(* Type correctness of SubscriberService, PastComplete, AddrLatest and     *)
(* PastOrdered, for every set of publishers, managers, readers and block   *)
(* bodies and every bound.                                                 *)
(***************************************************************************)
EXTENDS SubscriberService, TLAPS, FiniteSetTheorems

\* Appending adds one element to the range of a sequence.
LEMMA RangeAppend ==
    ASSUME NEW S, NEW s \in Seq(S), NEW x \in S
    PROVE  Range(Append(s, x)) = Range(s) \cup {x}
  <1>1. /\ DOMAIN s = 1..Len(s) /\ Len(s) \in Nat
        /\ DOMAIN Append(s, x) = 1..(Len(s) + 1)
        /\ \A i \in 1..Len(s) : Append(s, x)[i] = s[i]
        /\ Append(s, x)[Len(s) + 1] = x
    OBVIOUS
  <1> QED
    BY <1>1, 1..(Len(s) + 1) = 1..Len(s) \cup {Len(s) + 1} DEF Range

\* The block under way is one of the bodies, or empty before the first.
LEMMA BodyType ==
    ASSUME SvcTypeOK
    PROVE  /\ Body \in Seq(Log)
           /\ Len(chain) \in Nat
           /\ chain # <<>> => Len(chain) \in 1..Len(chain) /\ Body = chain[Len(chain)]
    BY BodiesAssumption DEF SvcTypeOK, Body

\* A log of the block under way names managers and publishers of the model.
LEMMA LogType ==
    ASSUME SvcTypeOK, NEW i \in DOMAIN Body
    PROVE  /\ Body[i] \in Log
           /\ Body[i].type = "reg" => Body[i].pub \in Publishers /\ Body[i].em \in EvMgrs
           /\ Body[i].type = "notify" => Body[i].em \in EvMgrs
           /\ i \in Nat
           /\ Here(i) \in Event
  <1>1. Body[i] \in Log /\ i \in Nat
    BY BodyType
  <1>2. Here(i) \in Event
    BY <1>1, BodyType DEF Here, Event
  <1> QED
    BY <1>1, <1>2 DEF Log, DeployLogs, RegLogs, NotifyLogs

\* Types alone are not inductive: the handlers index the block by cur, and
\* todo holds callbacks for logs of this block only.
CurOK ==
    /\ blkPc \in {"regStore", "regListen"} => cur \in DOMAIN Body /\ Body[cur].type = "reg"
    /\ blkPc = "push" => /\ cur \in DOMAIN Body
                         /\ Body[cur].type = "notify"
                         /\ Body[cur].em \in DOMAIN pastStore

TodoOK ==
    /\ \A c \in todo : c[2] \in DOMAIN Body /\ Matches(c[1], Body[c[2]])
    /\ blkPc \in {"idle", "fetch", "stopped"} => todo = {}

TypeInv == SvcTypeOK /\ CurOK /\ TodoOK

\* The start is well typed.
LEMMA TypeInit == SvcInit => TypeInv
  <1> SUFFICES ASSUME SvcInit PROVE TypeInv
    OBVIOUS
  <1>1. SvcTypeOK
    <2>1. listeners \subseteq Listener
      BY DEF SvcInit, Listener, DeployListener
    <2>2. DOMAIN pastStore \subseteq EvMgrs /\ pastStore \in [DOMAIN pastStore -> Seq(Event)]
      BY DEF SvcInit
    <2>3. copy \in [by: Readers \cup {NoReader}, em: EvMgrs \cup {NoAddr}, raced: BOOLEAN]
      BY DEF SvcInit, NoCopy
    <2>4. chain \in Seq(BlockBodies)
      BY DEF SvcInit
    <2> QED
      BY <2>1, <2>2, <2>3, <2>4 DEF SvcInit, SvcTypeOK
  <1> QED
    BY <1>1 DEF SvcInit, TypeInv, CurOK, TodoOK

\* Each step keeps the types.
LEMMA TypeStep == TypeInv /\ [SvcNext]_svcVars => TypeInv'
  <1> SUFFICES ASSUME TypeInv, [SvcNext]_svcVars PROVE TypeInv'
    OBVIOUS
  <1> USE DEF TypeInv
  <1>0. SvcTypeOK
    OBVIOUS
  <1>1. ASSUME NEW body \in BlockBodies, AppendBlock(body) PROVE TypeInv'
    <2>1. SvcTypeOK'
      BY <1>1 DEF AppendBlock, NextNumber, SvcTypeOK
    <2> QED
      BY <1>1, <2>1 DEF AppendBlock, CurOK, TodoOK
  <1>2. CASE CheckEvents
    <2>1. todo' \subseteq Listener \X Nat
      BY <1>0, <1>2, BodyType DEF CheckEvents, SvcTypeOK
    <2>2. SvcTypeOK'
      BY <1>2, <2>1 DEF CheckEvents, SvcTypeOK
    <2>3. Body' = Body
      BY <1>2 DEF CheckEvents, Body
    <2>4. TodoOK'
      BY <1>2, <2>3 DEF CheckEvents, TodoOK, Matches
    <2> QED
      BY <1>2, <2>2, <2>3, <2>4 DEF CheckEvents, CurOK
  <1>3. ASSUME NEW i \in DOMAIN Body, NEW k \in 0..Len(Body), DeployEventHandler(i, k)
        PROVE  TypeInv'
    <2>1. Body' = Body
      BY <1>3 DEF DeployEventHandler, Body
    <2>2. RegListener \in Listener
      BY DEF Listener
    <2>3. JoinFrom(RegListener, k) \subseteq Listener \X Nat
      BY <1>0, <2>2, BodyType DEF JoinFrom
    <2>4. SvcTypeOK'
      BY <1>3, <2>2, <2>3 DEF DeployEventHandler, AfterDeploy, SvcTypeOK
    <2>5. TodoOK'
      BY <1>3, <2>1 DEF DeployEventHandler, TodoOK, JoinFrom
    <2> QED
      BY <1>3, <2>1, <2>4, <2>5 DEF DeployEventHandler, CurOK
  <1>4. ASSUME NEW i \in DOMAIN Body, RegEventHandler(i) PROVE TypeInv'
    <2>1. Body' = Body
      BY <1>4 DEF RegEventHandler, Body
    <2>2. Body[i].type = "reg"
      BY <1>4 DEF RegEventHandler, IsNext, TodoOK, Matches, RegListener
    <2>3. Body[i].pub \in Publishers /\ Body[i].em \in EvMgrs /\ i \in Nat
      BY <1>0, <2>2, LogType
    <2>4. SvcTypeOK'
      BY <1>4, <2>3 DEF RegEventHandler, Address, SvcTypeOK
    <2>5. TodoOK'
      BY <1>4, <2>1 DEF RegEventHandler, TodoOK
    <2> QED
      BY <1>4, <2>1, <2>2, <2>4, <2>5 DEF RegEventHandler, CurOK
  <1>5. CASE RegEventStore
    <2>1. Body' = Body
      BY <1>5 DEF RegEventStore, Body
    <2>2. Body[cur].em \in EvMgrs
      BY <1>0, <1>5, LogType DEF RegEventStore, CurOK
    <2>3. DOMAIN pastStore' \subseteq EvMgrs /\ pastStore' \in [DOMAIN pastStore' -> Seq(Event)]
      BY <1>5, <2>2 DEF RegEventStore, Emplace, SvcTypeOK
    <2>4. SvcTypeOK'
      BY <1>5, <2>3 DEF RegEventStore, SvcTypeOK
    <2> QED
      BY <1>5, <2>1, <2>4 DEF RegEventStore, CurOK, TodoOK
  <1>6. ASSUME NEW k \in 0..Len(Body), RegEventListen(k) PROVE TypeInv'
    <2> DEFINE l == PastListener(Body[cur].em, Here(cur))
    <2>1. Body' = Body
      BY <1>6 DEF RegEventListen, Body
    <2>2. Body[cur].em \in EvMgrs /\ Here(cur) \in Event
      BY <1>0, <1>6, LogType DEF RegEventListen, CurOK
    <2>3. l \in Listener
      BY <2>2 DEF Listener, PastListener
    <2>4. JoinFrom(l, k) \subseteq Listener \X Nat
      BY <1>0, <2>3, BodyType DEF JoinFrom
    <2>5. SvcTypeOK'
      BY <1>6, <2>3, <2>4 DEF RegEventListen, SvcTypeOK
    <2>6. TodoOK'
      BY <1>6, <2>1 DEF RegEventListen, TodoOK, JoinFrom
    <2> QED
      BY <1>6, <2>1, <2>5, <2>6 DEF RegEventListen, CurOK
  <1>7. ASSUME NEW l \in listeners, NEW i \in DOMAIN Body, NotifyPastFind(l, i) PROVE TypeInv'
    <2>1. Body' = Body
      BY <1>7 DEF NotifyPastFind, Body
    <2>2. Body[i].type = "notify" /\ i \in Nat
      BY <1>0, <1>7, LogType DEF NotifyPastFind, IsNext, TodoOK, Matches
    <2>3. SvcTypeOK'
      BY <1>7, <2>2 DEF NotifyPastFind, SvcTypeOK
    <2>4. TodoOK'
      BY <1>7, <2>1 DEF NotifyPastFind, TodoOK
    <2> QED
      BY <1>7, <2>1, <2>2, <2>3, <2>4 DEF NotifyPastFind, CurOK
  <1>8. CASE NotifyPastPush
    <2>1. Body' = Body
      BY <1>8 DEF NotifyPastPush, Body
    <2>2. Here(cur) \in Event
      BY <1>0, <1>8, LogType DEF NotifyPastPush, CurOK
    <2> DEFINE m == Body[cur].em
    <2>3. DOMAIN pastStore' \subseteq EvMgrs /\ pastStore' \in [DOMAIN pastStore' -> Seq(Event)]
      <3>1. m \in DOMAIN pastStore
        BY <1>8 DEF NotifyPastPush, CurOK
      <3>2. pastStore[m] \in Seq(Event)
        BY <3>1 DEF SvcTypeOK
      <3>3. Append(pastStore[m], Here(cur)) \in Seq(Event)
        BY <2>2, <3>2
      <3>4. pastStore' = [pastStore EXCEPT ![m] = Append(pastStore[m], Here(cur))]
        BY <1>8 DEF NotifyPastPush, PushBack
      <3> QED
        BY <3>1, <3>3, <3>4 DEF SvcTypeOK
    <2>4. copy' \in [by: Readers \cup {NoReader}, em: EvMgrs \cup {NoAddr}, raced: BOOLEAN]
      BY <1>8 DEF NotifyPastPush, SvcTypeOK
    <2>5. SvcTypeOK'
      BY <1>8, <2>3, <2>4 DEF NotifyPastPush, SvcTypeOK
    <2> QED
      BY <1>8, <2>1, <2>5 DEF NotifyPastPush, CurOK, TodoOK
  <1>9. CASE BlockDone
    BY <1>9 DEF BlockDone, SvcTypeOK, CurOK, TodoOK, Body
  <1>10. CASE BlockThrow
    BY <1>10 DEF BlockThrow, SvcTypeOK, CurOK, TodoOK, Body
  <1>11. ASSUME NEW r \in Readers, NEW m \in EvMgrs, GetPastEventsBegin(r, m) PROVE TypeInv'
    <2>1. SvcTypeOK'
      BY <1>11 DEF GetPastEventsBegin, SvcTypeOK
    <2> QED
      BY <1>11, <2>1 DEF GetPastEventsBegin, CurOK, TodoOK, Body
  <1>12. ASSUME NEW r \in Readers, GetPastEventsEnd(r) PROVE TypeInv'
    <2>1. SvcTypeOK'
      BY <1>12 DEF GetPastEventsEnd, SvcTypeOK, NoCopy
    <2> QED
      BY <1>12, <2>1 DEF GetPastEventsEnd, CurOK, TodoOK, Body
  <1>13. CASE UNCHANGED svcVars
    BY <1>13 DEF svcVars, SvcTypeOK, CurOK, TodoOK, Body
  <1> QED
    BY <1>1, <1>2, <1>3, <1>4, <1>5, <1>6, <1>7, <1>8, <1>9, <1>10, <1>11, <1>12, <1>13
    DEF SvcNext, BlockThread

\* The invariant holds throughout.
LEMMA TypeAlways == SvcSpec => []TypeInv
  BY TypeInit, TypeStep, PTL DEF SvcSpec

\* Every variable of SubscriberService keeps its type (the stores hold events,
\* the map known addresses), whatever the chain carries.
THEOREM SvcTypeCorrect == SvcSpec => []SvcTypeOK
  BY TypeAlways, PTL DEF TypeInv

-----------------------------------------------------------------------------
(***************************************************************************)
(* PastComplete.  The argument follows an event back through the listeners *)
(* that must be there for it: a handled deployment leaves the registration *)
(* listener behind, a handled registration leaves a queue and a listener   *)
(* for its manager, and each handled event went through that listener into *)
(* the queue.  For the block under check each of the three says what is    *)
(* still to run instead.                                                   *)
(***************************************************************************)
IsLog(e, type) ==
    /\ e.blk \in DOMAIN chain
    /\ e.idx \in DOMAIN chain[e.blk]
    /\ LogAt(e).type = type

UnderCheck == blkPc \in {"check", "regStore", "regListen", "push"}

DeployInv ==
    /\ DeployedOnce(chain)
    /\ \A d \in Event : IsLog(d, "deploy") =>
        /\ d.blk <= Done => RegListener \in listeners
        /\ UnderCheck /\ d.blk = Len(chain) =>
            RegListener \in listeners \/ <<DeployListener, d.idx>> \in todo
    /\ DeployListener \notin listeners => \E d \in Event :
        IsLog(d, "deploy") /\ (blkPc = "fetch" => d.blk < Len(chain))

\* A registration the service must hear of, and that it has.
Due(r) == IsLog(r, "reg") /\ \E d \in Event : IsLog(d, "deploy") /\ d.blk < r.blk

Known(r) ==
    /\ LogAt(r).em \in DOMAIN pastStore
    /\ PastListener(LogAt(r).em, r) \in listeners

RegInv ==
    /\ \A r \in Event : Due(r) =>
        /\ r.blk <= Done => Known(r)
        /\ UnderCheck /\ r.blk = Len(chain) =>
            \/ Known(r)
            \/ <<RegListener, r.idx>> \in todo
            \/ blkPc \in {"regStore", "regListen"} /\ cur = r.idx
    /\ blkPc = "regListen" => Body[cur].em \in DOMAIN pastStore

\* An event that registration r makes due, and that is in the store.
Follows(e, r) ==
    Due(r) /\ IsLog(e, "notify") /\ LogAt(e).em = LogAt(r).em /\ r.blk < e.blk

Stored(e) == LogAt(e).em \in DOMAIN pastStore /\ e \in Range(pastStore[LogAt(e).em])

EventInv ==
    \A e, r \in Event : Follows(e, r) =>
        /\ e.blk <= Done => Stored(e)
        /\ UnderCheck /\ e.blk = Len(chain) =>
            \/ Stored(e)
            \/ <<PastListener(LogAt(r).em, r), e.idx>> \in todo
            \/ blkPc = "push" /\ cur = e.idx

CompleteInv == TypeInv /\ DeployInv /\ RegInv /\ EventInv

\* The start satisfies all stages of the invariant.
LEMMA CompleteInit == SvcInit => CompleteInv
  <1> SUFFICES ASSUME SvcInit PROVE CompleteInv
    OBVIOUS
  <1>1. TypeInv
    BY TypeInit
  <1>2. DOMAIN chain = {}
    BY DEF SvcInit
  <1>3. \A e, t : ~IsLog(e, t)
    BY <1>2 DEF IsLog
  <1>4. DeployedOnce(chain)
    BY <1>2 DEF DeployedOnce
  <1> QED
    BY <1>1, <1>3, <1>4 DEF SvcInit, CompleteInv, DeployInv, RegInv, EventInv, Due, Follows

\* Appending a block changes no log of the blocks before it.
LEMMA AppendLogs ==
    ASSUME SvcTypeOK, NEW body \in BlockBodies, AppendBlock(body)
    PROVE  /\ chain' = Append(chain, body)
           /\ Len(chain') = Len(chain) + 1
           /\ DOMAIN chain' = 1..(Len(chain) + 1)
           /\ \A n \in DOMAIN chain : n \in DOMAIN chain' /\ chain'[n] = chain[n]
           /\ Done = Len(chain) /\ Done' = Len(chain)
           /\ Len(chain) \in Nat /\ DOMAIN chain = 1..Len(chain)
    BY DEF SvcTypeOK, AppendBlock, Done

\* While the chain stays, so do its logs and the block under way.
LEMMA SameLogs ==
    ASSUME chain' = chain
    PROVE  /\ \A e, t : IsLog(e, t)' <=> IsLog(e, t)
           /\ \A e : LogAt(e)' = LogAt(e)
           /\ \A r : Due(r)' <=> Due(r)
           /\ \A e, r : Follows(e, r)' <=> Follows(e, r)
           /\ DeployedOnce(chain)' <=> DeployedOnce(chain)
           /\ Body' = Body
  <1>1. /\ \A e, t : IsLog(e, t)' <=> IsLog(e, t)
        /\ \A e : LogAt(e)' = LogAt(e)
    BY DEF IsLog, LogAt
  <1>2. \A r : Due(r)' <=> Due(r)
    BY <1>1 DEF Due
  <1>3. \A e, r : Follows(e, r)' <=> Follows(e, r)
    BY <1>1, <1>2 DEF Follows
  <1> QED
    BY <1>1, <1>2, <1>3 DEF DeployedOnce, Body

\* The three kinds of listeners differ.
LEMMA Kinds ==
    /\ DeployListener # RegListener
    /\ \A m, at : PastListener(m, at) # DeployListener /\ PastListener(m, at) # RegListener
  BY DEF DeployListener, RegListener, PastListener

\* A log of the last block is one of Body.
LEMMA LastBlock ==
    ASSUME SvcTypeOK, NEW e \in Event, NEW t, IsLog(e, t), e.blk = Len(chain)
    PROVE  e.idx \in DOMAIN Body /\ LogAt(e) = Body[e.idx] /\ e = Here(e.idx)
  <1>1. Body = chain[e.blk]
    BY DEF IsLog, Body
  <1> QED
    BY <1>1 DEF IsLog, LogAt, Event, Here

\* While a block is under way its logs are the only ones not yet handled.
LEMMA DoneOrLast ==
    ASSUME SvcTypeOK, NEW e \in Event, NEW t, IsLog(e, t)
    PROVE  e.blk <= Done \/ e.blk = Len(chain)
  BY DEF IsLog, Done, SvcTypeOK, Event

\* Giving up handles no block.
LEMMA ThrowDone ==
    ASSUME SvcTypeOK, BlockThrow
    PROVE  \A d \in Event : d.blk <= Done' => d.blk <= Done
  <1>1. Done' <= Done /\ Done \in Int /\ Done' \in Int
    BY DEF Done, SvcTypeOK, BlockThrow
  <1> QED
    BY <1>1 DEF Event

\* Steps that take nothing from the deployment: the deploy callbacks and the
\* two listeners are as before.
LEMMA DeployQuiet ==
    ASSUME DeployInv, chain' = chain,
           blkPc' = blkPc \/ (UnderCheck /\ UnderCheck'),
           RegListener \in listeners => RegListener \in listeners',
           DeployListener \in listeners => DeployListener \in listeners',
           \A i : <<DeployListener, i>> \in todo => <<DeployListener, i>> \in todo'
    PROVE  DeployInv'
  <1>1. Done' = Done /\ (blkPc' = "fetch" <=> blkPc = "fetch") /\ (UnderCheck' <=> UnderCheck)
    BY DEF Done, UnderCheck
  <1> QED
    BY <1>1, SameLogs DEF DeployInv

\* Each step keeps the stage of the deployment.
LEMMA DeployStep == CompleteInv /\ [SvcNext]_svcVars => DeployInv'
  <1> SUFFICES ASSUME CompleteInv, [SvcNext]_svcVars PROVE DeployInv'
    OBVIOUS
  <1>0. TypeInv /\ SvcTypeOK /\ DeployInv
    BY DEF CompleteInv, TypeInv
  <1>1. ASSUME NEW body \in BlockBodies, AppendBlock(body) PROVE DeployInv'
    <2>1. ASSUME NEW d \in Event, IsLog(d, "deploy")', d.blk <= Len(chain)
          PROVE  IsLog(d, "deploy")
      BY <1>0, <1>1, <2>1, AppendLogs DEF IsLog, LogAt, Event
    <2>2. ASSUME NEW d \in Event, IsLog(d, "deploy") PROVE IsLog(d, "deploy")' /\ d.blk < Len(chain')
      BY <1>0, <1>1, <2>2, AppendLogs DEF IsLog, LogAt, Event
    <2>3. DeployedOnce(chain)'
      BY <1>1 DEF AppendBlock, DeployedOnce
    <2>4. blkPc = "idle" /\ blkPc' = "fetch" /\ listeners' = listeners /\ Done = Len(chain) /\ Done' = Len(chain)
      BY <1>0, <1>1, AppendLogs DEF AppendBlock
    <2> QED
      BY <1>0, <2>1, <2>2, <2>3, <2>4 DEF DeployInv, UnderCheck
  <1>2. CASE CheckEvents
    <2>1. chain' = chain /\ listeners' = listeners /\ blkPc = "fetch" /\ blkPc' = "check"
      BY <1>2 DEF CheckEvents
    <2>2. Done' = Done /\ Len(chain)' = Len(chain)
      BY <2>1 DEF Done
    <2>3. ASSUME NEW d \in Event, IsLog(d, "deploy"), d.blk = Len(chain)
          PROVE  <<DeployListener, d.idx>> \in todo'
      <3>1. DeployListener \in listeners
        <4> SUFFICES ASSUME DeployListener \notin listeners PROVE FALSE
          OBVIOUS
        <4>1. PICK f \in Event : IsLog(f, "deploy") /\ f.blk < Len(chain)
          BY <1>0, <2>1 DEF DeployInv
        <4> QED
          BY <1>0, <2>3, <4>1 DEF DeployInv, DeployedOnce, IsLog, LogAt, Event
      <3>2. Body[d.idx].type = "deploy" /\ d.idx \in DOMAIN Body
        BY <1>0, <2>3, LastBlock DEF IsLog
      <3> QED
        BY <1>2, <3>1, <3>2 DEF CheckEvents, Matches, DeployListener
    <2> QED
      BY <1>0, <2>1, <2>2, <2>3, SameLogs DEF DeployInv, UnderCheck
  <1>3. ASSUME NEW i \in DOMAIN Body, NEW k \in 0..Len(Body), DeployEventHandler(i, k)
        PROVE  DeployInv'
    <2>1. Body[i].type = "deploy"
      BY <1>0, <1>3 DEF DeployEventHandler, IsNext, TypeInv, TodoOK, Matches, DeployListener
    <2>2. chain # <<>>
      BY <1>3 DEF Body
    <2>3. Here(i) \in Event /\ IsLog(Here(i), "deploy")
      BY <1>0, <2>1, <2>2, BodyType, LogType DEF IsLog, LogAt, Here
    <2>4. chain' = chain /\ blkPc' = "check" /\ RegListener \in listeners'
      BY <1>3 DEF DeployEventHandler, AfterDeploy
    <2> QED
      BY <1>0, <2>3, <2>4, SameLogs DEF DeployInv
  <1>4. ASSUME NEW i \in DOMAIN Body, RegEventHandler(i) PROVE DeployInv'
    BY <1>0, <1>4, DeployQuiet, Kinds DEF RegEventHandler, UnderCheck
  <1>5. CASE RegEventStore
    BY <1>0, <1>5, DeployQuiet DEF RegEventStore, UnderCheck
  <1>6. ASSUME NEW k \in 0..Len(Body), RegEventListen(k) PROVE DeployInv'
    BY <1>0, <1>6, DeployQuiet DEF RegEventListen, UnderCheck
  <1>7. ASSUME NEW l \in listeners, NEW i \in DOMAIN Body, NotifyPastFind(l, i) PROVE DeployInv'
    <2>1. l # DeployListener
      BY <1>7 DEF NotifyPastFind, DeployListener
    <2> QED
      BY <1>0, <1>7, <2>1, DeployQuiet DEF NotifyPastFind, UnderCheck
  <1>8. CASE NotifyPastPush
    BY <1>0, <1>8, DeployQuiet DEF NotifyPastPush, UnderCheck
  <1>9. CASE BlockDone
    <2>1. chain' = chain /\ listeners' = listeners /\ todo = {} /\ UnderCheck /\ blkPc' = "idle"
      BY <1>9 DEF BlockDone, UnderCheck
    <2>2. \A d \in Event : IsLog(d, "deploy") => d.blk <= Done \/ d.blk = Len(chain)
      BY <1>0, <2>1, DoneOrLast
    <2> QED
      BY <1>0, <2>1, <2>2, SameLogs DEF DeployInv, UnderCheck
  <1>10. CASE BlockThrow
    <2>1. chain' = chain /\ listeners' = listeners /\ blkPc' = "stopped"
      BY <1>10 DEF BlockThrow
    <2>2. \A d \in Event : d.blk <= Done' => d.blk <= Done
      BY <1>0, <1>10, ThrowDone
    <2> QED
      BY <1>0, <2>1, <2>2, SameLogs DEF DeployInv, UnderCheck
  <1>11. ASSUME NEW r \in Readers, NEW m \in EvMgrs, GetPastEventsBegin(r, m) PROVE DeployInv'
    BY <1>0, <1>11, DeployQuiet DEF GetPastEventsBegin
  <1>12. ASSUME NEW r \in Readers, GetPastEventsEnd(r) PROVE DeployInv'
    BY <1>0, <1>12, DeployQuiet DEF GetPastEventsEnd
  <1>13. CASE UNCHANGED svcVars
    BY <1>0, <1>13, DeployQuiet DEF svcVars
  <1> QED
    BY <1>1, <1>2, <1>3, <1>4, <1>5, <1>6, <1>7, <1>8, <1>9, <1>10, <1>11, <1>12, <1>13
    DEF SvcNext, BlockThread

\* Steps that take nothing from the registrations.
LEMMA RegQuiet ==
    ASSUME RegInv, chain' = chain,
           blkPc' = blkPc \/ (UnderCheck /\ UnderCheck'),
           DOMAIN pastStore \subseteq DOMAIN pastStore',
           \A m, at : PastListener(m, at) \in listeners => PastListener(m, at) \in listeners',
           \A i : <<RegListener, i>> \in todo => <<RegListener, i>> \in todo',
           blkPc \in {"regStore", "regListen"} =>
               blkPc' \in {"regStore", "regListen"} /\ cur' = cur,
           blkPc' = "regListen" => Body[cur'].em \in DOMAIN pastStore'
    PROVE  RegInv'
  <1>1. Done' = Done /\ (UnderCheck' <=> UnderCheck) /\ Body' = Body
    BY SameLogs DEF Done, UnderCheck
  <1>2. \A r : Known(r) => Known(r)'
    BY SameLogs DEF Known
  <1> QED
    BY <1>1, <1>2, SameLogs DEF RegInv

\* Each step keeps the stage of the registrations.
LEMMA RegStep == CompleteInv /\ [SvcNext]_svcVars => RegInv'
  <1> SUFFICES ASSUME CompleteInv, [SvcNext]_svcVars PROVE RegInv'
    OBVIOUS
  <1>0. TypeInv /\ SvcTypeOK /\ DeployInv /\ RegInv
    BY DEF CompleteInv, TypeInv
  <1>1. ASSUME NEW body \in BlockBodies, AppendBlock(body) PROVE RegInv'
    <2>1. ASSUME NEW r \in Event, Due(r)', r.blk <= Len(chain)
          PROVE  Due(r) /\ LogAt(r)' = LogAt(r)
      BY <1>0, <1>1, <2>1, AppendLogs DEF Due, IsLog, LogAt, Event
    <2>2. blkPc = "idle" /\ blkPc' = "fetch" /\ listeners' = listeners /\ pastStore' = pastStore
      BY <1>1 DEF AppendBlock
    <2>3. Done = Len(chain) /\ Done' = Len(chain)
      BY <1>0, <1>1, AppendLogs
    <2> QED
      BY <1>0, <2>1, <2>2, <2>3 DEF RegInv, Known, UnderCheck
  <1>2. CASE CheckEvents
    <2>1. /\ chain' = chain /\ listeners' = listeners /\ pastStore' = pastStore
          /\ blkPc = "fetch" /\ blkPc' = "check"
      BY <1>2 DEF CheckEvents
    <2>2. Done' = Done /\ Len(chain)' = Len(chain)
      BY <2>1 DEF Done
    <2>3. ASSUME NEW r \in Event, Due(r), r.blk = Len(chain)
          PROVE  <<RegListener, r.idx>> \in todo'
      <3>1. PICK d \in Event : IsLog(d, "deploy") /\ d.blk < r.blk
        BY <2>3 DEF Due
      <3>2. d.blk <= Done
        BY <1>0, <2>3, <3>1, DoneOrLast DEF Event
      <3>3. RegListener \in listeners
        BY <1>0, <3>1, <3>2 DEF DeployInv
      <3>4. r.idx \in DOMAIN Body /\ Body[r.idx].type = "reg"
        BY <1>0, <2>3, LastBlock DEF Due, IsLog
      <3> QED
        BY <1>2, <3>3, <3>4 DEF CheckEvents, Matches, RegListener
    <2>4. \A r : Known(r)' <=> Known(r)
      BY <2>1, SameLogs DEF Known
    <2> QED
      BY <1>0, <2>1, <2>2, <2>3, <2>4, SameLogs DEF RegInv
  <1>3. ASSUME NEW i \in DOMAIN Body, NEW k \in 0..Len(Body), DeployEventHandler(i, k)
        PROVE  RegInv'
    BY <1>0, <1>3, RegQuiet, Kinds DEF DeployEventHandler, AfterDeploy
  <1>4. ASSUME NEW i \in DOMAIN Body, RegEventHandler(i) PROVE RegInv'
    <2>1. /\ chain' = chain /\ listeners' = listeners /\ pastStore' = pastStore
          /\ blkPc = "check" /\ blkPc' = "regStore" /\ cur' = i
          /\ \A j : j # i /\ <<RegListener, j>> \in todo => <<RegListener, j>> \in todo'
      BY <1>4 DEF RegEventHandler
    <2>2. Done' = Done /\ UnderCheck /\ UnderCheck' /\ Len(chain)' = Len(chain)
      BY <2>1 DEF Done, UnderCheck
    <2>3. \A r : Known(r)' <=> Known(r)
      BY <2>1, SameLogs DEF Known
    <2> QED
      BY <1>0, <2>1, <2>2, <2>3, SameLogs DEF RegInv
  <1>5. CASE RegEventStore
    <2>1. DOMAIN pastStore' = DOMAIN pastStore \cup {Body[cur].em}
      BY <1>5 DEF RegEventStore, Emplace
    <2> QED
      BY <1>0, <1>5, <2>1, RegQuiet DEF RegEventStore, UnderCheck
  <1>6. ASSUME NEW k \in 0..Len(Body), RegEventListen(k) PROVE RegInv'
    <2>1. /\ chain' = chain /\ pastStore' = pastStore /\ todo \subseteq todo'
          /\ listeners' = listeners \cup {PastListener(Body[cur].em, Here(cur))}
          /\ blkPc = "regListen" /\ blkPc' = "check"
      BY <1>6 DEF RegEventListen
    <2>2. Done' = Done /\ UnderCheck /\ UnderCheck' /\ Len(chain)' = Len(chain)
      BY <2>1 DEF Done, UnderCheck
    <2>3. \A r : Known(r) => Known(r)'
      BY <2>1, SameLogs DEF Known
    <2>4. ASSUME NEW r \in Event, Due(r), r.blk = Len(chain), r.idx = cur PROVE Known(r)'
      <3>1. LogAt(r) = Body[cur] /\ r = Here(cur)
        BY <1>0, <2>4, LastBlock DEF Due
      <3> QED
        BY <1>0, <2>1, <3>1, SameLogs DEF Known, RegInv
    <2> QED
      BY <1>0, <2>1, <2>2, <2>3, <2>4, SameLogs DEF RegInv
  <1>7. ASSUME NEW l \in listeners, NEW i \in DOMAIN Body, NotifyPastFind(l, i) PROVE RegInv'
    <2>1. l # RegListener
      BY <1>7 DEF NotifyPastFind, RegListener
    <2> QED
      BY <1>0, <1>7, <2>1, RegQuiet DEF NotifyPastFind, UnderCheck
  <1>8. CASE NotifyPastPush
    BY <1>0, <1>8, RegQuiet DEF NotifyPastPush, UnderCheck
  <1>9. CASE BlockDone
    <2>1. /\ chain' = chain /\ listeners' = listeners /\ pastStore' = pastStore
          /\ todo = {} /\ blkPc = "check" /\ blkPc' = "idle"
      BY <1>9 DEF BlockDone
    <2>2. \A r \in Event : Due(r) => r.blk <= Done \/ r.blk = Len(chain)
      BY <1>0, DoneOrLast DEF Due
    <2>3. \A r : Known(r)' <=> Known(r)
      BY <2>1, SameLogs DEF Known
    <2> QED
      BY <1>0, <2>1, <2>2, <2>3, SameLogs DEF RegInv, UnderCheck
  <1>10. CASE BlockThrow
    <2>1. chain' = chain /\ listeners' = listeners /\ pastStore' = pastStore /\ blkPc' = "stopped"
      BY <1>10 DEF BlockThrow
    <2>2. \A d \in Event : d.blk <= Done' => d.blk <= Done
      BY <1>0, <1>10, ThrowDone
    <2>3. \A r : Known(r)' <=> Known(r)
      BY <2>1, SameLogs DEF Known
    <2> QED
      BY <1>0, <2>1, <2>2, <2>3, SameLogs DEF RegInv, UnderCheck
  <1>11. ASSUME NEW r \in Readers, NEW m \in EvMgrs, GetPastEventsBegin(r, m) PROVE RegInv'
    BY <1>0, <1>11, RegQuiet DEF GetPastEventsBegin, RegInv
  <1>12. ASSUME NEW r \in Readers, GetPastEventsEnd(r) PROVE RegInv'
    BY <1>0, <1>12, RegQuiet DEF GetPastEventsEnd, RegInv
  <1>13. CASE UNCHANGED svcVars
    BY <1>0, <1>13, RegQuiet DEF svcVars, RegInv
  <1> QED
    BY <1>1, <1>2, <1>3, <1>4, <1>5, <1>6, <1>7, <1>8, <1>9, <1>10, <1>11, <1>12, <1>13
    DEF SvcNext, BlockThread

\* Steps that take nothing from the events.
LEMMA EventQuiet ==
    ASSUME EventInv, chain' = chain,
           blkPc' = blkPc \/ (UnderCheck /\ UnderCheck'),
           \A e : Stored(e) => Stored(e)',
           \A m, at, i : <<PastListener(m, at), i>> \in todo => <<PastListener(m, at), i>> \in todo',
           blkPc = "push" => blkPc' = "push" /\ cur' = cur
    PROVE  EventInv'
  <1>1. Done' = Done /\ (UnderCheck' <=> UnderCheck)
    BY DEF Done, UnderCheck
  <1> QED
    BY <1>1, SameLogs DEF EventInv

\* An event stays stored while the queues only grow.
LEMMA StoredStays ==
    ASSUME chain' = chain, pastStore' = pastStore
    PROVE  \A e : Stored(e)' <=> Stored(e)
  BY SameLogs DEF Stored

\* Each step keeps the stage of the events.
LEMMA EventStep == CompleteInv /\ [SvcNext]_svcVars => EventInv'
  <1> SUFFICES ASSUME CompleteInv, [SvcNext]_svcVars PROVE EventInv'
    OBVIOUS
  <1>0. TypeInv /\ SvcTypeOK /\ RegInv /\ EventInv
    BY DEF CompleteInv, TypeInv
  \* A registration that precedes a log of the last block is known.
  <1>a. ASSUME NEW e \in Event, NEW r \in Event, Follows(e, r), e.blk = Len(chain)
        PROVE  Known(r)
    <2>1. r.blk <= Done
      BY <1>0, <1>a, DoneOrLast DEF Follows, Due, Event
    <2> QED
      BY <1>0, <1>a, <2>1 DEF Follows, RegInv
  <1>1. ASSUME NEW body \in BlockBodies, AppendBlock(body) PROVE EventInv'
    <2>1. ASSUME NEW e \in Event, NEW r \in Event, Follows(e, r)', e.blk <= Len(chain)
          PROVE  Follows(e, r) /\ LogAt(e)' = LogAt(e)
      <3>1. \A d \in Event : \A t : d.blk <= Len(chain) /\ IsLog(d, t)' =>
                IsLog(d, t) /\ LogAt(d)' = LogAt(d)
        BY <1>0, <1>1, AppendLogs DEF IsLog, LogAt, Event
      <3>2. IsLog(e, "notify") /\ LogAt(e)' = LogAt(e)
        BY <2>1, <3>1 DEF Follows
      <3>3. IsLog(r, "reg") /\ LogAt(r)' = LogAt(r)
        BY <1>0, <1>1, <2>1, <3>1, AppendLogs DEF Follows, Due, Event
      <3>4. PICK d \in Event : IsLog(d, "deploy")' /\ d.blk < r.blk
        BY <2>1 DEF Follows, Due
      <3>5. IsLog(d, "deploy")
        BY <1>0, <1>1, <2>1, <3>1, <3>4, AppendLogs DEF Follows, Event
      <3> QED
        BY <2>1, <3>2, <3>3, <3>4, <3>5 DEF Follows, Due
    <2>2. blkPc = "idle" /\ blkPc' = "fetch" /\ pastStore' = pastStore
      BY <1>1 DEF AppendBlock
    <2>3. Done = Len(chain) /\ Done' = Len(chain)
      BY <1>0, <1>1, AppendLogs
    <2> QED
      BY <1>0, <2>1, <2>2, <2>3 DEF EventInv, Stored, UnderCheck
  <1>2. CASE CheckEvents
    <2>1. /\ chain' = chain /\ listeners' = listeners /\ pastStore' = pastStore
          /\ blkPc = "fetch" /\ blkPc' = "check"
      BY <1>2 DEF CheckEvents
    <2>2. Done' = Done /\ Len(chain)' = Len(chain)
      BY <2>1 DEF Done
    <2>3. ASSUME NEW e \in Event, NEW r \in Event, Follows(e, r), e.blk = Len(chain)
          PROVE  <<PastListener(LogAt(r).em, r), e.idx>> \in todo'
      <3>1. PastListener(LogAt(r).em, r) \in listeners
        BY <1>a, <2>3 DEF Known
      <3>2. e.idx \in DOMAIN Body /\ Body[e.idx] = LogAt(e) /\ LogAt(e).type = "notify"
        BY <1>0, <2>3, LastBlock DEF Follows, IsLog
      <3> QED
        BY <1>2, <2>3, <3>1, <3>2 DEF CheckEvents, Matches, PastListener, Follows
    <2> QED
      BY <1>0, <2>1, <2>2, <2>3, SameLogs, StoredStays DEF EventInv
  <1>3. ASSUME NEW i \in DOMAIN Body, NEW k \in 0..Len(Body), DeployEventHandler(i, k)
        PROVE  EventInv'
    BY <1>0, <1>3, EventQuiet, StoredStays, Kinds DEF DeployEventHandler
  <1>4. ASSUME NEW i \in DOMAIN Body, RegEventHandler(i) PROVE EventInv'
    BY <1>0, <1>4, EventQuiet, StoredStays, Kinds DEF RegEventHandler, UnderCheck
  <1>5. CASE RegEventStore
    <2>1. \A e : Stored(e) => Stored(e)'
      BY <1>5, SameLogs DEF RegEventStore, Emplace, Stored
    <2> QED
      BY <1>0, <1>5, <2>1, EventQuiet DEF RegEventStore, UnderCheck
  <1>6. ASSUME NEW k \in 0..Len(Body), RegEventListen(k) PROVE EventInv'
    BY <1>0, <1>6, EventQuiet, StoredStays DEF RegEventListen, UnderCheck
  <1>7. ASSUME NEW l \in listeners, NEW i \in DOMAIN Body, NotifyPastFind(l, i) PROVE EventInv'
    <2>1. /\ chain' = chain /\ pastStore' = pastStore /\ blkPc = "check" /\ cur' = i
          /\ todo' = todo \ {<<l, i>>}
          /\ Body[i].em \in DOMAIN pastStore => blkPc' = "push"
          /\ blkPc' \in {"push", "check"}
      BY <1>7 DEF NotifyPastFind
    <2>2. Done' = Done /\ UnderCheck /\ UnderCheck' /\ Len(chain)' = Len(chain)
      BY <2>1 DEF Done, UnderCheck
    <2>3. ASSUME NEW e \in Event, NEW r \in Event, Follows(e, r), e.blk = Len(chain), e.idx = i
          PROVE  blkPc' = "push"
      <3>1. LogAt(r).em \in DOMAIN pastStore
        BY <1>a, <2>3 DEF Known
      <3>2. LogAt(e) = Body[i]
        BY <1>0, <2>3, LastBlock DEF Follows
      <3> QED
        BY <2>1, <2>3, <3>1, <3>2 DEF Follows
    <2> QED
      BY <1>0, <2>1, <2>2, <2>3, SameLogs, StoredStays DEF EventInv
  <1>8. CASE NotifyPastPush
    <2> DEFINE m == Body[cur].em
    <2>1. /\ chain' = chain /\ todo' = todo /\ blkPc = "push" /\ blkPc' = "check"
          /\ pastStore' = [pastStore EXCEPT ![m] = Append(pastStore[m], Here(cur))]
      BY <1>8 DEF NotifyPastPush, PushBack
    <2>2. Done' = Done /\ UnderCheck /\ UnderCheck' /\ Len(chain)' = Len(chain)
      BY <2>1 DEF Done, UnderCheck
    <2>3. m \in DOMAIN pastStore /\ pastStore[m] \in Seq(Event) /\ Here(cur) \in Event
      BY <1>0, <2>1, LogType DEF TypeInv, CurOK, SvcTypeOK
    <2>4. /\ Range(pastStore[m]) \subseteq Range(pastStore'[m])
          /\ Here(cur) \in Range(pastStore'[m])
      <3>1. pastStore'[m] = Append(pastStore[m], Here(cur))
        BY <2>1, <2>3
      <3>2. Range(Append(pastStore[m], Here(cur))) = Range(pastStore[m]) \cup {Here(cur)}
        BY <2>3, RangeAppend
      <3> QED
        BY <3>1, <3>2
    <2>5. \A e : Stored(e) => Stored(e)'
      BY <2>1, <2>4, SameLogs DEF Stored
    <2>6. ASSUME NEW e \in Event, NEW r \in Event, Follows(e, r), e.blk = Len(chain), e.idx = cur
          PROVE  Stored(e)'
      <3>1. LogAt(e) = Body[cur] /\ e = Here(cur)
        BY <1>0, <2>6, LastBlock DEF Follows
      <3> QED
        BY <2>1, <2>3, <2>4, <3>1, SameLogs DEF Stored
    <2> QED
      BY <1>0, <2>1, <2>2, <2>5, <2>6, SameLogs DEF EventInv
  <1>9. CASE BlockDone
    <2>1. chain' = chain /\ pastStore' = pastStore /\ todo = {} /\ blkPc = "check" /\ blkPc' = "idle"
      BY <1>9 DEF BlockDone
    <2>2. \A e, r \in Event : Follows(e, r) => e.blk <= Done \/ e.blk = Len(chain)
      BY <1>0, DoneOrLast DEF Follows
    <2> QED
      BY <1>0, <2>1, <2>2, SameLogs, StoredStays DEF EventInv, UnderCheck
  <1>10. CASE BlockThrow
    <2>1. chain' = chain /\ pastStore' = pastStore /\ blkPc' = "stopped"
      BY <1>10 DEF BlockThrow
    <2>2. \A d \in Event : d.blk <= Done' => d.blk <= Done
      BY <1>0, <1>10, ThrowDone
    <2> QED
      BY <1>0, <2>1, <2>2, SameLogs, StoredStays DEF EventInv, UnderCheck
  <1>11. ASSUME NEW r \in Readers, NEW m \in EvMgrs, GetPastEventsBegin(r, m) PROVE EventInv'
    BY <1>0, <1>11, EventQuiet, StoredStays DEF GetPastEventsBegin
  <1>12. ASSUME NEW r \in Readers, GetPastEventsEnd(r) PROVE EventInv'
    BY <1>0, <1>12, EventQuiet, StoredStays DEF GetPastEventsEnd
  <1>13. CASE UNCHANGED svcVars
    BY <1>0, <1>13, EventQuiet, StoredStays DEF svcVars
  <1> QED
    BY <1>1, <1>2, <1>3, <1>4, <1>5, <1>6, <1>7, <1>8, <1>9, <1>10, <1>11, <1>12, <1>13
    DEF SvcNext, BlockThread

\* What Handled collects are the logs of the blocks handled.
LEMMA HandledLogs ==
    ASSUME SvcTypeOK, NEW type, NEW e \in Handled(type)
    PROVE  e \in Event /\ IsLog(e, type) /\ e.blk <= Done
  <1>1. PICK n \in 1..Done : e \in {[blk |-> n, idx |-> i] : i \in DOMAIN chain[n]}
    BY DEF Handled
  <1>2. PICK i \in DOMAIN chain[n] : e = [blk |-> n, idx |-> i]
    BY <1>1
  <1>3. n \in DOMAIN chain /\ n \in Nat
    BY <1>1 DEF Done, SvcTypeOK
  <1>4. chain[n] \in Seq(Log)
    BY <1>3, BodiesAssumption DEF SvcTypeOK
  <1> QED
    BY <1>1, <1>2, <1>3, <1>4 DEF Event, IsLog, Handled, Done, SvcTypeOK

\* The past-event store holds every event that follows the registration of
\* its manager, in every reachable state and for all parameters.
THEOREM PastEventsComplete == SvcSpec => []PastComplete
  <1>1. CompleteInv => PastComplete
    <2> SUFFICES ASSUME CompleteInv, NEW m \in EvMgrs, NEW e \in Owed(m)
                 PROVE  m \in DOMAIN pastStore /\ e \in Range(pastStore[m])
      BY DEF PastComplete
    <2>0. SvcTypeOK /\ EventInv
      BY DEF CompleteInv, TypeInv
    <2>1. e \in Event /\ IsLog(e, "notify") /\ e.blk <= Done /\ LogAt(e).em = m
      BY <2>0, HandledLogs DEF Owed
    <2>2. PICK r \in Registrations : LogAt(r).em = m /\ r.blk < e.blk
      BY DEF Owed
    <2>3. r \in Event /\ IsLog(r, "reg")
      BY <2>0, HandledLogs DEF Registrations
    <2>4. PICK d \in Handled("deploy") : d.blk < r.blk
      BY DEF Registrations
    <2>5. Follows(e, r)
      BY <2>0, <2>1, <2>2, <2>3, <2>4, HandledLogs DEF Follows, Due
    <2> QED
      BY <2>0, <2>1, <2>3, <2>5 DEF EventInv, Stored
  <1>2. CompleteInv /\ [SvcNext]_svcVars => CompleteInv'
    BY TypeStep, DeployStep, RegStep, EventStep DEF CompleteInv
  <1>3. SvcSpec => []CompleteInv
    BY CompleteInit, <1>2, PTL DEF SvcSpec
  <1> QED
    BY <1>1, <1>3, PTL

-----------------------------------------------------------------------------
(* The queues of past events only grow *)

Grows ==
    \A m \in DOMAIN pastStore :
        /\ m \in DOMAIN pastStore'
        /\ \E n \in 0..Len(pastStore'[m]) : pastStore[m] = SubSeq(pastStore'[m], 1, n)

\* A sequence is a prefix of itself, and of itself with one element more.
LEMMA PrefixSelf ==
    ASSUME NEW S, NEW s \in Seq(S)
    PROVE  \E n \in 0..Len(s) : s = SubSeq(s, 1, n)
  <1>1. Len(s) \in 0..Len(s) /\ s = SubSeq(s, 1, Len(s))
    OBVIOUS
  <1> QED
    BY <1>1

\* A sequence is a prefix of itself with an element behind it.
LEMMA PrefixAppend ==
    ASSUME NEW S, NEW s \in Seq(S), NEW x \in S
    PROVE  \E n \in 0..Len(Append(s, x)) : s = SubSeq(Append(s, x), 1, n)
  <1>1. Len(s) \in 0..Len(Append(s, x)) /\ s = SubSeq(Append(s, x), 1, Len(s))
    OBVIOUS
  <1> QED
    BY <1>1

\* A step that keeps each stored queue keeps Grows.
LEMMA KeptGrows ==
    ASSUME SvcTypeOK,
           \A m \in DOMAIN pastStore : m \in DOMAIN pastStore' /\ pastStore'[m] = pastStore[m]
    PROVE  Grows
  <1> SUFFICES ASSUME NEW m \in DOMAIN pastStore
               PROVE  \E n \in 0..Len(pastStore[m]) : pastStore[m] = SubSeq(pastStore[m], 1, n)
    BY DEF Grows
  <1>1. pastStore[m] \in Seq(Event)
    BY DEF SvcTypeOK
  <1> QED
    BY <1>1, PrefixSelf

\* Each step keeps what is stored.
LEMMA GrowStep == TypeInv /\ [SvcNext]_svcVars => Grows
  <1> SUFFICES ASSUME TypeInv, [SvcNext]_svcVars PROVE Grows
    OBVIOUS
  <1>0. SvcTypeOK /\ CurOK
    BY DEF TypeInv
  <1>1. CASE RegEventStore
    <2>1. \A m \in DOMAIN pastStore : m \in DOMAIN pastStore' /\ pastStore'[m] = pastStore[m]
      BY <1>1 DEF RegEventStore, Emplace
    <2> QED
      BY <1>0, <2>1, KeptGrows
  <1>2. CASE NotifyPastPush
    <2> DEFINE m == Body[cur].em
    <2>1. m \in DOMAIN pastStore /\ Here(cur) \in Event
      BY <1>0, <1>2, LogType DEF NotifyPastPush, CurOK
    <2>2. pastStore' = [pastStore EXCEPT ![m] = Append(@, Here(cur))]
      BY <1>2 DEF NotifyPastPush, PushBack
    <2>3. \A e \in DOMAIN pastStore : pastStore[e] \in Seq(Event)
      BY <1>0 DEF SvcTypeOK
    <2> HIDE DEF m
    <2>4. ASSUME NEW e \in DOMAIN pastStore
          PROVE  /\ e \in DOMAIN pastStore'
                 /\ \E n \in 0..Len(pastStore'[e]) : pastStore[e] = SubSeq(pastStore'[e], 1, n)
      <3>1. CASE e = m
        <4>1. pastStore'[e] = Append(pastStore[e], Here(cur)) /\ e \in DOMAIN pastStore'
          BY <2>2, <3>1
        <4> QED
          BY <2>1, <2>3, <4>1, PrefixAppend
      <3>2. CASE e # m
        <4>1. pastStore'[e] = pastStore[e] /\ e \in DOMAIN pastStore'
          BY <2>2, <3>2
        <4> QED
          BY <2>3, <4>1, PrefixSelf
      <3> QED
        BY <3>1, <3>2
    <2> QED
      BY <2>4 DEF Grows
  <1>3. CASE UNCHANGED pastStore
    BY <1>0, <1>3, KeptGrows
  <1>4. RegEventStore \/ NotifyPastPush \/ UNCHANGED pastStore
    BY DEF SvcNext, BlockThread, AppendBlock, CheckEvents, DeployEventHandler, RegEventHandler,
       RegEventListen, NotifyPastFind, BlockDone, BlockThrow, GetPastEventsBegin, GetPastEventsEnd, svcVars
  <1> QED
    BY <1>1, <1>2, <1>3, <1>4

\* Registering a manager again keeps what was stored for it, and a push adds
\* at the end: no step of any thread takes a past event away or moves it.
THEOREM PastEventsGrow == SvcSpec => PastGrows
  <1>1. TypeInv /\ [SvcNext]_svcVars => [Grows]_svcVars
    BY GrowStep
  <1> QED
    BY <1>1, TypeAlways, PTL DEF SvcSpec, PastGrows, Grows

-----------------------------------------------------------------------------
(***************************************************************************)
(* AddrLatest.  The registrations of a block are heard in order: those     *)
(* still to come are the last ones.  So when one is heard, it is later     *)
(* than all that were heard before.                                        *)
(***************************************************************************)
RegsInOrder ==
    \A i, j \in DOMAIN Body :
        <<RegListener, i>> \in todo /\ i < j /\ Body[j].type = "reg" => <<RegListener, j>> \in todo

\* A registration the service must know whose callback has begun.
Heard(r) ==
    /\ Due(r)
    /\ r.blk <= Done \/ (UnderCheck /\ r.blk = Len(chain) /\ <<RegListener, r.idx>> \notin todo)

Latest(r) ==
    \/ evMgrAddrMap[LogAt(r).pub] = LogAt(r).em
    \/ \E s \in Event : Heard(s) /\ LogAt(s).pub = LogAt(r).pub /\ Before(r, s)

AddrInv ==
    blkPc # "stopped" => RegsInOrder /\ \A r \in Event : Heard(r) => Latest(r)

\* Steps that begin no registration callback and change no address.
LEMMA AddrQuiet ==
    ASSUME AddrInv, chain' = chain, evMgrAddrMap' = evMgrAddrMap, blkPc # "stopped",
           blkPc' = blkPc \/ (UnderCheck /\ UnderCheck'),
           \A i : <<RegListener, i>> \in todo <=> <<RegListener, i>> \in todo'
    PROVE  AddrInv'
  <1>1. Done' = Done /\ (UnderCheck' <=> UnderCheck) /\ Body' = Body
    BY SameLogs DEF Done, UnderCheck
  <1>2. \A r : Heard(r)' <=> Heard(r)
    BY <1>1, SameLogs DEF Heard
  <1>3. \A r : Latest(r) => Latest(r)'
    BY <1>2, SameLogs DEF Latest, Before
  <1> QED
    BY <1>1, <1>2, <1>3 DEF AddrInv, RegsInOrder

\* Each step keeps the addresses the latest.
LEMMA AddrStep == CompleteInv /\ AddrInv /\ [SvcNext]_svcVars => AddrInv'
  <1> SUFFICES ASSUME CompleteInv, AddrInv, [SvcNext]_svcVars, blkPc' # "stopped" PROVE AddrInv'
    BY DEF AddrInv
  <1>0. TypeInv /\ SvcTypeOK /\ DeployInv
    BY DEF CompleteInv, TypeInv
  <1>s. blkPc # "stopped"
    BY DEF SvcNext, BlockThread, AppendBlock, CheckEvents, DeployEventHandler, RegEventHandler,
       RegEventStore, RegEventListen, NotifyPastFind, NotifyPastPush, BlockDone, BlockThrow,
       GetPastEventsBegin, GetPastEventsEnd, svcVars
  <1>1. ASSUME NEW body \in BlockBodies, AppendBlock(body) PROVE AddrInv'
    <2>1. /\ blkPc = "idle" /\ blkPc' = "fetch" /\ evMgrAddrMap' = evMgrAddrMap /\ todo' = todo
          /\ Done = Len(chain) /\ Done' = Len(chain)
      BY <1>0, <1>1, AppendLogs DEF AppendBlock
    <2>2. todo = {}
      BY <1>0, <2>1 DEF TypeInv, TodoOK
    <2>3. ASSUME NEW r \in Event, r.blk <= Len(chain)
          PROVE  (Due(r)' <=> Due(r)) /\ (Due(r) => LogAt(r)' = LogAt(r))
      BY <1>0, <1>1, <2>3, AppendLogs DEF Due, IsLog, LogAt, Event
    <2>4. \A r \in Event : Heard(r)' <=> Heard(r)
      BY <2>1, <2>3 DEF Heard, UnderCheck
    <2>5. \A r \in Event : Heard(r) => r.blk <= Len(chain) /\ Due(r)
      BY <2>1 DEF Heard, UnderCheck
    <2>6. \A r \in Event : Heard(r) /\ Latest(r) => Latest(r)'
      BY <2>1, <2>3, <2>4, <2>5 DEF Latest, Before
    <2> QED
      BY <1>s, <2>1, <2>2, <2>4, <2>6 DEF AddrInv, RegsInOrder
  <1>2. CASE CheckEvents
    <2>1. /\ chain' = chain /\ evMgrAddrMap' = evMgrAddrMap
          /\ blkPc = "fetch" /\ blkPc' = "check"
      BY <1>2 DEF CheckEvents
    <2>2. Done' = Done /\ Len(chain)' = Len(chain) /\ Body' = Body
      BY <2>1 DEF Done, Body
    <2>3. ASSUME NEW r \in Event, Due(r), r.blk = Len(chain)
          PROVE  <<RegListener, r.idx>> \in todo'
      <3>1. PICK d \in Event : IsLog(d, "deploy") /\ d.blk < r.blk
        BY <2>3 DEF Due
      <3>2. d.blk <= Done
        BY <1>0, <2>3, <3>1, DoneOrLast DEF Event
      <3>3. RegListener \in listeners
        BY <1>0, <3>1, <3>2 DEF DeployInv
      <3>4. r.idx \in DOMAIN Body /\ Body[r.idx].type = "reg"
        BY <1>0, <2>3, LastBlock DEF Due, IsLog
      <3> QED
        BY <1>2, <3>3, <3>4 DEF CheckEvents, Matches, RegListener
    <2>4. \A r \in Event : Heard(r)' <=> Heard(r)
      BY <2>1, <2>2, <2>3, SameLogs DEF Heard, UnderCheck
    <2>5. \A r \in Event : Latest(r) => Latest(r)'
      BY <2>1, <2>4, SameLogs DEF Latest, Before
    <2>6. RegsInOrder'
      BY <1>2, <2>2 DEF CheckEvents, Matches, RegListener, RegsInOrder
    <2> QED
      BY <1>s, <2>4, <2>5, <2>6 DEF AddrInv
  <1>3. ASSUME NEW i \in DOMAIN Body, NEW k \in 0..Len(Body), DeployEventHandler(i, k)
        PROVE  AddrInv'
    <2>1. /\ chain' = chain /\ evMgrAddrMap' = evMgrAddrMap /\ blkPc = "check" /\ blkPc' = "check"
          /\ \A j : <<RegListener, j>> \in todo => <<RegListener, j>> \in todo'
      BY <1>3, Kinds DEF DeployEventHandler
    <2>2. Done' = Done /\ Len(chain)' = Len(chain) /\ Body' = Body
      BY <2>1 DEF Done, Body
    <2>3. RegsInOrder'
      <3>1. \A j : <<RegListener, j>> \in todo' <=>
                <<RegListener, j>> \in todo \/ <<RegListener, j>> \in JoinFrom(RegListener, k)
        BY <1>3, Kinds DEF DeployEventHandler
      <3>2. \A j : <<RegListener, j>> \in JoinFrom(RegListener, k) <=>
                j \in DOMAIN Body /\ j > k /\ Body[j].type = "reg"
        BY DEF JoinFrom, Matches, RegListener
      <3>3. DOMAIN Body \subseteq Nat /\ k \in Nat
        BY <1>0, BodyType
      <3> QED
        BY <1>s, <2>2, <3>1, <3>2, <3>3 DEF RegsInOrder, AddrInv
    <2>4. ASSUME NEW r \in Event PROVE Heard(r)' <=> Heard(r)
      <3>1. CASE Due(r) /\ r.blk = Len(chain) /\ ~(r.blk <= Done)
        <4>1. chain # <<>> /\ Body[i].type = "deploy"
          BY <1>0, <1>3 DEF Body, DeployEventHandler, IsNext, TypeInv, TodoOK, Matches, DeployListener
        <4>2. Here(i) \in Event /\ IsLog(Here(i), "deploy")
          BY <1>0, <4>1, BodyType, LogType DEF IsLog, LogAt, Here
        <4>3. PICK d \in Event : IsLog(d, "deploy") /\ d.blk < r.blk
          BY <3>1 DEF Due
        <4> QED
          BY <1>0, <3>1, <4>2, <4>3 DEF DeployInv, DeployedOnce, IsLog, LogAt, Event, Here
      <3>2. CASE ~Due(r) \/ r.blk # Len(chain) \/ r.blk <= Done
        BY <2>1, <2>2, <3>2, SameLogs DEF Heard
      <3> QED
        BY <3>1, <3>2
    <2>5. \A r \in Event : Latest(r) => Latest(r)'
      BY <2>1, <2>4, SameLogs DEF Latest, Before
    <2> QED
      BY <1>s, <2>3, <2>4, <2>5 DEF AddrInv
  <1>4. ASSUME NEW i \in DOMAIN Body, RegEventHandler(i) PROVE AddrInv'
    <2>1. /\ chain' = chain /\ blkPc = "check" /\ blkPc' = "regStore"
          /\ evMgrAddrMap' = [evMgrAddrMap EXCEPT ![Body[i].pub] = Body[i].em]
          /\ todo' = todo \ {<<RegListener, i>>} /\ <<RegListener, i>> \in todo
          /\ \A j \in DOMAIN Body : <<RegListener, j>> \in todo => i <= j
      BY <1>4 DEF RegEventHandler, IsNext, Address
    <2>2. Done' = Done /\ Len(chain)' = Len(chain) /\ Body' = Body /\ UnderCheck /\ UnderCheck'
      BY <2>1 DEF Done, Body, UnderCheck
    <2>3. /\ Body[i].type = "reg" /\ Body[i] \in Log /\ DOMAIN Body \subseteq Nat
          /\ chain # <<>> /\ Here(i) \in Event /\ IsLog(Here(i), "reg") /\ LogAt(Here(i)) = Body[i]
          /\ Len(chain) \in Nat
      <3>1. Body[i].type = "reg" /\ chain # <<>>
        BY <1>0, <2>1 DEF Body, TypeInv, TodoOK, Matches, RegListener
      <3> QED
        BY <1>0, <3>1, BodyType, LogType DEF IsLog, LogAt, Here, SvcTypeOK
    <2>4. RegsInOrder'
      BY <1>s, <2>1, <2>2, <2>3 DEF RegsInOrder, AddrInv
    <2>5. ASSUME NEW r \in Event PROVE Heard(r)' <=> Heard(r) \/ (Due(r) /\ r = Here(i))
      <3>1. r.blk = Len(chain) /\ r.idx = i <=> r = Here(i)
        BY DEF Here, Event
      <3> QED
        BY <2>1, <2>2, <3>1, SameLogs DEF Heard, Here
    <2>6. ASSUME NEW r \in Event, Heard(r) PROVE Before(r, Here(i)) /\ Due(Here(i))
      <3>1. r.blk <= Len(chain)
        BY <1>0, <2>6 DEF Heard, Done, Event, SvcTypeOK
      <3>2. PICK d \in Event : IsLog(d, "deploy") /\ d.blk < r.blk
        BY <2>6 DEF Heard, Due
      <3>3. Due(Here(i))
        <4>1. d.blk < Here(i).blk
          BY <2>3, <3>1, <3>2 DEF Here, Event
        <4>2. IsLog(Here(i), "reg") /\ IsLog(d, "deploy") /\ d \in Event
          BY <2>3, <3>2
        <4> QED
          BY <4>1, <4>2 DEF Due
      <3>4. CASE r.blk < Len(chain)
        BY <3>3, <3>4 DEF Before, Here
      <3>5. CASE r.blk = Len(chain)
        <4>1. <<RegListener, r.idx>> \notin todo
          BY <2>1, <2>3, <2>6, <3>5 DEF Heard, Done
        <4>2. r.idx \in DOMAIN Body /\ Body[r.idx].type = "reg" /\ r.idx # i
          BY <1>0, <2>1, <2>6, <3>5, <4>1, LastBlock DEF Heard, Due, IsLog
        <4>3. ~(i < r.idx)
          BY <1>s, <2>1, <4>1, <4>2 DEF AddrInv, RegsInOrder
        <4>4. r.idx < i
          BY <2>3, <4>2, <4>3
        <4> QED
          BY <3>3, <3>5, <4>4 DEF Before, Here
      <3> QED
        BY <2>3, <3>1, <3>3, <3>4, <3>5 DEF Event
    <2>7. ASSUME NEW r \in Event, Heard(r)' PROVE Latest(r)'
      <3>1. LogAt(r)' = LogAt(r) /\ \A s : LogAt(s)' = LogAt(s)
        BY <2>1, SameLogs
      <3>2. Body[i].pub \in Publishers
        BY <2>3 DEF Log, RegLogs, DeployLogs, NotifyLogs
      <3>3. evMgrAddrMap'[Body[i].pub] = Body[i].em
        BY <1>0, <2>1, <3>2 DEF SvcTypeOK
      <3>4. CASE r = Here(i)
        BY <2>3, <3>1, <3>3, <3>4 DEF Latest
      <3>5. CASE r # Here(i)
        <4>1. Heard(r) /\ Latest(r)
          BY <1>s, <2>5, <2>7, <3>5 DEF AddrInv
        <4>2. CASE LogAt(r).pub = Body[i].pub
          BY <2>3, <2>5, <2>6, <3>1, <4>1, <4>2 DEF Latest, Before
        <4>3. CASE LogAt(r).pub # Body[i].pub
          <5>1. evMgrAddrMap'[LogAt(r).pub] = evMgrAddrMap[LogAt(r).pub]
            BY <1>0, <2>1, <4>3 DEF SvcTypeOK
          <5> QED
            BY <2>5, <3>1, <4>1, <5>1 DEF Latest, Before
        <4> QED
          BY <4>2, <4>3
      <3> QED
        BY <3>4, <3>5
    <2> QED
      BY <2>4, <2>7 DEF AddrInv
  <1>5. CASE RegEventStore
    BY <1>s, <1>5, AddrQuiet DEF RegEventStore, UnderCheck
  <1>6. ASSUME NEW k \in 0..Len(Body), RegEventListen(k) PROVE AddrInv'
    <2>1. \A i : <<RegListener, i>> \in todo <=> <<RegListener, i>> \in todo'
      BY <1>6, Kinds DEF RegEventListen, JoinFrom
    <2> QED
      BY <1>s, <1>6, <2>1, AddrQuiet DEF RegEventListen, UnderCheck
  <1>7. ASSUME NEW l \in listeners, NEW i \in DOMAIN Body, NotifyPastFind(l, i) PROVE AddrInv'
    <2>1. l # RegListener
      BY <1>7 DEF NotifyPastFind, RegListener
    <2> QED
      BY <1>s, <1>7, <2>1, AddrQuiet DEF NotifyPastFind, UnderCheck
  <1>8. CASE NotifyPastPush
    BY <1>s, <1>8, AddrQuiet DEF NotifyPastPush, UnderCheck
  <1>9. CASE BlockDone
    <2>1. /\ chain' = chain /\ evMgrAddrMap' = evMgrAddrMap
          /\ todo = {} /\ todo' = todo /\ blkPc = "check" /\ blkPc' = "idle"
      BY <1>9 DEF BlockDone
    <2>2. \A r \in Event : Heard(r)' <=> Heard(r)
      <3>1. \A r \in Event : Due(r) => r.blk <= Len(chain)
        BY <1>0 DEF Due, IsLog, SvcTypeOK
      <3>2. Done = Len(chain) - 1 /\ Done' = Len(chain) /\ Len(chain) \in Nat
        BY <1>0, <2>1 DEF Done, SvcTypeOK
      <3> QED
        BY <2>1, <3>1, <3>2, SameLogs DEF Heard, UnderCheck, Event
    <2>3. \A r \in Event : Latest(r) => Latest(r)'
      BY <2>1, <2>2, SameLogs DEF Latest, Before
    <2> QED
      BY <1>s, <2>1, <2>2, <2>3 DEF AddrInv, RegsInOrder
  <1>10. CASE BlockThrow
    BY <1>10 DEF BlockThrow
  <1>11. ASSUME NEW r \in Readers, NEW m \in EvMgrs, GetPastEventsBegin(r, m) PROVE AddrInv'
    BY <1>s, <1>11, AddrQuiet DEF GetPastEventsBegin
  <1>12. ASSUME NEW r \in Readers, GetPastEventsEnd(r) PROVE AddrInv'
    BY <1>s, <1>12, AddrQuiet DEF GetPastEventsEnd
  <1>13. CASE UNCHANGED svcVars
    BY <1>s, <1>13, AddrQuiet DEF svcVars
  <1> QED
    BY <1>1, <1>2, <1>3, <1>4, <1>5, <1>6, <1>7, <1>8, <1>9, <1>10, <1>11, <1>12, <1>13
    DEF SvcNext, BlockThread

\* The logs of the blocks handled are in Handled.
LEMMA LogHandled ==
    ASSUME SvcTypeOK, NEW type, NEW e \in Event, IsLog(e, type), e.blk <= Done
    PROVE  e \in Handled(type)
  <1>1. e.blk \in 1..Done /\ e = [blk |-> e.blk, idx |-> e.idx]
    BY DEF IsLog, Event, Done, SvcTypeOK
  <1> QED
    BY <1>1 DEF Handled, IsLog

\* A publisher is looked up at the manager it registered last, between any two
\* blocks and for any number of publishers and registrations.
THEOREM AddressesLatest == SvcSpec => []AddrLatest
  <1>1. CompleteInv /\ AddrInv => AddrLatest
    <2> SUFFICES ASSUME CompleteInv, AddrInv, blkPc = "idle", NEW r \in Registrations
                 PROVE  \/ evMgrAddrMap[LogAt(r).pub] = LogAt(r).em
                        \/ \E s \in Registrations : LogAt(s).pub = LogAt(r).pub /\ Before(r, s)
      BY DEF AddrLatest
    <2>0. SvcTypeOK
      BY DEF CompleteInv, TypeInv
    <2>1. r \in Event /\ IsLog(r, "reg") /\ r.blk <= Done
      BY <2>0, HandledLogs DEF Registrations
    <2>2. PICK d \in Handled("deploy") : d.blk < r.blk
      BY DEF Registrations
    <2>3. Latest(r)
      BY <2>0, <2>1, <2>2, HandledLogs DEF AddrInv, Heard, Due
    <2>4. ASSUME NEW s \in Event, Heard(s) PROVE s \in Registrations
      <3>1. IsLog(s, "reg") /\ s.blk <= Done
        BY <2>4 DEF Heard, Due, UnderCheck
      <3>2. PICK f \in Event : IsLog(f, "deploy") /\ f.blk < s.blk
        BY <2>4 DEF Heard, Due
      <3>3. f.blk <= Done
        BY <2>0, <3>1, <3>2 DEF Event, Done, SvcTypeOK
      <3> QED
        BY <2>0, <3>1, <3>2, <3>3, LogHandled DEF Registrations
    <2> QED
      BY <2>3, <2>4 DEF Latest
  <1>2. CompleteInv /\ [SvcNext]_svcVars => CompleteInv'
    BY TypeStep, DeployStep, RegStep, EventStep DEF CompleteInv
  <1>3. SvcInit => AddrInv
    BY DEF SvcInit, AddrInv, RegsInOrder, Body, Heard, Due, IsLog
  <1> QED
    BY CompleteInit, AddrStep, <1>1, <1>2, <1>3, PTL DEF SvcSpec

-----------------------------------------------------------------------------
(***************************************************************************)
(* PastOrdered.  Each registration is heard once, so each adds a listener  *)
(* of its own.  A listener is served an event once: the copies of an event *)
(* and the push under way are no more than the listeners that have it      *)
(* behind them.                                                            *)
(***************************************************************************)
ListenInv ==
    /\ RegListener \in listeners => DeployListener \notin listeners
    /\ \A c \in todo : c[1] \in listeners
    /\ blkPc \in {"regStore", "regListen"} =>
        RegListener \in listeners /\ <<RegListener, cur>> \notin todo
    /\ \A m \in EvMgrs, r \in Event : PastListener(m, r) \in listeners =>
        /\ RegListener \in listeners
        /\ IsLog(r, "reg") /\ LogAt(r).em = m
        /\ blkPc = "fetch" => r.blk < Len(chain)
        /\ UnderCheck /\ r.blk = Len(chain) =>
            /\ <<RegListener, r.idx>> \notin todo
            /\ blkPc \in {"regStore", "regListen"} => cur # r.idx

\* The registrations whose listener is past event e.
Served(m, e) ==
    {r \in RegsUpTo(m, e) :
        /\ PastListener(m, r) \in listeners
        /\ e.blk = Len(chain) => <<PastListener(m, r), e.idx>> \notin todo}

Pushing(m) == blkPc = "push" /\ Body[cur].em = m
Pending(m, e) == IF Pushing(m) /\ e = Here(cur) THEN 1 ELSE 0

Counted(m) ==
    /\ \A e \in Range(pastStore[m]) :
        e.blk <= Len(chain) /\ (blkPc = "fetch" => e.blk < Len(chain))
    /\ \A i, j \in DOMAIN pastStore[m] : i < j => pastStore[m][i].blk <= pastStore[m][j].blk
    /\ \A e \in Event : Cardinality(Copies(m, e)) + Pending(m, e) <= Cardinality(Served(m, e))
    /\ pastStore[m] # <<>> \/ Pushing(m) => \E r \in Event : PastListener(m, r) \in listeners

\* With one registration, what is stored lies before what is still to come.
Alone(m) == \A r, s \in RegLogsOf(m) : r = s

PastDue(m, i) == \E r \in Event : <<PastListener(m, r), i>> \in todo

InLine(m) ==
    /\ Increasing(pastStore[m])
    /\ \A i \in DOMAIN Body : PastDue(m, i) => \A e \in Range(pastStore[m]) : Before(e, Here(i))
    /\ Pushing(m) => /\ \A e \in Range(pastStore[m]) : Before(e, Here(cur))
                     /\ \A i \in DOMAIN Body : PastDue(m, i) => cur < i

OrderedInv == \A m \in DOMAIN pastStore : Counted(m) /\ (Alone(m) => InLine(m))

\* Each step keeps the listeners apart.
LEMMA ListenStep == CompleteInv /\ ListenInv /\ [SvcNext]_svcVars => ListenInv'
  <1> SUFFICES ASSUME CompleteInv, ListenInv, [SvcNext]_svcVars PROVE ListenInv'
    OBVIOUS
  <1>0. TypeInv /\ SvcTypeOK /\ DeployInv /\ TodoOK /\ CurOK
    BY DEF CompleteInv, TypeInv
  <1>k. /\ DeployListener # RegListener
        /\ \A m, at : PastListener(m, at) # DeployListener /\ PastListener(m, at) # RegListener
    BY Kinds
  <1>1. ASSUME NEW body \in BlockBodies, AppendBlock(body) PROVE ListenInv'
    <2>1. /\ blkPc = "idle" /\ blkPc' = "fetch" /\ listeners' = listeners /\ todo' = todo /\ todo = {}
      BY <1>0, <1>1 DEF AppendBlock, TodoOK
    <2>2. \A r \in Event : IsLog(r, "reg") => IsLog(r, "reg")' /\ LogAt(r)' = LogAt(r) /\ r.blk < Len(chain')
      BY <1>0, <1>1, AppendLogs DEF IsLog, LogAt, Event
    <2> QED
      BY <2>1, <2>2 DEF ListenInv, UnderCheck
  <1>2. CASE CheckEvents
    <2>1. /\ chain' = chain /\ blkPc = "fetch" /\ blkPc' = "check" /\ listeners' = listeners
          /\ \A c \in todo' : c[1] \in listeners
      BY <1>2 DEF CheckEvents
    <2>2. \A r \in Event : IsLog(r, "reg") => r.blk \in Nat /\ Len(chain) \in Nat
      BY <1>0 DEF IsLog, SvcTypeOK
    <2> QED
      BY <2>1, <2>2, SameLogs DEF ListenInv
  <1>3. ASSUME NEW i \in DOMAIN Body, NEW k \in 0..Len(Body), DeployEventHandler(i, k)
        PROVE  ListenInv'
    <2>1. /\ chain' = chain /\ blkPc = "check" /\ blkPc' = "check" /\ <<DeployListener, i>> \in todo
          /\ listeners' = (listeners \ {DeployListener}) \cup {RegListener}
          /\ todo' = (todo \ {<<DeployListener, i>>}) \cup JoinFrom(RegListener, k)
      BY <1>3 DEF DeployEventHandler, IsNext, AfterDeploy
    <2>2. DeployListener \in listeners /\ RegListener \notin listeners
      BY <2>1 DEF ListenInv
    <2>3. \A m \in EvMgrs, r \in Event : PastListener(m, r) \notin listeners'
      BY <1>k, <2>1, <2>2 DEF ListenInv
    <2>4. ASSUME NEW c \in todo, c[1] = DeployListener PROVE c = <<DeployListener, i>>
      <3>1. c[2] \in DOMAIN Body /\ Body[c[2]].type = "deploy" /\ Body[i].type = "deploy"
        BY <1>0, <2>1, <2>4 DEF TodoOK, Matches, DeployListener
      <3>2. chain # <<>> /\ Len(chain) \in DOMAIN chain /\ Body = chain[Len(chain)]
        BY <1>0, BodyType DEF Body, SvcTypeOK
      <3>3. c[2] = i
        BY <1>0, <3>1, <3>2 DEF DeployInv, DeployedOnce
      <3>4. c \in Listener \X Nat
        BY <1>0 DEF SvcTypeOK
      <3> QED
        BY <2>4, <3>3, <3>4
    <2>5. ASSUME NEW c \in todo' PROVE c[1] \in listeners'
      <3>1. CASE c \in JoinFrom(RegListener, k)
        BY <2>1, <3>1 DEF JoinFrom
      <3>2. CASE c \in todo /\ c # <<DeployListener, i>>
        BY <2>1, <2>4, <3>2 DEF ListenInv
      <3> QED
        BY <2>1, <3>1, <3>2
    <2> QED
      BY <1>k, <2>1, <2>3, <2>5 DEF ListenInv
  <1>4. ASSUME NEW i \in DOMAIN Body, RegEventHandler(i) PROVE ListenInv'
    <2>1. /\ chain' = chain /\ blkPc = "check" /\ blkPc' = "regStore" /\ listeners' = listeners
          /\ todo' = todo \ {<<RegListener, i>>} /\ cur' = i /\ <<RegListener, i>> \in todo
      BY <1>4 DEF RegEventHandler, IsNext
    <2> QED
      BY <2>1, SameLogs DEF ListenInv, UnderCheck
  <1>5. CASE RegEventStore
    <2>1. /\ chain' = chain /\ blkPc = "regStore" /\ blkPc' = "regListen" /\ listeners' = listeners
          /\ todo' = todo /\ cur' = cur
      BY <1>5 DEF RegEventStore
    <2> QED
      BY <2>1, SameLogs DEF ListenInv, UnderCheck
  <1>6. ASSUME NEW k \in 0..Len(Body), RegEventListen(k) PROVE ListenInv'
    <2> DEFINE l == PastListener(Body[cur].em, Here(cur))
    <2>1. /\ chain' = chain /\ blkPc = "regListen" /\ blkPc' = "check" /\ listeners' = listeners \cup {l}
          /\ todo' = todo \cup JoinFrom(l, k) /\ cur' = cur
      BY <1>6 DEF RegEventListen
    <2>2. cur \in DOMAIN Body /\ Body[cur].type = "reg" /\ <<RegListener, cur>> \notin todo
      BY <1>0, <2>1 DEF CurOK, ListenInv
    <2>3. chain # <<>> /\ Len(chain) \in DOMAIN chain /\ Body = chain[Len(chain)] /\ Here(cur) \in Event
      BY <1>0, <2>2, BodyType, LogType DEF Body, SvcTypeOK
    <2>4. IsLog(Here(cur), "reg") /\ LogAt(Here(cur)).em = Body[cur].em
      BY <2>2, <2>3 DEF IsLog, LogAt, Here
    <2>5. \A m, r : PastListener(m, r) = l => m = Body[cur].em /\ r = Here(cur)
      BY DEF PastListener
    <2>6. RegListener \in listeners
      BY <2>1 DEF ListenInv
    <2>7. l # RegListener /\ l # DeployListener
      BY <1>k
    <2>8. \A c \in JoinFrom(l, k) : c[1] = l /\ c[1] # RegListener
      BY <2>7 DEF JoinFrom
    <2>9. \A i : <<RegListener, i>> \in todo' => <<RegListener, i>> \in todo
      BY <2>1, <2>8
    <2> HIDE DEF l
    <2>10. /\ RegListener \in listeners' => DeployListener \notin listeners'
           /\ \A c \in todo' : c[1] \in listeners'
      BY <2>1, <2>6, <2>7, <2>8 DEF ListenInv
    <2>11. ASSUME NEW m \in EvMgrs, NEW r \in Event, PastListener(m, r) \in listeners'
           PROVE  /\ RegListener \in listeners'
                  /\ IsLog(r, "reg")' /\ LogAt(r)'.em = m
                  /\ UnderCheck' /\ r.blk = Len(chain)' => <<RegListener, r.idx>> \notin todo'
      <3>1. CASE PastListener(m, r) = l
        <4>1. m = Body[cur].em /\ r = Here(cur) /\ r.idx = cur
          BY <2>5, <3>1 DEF Here
        <4> QED
          BY <2>1, <2>2, <2>4, <2>6, <2>9, <4>1, SameLogs
      <3>2. CASE PastListener(m, r) \in listeners
        BY <2>1, <2>6, <2>9, <3>2, SameLogs DEF ListenInv, UnderCheck
      <3> QED
        BY <2>1, <2>11, <3>1, <3>2
    <2> QED
      BY <2>1, <2>10, <2>11 DEF ListenInv
  <1>7. ASSUME NEW l \in listeners, NEW i \in DOMAIN Body, NotifyPastFind(l, i) PROVE ListenInv'
    <2>1. /\ chain' = chain /\ blkPc = "check" /\ blkPc' \in {"push", "check"} /\ listeners' = listeners
          /\ todo' \subseteq todo
      BY <1>7 DEF NotifyPastFind
    <2> QED
      BY <2>1, SameLogs DEF ListenInv, UnderCheck
  <1>8. CASE NotifyPastPush
    <2>1. /\ chain' = chain /\ blkPc = "push" /\ blkPc' = "check" /\ listeners' = listeners
          /\ todo' = todo
      BY <1>8 DEF NotifyPastPush
    <2> QED
      BY <2>1, SameLogs DEF ListenInv, UnderCheck
  <1>9. CASE BlockDone
    BY <1>9, SameLogs DEF BlockDone, ListenInv, UnderCheck
  <1>10. CASE BlockThrow
    BY <1>10, SameLogs DEF BlockThrow, ListenInv, UnderCheck
  <1>11. ASSUME NEW r \in Readers, NEW m \in EvMgrs, GetPastEventsBegin(r, m) PROVE ListenInv'
    BY <1>11, SameLogs DEF GetPastEventsBegin, ListenInv, UnderCheck
  <1>12. ASSUME NEW r \in Readers, GetPastEventsEnd(r) PROVE ListenInv'
    BY <1>12, SameLogs DEF GetPastEventsEnd, ListenInv, UnderCheck
  <1>13. CASE UNCHANGED svcVars
    BY <1>13, SameLogs DEF svcVars, ListenInv, UnderCheck
  <1> QED
    BY <1>1, <1>2, <1>3, <1>4, <1>5, <1>6, <1>7, <1>8, <1>9, <1>10, <1>11, <1>12, <1>13
    DEF SvcNext, BlockThread

\* The registrations of a manager on the chain, finitely many.
LEMMA RegLogsType ==
    ASSUME SvcTypeOK, NEW m
    PROVE  /\ \A r : r \in RegLogsOf(m) <=> r \in Event /\ IsLog(r, "reg") /\ LogAt(r).em = m
           /\ IsFiniteSet(OnChain) /\ IsFiniteSet(RegLogsOf(m))
  <1> DEFINE At(n) == {[blk |-> n, idx |-> i] : i \in DOMAIN chain[n]}
             Parts == {At(n) : n \in DOMAIN chain}
  <1>1. /\ DOMAIN chain = 1..Len(chain) /\ Len(chain) \in Nat
        /\ \A n \in DOMAIN chain : /\ n \in Nat /\ DOMAIN chain[n] = 1..Len(chain[n])
                                   /\ Len(chain[n]) \in Nat
    BY BodiesAssumption DEF SvcTypeOK
  <1>2. \A e : e \in OnChain <=> e \in Event /\ e.blk \in DOMAIN chain /\ e.idx \in DOMAIN chain[e.blk]
    BY <1>1 DEF OnChain, Event
  <1>3. ASSUME NEW n \in DOMAIN chain PROVE IsFiniteSet(At(n))
    <2> DEFINE f == [i \in 1..Len(chain[n]) |-> [blk |-> n, idx |-> i]]
    <2>1. f \in Surjection(1..Len(chain[n]), At(n))
      BY <1>1 DEF Surjection
    <2>2. IsFiniteSet(1..Len(chain[n]))
      BY <1>1, FS_Interval
    <2> HIDE DEF f, At
    <2> QED
      BY <2>1, <2>2, FS_Surjection
  <1>4. IsFiniteSet(Parts)
    <2> DEFINE f == [n \in 1..Len(chain) |-> At(n)]
    <2>1. f \in Surjection(1..Len(chain), Parts)
      BY <1>1 DEF Surjection
    <2>2. IsFiniteSet(1..Len(chain))
      BY <1>1, FS_Interval
    <2> HIDE DEF f, Parts
    <2> QED
      BY <2>1, <2>2, FS_Surjection
  <1>5. IsFiniteSet(OnChain)
    <2>1. OnChain = UNION Parts
      BY DEF OnChain
    <2>2. \A P \in Parts : IsFiniteSet(P)
      BY <1>3
    <2> HIDE DEF Parts
    <2> QED
      BY <1>4, <2>1, <2>2, FS_UNION
  <1>6. IsFiniteSet(RegLogsOf(m))
    BY <1>5, FS_Subset DEF RegLogsOf
  <1> QED
    BY <1>2, <1>5, <1>6 DEF RegLogsOf, IsLog

\* The sets that are counted are finite.
CountsMeaning == SvcTypeOK => \A m \in DOMAIN pastStore, e \in Event :
    /\ IsFiniteSet(Copies(m, e)) /\ Cardinality(Copies(m, e)) \in Nat
    /\ IsFiniteSet(RegsUpTo(m, e)) /\ Cardinality(RegsUpTo(m, e)) \in Nat
    /\ IsFiniteSet(Served(m, e)) /\ Cardinality(Served(m, e)) \in Nat
    /\ Served(m, e) \subseteq RegsUpTo(m, e)

LEMMA CountsFinite == CountsMeaning
  <1> SUFFICES ASSUME SvcTypeOK, NEW m \in DOMAIN pastStore, NEW e \in Event
      PROVE  /\ IsFiniteSet(Copies(m, e)) /\ Cardinality(Copies(m, e)) \in Nat
             /\ IsFiniteSet(RegsUpTo(m, e)) /\ Cardinality(RegsUpTo(m, e)) \in Nat
             /\ IsFiniteSet(Served(m, e)) /\ Cardinality(Served(m, e)) \in Nat
             /\ Served(m, e) \subseteq RegsUpTo(m, e)
    BY DEF CountsMeaning
  <1>1. IsFiniteSet(Copies(m, e))
    <2>1. pastStore[m] \in Seq(Event)
      BY DEF SvcTypeOK
    <2>2. DOMAIN pastStore[m] = 1..Len(pastStore[m]) /\ Len(pastStore[m]) \in Nat
      BY <2>1
    <2>3. IsFiniteSet(DOMAIN pastStore[m])
      BY <2>2, FS_Interval
    <2> QED
      BY <2>3, FS_Subset DEF Copies
  <1>2. IsFiniteSet(RegsUpTo(m, e))
    BY RegLogsType, FS_Subset DEF RegsUpTo
  <1>3. IsFiniteSet(Served(m, e)) /\ Served(m, e) \subseteq RegsUpTo(m, e)
    BY <1>2, FS_Subset DEF Served
  <1> QED
    BY <1>1, <1>2, <1>3, FS_CardinalityType

\* The registrations of a manager stay on the chain.
LEMMA RegLogsStay ==
    ASSUME SvcTypeOK, SvcTypeOK', [SvcNext]_svcVars, NEW m
    PROVE  RegLogsOf(m) \subseteq RegLogsOf(m)' /\ Len(chain) <= Len(chain') /\ Len(chain') \in Nat
  <1>1. CASE chain' = chain
    BY <1>1 DEF RegLogsOf, OnChain, LogAt, SvcTypeOK
  <1>2. ASSUME NEW body \in BlockBodies, AppendBlock(body)
        PROVE RegLogsOf(m) \subseteq RegLogsOf(m)' /\ Len(chain) <= Len(chain') /\ Len(chain') \in Nat
    <2>1. /\ \A n \in DOMAIN chain : n \in DOMAIN chain' /\ chain'[n] = chain[n]
          /\ Len(chain') = Len(chain) + 1 /\ Len(chain) \in Nat
      BY <1>2, AppendLogs
    <2>2. \A e : e \in OnChain => e \in OnChain' /\ LogAt(e)' = LogAt(e)
      BY <2>1 DEF OnChain, LogAt
    <2> QED
      BY <2>1, <2>2 DEF RegLogsOf
  <1>3. chain' = chain \/ \E body \in BlockBodies : AppendBlock(body)
    BY DEF SvcNext, BlockThread, CheckEvents, DeployEventHandler, RegEventHandler,
       RegEventStore, RegEventListen, NotifyPastFind, NotifyPastPush, BlockDone, BlockThrow,
       GetPastEventsBegin, GetPastEventsEnd, svcVars
  <1> QED
    BY <1>1, <1>2, <1>3

\* The elements of a sequence.
LEMMA RangeIn ==
    ASSUME NEW S, NEW s \in Seq(S)
    PROVE  /\ \A e \in Range(s) : e \in S
           /\ \A i \in DOMAIN s : s[i] \in Range(s)
           /\ s = <<>> <=> Range(s) = {}
           /\ DOMAIN s = 1..Len(s) /\ Len(s) \in Nat
  <1>1. DOMAIN s = 1..Len(s) /\ Len(s) \in Nat /\ \A i \in DOMAIN s : s[i] \in S
    OBVIOUS
  <1>2. s = <<>> <=> DOMAIN s = {}
    BY <1>1
  <1> QED
    BY <1>1, <1>2 DEF Range

\* A queue that is not touched stays counted while its listeners get on.
LEMMA CountedQuiet ==
    ASSUME SvcTypeOK, SvcTypeOK',
           NEW m \in DOMAIN pastStore, Counted(m),
           m \in DOMAIN pastStore', pastStore'[m] = pastStore[m],
           Len(chain) <= Len(chain'),
           blkPc' = "fetch" => blkPc = "fetch" \/ Len(chain) < Len(chain'),
           Pushing(m)' => Pushing(m) /\ UNCHANGED <<chain, cur>>,
           \A r : PastListener(m, r) \in listeners => PastListener(m, r) \in listeners',
           \A e \in Event :
              (Copies(m, e) = {} /\ ~Pushing(m)') \/ Served(m, e) \subseteq Served(m, e)'
    PROVE  Counted(m)'
  <1>1. \A e : Copies(m, e)' = Copies(m, e)
    BY DEF Copies
  <1>2. \A e \in Event : Pending(m, e)' <= Pending(m, e) /\ Pending(m, e) \in {0, 1} /\ Pending(m, e)' \in {0, 1}
    BY DEF Pending, Here
  <1>3. ASSUME NEW e \in Event
        PROVE  Cardinality(Copies(m, e)') + Pending(m, e)' <= Cardinality(Served(m, e)')
    <2>1. CountsMeaning /\ CountsMeaning'
      BY CountsFinite, PTL
    <2>2. /\ IsFiniteSet(Served(m, e)') /\ Cardinality(Served(m, e)') \in Nat
          /\ Cardinality(Served(m, e)) \in Nat /\ Cardinality(Copies(m, e)) \in Nat
      BY <2>1 DEF CountsMeaning
    <2>3. Cardinality(Copies(m, e)) + Pending(m, e) <= Cardinality(Served(m, e))
      BY DEF Counted
    <2>4. CASE Served(m, e) \subseteq Served(m, e)'
      <3>1. Cardinality(Served(m, e)) <= Cardinality(Served(m, e)')
        BY <2>2, <2>4, FS_Subset
      <3> QED
        <4>1. Pending(m, e)' <= Pending(m, e) /\ Pending(m, e) \in Nat /\ Pending(m, e)' \in Nat
          BY <1>2
        <4>2. Cardinality(Copies(m, e)') = Cardinality(Copies(m, e))
          BY <1>1
        <4> QED
          BY <2>2, <2>3, <3>1, <4>1, <4>2
    <2>5. CASE Copies(m, e) = {} /\ ~Pushing(m)'
      <3>1. Pending(m, e)' = 0
        BY <2>5 DEF Pending
      <3>2. Copies(m, e)' = {}
        BY <1>1, <2>5
      <3>3. Cardinality(Copies(m, e)') = 0
        BY <3>2, FS_EmptySet
      <3> QED
        BY <2>2, <3>1, <3>3
    <2> QED
      BY <2>4, <2>5
  <1>4. Len(chain) \in Nat /\ Len(chain') \in Nat /\ pastStore[m] \in Seq(Event)
    <2>1. chain \in Seq(BlockBodies) /\ chain' \in Seq(BlockBodies) /\ pastStore[m] \in Seq(Event)
      BY DEF SvcTypeOK
    <2> QED
      BY <2>1
  <1>5. \A e \in Range(pastStore[m]) : e.blk \in Nat
    <2>1. \A e \in Range(pastStore[m]) : e \in Event
      BY <1>4, RangeIn
    <2> QED
      BY <2>1 DEF Event
  <1> QED
    BY <1>3, <1>4, <1>5 DEF Counted

\* Listeners of different registrations differ.
LEMMA ListenersDiffer ==
    \A m, r, n, s : PastListener(m, r) = PastListener(n, s) => m = n /\ r = s
  BY DEF PastListener

\* A listener for past events is that of a registration.
LEMMA PastKind ==
    ASSUME NEW l \in Listener, l.kind = "past"
    PROVE  l.em \in EvMgrs /\ l.at \in Event /\ l = PastListener(l.em, l.at)
  BY DEF Listener, DeployListener, RegListener, PastListener

\* What NotifyPastFind takes up, in terms of the registration behind it.
LEMMA FindActs ==
    ASSUME TypeInv, ListenInv, NEW l \in listeners, NEW i \in DOMAIN Body, NotifyPastFind(l, i)
    PROVE  \E r \in Event :
              /\ Body[i].em \in EvMgrs /\ l = PastListener(Body[i].em, r)
              /\ r \in RegsUpTo(Body[i].em, Here(i))
              /\ <<l, i>> \in todo /\ todo' = todo \ {<<l, i>>}
              /\ \A j \in DOMAIN Body : <<l, j>> \in todo => i <= j
              /\ cur' = i /\ blkPc = "check" /\ Here(i) \in Event /\ i \in Nat
              /\ blkPc' = IF Body[i].em \in DOMAIN pastStore THEN "push" ELSE "check"
              /\ UNCHANGED <<chain, listeners, pastStore>>
  <1>0. SvcTypeOK /\ TodoOK
    BY DEF TypeInv
  <1>1. /\ l.kind = "past" /\ <<l, i>> \in todo /\ todo' = todo \ {<<l, i>>}
        /\ \A j \in DOMAIN Body : <<l, j>> \in todo => i <= j
        /\ cur' = i /\ blkPc = "check"
        /\ blkPc' = IF Body[i].em \in DOMAIN pastStore THEN "push" ELSE "check"
        /\ UNCHANGED <<chain, listeners, pastStore>>
    BY DEF NotifyPastFind, IsNext
  <1>2. l \in Listener /\ l.em \in EvMgrs /\ l.at \in Event /\ l = PastListener(l.em, l.at)
    BY <1>0, <1>1, PastKind DEF SvcTypeOK
  <1>3. l.em = Body[i].em
    BY <1>0, <1>1 DEF TodoOK, Matches
  <1>4. IsLog(l.at, "reg") /\ LogAt(l.at).em = l.em
    BY <1>2 DEF ListenInv
  <1>5. l.at \in RegsUpTo(l.em, Here(i))
    <2>1. l.at \in RegLogsOf(l.em)
      BY <1>0, <1>2, <1>4, RegLogsType
    <2>2. l.at.blk <= Len(chain)
      BY <1>0, <1>4 DEF IsLog, SvcTypeOK
    <2> QED
      BY <2>1, <2>2 DEF RegsUpTo, Here
  <1>6. Here(i) \in Event /\ i \in Nat
    BY <1>0, LogType
  <1> QED
    BY <1>1, <1>2, <1>3, <1>5, <1>6

\* An event is taken up by one listener and is about to be pushed.
LEMMA CountedFind ==
    ASSUME TypeInv, SvcTypeOK', ListenInv, OrderedInv,
           NEW l \in listeners, NEW i \in DOMAIN Body, NotifyPastFind(l, i),
           NEW m \in DOMAIN pastStore
    PROVE  Counted(m)'
  <1>0. SvcTypeOK /\ Counted(m) /\ CountsMeaning /\ CountsMeaning'
    <2>1. CountsMeaning /\ CountsMeaning'
      BY CountsFinite, PTL
    <2> QED
      BY <2>1 DEF TypeInv, OrderedInv
  <1> DEFINE b == Body[i].em
             x == Here(i)
  <1>1. PICK r \in Event :
              /\ b \in EvMgrs /\ l = PastListener(b, r)
              /\ r \in RegsUpTo(b, x)
              /\ <<l, i>> \in todo /\ todo' = todo \ {<<l, i>>}
              /\ cur' = i /\ blkPc = "check" /\ x \in Event
              /\ blkPc' = IF b \in DOMAIN pastStore THEN "push" ELSE "check"
              /\ UNCHANGED <<chain, listeners, pastStore>>
    BY FindActs
  <1>2. Body' = Body /\ ~Pushing(m) /\ (Pushing(m)' => m = b) /\ x' = x
    BY <1>1 DEF Body, Pushing, Here
  <1>3. \A e : /\ RegsUpTo(m, e)' = RegsUpTo(m, e) /\ Copies(m, e)' = Copies(m, e)
               /\ Served(m, e) \subseteq Served(m, e)'
    BY <1>1 DEF RegsUpTo, RegLogsOf, OnChain, LogAt, Served, Copies
  <1>4. CASE ~Pushing(m)'
    BY <1>0, <1>1, <1>3, <1>4, CountedQuiet DEF SvcTypeOK
  <1>5. CASE Pushing(m)'
    <2>1. m = b
      BY <1>2, <1>5
    <2>2. \A e : e = x => r \in Served(m, e)' /\ r \notin Served(m, e)
      BY <1>1, <1>3, <2>1 DEF Served, Here
    <2>3. ASSUME NEW e \in Event
          PROVE  Cardinality(Copies(m, e)') + Pending(m, e)' <= Cardinality(Served(m, e)')
      <3>1. /\ IsFiniteSet(Served(m, e)') /\ Cardinality(Served(m, e)') \in Nat
            /\ IsFiniteSet(Served(m, e))
            /\ Cardinality(Served(m, e)) \in Nat /\ Cardinality(Copies(m, e)) \in Nat
        BY <1>0, <1>1 DEF CountsMeaning
      <3>2. Cardinality(Copies(m, e)) <= Cardinality(Served(m, e))
        <4>1. Pending(m, e) = 0
          BY <1>2 DEF Pending
        <4> QED
          BY <1>0, <3>1, <4>1 DEF Counted
      <3>3. Cardinality(Copies(m, e)') = Cardinality(Copies(m, e))
        BY <1>3
      <3>4. CASE e = x
        <4>1. Served(m, e) \cup {r} \subseteq Served(m, e)'
          BY <1>3, <2>2, <3>4
        <4>2. Cardinality(Served(m, e) \cup {r}) = Cardinality(Served(m, e)) + 1
          BY <2>2, <3>1, <3>4, FS_AddElement
        <4>3. Cardinality(Served(m, e) \cup {r}) <= Cardinality(Served(m, e)')
          BY <3>1, <4>1, FS_Subset
        <4>4. Pending(m, e)' \in {0, 1}
          BY DEF Pending
        <4> QED
          BY <3>1, <3>2, <3>3, <4>2, <4>3, <4>4
      <3>5. CASE e # x
        <4>1. Pending(m, e)' = 0
          BY <1>1, <1>2, <3>5 DEF Pending, Here
        <4>2. Cardinality(Served(m, e)) <= Cardinality(Served(m, e)')
          BY <1>3, <3>1, FS_Subset
        <4> QED
          BY <3>1, <3>2, <3>3, <4>1, <4>2
      <3> QED
        BY <3>4, <3>5
    <2>4. PastListener(m, r) \in listeners'
      BY <1>1, <2>1
    <2> QED
      BY <1>0, <1>1, <2>3, <2>4 DEF Counted
  <1> QED
    BY <1>4, <1>5

\* Pushing adds one copy of the event that was taken up.
LEMMA CountedPush ==
    ASSUME TypeInv, SvcTypeOK', OrderedInv, NotifyPastPush, NEW m \in DOMAIN pastStore
    PROVE  Counted(m)'
  <1>0. SvcTypeOK /\ Counted(m) /\ CurOK /\ CountsMeaning /\ CountsMeaning'
    <2>1. CountsMeaning /\ CountsMeaning'
      BY CountsFinite, PTL
    <2> QED
      BY <2>1 DEF TypeInv, OrderedInv
  <1> DEFINE b == Body[cur].em
             x == Here(cur)
  <1>1. /\ blkPc = "push" /\ blkPc' = "check" /\ UNCHANGED <<chain, cur, listeners, todo>>
        /\ pastStore' = [pastStore EXCEPT ![b] = Append(pastStore[b], x)]
        /\ cur \in DOMAIN Body /\ b \in DOMAIN pastStore
    BY <1>0 DEF NotifyPastPush, PushBack, CurOK
  <1>2. /\ ~Pushing(m)' /\ DOMAIN pastStore' = DOMAIN pastStore /\ x \in Event
        /\ x.blk = Len(chain)
    BY <1>0, <1>1, LogType DEF Pushing, Here
  <1>3. \A e : Served(m, e)' = Served(m, e)
    BY <1>1 DEF RegsUpTo, RegLogsOf, OnChain, LogAt, Served
  <1>4. CASE m # b
    <2>1. pastStore'[m] = pastStore[m]
      BY <1>1, <1>4
    <2> QED
      BY <1>0, <1>1, <1>2, <1>3, <2>1, CountedQuiet DEF SvcTypeOK
  <1>5. CASE m = b
    <2> DEFINE s == pastStore[m]
               sx == Append(s, x)
    <2>1. s \in Seq(Event) /\ pastStore'[m] = sx /\ Pushing(m)
      BY <1>0, <1>1, <1>5 DEF SvcTypeOK, Pushing
    <2>2. /\ Len(s) \in Nat /\ DOMAIN s = 1..Len(s) /\ DOMAIN sx = 1..(Len(s) + 1)
          /\ \A j \in DOMAIN s : sx[j] = s[j] /\ s[j] \in Range(s)
          /\ sx[Len(s) + 1] = x /\ Range(sx) = Range(s) \cup {x}
      BY <1>2, <2>1, RangeIn, RangeAppend
    <2>3. \A e \in Range(s) : e.blk <= Len(chain) /\ e \in Event
      BY <1>0, <2>1, RangeIn DEF Counted
    <2>4. Len(chain) \in Nat
      BY <1>0 DEF SvcTypeOK
    <2>5. \A e \in Range(pastStore'[m]) : e.blk <= Len(chain')
      <3>1. \A e \in Range(sx) : e.blk <= Len(chain)
        BY <1>2, <2>2, <2>3, <2>4
      <3> HIDE DEF sx
      <3> QED
        BY <1>1, <2>1, <3>1
    <2>6. \A j, k \in DOMAIN pastStore'[m] : j < k => pastStore'[m][j].blk <= pastStore'[m][k].blk
      <3>1. \A j, k \in DOMAIN s : j < k => s[j].blk <= s[k].blk
        BY <1>0 DEF Counted
      <3> HIDE DEF s, sx
      <3> QED
        BY <1>2, <2>1, <2>2, <2>3, <3>1
    <2>7. ASSUME NEW e \in Event
          PROVE  Cardinality(Copies(m, e)') + Pending(m, e)' <= Cardinality(Served(m, e)')
      <3>1. /\ IsFiniteSet(Copies(m, e)) /\ Cardinality(Copies(m, e)) \in Nat
            /\ Cardinality(Served(m, e)) \in Nat
            /\ Cardinality(Copies(m, e)) + Pending(m, e) <= Cardinality(Served(m, e))
        BY <1>0 DEF CountsMeaning, Counted
      <3>2. Pending(m, e)' = 0 /\ Cardinality(Served(m, e)') = Cardinality(Served(m, e))
        BY <1>2, <1>3 DEF Pending
      <3>3. CASE e = x
        <4>1. Copies(m, e)' = Copies(m, e) \cup {Len(s) + 1}
          BY <2>1, <2>2, <3>3 DEF Copies
        <4>2. Len(s) + 1 \notin Copies(m, e)
          BY <2>2 DEF Copies
        <4>3. Cardinality(Copies(m, e)') = Cardinality(Copies(m, e)) + 1
          BY <3>1, <4>1, <4>2, FS_AddElement
        <4>4. Pending(m, e) = 1
          BY <2>1, <3>3 DEF Pending
        <4> QED
          BY <3>1, <3>2, <4>3, <4>4
      <3>4. CASE e # x
        <4>1. Copies(m, e)' = Copies(m, e)
          BY <2>1, <2>2, <3>4 DEF Copies
        <4>2. Cardinality(Copies(m, e)') = Cardinality(Copies(m, e))
          BY <4>1
        <4>3. Pending(m, e) = 0
          BY <3>4 DEF Pending
        <4> QED
          BY <3>1, <3>2, <4>2, <4>3
      <3> QED
        BY <3>3, <3>4
    <2>8. \E r \in Event : PastListener(m, r) \in listeners'
      BY <1>0, <1>1, <2>1 DEF Counted
    <2> QED
      BY <1>1, <2>5, <2>6, <2>7, <2>8 DEF Counted
  <1> QED
    BY <1>4, <1>5

\* What RegEventListen adds is a listener that was not there.
LEMMA ListenActs ==
    ASSUME TypeInv, ListenInv, NEW k \in 0..Len(Body), RegEventListen(k)
    PROVE  \E b \in EvMgrs : \E at \in RegLogsOf(b) :
              /\ at \in Event /\ PastListener(b, at) \notin listeners
              /\ listeners' = listeners \cup {PastListener(b, at)}
              /\ \A c \in todo' : c \in todo \/ c[1] = PastListener(b, at)
              /\ todo \subseteq todo'
              /\ blkPc = "regListen" /\ blkPc' = "check" /\ UNCHANGED <<chain, cur, pastStore>>
  <1> DEFINE b == Body[cur].em
             at == Here(cur)
  <1>0. SvcTypeOK /\ CurOK
    BY DEF TypeInv
  <1>1. /\ listeners' = listeners \cup {PastListener(b, at)}
        /\ todo' = todo \cup JoinFrom(PastListener(b, at), k)
        /\ blkPc = "regListen" /\ blkPc' = "check" /\ UNCHANGED <<chain, cur, pastStore>>
    BY DEF RegEventListen
  <1>2. cur \in DOMAIN Body /\ Body[cur].type = "reg" /\ b \in EvMgrs /\ at \in Event
    BY <1>0, <1>1, LogType DEF CurOK
  <1>3. chain # <<>> /\ Len(chain) \in DOMAIN chain /\ Body = chain[Len(chain)]
    BY <1>0, <1>2, BodyType DEF Body, SvcTypeOK
  <1>4. at \in RegLogsOf(b)
    BY <1>0, <1>2, <1>3, RegLogsType DEF IsLog, LogAt, Here
  <1>5. PastListener(b, at) \notin listeners
    BY <1>1, <1>2 DEF ListenInv, UnderCheck, Here
  <1>6. \A c \in todo' : c \in todo \/ c[1] = PastListener(b, at)
    BY <1>1 DEF JoinFrom
  <1> QED
    BY <1>1, <1>2, <1>4, <1>5, <1>6

\* Each step keeps the copies counted.
LEMMA CountedStep ==
    ASSUME TypeInv, TypeInv', ListenInv, OrderedInv, [SvcNext]_svcVars, NEW m \in DOMAIN pastStore'
    PROVE  Counted(m)'
  <1>0. SvcTypeOK /\ SvcTypeOK' /\ TodoOK
    BY DEF TypeInv
  <1>q. ASSUME pastStore' = pastStore, UNCHANGED chain, blkPc' = "fetch" => blkPc = "fetch",
               Pushing(m)' => Pushing(m) /\ cur' = cur,
               \A r : PastListener(m, r) \in listeners => PastListener(m, r) \in listeners',
               \A r, i : PastListener(m, r) \in listeners /\ <<PastListener(m, r), i>> \in todo'
                            => <<PastListener(m, r), i>> \in todo
        PROVE  Counted(m)'
    <2>1. \A e : Served(m, e) \subseteq Served(m, e)'
      BY <1>q DEF RegsUpTo, RegLogsOf, OnChain, LogAt, Served
    <2> QED
      BY <1>0, <1>q, <2>1, CountedQuiet DEF OrderedInv, SvcTypeOK
  <1>b. UNCHANGED chain => Body' = Body
    BY DEF Body
  <1>c. \A e \in Event : Counted(m) /\ Copies(m, e) # {} =>
            e.blk <= Len(chain) /\ (blkPc = "fetch" => e.blk < Len(chain))
    BY DEF Counted, Copies, Range
  <1>1. ASSUME NEW body \in BlockBodies, AppendBlock(body) PROVE Counted(m)'
    <2>1. /\ blkPc' = "fetch" /\ pastStore' = pastStore /\ listeners' = listeners /\ todo' = {}
          /\ Len(chain') = Len(chain) + 1 /\ Len(chain) \in Nat
      BY <1>0, <1>1, AppendLogs DEF AppendBlock, TodoOK
    <2>2. RegLogsOf(m) \subseteq RegLogsOf(m)' /\ \A r : r \in RegLogsOf(m) => r \in RegLogsOf(m)'
      BY <1>0, RegLogsStay
    <2>3. \A e : Served(m, e) \subseteq Served(m, e)'
      BY <2>1, <2>2 DEF Served, RegsUpTo
    <2> QED
      BY <1>0, <2>1, <2>3, CountedQuiet DEF OrderedInv, Pushing
  <1>2. CASE CheckEvents
    <2>1. /\ blkPc = "fetch" /\ blkPc' = "check" /\ pastStore' = pastStore /\ UNCHANGED <<chain, listeners>>
      BY <1>2 DEF CheckEvents
    <2>2. Counted(m) /\ ~Pushing(m)' /\ Len(chain) \in Nat
      BY <1>0, <2>1 DEF OrderedInv, Pushing, SvcTypeOK
    <2>3. ASSUME NEW e \in Event, Copies(m, e) # {} PROVE Served(m, e) \subseteq Served(m, e)'
      <3>1. e.blk # Len(chain)
        BY <1>c, <2>1, <2>2, <2>3 DEF Event
      <3> QED
        BY <2>1, <3>1 DEF RegsUpTo, RegLogsOf, OnChain, LogAt, Served
    <2> QED
      BY <1>0, <2>1, <2>2, <2>3, CountedQuiet
  <1>3. ASSUME NEW i \in DOMAIN Body, NEW k \in 0..Len(Body), DeployEventHandler(i, k)
        PROVE  Counted(m)'
    BY <1>3, <1>q, Kinds DEF DeployEventHandler, AfterDeploy, JoinFrom, Pushing
  <1>4. ASSUME NEW i \in DOMAIN Body, RegEventHandler(i) PROVE Counted(m)'
    BY <1>4, <1>q DEF RegEventHandler, Pushing
  <1>5. CASE RegEventStore
    <2> DEFINE b == Body[cur].em
    <2>1. /\ UNCHANGED <<chain, listeners, todo, cur>> /\ blkPc = "regStore" /\ blkPc' = "regListen"
          /\ DOMAIN pastStore' = DOMAIN pastStore \cup {b}
          /\ pastStore'[m] = IF m \in DOMAIN pastStore THEN pastStore[m] ELSE <<>>
      BY <1>5 DEF RegEventStore, Emplace
    <2>2. CASE m \in DOMAIN pastStore
      <3>1. \A e : Served(m, e) \subseteq Served(m, e)'
        BY <2>1 DEF RegsUpTo, RegLogsOf, OnChain, LogAt, Served
      <3> QED
        BY <1>0, <2>1, <2>2, <3>1, CountedQuiet DEF OrderedInv, SvcTypeOK, Pushing
    <2>3. CASE m \notin DOMAIN pastStore
      <3>1. pastStore'[m] = <<>> /\ ~Pushing(m)'
        BY <2>1, <2>3 DEF Pushing
      <3>2. CountsMeaning'
        BY CountsFinite, PTL
      <3>3. ASSUME NEW e \in Event
            PROVE  Cardinality(Copies(m, e)') + Pending(m, e)' <= Cardinality(Served(m, e)')
        <4>1. Copies(m, e)' = {} /\ Pending(m, e)' = 0
          BY <3>1 DEF Copies, Pending
        <4>2. Cardinality(Copies(m, e)') = 0
          BY <4>1, FS_EmptySet
        <4>3. Cardinality(Served(m, e)') \in Nat
          BY <1>0, <3>2 DEF CountsMeaning
        <4> QED
          BY <4>1, <4>2, <4>3
      <3>4. Range(pastStore'[m]) = {} /\ DOMAIN pastStore'[m] = {}
        BY <3>1 DEF Range
      <3> QED
        BY <3>1, <3>3, <3>4 DEF Counted
    <2> QED
      BY <2>2, <2>3
  <1>6. ASSUME NEW k \in 0..Len(Body), RegEventListen(k) PROVE Counted(m)'
    <2>1. PICK b \in EvMgrs : \E at \in RegLogsOf(b) :
              /\ at \in Event /\ PastListener(b, at) \notin listeners
              /\ listeners' = listeners \cup {PastListener(b, at)}
              /\ \A c \in todo' : c \in todo \/ c[1] = PastListener(b, at)
              /\ blkPc = "regListen" /\ blkPc' = "check" /\ UNCHANGED <<chain, cur, pastStore>>
      BY <1>6, ListenActs
    <2> QED
      BY <1>q, <2>1 DEF Pushing
  <1>7. ASSUME NEW l \in listeners, NEW i \in DOMAIN Body, NotifyPastFind(l, i) PROVE Counted(m)'
    <2>1. m \in DOMAIN pastStore
      BY <1>7 DEF NotifyPastFind
    <2> QED
      BY <1>0, <1>7, <2>1, CountedFind
  <1>8. CASE NotifyPastPush
    <2>1. m \in DOMAIN pastStore
      BY <1>8 DEF NotifyPastPush
    <2> QED
      BY <1>0, <1>8, <2>1, CountedPush
  <1>9. CASE BlockDone
    BY <1>9, <1>q DEF BlockDone, Pushing
  <1>10. CASE BlockThrow
    BY <1>10, <1>q DEF BlockThrow, Pushing
  <1>11. ASSUME NEW r \in Readers, NEW n \in EvMgrs, GetPastEventsBegin(r, n) PROVE Counted(m)'
    BY <1>11, <1>b, <1>q DEF GetPastEventsBegin, Pushing
  <1>12. ASSUME NEW r \in Readers, GetPastEventsEnd(r) PROVE Counted(m)'
    BY <1>12, <1>b, <1>q DEF GetPastEventsEnd, Pushing
  <1>13. CASE UNCHANGED svcVars
    BY <1>13, <1>b, <1>q DEF svcVars, Pushing
  <1> QED
    BY <1>1, <1>2, <1>3, <1>4, <1>5, <1>6, <1>7, <1>8, <1>9, <1>10, <1>11, <1>12, <1>13
    DEF SvcNext, BlockThread

\* Nothing that the order of a queue depends on changes.
LEMMA InLineQuiet ==
    ASSUME NEW m, InLine(m), UNCHANGED chain, pastStore'[m] = pastStore[m],
           Pushing(m)' => Pushing(m) /\ cur' = cur,
           \A r, i : <<PastListener(m, r), i>> \in todo' => <<PastListener(m, r), i>> \in todo
    PROVE  InLine(m)'
  <1>1. Body' = Body /\ \A i : Here(i)' = Here(i)
    BY DEF Body, Here
  <1>2. \A i : PastDue(m, i)' => PastDue(m, i)
    BY DEF PastDue
  <1>3. Pushing(m)' => Here(cur)' = Here(cur)
    BY DEF Here
  <1> QED
    BY <1>1, <1>2, <1>3 DEF InLine

\* Each step keeps the queue of a manager registered once in chain order.
LEMMA InLineStep ==
    ASSUME TypeInv, TypeInv', ListenInv, OrderedInv, [SvcNext]_svcVars,
           NEW m \in DOMAIN pastStore', Alone(m)'
    PROVE  InLine(m)'
  <1>0. SvcTypeOK /\ SvcTypeOK' /\ TodoOK /\ CurOK
    BY DEF TypeInv
  <1>a. Alone(m)
    BY <1>0, RegLogsStay DEF Alone
  <1>i. m \in DOMAIN pastStore => InLine(m) /\ Counted(m)
    BY <1>a DEF OrderedInv
  <1>b. UNCHANGED chain => Body' = Body
    BY DEF Body
  <1>e. ASSUME pastStore'[m] = <<>>, ~Pushing(m)' PROVE InLine(m)'
    <2>1. Range(pastStore'[m]) = {} /\ DOMAIN pastStore'[m] = {}
      BY <1>e DEF Range
    <2> QED
      BY <1>e, <2>1 DEF InLine, Increasing
  <1>1. ASSUME NEW body \in BlockBodies, AppendBlock(body) PROVE InLine(m)'
    <2>1. /\ blkPc' = "fetch" /\ pastStore' = pastStore /\ todo' = {}
      BY <1>0, <1>1 DEF AppendBlock, TodoOK
    <2> QED
      BY <1>i, <2>1 DEF InLine, PastDue, Pushing
  <1>2. CASE CheckEvents
    <2>1. /\ blkPc = "fetch" /\ blkPc' = "check" /\ pastStore' = pastStore /\ UNCHANGED chain
      BY <1>2 DEF CheckEvents
    <2>2. \A i, e : e \in Range(pastStore[m]) => Before(e, Here(i)) /\ Before(e, Here(i))'
      BY <1>i, <2>1 DEF Counted, Before, Here
    <2> QED
      BY <1>i, <2>1, <2>2 DEF InLine, Pushing
  <1>3. ASSUME NEW i \in DOMAIN Body, NEW k \in 0..Len(Body), DeployEventHandler(i, k)
        PROVE  InLine(m)'
    BY <1>3, <1>i, InLineQuiet, Kinds DEF DeployEventHandler, JoinFrom, Pushing
  <1>4. ASSUME NEW i \in DOMAIN Body, RegEventHandler(i) PROVE InLine(m)'
    BY <1>4, <1>i, InLineQuiet DEF RegEventHandler, Pushing
  <1>5. CASE RegEventStore
    <2>1. /\ UNCHANGED <<chain, todo, cur>> /\ blkPc = "regStore" /\ blkPc' = "regListen"
          /\ pastStore'[m] = IF m \in DOMAIN pastStore THEN pastStore[m] ELSE <<>>
      BY <1>5 DEF RegEventStore, Emplace
    <2> QED
      BY <1>e, <1>i, <2>1, InLineQuiet DEF Pushing
  <1>6. ASSUME NEW k \in 0..Len(Body), RegEventListen(k) PROVE InLine(m)'
    <2>1. PICK b \in EvMgrs, at \in Event :
              /\ at \in RegLogsOf(b) /\ PastListener(b, at) \notin listeners
              /\ listeners' = listeners \cup {PastListener(b, at)}
              /\ \A c \in todo' : c \in todo \/ c[1] = PastListener(b, at)
              /\ blkPc = "regListen" /\ blkPc' = "check" /\ UNCHANGED <<chain, cur, pastStore>>
      BY <1>6, ListenActs
    <2>2. CASE m # b
      BY <1>i, <2>1, <2>2, InLineQuiet, ListenersDiffer DEF Pushing
    <2>3. CASE m = b
      <3>1. \A r \in Event : PastListener(m, r) \notin listeners
        <4>1. \A r \in Event : PastListener(m, r) \in listeners => r \in RegLogsOf(m)
          BY <1>0, <2>3, RegLogsType DEF ListenInv
        <4> QED
          BY <1>a, <2>1, <2>3, <4>1 DEF Alone
      <3>2. pastStore[m] = <<>>
        BY <1>i, <2>1, <3>1 DEF Counted
      <3> QED
        BY <1>e, <2>1, <3>2 DEF Pushing
    <2> QED
      BY <2>2, <2>3
  <1>7. ASSUME NEW l \in listeners, NEW i \in DOMAIN Body, NotifyPastFind(l, i) PROVE InLine(m)'
    <2>1. PICK r \in Event :
              /\ Body[i].em \in EvMgrs /\ l = PastListener(Body[i].em, r)
              /\ r \in RegsUpTo(Body[i].em, Here(i))
              /\ <<l, i>> \in todo /\ todo' = todo \ {<<l, i>>}
              /\ \A j \in DOMAIN Body : <<l, j>> \in todo => i <= j
              /\ cur' = i /\ blkPc = "check" /\ i \in Nat
              /\ UNCHANGED <<chain, listeners, pastStore>>
      BY <1>0, <1>7, FindActs DEF TypeInv
    <2>2. Body' = Body /\ (Pushing(m)' => m = Body[i].em) /\ \A j : Here(j)' = Here(j)
      BY <2>1 DEF Body, Pushing, Here
    <2>3. CASE ~Pushing(m)'
      BY <1>i, <2>1, <2>3, InLineQuiet
    <2>4. CASE Pushing(m)'
      <3>1. m = Body[i].em /\ InLine(m) /\ PastDue(m, i) /\ r \in RegLogsOf(m)
        BY <1>i, <2>1, <2>2, <2>4 DEF PastDue, RegsUpTo
      <3>2. \A s \in Event : PastListener(m, s) \in listeners => s = r
        <4>1. \A s \in Event : PastListener(m, s) \in listeners => s \in RegLogsOf(m)
          BY <1>0, <2>1, <3>1, RegLogsType DEF ListenInv
        <4> QED
          BY <1>a, <3>1, <4>1 DEF Alone
      <3>3. ASSUME NEW j \in DOMAIN Body, PastDue(m, j)' PROVE PastDue(m, j) /\ i < j
        <4>1. PICK s \in Event : <<PastListener(m, s), j>> \in todo'
          BY <3>3 DEF PastDue
        <4>2. <<PastListener(m, s), j>> \in todo /\ PastListener(m, s) \in listeners
          BY <2>1, <4>1 DEF ListenInv
        <4>3. <<l, j>> \in todo /\ <<l, j>> # <<l, i>>
          BY <2>1, <3>1, <3>2, <4>1, <4>2
        <4>4. i <= j /\ j # i /\ j \in Nat
          BY <1>0, <2>1, <4>3, BodyType
        <4> QED
          BY <2>1, <4>2, <4>4 DEF PastDue
      <3>4. \A e \in Range(pastStore[m]) : Before(e, Here(i))
        BY <3>1 DEF InLine
      <3> QED
        BY <2>1, <2>2, <3>1, <3>3, <3>4 DEF InLine
    <2> QED
      BY <2>3, <2>4
  <1>8. CASE NotifyPastPush
    <2> DEFINE b == Body[cur].em
               x == Here(cur)
    <2>1. /\ blkPc = "push" /\ blkPc' = "check" /\ UNCHANGED <<chain, cur, todo>>
          /\ pastStore' = [pastStore EXCEPT ![b] = Append(pastStore[b], x)]
          /\ cur \in DOMAIN Body /\ b \in DOMAIN pastStore /\ m \in DOMAIN pastStore
      BY <1>0, <1>8 DEF NotifyPastPush, PushBack, CurOK
    <2>2. CASE m # b
      BY <1>i, <2>1, <2>2, InLineQuiet DEF Pushing
    <2>3. CASE m = b
      <3> DEFINE s == pastStore[m]
                 sx == Append(s, x)
      <3>1. s \in Seq(Event) /\ pastStore'[m] = sx /\ Pushing(m) /\ x \in Event
        BY <1>0, <2>1, <2>3, LogType DEF SvcTypeOK, Pushing
      <3>2. /\ Len(s) \in Nat /\ DOMAIN s = 1..Len(s) /\ DOMAIN sx = 1..(Len(s) + 1)
            /\ \A j \in DOMAIN s : sx[j] = s[j] /\ s[j] \in Range(s)
            /\ sx[Len(s) + 1] = x /\ Range(sx) = Range(s) \cup {x}
        BY <3>1, RangeIn, RangeAppend
      <3>3. /\ Increasing(s) /\ \A e \in Range(s) : Before(e, x)
            /\ \A j \in DOMAIN Body : PastDue(m, j) =>
                  cur < j /\ \A e \in Range(s) : Before(e, Here(j))
        BY <1>i, <2>1, <3>1 DEF InLine
      <3>4. Body' = Body /\ (\A j : Here(j)' = Here(j)) /\ (\A j : PastDue(m, j)' <=> PastDue(m, j))
        BY <2>1 DEF Body, Here, PastDue
      <3>5. \A j \in DOMAIN Body : cur < j => Before(x, Here(j))
        BY DEF Before, Here
      <3>6. ~Pushing(m)'
        BY <2>1 DEF Pushing
      <3> HIDE DEF s, sx, x
      <3>7. Increasing(sx)
        BY <3>2, <3>3 DEF Increasing
      <3>8. \A j \in DOMAIN Body : PastDue(m, j) => \A e \in Range(sx) : Before(e, Here(j))
        BY <3>2, <3>3, <3>5
      <3> QED
        BY <3>1, <3>4, <3>6, <3>7, <3>8 DEF InLine
    <2> QED
      BY <2>2, <2>3
  <1>9. CASE BlockDone
    BY <1>9, <1>i, InLineQuiet DEF BlockDone, Pushing
  <1>10. CASE BlockThrow
    BY <1>10, <1>i, InLineQuiet DEF BlockThrow, Pushing
  <1>11. ASSUME NEW r \in Readers, NEW n \in EvMgrs, GetPastEventsBegin(r, n) PROVE InLine(m)'
    BY <1>11, <1>b, <1>i, InLineQuiet DEF GetPastEventsBegin, Pushing
  <1>12. ASSUME NEW r \in Readers, GetPastEventsEnd(r) PROVE InLine(m)'
    BY <1>12, <1>b, <1>i, InLineQuiet DEF GetPastEventsEnd, Pushing
  <1>13. CASE UNCHANGED svcVars
    BY <1>13, <1>b, <1>i, InLineQuiet DEF svcVars, Pushing
  <1> QED
    BY <1>1, <1>2, <1>3, <1>4, <1>5, <1>6, <1>7, <1>8, <1>9, <1>10, <1>11, <1>12, <1>13
    DEF SvcNext, BlockThread

\* Past events are stored block after block, each no more often than its
\* manager was registered, and in chain order with a single registration, for
\* any number of managers, registrations and blocks.
THEOREM PastEventsOrdered == SvcSpec => []PastOrdered
  <1>1. SvcInit => CompleteInv /\ ListenInv /\ OrderedInv
    <2> SUFFICES ASSUME SvcInit PROVE ListenInv /\ OrderedInv
      BY CompleteInit
    <2>1. DOMAIN pastStore = {}
      BY DEF SvcInit
    <2>2. ListenInv
      BY Kinds DEF SvcInit, ListenInv
    <2> QED
      BY <2>1, <2>2 DEF OrderedInv
  <1>2. CompleteInv /\ ListenInv /\ OrderedInv /\ [SvcNext]_svcVars => (CompleteInv /\ ListenInv /\ OrderedInv)'
    <2> SUFFICES ASSUME CompleteInv, ListenInv, OrderedInv, [SvcNext]_svcVars
                 PROVE  (CompleteInv /\ ListenInv /\ OrderedInv)'
      OBVIOUS
    <2>1. CompleteInv'
      BY TypeStep, DeployStep, RegStep, EventStep DEF CompleteInv
    <2>2. ListenInv'
      BY ListenStep
    <2>3. OrderedInv'
      BY <2>1, CountedStep, InLineStep DEF CompleteInv, OrderedInv
    <2> QED
      BY <2>1, <2>2, <2>3
  <1>3. CompleteInv /\ OrderedInv => PastOrdered
    <2> SUFFICES ASSUME CompleteInv, OrderedInv, NEW m \in DOMAIN pastStore
                 PROVE  /\ \A i, j \in DOMAIN pastStore[m] :
                              i < j => pastStore[m][i].blk <= pastStore[m][j].blk
                        /\ \A e \in Range(pastStore[m]) :
                              Cardinality(Copies(m, e)) <= Cardinality(RegsUpTo(m, e))
                        /\ Cardinality(RegLogsOf(m)) = 1 => Increasing(pastStore[m])
      BY DEF PastOrdered
    <2>0. SvcTypeOK /\ Counted(m) /\ (Alone(m) => InLine(m)) /\ pastStore[m] \in Seq(Event)
      BY DEF CompleteInv, TypeInv, OrderedInv, SvcTypeOK
    <2>1. ASSUME NEW e \in Range(pastStore[m])
          PROVE  Cardinality(Copies(m, e)) <= Cardinality(RegsUpTo(m, e))
      <3>1. e \in Event
        BY <2>0, RangeIn
      <3>2. /\ IsFiniteSet(RegsUpTo(m, e)) /\ Cardinality(RegsUpTo(m, e)) \in Nat
            /\ Served(m, e) \subseteq RegsUpTo(m, e)
            /\ Cardinality(Served(m, e)) \in Nat /\ Cardinality(Copies(m, e)) \in Nat
        BY <2>0, <3>1, CountsFinite DEF CountsMeaning
      <3>3. Cardinality(Served(m, e)) <= Cardinality(RegsUpTo(m, e))
        BY <3>2, FS_Subset
      <3>4. Cardinality(Copies(m, e)) + Pending(m, e) <= Cardinality(Served(m, e)) /\ Pending(m, e) \in {0, 1}
        BY <2>0, <3>1 DEF Counted, Pending
      <3> QED
        BY <3>2, <3>3, <3>4
    <2>2. Cardinality(RegLogsOf(m)) = 1 => Alone(m)
      BY <2>0, RegLogsType, FS_Singleton DEF Alone
    <2> QED
      BY <2>0, <2>1, <2>2 DEF Counted, InLine
  <1> QED
    BY <1>1, <1>2, <1>3, PTL DEF SvcSpec
=============================================================================
