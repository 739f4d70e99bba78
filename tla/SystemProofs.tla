---------------------------- MODULE SystemProofs ----------------------------
(***************************************************************************)
(* Host and enclave agree on the blocks taken; each of the two does what   *)
(* its own module says; and the events of every block counted are stored   *)
(* and reach the subscribers.  For all constants.                          *)
(***************************************************************************)
EXTENDS System, TLAPS

Contents == {Content(h) : h \in Host!Header}

\* What the proofs need of the types.
Shape ==
    /\ currBlk \in Nat
    /\ hdr \in Host!Header
    /\ recv \in Seq(Host!Header)
    /\ chain \in Seq(Contents)
    /\ canon \in Seq(Nat)
    /\ reorgs \in Nat

\* Where the updator and the block thread are during each stage of the ECALL,
\* and by how much the enclave is ahead.
NoCall ==
    \/ updPc # "stopped" /\ blkPc = "idle" /\ Len(chain) = Len(recv)
    \/ updPc = "stopped" /\ blkPc = "stopped" /\ Len(chain) \in {Len(recv), Len(recv) + 1}

Begun ==
    /\ updPc = "push"
    /\ blkPc \in {"idle", "stopped"}
    /\ Len(chain) = Len(recv)

Appended ==
    /\ updPc = "push"
    /\ Len(chain) = Len(recv) + 1
    /\ chain[Len(chain)] = Content(hdr)

Stages ==
    \/ ecall = "none" /\ NoCall
    \/ ecall = "begun" /\ Begun
    \/ ecall = "appended" /\ Appended

SameContents == \A i \in 1..Len(recv) : chain[i] = Content(recv[i])

Counters ==
    /\ lastBlk = Len(chain)
    /\ updPc = "off" <=> currBlk = 0
    /\ updPc = "off" => Len(chain) = 0
    /\ updPc # "off" => currBlk = StartBlock + Len(recv) - (IF updPc = "count" THEN 1 ELSE 0)

\* Callbacks are due only while a block is under way.
Quiet == blkPc \in {"idle", "stopped"} => todo = {} /\ subTodo = {}

SystemInv == Shape /\ Stages /\ SameContents /\ Counters /\ Quiet

\* The start satisfies the invariant.
LEMMA InitInv == Init => SystemInv
  <1> SUFFICES ASSUME Init PROVE SystemInv
    OBVIOUS
  <1> USE StartAssumption DEF Init, Host!Init, Sub!Init, Sub!SvcInit
  <1>1. Shape
    BY DEF Shape, Host!Header, Host!NoHeader
  <1>2. Stages /\ SameContents /\ Counters /\ Quiet
    BY DEF Stages, NoCall, SameContents, Counters, Quiet
  <1> QED
    BY <1>1, <1>2 DEF SystemInv

\* The updator outside the ECALL: the enclave is idle meanwhile.
LEMMA UpdatorKeepsInv == SystemInv /\ UpdatorStep => SystemInv'
  <1> SUFFICES ASSUME SystemInv, UpdatorStep PROVE SystemInv'
    OBVIOUS
  <1>0. Shape /\ Stages /\ SameContents /\ Counters /\ Quiet
    BY DEF SystemInv
  <1>1. UNCHANGED <<svcVars, subVars, ecall, canon, reorgs, recv>>
    BY DEF UpdatorStep, Host!StartSendingBlocks, Host!Wake, Host!NothingNew, Host!GethFails, Host!AskLatest,
           Host!FetchHeader, Host!CountBlock, Host!TickFalse, Host!geth
  <1>2. /\ ecall = "none"
        /\ updPc \notin {"push", "stopped"}
        /\ updPc' \notin {"off", "stopped"}
    BY <1>0 DEF UpdatorStep, Host!StartSendingBlocks, Host!Wake, Host!NothingNew, Host!GethFails, Host!AskLatest,
           Host!FetchHeader, Host!CountBlock, Host!TickFalse, Host!NextTick, Stages,
           Begun, Appended, Counters
  <1>3. Stages' /\ SameContents' /\ Quiet'
    BY <1>0, <1>1, <1>2 DEF Stages, NoCall, SameContents, Quiet, svcVars, subVars
  <1>4. hdr' \in Host!Header
    <2>1. CASE Host!FetchHeader
      <3>1. currBlk \in 1..Len(canon)
        BY <1>0, <2>1, StartAssumption DEF Shape, Counters, Host!FetchHeader
      <3>2. canon[currBlk] \in Nat
        BY <1>0, <3>1 DEF Shape
      <3> QED
        BY <1>0, <2>1, <3>2 DEF Shape, Host!FetchHeader, Host!Header
    <2> QED
      BY <1>0, <2>1 DEF Shape, UpdatorStep, Host!StartSendingBlocks, Host!Wake, Host!NothingNew, Host!GethFails,
         Host!AskLatest, Host!CountBlock, Host!TickFalse, Host!upd
  <1>5. Counters' /\ currBlk' \in Nat
    <2>0. Len(recv) \in Nat /\ StartBlock \in Nat \ {0} /\ currBlk \in Nat
      BY <1>0, StartAssumption DEF Shape
    <2>1. CASE Host!CountBlock
      <3>1. currBlk' = currBlk + 1 /\ updPc = "count" /\ updPc' # "count"
        BY <2>1 DEF Host!CountBlock, Host!NextBlk, Host!NextTick
      <3> QED
        BY <1>0, <1>1, <1>2, <2>0, <3>1 DEF Counters, svcVars
    <2>2. CASE Host!StartSendingBlocks
      <3>1. currBlk = 0 /\ currBlk' = StartBlock /\ updPc' = "ask"
        BY <2>2 DEF Host!StartSendingBlocks
      <3>2. Len(recv) = 0
        BY <1>0, <1>2, <2>0, <3>1 DEF Counters, Stages, NoCall
      <3> QED
        BY <1>0, <1>1, <2>0, <3>1, <3>2 DEF Counters, svcVars
    <2>3. CASE ~Host!CountBlock /\ ~Host!StartSendingBlocks
      <3>1. currBlk' = currBlk /\ updPc # "count" /\ updPc' # "count"
        BY <2>3 DEF UpdatorStep, Host!Wake, Host!NothingNew, Host!GethFails, Host!AskLatest,
           Host!FetchHeader, Host!TickFalse, Host!NextTick
      <3>2. updPc # "off"
        BY <2>3 DEF UpdatorStep, Host!Wake, Host!NothingNew, Host!GethFails, Host!AskLatest,
           Host!FetchHeader
      <3> QED
        BY <1>0, <1>1, <1>2, <2>0, <3>1, <3>2 DEF Counters, svcVars
    <2> QED
      BY <2>1, <2>2, <2>3
  <1>6. Shape'
    BY <1>0, <1>1, <1>4, <1>5 DEF Shape, svcVars
  <1> QED
    BY <1>3, <1>5, <1>6 DEF SystemInv

\* Geth changes nothing but its own chain.
LEMMA GethKeepsInv == SystemInv /\ GethStep => SystemInv'
  <1> SUFFICES ASSUME SystemInv, GethStep PROVE SystemInv'
    OBVIOUS
  <1>0. Shape /\ Stages /\ SameContents /\ Counters /\ Quiet
    BY DEF SystemInv
  <1>1. UNCHANGED <<svcVars, subVars, ecall, currBlk, updPc, hdr, recv>>
    BY DEF GethStep, Host!Mine, Host!Reorg, Host!upd
  <1>2. canon' \in Seq(Nat) /\ reorgs' \in Nat
    <2>1. CASE Host!Mine
      BY <1>0, <2>1 DEF Shape, Host!Mine
    <2>2. ASSUME NEW n \in DOMAIN canon, Host!Reorg(n)
          PROVE  canon' \in Seq(Nat) /\ reorgs' \in Nat
      <3>1. SubSeq(canon, 1, n - 1) \in Seq(Nat)
        BY <1>0 DEF Shape
      <3> QED
        BY <1>0, <2>2, <3>1 DEF Shape, Host!Reorg
    <2> QED
      BY <2>1, <2>2 DEF GethStep
  <1>3. Shape'
    BY <1>0, <1>1, <1>2 DEF Shape, svcVars
  <1>4. Stages' /\ SameContents' /\ Counters' /\ Quiet'
    BY <1>0, <1>1 DEF Stages, NoCall, Begun, Appended, SameContents, Counters, Quiet, svcVars, subVars
  <1> QED
    BY <1>3, <1>4 DEF SystemInv

\* The block is appended in the enclave: it is one block ahead.
LEMMA AppendKeepsInv == SystemInv /\ AppendBlock => SystemInv'
  <1> SUFFICES ASSUME SystemInv, AppendBlock PROVE SystemInv'
    OBVIOUS
  <1>0. Shape /\ Stages /\ SameContents /\ Counters /\ Quiet
    BY DEF SystemInv
  <1>1. Content(hdr) \in Contents
    BY <1>0 DEF Shape, Contents
  <1>2. /\ chain' = Append(chain, Content(hdr))
        /\ lastBlk' = Len(chain) + 1
        /\ ecall = "begun" /\ ecall' = "appended"
        /\ blkPc = "idle" /\ blkPc' = "fetch"
        /\ UNCHANGED <<currBlk, updPc, hdr, recv, canon, reorgs>>
    BY DEF AppendBlock, Sub!BlockAppend, Sub!AppendBlock, Sub!NextNumber, hostVars
  <1>3. /\ chain' \in Seq(Contents)
        /\ Len(chain') = Len(chain) + 1
        /\ chain'[Len(chain')] = Content(hdr)
        /\ \A i \in 1..Len(chain) : chain'[i] = chain[i]
    BY <1>0, <1>1, <1>2 DEF Shape
  <1>4. Shape'
    BY <1>0, <1>2, <1>3 DEF Shape
  <1>5. Stages' /\ SameContents' /\ Counters' /\ Quiet'
    BY <1>0, <1>2, <1>3 DEF Stages, Begun, Appended, SameContents, Counters, Quiet
  <1> QED
    BY <1>4, <1>5 DEF SystemInv

\* The callbacks of the block under check, and the end of the check.
LEMMA CallbackActs ==
    ASSUME CallbackStep \/ NotifyStep
    PROVE  /\ UNCHANGED <<hostVars, ecall, chain, lastBlk>>
           /\ blkPc \notin {"idle", "fetch", "stopped"}
           /\ blkPc' \notin {"idle", "fetch", "stopped"}
              \/ (blkPc' = "idle" /\ todo' = {} /\ subTodo' = {})
  <1>1. CASE CallbackStep
    BY <1>1 DEF CallbackStep, Sub!DeployEventHandler, Sub!RegEventHandler, Sub!RegEventStore,
       Sub!RegEventListen, Sub!NotifyPastFind, Sub!NotifyPastPush
  <1>2. CASE NotifyStep
    BY <1>2 DEF NotifyStep, Sub!NotifyEventHandler, Sub!SkipCancelled, Sub!BlockDoneAll, Sub!BlockDone,
       Sub!svcVars, Sub!subVars
  <1> QED
    BY <1>1, <1>2

\* The rest of the work inside the ECALL leaves blocks and numbers alone.
LEMMA EnclaveKeepsInv ==
    SystemInv /\ (CheckEvents \/ CallbackStep \/ NotifyStep \/ EnclaveThrows) => SystemInv'
  <1> SUFFICES ASSUME SystemInv, CheckEvents \/ CallbackStep \/ NotifyStep \/ EnclaveThrows
               PROVE  SystemInv'
    OBVIOUS
  <1>0. Shape /\ Stages /\ SameContents /\ Counters /\ Quiet
    BY DEF SystemInv
  <1>1. /\ UNCHANGED <<currBlk, updPc, hdr, recv, canon, reorgs, ecall, chain, lastBlk>>
        /\ ecall # "none"
        /\ ecall = "begun" => blkPc' \in {"idle", "stopped"}
        /\ Quiet'
    <2>1. CASE EnclaveThrows
      BY <2>1 DEF EnclaveThrows, Sub!BlockThrowAll, Sub!BlockThrow, hostVars, Quiet
    <2>2. CASE CheckEvents
      BY <2>2 DEF CheckEvents, Sub!CheckEvents, hostVars, Quiet
    <2>3. CASE CallbackStep \/ NotifyStep
      BY <1>0, <2>3, CallbackActs DEF Stages, NoCall, Begun, hostVars, Quiet
    <2> QED
      BY <2>1, <2>2, <2>3
  <1>2. Shape' /\ SameContents' /\ Counters'
    BY <1>0, <1>1 DEF Shape, SameContents, Counters
  <1>3. Stages'
    BY <1>0, <1>1 DEF Stages, Begun, Appended
  <1> QED
    BY <1>1, <1>2, <1>3 DEF SystemInv

\* Subscribers take nothing from the block thread; one that joins a check adds
\* callbacks to it.
LEMMA SubscriberActs ==
    ASSUME SubscriberStep
    PROVE  /\ UNCHANGED <<hostVars, ecall, chain, lastBlk, blkPc, todo>>
           /\ blkPc \in {"idle", "stopped"} => UNCHANGED subTodo
  <1>1. ASSUME NEW c \in Readers, NEW p \in Publishers, Sub!SubReqLookup(c, p)
        PROVE  UNCHANGED <<chain, lastBlk, blkPc, todo, subTodo>>
    BY <1>1 DEF Sub!SubReqLookup, Sub!svcVars
  <1>2. ASSUME NEW c \in Readers, Sub!SubReqWork(c)
        PROVE  /\ UNCHANGED <<chain, lastBlk, blkPc, todo>>
               /\ blkPc \in {"idle", "stopped"} => UNCHANGED subTodo
    BY <1>2 DEF Sub!SubReqWork, Sub!SubReqListen, Sub!SubReqReadMonitor, Sub!SubReqCopyBegin, Sub!SubReqCopyEnd,
       Sub!SubReqRespond, Sub!SubReqRespondFail, Sub!SubReqAddEmitter, Sub!GetPastEventsBegin,
       Sub!GetPastEventsEnd, Sub!Checking, Sub!svcVars
  <1>3. ASSUME NEW c \in Readers, Sub!EmitSwap(c)
        PROVE  UNCHANGED <<chain, lastBlk, blkPc, todo, subTodo>>
    BY <1>3 DEF Sub!EmitSwap, Sub!svcVars
  <1>4. ASSUME Sub!EmitWork PROVE UNCHANGED <<chain, lastBlk, blkPc, todo, subTodo>>
    BY <1>4 DEF Sub!EmitWork, Sub!EmitRead, Sub!EmitSend, Sub!EmitFail, Sub!svcVars
  <1> QED
    BY <1>1, <1>2, <1>3, <1>4 DEF SubscriberStep

\* So they keep the invariant.
LEMMA SubscriberKeepsInv == SystemInv /\ SubscriberStep => SystemInv'
  <1> SUFFICES ASSUME SystemInv, SubscriberStep PROVE SystemInv'
    OBVIOUS
  <1>0. Shape /\ Stages /\ SameContents /\ Counters /\ Quiet
    BY DEF SystemInv
  <1>1. UNCHANGED <<currBlk, updPc, hdr, recv, canon, reorgs, ecall, chain, lastBlk, blkPc>>
    BY SubscriberActs DEF hostVars
  <1>2. Shape' /\ SameContents' /\ Counters'
    BY <1>0, <1>1 DEF Shape, SameContents, Counters
  <1>3. Stages'
    BY <1>0, <1>1 DEF Stages, NoCall, Begun, Appended
  <1>4. Quiet'
    BY <1>0, SubscriberActs DEF Quiet
  <1> QED
    BY <1>2, <1>3, <1>4 DEF SystemInv

\* The end of the ECALL, either way.
LEMMA ReturnKeepsInv == SystemInv /\ RecvBlockReturns => SystemInv'
  <1> SUFFICES ASSUME SystemInv, RecvBlockReturns PROVE SystemInv'
    OBVIOUS
  <1>0. Shape /\ Stages /\ SameContents /\ Counters /\ Quiet
    BY DEF SystemInv
  <1>1. /\ ecall = "appended" /\ blkPc = "idle"
        /\ recv' = Append(recv, hdr) /\ updPc = "push" /\ updPc' = "count"
        /\ ecall' = "none"
        /\ UNCHANGED <<currBlk, hdr, canon, reorgs, chain, lastBlk, blkPc, todo, subTodo>>
    BY DEF RecvBlockReturns, Success, Host!PushBlock, Host!geth, svcVars, subVars
  <1>2. /\ recv' \in Seq(Host!Header)
        /\ Len(recv') = Len(recv) + 1
        /\ recv'[Len(recv) + 1] = hdr
        /\ \A i \in 1..Len(recv) : recv'[i] = recv[i]
    BY <1>0, <1>1 DEF Shape
  <1>3. Shape'
    BY <1>0, <1>1, <1>2 DEF Shape
  <1>4. Len(recv) \in Nat /\ StartBlock \in Nat
    BY <1>0, StartAssumption DEF Shape
  <1>5. Stages' /\ SameContents' /\ Quiet'
    BY <1>0, <1>1, <1>2, <1>4 DEF Stages, NoCall, Appended, SameContents, Quiet
  <1>6. Counters'
    BY <1>0, <1>1, <1>2, <1>4 DEF Counters, Stages, Appended, Shape
  <1> QED
    BY <1>3, <1>5, <1>6 DEF SystemInv

\* The call ends with an exception: the updator is gone.
LEMMA ThrowKeepsInv == SystemInv /\ RecvBlockThrows => SystemInv'
  <1> SUFFICES ASSUME SystemInv, RecvBlockThrows PROVE SystemInv'
    OBVIOUS
  <1>0. Shape /\ Stages /\ SameContents /\ Counters /\ Quiet
    BY DEF SystemInv
  <1>1. /\ ecall # "none" /\ blkPc = "stopped"
        /\ updPc = "push" /\ updPc' = "stopped"
        /\ ecall' = "none"
        /\ UNCHANGED <<currBlk, hdr, recv, canon, reorgs, chain, lastBlk, blkPc, todo, subTodo>>
    BY DEF RecvBlockThrows, Host!PushThrows, Host!geth, svcVars, subVars
  <1>2. Shape' /\ SameContents' /\ Counters' /\ Quiet'
    BY <1>0, <1>1 DEF Shape, SameContents, Counters, Quiet
  <1>3. Stages'
    BY <1>0, <1>1 DEF Stages, NoCall, Begun, Appended
  <1> QED
    BY <1>2, <1>3 DEF SystemInv

\* Each step keeps the invariant.
LEMMA StepInv == SystemInv /\ [Next]_vars => SystemInv'
  <1> SUFFICES ASSUME SystemInv, [Next]_vars PROVE SystemInv'
    OBVIOUS
  <1>0. Shape /\ Stages /\ SameContents /\ Counters /\ Quiet
    BY DEF SystemInv
  <1>1. CASE RecvBlock
    <2>1. UNCHANGED <<currBlk, updPc, hdr, recv, canon, reorgs, chain, lastBlk, blkPc, todo, subTodo>>
      BY <1>1 DEF RecvBlock, hostVars, svcVars, subVars
    <2>2. Shape' /\ SameContents' /\ Counters' /\ Quiet'
      BY <1>0, <2>1 DEF Shape, SameContents, Counters, Quiet
    <2>3. Stages'
      BY <1>0, <1>1, <2>1 DEF RecvBlock, Stages, NoCall, Begun
    <2> QED
      BY <2>2, <2>3 DEF SystemInv
  <1>2. CASE Terminated \/ UNCHANGED vars
    <2>1. UNCHANGED vars
      BY <1>2 DEF Terminated
    <2>2. Shape' /\ SameContents' /\ Counters' /\ Quiet'
      BY <1>0, <2>1 DEF vars, hostVars, svcVars, subVars, Shape, SameContents, Counters, Quiet
    <2>3. Stages'
      BY <1>0, <2>1 DEF vars, hostVars, svcVars, Stages, NoCall, Begun, Appended
    <2> QED
      BY <2>2, <2>3 DEF SystemInv
  <1> QED
    BY <1>1, <1>2, UpdatorKeepsInv, GethKeepsInv, AppendKeepsInv, EnclaveKeepsInv,
       ReturnKeepsInv, ThrowKeepsInv, SubscriberKeepsInv DEF Next, Ecall

\* The invariant holds throughout.
LEMMA InvAlways == Spec => []SystemInv
  <1>1. Init => SystemInv
    BY InitInv
  <1>2. SystemInv /\ [Next]_vars => SystemInv'
    BY StepInv
  <1> QED
    BY <1>1, <1>2, PTL DEF Spec

\* The enclave's blocks are those that the host counts as pushed, with the
\* contents of their headers, and at most the block of the call under way or
\* failed besides (Enclave.cpp and HostBlockService.hpp across the ECALL).
THEOREM HostAndEnclaveAgree == Spec => []SameBlocks
  <1>1. SystemInv => SameBlocks
    <2> SUFFICES ASSUME SystemInv PROVE SameBlocks
      OBVIOUS
    <2>0. Shape /\ Stages /\ SameContents
      BY DEF SystemInv
    <2>1. Len(recv) \in Nat /\ Len(chain) \in Nat /\ DOMAIN recv = 1..Len(recv)
      BY <2>0 DEF Shape
    <2> QED
      BY <2>0, <2>1 DEF SameBlocks, Stages, NoCall, Begun, Appended, SameContents
  <1> QED
    BY <1>1, InvAlways, PTL

\* The number that the enclave reports is that of the block before the one
\* the updator waits for, or of that one during and after its push.
THEOREM HostAndEnclaveNumbers == Spec => []NumbersAgree
  <1>1. SystemInv => NumbersAgree
    <2> SUFFICES ASSUME SystemInv PROVE NumbersAgree
      OBVIOUS
    <2>0. Shape /\ Stages /\ Counters
      BY DEF SystemInv
    <2>1. /\ Len(recv) \in Nat /\ Len(chain) \in Nat
          /\ StartBlock \in Nat /\ currBlk \in Nat
      BY <2>0, StartAssumption DEF Shape
    <2>2. Len(chain) = Len(recv) \/ Len(chain) = Len(recv) + 1
      BY <2>0 DEF Stages, NoCall, Begun, Appended
    <2>3. Len(chain) = Len(recv) + 1 => updPc \in {"push", "stopped"}
      BY <2>0, <2>1 DEF Stages, NoCall, Begun, Appended
    <2> QED
      BY <2>0, <2>1, <2>2, <2>3 DEF NumbersAgree, Counters
  <1> QED
    BY <1>1, InvAlways, PTL

-----------------------------------------------------------------------------
(* What the enclave does in the ECALLs and for subscribers, Pubsub does. *)

\* Geth's chain has the branches there are, and a header in hand is of one.
KnownInv ==
    /\ reorgs <= MaxReorgs /\ Len(canon) <= MaxNum
    /\ \A n \in DOMAIN canon : canon[n] <= reorgs
    /\ updPc = "push" => hdr.num \in StartBlock..MaxNum /\ hdr.branch \in 0..MaxReorgs

\* Each step keeps headers known.
LEMMA KnownStep == SystemInv /\ KnownInv /\ [Next]_vars => KnownInv'
  <1> SUFFICES ASSUME SystemInv, KnownInv, [Next]_vars PROVE KnownInv'
    OBVIOUS
  <1>0. /\ canon \in Seq(Nat) /\ reorgs \in Nat /\ hdr \in Host!Header /\ currBlk \in Nat
        /\ Len(canon) \in Nat /\ DOMAIN canon = 1..Len(canon) /\ Len(recv) \in Nat
    BY DEF SystemInv, Shape
  <1>1. MaxNum \in Nat /\ MaxReorgs \in Nat /\ StartBlock \in Nat \ {0}
    BY BoundsAssumption, StartAssumption
  <1>2. CASE Host!Mine /\ GethStep
    <2>1. /\ Len(canon) < MaxNum /\ canon' = Append(canon, reorgs) /\ UNCHANGED <<reorgs, updPc, hdr>>
      BY <1>2 DEF Host!Mine, Host!upd
    <2>2. Len(canon') <= MaxNum
      BY <1>0, <1>1, <2>1
    <2>3. \A n \in DOMAIN canon' : canon'[n] <= reorgs
      BY <1>0, <2>1 DEF KnownInv
    <2> QED
      BY <2>1, <2>2, <2>3 DEF KnownInv
  <1>3. ASSUME NEW n \in DOMAIN canon, Host!Reorg(n) PROVE KnownInv'
    <2> DEFINE s == SubSeq(canon, 1, n - 1)
    <2>1. /\ reorgs < MaxReorgs /\ reorgs' = reorgs + 1 /\ canon' = Append(s, reorgs + 1)
          /\ UNCHANGED <<updPc, hdr>>
      BY <1>3 DEF Host!Reorg, Host!upd
    <2>2. s \in Seq(Nat) /\ Len(s) = n - 1 /\ \A i \in 1..(n - 1) : s[i] = canon[i] /\ i \in DOMAIN canon
      BY <1>0
    <2> HIDE DEF s
    <2>3. /\ Len(canon') = n /\ DOMAIN canon' = 1..n /\ canon'[n] = reorgs + 1
          /\ \A i \in 1..(n - 1) : canon'[i] = s[i]
      <3>1. n \in Nat /\ n >= 1 /\ reorgs + 1 \in Nat
        BY <1>0
      <3>2. \A t \in Seq(Nat), x \in Nat :
              /\ Len(Append(t, x)) = Len(t) + 1 /\ DOMAIN Append(t, x) = 1..(Len(t) + 1)
              /\ Append(t, x)[Len(t) + 1] = x
              /\ \A i \in 1..Len(t) : Append(t, x)[i] = t[i]
        OBVIOUS
      <3>3. Len(s) = n - 1 /\ (n - 1) + 1 = n
        BY <2>2, <3>1
      <3> QED
        BY <2>1, <2>2, <3>1, <3>2, <3>3
    <2>4. ASSUME NEW i \in 1..n PROVE canon'[i] <= reorgs + 1
      <3>1. CASE i = n
        BY <1>0, <2>3, <3>1
      <3>2. CASE i # n
        <4>1. i \in 1..(n - 1)
          BY <1>0, <3>2
        <4>2. canon'[i] = canon[i] /\ i \in DOMAIN canon
          BY <2>2, <2>3, <3>2, <4>1
        <4>3. canon[i] \in Nat /\ canon[i] <= reorgs
          BY <1>0, <4>2 DEF KnownInv
        <4> QED
          BY <1>0, <4>2, <4>3
      <3> QED
        BY <3>1, <3>2
    <2> QED
      BY <1>0, <1>1, <2>1, <2>3, <2>4 DEF KnownInv
  <1>4. CASE Host!FetchHeader /\ UpdatorStep
    <2>1. /\ updPc = "header" /\ Len(canon) >= currBlk /\ hdr' = [num |-> currBlk, branch |-> canon[currBlk]]
          /\ UNCHANGED <<canon, reorgs>>
      BY <1>4 DEF Host!FetchHeader, Host!geth
    <2>2. currBlk >= StartBlock
      BY <1>0, <1>1, <2>1 DEF SystemInv, Counters
    <2>3. canon[currBlk] \in Nat /\ canon[currBlk] <= reorgs
      BY <1>0, <1>1, <2>1, <2>2 DEF KnownInv
    <2>4. hdr'.num = currBlk /\ hdr'.branch = canon[currBlk]
      BY <2>1
    <2> QED
      BY <1>0, <1>1, <2>1, <2>2, <2>3, <2>4 DEF KnownInv
  <1>5. ASSUME ~GethStep, ~(Host!FetchHeader /\ UpdatorStep)
        PROVE  UNCHANGED <<canon, reorgs, hdr>> /\ (updPc' = "push" => updPc = "push")
    <2>1. CASE UpdatorStep
      BY <1>5, <2>1 DEF UpdatorStep, Host!StartSendingBlocks, Host!Wake, Host!NothingNew, Host!GethFails,
         Host!AskLatest, Host!CountBlock, Host!TickFalse, Host!NextTick, Host!geth
    <2>2. CASE RecvBlockReturns \/ RecvBlockThrows
      BY <2>2 DEF RecvBlockReturns, RecvBlockThrows, Host!PushBlock, Host!PushThrows, Host!geth
    <2>3. CASE UNCHANGED hostVars
      BY <2>3 DEF hostVars
    <2>4. \/ UpdatorStep \/ RecvBlockReturns \/ RecvBlockThrows \/ UNCHANGED hostVars
      BY <1>5 DEF Next, Ecall, Terminated, vars, RecvBlock, AppendBlock, CheckEvents, CallbackStep, NotifyStep,
         EnclaveThrows, SubscriberStep
    <2> QED
      BY <2>1, <2>2, <2>3, <2>4
  <1>6. GethStep => Host!Mine \/ \E n \in DOMAIN canon : Host!Reorg(n)
    BY DEF GethStep
  <1> QED
    BY <1>2, <1>3, <1>4, <1>5, <1>6 DEF KnownInv

\* The block appended is one that the service may be given.
LEMMA ContentKnown == SystemInv /\ KnownInv /\ updPc = "push" => Content(hdr) \in BlockBodies
  <1> SUFFICES ASSUME SystemInv, KnownInv, updPc = "push" PROVE Content(hdr) \in BlockBodies
    OBVIOUS
  <1>1. hdr = [num |-> hdr.num, branch |-> hdr.branch]
    BY DEF SystemInv, Shape, Host!Header
  <1>2. hdr.num \in StartBlock..MaxNum /\ hdr.branch \in 0..MaxReorgs
    BY DEF KnownInv
  <1>3. Content([num |-> hdr.num, branch |-> hdr.branch]) \in BlockBodies
    BY <1>2, ContentAssumption
  <1> QED
    BY <1>1, <1>3

\* Headers are known throughout.
LEMMA KnownAlways == Spec => []KnownInv
  <1>1. Init => KnownInv
    BY BoundsAssumption DEF Init, Host!Init, KnownInv
  <1> QED
    BY <1>1, KnownStep, InvAlways, PTL DEF Spec

\* Every step of the system is one of Pubsub, or not seen by it.
LEMMA EnclaveStep == SystemInv /\ KnownInv /\ [Next]_vars => [Sub!Next]_(Sub!vars)
  <1> SUFFICES ASSUME SystemInv, KnownInv, [Next]_vars PROVE [Sub!Next]_(Sub!vars)
    OBVIOUS
  <1>1. CASE AppendBlock
    <2>1. Content(hdr) \in BlockBodies
      BY <1>1, ContentKnown DEF AppendBlock, SystemInv, Stages, Begun
    <2> QED
      BY <1>1, <2>1 DEF AppendBlock, Sub!BlockWork, Sub!Next
  <1>2. CASE EnclaveThrows
    BY <1>2 DEF EnclaveThrows, Sub!BlockWork, Sub!Next
  <1>3. CASE CheckEvents \/ CallbackStep
    BY <1>3 DEF CheckEvents, CallbackStep, subVars, Sub!subVars, Sub!ServiceStep, Sub!BlockWork, Sub!Next
  <1>4. CASE NotifyStep
    BY <1>4 DEF NotifyStep, Sub!Clients, Sub!BlockWork, Sub!Next
  <1>5. CASE SubscriberStep
    BY <1>5 DEF SubscriberStep, Sub!Clients, Sub!Next
  <1>6. ASSUME UNCHANGED <<svcVars, subVars>> PROVE UNCHANGED Sub!vars
    BY <1>6 DEF svcVars, subVars, Sub!vars, Sub!svcVars, Sub!subVars
  <1>7. CASE ~(AppendBlock \/ CheckEvents \/ EnclaveThrows \/ CallbackStep \/ NotifyStep \/ SubscriberStep)
    BY <1>6, <1>7 DEF Next, UpdatorStep, GethStep, Ecall, RecvBlock, RecvBlockReturns, RecvBlockThrows,
       Terminated, vars
  <1> QED
    BY <1>1, <1>2, <1>3, <1>4, <1>5, <1>7

\* What the enclave does, call by call and with any exception, and for its
\* subscribers meanwhile, is what Pubsub does when it is driven by blocks
\* alone (Enclave.cpp and BlockchainMgr.hpp against SubscriberService.hpp and
\* SubscriberHandler.hpp).
THEOREM EnclaveRunsPubsub == Spec => Sub!Spec
  <1>1. Init => Sub!Init
    BY DEF Init
  <1> QED
    BY <1>1, EnclaveStep, InvAlways, KnownAlways, PTL DEF Spec, Sub!Spec

-----------------------------------------------------------------------------
(***************************************************************************)
(* CountedStored and CountedServed.  A header that is refused leaves no    *)
(* trace but that the enclave takes no more blocks, so to the subscribers  *)
(* it is as if no header had come: the system also runs Pubsub with the    *)
(* block thread waiting instead.  There, a block that the host counts as   *)
(* pushed is always one whose events are handled, and what is proved of    *)
(* Pubsub applies.                                                         *)
(***************************************************************************)
SeenPc == IF blkPc = "stopped" /\ Len(chain) = Len(recv) THEN "idle" ELSE blkPc

Seen == INSTANCE PubsubProofs WITH MaxBlk <- MaxNum, blkPc <- SeenPc

\* Where both are the same.
LEMMA SeenSame ==
    /\ Seen!Body = Sub!Body /\ Seen!Clients = Readers
    /\ \A i : Seen!Here(i) = Sub!Here(i)
    /\ \A m, at : Seen!PastListener(m, at) = Sub!PastListener(m, at)
    /\ Seen!DeployListener = Sub!DeployListener /\ Seen!RegListener = Sub!RegListener
    /\ \A l, log : Seen!Matches(l, log) <=> Sub!Matches(l, log)
    /\ \A l, k : Seen!JoinFrom(l, k) = Sub!JoinFrom(l, k)
    /\ \A l, i : Seen!IsNext(l, i) <=> Sub!IsNext(l, i)
    /\ Seen!StoreFree <=> Sub!StoreFree
    /\ Seen!CopyResults = Sub!CopyResults
    /\ Seen!NoCopy = Sub!NoCopy
    /\ Seen!Args = Sub!Args
  <1>1. Seen!Body = Sub!Body /\ \A i : Seen!Here(i) = Sub!Here(i)
    BY DEF Seen!Body, Sub!Body, Seen!Here, Sub!Here
  <1>2. \A l, log : Seen!Matches(l, log) <=> Sub!Matches(l, log)
    BY DEF Seen!Matches, Sub!Matches
  <1>3. \A l, k : Seen!JoinFrom(l, k) = Sub!JoinFrom(l, k)
    BY <1>1, <1>2 DEF Seen!JoinFrom, Sub!JoinFrom
  <1>4. \A l, i : Seen!IsNext(l, i) <=> Sub!IsNext(l, i)
    BY <1>1 DEF Seen!IsNext, Sub!IsNext
  <1>5. Seen!CopyResults = Sub!CopyResults
    BY DEF Seen!CopyResults, Sub!CopyResults
  <1> QED
    BY <1>1, <1>2, <1>3, <1>4, <1>5
    DEF Seen!Clients, Seen!PastListener, Sub!PastListener, Seen!DeployListener, Sub!DeployListener,
        Seen!RegListener, Sub!RegListener, Seen!StoreFree, Sub!StoreFree, Seen!NoCopy, Sub!NoCopy, Seen!Args, Sub!Args

\* The callbacks inside a call are those of Pubsub.
LEMMA SeenCallback ==
    ASSUME SystemInv, CallbackStep \/ NotifyStep
    PROVE  Seen!BlockWork
  <1>0. Shape /\ Stages
    BY DEF SystemInv
  <1>1. /\ UNCHANGED <<recv, chain>> /\ Len(chain) = Len(recv) + 1 /\ Len(recv) \in Nat
        /\ SeenPc = blkPc /\ SeenPc' = blkPc'
    <2>1. UNCHANGED <<recv, chain, ecall>> /\ blkPc \notin {"idle", "fetch", "stopped"}
      BY CallbackActs DEF hostVars
    <2>2. Len(chain) = Len(recv) + 1 /\ Len(recv) \in Nat
      BY <1>0, <2>1 DEF Shape, Stages, NoCall, Begun, Appended
    <2> QED
      BY <2>1, <2>2 DEF SeenPc
  <1>2. CASE NotifyStep
    <2>1. ASSUME NEW c \in Readers, NEW i \in DOMAIN Sub!Body, Sub!NotifyEventHandler(c, i)
          PROVE  Seen!NotifyEventHandler(c, i)
      <3>1. Seen!SubIsNext(c, i)
        BY <2>1, SeenSame DEF Sub!NotifyEventHandler, Sub!SubIsNext, Seen!SubIsNext
      <3> QED
        BY <1>1, <2>1, <3>1, SeenSame DEF Sub!NotifyEventHandler, Seen!NotifyEventHandler, Sub!PushBack,
           Seen!PushBack, Sub!svcVars, Seen!svcVars
    <2>2. ASSUME NEW c \in Readers, NEW i \in DOMAIN Sub!Body, Sub!SkipCancelled(c, i)
          PROVE  Seen!SkipCancelled(c, i)
      BY <1>1, <2>2 DEF Sub!SkipCancelled, Seen!SkipCancelled, Sub!svcVars, Seen!svcVars
    <2>3. Sub!BlockDoneAll => Seen!BlockDoneAll
      BY <1>1 DEF Sub!BlockDoneAll, Seen!BlockDoneAll, Sub!BlockDone, Seen!BlockDone, Sub!subVars, Seen!subVars
    <2> QED
      BY <1>2, <2>1, <2>2, <2>3, SeenSame DEF NotifyStep, Seen!BlockWork
  <1>3. CASE CallbackStep
    <2>1. UNCHANGED Seen!subVars
      BY <1>3 DEF CallbackStep, subVars, Seen!subVars
    <2>2. \A i, k : Sub!DeployEventHandler(i, k) => Seen!DeployEventHandler(i, k)
      BY <1>1, SeenSame DEF Sub!DeployEventHandler, Seen!DeployEventHandler, Sub!AfterDeploy, Seen!AfterDeploy
    <2>3. \A i : Sub!RegEventHandler(i) => Seen!RegEventHandler(i)
      BY <1>1, SeenSame DEF Sub!RegEventHandler, Seen!RegEventHandler, Sub!Address, Seen!Address
    <2>4. Sub!RegEventStore => Seen!RegEventStore
      BY <1>1, SeenSame DEF Sub!RegEventStore, Seen!RegEventStore, Sub!Emplace, Seen!Emplace
    <2>5. \A k : Sub!RegEventListen(k) => Seen!RegEventListen(k)
      BY <1>1, SeenSame DEF Sub!RegEventListen, Seen!RegEventListen
    <2>6. \A l, i : Sub!NotifyPastFind(l, i) => Seen!NotifyPastFind(l, i)
      BY <1>1, SeenSame DEF Sub!NotifyPastFind, Seen!NotifyPastFind
    <2>7. Sub!NotifyPastPush => Seen!NotifyPastPush
      BY <1>1, SeenSame DEF Sub!NotifyPastPush, Seen!NotifyPastPush, Sub!PushBack, Seen!PushBack
    <2> QED
      BY <1>3, <2>1, <2>2, <2>3, <2>4, <2>5, <2>6, <2>7, SeenSame
      DEF CallbackStep, Seen!BlockWork, Seen!ServiceStep
  <1> QED
    BY <1>2, <1>3

\* What subscribers do, they do there.
LEMMA SeenSubscriber == ASSUME SubscriberStep PROVE Seen!Next
  <1>1. UNCHANGED <<chain, blkPc, recv>> /\ SeenPc' = SeenPc
    BY SubscriberActs DEF hostVars, SeenPc
  <1>2. (Seen!MonitorFree <=> Sub!MonitorFree) /\ (Seen!Checking <=> Sub!Checking)
    BY DEF Seen!MonitorFree, Sub!MonitorFree, Seen!Checking, Sub!Checking, SeenPc
  <1>3. UNCHANGED Sub!svcVars => UNCHANGED Seen!svcVars
    BY <1>1 DEF Sub!svcVars, Seen!svcVars
  <1>4. ASSUME NEW c \in Readers, NEW p \in Publishers, Sub!SubReqLookup(c, p) PROVE Seen!SubReqLookup(c, p)
    BY <1>3, <1>4 DEF Sub!SubReqLookup, Seen!SubReqLookup, Sub!GetEventMgrAddr, Seen!GetEventMgrAddr
  <1>5. ASSUME NEW c \in Readers, NEW k \in 0..Len(Sub!Body), Sub!SubReqListen(c, k) PROVE Seen!SubReqListen(c, k)
    <2>1. Seen!SubJoinFrom(c, k) = Sub!SubJoinFrom(c, k)
      BY SeenSame DEF Seen!SubJoinFrom, Sub!SubJoinFrom
    <2> QED
      BY <1>2, <1>3, <1>5, <2>1 DEF Sub!SubReqListen, Seen!SubReqListen
  <1>6. ASSUME NEW c \in Readers, NEW a \in {"sec", "blk"}, Sub!SubReqReadMonitor(c, a)
        PROVE  Seen!SubReqReadMonitor(c, a)
    BY <1>2, <1>3, <1>6 DEF Sub!SubReqReadMonitor, Seen!SubReqReadMonitor
  <1>7. ASSUME NEW c \in Readers, Sub!SubReqCopyBegin(c) PROVE Seen!SubReqCopyBegin(c)
    BY <1>1, <1>7, SeenSame DEF Sub!SubReqCopyBegin, Seen!SubReqCopyBegin, Sub!GetPastEventsBegin,
       Seen!GetPastEventsBegin
  <1>8. ASSUME NEW c \in Readers, NEW events \in Sub!CopyResults, Sub!SubReqCopyEnd(c, events)
        PROVE  Seen!SubReqCopyEnd(c, events)
    BY <1>1, <1>8, SeenSame DEF Sub!SubReqCopyEnd, Seen!SubReqCopyEnd, Sub!GetPastEventsEnd, Seen!GetPastEventsEnd
  <1>9. ASSUME NEW c \in Readers,
               Sub!SubReqRespond(c) \/ Sub!SubReqRespondFail(c) \/ Sub!SubReqAddEmitter(c)
        PROVE  Seen!SubReqRespond(c) \/ Seen!SubReqRespondFail(c) \/ Seen!SubReqAddEmitter(c)
    BY <1>3, <1>9, SeenSame DEF Sub!SubReqRespond, Seen!SubReqRespond, Sub!SubReqRespondFail,
       Seen!SubReqRespondFail, Sub!SubReqAddEmitter, Seen!SubReqAddEmitter
  <1>10. ASSUME NEW c \in Readers, Sub!SubReqWork(c) PROVE Seen!SubReqWork(c)
    BY <1>5, <1>6, <1>7, <1>8, <1>9, <1>10, SeenSame DEF Sub!SubReqWork, Seen!SubReqWork
  <1>11. ASSUME NEW c \in Readers, Sub!EmitSwap(c) PROVE Seen!EmitSwap(c)
    BY <1>3, <1>11 DEF Sub!EmitSwap, Seen!EmitSwap, Sub!Taken, Seen!Taken, Sub!Left, Seen!Left
  <1>12. ASSUME NEW a \in {"sec", "blk"}, Sub!EmitRead(a) PROVE Seen!EmitRead(a)
    BY <1>2, <1>3, <1>12 DEF Sub!EmitRead, Seen!EmitRead
  <1>13. (Sub!EmitSend => Seen!EmitSend) /\ (Sub!EmitFail => Seen!EmitFail)
    BY <1>3 DEF Sub!EmitSend, Seen!EmitSend, Sub!EmitFail, Seen!EmitFail, Sub!HeartbeatFree, Seen!HeartbeatFree
  <1>14. Sub!EmitWork => Seen!EmitWork
    BY <1>12, <1>13 DEF Sub!EmitWork, Seen!EmitWork
  <1> QED
    BY <1>4, <1>10, <1>11, <1>14, SeenSame DEF SubscriberStep, Seen!Next

\* Every step of the system is a step there, or is not seen.
LEMMA SeenStep == SystemInv /\ KnownInv /\ [Next]_vars => [Seen!Next]_(Seen!vars)
  <1> SUFFICES ASSUME SystemInv, KnownInv, [Next]_vars PROVE [Seen!Next]_(Seen!vars)
    OBVIOUS
  <1>0. Shape /\ Stages /\ Quiet /\ Len(recv) \in Nat /\ Len(chain) \in Nat
    BY DEF SystemInv, Shape
  <1>1. CASE AppendBlock
    <2>1. Content(hdr) \in BlockBodies
      BY <1>1, ContentKnown DEF AppendBlock, SystemInv, Stages, Begun
    <2>2. blkPc = "idle" /\ blkPc' = "fetch"
      BY <1>1 DEF AppendBlock, Sub!BlockAppend, Sub!AppendBlock
    <2>3. SeenPc = "idle" /\ SeenPc' = "fetch"
      BY <2>2 DEF SeenPc
    <2>4. Seen!AppendBlock(Content(hdr))
      BY <1>1, <2>3 DEF AppendBlock, Sub!BlockAppend, Sub!AppendBlock, Seen!AppendBlock, Sub!DeployedOnce, Seen!DeployedOnce,
         Sub!NextNumber, Seen!NextNumber
    <2>5. \A c, log : Seen!SubMatches(c, log) <=> Sub!SubMatches(c, log)
      BY DEF Seen!SubMatches, Sub!SubMatches
    <2>6. Seen!BlockAppend(Content(hdr))
      BY <1>1, <2>4, <2>5 DEF AppendBlock, Sub!BlockAppend, Seen!BlockAppend
    <2> QED
      BY <2>1, <2>6 DEF Seen!BlockWork, Seen!Next
  <1>2. CASE CheckEvents
    <2>1. blkPc = "fetch" /\ blkPc' = "check"
      BY <1>2 DEF CheckEvents, Sub!CheckEvents
    <2>2. SeenPc = "fetch" /\ SeenPc' = "check"
      BY <2>1 DEF SeenPc
    <2>3. Seen!CheckEvents
      BY <1>2, <2>2, SeenSame DEF CheckEvents, Sub!CheckEvents, Seen!CheckEvents
    <2> QED
      BY <1>2, <2>3 DEF CheckEvents, subVars, Seen!subVars, Seen!ServiceStep, Seen!BlockWork, Seen!Next
  <1>3. CASE EnclaveThrows
    <2>1. /\ ecall # "none" /\ (ecall = "appended" => blkPc # "idle")
          /\ Sub!BlockThrowAll /\ blkPc \in {"idle", "fetch", "check"} /\ blkPc' = "stopped"
          /\ todo' = {} /\ subTodo' = {} /\ UNCHANGED <<recv, chain>>
      BY <1>3 DEF EnclaveThrows, Sub!BlockThrowAll, Sub!BlockThrow, hostVars
    <2>2. CASE ecall = "begun"
      <3>1. blkPc = "idle" /\ Len(chain) = Len(recv) /\ todo = {} /\ subTodo = {}
        BY <1>0, <2>1, <2>2 DEF Stages, Begun, Quiet
      <3>2. SeenPc = "idle" /\ SeenPc' = "idle"
        BY <2>1, <3>1 DEF SeenPc
      <3> QED
        BY <2>1, <3>1, <3>2 DEF Sub!BlockThrowAll, Sub!BlockThrow, Seen!vars, Seen!svcVars, Seen!subVars
    <2>3. CASE ecall = "appended"
      <3>1. blkPc \in {"fetch", "check"} /\ Len(chain) = Len(recv) + 1
        BY <1>0, <2>1, <2>3 DEF Stages, Appended
      <3>2. SeenPc = blkPc /\ SeenPc' = "stopped"
        BY <1>0, <2>1, <3>1 DEF SeenPc
      <3>3. Seen!BlockThrowAll
        BY <2>1, <3>1, <3>2 DEF Sub!BlockThrowAll, Sub!BlockThrow, Seen!BlockThrowAll, Seen!BlockThrow
      <3> QED
        BY <3>3 DEF Seen!BlockWork, Seen!Next
    <2> QED
      BY <1>0, <2>1, <2>2, <2>3 DEF Stages
  <1>4. CASE CallbackStep \/ NotifyStep
    BY <1>4, SeenCallback DEF Seen!Next
  <1>5. CASE SubscriberStep
    BY <1>5, SeenSubscriber
  <1>6. ASSUME UNCHANGED <<svcVars, subVars>>, UNCHANGED recv \/ blkPc = "idle" PROVE UNCHANGED Seen!vars
    <2>1. SeenPc' = SeenPc
      BY <1>6 DEF SeenPc, svcVars
    <2> QED
      BY <1>6, <2>1 DEF svcVars, subVars, Seen!vars, Seen!svcVars, Seen!subVars
  <1>7. CASE RecvBlockReturns
    BY <1>6, <1>7 DEF RecvBlockReturns, Success
  <1>8. CASE UpdatorStep \/ GethStep \/ RecvBlockThrows
    <2>1. UNCHANGED recv
      BY <1>8 DEF UpdatorStep, GethStep, RecvBlockThrows, Host!StartSendingBlocks, Host!Wake,
         Host!NothingNew, Host!GethFails, Host!AskLatest, Host!FetchHeader, Host!CountBlock, Host!TickFalse,
         Host!Mine, Host!Reorg, Host!PushThrows
    <2> QED
      BY <1>6, <1>8, <2>1 DEF UpdatorStep, GethStep, RecvBlockThrows
  <1>9. CASE RecvBlock \/ Terminated \/ UNCHANGED vars
    BY <1>6, <1>9 DEF RecvBlock, Terminated, vars, hostVars
  <1> QED
    BY <1>1, <1>2, <1>3, <1>4, <1>5, <1>7, <1>8, <1>9 DEF Next, Ecall

\* So the system runs Pubsub that way too.
LEMMA SeenSpec == Spec => Seen!Spec
  <1>1. Init => Seen!Init
    <2> SUFFICES ASSUME Init PROVE Seen!Init
      OBVIOUS
    <2>1. SeenPc = "idle"
      BY DEF Init, Sub!Init, Sub!SvcInit, SeenPc
    <2>2. Seen!SvcInit
      BY <2>1, SeenSame DEF Init, Sub!Init, Sub!SvcInit, Seen!SvcInit
    <2> QED
      BY <2>2, SeenSame DEF Init, Sub!Init, Seen!Init, Sub!Clients
  <1> QED
    BY <1>1, SeenStep, InvAlways, KnownAlways, PTL DEF Spec, Seen!Spec

\* What Pubsub assumes of its constants.
LEMMA PubsubAssumed ==
    /\ BlockBodies \subseteq Seq(Seen!Log) /\ MaxNum \in Nat
    /\ NoAddr \notin EvMgrs /\ NoReader \notin Readers /\ NoClient \notin Seen!Clients
  BY ServiceAssumption, BoundsAssumption DEF Sub!Log, Sub!DeployLogs, Sub!RegLogs, Sub!NotifyLogs,
     Seen!Log, Seen!DeployLogs, Seen!RegLogs, Seen!NotifyLogs, Seen!Clients

\* So its theorems hold inside the system.
LEMMA SeenAlways ==
    Spec => []Seen!TypeOK /\ []Seen!PastComplete /\ []Seen!NoGap /\ []Seen!WatermarkLag /\ []Seen!OnlyOwn
  <1>1. Seen!Spec => []Seen!TypeOK
    BY PubsubAssumed, Seen!TypeCorrect
  <1>2. Seen!Spec => []Seen!PastComplete
    BY PubsubAssumed, Seen!PastEventsCompleteServed
  <1>3. Seen!Spec => []Seen!NoGap
    BY PubsubAssumed, Seen!NothingFallsThrough
  <1>4. Seen!Spec => []Seen!WatermarkLag
    BY PubsubAssumed, Seen!WatermarkOneBehind
  <1>5. Seen!Spec => []Seen!OnlyOwn
    BY PubsubAssumed, Seen!OwnEventsOnly
  <1> QED
    BY SeenSpec, <1>1, <1>2, <1>3, <1>4, <1>5, PTL

\* The log of a block that the host counts.
LEMMA CountedLog ==
    ASSUME SystemInv, NEW n \in DOMAIN recv
    PROVE  /\ Len(recv) \in Nat /\ DOMAIN recv = 1..Len(recv) /\ n \in DOMAIN chain
           /\ chain[n] = Logs(n) /\ Len(recv) <= Seen!Done /\ Seen!Done \in Nat
  <1>0. Shape /\ Stages /\ SameContents
    BY DEF SystemInv
  <1>1. Len(recv) \in Nat /\ DOMAIN recv = 1..Len(recv) /\ Len(chain) \in Nat /\ DOMAIN chain = 1..Len(chain)
    BY <1>0 DEF Shape
  <1>2. Len(recv) <= Len(chain) /\ Len(recv) <= Seen!Done /\ Seen!Done \in Nat
    <2>1. Len(chain) = Len(recv) + 1 \/ (Len(chain) = Len(recv) /\ blkPc \in {"idle", "stopped"})
      BY <1>0 DEF Stages, NoCall, Begun, Appended
    <2>2. Len(chain) = Len(recv) + 1 \/ (Len(chain) = Len(recv) /\ SeenPc = "idle")
      BY <2>1 DEF SeenPc
    <2>3. Seen!Done = Len(chain) \/ (SeenPc # "idle" /\ Seen!Done = Len(chain) - 1)
      BY DEF Seen!Done
    <2>4. \A x, y, z : x \in Nat /\ y \in Nat /\ (y = x + 1 \/ y = x) /\ (z = y \/ (y = x + 1 /\ z = y - 1))
                      => x <= y /\ x <= z /\ z \in Nat
      OBVIOUS
    <2>5. Len(recv) \in Nat /\ Len(chain) \in Nat
      BY <1>1
    <2> QED
      BY <2>2, <2>3, <2>4, <2>5
  <1> QED
    BY <1>0, <1>1, <1>2 DEF SameContents, Logs

\* What a counted block has for a registered manager is owed there.
LEMMA CountedOwed ==
    ASSUME SystemInv, NEW n \in DOMAIN recv, NEW i \in DOMAIN Logs(n), NEW m,
           Logs(n)[i].type = "notify", Logs(n)[i].em = m, Registered(m, n)
    PROVE  [blk |-> n, idx |-> i] \in Seen!Owed(m)
  <1> DEFINE e == [blk |-> n, idx |-> i]
  <1>1. /\ Len(recv) \in Nat /\ DOMAIN recv = 1..Len(recv)
        /\ Seen!Done \in Nat /\ Len(recv) <= Seen!Done
        /\ \A x \in 1..Len(recv) : chain[x] = Logs(x)
    BY CountedLog
  <1>2. \A x \in 1..Len(recv) : \A y \in DOMAIN Logs(x) :
            /\ [blk |-> x, idx |-> y] \in Seen!Handled(Logs(x)[y].type)
            /\ Seen!LogAt([blk |-> x, idx |-> y]) = Logs(x)[y]
    BY <1>1 DEF Seen!Handled, Seen!LogAt
  <1>3. PICK d \in 1..n, r \in 1..n : \E x \in DOMAIN Logs(d), j \in DOMAIN Logs(r) :
            /\ d < r /\ r < n
            /\ Logs(d)[x].type = "deploy"
            /\ Logs(r)[j].type = "reg" /\ Logs(r)[j].em = m
    BY DEF Registered
  <1>4. PICK x \in DOMAIN Logs(d), j \in DOMAIN Logs(r) :
            /\ d < r /\ r < n
            /\ Logs(d)[x].type = "deploy"
            /\ Logs(r)[j].type = "reg" /\ Logs(r)[j].em = m
    BY <1>3
  <1>5. d \in 1..Len(recv) /\ r \in 1..Len(recv) /\ n \in 1..Len(recv)
    BY <1>1
  <1>6. /\ [blk |-> d, idx |-> x] \in Seen!Handled("deploy")
        /\ [blk |-> r, idx |-> j] \in Seen!Handled("reg")
        /\ e \in Seen!Handled("notify")
    BY <1>2, <1>4, <1>5
  <1>7. [blk |-> r, idx |-> j] \in Seen!Registrations
    BY <1>4, <1>6 DEF Seen!Registrations
  <1> QED
    BY <1>2, <1>4, <1>5, <1>6, <1>7 DEF Seen!Owed

\* A block that the host counts as pushed has its events among the past events
\* for good: the call only returns when the enclave is done with the block,
\* and an exception in a later one takes nothing away.
THEOREM CountedBlocksStored == Spec => []CountedStored
  <1>1. SystemInv /\ Seen!TypeOK /\ Seen!PastComplete => CountedStored
    <2> SUFFICES ASSUME SystemInv, Seen!TypeOK, Seen!PastComplete,
                        NEW n \in DOMAIN recv, NEW i \in DOMAIN Logs(n),
                        Logs(n)[i].type = "notify", Registered(Logs(n)[i].em, n)
                 PROVE  /\ Logs(n)[i].em \in DOMAIN pastStore
                        /\ \E k \in DOMAIN pastStore[Logs(n)[i].em] :
                              pastStore[Logs(n)[i].em][k] = [blk |-> n, idx |-> i]
      BY DEF CountedStored
    <2> DEFINE m == Logs(n)[i].em
               e == [blk |-> n, idx |-> i]
    <2>1. e \in Seen!Owed(m)
      BY CountedOwed
    <2>2. m \in EvMgrs
      <3>1. Logs(n) \in Seq(Sub!Log)
        BY CountedLog, ServiceAssumption DEF Seen!TypeOK, Seen!SvcTypeOK
      <3>2. Logs(n)[i] \in Sub!Log
        BY <3>1
      <3> QED
        BY <3>2 DEF Sub!Log, Sub!DeployLogs, Sub!RegLogs, Sub!NotifyLogs
    <2>3. m \in DOMAIN pastStore /\ e \in Seen!Range(pastStore[m])
      BY <2>1, <2>2 DEF Seen!PastComplete
    <2> QED
      BY <2>3 DEF Seen!Range
  <1> QED
    BY <1>1, InvAlways, SeenAlways, PTL

\* From a block that the host counts as pushed to its subscribers: each of its
\* events is delivered by the message after the next that covers it, none is
\* lost while the client is served, and no client gets an event that is not
\* its manager's.
THEOREM CountedEventsServed == Spec => []CountedServed
  <1>1. SystemInv /\ Seen!NoGap /\ Seen!WatermarkLag /\ Seen!OnlyOwn => CountedServed
    <2> SUFFICES ASSUME SystemInv, Seen!NoGap, Seen!WatermarkLag, Seen!OnlyOwn,
                        NEW c \in Readers, NEW n \in DOMAIN recv
                 PROVE  /\ \A i \in DOMAIN Logs(n) : Promised(c, n, i) =>
                            LET e == [blk |-> n, idx |-> i] IN
                            /\ n <= sure[c] => e \in Sub!Delivered(c)
                            /\ c \in subs /\ "past" \in got[c] => e \in Sub!Delivered(c) \cup Sub!InFlight(c)
                        /\ \A e \in Sub!Delivered(c) : e.blk = n =>
                            e.idx \in DOMAIN Logs(n) /\ EventOf(c, n, e.idx)
      BY DEF CountedServed
    <2>0. Seen!Delivered(c) = Sub!Delivered(c) /\ Seen!InFlight(c) = Sub!InFlight(c)
      BY DEF Seen!Delivered, Sub!Delivered, Seen!InFlight, Sub!InFlight, Seen!Range, Sub!Range
    <2>1. ASSUME NEW i \in DOMAIN Logs(n), Promised(c, n, i)
          PROVE  /\ n <= sure[c] => [blk |-> n, idx |-> i] \in Sub!Delivered(c)
                 /\ c \in subs /\ "past" \in got[c] =>
                        [blk |-> n, idx |-> i] \in Sub!Delivered(c) \cup Sub!InFlight(c)
      <3> DEFINE e == [blk |-> n, idx |-> i]
      <3>1. e \in Seen!Owed(em[c])
        BY <2>1, CountedOwed DEF Promised, EventOf
      <3>2. e \in Seen!Expected(c)
        BY <2>1, <3>1 DEF Promised, Seen!Expected
      <3> QED
        BY <2>0, <3>2, SeenSame DEF Seen!WatermarkLag, Seen!NoGap
    <2>2. ASSUME NEW e \in Sub!Delivered(c), e.blk = n
          PROVE  e.idx \in DOMAIN Logs(n) /\ EventOf(c, n, e.idx)
      <3>1. e \in Seen!LogOf(em[c])
        BY <2>0, <2>2, SeenSame DEF Seen!OnlyOwn, Seen!OwnInv, Seen!Pipe, Seen!Delivered
      <3>2. PICK x \in DOMAIN chain : \E y \in DOMAIN chain[x] : e = [blk |-> x, idx |-> y]
        BY <3>1 DEF Seen!LogOf, Seen!OnChain
      <3>3. x = n /\ e.idx \in DOMAIN chain[n] /\ Seen!LogAt(e) = chain[n][e.idx]
        BY <2>2, <3>2 DEF Seen!LogAt
      <3> QED
        BY <3>1, <3>3, CountedLog DEF EventOf, Seen!LogOf
    <2> QED
      BY <2>1, <2>2
  <1> QED
    BY <1>1, InvAlways, SeenAlways, PTL

\* A feed there is a feed here.
LEMMA SameFeed ==
    (Seen!Feed!Init => Sub!Feed!Init) /\ ([Seen!Feed!Next]_(Seen!Feed!vars) => [Sub!Feed!Next]_(Sub!Feed!vars))
  <1>1. /\ [m \in EvMgrs |-> Seen!LogOf(m)] = [m \in EvMgrs |-> Sub!LogOf(m)]
        /\ [m \in EvMgrs |-> Seen!LogOf(m)]' = [m \in EvMgrs |-> Sub!LogOf(m)]'
    BY DEF Seen!LogOf, Sub!LogOf, Seen!OnChain, Sub!OnChain, Seen!LogAt, Sub!LogAt
  <1>2. /\ Seen!Clients = Sub!Clients
        /\ \A e, f : Seen!Feed!Before(e, f) <=> Sub!Feed!Before(e, f)
        /\ \A s : Seen!Feed!Range(s) = Sub!Feed!Range(s)
    BY DEF Seen!Clients, Sub!Clients, Seen!Feed!Before, Sub!Feed!Before, Seen!Feed!Range, Sub!Feed!Range
  <1>3. \A s, events : Seen!Feed!Stretch(s, events) <=> Sub!Feed!Stretch(s, events)
    BY <1>2 DEF Seen!Feed!Stretch, Sub!Feed!Stretch, Seen!Feed!InOrder, Sub!Feed!InOrder
  <1>4. Seen!Feed!Init => Sub!Feed!Init
    BY <1>1, <1>2 DEF Seen!Feed!Init, Sub!Feed!Init
  <1>5. Seen!Feed!Publish => Sub!Feed!Publish
    BY <1>1, <1>2 DEF Seen!Feed!Publish, Sub!Feed!Publish
  <1>6. \A c : Seen!Feed!Send(c) => Sub!Feed!Send(c)
    BY <1>1, <1>2, <1>3 DEF Seen!Feed!Send, Sub!Feed!Send
  <1>7. UNCHANGED Seen!Feed!vars => UNCHANGED Sub!Feed!vars
    BY <1>1 DEF Seen!Feed!vars, Sub!Feed!vars
  <1> QED
    BY <1>2, <1>4, <1>5, <1>6, <1>7 DEF Seen!Feed!Next, Sub!Feed!Next

\* The messages to the subscribers of the whole system are those of an
\* EventFeed (SubscriberHandler.hpp under Main.cpp and Enclave.cpp).
THEOREM SubscribersFed == Spec => Sub!FeedSpec
  <1>1. Seen!Spec => Seen!FeedSpec
    BY PubsubAssumed, Seen!FeedImplemented
  <1>2. Seen!FeedSpec => Sub!FeedSpec
    BY SameFeed, PTL DEF Seen!FeedSpec, Sub!FeedSpec, Seen!Feed!Spec, Sub!Feed!Spec
  <1> QED
    BY <1>1, <1>2, SeenSpec, PTL

-----------------------------------------------------------------------------
(* The other side of the call: the host runs HostBlocks. *)

HostService == INSTANCE HostBlocksProofs

\* Every step of the system is one of the host, or not seen by it.
LEMMA HostStep == [Next]_vars => [Host!Next]_(Host!vars)
  <1> SUFFICES ASSUME [Next]_vars PROVE [Host!Next]_(Host!vars)
    OBVIOUS
  <1>1. CASE UpdatorStep \/ GethStep \/ RecvBlockReturns \/ RecvBlockThrows
    BY <1>1 DEF UpdatorStep, GethStep, RecvBlockReturns, RecvBlockThrows, Host!Next, Host!Tick
  <1>2. CASE UNCHANGED hostVars
    BY <1>2 DEF hostVars, Host!vars, Host!geth, Host!upd
  <1>3. \/ UpdatorStep \/ GethStep \/ RecvBlockReturns \/ RecvBlockThrows \/ UNCHANGED hostVars
    BY DEF Next, Ecall, Terminated, vars, RecvBlock, AppendBlock, CheckEvents, CallbackStep, NotifyStep, EnclaveThrows,
       SubscriberStep
  <1> QED
    BY <1>1, <1>2, <1>3

\* The updator sees of the enclave only whether a push returned or threw, as
\* HostBlocks has it (Untrusted/HostBlockService.hpp against Enclave.cpp).
THEOREM UpdatorRunsHost == Spec => Host!Spec
  <1>1. Init => Host!Init
    BY DEF Init
  <1> QED
    BY <1>1, HostStep, PTL DEF Spec, Host!Spec

\* HostService and Host are the same host.
LEMMA SameHost ==
    (Host!Init => HostService!Init) /\ ([Host!Next]_(Host!vars) => [HostService!Next]_(HostService!vars))
  <1>1. Host!Init => HostService!Init
    BY DEF Host!Init, HostService!Init, Host!NoHeader, HostService!NoHeader
  <1>2. (Host!Mine => HostService!Mine) /\ \A n : Host!Reorg(n) => HostService!Reorg(n)
    BY DEF Host!Mine, HostService!Mine, Host!Reorg, HostService!Reorg, Host!upd, HostService!upd
  <1>3. /\ Host!StartSendingBlocks => HostService!StartSendingBlocks
        /\ Host!StopUpdator => HostService!StopUpdator
        /\ Host!LogStatus => HostService!LogStatus
    BY DEF Host!StartSendingBlocks, HostService!StartSendingBlocks, Host!StopUpdator, HostService!StopUpdator,
       Host!LogStatus, HostService!LogStatus, Host!geth, HostService!geth, Host!upd, HostService!upd
  <1>4. Host!Tick => HostService!Tick
    BY DEF Host!Tick, HostService!Tick, Host!Wake, HostService!Wake, Host!NothingNew, HostService!NothingNew,
       Host!GethFails, HostService!GethFails, Host!AskLatest, HostService!AskLatest,
       Host!FetchHeader, HostService!FetchHeader, Host!PushBlock, HostService!PushBlock,
       Host!PushThrows, HostService!PushThrows, Host!CountBlock, HostService!CountBlock,
       Host!TickFalse, HostService!TickFalse, Host!NextTick, HostService!NextTick,
       Host!Available, HostService!Available, Host!NextBlk, HostService!NextBlk, Host!geth, HostService!geth
  <1>5. UNCHANGED Host!vars => UNCHANGED HostService!vars
    BY DEF Host!vars, HostService!vars, Host!geth, HostService!geth, Host!upd, HostService!upd
  <1> QED
    BY <1>1, <1>2, <1>3, <1>4, <1>5 DEF Host!Next, HostService!Next

\* The n-th block in the enclave is that of number StartBlock + n - 1, with
\* the contents of a header Geth gave for that number.
THEOREM EnclaveConsecutive == Spec => []Host!Consecutive
  <1>1. Spec => HostService!Spec
    BY UpdatorRunsHost, SameHost, PTL DEF Host!Spec, HostService!Spec
  <1>2. HostService!Spec => []HostService!Consecutive
    BY HostService!ConsecutiveBlocks, StartAssumption, BoundsAssumption
  <1>3. HostService!Consecutive => Host!Consecutive
    BY DEF HostService!Consecutive, Host!Consecutive
  <1> QED
    BY <1>1, <1>2, <1>3, PTL
=============================================================================
