-------------------------- MODULE HostBlocksProofs --------------------------
(***************************************************************************)
(* Proofs about HostBlocks: the enclave is given consecutive block numbers *)
(* and the status task's unsigned difference never wraps around, for any   *)
(* chain, any number of reorganisations and any start block.               *)
(***************************************************************************)
EXTENDS HostBlocks, TLAPS

USE StartAssumption, HostBoundAssumption

\* One header more has been taken than counted exactly in "count", the header
\* in hand has the number under way, and the status task is behind the counter.
Counted ==
    /\ updPc = "off" <=> currBlk = 0
    /\ updPc = "off" => Len(recv) = 0
    /\ updPc # "off" => currBlk = StartBlock + Len(recv) - (IF updPc = "count" THEN 1 ELSE 0)
InHand  == updPc \in {"push", "count"} => hdr.num = currBlk
Behind  == lastLogged <= currBlk

NumberInv == Counted /\ InHand /\ Behind

HostInv == TypeOK /\ NumberInv /\ Consecutive

\* The start satisfies the invariant.
LEMMA HostInit == Init => HostInv
  <1> SUFFICES ASSUME Init
               PROVE  HostInv
    OBVIOUS
  <1> USE DEF Init
  <1>1. TypeOK
    <2>1. hdr \in Header /\ canon \in Seq(Nat) /\ recv \in Seq(Header)
      BY DEF Header, NoHeader
    <2>2. interval \in BOOLEAN
      OBVIOUS
    <2> QED
      BY <2>1, <2>2 DEF TypeOK, Diff
  <1>2. NumberInv
    BY DEF NumberInv, Counted, InHand, Behind
  <1>3. Consecutive
    BY DEF Consecutive
  <1> QED
    BY <1>1, <1>2, <1>3 DEF HostInv

\* Types: only CountBlock and LogStatus compute a value that could leave its type.
LEMMA TypeStep ==
  ASSUME HostInv, [Next]_vars
  PROVE  TypeOK'
  <1> USE DEF HostInv, TypeOK, Diff
  <1>1. CASE UNCHANGED vars
    BY <1>1 DEF vars, geth, upd
  <1>2. CASE Mine
    BY <1>2 DEF Mine, upd
  <1>3. ASSUME NEW n \in DOMAIN canon, Reorg(n)
        PROVE  TypeOK'
    <2>1. SubSeq(canon, 1, n - 1) \in Seq(Nat)
      OBVIOUS
    <2>2. canon' \in Seq(Nat) /\ reorgs' \in Nat
      BY <1>3, <2>1 DEF Reorg
    <2> QED
      BY <1>3, <2>2 DEF Reorg, upd
  <1>4. CASE Wake
    BY <1>4 DEF Wake, geth
  <1>5. CASE NothingNew \/ GethFails
    BY <1>5 DEF NothingNew, GethFails, TickFalse, NextTick, geth
  <1>6. CASE AskLatest
    BY <1>6 DEF AskLatest, geth
  <1>7. CASE FetchHeader
    <2>1. currBlk # 0 => canon[currBlk] \in Nat
      BY <1>7 DEF FetchHeader
    <2>2. currBlk # 0
      BY <1>7 DEF FetchHeader, NumberInv, Counted
    <2>3. hdr' \in Header
      BY <1>7, <2>1, <2>2 DEF FetchHeader, Header
    <2> QED
      BY <1>7, <2>3 DEF FetchHeader, geth
  <1>8. CASE PushBlock
    <2>1. recv' \in Seq(Header)
      BY <1>8 DEF PushBlock
    <2> QED
      BY <1>8, <2>1 DEF PushBlock, geth
  <1>9. CASE PushThrows
    BY <1>9 DEF PushThrows, geth
  <1>10. CASE CountBlock
    <2>1. interval' \in BOOLEAN
      BY <1>10 DEF CountBlock
    <2>2. currBlk' \in Nat /\ updPc' = "ask" /\ Diff' \in Nat
      BY <1>10 DEF CountBlock, NextBlk, NextTick, NumberInv, Behind
    <2> QED
      BY <1>10, <2>1, <2>2 DEF CountBlock, geth
  <1>11. CASE LogStatus
    BY <1>11 DEF LogStatus, Diff, NumberInv, Behind, geth, upd
  <1>12. CASE StartSendingBlocks \/ StopUpdator
    BY <1>12 DEF StartSendingBlocks, StopUpdator, geth
  <1> QED
    BY <1>1, <1>2, <1>3, <1>4, <1>5, <1>6, <1>7, <1>8, <1>9, <1>10, <1>11, <1>12
    DEF Next, Tick

\* The numbers: a header is fetched for the counter's block, PushBlock adds
\* it, CountBlock catches up.
LEMMA NumberStep ==
  ASSUME HostInv, [Next]_vars
  PROVE  NumberInv'
  <1> USE DEF HostInv, TypeOK, NumberInv, Counted, InHand, Behind
  <1>1. CASE UNCHANGED vars
    BY <1>1 DEF vars, geth, upd
  <1>2. CASE Mine \/ \E n \in DOMAIN canon : Reorg(n)
    BY <1>2 DEF Mine, Reorg, upd
  <1>3. CASE Wake \/ AskLatest \/ PushThrows
    BY <1>3 DEF Wake, AskLatest, PushThrows, geth
  <1>4. CASE NothingNew \/ GethFails
    BY <1>4 DEF NothingNew, GethFails, TickFalse, NextTick, geth
  <1>5. CASE FetchHeader
    BY <1>5 DEF FetchHeader, geth
  <1>6. CASE PushBlock
    BY <1>6 DEF PushBlock, geth
  <1>7. CASE CountBlock
    BY <1>7 DEF CountBlock, NextBlk, NextTick, geth
  <1>8. CASE LogStatus
    BY <1>8 DEF LogStatus, Diff, geth, upd
  <1>9. CASE StartSendingBlocks
    BY <1>9 DEF StartSendingBlocks
  <1>10. CASE StopUpdator
    BY <1>10 DEF StopUpdator
  <1> QED
    BY <1>1, <1>2, <1>3, <1>4, <1>5, <1>6, <1>7, <1>8, <1>9, <1>10
    DEF Next, Tick

\* Only PushBlock adds a header, the one with the number under way.
LEMMA ConsecutiveStep ==
  ASSUME HostInv, [Next]_vars
  PROVE  Consecutive'
  <1> USE DEF HostInv, TypeOK, Consecutive
  <1>1. CASE PushBlock
    <2>1. hdr.num = StartBlock + Len(recv)
      BY <1>1 DEF PushBlock, NumberInv, Counted, InHand
    <2> QED
      BY <1>1, <2>1 DEF PushBlock
  <1>2. CASE UNCHANGED recv
    BY <1>2
  <1>3. PushBlock \/ UNCHANGED recv
    BY DEF Next, Tick, Mine, Reorg, Wake, NothingNew, GethFails, TickFalse, AskLatest,
           FetchHeader, PushThrows, CountBlock, LogStatus, StartSendingBlocks,
           StopUpdator, vars
  <1> QED
    BY <1>1, <1>2, <1>3

\* The invariant holds throughout.
LEMMA HostAlways == Spec => []HostInv
  <1>1. HostInv /\ [Next]_vars => HostInv'
    BY TypeStep, NumberStep, ConsecutiveStep DEF HostInv
  <1> QED
    BY <1>1, HostInit, PTL DEF Spec

\* The variables have their types.  For Diff this says that the unsigned
\* difference of HostBlockStatusLogTask::Tick never wraps around, at whatever
\* moment of TryPushNewBlock the counter is read.
THEOREM HostTypeCorrect == Spec => []TypeOK
  <1>1. HostInv => TypeOK
    BY DEF HostInv
  <1> QED
    BY <1>1, HostAlways, PTL

\* TryPushNewBlock hands the enclave every block number from StartBlock on
\* once and in order, whatever fails and however Geth reorganises.
THEOREM ConsecutiveBlocks == Spec => []Consecutive
  <1>1. HostInv => Consecutive
    BY DEF HostInv
  <1> QED
    BY <1>1, HostAlways, PTL

\* The counter is behind the enclave by the block being counted and no more.
THEOREM CounterLags == Spec => []CounterLag
  <1>1. HostInv => CounterLag
    BY DEF HostInv, NumberInv, Counted, CounterLag, TypeOK
  <1> QED
    BY <1>1, HostAlways, PTL
=============================================================================
