------------------------- MODULE BlockchainMgrProofs -------------------------
(***************************************************************************)
(* Proofs about BlockchainMgr, for any chain, start, number of iterations  *)
(* and readers: types, the plan behind each change of phase, and the       *)
(* iterations logged.                                                      *)
(***************************************************************************)
EXTENDS BlockchainMgr, TLAPS

USE StartAssumption, ReaderAssumption

\* The block thread is on its way from the check of a block to its plan.
Planning == pc \in {"events", "phase"}

\* In BootstrapI no block is handled beyond the end of the plan, and the block
\* at the end has a plan of its own by the time the monitor may go on.
PlanAhead ==
    phase = "BootstrapI" =>
        /\ pc \in {"out", "update", "confirm", "return"} => num < iEnd
        /\ Planning => num <= iEnd
        /\ pc = "validated" => num <= iEnd /\ (num = iEnd => planAt = num)

\* In BootstrapII every block has its plan.
PlanEach == phase = "BootstrapII" /\ pc = "validated" => planAt = num

PlanInv == MgrTypeOK /\ PlanAhead /\ PlanEach

\* The start satisfies the invariant.
LEMMA PlanInit == Init => PlanInv
  <1> SUFFICES ASSUME Init PROVE PlanInv
    OBVIOUS
  <1>1. MgrTypeOK
    BY DEF Init, MgrTypeOK
  <1>2. PlanAhead /\ PlanEach
    BY DEF Init, PlanAhead, PlanEach, Planning
  <1> QED
    BY <1>1, <1>2 DEF PlanInv

\* Types.
LEMMA MgrTypeStep ==
  ASSUME MgrTypeOK, [Next]_vars
  PROVE  MgrTypeOK'
  <1> USE DEF MgrTypeOK, monitor
  <1>1. CASE Mine \/ AppendBlock
    BY <1>1 DEF Mine, AppendBlock
  <1>2. CASE OnHeaderValidated \/ CheckEvents
    BY <1>2 DEF OnHeaderValidated, CheckEvents
  <1>3. CASE RefreshPlan
    <2>1. iEnd' \in Nat /\ planAt' \in Nat
      BY <1>3 DEF RefreshPlan, RefreshBootstrapPlan
    <2> QED
      BY <1>3, <2>1 DEF RefreshPlan
  <1>4. CASE NextPhase
    BY <1>4 DEF NextPhase
  <1>5. CASE OnHeaderConfirmed
    <2>1. iter' \in Nat
      BY <1>5 DEF OnHeaderConfirmed
    <2>2. logs' \in Seq(Nat)
      BY <1>5, <2>1 DEF OnHeaderConfirmed
    <2> QED
      BY <1>5, <2>1, <2>2 DEF OnHeaderConfirmed, IterNoted
  <1>6. CASE AppendReturns \/ AppendThrows
    BY <1>6 DEF AppendReturns, AppendThrows
  <1>7. CASE \E r \in Readers : GetterEnters(r) \/ GetterReturns(r)
    BY <1>7 DEF GetterEnters, GetterReturns
  <1>8. CASE UNCHANGED vars
    BY <1>8 DEF vars
  <1> QED
    BY <1>1, <1>2, <1>3, <1>4, <1>5, <1>6, <1>7, <1>8 DEF Next, BlockWork

\* The plan: RefreshPlan makes one where the block number meets the end.
LEMMA PlanStep ==
  ASSUME PlanInv, [Next]_vars
  PROVE  PlanAhead' /\ PlanEach'
  <1> USE DEF PlanInv, MgrTypeOK, PlanAhead, PlanEach, Planning, monitor
  <1>1. CASE Mine \/ AppendBlock
    BY <1>1 DEF Mine, AppendBlock
  <1>2. CASE OnHeaderValidated
    BY <1>2 DEF OnHeaderValidated
  <1>3. CASE CheckEvents
    BY <1>3 DEF CheckEvents
  <1>4. CASE RefreshPlan
    BY <1>4 DEF RefreshPlan, RefreshBootstrapPlan, NeedsRefresh, AtEnd
  <1>5. CASE NextPhase
    BY <1>5 DEF NextPhase
  <1>6. CASE OnHeaderConfirmed
    BY <1>6 DEF OnHeaderConfirmed
  <1>7. CASE AppendReturns \/ AppendThrows
    BY <1>7 DEF AppendReturns, AppendThrows
  <1>8. CASE \E r \in Readers : GetterEnters(r) \/ GetterReturns(r)
    BY <1>8 DEF GetterEnters, GetterReturns
  <1>9. CASE UNCHANGED vars
    BY <1>9 DEF vars
  <1> QED
    BY <1>1, <1>2, <1>3, <1>4, <1>5, <1>6, <1>7, <1>8, <1>9 DEF Next, BlockWork

\* The invariant holds throughout.
LEMMA PlanAlways == Spec => []PlanInv
  <1>1. PlanInv /\ [Next]_vars => PlanInv'
    BY MgrTypeStep, PlanStep DEF PlanInv
  <1> QED
    BY <1>1, PlanInit, PTL DEF Spec

\* The variables have their types.
THEOREM MgrTypeCorrect == Spec => []MgrTypeOK
  <1>1. PlanInv => MgrTypeOK
    BY DEF PlanInv
  <1> QED
    BY <1>1, PlanAlways, PTL

\* OnHeaderValidated's test for equality never misses the end of BootstrapI,
\* and neither part of the bootstrap is left without a plan made at that block.
THEOREM BootstrapLeftFresh == Spec => LeavesFresh
  <1>1. PlanInv /\ [Next]_vars => [phase' # phase => phase = "Sync" \/ planAt = num]_vars
    <2> SUFFICES ASSUME PlanInv, Next, phase' # phase
                 PROVE  phase = "Sync" \/ planAt = num
      OBVIOUS
    <2>1. NextPhase
      BY DEF Next, BlockWork, Mine, AppendBlock, OnHeaderValidated, CheckEvents, RefreshPlan,
         OnHeaderConfirmed, AppendReturns, AppendThrows, GetterEnters, GetterReturns, monitor
    <2> QED
      BY <2>1 DEF NextPhase, PlanInv, MgrTypeOK, PlanAhead, PlanEach
  <1> QED
    BY <1>1, PlanAlways, PTL DEF Spec, LeavesFresh

-----------------------------------------------------------------------------
Marks == <<0>> \o logs

LastMark == Marks[Len(Marks)]

\* The iteration noted is the monitor's, and in BootstrapI every third one is
\* logged.
Noted   == lastChkptIter = iter
Thirds  == phase = "BootstrapI" => iter - LastMark <= iter % 3
Gaps    == \A i \in 1..Len(logs) : Marks[i + 1] - Marks[i] \in 1..3
Lag     == iter - LastMark \in 0..2

LogInv == MgrTypeOK /\ Noted /\ Thirds /\ Gaps /\ Lag

\* Logging one more iteration adds one mark.
LEMMA MarkAdded ==
  ASSUME logs \in Seq(Nat), NEW n \in Nat, logs' = Append(logs, n)
  PROVE  /\ Len(logs') = Len(logs) + 1
         /\ LastMark' = n
         /\ Marks'[Len(logs) + 2] = n
         /\ \A i \in 1..Len(logs) + 1 : Marks'[i] = Marks[i]
         /\ LastMark = Marks[Len(logs) + 1]
  BY DEF LastMark, Marks

\* Only a confirmed header changes the iterations and the log.
LEMMA LogStep ==
  ASSUME LogInv, [Next]_vars
  PROVE  Noted' /\ Thirds' /\ Gaps' /\ Lag'
  <1> USE DEF LogInv
  <1>0. LastMark \in Nat /\ iter \in Nat /\ logs \in Seq(Nat)
    BY DEF MgrTypeOK, LastMark, Marks
  <1>1. CASE OnHeaderConfirmed
    <2>1. /\ iter' \in {iter, iter + 1}
          /\ lastChkptIter' = iter'
          /\ logs' = IF LogStatus(iter') THEN Append(logs, iter') ELSE logs
          /\ UNCHANGED phase
      BY <1>1 DEF OnHeaderConfirmed, IterNoted
    <2>2. CASE iter' = iter
      <3>1. logs' = logs
        BY <2>1, <2>2 DEF LogStatus, Noted
      <3> QED
        BY <2>1, <2>2, <3>1 DEF Noted, Thirds, Gaps, Lag, LastMark, Marks
    <2>3. CASE iter' = iter + 1 /\ LogStatus(iter')
      <3>1. logs' = Append(logs, iter + 1) /\ iter + 1 \in Nat
        BY <1>0, <2>1, <2>3
      <3>2. /\ Len(logs') = Len(logs) + 1
            /\ LastMark' = iter + 1
            /\ Marks'[Len(logs) + 2] = iter + 1
            /\ \A i \in 1..Len(logs) + 1 : Marks'[i] = Marks[i]
            /\ LastMark = Marks[Len(logs) + 1]
        BY <1>0, <3>1, MarkAdded
      <3>5. iter' - LastMark' = 0 /\ iter' % 3 >= 0
        BY <1>0, <2>3, <3>2
      <3>3. Noted' /\ Lag' /\ Thirds'
        BY <2>1, <3>5 DEF Noted, Lag, Thirds
      <3>4. Gaps'
        <4>1. Len(logs) \in Nat
          BY <1>0
        <4> SUFFICES ASSUME NEW i \in 1..Len(logs) + 1
                     PROVE  Marks'[i + 1] - Marks'[i] \in 1..3
          BY <3>2 DEF Gaps
        <4>2. CASE i \in 1..Len(logs)
          BY <3>2, <4>1, <4>2 DEF Gaps
        <4>3. CASE i = Len(logs) + 1
          <5>1. i + 1 = Len(logs) + 2 /\ i \in 1..Len(logs) + 1
            BY <4>1, <4>3
          <5>2. Marks'[i + 1] = iter + 1 /\ Marks'[i] = LastMark
            BY <3>2, <4>3, <5>1
          <5>3. iter - LastMark \in 0..2
            BY DEF Lag
          <5> HIDE DEF LogInv
          <5>4. (iter + 1) - LastMark \in 1..3
            BY <1>0, <5>3
          <5> QED
            BY <5>2, <5>4
        <4> QED
          BY <4>1, <4>2, <4>3
      <3> QED
        BY <3>3, <3>4
    <2>4. CASE iter' = iter + 1 /\ ~LogStatus(iter')
      <3>1. logs' = logs /\ phase = "BootstrapI" /\ (iter + 1) % 3 # 0
        BY <1>0, <2>1, <2>4 DEF LogStatus, Noted
      <3>2. LastMark' = LastMark /\ Marks' = Marks
        BY <3>1 DEF LastMark, Marks
      <3>3. (iter + 1) % 3 = (iter % 3) + 1 /\ iter % 3 \in 0..1
        BY <1>0, <3>1
      <3> QED
        BY <1>0, <2>1, <2>4, <3>1, <3>2, <3>3 DEF Noted, Thirds, Gaps, Lag
    <2> QED
      BY <2>1, <2>2, <2>3, <2>4
  <1>2. CASE ~OnHeaderConfirmed
    <2>1. UNCHANGED <<iter, lastChkptIter, logs>> /\ (phase' = "BootstrapI" => phase = "BootstrapI")
      BY <1>2 DEF Next, BlockWork, Mine, AppendBlock, OnHeaderValidated, CheckEvents,
         RefreshPlan, NextPhase, AppendReturns, AppendThrows, GetterEnters, GetterReturns,
         monitor, vars
    <2> QED
      BY <2>1 DEF Noted, Thirds, Gaps, Lag, LastMark, Marks
  <1> QED
    BY <1>1, <1>2

\* OnHeaderConfirmed logs no iteration twice and leaves out at most two in a
\* row, in whatever phase.
THEOREM StatusLogged == Spec => []LogGap
  <1>1. Init => LogInv
    <2> SUFFICES ASSUME Init PROVE LogInv
      OBVIOUS
    <2>1. MgrTypeOK
      BY PlanInit DEF PlanInv
    <2>2. logs = <<>> /\ iter = 0 /\ lastChkptIter = 0
      BY DEF Init
    <2>3. LastMark = 0 /\ Len(logs) = 0
      BY <2>2 DEF LastMark, Marks
    <2> QED
      BY <2>1, <2>2, <2>3 DEF LogInv, Noted, Thirds, Gaps, Lag
  <1>2. LogInv /\ [Next]_vars => LogInv'
    BY MgrTypeStep, LogStep DEF LogInv
  <1>3. LogInv => LogGap
    BY DEF LogInv, LogGap, Gaps, Lag, Marks, LastMark
  <1> QED
    BY <1>1, <1>2, <1>3, PTL DEF Spec
=============================================================================
