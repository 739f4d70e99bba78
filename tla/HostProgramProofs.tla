-------------------------- MODULE HostProgramProofs --------------------------
(***************************************************************************)
(* Proofs about HostProgram, for all constants: its steps are steps of     *)
(* HostBlocks, whose theorems therefore hold of the running program, and   *)
(* no task runs without an enclave.                                        *)
(***************************************************************************)
EXTENDS HostProgram, HostBlocksProofs

\* Every step of the program is a step of HostBlocks or leaves its variables
\* alone.
LEMMA HostStep == [ProgNext]_allVars => [Next]_vars
  <1> SUFFICES ASSUME [ProgNext]_allVars PROVE [Next]_vars
    OBVIOUS
  <1>1. CASE Main
    <2>1. CASE SendBlocks
      BY <2>1 DEF SendBlocks, Next
    <2> QED
      BY <1>1, <2>1 DEF Main, ReadConfig, MakeEnclave, BindReceiver, AddFunction,
         AddHeartbeat, AddIoService, LeaveLoop, Return
  <1>2. CASE MainThrows \/ Signal \/ TakeTask
    BY <1>2 DEF MainThrows, Signal, TakeTask
  <1>3. CASE Updator
    BY <1>3 DEF Updator, UpdatorRuns, UpdatorPushes, UpdatorEnds, Next, Tick
  <1>4. CASE StatusRuns
    BY <1>4 DEF StatusRuns, Next
  <1>5. CASE (\E r \in Requests : RequestArrives(r)) \/ OtherTasks
    BY <1>5 DEF RequestArrives, OtherTasks, RequestEnds, TaskEnds
  <1>6. CASE GethMoves
    BY <1>6 DEF GethMoves, Next
  <1>7. CASE Stopped \/ UNCHANGED allVars
    BY <1>7 DEF Stopped, allVars
  <1> QED
    BY <1>1, <1>2, <1>3, <1>4, <1>5, <1>6, <1>7 DEF ProgNext

\* The program drives HostBlockService as HostBlocks describes it
\* (StartSendingBlocks, the two tasks, and ThreadPool::Terminate).
THEOREM ProgramRunsHost == ProgSpec => Spec
  <1>1. ProgInit => Init
    BY DEF ProgInit
  <1> QED
    BY <1>1, HostStep, PTL DEF ProgSpec, Spec

\* The enclave is given every block number once and in order by the program
\* with its pool, its requests and its signals.
THEOREM ProgramConsecutive == ProgSpec => []Consecutive
  BY ProgramRunsHost, ConsecutiveBlocks, PTL

-----------------------------------------------------------------------------
\* Nothing is given to the pool before main has made and bound the enclave,
\* and main only returns without a running task.
Early  == main \in {"config", "enclave", "bind", "send"} => running = {} /\ queue = <<>>
Bound  == main \in {"send", "serve", "heartbeat", "io", "run", "terminate"} => receiver
Late   == main = "done" => running = {}

ReadyInv == ProgTypeOK /\ Early /\ Bound /\ Late

\* The start satisfies the invariant.
LEMMA ReadyInit == ProgInit => ReadyInv
  <1> SUFFICES ASSUME ProgInit PROVE ReadyInv
    OBVIOUS
  <1>1. TypeOK
    BY HostInit DEF ProgInit, HostInv
  <1>2. queue \in Seq(Tasks)
    BY DEF ProgInit
  <1>3. Early /\ Bound /\ Late
    BY DEF ProgInit, Early, Bound, Late
  <1>4. ProgTypeOK
    BY <1>1, <1>2 DEF ProgInit, ProgTypeOK
  <1> QED
    BY <1>3, <1>4 DEF ReadyInv

\* The program's own variables keep their types.
LEMMA ProgTypeStep ==
  ASSUME ProgTypeOK, TypeOK', [ProgNext]_allVars
  PROVE  ProgTypeOK'
  <1> USE DEF ProgTypeOK, Tasks
  <1>1. CASE Main
    <2>1. CASE ReadConfig \/ MakeEnclave \/ BindReceiver \/ AddFunction
      BY <2>1 DEF ReadConfig, MakeEnclave, BindReceiver, AddFunction, At, After
    <2>4. CASE LeaveLoop \/ Return
      <3>1. <<>> \in Seq(Tasks)
        OBVIOUS
      <3> QED
        BY <2>4, <3>1 DEF LeaveLoop, Return
    <2>2. CASE SendBlocks
      <3>1. <<"status", "updator">> \in Seq(Tasks)
        OBVIOUS
      <3>2. queue' \in Seq(Tasks) /\ main' = "serve"
        BY <2>2, <3>1 DEF SendBlocks, AddTasks, At, After
      <3> QED
        BY <2>2, <3>2 DEF SendBlocks
    <2>3. CASE AddHeartbeat
      <3>1. <<"heartbeat">> \in Seq(Tasks)
        OBVIOUS
      <3>2. queue' \in Seq(Tasks) /\ main' = "io"
        BY <2>3, <3>1 DEF AddHeartbeat, AddTasks, At, After
      <3> QED
        BY <2>3, <3>2 DEF AddHeartbeat
    <2>5. CASE AddIoService
      <3>1. <<"io">> \in Seq(Tasks)
        OBVIOUS
      <3>2. queue' \in Seq(Tasks) /\ main' = "run"
        BY <2>5, <3>1 DEF AddIoService, AddTasks, At, After
      <3> QED
        BY <2>5, <3>2 DEF AddIoService
    <2> QED
      BY <1>1, <2>1, <2>2, <2>3, <2>4, <2>5 DEF Main
  <1>2. CASE MainThrows \/ Signal
    BY <1>2 DEF MainThrows, Signal
  <1>3. CASE TakeTask
    <2>1. Head(queue) \in Tasks /\ Tail(queue) \in Seq(Tasks)
      BY <1>3 DEF TakeTask
    <2> QED
      BY <1>3, <2>1 DEF TakeTask
  <1>4. CASE Updator
    BY <1>4 DEF Updator, UpdatorRuns, UpdatorEnds, Finish, progVars
  <1>5. CASE StatusRuns \/ GethMoves
    BY <1>5 DEF StatusRuns, GethMoves, progVars
  <1>6. ASSUME NEW r \in Requests, RequestArrives(r)
        PROVE  ProgTypeOK'
    <2>1. <<r>> \in Seq(Tasks)
      OBVIOUS
    <2> QED
      BY <1>6, <2>1 DEF RequestArrives, AddTasks
  <1>7. CASE OtherTasks
    BY <1>7 DEF OtherTasks, RequestEnds, TaskEnds, Finish
  <1>8. CASE Stopped \/ UNCHANGED allVars
    BY <1>8 DEF Stopped, allVars, progVars
  <1> QED
    BY <1>1, <1>2, <1>3, <1>4, <1>5, <1>6, <1>7, <1>8 DEF ProgNext

\* The order of main, and the tasks that run meanwhile.
LEMMA ReadyStep ==
  ASSUME ReadyInv, [ProgNext]_allVars
  PROVE  Early' /\ Bound' /\ Late'
  <1> USE DEF ReadyInv, Early, Bound, Late
  <1>1. CASE Main
    BY <1>1 DEF Main, ReadConfig, MakeEnclave, BindReceiver, SendBlocks, AddFunction,
       AddHeartbeat, AddIoService, LeaveLoop, Return, At, After
  <1>2. CASE MainThrows \/ Signal
    BY <1>2 DEF MainThrows, Signal, Ended
  <1>3. CASE TakeTask
    BY <1>3 DEF TakeTask, Ended
  <1>4. CASE Updator
    BY <1>4 DEF Updator, UpdatorRuns, UpdatorEnds, Runs, Finish, progVars
  <1>5. CASE StatusRuns \/ GethMoves
    BY <1>5 DEF StatusRuns, GethMoves, progVars
  <1>6. CASE \E r \in Requests : RequestArrives(r)
    BY <1>6 DEF RequestArrives, Runs
  <1>7. CASE OtherTasks
    BY <1>7 DEF OtherTasks, RequestEnds, TaskEnds, Runs, Finish
  <1>8. CASE Stopped \/ UNCHANGED allVars
    BY <1>8 DEF Stopped, allVars, progVars
  <1> QED
    BY <1>1, <1>2, <1>3, <1>4, <1>5, <1>6, <1>7, <1>8 DEF ProgNext

\* The invariant holds throughout.
LEMMA ReadyAlways == ProgSpec => []ReadyInv
  <1>1. ProgSpec => []HostInv
    BY ProgramRunsHost, HostAlways, PTL
  <1>2. HostInv' => TypeOK'
    BY DEF HostInv
  <1>3. ReadyInv /\ HostInv' /\ [ProgNext]_allVars => ReadyInv'
    BY <1>2, ProgTypeStep, ReadyStep DEF ReadyInv
  <1> QED
    BY <1>1, <1>3, ReadyInit, PTL DEF ProgSpec

\* The variables of the program have their types.
THEOREM ProgTypeCorrect == ProgSpec => []ProgTypeOK
  <1>1. ReadyInv => ProgTypeOK
    BY DEF ReadyInv
  <1> QED
    BY <1>1, ReadyAlways, PTL

\* No task of the pool runs before the enclave is made and bound to the block
\* service, nor after main has destroyed it.
THEOREM TasksHaveEnclave == ProgSpec => []ReadyBeforeWork
  <1>1. ReadyInv => ReadyBeforeWork
    BY DEF ReadyInv, ProgTypeOK, Early, Bound, Late, ReadyBeforeWork
  <1> QED
    BY <1>1, ReadyAlways, PTL
=============================================================================
