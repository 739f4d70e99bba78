----------------------------- MODULE HostProgram -----------------------------
(***************************************************************************)
(* The host's main program around HostBlocks (Main.cpp, RunUntilSignal.hpp *)
(* and the constructor of DecentEthereumEnclave): the components are built *)
(* one after the other, tasks go to a thread pool, and a signal ends it.   *)
(*                                                                         *)
(* External: SimpleConcurrency's ThreadPool, whose threads take tasks in   *)
(* the order they were added; the servers of DecentEnclave, which hand a   *)
(* request to the pool; the operating system's signals.                    *)
(***************************************************************************)
EXTENDS HostBlocks, FiniteSets, Functions

CONSTANTS
    Requests,  \* requests of clients in a behaviour
    Addrs,     \* values of a contract address
    SyncAddr   \* the address in the configuration

ASSUME AddrAssumption == SyncAddr \in Addrs
ASSUME RequestAssumption ==
    Requests \cap {"status", "updator", "heartbeat", "io"} = {}

VARIABLES
    main,      \* the next step of main, or how the process ended
    syncAddr,  \* the local variable, then what the enclave watches
    receiver,  \* m_blockReceiver refers to the enclave
    asked,     \* requests that arrived
    queue,     \* the pool's tasks that wait for a thread
    running,   \* the pool's tasks that have one
    sigVal     \* g_sigVal is set

progVars == <<main, syncAddr, receiver, asked, queue, running, sigVal>>
allVars  == <<vars, progVars>>

Tasks == {"status", "updator", "heartbeat", "io"} \cup Requests

Ended == main \in {"failed", "killed", "done"}

ProgTypeOK ==
    /\ TypeOK
    /\ main \in {"config", "enclave", "bind", "send", "serve", "heartbeat", "io",
                 "run", "terminate", "failed", "killed", "done"}
    /\ syncAddr \in Addrs
    /\ receiver \in BOOLEAN
    /\ asked \subseteq Requests
    /\ queue \in Seq(Tasks)
    /\ running \subseteq Tasks
    /\ sigVal \in BOOLEAN

\* A local array without initialiser holds anything.
ProgInit ==
    /\ Init
    /\ main = "config"
    /\ syncAddr \in Addrs
    /\ receiver = FALSE
    /\ asked = {}
    /\ queue = <<>>
    /\ running = {}
    /\ sigVal = FALSE

-----------------------------------------------------------------------------
(* main *)

\* Mutant: blocks are sent before there is a receiver.
SendFirst(step) ==
    [config |-> "enclave", enclave |-> "send", send |-> "bind", bind |-> "serve",
     serve |-> "heartbeat", heartbeat |-> "io", io |-> "run"][step]

After(step) ==
    [config |-> "enclave", enclave |-> "bind", bind |-> "send", send |-> "serve",
     serve |-> "heartbeat", heartbeat |-> "io", io |-> "run"][step]

At(step) == main = step /\ main' = After(step)

AddTasks(tasks) == queue' = queue \o tasks

\* The configured address is checked for its length, and not copied.
ReadConfig ==
    /\ At("config")
    /\ UNCHANGED <<vars, syncAddr, receiver, asked, queue, running, sigVal>>

\* ecall_decent_ethereum_init is given the address.
MakeEnclave ==
    /\ At("enclave")
    /\ UNCHANGED <<vars, syncAddr, receiver, asked, queue, running, sigVal>>

BindReceiver ==
    /\ At("bind")
    /\ receiver' = TRUE
    /\ UNCHANGED <<vars, syncAddr, asked, queue, running, sigVal>>

SendBlocks ==
    /\ At("send")
    /\ StartSendingBlocks
    /\ AddTasks(<<"status", "updator">>)
    /\ UNCHANGED <<syncAddr, receiver, asked, running, sigVal>>

AddFunction ==
    /\ At("serve")
    /\ UNCHANGED <<vars, syncAddr, receiver, asked, queue, running, sigVal>>

AddHeartbeat ==
    /\ At("heartbeat")
    /\ AddTasks(<<"heartbeat">>)
    /\ UNCHANGED <<vars, syncAddr, receiver, asked, running, sigVal>>

AddIoService ==
    /\ At("io")
    /\ AddTasks(<<"io">>)
    /\ UNCHANGED <<vars, syncAddr, receiver, asked, running, sigVal>>

\* An exception leaves main and with it the process: a bad configuration, an
\* enclave that cannot be made or asks Geth in vain, an address in use.
MainThrows ==
    /\ main \in {"config", "enclave", "serve"}
    /\ main' = "failed"
    /\ UNCHANGED <<vars, syncAddr, receiver, asked, queue, running, sigVal>>

\* The handler of RunUntilSignal sets a variable; outside, signals kill.
Signal ==
    /\ ~Ended
    /\ IF main = "run" THEN sigVal' = TRUE /\ UNCHANGED main
                       ELSE main' = "killed" /\ UNCHANGED sigVal
    /\ UNCHANGED <<vars, syncAddr, receiver, asked, queue, running>>

\* Mutant: the loop waits for the tasks that only Terminate would end.
SignalledIdle == sigVal /\ running = {}

Signalled == sigVal

\* Terminate begins: tasks without a thread are dropped.
LeaveLoop ==
    /\ main = "run"
    /\ Signalled
    /\ main' = "terminate"
    /\ queue' = <<>>
    /\ UNCHANGED <<vars, syncAddr, receiver, asked, running, sigVal>>

\* Terminate returns, and the enclave is destroyed with main's variables.
Return ==
    /\ main = "terminate"
    /\ running = {}
    /\ main' = "done"
    /\ receiver' = FALSE
    /\ UNCHANGED <<vars, syncAddr, asked, queue, running, sigVal>>

-----------------------------------------------------------------------------
(* The thread pool and its tasks *)

\* Mutant: no thread is left beside the tasks that stay.
PoolTooSmall == 4

PoolSize == 5

TakeTask ==
    /\ ~Ended
    /\ main # "terminate"
    /\ queue # <<>>
    /\ Cardinality(running) < PoolSize
    /\ running' = running \cup {Head(queue)}
    /\ queue' = Tail(queue)
    /\ UNCHANGED <<vars, main, syncAddr, receiver, asked, sigVal>>

Runs(task) == ~Ended /\ task \in running

Finish(task) == running' = running \ {task}

UpdatorRuns(step) ==
    /\ Runs("updator")
    /\ step
    /\ UNCHANGED progVars

\* The enclave takes the block.
UpdatorPushes == receiver /\ PushBlock

UpdatorEnds ==
    /\ Runs("updator")
    /\ \/ PushThrows
       \/ main = "terminate" /\ StopUpdator
    /\ Finish("updator")
    /\ UNCHANGED <<main, syncAddr, receiver, asked, queue, sigVal>>

StatusRuns ==
    /\ Runs("status")
    /\ LogStatus
    /\ UNCHANGED progVars

\* The I/O service accepts a connection.
RequestArrives(r) ==
    /\ Runs("io")
    /\ r \notin asked
    /\ asked' = asked \cup {r}
    /\ AddTasks(<<r>>)
    /\ UNCHANGED <<vars, main, syncAddr, receiver, running, sigVal>>

\* A request comes to its end by itself.
RequestEnds(r) ==
    /\ Runs(r)
    /\ Finish(r)
    /\ UNCHANGED <<vars, main, syncAddr, receiver, asked, queue, sigVal>>

\* The other permanent tasks end when they are told to.
TaskEnds(task) ==
    /\ main = "terminate"
    /\ Runs(task)
    /\ Finish(task)
    /\ UNCHANGED <<vars, main, syncAddr, receiver, asked, queue, sigVal>>

\* Bound: what Geth does after the end of the program is left out.
GethMoves ==
    /\ ~Ended
    /\ Mine \/ \E n \in DOMAIN canon : Reorg(n)
    /\ UNCHANGED progVars

-----------------------------------------------------------------------------
Main ==
    \/ ReadConfig
    \/ MakeEnclave
    \/ BindReceiver
    \/ SendBlocks
    \/ AddFunction
    \/ AddHeartbeat
    \/ AddIoService
    \/ LeaveLoop
    \/ Return

Updator ==
    \/ UpdatorRuns(Wake)
    \/ UpdatorRuns(NothingNew)
    \/ UpdatorRuns(GethFails)
    \/ UpdatorRuns(AskLatest)
    \/ UpdatorRuns(FetchHeader)
    \/ UpdatorRuns(UpdatorPushes)
    \/ UpdatorRuns(CountBlock)
    \/ UpdatorEnds

OtherTasks ==
    \/ \E r \in Requests : RequestEnds(r)
    \/ \E task \in {"status", "heartbeat", "io"} : TaskEnds(task)

Stopped == Ended /\ UNCHANGED allVars

ProgNext ==
    \/ Main
    \/ MainThrows
    \/ Signal
    \/ TakeTask
    \/ Updator
    \/ StatusRuns
    \/ \E r \in Requests : RequestArrives(r)
    \/ OtherTasks
    \/ GethMoves
    \/ Stopped

ProgSpec == ProgInit /\ [][ProgNext]_allVars

\* Each thread goes on; a task told to end, and a request, end; Geth answers
\* now and then.  No signal and no request is promised.
ProgFairness ==
    /\ WF_allVars(Main)
    /\ WF_allVars(TakeTask)
    /\ WF_allVars(Updator)
    /\ SF_allVars(UpdatorRuns(AskLatest))
    /\ SF_allVars(UpdatorRuns(FetchHeader))
    /\ SF_allVars(UpdatorEnds /\ main = "terminate")
    /\ \A r \in Requests : WF_allVars(RequestEnds(r))
    /\ WF_allVars(OtherTasks)

ProgFairSpec == ProgSpec /\ ProgFairness

-----------------------------------------------------------------------------
\* A task only runs while the enclave object that it calls exists and is bound
\* to the block service: from before the first task is added until every
\* thread was joined, unless the whole process is gone.
ReadyBeforeWork ==
    running # {} /\ main \notin {"failed", "killed"} => receiver

\* A block that Geth has in the end is pushed, unless the enclave refused one
\* or the program ends.
CatchesUp ==
    \A n \in StartBlock..MaxNum :
        <>[](Len(canon) >= n) =>
            <>(currBlk > n \/ updPc = "stopped" \/ Ended \/ main = "terminate")

\* The permanent tasks leave a thread: a request that arrived is handled,
\* unless the program ends.
RequestsServed ==
    \A r \in Requests :
        r \in asked ~> (r \notin running /\ r \notin Range(queue)) \/ Ended

\* After a signal was caught the program ends, with the tasks still waiting
\* for Geth or for the enclave.
ShutsDown == sigVal ~> Ended

\* "Invalid Sync contract address.": the address that was checked is the one
\* the enclave watches.
SyncAddrConfigured == main \notin {"config", "enclave", "failed", "killed"} => syncAddr = SyncAddr
=============================================================================
