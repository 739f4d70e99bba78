---------------------------- MODULE BlockchainMgr ----------------------------
(***************************************************************************)
(* What BlockchainMgr does around the monitor it owns: AppendBlock and the *)
(* getters under m_monitorMutex, the refresh of the bootstrap plan in      *)
(* OnHeaderValidated and the status log in OnHeaderConfirmed.  What the    *)
(* listeners do in CheckEvents is left to SubscriberService.               *)
(*                                                                         *)
(* External: EclipseMonitor.  Its plan says at which block, from the one   *)
(* at hand up to the latest known, BootstrapI ends; BootstrapII may end    *)
(* with any block; a header it confirms starts at most one checkpoint      *)
(* iteration.  Geth's chain grows, and each OCALL may fail.                *)
(***************************************************************************)
EXTENDS Integers, Sequences

CONSTANTS
    StartBlock,  \* startBlockNum
    MaxBlk,      \* bound: Geth's latest block
    MaxIter,     \* bound: checkpoint iterations
    Readers      \* threads that call the getters

ASSUME StartAssumption  == StartBlock \in Nat \ {0} /\ MaxBlk \in Nat /\ MaxIter \in Nat
ASSUME ReaderAssumption == Readers \cap {"free", "block"} = {}

VARIABLES
    latest,       \* Geth: the latest block
    phase,        \* monitor: GetPhase()
    iEnd,         \* monitor: GetBootstrapIEndBlkNum()
    iter,         \* monitor: checkpointIter in the security state
    mutex,        \* m_monitorMutex: "free" or who holds it
    pc,           \* where the block thread is
    num,          \* m_lastValidatedBlkNum, here the start at first
    lastChkptIter,
    planAt,       \* history: the block whose handling refreshed the plan last
    logs          \* history: the iterations whose status was logged

monitor == <<phase, iEnd, iter>>
vars == <<latest, monitor, mutex, pc, num, lastChkptIter, planAt, logs>>

MgrTypeOK ==
    /\ latest \in Nat
    /\ phase \in {"BootstrapI", "BootstrapII", "Sync", "Runtime"}
    /\ iEnd \in Nat
    /\ iter \in Nat
    /\ mutex \in {"free", "block"} \cup Readers
    /\ pc \in {"out", "update", "events", "phase", "validated", "confirm",
               "return", "stopped"}
    /\ num \in Nat
    /\ lastChkptIter \in Nat
    /\ planAt \in Nat
    /\ logs \in Seq(Nat)

\* The constructor, with the first plan.
Init ==
    /\ latest \in StartBlock..MaxBlk
    /\ phase = "BootstrapI"
    /\ iEnd \in StartBlock..latest
    /\ iter = 0
    /\ mutex = "free"
    /\ pc = "out"
    /\ num = StartBlock - 1
    /\ lastChkptIter = 0
    /\ planAt = StartBlock
    /\ logs = <<>>

Mine ==
    /\ latest < MaxBlk
    /\ latest' = latest + 1
    /\ UNCHANGED <<monitor, mutex, pc, num, lastChkptIter, planAt, logs>>

-----------------------------------------------------------------------------
(* AppendBlock *)

AppendBlock ==
    /\ pc = "out"
    /\ mutex = "free"
    /\ num < latest
    /\ mutex' = "block"
    /\ pc' = "update"
    /\ UNCHANGED <<latest, monitor, num, lastChkptIter, planAt, logs>>

OnHeaderValidated ==
    /\ pc = "update"
    /\ num' = num + 1
    /\ pc' = "events"
    /\ UNCHANGED <<latest, monitor, mutex, lastChkptIter, planAt, logs>>

CheckEvents ==
    /\ pc = "events"
    /\ pc' = "phase"
    /\ UNCHANGED <<latest, monitor, mutex, num, lastChkptIter, planAt, logs>>

\* Mutant: the plan is refreshed when its end lies behind.
PastEnd == num > iEnd

AtEnd == num = iEnd

NeedsRefresh ==
    \/ phase = "BootstrapI" /\ AtEnd
    \/ phase = "BootstrapII"

\* A new plan is made with the latest number, which an OCALL returns.
RefreshBootstrapPlan ==
    /\ iEnd' \in num..latest
    /\ planAt' = num

RefreshPlan ==
    /\ pc = "phase"
    /\ IF NeedsRefresh THEN RefreshBootstrapPlan ELSE UNCHANGED <<iEnd, planAt>>
    /\ pc' = "validated"
    /\ UNCHANGED <<latest, phase, iter, mutex, num, lastChkptIter, logs>>

\* The monitor goes on to the next phase, where it may, and confirms a header
\* or none.
NextPhase ==
    /\ pc = "validated"
    /\ pc' \in {"confirm", "return"}
    /\ \/ phase = "BootstrapI" /\ num >= iEnd /\ phase' = "BootstrapII"
       \/ phase = "BootstrapI" /\ num < iEnd /\ UNCHANGED phase
       \/ phase = "BootstrapII" /\ phase' \in {"BootstrapII", "Sync"}
       \/ phase \in {"Sync", "Runtime"} /\ phase' \in {phase, "Runtime"}
    /\ UNCHANGED <<latest, iEnd, iter, mutex, num, lastChkptIter, planAt, logs>>

\* Mutant: the callback calls BlockchainMgr's own getter, not the monitor's.
SecStateLocked == mutex = "free"

GetMonitorSecState == TRUE

\* Mutants: the iteration is not noted, or the one before it.
IterKept   == lastChkptIter
IterBehind == iter' - 1

IterNoted == iter'

LogStatus(chkptIter) ==
    /\ lastChkptIter # chkptIter
    /\ phase = "BootstrapI" => chkptIter % 3 = 0

\* The confirmed header may or may not start an iteration.
OnHeaderConfirmed ==
    /\ pc = "confirm"
    /\ iter' \in {iter, iter + 1} \cap 0..MaxIter
    /\ GetMonitorSecState
    /\ lastChkptIter' = IterNoted
    /\ logs' = IF LogStatus(iter') THEN Append(logs, iter') ELSE logs
    /\ pc' = "return"
    /\ UNCHANGED <<latest, phase, iEnd, mutex, num, planAt>>

AppendReturns ==
    /\ pc = "return"
    /\ pc' = "out"
    /\ mutex' = "free"
    /\ UNCHANGED <<latest, monitor, num, lastChkptIter, planAt, logs>>

\* The header is refused, an OCALL fails, or the monitor throws after either
\* callback; OnHeaderConfirmed itself does not.  The lock is released, and the
\* host pushes nothing more.
AppendThrows ==
    /\ pc \notin {"out", "confirm", "stopped"}
    /\ pc' = "stopped"
    /\ mutex' = "free"
    /\ UNCHANGED <<latest, monitor, num, lastChkptIter, planAt, logs>>

-----------------------------------------------------------------------------
(* GetMonitorSecState and GetLastValidatedBlkNum, of other threads *)

GetterEnters(r) ==
    /\ mutex = "free"
    /\ mutex' = r
    /\ UNCHANGED <<latest, monitor, pc, num, lastChkptIter, planAt, logs>>

GetterReturns(r) ==
    /\ mutex = r
    /\ mutex' = "free"
    /\ UNCHANGED <<latest, monitor, pc, num, lastChkptIter, planAt, logs>>

-----------------------------------------------------------------------------
BlockWork ==
    \/ OnHeaderValidated
    \/ CheckEvents
    \/ RefreshPlan
    \/ NextPhase
    \/ OnHeaderConfirmed
    \/ AppendReturns
    \/ AppendThrows

Next ==
    \/ Mine
    \/ AppendBlock
    \/ BlockWork
    \/ \E r \in Readers : GetterEnters(r) \/ GetterReturns(r)

Spec == Init /\ [][Next]_vars

\* The block thread and a getter that got the mutex go on; a waiting block
\* thread gets it again and again.
Fairness ==
    /\ WF_vars(BlockWork)
    /\ SF_vars(AppendBlock)
    /\ \A r \in Readers : WF_vars(GetterReturns(r))

FairSpec == Spec /\ Fairness

-----------------------------------------------------------------------------
\* Neither part of the bootstrap is left on an old plan: one was made in the
\* handling of the very block that ends it, though OnHeaderValidated compares
\* the block number with the end of the old plan by equality.
LeavesFresh ==
    [][phase' # phase => phase = "Sync" \/ planAt = num]_vars

\* No iteration is logged twice, and never are three in a row left out,
\* however the phases change in between.
LogGap ==
    LET marks == <<0>> \o logs
    IN  /\ \A i \in 1..Len(logs) : marks[i + 1] - marks[i] \in 1..3
        /\ iter - marks[Len(marks)] \in 0..2

\* Each block that Geth has by now is handled or refused: the callbacks, which
\* run under m_monitorMutex, do not wait for it, and an exception releases it.
AppendEnds ==
    \A n \in StartBlock..MaxBlk :
        latest >= n ~> (num >= n /\ mutex # "block") \/ pc = "stopped"
=============================================================================
