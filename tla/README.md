# DecentEthereum in TLA+

DecentEthereum is an SGX enclave that follows the Ethereum chain through a
monitor for eclipse attacks, and serves the events of on-chain publishers to
subscribers.  An untrusted host feeds it block headers from a Geth node.  This
directory holds TLA+ models of the parts where threads meet and calls may
fail, TLC runs on small instances, and TLAPS proofs for every value of the
constants.

## The system

| Part (source) | State | Operations | Who calls it |
|---|---|---|---|
| `Main.cpp`, `RunUntilSignal`, the enclave object (`DecentEthereumEnclave.hpp`) | local variables of `main`, thread pool, `g_sigVal` | start-up, tasks, signal loop, shutdown | the operating system |
| `HostBlockService` and its tasks (`Untrusted/HostBlockService.hpp`, `HostBlockServiceTasks.hpp`) | `m_currBlockNum`, the tick interval, `m_lastBlockNum` | `TryPushNewBlock`, `Tick` of the updator and of the status task | two tasks of the host's thread pool |
| `GethRequester` | none that lasts; `respBody` during a request | requests to Geth and the checks on the answers | updator; the enclave through OCALLs |
| `Trusted/HostBlockService.hpp`, `Transaction::SendRaw` | none | OCALL, status, exception | block thread and request threads of the enclave |
| `BlockchainMgr` | monitor and its mutex, `m_lastValidatedBlkNum`, `m_lastChkptIter` | `AppendBlock`, `OnHeaderValidated`, `OnHeaderConfirmed`, getters | the updator's thread through an ECALL; request and heartbeat threads |
| `SubscriberService` | `m_isDeployed`, address map, past-event store, each map with a mutex, each queue with another | three event callbacks, `GetEventMgrAddr`, `GetPastEvents` | callbacks: block thread; getters: request threads |
| `Pubsub::SubReq`, `NotifyEventHandler`, `EmitterHandler` | one queue per subscription, a listener, an emitter | subscribe, collect, send | request, block and heartbeat thread |
| `ReceiptSubscriber` | as above, without past events | subscribe, collect, send | as above |

Not in the repository, and modelled only as far as the code above uses it:
Geth, EclipseMonitor (validator, bootstrap plan, `EventManager`), DecentEnclave
(servers, sockets, `HeartbeatEmitterMgr`), SimpleConcurrency (`ThreadPool`,
`TickingTask`), the codecs of SimpleObjects, and the PubSub contracts.

How a block travels: the updator asks Geth for the latest number, fetches the
header under way and hands it over (`HostBlocks`).  The enclave takes
`m_monitorMutex`, validates, records the number and calls `CheckEvents`, which
gets the receipts by a callback of the manager's (an OCALL) and runs the
callbacks of all matching listeners, under that mutex throughout
(`BlockchainMgr`, `SubscriberService`).  The callbacks fill the
past-event store and the queues of subscribers; a request thread snapshots the
store for its first response, and the heartbeat thread sends each queue every
two seconds (`Pubsub`).

What is hard here: three kinds of threads and four kinds of mutexes; listeners
added while a block is being checked; a snapshot and a feed that must fit
together; the unspecified evaluation order of function arguments; exceptions
at any point of a block, twice turned into a status and back; a send that
fails after a queue was emptied; a node that fails or reorganises between two
requests; a pool with one thread to spare; signals at any moment.
`PROJECT.json` lists each hazard at its line with the properties that cover it.

## Modules

`SubscriberService.tla` models the block thread inside `AppendBlock` and the
two getters used by requests.

* `blkPc` is where the block thread is: `idle` (monitor mutex free), `fetch`
  (number recorded, `CheckEvents` called, receipts not there yet), `check` (it
  has them, and callbacks run),
  `regStore`/`regListen`/`push` (between two critical sections of a handler),
  `stopped` (an exception left `AppendBlock`; the host's updator ends with it).
* The event manager is external and kept as general as its users allow:
  callbacks of one listener run in log order, those of different listeners in
  any order, and a listener added during a check gets the matching logs past
  *some* point `k`, from all of them to none.  The check begins with the call
  of `CheckEvents`: the receipts are fetched inside it, by
  `receiptsMgrGetter` (`BlockchainMgr.hpp:162-174`), and the manager may have
  picked its listeners before, by the header alone.  So `fetch` belongs to the
  check (`Checking` in `Pubsub` and `ReceiptSubscriber`), and a subscriber
  whose `Listen` comes while the receipts are on their way may miss the whole
  block.  The service's own listeners are only added and cancelled by the
  block thread's callbacks, so for them the moment of picking is the same.
* An event is the pair of block number and log index; message bodies play no
  part.  Each log kind carries only the fields its handler parses.
* `GetPastEvents` holds the store mutex but not the queue's.  When a push
  overlaps the copy the code has a data race: the copy may return any prefix
  of the queue.  (That it may also crash or return a torn list is left out;
  `NoQueueRace` shows that the race is there.)

`EventFeed.tla` is the abstract promise to subscribers: events are published on
topics in order, and a message carries a client's feed on, which stays a
*stretch* of one topic (in order, and nothing left out between its first and
its last event), with a number that covers its events and never goes back.
No thread, queue, mutex or block appears in it.  Both `Pubsub` and
`ReceiptSubscriber` implement it.

`Pubsub.tla` extends `SubscriberService` with subscribers.  A client is one
request, its socket, listener, queue and emitter.  `pc` follows `SubReq` line by
line; `hb`, `hbOut`, `hbGot`, `hbBlk` are the local variables of the one
`EmitterHandler` that runs.  The arguments of `BuildEmittedMsg` are evaluated in
any order.  `fed`, `told`, `sure`, `joined`, `lossy` are history: what was sent,
and in `joined` the block under check when the listener joined, 0 for none or
once a getter has waited for its end with the past events still to be copied.
The block thread's own actions are reused unchanged, in `ServiceStep`, or
conjoined with the subscribers' part: `BlockAppend` records the number and
begins the check, for the listeners that are there.  Two
refinements are checked and proved: `SvcSpec`, the service without subscribers,
and `FeedSpec`, where the events on the chain are what is published and `fed`
is what was sent.

`ReceiptSubscriber.tla` models `ReceiptSubReq` and its emitter beside a block
thread reduced to what a receipt listener sees: the number recorded, the
callbacks, the end of the block or an exception.  It does not extend
`SubscriberService`, whose stores it never touches.  A client has a fixed wish
of logs (`Wants`), no first response and no past events, so the
only news about where its feed begins are the messages themselves; `fed`,
`told` and `joined` are history.  `FeedSpec` is the refinement: the topics are
the wishes, the log of a topic are the receipts on the chain that match it.
`AppendBlock` begins the check here too, and `GetReceipts` is the OCALL in it.

`BlockchainMgr.tla` is the other half of `AppendBlock`: which thread holds
`m_monitorMutex`, when the bootstrap plan is refreshed (`OnHeaderValidated`) and
which checkpoint iterations are logged (`OnHeaderConfirmed`).  `CheckEvents` is
one step here, and all of `SubscriberService` there.  The monitor is external:
its plan ends BootstrapI at some block between the one at hand and the latest
known, BootstrapII may end with any block, a confirmed header starts at most
one iteration.

`HostBlocks.tla` models the updator's tick step by step (`updPc`), the status
task, and Geth as a chain that grows, is reorganised and may not answer.
`TickingTask` is external: it runs `Tick` again and again, waits in between
while the interval is enabled, and ends when `Tick` throws.

`HostProgram.tla` puts `main` around it.  `main` is the next step of that
function or how the process ended; `queue` and `running` are the pool's tasks
without and with one of its five threads; the updator's and the status task's
steps are those of `HostBlocks`, taken only while the task has a thread.  The
I/O task turns a connection into a task, a signal outside the loop kills, one
inside it starts `Terminate`, which drops the queue and waits for the tasks.
What the updator pushes to must be bound (`receiver`).

`GethRequester.tla` is one request, from its caller to Geth and back: the answer
arrives in pieces, has a code and a body, is decoded, and for a caller in the
enclave passes the status of the OCALL and the out-parameter, which may be
unset.  A result is a set, empty for an exception.  Geth may answer any
operation with any of the `Bodies`: strings with and without prefix and with
any number of digits, lists, an object, null, or what is not JSON.  Of Geth two
things are assumed (`Answers`): a hash it gives for a transaction is that
transaction's, and an object in place of a receipt is that of a mined one.  The
codecs are external and constants of the module, which the proofs know nothing
of: `Decode` (`Hex::Decode`, of an odd number of digits too), `FromBytes`
(bytes to integer) and `ParseNumber` (the number in a header's RLP, or a
failure).  `Meaning` is the reference: it says of each operation what a body stands for, without the
code's steps; for a receipt that is any result but null, since
`ProcRespObject` looks no further.  `WaitAndGetTransactionReceipt` is called by
nobody (its one call is commented out, `GethRequester.hpp:155`); the operation
`wait` is what it would do.

`System.tla` joins `HostBlocks` and `Pubsub` at the ECALL.  It INSTANCEs both
and conjoins their actions: `ecall` says whether the call is begun and whether
its block is appended.  An exception of the enclave (`BlockThrowAll`) comes back
as a status and becomes the updator's (`PushThrows`); the receipts are asked for
by number, so a reorganisation after the header was fetched makes `CheckEvents`
impossible and leaves only the exception, unless no listener asks for a log
of the header's block and the manager does without receipts
(`NothingMatches`).  Request and heartbeat threads run beside the call (`SubscriberStep`), and hold it up only at the mutexes.

`MC*.tla` give the constants for TLC.  `*Proofs.tla` hold the theorems.

A definition named in a comment as a *mutant* is a plausible bug in the
definition below it; it is not part of any specification.  Each property is
shown to be violated when the mutant takes the definition's place.

## Properties and runs

| Run | Instance | Shows |
|---|---|---|
| `svc` | 2 publishers, 2 managers, 6 block bodies, 4 blocks, 1 request thread | `PastComplete`: every event after its manager's registration is stored. `PastOrdered`: block after block, and no more often than the manager was registered up to its block; so once and in chain order with one registration. `AddrLatest`: a publisher's address is its last one. `PastGrows`: queues only grow at the end |
| `one` | 1 client, 1 manager, 4 blocks, arguments in any order, fair | `NoGap`: no event falls between snapshot and feed, but for those of a block under check at the `Listen`. `WatermarkLag`: what `LatestBlkNum` is worth. `SvcSpec`, `FeedSpec`: the two refinements; the second also says that no message carries an event beyond its number (`NotAhead`). `BlockEnds`, `SubReqResolves`, `EventsArrive`: no thread waits for good and events arrive |
| `two` | 2 clients, symmetric, 3 blocks | `FeedOrdered`: no event is sent or queued twice or out of order, with clients that share the store mutex and the heartbeat thread |
| `receipts` | 1 client that wants one of two logs, 3 blocks, fair | `FeedExact`: a feed has each receipt once, in order, and only wanted ones. `Reliable`: what the messages' numbers are worth. `FeedSpec`: as in `Pubsub`, no receipt is left out between the first sent and the last, none is beyond the number sent with it (`NotAhead`), and numbers never go back. `ServedIffListening`: no listener without an emitter. `ReceiptsArrive` |
| `mgr` | blocks 2 to 9, 7 iterations, 1 getter, fair | `LeavesFresh`: both parts of the bootstrap end on a plan made at that very block. `LogGap`: no iteration is logged twice, and never three in a row are not. `AppendEnds`: no callback waits for the mutex its caller holds |
| `host` | blocks 2 and 3, 1 reorganisation, 2 requests, signals at any point, fair | `Consecutive`, `CounterLag`: each block once and in order, and what the counter means. `ProgTypeOK`: no unsigned wrap-around in the status task. `ReadyBeforeWork`: no task without the enclave it calls. `CatchesUp`, `RequestsServed`, `ShutsDown` |
| `geth` | all operations, each answered with any of 16 bodies, 2 pieces, 2 transactions, fair | `AnswerMeans`: a caller gets exactly what the answer means, or an exception. `SentKnown`: a hash is only reported of a transaction Geth has taken. `WaitEnds`: the wait would end, had it a caller |
| `system` | blocks 2 to 4, 1 reorganisation, 1 publisher, 2 managers, 1 subscriber, fair | `SameBlocks`, `NumbersAgree`: host and enclave agree on the blocks taken, up to the call under way. `CountedStored`: what the host counts as pushed is in the past events. `CountedServed`: from end to end, a subscriber is sent its manager's events of the blocks counted, no others, and in time. `StopTogether`: an exception in the enclave ends the updator. `BlocksHandled`: what Geth has is in the end handled with all callbacks |
| `race`, `orphan`, `retry`, `syncaddr` | as the passing run of the module; `syncaddr` with two addresses | disagreements of the code with its own words, below |

Five results deserve a reader's attention.

* **The snapshot and the argument order.** A listener that is added while a
  block is checked may miss that block's events, and all of them if it comes
  while the receipts are fetched.  If the past events are
  copied *before* a getter has waited for the monitor mutex, those events are
  in neither.  So `NoGap` promises the events of that block (`joined`) only
  from the moment a getter has waited for its end with the copy still to come:
  with arguments evaluated from left to right, always.  The mutant of `one`
  (monitor read without its mutex) shows that it is this wait that closes the
  gap.
* **`LatestBlkNum` is not a watermark of its own message** but of the next: the
  queue is taken before the number is read, so a message may name a block
  whose events come with the following one.  It never runs behind its events
  (`NotAhead`).  `WatermarkLag` states what a subscriber may rely on.
* **An exception ends the feed of blocks.** The number of the block is already
  recorded when its receipts cannot be fetched.  The properties hold then too,
  because the updator ends and no later block is taken: the mutant that
  swallows the exception breaks them.
* **A receipt subscriber can know what it has.**  Without a first response,
  nothing says which block was under way when the listener joined.  `Reliable`
  is what can be relied on: of the blocks after the first message's
  `LatestBlkNum`, all wanted receipts up to the `LatestBlkNum` of the message
  before the last have arrived.  It too rests on the emitter waiting for the
  monitor mutex.
* **The end of BootstrapI is tested by equality** (`BlockchainMgr.hpp:180`), and
  that is enough: a plan never ends behind the block it is made at, blocks are
  taken one by one, and an exception in between ends the feed, so the block of
  the old plan's end is always seen (`LeavesFresh`).

Violations, each a finding in `PROJECT.json`:

* `NoQueueRace`: `GetPastEvents` reads a queue without the queue's mutex.
* `ServedIffListening`: a first response that cannot be sent leaves a listener
  behind whose queue grows for good.
* `RetriesAfterWait`: a push the enclave refuses ends the updator instead of
  being retried.
* `SyncAddrConfigured`: the sync contract's address is read from the
  configuration and checked, but never copied to the array the enclave is
  given.

Noticed while modelling, and harmless to the properties above: the first rate
of the status task divides the whole block number, since `m_lastBlockNum` begins
at 0 (`HostBlockServiceTasks.hpp:114`); security state, block number and events
of a first response may be of different moments (`SubscriberHandler.hpp:210`),
of which `WatermarkLag` says what it means for the number; the status line of
BootstrapI reads "BootstrapII" (`BlockchainMgr.hpp:241`).

### Bounds

`MaxBlk` and the block bodies bound the chain.  The shortest story that
matters to a subscriber takes three blocks (deployment, registration, event);
with four there is a block before or after the subscription, with two events
in one block the check can be interrupted between them.  In
`svc` one body has a registration between two events, so that with four blocks
a manager is registered a second time, and its event counted, in the midst of a
block as well as between blocks.
Two clients are what it takes to contend for the heartbeat thread and the store
mutex; they are never compared or ordered, so they are symmetric.

`mgr` has eight blocks, enough for all four phases with a plan that is renewed
in each part of the bootstrap, and for iterations that are logged, left out
twice and logged again; one getter is what it takes to hold the mutex when the
block thread wants it.  `host` pushes two blocks, with a reorganisation below,
at or above the one under way; two requests contend for the one thread that
the four permanent tasks leave.  What happens with more blocks is proved
(`ConsecutiveBlocks`).  `geth` has digits 0 and 1, two to a byte, hashes of two
bytes, numbers of at most two, and headers of a tag and a number: the bodies
cover each check of the code from both sides (prefix missing, no digit, one,
three, what is no digit, a byte too many for a hash or a number, too few for a
hash, bytes that are no header, an empty list, one bad member, null, an object,
not JSON), each body is given to each operation, and two pieces make a
difference between a part and the whole.  After an answer the callers start
over, so the runs are not bounded in length.

`receipts` needs three messages, with the listener added in the midst of one of
three blocks; a second client would change nothing but the time its emitter
takes, which is arbitrary anyway.  `system` has the three blocks of a subscriber's shortest story, behind a first
number that is not 1.  The content of the last block depends on its branch, an
event of the subscriber's manager or of one that nobody registered, so the
reorganisation changes what the enclave sees and what the subscriber must be
sent.

Deadlock is checked in every run; the states in which a model may stop
(`Terminated` in `Pubsub` and `System`, `Stopped` in `HostProgram`) are named, those
with all clients gone, or the updator or the program ended.

### Fairness

* A block that was begun is worked through (`WF` of the block thread while not
  `idle`): it is ordinary code without waiting, except for the store mutex,
  whose holder is another thread that runs.  No new block is promised.
* Request and heartbeat threads get the mutexes again and again (`SF`):
  between two blocks the monitor mutex is free for a whole block time.
  `std::mutex` itself promises no order, and while the host catches up with a
  long chain the mutex is free only for moments.  That starvation is assumed
  away here, not shown to be impossible.
* The heartbeat manager returns to each emitter (`SF` of `EmitSwap`): the
  service ticks every 2000 ms for as long as the host runs.
* The updator's thread runs (`WF` of its steps), and Geth answers now and then
  (`SF` of the two requests).  Without the latter `CatchesUp` is false and
  rightly so.  In `System` a request thread that can run does (`WF` of
  `SubReqWork`), so the block thread gets the store mutex back.
* The steps of `main`, threads that take tasks, and requests that have a thread
  go on (`WF`); a permanent task ends once it is told to.  The updator is told
  between two ticks, so it must get there again and again (`SF`).  No signal,
  request or block is promised.

## Proofs

TLAPS checks these for all values of the constants, given only the named
`ASSUME`s of the modules (bodies are sequences of logs, the
sentinel values are not members of the sets they stand beside, start block and
bounds are numbers), which TLC evaluates in the runs.

| Module | Theorem | Argument |
|---|---|---|
| `SubscriberServiceProofs` | `SvcTypeCorrect` | `TypeInv`: the types, and that `cur` and `todo` point into the block under way, which the types need when a handler indexes it |
| | `PastEventsComplete` | `CompleteInv`: one part per stage. `DeployInv`: a handled deployment has left its listener replaced, or it is still due. `RegInv`: each registration after it is known with queue and listener, or still due. `EventInv`: each event after that is stored, or still due. "Due" is what makes it inductive: in the middle of a block the handled logs are not those of whole blocks |
| | `PastEventsGrow` | from `TypeInv`; only `Emplace` and `PushBack` touch the store |
| | `AddressesLatest` | `AddrInv`: the registrations of a block are heard in order (`RegsInOrder`), and an address on record is that of the last one heard (`Heard`, `Latest`); those still due are later than all heard, and between blocks none is due |
| | `PastEventsOrdered` | `OrderedInv`, over who listens (`ListenInv`). Each registration heard adds a past-event listener of its own, and a listener is served an event once; so the copies of an event, with the push under way, are no more than the listeners that are past it (`Counted`), and those no more than the registrations. With a single registration, the queue is in order and before every callback still due (`InLine`) |
| `PubsubProofs` | `TypeCorrect`, `ServiceImplemented` | each step of `Pubsub` is one of the service or leaves its variables alone |
| | `PastEventsCompleteServed` | the two above |
| | `NeverAhead`, `NumberTellsForward` | `NumberInv`: queued, taken and sent events are of blocks up to `m_lastValidatedBlkNum`, numbers read are no larger, and a number read after the swap is no smaller than the events taken |
| | `FeedImplemented` | `FeedInv`: what was sent to a client, what its emitter has taken and what is queued form one pipe (`Piped`), which is a stretch of the manager's events; an event of the chain behind the pipe and not in it is of the block being checked and still due to the client's listener. What was sent is the beginning of the pipe, and the beginning of a stretch is one. Appending blocks publishes (`AppendPublishes`), the two sends are `Feed!Send` (`SendFeeds`, `RespondFeeds`), all else stutters |
| | `OwnEventsOnly` | `OwnInv`: a manager's past events are logs of that manager (`StoredOwn`), so the copy in a first response is too; the queue's are by the listener's match; and a log on the chain stays where it is (`LogOfStays`) |
| | `FeedInOrder` | from `FeedInv` for a client that is served; for one that was dropped `GoneInv`: what was sent and what is left in its queue are in order, and before any callback still due |
| | `NothingFallsThrough` | `Stages`: what a request has read and been told at each step; `WatchInv`: of the block under check a served client has, or has a callback due for, every event, unless its listener was added during the check, the fetch of the receipts included; so what is owed at the end of the copy is in it (`PastComplete`) and what a later block adds is in the client's pipe |
| | `WatermarkOneBehind` | `BehindInv`: while a block is under way every number read is of a block before it, so a block that ends adds nothing below it; `TakenInv`: the queue the heartbeat thread took has all that the number told before covers (from `NoGap`) |
| `ReceiptSubscriberProofs` | `ReceiptTypeCorrect`, `ListenersServed` | an invariant on types and on what `pc`, the listener and the emitter are to each other in each step of request and heartbeat |
| | `FeedInChainOrder` | `KeptInv`: what was sent, taken and queued form one pipe; it is in order, and before every callback still due. A callback adds to its end, a message moves a part of it on, one that failed takes a part out (`PipeStep`) |
| | `MessagesNotAhead` | `NumberInv`: the numbers a client was told, and the one its emitter has read, lie between its joining and the last block, and below a block that is under way; what is in the message was taken before |
| | `ReceiptsReliable` | `ReliableInv`: with a listener, each receipt wanted since it joined is in the pipe or of the last block and due (`Complete`); once the emitter has swapped, those up to the last number told are sent or in its hands (`TakenAll`), since no step settles a receipt by a number told before (`SettledBefore`) |
| | `ReceiptFeedImplemented` | `FilledInv`: of what a client wants and its pipe lacks, what lies behind some receipt of the pipe lies behind all of them, and is of the last block and not heard yet (`Filled`); so the pipe is a stretch, and what was sent is its beginning (`StretchBegin`). A number read is not below those told (`ReadLast`). Then step by step as for `FeedImplemented` |
| `HostBlocksProofs` | `HostTypeCorrect`, `ConsecutiveBlocks`, `CounterLags` | `HostInv`: the counter is the start block plus the headers taken, less one between push and count; the header in hand has the number under way; the status task is behind the counter |
| `HostProgramProofs` | `ProgramRunsHost`, `ProgramConsecutive` | each step of the program is one of `HostBlocks` or leaves its variables alone, so the theorems above carry over |
| | `ProgTypeCorrect`, `TasksHaveEnclave` | `ReadyInv`: nothing is queued or runs before the step `send` (`Early`), `receiver` holds from after `bind` until `Return` (`Bound`), and once `main` has returned nothing runs (`Late`) |
| `SystemProofs` | `HostAndEnclaveAgree`, `HostAndEnclaveNumbers` | `SystemInv`: in each stage of the ECALL, where updator and block thread are and by how much the enclave is ahead (`Stages`), equal contents, both counters as lengths, and no block under check outside the call (`Quiet`) |
| | `EnclaveRunsPubsub`, `UpdatorRunsHost`, `EnclaveConsecutive`, `SubscribersFed` | each step is one of `Pubsub`, or of the host, or leaves its variables alone; for the enclave the header in hand must be one that `Content` knows (`KnownInv`). The proof modules of both sides are instantiated, and their theorems carried over |
| | `CountedBlocksStored`, `CountedEventsServed` | `Pubsub` promises nothing for its last block once the block thread has stopped, as that block may have been cut off; but when the exception came with a header, before its number was recorded, the last block is done and the host counts it. A header refused is for subscribers as if there had been none: with `blkPc` read as `idle` in that case (`SeenPc`) every step is still one of `Pubsub` or not seen (`SeenStep`, `SeenSpec`). So the theorems of `PubsubProofs` hold of what is seen (`SeenAlways`), and of the blocks counted they say what is stored (`CountedLog`) and what is owed (`CountedOwed`) |
| `BlockchainMgrProofs` | `MgrTypeCorrect`, `BootstrapLeftFresh` | `PlanInv`: in BootstrapI the plan's end is ahead of the block at hand, or is that block and the plan about to be renewed or just renewed (`PlanAhead`); BootstrapII renews it with each block (`PlanEach`) |
| | `StatusLogged` | `LogInv`: in BootstrapI the iterations since the last one logged are no more than `iter % 3` (`Thirds`), later none; so whatever the phase at the next, the gap stays below three |
| `GethRequesterProofs` | `ReportedIsSent` | a hash in an answer on its way or at the caller is that of a transaction in the pool |
| | `AnswersMean` | for any bodies and any codecs. `TextInv`: the text is the pieces 1 to its length, so it is the body when the last is there (`WholeText`); of a body, each parser returns what it means and throws for the others (`ProcessMeans`), one bad member spoiling a list (`ListMeans`); status and out-parameter of the OCALL give back what the host had |

Only model-checked is the liveness (`BlockEnds`, `SubReqResolves`,
`EventsArrive`, `ReceiptsArrive`, `AppendEnds`, `CatchesUp`, `RequestsServed`,
`ShutsDown`, `WaitEnds`, `StopTogether`, `BlocksHandled`): TLAPS has no `ENABLED`
and so no fairness.

## Not modelled

* What happens after undefined behaviour other than a short copy or an
  unwritten address.
* Encoding and parsing at the level of bytes (RLP, ABI, JSON, hex, integers):
  these are the libraries' work.  An input that does not parse is an exception
  of the step that parses it.
* EclipseMonitor: how headers are validated, how the bootstrap plan is computed
  and when a phase ends.
* The evaluation enclave for throughput (`src/tests`): one thread that times the
  decoding of receipts, with no shared state and no promise of its own.
* Requests for certificates, key registration, random generator and time
  stamper: one-line adapters to DecentEnclave that keep no state here.
* Whether a reader starves while `AppendBlock` takes the mutex again and again:
  `std::mutex` gives no answer, so the models assume one.
* What a subscriber is owed after its publisher moved to another manager: the
  repository does not say.

## Plan

Done: the service and its subscribers, `EventFeed`, the receipts, the block
manager, the host's block service, program and requests, and host, enclave and
subscribers together across the ECALL, with the proofs above.

Every safety property of the passing runs is also proved, both refinements of
`EventFeed` are, and the promise to a subscriber behind the ECALL
(`CountedEventsServed`).  What is left to TLC is liveness.
