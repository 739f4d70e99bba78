---------------------- MODULE ReceiptSubscriberProofs ----------------------
(***************************************************************************)
(* Proofs about ReceiptSubscriber, for every set of clients, logs, wishes  *)
(* and block bodies and every bound.                                       *)
(***************************************************************************)
EXTENDS ReceiptSubscriber, TLAPS

\* A callback is left only while a block is checked, for a log it has; an
\* emitter runs only for a client that is served.
RunInv ==
    /\ TypeOK
    /\ \A t \in todo : t[2] \in DOMAIN Body
    /\ ~Checking => todo = {}
    /\ Checking => chain # <<>>
    /\ hb # NoClient => pc[hb] = "live"
    /\ ServedIffListening

\* The start satisfies the invariant.
LEMMA RunInit == Init => RunInv
  <1> SUFFICES ASSUME Init
               PROVE  RunInv
    OBVIOUS
  <1>1. TypeOK
    BY DEF Init, TypeOK
  <1> QED
    BY <1>1 DEF Init, RunInv, ServedIffListening, Checking

\* The block thread adds to a queue only receipts of the block under way.
LEMMA BlockKeeps ==
  ASSUME RunInv, BlockWork
  PROVE  RunInv'
  <1> USE DEF RunInv, TypeOK, ServedIffListening, Checking, emitter, sent, block
  <1>0. Body \in Seq(Logs) /\ DOMAIN Body \subseteq Nat /\ Len(chain) \in Nat
    BY BodiesAssumption DEF Body
  <1>1. ASSUME NEW body \in BlockBodies, AppendBlock(body)
        PROVE  RunInv'
    <2>1. chain' \in Seq(BlockBodies) /\ chain' # <<>> /\ lastBlk' \in Nat
      <3>1. chain' = Append(chain, body) /\ lastBlk' = Len(chain) + 1
        BY <1>1 DEF AppendBlock, NextNumber
      <3>2. chain \in Seq(BlockBodies)
        OBVIOUS
      <3>3. chain' \in Seq(BlockBodies) /\ Len(chain') = Len(chain) + 1 /\ chain'[Len(chain')] = body
        BY <3>1, <3>2
      <3>4. chain' # <<>>
        BY <1>0, <3>3
      <3> QED
        BY <1>0, <3>1, <3>3, <3>4
    <2>2. body \in Seq(Logs) /\ Body' = body
      <3>1. chain' = Append(chain, body) /\ chain \in Seq(BlockBodies) /\ body \in Seq(Logs)
        BY <1>1, BodiesAssumption DEF AppendBlock
      <3> QED
        BY <2>1, <3>1 DEF Body
    <2>3. todo' = {t \in subs \X DOMAIN body : body[t[2]] \in Wants[t[1]]} /\ blkPc' = "fetch"
      BY <1>1 DEF AppendBlock
    <2>4. DOMAIN body \subseteq Nat
      BY <2>2
    <2>5. todo' \subseteq Clients \X Nat /\ \A t \in todo' : t[2] \in DOMAIN Body'
      BY <2>2, <2>3, <2>4
    <2> QED
      BY <1>1, <2>1, <2>3, <2>5 DEF AppendBlock
  <1>2. CASE GetReceipts
    <2>1. Body' = Body
      BY <1>2 DEF GetReceipts, Body
    <2> QED
      BY <1>2, <2>1 DEF GetReceipts
  <1>3. ASSUME NEW c \in Clients, NEW i \in DOMAIN Body, SubscribedReceiptHandler(c, i)
        PROVE  RunInv'
    <2>1. Here(i) \in Receipt
      BY <1>0 DEF Here, Receipt
    <2>2. queue' \in [Clients -> Seq(Receipt)]
      BY <1>3, <2>1 DEF SubscribedReceiptHandler
    <2>3. Body' = Body
      BY <1>3 DEF SubscribedReceiptHandler, Body
    <2> QED
      BY <1>3, <2>2, <2>3 DEF SubscribedReceiptHandler
  <1>4. ASSUME NEW c \in Clients, NEW i \in DOMAIN Body, SkipCancelled(c, i)
        PROVE  RunInv'
    <2>1. Body' = Body
      BY <1>4 DEF SkipCancelled, Body
    <2> QED
      BY <1>4, <2>1 DEF SkipCancelled
  <1>5. CASE BlockDone
    BY <1>5 DEF BlockDone
  <1>6. CASE BlockThrow
    BY <1>6 DEF BlockThrow
  <1> QED
    BY <1>1, <1>2, <1>3, <1>4, <1>5, <1>6 DEF BlockWork

\* A request adds its listener, then its emitter: nothing fails in between.
LEMMA RequestKeeps ==
  ASSUME RunInv, NEW c \in Clients, ReceiptSubReqParse(c) \/ RequestWork(c)
  PROVE  RunInv'
  <1> USE DEF RunInv, TypeOK, ServedIffListening, Checking, emitter, sent, block
  <1>0. Body \in Seq(Logs) /\ DOMAIN Body \subseteq Nat /\ Len(chain) \in Nat
    BY BodiesAssumption DEF Body
  <1>1. CASE ReceiptSubReqParse(c)
    <2>1. Body' = Body
      BY <1>1 DEF ReceiptSubReqParse, Body
    <2> QED
      BY <1>1, <2>1 DEF ReceiptSubReqParse
  <1>2. ASSUME NEW k \in 0..Len(Body), ReceiptSubReqListen(c, k)
        PROVE  RunInv'
    <2>1. Body' = Body
      BY <1>2 DEF ReceiptSubReqListen, Body
    <2>2. /\ todo' \subseteq Clients \X Nat
          /\ \A t \in todo' : t[2] \in DOMAIN Body
          /\ ~Checking => todo' = {}
      BY <1>0, <1>2 DEF ReceiptSubReqListen
    <2>3. joined' \in [Clients -> Nat]
      BY <1>0, <1>2 DEF ReceiptSubReqListen
    <2> QED
      BY <1>2, <2>1, <2>2, <2>3 DEF ReceiptSubReqListen
  <1>3. CASE ReceiptSubReqAddEmitter(c)
    <2>1. Body' = Body
      BY <1>3 DEF ReceiptSubReqAddEmitter, Body
    <2> QED
      BY <1>3, <2>1 DEF ReceiptSubReqAddEmitter
  <1> QED
    BY <1>1, <1>2, <1>3 DEF RequestWork

\* The emitter of a live client empties its queue, and cancels the listener
\* when it gives the client up.
LEMMA EmitKeeps ==
  ASSUME RunInv, EmitWork \/ \E c \in Clients : EmitSwap(c)
  PROVE  RunInv'
  <1> USE DEF RunInv, TypeOK, ServedIffListening, Checking, emitter, sent, block
  <1>0. Body' = Body
    BY DEF EmitWork, EmitSwap, EmitSecState, EmitBlkNum, EmitSend, EmitFail, Body
  <1>1. ASSUME NEW c \in Clients, EmitSwap(c)
        PROVE  RunInv'
    <2>1. queue' \in [Clients -> Seq(Receipt)] /\ hbOut' \in Seq(Receipt)
      BY <1>1 DEF EmitSwap, Taken, Left
    <2> QED
      BY <1>0, <1>1, <2>1 DEF EmitSwap
  <1>2. CASE EmitSecState
    BY <1>0, <1>2 DEF EmitSecState
  <1>3. CASE EmitBlkNum
    BY <1>0, <1>3 DEF EmitBlkNum
  <1>4. CASE EmitSend
    <2>1. hb \in Clients
      BY <1>4 DEF EmitSend
    <2>2. fed' \in [Clients -> Seq(Receipt)]
      BY <1>4, <2>1 DEF EmitSend
    <2>3. told[hb] # <<>> => told[hb][1] \in Nat /\ told[hb][Len(told[hb])] \in Nat
      BY <2>1
    <2>4. told' \in [Clients -> Seq(Nat)]
      BY <1>4, <2>1, <2>3 DEF EmitSend, Remember
    <2>5. hbOut' \in Seq(Receipt) /\ hbBlk' \in Nat /\ hb' = NoClient /\ hbPc' = "sec"
      BY <1>4 DEF EmitSend, HeartbeatFree
    <2> QED
      BY <1>0, <1>4, <2>2, <2>4, <2>5 DEF EmitSend
  <1>5. CASE EmitFail
    <2>1. hb \in Clients /\ pc[hb] = "live"
      BY <1>5 DEF EmitFail
    <2>2. hbOut' \in Seq(Receipt) /\ hbBlk' \in Nat /\ hb' = NoClient /\ hbPc' = "sec"
      BY <1>5 DEF EmitFail, HeartbeatFree
    <2> QED
      BY <1>0, <1>5, <2>1, <2>2 DEF EmitFail, Cancelled
  <1> QED
    BY <1>1, <1>2, <1>3, <1>4, <1>5 DEF EmitWork

\* The invariant holds throughout.
LEMMA RunAlways == Spec => []RunInv
  <1>1. RunInv /\ [Next]_vars => RunInv'
    <2>1. RunInv /\ UNCHANGED vars => RunInv'
      BY DEF RunInv, TypeOK, ServedIffListening, Checking, Body, vars, emitter, sent, block
    <2>2. RunInv /\ Terminated => RunInv'
      BY <2>1 DEF Terminated
    <2> QED
      BY <2>1, <2>2, BlockKeeps, RequestKeeps, EmitKeeps DEF Next
  <1> QED
    BY <1>1, RunInit, PTL DEF Spec

\* The variables have their types.
THEOREM ReceiptTypeCorrect == Spec => []TypeOK
  <1>1. RunInv => TypeOK
    BY DEF RunInv
  <1> QED
    BY <1>1, RunAlways, PTL

\* In ReceiptSubReq no listener is left without an emitter, and an emitter
\* that gives up takes its listener along, for any number of clients.
THEOREM ListenersServed == Spec => []ServedIffListening
  <1>1. RunInv => ServedIffListening
    BY DEF RunInv
  <1> QED
    BY <1>1, RunAlways, PTL

-----------------------------------------------------------------------------
(***************************************************************************)
(* FeedExact, NotAhead and Reliable.  What client c was sent, what its     *)
(* emitter has taken and what is queued form one pipe: callbacks add to    *)
(* its end, messages only move what is in it, and a failed one takes a     *)
(* part out of its middle.                                                 *)
(***************************************************************************)
Pipe(c) == fed[c] \o InFlight(c)

\* The elements of a concatenation.
LEMMA ConcatAt ==
    ASSUME NEW s \in Seq(Receipt), NEW t \in Seq(Receipt)
    PROVE  /\ s \o t \in Seq(Receipt)
           /\ Len(s) \in Nat /\ Len(t) \in Nat /\ Len(s \o t) = Len(s) + Len(t)
           /\ DOMAIN (s \o t) = 1..(Len(s) + Len(t))
           /\ \A i \in 1..Len(s) : (s \o t)[i] = s[i]
           /\ \A i \in 1..Len(t) : (s \o t)[Len(s) + i] = t[i]
  OBVIOUS

\* A sequence in order without a part in its middle.
LEMMA IncreasingWithout ==
    ASSUME NEW s \in Seq(Receipt), NEW t \in Seq(Receipt), NEW u \in Seq(Receipt),
           Increasing(s \o (t \o u))
    PROVE  /\ Increasing(s \o u)
           /\ Range(s \o u) \subseteq Range(s \o (t \o u))
  <1> DEFINE tail == t \o u
  <1> DEFINE whole == s \o tail
  <1> DEFINE rest == s \o u
  <1> DEFINE At(i) == IF i <= Len(s) THEN i ELSE i + Len(t)
  <1>1. /\ tail \in Seq(Receipt) /\ Len(t) \in Nat /\ Len(u) \in Nat /\ Len(tail) = Len(t) + Len(u)
        /\ \A i \in 1..Len(u) : tail[Len(t) + i] = u[i]
    BY ConcatAt
  <1>2. /\ Len(s) \in Nat /\ DOMAIN rest = 1..(Len(s) + Len(u))
        /\ \A i \in 1..Len(s) : rest[i] = s[i]
        /\ \A i \in 1..Len(u) : rest[Len(s) + i] = u[i]
    BY ConcatAt
  <1> HIDE DEF tail, rest
  <1>3. /\ DOMAIN whole = 1..(Len(s) + Len(tail))
        /\ \A i \in 1..Len(s) : whole[i] = s[i]
        /\ \A i \in 1..Len(tail) : whole[Len(s) + i] = tail[i]
    BY <1>1, ConcatAt
  <1>4. Increasing(whole)
    BY DEF tail
  <1> HIDE DEF whole
  <1>5. ASSUME NEW i \in DOMAIN rest
        PROVE  At(i) \in DOMAIN whole /\ rest[i] = whole[At(i)]
    <2>1. CASE i <= Len(s)
      BY <1>1, <1>2, <1>3, <2>1
    <2>2. CASE i > Len(s)
      <3>1. PICK k \in 1..Len(u) : i = Len(s) + k
        <4>1. i - Len(s) \in 1..Len(u) /\ i = Len(s) + (i - Len(s))
          BY <1>1, <1>2, <2>2
        <4> QED
          BY <4>1
      <3>2. /\ At(i) = Len(s) + (Len(t) + k)
            /\ Len(t) + k \in 1..Len(tail)
        BY <1>1, <1>2, <3>1
      <3>3. rest[i] = u[k] /\ tail[Len(t) + k] = u[k]
        BY <1>1, <1>2, <3>1
      <3>4. whole[Len(s) + (Len(t) + k)] = tail[Len(t) + k]
        BY <1>3, <3>2
      <3>5. At(i) \in DOMAIN whole
        BY <1>1, <1>2, <1>3, <3>1, <3>2
      <3> QED
        BY <3>2, <3>3, <3>4, <3>5
    <2> QED
      BY <1>1, <1>2, <2>1, <2>2
  <1>6. \A i, j \in DOMAIN rest : i < j => At(i) < At(j)
    BY <1>1, <1>2
  <1> HIDE DEF At
  <1>7. Increasing(rest)
    BY <1>4, <1>5, <1>6 DEF Increasing
  <1>8. Range(rest) \subseteq Range(whole)
    BY <1>5 DEF Range
  <1> QED
    BY <1>7, <1>8 DEF rest, whole, tail

\* A sequence in order and a receipt behind it.
LEMMA IncreasingAppend ==
    ASSUME NEW s \in Seq(Receipt), NEW x \in Receipt
    PROVE  /\ Range(Append(s, x)) = Range(s) \cup {x}
           /\ Increasing(s) /\ (\A r \in Range(s) : Before(r, x)) => Increasing(Append(s, x))
  <1> DEFINE sx == Append(s, x)
  <1>1. /\ Len(s) \in Nat /\ DOMAIN s = 1..Len(s) /\ DOMAIN sx = 1..(Len(s) + 1)
        /\ \A i \in DOMAIN s : sx[i] = s[i] /\ s[i] \in Range(s)
        /\ sx[Len(s) + 1] = x
    BY DEF Range
  <1> HIDE DEF sx
  <1>2. Increasing(s) /\ (\A r \in Range(s) : Before(r, x)) => Increasing(sx)
    BY <1>1 DEF Increasing
  <1>3. Range(sx) = Range(s) \cup {x}
    BY <1>1 DEF Range
  <1> QED
    BY <1>2, <1>3 DEF sx

\* Parts of a concatenation.
LEMMA RangeParts ==
    ASSUME NEW s \in Seq(Receipt), NEW t \in Seq(Receipt)
    PROVE  Range(s \o t) = Range(s) \cup Range(t)
  <1> DEFINE st == s \o t
  <1>1. /\ DOMAIN s = 1..Len(s) /\ DOMAIN t = 1..Len(t) /\ DOMAIN st = 1..(Len(s) + Len(t))
        /\ Len(s) \in Nat /\ Len(t) \in Nat
        /\ \A i \in DOMAIN s : st[i] = s[i]
        /\ \A i \in DOMAIN t : st[Len(s) + i] = t[i]
        /\ \A i \in DOMAIN st : i > Len(s) => i - Len(s) \in DOMAIN t /\ st[i] = t[i - Len(s)]
    OBVIOUS
  <1>2. /\ \A i \in DOMAIN s : i \in DOMAIN st
        /\ \A i \in DOMAIN t : Len(s) + i \in DOMAIN st
        /\ \A i \in DOMAIN st : i \in DOMAIN s \/ i > Len(s)
    BY <1>1
  <1> HIDE DEF st
  <1>3. Range(st) = Range(s) \cup Range(t)
    BY <1>1, <1>2 DEF Range
  <1> QED
    BY <1>3 DEF st

\* What is appended to the last part is appended to the whole.
LEMMA AppendLast ==
    ASSUME NEW s \in Seq(Receipt), NEW t \in Seq(Receipt), NEW u \in Seq(Receipt), NEW x \in Receipt
    PROVE  s \o (t \o Append(u, x)) = Append(s \o (t \o u), x)
  <1>1. t \o Append(u, x) = Append(t \o u, x) /\ t \o u \in Seq(Receipt)
    OBVIOUS
  <1> DEFINE v == t \o u
  <1>2. v \in Seq(Receipt)
    BY <1>1
  <1> HIDE DEF v
  <1>3. s \o Append(v, x) = Append(s \o v, x)
    BY <1>2
  <1> QED
    BY <1>1, <1>3 DEF v

\* Moving from one part to the next.
LEMMA MoveParts ==
    ASSUME NEW s \in Seq(Receipt), NEW t \in Seq(Receipt), NEW u \in Seq(Receipt)
    PROVE  /\ s \o (t \o <<>>) = s \o (<<>> \o t)
           /\ (s \o t) \o (<<>> \o u) = s \o (t \o u)
  <1>1. t \o <<>> = t /\ <<>> \o t = t /\ <<>> \o u = u
    OBVIOUS
  <1>2. (s \o t) \o u = s \o (t \o u)
    OBVIOUS
  <1> QED
    BY <1>1, <1>2

\* The pipe is made of receipts.
LEMMA PipeType ==
    ASSUME TypeOK, NEW c \in Clients
    PROVE  /\ Pipe(c) \in Seq(Receipt)
           /\ fed[c] \in Seq(Receipt) /\ queue[c] \in Seq(Receipt) /\ hbOut \in Seq(Receipt)
           /\ Range(Pipe(c)) \subseteq Receipt
  <1>1. fed[c] \in Seq(Receipt) /\ queue[c] \in Seq(Receipt) /\ hbOut \in Seq(Receipt)
    BY DEF TypeOK
  <1>2. Pipe(c) \in Seq(Receipt)
    BY <1>1 DEF Pipe, InFlight
  <1> QED
    BY <1>1, <1>2 DEF Range

\* A callback adds its receipt to the pipe.
LEMMA HandlerPipe ==
    ASSUME TypeOK, NEW c \in Clients, NEW i \in DOMAIN Body, SubscribedReceiptHandler(c, i)
    PROVE  Pipe(c)' = Append(Pipe(c), Here(i)) /\ Here(i) \in Receipt
  <1> DEFINE t == IF hb = c THEN hbOut ELSE <<>>
  <1>1. Here(i) \in Receipt /\ t \in Seq(Receipt) /\ fed[c] \in Seq(Receipt) /\ queue[c] \in Seq(Receipt)
    <2>1. <<>> \in Seq(Receipt)
      OBVIOUS
    <2>2. Here(i) \in Receipt
      BY BodiesAssumption DEF Here, Receipt, Body, TypeOK
    <2> QED
      BY <2>1, <2>2, PipeType
  <1>2. UNCHANGED <<fed, hb, hbOut>> /\ queue'[c] = Append(queue[c], Here(i))
    BY DEF SubscribedReceiptHandler, emitter, sent, TypeOK
  <1>3. Pipe(c)' = fed[c] \o (t \o Append(queue[c], Here(i))) /\ Pipe(c) = fed[c] \o (t \o queue[c])
    BY <1>2 DEF Pipe, InFlight
  <1> HIDE DEF t
  <1>4. fed[c] \o (t \o Append(queue[c], Here(i))) = Append(fed[c] \o (t \o queue[c]), Here(i))
    BY <1>1, AppendLast
  <1> QED
    BY <1>1, <1>3, <1>4

\* What a step does to a pipe.
LEMMA PipeStep ==
    ASSUME RunInv, [Next]_vars, NEW c \in Clients
    PROVE  \/ Pipe(c)' = Pipe(c)
           \/ \E i \in DOMAIN Body : SubscribedReceiptHandler(c, i) /\ Pipe(c)' = Append(Pipe(c), Here(i))
           \/ EmitFail /\ hb = c /\ Pipe(c)' = fed[c] \o queue[c]
  <1>0. TypeOK /\ NoClient # c /\ (hb # NoClient => hb \in Clients)
    BY ClientAssumption DEF RunInv, TypeOK
  <1>a. /\ fed[c] \in Seq(Receipt) /\ queue[c] \in Seq(Receipt) /\ hbOut \in Seq(Receipt)
        /\ <<>> \in Seq(Receipt)
    BY <1>0, PipeType
  <1>1. CASE UNCHANGED <<fed, queue, hb, hbOut>>
    BY <1>1 DEF Pipe, InFlight
  <1>2. ASSUME NEW d \in Clients, NEW i \in DOMAIN Body, SubscribedReceiptHandler(d, i)
        PROVE  \/ Pipe(c)' = Pipe(c)
               \/ d = c /\ Pipe(c)' = Append(Pipe(c), Here(i))
    <2>1. /\ UNCHANGED <<fed, hb, hbOut>>
          /\ queue' = [queue EXCEPT ![d] = Append(queue[d], Here(i))]
      BY <1>2 DEF SubscribedReceiptHandler, emitter, sent
    <2>2. CASE d # c
      BY <1>0, <2>1, <2>2 DEF Pipe, InFlight, TypeOK
    <2>3. CASE d = c
      BY <1>0, <1>2, <2>3, HandlerPipe
    <2> QED
      BY <2>2, <2>3
  <1>3. ASSUME NEW d \in Clients, EmitSwap(d) PROVE Pipe(c)' = Pipe(c)
    <2>1. /\ UNCHANGED fed /\ hb = NoClient /\ hb' = d /\ hbOut' = queue[d]
          /\ queue' = [queue EXCEPT ![d] = <<>>]
      BY <1>3 DEF EmitSwap, Taken, Left, sent
    <2>2. CASE d # c
      BY <1>0, <2>1, <2>2 DEF Pipe, InFlight, TypeOK
    <2>3. CASE d = c
      <3>1. Pipe(c)' = fed[c] \o (queue[c] \o <<>>) /\ Pipe(c) = fed[c] \o (<<>> \o queue[c])
        BY <1>0, <2>1, <2>3 DEF Pipe, InFlight, TypeOK
      <3> QED
        BY <1>a, <3>1, MoveParts
    <2> QED
      BY <2>2, <2>3
  <1>4. CASE EmitSend
    <2>1. /\ UNCHANGED queue /\ hb \in Clients /\ hb' = NoClient /\ hbOut' = <<>>
          /\ fed' = [fed EXCEPT ![hb] = fed[hb] \o hbOut]
      BY <1>0, <1>4 DEF EmitSend, HeartbeatFree
    <2>2. CASE hb # c
      BY <1>0, <2>1, <2>2 DEF Pipe, InFlight, TypeOK
    <2>3. CASE hb = c
      <3>1. Pipe(c)' = (fed[c] \o hbOut) \o (<<>> \o queue[c]) /\ Pipe(c) = fed[c] \o (hbOut \o queue[c])
        <4>1. fed'[c] = fed[c] \o hbOut
          BY <1>0, <2>1, <2>3 DEF TypeOK
        <4> QED
          BY <1>0, <2>1, <2>3, <4>1 DEF Pipe, InFlight
      <3> QED
        BY <1>a, <3>1, MoveParts
    <2> QED
      BY <2>2, <2>3
  <1>5. CASE EmitFail
    <2>1. UNCHANGED <<queue, fed>> /\ hb' = NoClient /\ hbOut' = <<>>
      BY <1>5 DEF EmitFail, HeartbeatFree, sent
    <2>2. CASE hb # c
      BY <1>0, <2>1, <2>2 DEF Pipe, InFlight
    <2>3. CASE hb = c
      <3>1. Pipe(c)' = fed[c] \o (<<>> \o queue[c]) /\ <<>> \o queue[c] = queue[c]
        BY <1>0, <1>a, <2>1 DEF Pipe, InFlight
      <3> QED
        BY <1>5, <2>3, <3>1
    <2> QED
      BY <2>2, <2>3
  <1>6. ASSUME ~\E d \in Clients, i \in DOMAIN Body : SubscribedReceiptHandler(d, i),
               ~\E d \in Clients : EmitSwap(d), ~EmitSend, ~EmitFail
        PROVE  UNCHANGED <<fed, queue, hb, hbOut>>
    BY <1>6 DEF Next, BlockWork, AppendBlock, GetReceipts, SkipCancelled, BlockDone, BlockThrow,
       ReceiptSubReqParse, RequestWork, ReceiptSubReqListen, ReceiptSubReqAddEmitter, EmitWork,
       EmitSecState, EmitBlkNum, Terminated, vars, emitter, sent
  <1> QED
    BY <1>1, <1>2, <1>3, <1>4, <1>5, <1>6

\* Receipt r is a log of a block of the chain that client c asked for.
IsWanted(c, r) ==
    /\ r.blk \in DOMAIN chain
    /\ r.idx \in DOMAIN chain[r.blk]
    /\ chain[r.blk][r.idx] \in Wants[c]

\* What is in the pipe was asked for and lies before what is still to come.
Kept(c) ==
    /\ Increasing(Pipe(c))
    /\ \A r \in Range(Pipe(c)) : IsWanted(c, r)
    /\ \A i \in DOMAIN Body : <<c, i>> \in todo =>
        /\ Body[i] \in Wants[c]
        /\ \A r \in Range(Pipe(c)) : Before(r, Here(i))
    /\ pc[c] \in {"idle", "listen", "rejected"} =>
        Range(Pipe(c)) = {} /\ \A i \in DOMAIN Body : <<c, i>> \notin todo

KeptInv == RunInv /\ \A c \in Clients : Kept(c)

\* Of the chain, a step changes at most that a block is added.
LEMMA ChainStep ==
    ASSUME RunInv, [Next]_vars
    PROVE  \/ chain' = chain
           \/ \E body \in BlockBodies : AppendBlock(body)
  <1> QED
    BY DEF Next, BlockWork, GetReceipts, SubscribedReceiptHandler, SkipCancelled, BlockDone,
       BlockThrow, ReceiptSubReqParse, RequestWork, ReceiptSubReqListen, ReceiptSubReqAddEmitter,
       EmitSwap, EmitWork, EmitSecState, EmitBlkNum, EmitSend, EmitFail, Terminated, vars, block

\* The block added is the one under way.
LEMMA AppendedBody ==
    ASSUME TypeOK, NEW body \in BlockBodies, AppendBlock(body)
    PROVE  chain'[Len(chain')] = body /\ Body' = body
  <1>1. chain \in Seq(BlockBodies) /\ chain' = Append(chain, body)
    BY DEF TypeOK, AppendBlock
  <1>2. Len(chain') \in Nat /\ Len(chain') # 0 /\ chain'[Len(chain')] = body
    BY <1>1
  <1> QED
    BY <1>2 DEF Body

\* A block added leaves those before it.
LEMMA ChainGrows ==
    ASSUME TypeOK, NEW body \in BlockBodies, AppendBlock(body)
    PROVE  /\ Len(chain) \in Nat /\ Len(chain)' = Len(chain) + 1
           /\ DOMAIN chain = 1..Len(chain) /\ DOMAIN chain' = 1..(Len(chain) + 1)
           /\ \A n \in 1..Len(chain) : chain'[n] = chain[n]
           /\ lastBlk' = Len(chain) + 1
  <1>1. chain \in Seq(BlockBodies) /\ chain' = Append(chain, body) /\ lastBlk' = Len(chain) + 1
    BY DEF TypeOK, AppendBlock, NextNumber
  <1> QED
    BY <1>1

\* What is wanted stays so, and only a new block has more of it.
LEMMA WantedStep ==
    ASSUME RunInv, [Next]_vars, NEW c \in Clients, NEW r \in Receipt
    PROVE  /\ IsWanted(c, r) => IsWanted(c, r)'
           /\ IsWanted(c, r)' /\ r.blk <= Len(chain) => IsWanted(c, r)
  <1>1. CASE chain' = chain
    BY <1>1 DEF IsWanted
  <1>2. ASSUME NEW body \in BlockBodies, AppendBlock(body)
        PROVE  /\ IsWanted(c, r) => IsWanted(c, r)'
               /\ IsWanted(c, r)' /\ r.blk <= Len(chain) => IsWanted(c, r)
    <2>1. r.blk \in Nat
      BY DEF Receipt
    <2> QED
      BY <1>2, <2>1, ChainGrows DEF RunInv, IsWanted
  <1> QED
    BY <1>1, <1>2, ChainStep

\* The start satisfies the invariant.
LEMMA KeptInit == Init => KeptInv
  <1> SUFFICES ASSUME Init, NEW c \in Clients
               PROVE  Kept(c)
    BY RunInit DEF KeptInv
  <1>1. Pipe(c) = <<>>
    BY DEF Init, Pipe, InFlight
  <1>2. Range(Pipe(c)) = {} /\ Increasing(Pipe(c))
    BY <1>1 DEF Range, Increasing
  <1> QED
    BY <1>2 DEF Init, Kept

\* Every step keeps the pipe of every client in order.
LEMMA KeptStep ==
    ASSUME KeptInv, [Next]_vars, RunInv'
    PROVE  KeptInv'
  <1> SUFFICES ASSUME NEW c \in Clients PROVE Kept(c)'
    BY DEF KeptInv
  <1>0. RunInv /\ TypeOK /\ Kept(c) /\ pc[c] \in {"idle", "listen", "add", "live", "rejected", "dropped"}
    <2>1. RunInv /\ TypeOK /\ Kept(c)
      BY DEF KeptInv, RunInv
    <2>2. pc[c] \in {"idle", "listen", "add", "live", "rejected", "dropped"}
      BY <2>1 DEF TypeOK
    <2> QED
      BY <2>1, <2>2
  <1>00. Pipe(c) \in Seq(Receipt) /\ Range(Pipe(c)) \subseteq Receipt /\ Len(chain) \in Nat
    <2>1. chain \in Seq(BlockBodies)
      BY <1>0 DEF TypeOK
    <2> QED
      BY <1>0, <2>1, PipeType
  <1>w. \A r \in Range(Pipe(c)) : IsWanted(c, r)'
    BY <1>0, <1>00, WantedStep DEF Kept
  <1>b. \A r \in Range(Pipe(c)) : r.blk \in Nat /\ r.idx \in Nat /\ r.blk <= Len(chain)
    <2>1. \A r \in Range(Pipe(c)) : r.blk \in DOMAIN chain /\ r \in Receipt
      BY <1>0, <1>00 DEF Kept, IsWanted
    <2>2. DOMAIN chain = 1..Len(chain)
      BY <1>0 DEF TypeOK
    <2>3. \A r \in Receipt : r.blk \in Nat /\ r.idx \in Nat
      BY DEF Receipt
    <2> QED
      BY <1>00, <2>1, <2>2, <2>3
  <1>n. DOMAIN Body \subseteq Nat
    BY <1>0, BodiesAssumption DEF Body, TypeOK
  <1>1. ASSUME Pipe(c)' = Pipe(c) PROVE Kept(c)'
    <2>1. ASSUME NEW body \in BlockBodies, AppendBlock(body) PROVE Kept(c)'
      <3>1. /\ chain' = Append(chain, body) /\ pc' = pc
            /\ todo' = {t \in subs \X DOMAIN body : body[t[2]] \in Wants[t[1]]}
        BY <2>1 DEF AppendBlock
      <3>2. Body' = body
        BY <1>0, <2>1, AppendedBody
      <3>3. \A r \in Range(Pipe(c)) : r.blk < Len(chain)'
        BY <1>0, <1>00, <1>b, <2>1, ChainGrows
      <3>4. \A r \in Range(Pipe(c)) : \A i : Before(r, Here(i)')
        BY <3>3 DEF Before, Here
      <3>5. \A i : <<c, i>> \in todo' => body[i] \in Wants[c] /\ c \in subs
        BY <3>1
      <3>6. pc[c] \in {"idle", "listen", "rejected"} => c \notin subs
        BY <1>0 DEF RunInv, ServedIffListening
      <3> QED
        BY <1>0, <1>1, <1>w, <3>1, <3>2, <3>4, <3>5, <3>6 DEF Kept, Before
    <2>3. ASSUME NEW k \in 0..Len(Body), ReceiptSubReqListen(c, k) PROVE Kept(c)'
      <3>1. /\ chain' = chain /\ Body' = Body /\ blkPc' = blkPc /\ pc[c] = "listen" /\ pc'[c] = "add"
            /\ \A i \in DOMAIN Body : <<c, i>> \in todo' => <<c, i>> \in todo \/ Body[i] \in Wants[c]
        BY <1>0, <2>3 DEF ReceiptSubReqListen, Body, block, TypeOK
      <3>2. Range(Pipe(c)) = {}
        BY <1>0, <3>1 DEF Kept
      <3>3. \A i : Here(i)' = Here(i)
        BY <3>1 DEF Here
      <3> QED
        BY <1>0, <1>1, <3>1, <3>2, <3>3 DEF Kept
    <2>4. ASSUME /\ chain' = chain
                 /\ \A i \in DOMAIN Body : <<c, i>> \in todo' => <<c, i>> \in todo
                 /\ pc'[c] \in {"idle", "listen", "rejected"} => pc[c] \in {"idle", "listen", "rejected"}
          PROVE Kept(c)'
      <3>1. Body' = Body /\ \A i : Here(i)' = Here(i)
        BY <2>4 DEF Body, Here
      <3> QED
        BY <1>0, <1>1, <1>w, <2>4, <3>1 DEF Kept
    <2>5. ASSUME ~\E body \in BlockBodies : AppendBlock(body),
                 ~\E k \in 0..Len(Body) : ReceiptSubReqListen(c, k)
          PROVE /\ chain' = chain
                /\ \A i \in DOMAIN Body : <<c, i>> \in todo' => <<c, i>> \in todo
                /\ pc'[c] \in {"idle", "listen", "rejected"} => pc[c] \in {"idle", "listen", "rejected"}
      <3>1. ASSUME NEW d \in Clients, NEW k \in 0..Len(Body), d # c, ReceiptSubReqListen(d, k)
            PROVE  /\ chain' = chain /\ blkPc' = blkPc /\ pc'[c] = pc[c]
                   /\ \A i \in DOMAIN Body : <<c, i>> \in todo' => <<c, i>> \in todo
        BY <1>0, <3>1 DEF ReceiptSubReqListen, block, TypeOK
      <3>2. ASSUME NEW d \in Clients, ReceiptSubReqParse(d)
            PROVE  /\ chain' = chain /\ blkPc' = blkPc /\ todo' = todo
                   /\ (pc'[c] = pc[c] \/ pc[c] = "idle")
        BY <1>0, <3>2 DEF ReceiptSubReqParse, block, TypeOK
      <3>3. ASSUME NEW d \in Clients, ReceiptSubReqAddEmitter(d)
            PROVE  /\ chain' = chain /\ blkPc' = blkPc /\ todo' = todo
                   /\ (pc'[c] = pc[c] \/ pc'[c] = "live")
        BY <1>0, <3>3 DEF ReceiptSubReqAddEmitter, block, TypeOK
      <3>4. ASSUME BlockWork
            PROVE  chain' = chain /\ pc' = pc /\ todo' \subseteq todo
        BY <1>0, <2>5, <3>4 DEF BlockWork, GetReceipts, SubscribedReceiptHandler, SkipCancelled, BlockDone, BlockThrow, block
      <3>5. ASSUME EmitWork \/ \E d \in Clients : EmitSwap(d)
            PROVE  /\ chain' = chain /\ blkPc' = blkPc /\ todo' = todo
                   /\ (pc'[c] = pc[c] \/ pc'[c] = "dropped")
        BY <1>0, <3>5 DEF EmitWork, EmitSwap, EmitSecState, EmitBlkNum, EmitSend, EmitFail, block, TypeOK
      <3>6. ASSUME UNCHANGED vars
            PROVE  chain' = chain /\ blkPc' = blkPc /\ todo' = todo /\ pc' = pc
        BY <3>6 DEF vars, block
      <3>7. \/ UNCHANGED vars \/ BlockWork \/ EmitWork
            \/ \E d \in Clients : \/ EmitSwap(d) \/ ReceiptSubReqParse(d) \/ ReceiptSubReqAddEmitter(d)
                                  \/ d # c /\ \E k \in 0..Len(Body) : ReceiptSubReqListen(d, k)
        BY <2>5 DEF Next, RequestWork, Terminated
      <3> QED
        BY <3>1, <3>2, <3>3, <3>4, <3>5, <3>6, <3>7
    <2> QED
      BY <2>1, <2>3, <2>4, <2>5
  <1>2. ASSUME NEW i \in DOMAIN Body, SubscribedReceiptHandler(c, i), Pipe(c)' = Append(Pipe(c), Here(i))
        PROVE  Kept(c)'
    <2>1. /\ blkPc = "check" /\ blkPc' = blkPc /\ chain' = chain /\ Body' = Body /\ pc' = pc
          /\ IsNext(c, i) /\ todo' = todo \ {<<c, i>>}
      BY <1>2 DEF SubscribedReceiptHandler, block, Body
    <2>2. <<c, i>> \in todo /\ Here(i) \in Receipt /\ Here(i).blk = Len(chain) /\ Here(i).idx = i
      BY <1>00, <1>n, <2>1 DEF IsNext, Here, Receipt
    <2>3. Range(Pipe(c))' = Range(Pipe(c)) \cup {Here(i)} /\ Increasing(Pipe(c))'
      BY <1>0, <1>00, <1>2, <2>2, IncreasingAppend DEF Kept
    <2>4. IsWanted(c, Here(i))'
      <3>1. chain # <<>>
        BY <1>0, <2>1 DEF RunInv, Checking
      <3>2. Len(chain) \in DOMAIN chain
        BY <1>0, <3>1 DEF TypeOK
      <3>3. i \in DOMAIN Body /\ Body[i] \in Wants[c] /\ Body = chain[Len(chain)]
        BY <1>0, <1>2, <2>2, <3>1 DEF Kept, Body
      <3> QED
        BY <2>1, <2>2, <3>2, <3>3 DEF IsWanted, Here
    <2>5. \A j \in DOMAIN Body : <<c, j>> \in todo' => Before(Here(i), Here(j)) /\ Before(Here(i), Here(j))'
      BY <1>00, <1>n, <2>1 DEF IsNext, Before, Here
    <2>6. \A j : Here(j)' = Here(j)
      BY <2>1 DEF Here
    <2> QED
      BY <1>0, <1>w, <2>1, <2>2, <2>3, <2>4, <2>5, <2>6 DEF Kept
  <1>3. ASSUME EmitFail, hb = c, Pipe(c)' = fed[c] \o queue[c] PROVE Kept(c)'
    <2>1. chain' = chain /\ blkPc' = blkPc /\ todo' = todo /\ pc'[c] = "dropped" /\ Body' = Body
      BY <1>0, <1>3 DEF EmitFail, block, TypeOK, Body
    <2>2. Pipe(c) = fed[c] \o (hbOut \o queue[c])
      BY <1>3 DEF Pipe, InFlight
    <2>3. fed[c] \in Seq(Receipt) /\ queue[c] \in Seq(Receipt) /\ hbOut \in Seq(Receipt)
      BY <1>0, PipeType
    <2>4. Increasing(Pipe(c)') /\ Range(Pipe(c)') \subseteq Range(Pipe(c))
      BY <1>0, <1>3, <2>2, <2>3, IncreasingWithout DEF Kept
    <2>5. \A j : Here(j)' = Here(j)
      BY <2>1 DEF Here
    <2> QED
      BY <1>0, <1>w, <2>1, <2>4, <2>5 DEF Kept
  <1> QED
    BY <1>0, <1>1, <1>2, <1>3, PipeStep

\* The invariant holds throughout.
LEMMA KeptAlways == Spec => []KeptInv
  <1> QED
    BY KeptInit, KeptStep, RunAlways, PTL DEF Spec

\* Every receipt is sent at most once and in chain order and was asked for,
\* for any number of clients and blocks: a callback adds to the end of what
\* was sent, taken and queued, and is always behind it.
THEOREM FeedInChainOrder == Spec => []FeedExact
  <1>1. KeptInv => FeedExact
    BY DEF KeptInv, Kept, IsWanted, FeedExact, Pipe
  <1> QED
    BY <1>1, KeptAlways, PTL

-----------------------------------------------------------------------------
\* The numbers client c was told lie between its joining and the blocks that
\* are done, and its receipts below the last of them.
Numbers(c) ==
    /\ joined[c] <= Len(chain)
    /\ \A i \in DOMAIN told[c] :
        /\ joined[c] <= told[c][i] /\ told[c][i] <= Len(chain)
        /\ Checking => told[c][i] < Len(chain)
    /\ pc[c] \in {"idle", "listen", "rejected"} => told[c] = <<>>
    /\ told[c] = <<>> => Range(fed[c]) = {}
    /\ \A r \in Range(fed[c]) : r.blk <= told[c][Len(told[c])]

\* The same of the number the emitter has read and not sent.
Reading ==
    hb # NoClient /\ hbPc = "send" =>
        /\ joined[hb] <= hbBlk /\ hbBlk <= Len(chain)
        /\ Checking => hbBlk < Len(chain)
        /\ \A r \in Range(fed[hb]) \cup Range(hbOut) : r.blk <= hbBlk

NumberInv == KeptInv /\ lastBlk = Len(chain) /\ Reading /\ \A c \in Clients : Numbers(c)

\* The start satisfies the invariant.
LEMMA NumberInit == Init => NumberInv
  <1> SUFFICES ASSUME Init
               PROVE  NumberInv
    OBVIOUS
  <1>1. KeptInv
    BY KeptInit
  <1>2. Len(chain) = 0 /\ lastBlk = 0 /\ hb = NoClient
    BY DEF Init
  <1>3. ASSUME NEW c \in Clients PROVE Numbers(c)
    <2>1. fed[c] = <<>> /\ told[c] = <<>> /\ joined[c] = 0
      BY DEF Init
    <2>2. Range(fed[c]) = {}
      BY <2>1 DEF Range
    <2> QED
      BY <1>2, <2>1, <2>2 DEF Numbers
  <1> QED
    BY <1>1, <1>2, <1>3 DEF NumberInv, Reading

\* The number of a block is set with the block, and the thread takes up a
\* block only with a new one.
LEMMA BlockStep ==
    ASSUME RunInv, [Next]_vars
    PROVE  \/ /\ chain' = chain /\ lastBlk' = lastBlk /\ (Checking' => Checking)
           \/ \E body \in BlockBodies : AppendBlock(body) /\ ~Checking
  <1> QED
    BY DEF Next, BlockWork, AppendBlock, GetReceipts, SubscribedReceiptHandler, SkipCancelled, BlockDone,
       BlockThrow, ReceiptSubReqParse, RequestWork, ReceiptSubReqListen, ReceiptSubReqAddEmitter,
       EmitSwap, EmitWork, EmitSecState, EmitBlkNum, EmitSend, EmitFail, Terminated, vars, block, Checking

\* So a number that was not ahead of the blocks never is.
LEMMA StaysBehind ==
    ASSUME RunInv, [Next]_vars, NEW n \in Nat, n <= Len(chain), Checking => n < Len(chain)
    PROVE  n <= Len(chain') /\ (Checking' => n < Len(chain'))
  <1>1. CASE chain' = chain /\ (Checking' => Checking)
    BY <1>1
  <1>2. ASSUME NEW body \in BlockBodies, AppendBlock(body)
        PROVE  n <= Len(chain') /\ (Checking' => n < Len(chain'))
    BY <1>2, ChainGrows DEF RunInv
  <1> QED
    BY <1>1, <1>2, BlockStep

\* What a step does to what client c was sent and told.
LEMMA SentStep ==
    ASSUME RunInv, [Next]_vars, NEW c \in Clients
    PROVE  \/ /\ fed'[c] = fed[c] /\ told'[c] = told[c] /\ joined'[c] = joined[c]
              /\ pc'[c] \in {"idle", "listen", "rejected"} => pc[c] \in {"idle", "listen", "rejected"}
           \/ /\ \E k \in 0..Len(Body) : ReceiptSubReqListen(c, k)
              /\ fed'[c] = fed[c] /\ told'[c] = told[c] /\ pc[c] = "listen" /\ pc'[c] = "add"
              /\ chain' = chain /\ blkPc' = blkPc /\ joined'[c] <= Len(chain)
           \/ /\ EmitSend /\ hb = c /\ pc'[c] = "live" /\ joined'[c] = joined[c]
              /\ fed'[c] = fed[c] \o hbOut /\ told'[c] = Remember(told[c], hbBlk)
              /\ chain' = chain /\ blkPc' = blkPc
  <1>0. TypeOK /\ (hb # NoClient => pc[hb] = "live") /\ Len(chain) \in Nat
    BY DEF RunInv, TypeOK
  <1> DEFINE same == UNCHANGED <<fed, told, joined>>
  <1>1. ASSUME NEW d \in Clients, NEW k \in 0..Len(Body), ReceiptSubReqListen(d, k)
        PROVE  /\ fed' = fed /\ told' = told
               /\ chain' = chain /\ blkPc' = blkPc
               /\ d # c => pc'[c] = pc[c] /\ joined'[c] = joined[c]
               /\ d = c => pc[c] = "listen" /\ pc'[c] = "add" /\ joined'[c] <= Len(chain)
    <2>1. /\ fed' = fed /\ told' = told /\ chain' = chain /\ blkPc' = blkPc
          /\ pc[d] = "listen" /\ pc' = [pc EXCEPT ![d] = "add"]
          /\ joined' = [joined EXCEPT ![d] = Len(chain)]
      BY <1>1 DEF ReceiptSubReqListen, block, sent
    <2>2. d # c => pc'[c] = pc[c] /\ joined'[c] = joined[c]
      BY <1>0, <2>1 DEF TypeOK
    <2>3. d = c => pc'[c] = "add" /\ joined'[c] <= Len(chain)
      BY <1>0, <2>1 DEF TypeOK
    <2> QED
      BY <1>0, <2>1, <2>2, <2>3
  <1>2. ASSUME NEW d \in Clients, ReceiptSubReqParse(d) PROVE same /\ (pc'[c] = pc[c] \/ pc[c] = "idle")
    BY <1>0, <1>2 DEF ReceiptSubReqParse, sent, TypeOK
  <1>3. ASSUME NEW d \in Clients, ReceiptSubReqAddEmitter(d) PROVE same /\ (pc'[c] = pc[c] \/ pc'[c] = "live")
    BY <1>0, <1>3 DEF ReceiptSubReqAddEmitter, sent, TypeOK
  <1>4. ASSUME BlockWork \/ UNCHANGED vars PROVE same /\ pc' = pc
    BY <1>4 DEF BlockWork, AppendBlock, GetReceipts, SubscribedReceiptHandler, SkipCancelled, BlockDone,
       BlockThrow, sent, vars
  <1>5. ASSUME EmitSecState \/ EmitBlkNum \/ EmitFail \/ \E d \in Clients : EmitSwap(d)
        PROVE  same /\ (pc'[c] = pc[c] \/ pc'[c] = "dropped")
    BY <1>0, <1>5 DEF EmitSwap, EmitSecState, EmitBlkNum, EmitFail, sent, TypeOK
  <1>6. ASSUME EmitSend
        PROVE  /\ pc' = pc /\ joined' = joined /\ chain' = chain /\ blkPc' = blkPc /\ pc[hb] = "live"
               /\ hb # c => fed'[c] = fed[c] /\ told'[c] = told[c]
               /\ hb = c => fed'[c] = fed[c] \o hbOut /\ told'[c] = Remember(told[c], hbBlk)
    BY <1>0, <1>6 DEF EmitSend, block, TypeOK
  <1>7. \/ BlockWork \/ UNCHANGED vars
        \/ EmitSecState \/ EmitBlkNum \/ EmitFail \/ EmitSend
        \/ \E d \in Clients : \/ EmitSwap(d) \/ ReceiptSubReqParse(d) \/ ReceiptSubReqAddEmitter(d)
                              \/ \E k \in 0..Len(Body) : ReceiptSubReqListen(d, k)
    BY DEF Next, RequestWork, EmitWork, Terminated
  <1> QED
    BY <1>1, <1>2, <1>3, <1>4, <1>5, <1>6, <1>7

\* The client whose emitter runs has joined and what it was sent is in its pipe.
LEMMA EmitterPipe ==
    ASSUME KeptInv, hb # NoClient
    PROVE  /\ hb \in Clients /\ pc[hb] = "live" /\ hb \in subs
           /\ \A r \in Range(fed[hb]) \cup Range(hbOut) : r \in Receipt /\ r.blk <= Len(chain)
           /\ fed[hb] \in Seq(Receipt) /\ hbOut \in Seq(Receipt)
  <1>1. RunInv /\ TypeOK /\ hb \in Clients /\ pc[hb] = "live" /\ hb \in subs /\ Kept(hb)
    <2>1. RunInv /\ hb \in Clients /\ pc[hb] = "live" /\ ServedIffListening
      BY DEF KeptInv, RunInv, TypeOK
    <2> QED
      BY <2>1 DEF KeptInv, RunInv, ServedIffListening
  <1>2. fed[hb] \in Seq(Receipt) /\ hbOut \in Seq(Receipt) /\ queue[hb] \in Seq(Receipt)
    BY <1>1, PipeType
  <1>3. hbOut \o queue[hb] \in Seq(Receipt) /\ Pipe(hb) = fed[hb] \o (hbOut \o queue[hb])
    <2>1. Pipe(hb) = fed[hb] \o (hbOut \o queue[hb])
      BY DEF Pipe, InFlight
    <2> DEFINE q == queue[hb]
    <2>2. q \in Seq(Receipt)
      BY <1>2
    <2> HIDE DEF q
    <2>3. hbOut \o q \in Seq(Receipt)
      BY <1>2, <2>2
    <2> QED
      BY <2>1, <2>3 DEF q
  <1>4. Range(fed[hb]) \cup Range(hbOut) \subseteq Range(Pipe(hb))
    <2>1. Range(hbOut \o queue[hb]) = Range(hbOut) \cup Range(queue[hb])
      BY <1>2, RangeParts
    <2>2. Range(Pipe(hb)) = Range(fed[hb]) \cup Range(hbOut \o queue[hb])
      BY <1>2, <1>3, RangeParts
    <2> QED
      BY <2>1, <2>2
  <1>5. \A r \in Range(Pipe(hb)) : r.blk \in DOMAIN chain /\ r \in Receipt
    BY <1>1, PipeType DEF Kept, IsWanted
  <1>6. DOMAIN chain = 1..Len(chain)
    BY <1>1 DEF TypeOK
  <1> QED
    BY <1>1, <1>2, <1>4, <1>5, <1>6

\* What a message makes of the numbers a client was told.
LEMMA Remembered ==
    ASSUME NEW t \in Seq(Nat), NEW n \in Nat
    PROVE  /\ Remember(t, n) # <<>> /\ Remember(t, n)[Len(Remember(t, n))] = n
           /\ \A i \in DOMAIN Remember(t, n) : Remember(t, n)[i] = n \/ \E j \in DOMAIN t : Remember(t, n)[i] = t[j]
           /\ Len(Remember(t, n)) = 3 => 1 \in DOMAIN t /\ Len(t) \in DOMAIN t
                                         /\ Remember(t, n)[1] = t[1] /\ Remember(t, n)[2] = t[Len(t)]
  <1>1. CASE t = <<>>
    BY <1>1 DEF Remember
  <1>2. CASE t # <<>>
    <2>1. 1 \in DOMAIN t /\ Len(t) \in DOMAIN t /\ Remember(t, n) = <<t[1], t[Len(t)], n>>
      BY <1>2 DEF Remember
    <2> QED
      BY <2>1
  <1> QED
    BY <1>1, <1>2

\* Every step keeps the numbers in order.
LEMMA NumberStep ==
    ASSUME NumberInv, [Next]_vars, KeptInv'
    PROVE  NumberInv'
  <1>0. KeptInv /\ RunInv /\ TypeOK /\ RunInv' /\ Len(chain) \in Nat /\ lastBlk = Len(chain) /\ Reading
    <2>1. KeptInv /\ RunInv /\ TypeOK /\ RunInv'
      BY DEF NumberInv, KeptInv, RunInv
    <2>2. chain \in Seq(BlockBodies)
      BY <2>1 DEF TypeOK
    <2> QED
      BY <2>1, <2>2 DEF NumberInv
  <1>1. lastBlk' = Len(chain')
    BY <1>0, BlockStep, ChainGrows
  <1>2. ASSUME NEW c \in Clients PROVE Numbers(c)'
    <2>0. /\ Numbers(c) /\ told[c] \in Seq(Nat) /\ joined[c] \in Nat
          /\ \A i \in DOMAIN told[c] : told[c][i] \in Nat
      <3>1. told[c] \in Seq(Nat) /\ joined[c] \in Nat
        BY <1>0 DEF TypeOK
      <3> QED
        BY <3>1 DEF NumberInv
    <2>1. \A i \in DOMAIN told[c] : told[c][i] <= Len(chain') /\ (Checking' => told[c][i] < Len(chain'))
      BY <1>0, <2>0, StaysBehind DEF Numbers
    <2>2. joined[c] <= Len(chain')
      <3>1. CASE chain' = chain
        BY <2>0, <3>1 DEF Numbers
      <3>2. ASSUME NEW body \in BlockBodies, AppendBlock(body) PROVE joined[c] <= Len(chain')
        BY <1>0, <2>0, <3>2, ChainGrows DEF Numbers
      <3> QED
        BY <1>0, <3>1, <3>2, ChainStep
    <2>3. CASE /\ fed'[c] = fed[c] /\ told'[c] = told[c] /\ joined'[c] = joined[c]
               /\ pc'[c] \in {"idle", "listen", "rejected"} => pc[c] \in {"idle", "listen", "rejected"}
      BY <2>0, <2>1, <2>2, <2>3 DEF Numbers
    <2>4. CASE /\ fed'[c] = fed[c] /\ told'[c] = told[c] /\ pc[c] = "listen" /\ pc'[c] = "add"
               /\ chain' = chain /\ joined'[c] <= Len(chain)
      <3>1. told'[c] = <<>> /\ Range(fed'[c]) = {}
        BY <2>0, <2>4 DEF Numbers
      <3> QED
        BY <2>4, <3>1 DEF Numbers
    <2>5. CASE /\ EmitSend /\ hb = c /\ pc'[c] = "live" /\ joined'[c] = joined[c]
               /\ fed'[c] = fed[c] \o hbOut /\ told'[c] = Remember(told[c], hbBlk)
               /\ chain' = chain /\ blkPc' = blkPc
      <3>1. /\ joined[c] <= hbBlk /\ hbBlk <= Len(chain) /\ hbBlk \in Nat
            /\ Checking => hbBlk < Len(chain)
            /\ \A r \in Range(fed[c]) \cup Range(hbOut) : r.blk <= hbBlk
        <4>1. hb # NoClient /\ hbPc = "send" /\ hbBlk \in Nat
          BY <1>0, <2>5 DEF EmitSend, TypeOK
        <4> QED
          BY <1>0, <2>5, <4>1 DEF Reading
      <3>2. Range(fed'[c]) = Range(fed[c]) \cup Range(hbOut)
        <4>1. hb # NoClient
          BY <2>5 DEF EmitSend
        <4>2. fed[hb] \in Seq(Receipt) /\ hbOut \in Seq(Receipt)
          BY <1>0, <4>1, EmitterPipe
        <4>3. Range(fed[hb] \o hbOut) = Range(fed[hb]) \cup Range(hbOut)
          BY <4>2, RangeParts
        <4> QED
          BY <2>5, <4>3
      <3>3. /\ told'[c] # <<>> /\ told'[c][Len(told'[c])] = hbBlk
            /\ \A i \in DOMAIN told'[c] : told'[c][i] = hbBlk \/ \E j \in DOMAIN told[c] : told'[c][i] = told[c][j]
        <4> DEFINE R == Remember(told[c], hbBlk)
        <4>1. /\ R # <<>> /\ R[Len(R)] = hbBlk
              /\ \A i \in DOMAIN R : R[i] = hbBlk \/ \E j \in DOMAIN told[c] : R[i] = told[c][j]
          BY <2>0, <3>1, Remembered
        <4> HIDE DEF R
        <4>2. told'[c] = R
          BY <2>5 DEF R
        <4> QED
          BY <4>1, <4>2
      <3>4. Checking' = Checking
        BY <2>5 DEF Checking
      <3> QED
        BY <2>0, <2>5, <3>1, <3>2, <3>3, <3>4 DEF Numbers
    <2> QED
      BY <1>0, <2>3, <2>4, <2>5, SentStep
  <1>3. Reading'
    <2> SUFFICES ASSUME hb' # NoClient, hbPc' = "send"
                 PROVE  Reading'
      BY DEF Reading
    <2>1. CASE EmitBlkNum
      <3>1. /\ hb # NoClient /\ hb' = hb /\ chain' = chain /\ blkPc' = blkPc /\ fed' = fed /\ hbOut' = hbOut
            /\ joined' = joined /\ hbBlk' = lastBlk /\ ~Checking
        BY <2>1 DEF EmitBlkNum, block, sent, MonitorFree, Checking
      <3>2. hb \in Clients /\ \A r \in Range(fed[hb]) \cup Range(hbOut) : r.blk <= Len(chain)
        BY <1>0, <3>1, EmitterPipe
      <3>3. joined[hb] <= Len(chain)
        BY <3>2 DEF NumberInv, Numbers
      <3> QED
        BY <1>0, <3>1, <3>2, <3>3 DEF Reading, Checking
    <2>2. CASE ~EmitBlkNum
      <3>1. UNCHANGED <<hb, hbPc, hbBlk, hbOut, fed>> /\ (joined'[hb] = joined[hb])
        <4>1. ASSUME NEW d \in Clients, NEW k \in 0..Len(Body), ReceiptSubReqListen(d, k)
              PROVE  UNCHANGED <<hb, hbPc, hbBlk, hbOut, fed>> /\ (joined'[hb] = joined[hb])
          <5>1. UNCHANGED <<hb, hbPc, hbBlk, hbOut, fed>> /\ pc[d] = "listen"
            BY <4>1 DEF ReceiptSubReqListen, emitter, sent
          <5>2. hb \in Clients /\ hb # d
            BY <1>0, <5>1, EmitterPipe
          <5> QED
            BY <1>0, <4>1, <5>1, <5>2 DEF ReceiptSubReqListen, TypeOK
        <4>2. ASSUME ~\E d \in Clients : \E k \in 0..Len(Body) : ReceiptSubReqListen(d, k)
              PROVE  UNCHANGED <<hb, hbPc, hbBlk, hbOut, fed>> /\ joined' = joined
          <5>1. ~EmitSend /\ ~EmitFail
            BY DEF EmitSend, EmitFail, HeartbeatFree
          <5>2. ~EmitSecState /\ ~\E d \in Clients : EmitSwap(d)
            BY DEF EmitSecState, EmitSwap
          <5> QED
            BY <2>2, <4>2, <5>1, <5>2 DEF Next, BlockWork, AppendBlock, GetReceipts, SubscribedReceiptHandler,
               SkipCancelled, BlockDone, BlockThrow, ReceiptSubReqParse, RequestWork, ReceiptSubReqAddEmitter,
               EmitWork, Terminated, vars, emitter, sent
        <4> QED
          BY <4>1, <4>2
      <3>2. /\ joined[hb] <= hbBlk /\ hbBlk <= Len(chain) /\ hbBlk \in Nat
            /\ Checking => hbBlk < Len(chain)
            /\ \A r \in Range(fed[hb]) \cup Range(hbOut) : r.blk <= hbBlk
        <4>1. hb # NoClient /\ hbPc = "send" /\ hbBlk \in Nat
          BY <1>0, <3>1 DEF TypeOK
        <4> QED
          BY <1>0, <4>1 DEF Reading
      <3>3. hbBlk <= Len(chain') /\ (Checking' => hbBlk < Len(chain'))
        BY <1>0, <3>2, StaysBehind
      <3> QED
        BY <3>1, <3>2, <3>3 DEF Reading
    <2> QED
      BY <2>1, <2>2
  <1> QED
    BY <1>1, <1>2, <1>3 DEF NumberInv

\* The invariant holds throughout.
LEMMA NumberAlways == Spec => []NumberInv
  <1> QED
    BY NumberInit, NumberStep, KeptAlways, PTL DEF Spec

\* No message carries a receipt of a block beyond its own LatestBlkNum: the
\* emitter empties its queue before it reads the number, and the numbers of
\* the blocks only grow.
THEOREM MessagesNotAhead == Spec => []NotAhead
  <1>1. NumberInv => NotAhead
    BY DEF NumberInv, Numbers, NotAhead
  <1> QED
    BY <1>1, NumberAlways, PTL

-----------------------------------------------------------------------------
\* While its listener is there, a client's pipe has every receipt it wanted
\* since it joined, but those of the last block that are still to come.
Complete(c) ==
    c \in subs => \A r \in Receipt : IsWanted(c, r) /\ joined[c] < r.blk =>
        \/ r \in Range(Pipe(c))
        \/ r.blk = Len(chain) /\ (blkPc = "stopped" \/ <<c, r.idx>> \in todo)

\* Receipt r is of a block done, and not beyond a number client c was told.
Settled(c, r) ==
    /\ IsWanted(c, r) /\ r.blk <= Done /\ joined[c] < r.blk
    /\ \E i \in DOMAIN told[c] : r.blk <= told[c][i]

\* The emitter has taken what is settled.
TakenAll ==
    hb # NoClient => \A r \in Receipt : Settled(hb, r) => r \in Range(fed[hb]) \cup Range(hbOut)

ReliableInv ==
    /\ NumberInv
    /\ \A c \in Clients : Complete(c)
    /\ TakenAll
    /\ Reliable

\* The blocks done become more only when one is worked through.
LEMMA DoneStep ==
    ASSUME RunInv, [Next]_vars, NEW n \in Nat, n <= Done'
    PROVE  n <= Done \/ (Checking /\ n <= Len(chain))
  <1>0. Len(chain) \in Nat /\ blkPc \in {"idle", "fetch", "check", "stopped"}
    BY DEF RunInv, TypeOK
  <1>1. ASSUME NEW body \in BlockBodies, AppendBlock(body) PROVE n <= Done
    <2>1. Len(chain') = Len(chain) + 1 /\ blkPc = "idle" /\ blkPc' = "fetch"
      BY <1>1, ChainGrows DEF AppendBlock, RunInv
    <2> QED
      BY <1>0, <2>1 DEF Done
  <1>2. CASE chain' = chain /\ (blkPc' = "idle" => blkPc \in {"idle", "check"})
    BY <1>0, <1>2 DEF Done, Checking
  <1>3. \/ chain' = chain /\ (blkPc' = "idle" => blkPc \in {"idle", "check"})
        \/ \E body \in BlockBodies : AppendBlock(body)
    BY DEF Next, BlockWork, GetReceipts, SubscribedReceiptHandler, SkipCancelled, BlockDone,
       BlockThrow, ReceiptSubReqParse, RequestWork, ReceiptSubReqListen, ReceiptSubReqAddEmitter,
       EmitSwap, EmitWork, EmitSecState, EmitBlkNum, EmitSend, EmitFail, Terminated, vars, block
  <1> QED
    BY <1>1, <1>2, <1>3

\* No step settles a receipt by a number told before.
LEMMA SettledBefore ==
    ASSUME NumberInv, [Next]_vars, NEW c \in Clients, NEW r \in Receipt, NEW i \in DOMAIN told[c],
           IsWanted(c, r)', r.blk <= Done', r.blk <= told[c][i]
    PROVE  IsWanted(c, r) /\ r.blk <= Done
  <1>0. RunInv /\ TypeOK /\ Numbers(c) /\ Len(chain) \in Nat /\ told[c] \in Seq(Nat) /\ r.blk \in Nat
    <2>1. RunInv /\ TypeOK /\ Numbers(c)
      BY DEF NumberInv, KeptInv, RunInv
    <2>2. Len(chain) \in Nat /\ told[c] \in Seq(Nat) /\ r.blk \in Nat
      BY <2>1 DEF TypeOK, Receipt
    <2> QED
      BY <2>1, <2>2
  <1>1. told[c][i] \in Nat /\ told[c][i] <= Len(chain) /\ (Checking => told[c][i] < Len(chain))
    BY <1>0 DEF Numbers
  <1>2. IsWanted(c, r)
    BY <1>0, <1>1, WantedStep
  <1>3. r.blk <= Done \/ Checking
    BY <1>0, DoneStep
  <1>4. r.blk <= Done
    BY <1>0, <1>1, <1>3 DEF Done
  <1> QED
    BY <1>2, <1>4

\* The start satisfies the invariant.
LEMMA ReliableInit == Init => ReliableInv
  <1> QED
    BY NumberInit DEF Init, ReliableInv, Complete, TakenAll, Reliable

\* Every step keeps the pipes complete.
LEMMA CompleteStep ==
    ASSUME ReliableInv, [Next]_vars, NEW c \in Clients
    PROVE  Complete(c)'
  <1>0. RunInv /\ TypeOK /\ Complete(c) /\ Kept(c)
    BY DEF ReliableInv, NumberInv, KeptInv, RunInv
  <1>00. /\ Pipe(c) \in Seq(Receipt) /\ Range(Pipe(c)) \subseteq Receipt /\ Len(chain) \in Nat
         /\ \A r \in Receipt : r.blk \in Nat /\ r.idx \in Nat
         /\ DOMAIN chain = 1..Len(chain)
    BY <1>0, PipeType DEF TypeOK, Receipt
  <1> SUFFICES ASSUME c \in subs', NEW r \in Receipt, IsWanted(c, r)', joined'[c] < r.blk
               PROVE  \/ r \in Range(Pipe(c))'
                      \/ r.blk = Len(chain') /\ (blkPc' = "stopped" \/ <<c, r.idx>> \in todo')
    BY DEF Complete
  <1>1. ASSUME NEW k \in 0..Len(Body), ReceiptSubReqListen(c, k)
        PROVE  FALSE
    <2>1. chain' = chain /\ joined'[c] = Len(chain)
      BY <1>0, <1>1 DEF ReceiptSubReqListen, block, TypeOK
    <2>2. r.blk \in 1..Len(chain)
      BY <1>00, <2>1 DEF IsWanted
    <2> QED
      BY <1>00, <2>1, <2>2
  <1>2. ASSUME NEW body \in BlockBodies, AppendBlock(body)
        PROVE  r \in Range(Pipe(c))' \/ (r.blk = Len(chain') /\ <<c, r.idx>> \in todo')
    <2>1. /\ subs' = subs /\ joined' = joined /\ blkPc = "idle" /\ todo = {}
          /\ todo' = {t \in subs \X DOMAIN body : body[t[2]] \in Wants[t[1]]}
          /\ Pipe(c)' = Pipe(c) /\ chain' = Append(chain, body)
      BY <1>0, <1>2 DEF AppendBlock, RunInv, Checking, Pipe, InFlight, emitter, sent
    <2>2. r.blk \in 1..(Len(chain) + 1) /\ Len(chain') = Len(chain) + 1
      BY <1>0, <1>2, ChainGrows DEF IsWanted
    <2>4. r.blk = Len(chain) + 1 => r.idx \in DOMAIN body /\ body[r.idx] \in Wants[c]
      BY <1>0, <1>00, <2>1 DEF IsWanted, TypeOK
    <2>3. CASE r.blk <= Len(chain)
      <3>1. IsWanted(c, r)
        BY <1>0, <2>3, WantedStep
      <3> QED
        BY <1>0, <2>1, <3>1 DEF Complete
    <2> QED
      BY <1>00, <2>1, <2>2, <2>3, <2>4
  <1>3. ASSUME chain' = chain, c \in subs, joined'[c] = joined[c], ~EmitFail \/ hb # c
        PROVE  \/ r \in Range(Pipe(c))'
               \/ r.blk = Len(chain') /\ (blkPc' = "stopped" \/ <<c, r.idx>> \in todo')
    <2>1. IsWanted(c, r) /\ joined[c] < r.blk
      BY <1>3 DEF IsWanted
    <2>2. Range(Pipe(c)) \subseteq Range(Pipe(c))'
      <3>1. CASE Pipe(c)' = Pipe(c)
        BY <3>1
      <3>2. ASSUME NEW i \in DOMAIN Body, Pipe(c)' = Append(Pipe(c), Here(i))
            PROVE  Range(Pipe(c)) \subseteq Range(Pipe(c))'
        <4>1. Here(i) \in Receipt
          BY <1>0, <1>00, BodiesAssumption DEF Here, Receipt, Body, TypeOK
        <4> QED
          BY <1>00, <3>2, <4>1, IncreasingAppend
      <3> QED
        BY <1>0, <1>3, <3>1, <3>2, PipeStep
    <2>3. CASE r \in Range(Pipe(c))
      BY <2>2, <2>3
    <2>4. CASE r.blk = Len(chain) /\ (blkPc = "stopped" \/ <<c, r.idx>> \in todo)
      <3>1. CASE blkPc' = "stopped"
        BY <1>3, <2>4, <3>1
      <3>2. CASE GetReceipts
        BY <1>3, <2>4, <3>2 DEF GetReceipts
      <3>3. ASSUME NEW i \in DOMAIN Body, SubscribedReceiptHandler(c, i), blkPc' # "stopped"
            PROVE  r \in Range(Pipe(c))' \/ <<c, r.idx>> \in todo'
        <4>1. Pipe(c)' = Append(Pipe(c), Here(i)) /\ Here(i) \in Receipt
          BY <1>0, <3>3, HandlerPipe
        <4>2. Range(Pipe(c))' = Range(Pipe(c)) \cup {Here(i)}
          BY <1>00, <4>1, IncreasingAppend
        <4>3. <<c, r.idx>> \in todo /\ todo' = todo \ {<<c, i>>}
          BY <2>4, <3>3 DEF SubscribedReceiptHandler
        <4>4. r.idx = i => r = Here(i)
          BY <2>4 DEF Here, Receipt
        <4> QED
          BY <4>2, <4>3, <4>4
      <3>4. ASSUME blkPc' # "stopped", ~GetReceipts, ~\E i \in DOMAIN Body : SubscribedReceiptHandler(c, i)
            PROVE  blkPc' = blkPc /\ (<<c, r.idx>> \in todo => <<c, r.idx>> \in todo')
        <4>1. ASSUME BlockWork PROVE blkPc' = blkPc /\ (<<c, r.idx>> \in todo => <<c, r.idx>> \in todo')
          <5>1. CASE BlockDone
            BY <1>0, <2>4, <5>1 DEF BlockDone
          <5>2. ASSUME NEW d \in Clients, NEW i \in DOMAIN Body, SkipCancelled(d, i)
                PROVE  blkPc' = blkPc /\ (<<c, r.idx>> \in todo => <<c, r.idx>> \in todo')
            BY <1>3, <5>2 DEF SkipCancelled, block
          <5>3. ASSUME NEW d \in Clients, NEW i \in DOMAIN Body, SubscribedReceiptHandler(d, i)
                PROVE  blkPc' = blkPc /\ (<<c, r.idx>> \in todo => <<c, r.idx>> \in todo')
            BY <3>4, <5>3 DEF SubscribedReceiptHandler, block
          <5>4. CASE BlockThrow
            BY <3>4, <5>4 DEF BlockThrow
          <5>5. ASSUME NEW body \in BlockBodies, AppendBlock(body) PROVE FALSE
            <6>1. Len(chain') = Len(chain) + 1
              BY <1>0, <5>5, ChainGrows
            <6> QED
              BY <1>00, <1>3, <6>1
          <5> QED
            BY <3>4, <4>1, <5>1, <5>2, <5>3, <5>4, <5>5 DEF BlockWork
        <4>2. ASSUME NEW d \in Clients, NEW k \in 0..Len(Body), ReceiptSubReqListen(d, k)
              PROVE  blkPc' = blkPc /\ (<<c, r.idx>> \in todo => <<c, r.idx>> \in todo')
          BY <4>2 DEF ReceiptSubReqListen, block
        <4>3. ASSUME ~BlockWork, ~\E d \in Clients : \E k \in 0..Len(Body) : ReceiptSubReqListen(d, k)
              PROVE  blkPc' = blkPc /\ todo' = todo
          BY <4>3 DEF Next, ReceiptSubReqParse, RequestWork, ReceiptSubReqAddEmitter, EmitSwap, EmitWork,
             EmitSecState, EmitBlkNum, EmitSend, EmitFail, Terminated, vars, block
        <4> QED
          BY <4>1, <4>2, <4>3
      <3> QED
        BY <1>3, <2>4, <3>1, <3>2, <3>3, <3>4
    <2> QED
      BY <1>0, <1>3, <2>1, <2>3, <2>4 DEF Complete
  <1>4. ~(EmitFail /\ hb = c)
    BY DEF EmitFail, Cancelled
  <1>5. ASSUME ~\E k \in 0..Len(Body) : ReceiptSubReqListen(c, k) PROVE c \in subs /\ joined'[c] = joined[c]
    <2>1. c \in subs
      <3>1. ASSUME NEW d \in Clients, d # c, NEW k \in 0..Len(Body), ReceiptSubReqListen(d, k) PROVE c \in subs
        BY <3>1 DEF ReceiptSubReqListen
      <3>2. CASE EmitFail
        BY <3>2 DEF EmitFail, Cancelled
      <3>3. ASSUME ~EmitFail, ~\E d \in Clients : \E k \in 0..Len(Body) : ReceiptSubReqListen(d, k)
            PROVE  subs' = subs
        BY <3>3 DEF Next, BlockWork, AppendBlock, GetReceipts, SubscribedReceiptHandler, SkipCancelled,
           BlockDone, BlockThrow, ReceiptSubReqParse, RequestWork, ReceiptSubReqAddEmitter,
           EmitSwap, EmitWork, EmitSecState, EmitBlkNum, EmitSend, Terminated, vars
      <3> QED
        BY <1>5, <3>1, <3>2, <3>3
    <2> QED
      BY <1>0, <1>5, <2>1, SentStep
  <1> QED
    BY <1>0, <1>1, <1>2, <1>3, <1>4, <1>5, ChainStep

\* The emitter takes the whole queue, and what it has taken stays with it.
LEMMA TakenStep ==
    ASSUME ReliableInv, [Next]_vars
    PROVE  TakenAll'
  <1>0. RunInv /\ TypeOK /\ KeptInv /\ NumberInv /\ TakenAll
    BY DEF ReliableInv, NumberInv, KeptInv, RunInv
  <1> SUFFICES ASSUME hb' # NoClient, NEW r \in Receipt, Settled(hb, r)'
               PROVE  r \in Range(fed'[hb']) \cup Range(hbOut')
    BY DEF TakenAll
  <1>1. ASSUME NEW c \in Clients, EmitSwap(c) PROVE r \in Range(fed'[hb']) \cup Range(hbOut')
    <2>1. /\ UNCHANGED <<fed, told, joined, chain, blkPc>> /\ hb = NoClient /\ hb' = c /\ hbOut' = queue[c]
          /\ pc[c] = "live"
      BY <1>1 DEF EmitSwap, Taken, sent, block
    <2>2. IsWanted(c, r) /\ r.blk <= Done /\ joined[c] < r.blk
      BY <2>1 DEF Settled, IsWanted, Done
    <2>3. Complete(c) /\ c \in subs
      BY <1>0, <2>1 DEF ReliableInv, RunInv, ServedIffListening
    <2>4. r \in Range(Pipe(c))
      <3>1. Len(chain) \in Nat /\ r.blk \in Nat
        BY <1>0 DEF TypeOK, Receipt
      <3>2. \/ r \in Range(Pipe(c))
            \/ r.blk = Len(chain) /\ (blkPc = "stopped" \/ <<c, r.idx>> \in todo)
        BY <2>2, <2>3 DEF Complete
      <3>3. blkPc = "idle" => todo = {}
        BY <1>0 DEF RunInv, Checking
      <3>4. blkPc # "idle" => r.blk < Len(chain)
        BY <2>2, <3>1 DEF Done
      <3> QED
        BY <3>1, <3>2, <3>3, <3>4
    <2>5. Range(Pipe(c)) = Range(fed[c]) \cup Range(queue[c])
      <3>1. fed[c] \in Seq(Receipt) /\ queue[c] \in Seq(Receipt)
        BY <1>0, PipeType
      <3>2. <<>> \o queue[c] = queue[c]
        BY <3>1
      <3>3. Pipe(c) = fed[c] \o queue[c]
        BY <2>1, <3>2, ClientAssumption DEF Pipe, InFlight
      <3> QED
        BY <3>1, <3>3, RangeParts
    <2> QED
      BY <2>1, <2>4, <2>5
  <1>2. ASSUME ~\E c \in Clients : EmitSwap(c) PROVE r \in Range(fed'[hb']) \cup Range(hbOut')
    <2>1. ~EmitSend /\ ~EmitFail
      BY DEF EmitSend, EmitFail, HeartbeatFree
    <2>2. hb' = hb /\ hbOut' = hbOut
      BY <1>2, <2>1 DEF Next, BlockWork, AppendBlock, GetReceipts, SubscribedReceiptHandler, SkipCancelled,
         BlockDone, BlockThrow, ReceiptSubReqParse, RequestWork, ReceiptSubReqListen, ReceiptSubReqAddEmitter,
         EmitWork, EmitSecState, EmitBlkNum, Terminated, vars, emitter
    <2>3. hb \in Clients /\ pc[hb] = "live"
      BY <1>0, <2>2, EmitterPipe
    <2>4. fed'[hb] = fed[hb] /\ told'[hb] = told[hb] /\ joined'[hb] = joined[hb]
      BY <1>0, <2>1, <2>3, SentStep
    <2>5. PICK i \in DOMAIN told[hb] : r.blk <= told[hb][i]
      BY <2>2, <2>4 DEF Settled
    <2>6. IsWanted(hb, r)' /\ r.blk <= Done' /\ joined[hb] < r.blk
      BY <2>2, <2>4 DEF Settled, IsWanted
    <2>7. IsWanted(hb, r) /\ r.blk <= Done
      <3>1. PICK c \in Clients : c = hb
        BY <2>3
      <3>2. i \in DOMAIN told[c] /\ IsWanted(c, r)' /\ r.blk <= told[c][i]
        BY <2>2, <2>5, <2>6, <3>1 DEF IsWanted
      <3>3. IsWanted(c, r) /\ r.blk <= Done
        BY <1>0, <2>6, <3>2, SettledBefore
      <3> QED
        BY <3>1, <3>3
    <2>8. Settled(hb, r)
      BY <2>5, <2>6, <2>7 DEF Settled
    <2> QED
      BY <1>0, <2>2, <2>4, <2>8 DEF TakenAll
  <1> QED
    BY <1>1, <1>2

\* What a client was sent holds what is settled for it.
LEMMA ReliableStep ==
    ASSUME ReliableInv, [Next]_vars, RunInv'
    PROVE  Reliable'
  <1>0. RunInv /\ TypeOK /\ KeptInv /\ NumberInv /\ TakenAll /\ Reliable
    BY DEF ReliableInv, NumberInv, KeptInv, RunInv
  <1> SUFFICES ASSUME NEW c \in Clients, Len(told'[c]) = 3, NEW r \in Wanted(c)',
                      told'[c][1] < r.blk, r.blk <= told'[c][2]
               PROVE  r \in Range(fed'[c])
    BY DEF Reliable
  <1>1. r \in Receipt /\ IsWanted(c, r)' /\ r.blk <= Done'
    <2>1. PICK n \in 1..Done' : r \in {[blk |-> n, idx |-> i] : i \in DOMAIN chain'[n]}
      BY DEF Wanted
    <2>2. PICK i \in DOMAIN chain'[n] : r = [blk |-> n, idx |-> i]
      BY <2>1
    <2>3. Len(chain') \in Nat /\ DOMAIN chain' = 1..Len(chain') /\ \A m \in DOMAIN chain' : chain'[m] \in BlockBodies
      <3>1. chain' \in Seq(BlockBodies)
        BY DEF RunInv, TypeOK
      <3> QED
        BY <3>1
    <2>4. n \in DOMAIN chain' /\ n \in Nat /\ n <= Done'
      BY <2>1, <2>3 DEF Done
    <2>5. i \in Nat
      BY <2>2, <2>3, <2>4, BodiesAssumption
    <2>6. chain'[r.blk][r.idx] \in Wants[c]
      BY DEF Wanted
    <2>7. r.blk = n /\ r.idx = i
      BY <2>2
    <2> QED
      BY <2>2, <2>4, <2>5, <2>6, <2>7 DEF IsWanted, Receipt
  <1>2. told[c] \in Seq(Nat) /\ Numbers(c)
    BY <1>0 DEF TypeOK, NumberInv
  <1>3. CASE fed'[c] = fed[c] /\ told'[c] = told[c]
    <2>1. 2 \in DOMAIN told[c]
      BY <1>2, <1>3
    <2>2. IsWanted(c, r) /\ r.blk <= Done
      BY <1>0, <1>1, <1>3, <2>1, SettledBefore
    <2>3. r \in Wanted(c)
      BY <1>0, <1>1, <2>2 DEF Wanted, IsWanted, Receipt, Done
    <2> QED
      BY <1>0, <1>3, <2>3 DEF Reliable
  <1>4. CASE /\ EmitSend /\ hb = c /\ joined'[c] = joined[c]
             /\ fed'[c] = fed[c] \o hbOut /\ told'[c] = Remember(told[c], hbBlk)
             /\ chain' = chain /\ blkPc' = blkPc
    <2>1. hbBlk \in Nat /\ hb # NoClient
      BY <1>0, <1>4 DEF TypeOK, EmitSend
    <2>2. /\ 1 \in DOMAIN told[c] /\ Len(told[c]) \in DOMAIN told[c]
          /\ told[c][1] < r.blk /\ r.blk <= told[c][Len(told[c])]
      <3> DEFINE R == Remember(told[c], hbBlk)
      <3>1. Len(R) = 3 => /\ 1 \in DOMAIN told[c] /\ Len(told[c]) \in DOMAIN told[c]
                          /\ R[1] = told[c][1] /\ R[2] = told[c][Len(told[c])]
        BY <1>2, <2>1, Remembered
      <3> HIDE DEF R
      <3>2. told'[c] = R
        BY <1>4 DEF R
      <3> QED
        BY <3>1, <3>2
    <2>3. joined[c] < r.blk
      <3>1. joined[c] <= told[c][1] /\ joined[c] \in Nat /\ told[c][1] \in Nat /\ r.blk \in Nat
        <4>1. joined[c] \in Nat /\ told[c][1] \in Nat
          <5>1. joined[c] \in Nat
            BY <1>0 DEF TypeOK
          <5> QED
            BY <1>2, <2>2, <5>1
        <4>2. joined[c] <= told[c][1]
          BY <1>2, <2>2 DEF Numbers
        <4>3. r.blk \in Nat
          BY <1>1 DEF Receipt
        <4> QED
          BY <4>1, <4>2, <4>3
      <3> QED
        BY <2>2, <3>1
    <2>4. IsWanted(c, r) /\ r.blk <= Done
      BY <1>1, <1>4 DEF IsWanted, Done
    <2>5. Settled(hb, r)
      BY <1>4, <2>2, <2>3, <2>4 DEF Settled
    <2>6. r \in Range(fed[hb]) \cup Range(hbOut)
      BY <1>0, <1>1, <2>1, <2>5 DEF TakenAll
    <2>7. fed[hb] \in Seq(Receipt) /\ hbOut \in Seq(Receipt)
      BY <1>0, <2>1, EmitterPipe
    <2>8. Range(fed[hb] \o hbOut) = Range(fed[hb]) \cup Range(hbOut)
      BY <2>7, RangeParts
    <2> QED
      BY <1>4, <2>6, <2>8
  <1> QED
    BY <1>0, <1>3, <1>4, SentStep

\* The invariant holds throughout.
LEMMA ReliableAlways == Spec => []ReliableInv
  <1>1. ReliableInv /\ [Next]_vars /\ NumberInv' => ReliableInv'
    <2> SUFFICES ASSUME ReliableInv, [Next]_vars, NumberInv'
                 PROVE  ReliableInv'
      OBVIOUS
    <2>1. RunInv'
      BY DEF NumberInv, KeptInv
    <2> QED
      BY <2>1, CompleteStep, TakenStep, ReliableStep DEF ReliableInv
  <1> QED
    BY <1>1, ReliableInit, NumberAlways, PTL DEF Spec

\* A subscriber that knows only the numbers it was told, and not when its
\* listener was added, has every receipt between the first of them and the
\* one before the last, for any number of clients and blocks.
THEOREM ReceiptsReliable == Spec => []Reliable
  <1>1. ReliableInv => Reliable
    BY DEF ReliableInv
  <1> QED
    BY <1>1, ReliableAlways, PTL

-----------------------------------------------------------------------------
(***************************************************************************)
(* EventFeed.  Of what a client wants and its pipe lacks, what lies behind *)
(* some of the pipe lies behind all of it, and is of the last block and    *)
(* still to come, or never will: so the pipe has no hole.                  *)
(***************************************************************************)
\* A receipt of the last block that the listener of client c has not heard.
Unheard(c, r) == r.blk = Len(chain) /\ (blkPc = "stopped" \/ <<c, r.idx>> \in todo)

Filled(c) ==
    /\ \A i, j \in DOMAIN Body :
          <<c, i>> \in todo /\ i < j /\ Body[j] \in Wants[c] => <<c, j>> \in todo
    /\ \A r \in Receipt, f \in Range(Pipe(c)) :
          IsWanted(c, r) /\ r \notin Range(Pipe(c)) /\ Before(f, r) =>
             Unheard(c, r) /\ \A g \in Range(Pipe(c)) : Before(g, r)

\* The number the emitter has read is not below those it told before.
ReadLast ==
    hb # NoClient /\ hbPc = "send" => \A i \in DOMAIN told[hb] : told[hb][i] <= hbBlk

FilledInv == NumberInv /\ ReadLast /\ \A c \in subs : Filled(c)

\* What a step does to a client that is served before and after it.
LEMMA ServedStep ==
    ASSUME RunInv, [Next]_vars, NEW c \in Clients, c \in subs, c \in subs'
    PROVE  \/ \E body \in BlockBodies : AppendBlock(body) /\ Pipe(c)' = Pipe(c)
           \/ \E i \in DOMAIN Body : SubscribedReceiptHandler(c, i) /\ Pipe(c)' = Append(Pipe(c), Here(i))
           \/ /\ chain' = chain /\ Pipe(c)' = Pipe(c)
              /\ \/ /\ blkPc' = blkPc \/ (blkPc = "fetch" /\ blkPc' = "check")
                    /\ \A i : <<c, i>> \in todo' <=> <<c, i>> \in todo
                 \/ blkPc' = "stopped" /\ todo' = {}
                 \/ blkPc = "check" /\ todo = {} /\ todo' = {}
  <1> DEFINE Same == /\ chain' = chain
                     /\ blkPc' = blkPc \/ (blkPc = "fetch" /\ blkPc' = "check")
                     /\ \A i : <<c, i>> \in todo' <=> <<c, i>> \in todo
             Quiet == chain' = chain /\ \/ Same
                                        \/ blkPc' = "stopped" /\ todo' = {}
                                        \/ blkPc = "check" /\ todo = {} /\ todo' = {}
  <1>1. ~(EmitFail /\ hb = c)
    BY DEF EmitFail, Cancelled
  <1>2. ASSUME NEW body \in BlockBodies, AppendBlock(body) PROVE Pipe(c)' = Pipe(c)
    BY <1>2 DEF AppendBlock, Pipe, InFlight, emitter, sent
  <1>4. ASSUME ~\E body \in BlockBodies : AppendBlock(body),
               ~\E i \in DOMAIN Body : SubscribedReceiptHandler(c, i)
        PROVE  Quiet
    <2>1. ASSUME NEW d \in Clients, NEW i \in DOMAIN Body, SubscribedReceiptHandler(d, i) PROVE Same
      BY <1>4, <2>1 DEF SubscribedReceiptHandler, block
    <2>2. ASSUME NEW d \in Clients, NEW i \in DOMAIN Body, SkipCancelled(d, i) PROVE Same
      BY <2>2 DEF SkipCancelled, block
    <2>3. CASE BlockDone
      BY <2>3 DEF BlockDone
    <2>4. CASE BlockThrow
      BY <2>4 DEF BlockThrow
    <2>7. CASE GetReceipts
      BY <2>7 DEF GetReceipts
    <2>5. ASSUME NEW d \in Clients, NEW k \in 0..Len(Body), ReceiptSubReqListen(d, k) PROVE Same
      <3>1. d # c
        BY <2>5 DEF ReceiptSubReqListen, RunInv, ServedIffListening
      <3> QED
        BY <2>5, <3>1 DEF ReceiptSubReqListen, block
    <2>6. ASSUME ~BlockWork, ~\E d \in Clients : \E k \in 0..Len(Body) : ReceiptSubReqListen(d, k)
          PROVE  Same
      BY <2>6 DEF Next, ReceiptSubReqParse, RequestWork, ReceiptSubReqAddEmitter, EmitSwap, EmitWork,
         EmitSecState, EmitBlkNum, EmitSend, EmitFail, Terminated, vars, block
    <2> QED
      BY <1>4, <2>1, <2>2, <2>3, <2>4, <2>5, <2>6, <2>7 DEF BlockWork
  <1>5. ASSUME NEW i \in DOMAIN Body, SubscribedReceiptHandler(c, i)
        PROVE  Pipe(c)' = Append(Pipe(c), Here(i))
    BY <1>5, HandlerPipe DEF RunInv
  <1>6. CASE \E i \in DOMAIN Body : SubscribedReceiptHandler(c, i)
    BY <1>5, <1>6
  <1>7. CASE ~\E i \in DOMAIN Body : SubscribedReceiptHandler(c, i)
    <2>1. Pipe(c)' = Pipe(c)
      BY <1>1, <1>7, PipeStep
    <2> QED
      BY <1>4, <1>7, <2>1
  <1> QED
    BY <1>6, <1>7

\* What is in the pipe is of a block that is there.
LEMMA PipeOnChain ==
    ASSUME KeptInv, NEW c \in Clients
    PROVE  /\ \A r \in Range(Pipe(c)) : r \in Receipt /\ r.blk \in Nat /\ r.idx \in Nat /\ r.blk <= Len(chain)
           /\ Len(chain) \in Nat /\ DOMAIN chain = 1..Len(chain) /\ DOMAIN Body \subseteq Nat
           /\ chain # <<>> => Body = chain[Len(chain)]
  <1>1. TypeOK /\ Kept(c)
    BY DEF KeptInv, RunInv
  <1>2. Len(chain) \in Nat /\ DOMAIN chain = 1..Len(chain)
    BY <1>1 DEF TypeOK
  <1>3. DOMAIN Body \subseteq Nat /\ (chain # <<>> => Body = chain[Len(chain)])
    BY <1>1, BodiesAssumption DEF Body, TypeOK
  <1>4. \A r \in Range(Pipe(c)) : r \in Receipt /\ r.blk \in DOMAIN chain
    BY <1>1, PipeType DEF Kept, IsWanted
  <1>5. \A r \in Receipt : r.blk \in Nat /\ r.idx \in Nat
    BY DEF Receipt
  <1> QED
    BY <1>2, <1>3, <1>4, <1>5

\* A callback puts the next receipt behind the pipe.
LEMMA FilledHandler ==
    ASSUME FilledInv, NEW c \in Clients, c \in subs, NEW i \in DOMAIN Body,
           SubscribedReceiptHandler(c, i), Pipe(c)' = Append(Pipe(c), Here(i))
    PROVE  Filled(c)'
  <1>0. KeptInv /\ RunInv /\ TypeOK /\ Kept(c) /\ Filled(c)
    BY DEF FilledInv, NumberInv, KeptInv, RunInv
  <1>1. /\ chain' = chain /\ blkPc = "check" /\ blkPc' = blkPc /\ Body' = Body
        /\ todo' = todo \ {<<c, i>>} /\ <<c, i>> \in todo
        /\ \A j \in DOMAIN Body : <<c, j>> \in todo => i <= j
    BY DEF SubscribedReceiptHandler, IsNext, block, Body
  <1>2. DOMAIN Body \subseteq Nat /\ Len(chain) \in Nat /\ chain # <<>> /\ DOMAIN chain = 1..Len(chain)
        /\ Body = chain[Len(chain)]
    BY <1>0, <1>1, PipeOnChain DEF RunInv
  <1> DEFINE x == Here(i)
  <1>3. x \in Receipt /\ x.blk = Len(chain) /\ x.idx = i
    BY <1>2 DEF Here, Receipt
  <1>4. Range(Pipe(c))' = Range(Pipe(c)) \cup {x}
    BY <1>0, <1>3, PipeType, IncreasingAppend
  <1>5. \A g \in Range(Pipe(c)) : Before(g, x)
    BY <1>0, <1>1 DEF Kept
  <1> HIDE DEF x
  <1>6. \A j, k \in DOMAIN Body : <<c, j>> \in todo' /\ j < k /\ Body[k] \in Wants[c] => <<c, k>> \in todo'
    <2> SUFFICES ASSUME NEW j \in DOMAIN Body, NEW k \in DOMAIN Body, <<c, j>> \in todo', j < k, Body[k] \in Wants[c]
                 PROVE  <<c, k>> \in todo'
      OBVIOUS
    <2>1. <<c, k>> \in todo
      BY <1>0, <1>1 DEF Filled
    <2>2. i <= j
      BY <1>1
    <2> QED
      BY <1>1, <1>2, <2>1, <2>2
  <1>7. ASSUME NEW r \in Receipt, NEW f \in Range(Pipe(c))', IsWanted(c, r), r \notin Range(Pipe(c))', Before(f, r)
        PROVE  /\ r.blk = Len(chain) /\ <<c, r.idx>> \in todo'
               /\ \A g \in Range(Pipe(c))' : Before(g, r)
    <2>0. r.blk \in 1..Len(chain) /\ r.idx \in Nat
      BY <1>2, <1>7 DEF IsWanted, Receipt
    <2>1. r.blk = Len(chain) /\ <<c, r.idx>> \in todo /\ i < r.idx
      <3>1. CASE f = x
        <4>1. r.blk = Len(chain) /\ i < r.idx
          BY <1>2, <1>3, <1>7, <2>0, <3>1 DEF Before
        <4>2. r.idx \in DOMAIN Body /\ Body[r.idx] \in Wants[c]
          BY <1>2, <1>7, <4>1 DEF IsWanted
        <4>3. <<c, r.idx>> \in todo
          BY <1>0, <1>1, <4>1, <4>2 DEF Filled
        <4> QED
          BY <4>1, <4>3
      <3>2. CASE f \in Range(Pipe(c))
        <4>1. Unheard(c, r)
          BY <1>0, <1>4, <1>7, <3>2 DEF Filled
        <4>2. r.blk = Len(chain) /\ <<c, r.idx>> \in todo
          BY <1>1, <4>1 DEF Unheard
        <4>3. r.idx \in DOMAIN Body /\ i <= r.idx
          BY <1>0, <1>1, <4>2 DEF RunInv
        <4>4. r.idx # i
          BY <1>3, <1>4, <1>7, <4>2 DEF Receipt
        <4> QED
          BY <1>2, <2>0, <4>2, <4>3, <4>4
      <3> QED
        BY <1>4, <3>1, <3>2
    <2>2. Before(x, r)
      BY <1>3, <2>1 DEF Before
    <2>3. ASSUME NEW g \in Range(Pipe(c)) PROVE Before(g, r)
      <3>1. Before(g, x) /\ g.blk \in Nat /\ g.idx \in Nat
        BY <1>0, <1>5, PipeOnChain
      <3> QED
        BY <1>2, <1>3, <2>0, <2>1, <3>1 DEF Before
    <2>4. r.idx # i
      BY <1>2, <2>0, <2>1
    <2>5. <<c, r.idx>> \in todo'
      BY <1>1, <2>1, <2>4
    <2>6. \A g \in Range(Pipe(c))' : Before(g, r)
      BY <1>4, <2>2, <2>3
    <2> QED
      BY <2>1, <2>5, <2>6
  <1>8. \A r \in Receipt : IsWanted(c, r)' <=> IsWanted(c, r)
    BY <1>1 DEF IsWanted
  <1> QED
    BY <1>1, <1>6, <1>7, <1>8 DEF Filled, Unheard

\* Every step keeps the pipes filled.
LEMMA FilledStep ==
    ASSUME FilledInv, [Next]_vars, NEW c \in Clients, c \in subs'
    PROVE  Filled(c)'
  <1>0. KeptInv /\ RunInv /\ TypeOK /\ Kept(c) /\ (c \in subs => Filled(c))
    BY DEF FilledInv, NumberInv, KeptInv, RunInv
  <1>00. /\ \A r \in Range(Pipe(c)) : r \in Receipt /\ r.blk \in Nat /\ r.idx \in Nat /\ r.blk <= Len(chain)
         /\ Len(chain) \in Nat /\ DOMAIN chain = 1..Len(chain) /\ DOMAIN Body \subseteq Nat
         /\ chain # <<>> => Body = chain[Len(chain)]
    BY <1>0, PipeOnChain
  <1>1. CASE c \notin subs
    <2>1. PICK k \in 0..Len(Body) : ReceiptSubReqListen(c, k)
      <3>1. ASSUME ~\E d \in Clients : \E k \in 0..Len(Body) : ReceiptSubReqListen(d, k)
            PROVE  subs' \subseteq subs
        BY <3>1 DEF Next, BlockWork, AppendBlock, GetReceipts, SubscribedReceiptHandler, SkipCancelled,
           BlockDone, BlockThrow, ReceiptSubReqParse, RequestWork, ReceiptSubReqAddEmitter,
           EmitSwap, EmitWork, EmitSecState, EmitBlkNum, EmitSend, EmitFail, Cancelled, Terminated, vars
      <3>2. ASSUME NEW d \in Clients, NEW k \in 0..Len(Body), ReceiptSubReqListen(d, k)
            PROVE  d = c
        BY <1>1, <3>2 DEF ReceiptSubReqListen
      <3> QED
        BY <1>1, <3>1, <3>2
    <2>2. /\ pc[c] = "listen" /\ Body' = Body
          /\ todo' = IF Checking
                     THEN todo \cup {<<c, i>> : i \in {j \in DOMAIN Body : j > k /\ Body[j] \in Wants[c]}}
                     ELSE todo
          /\ UNCHANGED <<fed, queue, hb, hbOut>>
      BY <2>1 DEF ReceiptSubReqListen, block, emitter, sent, Body
    <2>3. Pipe(c)' = Pipe(c) /\ Range(Pipe(c)) = {} /\ \A i \in DOMAIN Body : <<c, i>> \notin todo
      BY <1>0, <2>2 DEF Pipe, InFlight, Kept
    <2>4. \A i \in DOMAIN Body : <<c, i>> \in todo' <=> Checking /\ i > k /\ Body[i] \in Wants[c]
      BY <2>2, <2>3
    <2>5. \A i, j \in DOMAIN Body : i > k /\ i < j => j > k
      BY <1>00
    <2>6. \A i, j \in DOMAIN Body : <<c, i>> \in todo' /\ i < j /\ Body[j] \in Wants[c] => <<c, j>> \in todo'
      BY <2>4, <2>5
    <2> QED
      BY <2>2, <2>3, <2>6 DEF Filled
  <1>2. ASSUME c \in subs, NEW body \in BlockBodies, AppendBlock(body), Pipe(c)' = Pipe(c) PROVE Filled(c)'
    <2>1. /\ blkPc = "idle" /\ todo = {} /\ chain' = Append(chain, body)
          /\ todo' = {t \in subs \X DOMAIN body : body[t[2]] \in Wants[t[1]]}
      BY <1>0, <1>2 DEF AppendBlock, RunInv, Checking
    <2>2. Len(chain') = Len(chain) + 1 /\ DOMAIN chain' = 1..(Len(chain) + 1)
      BY <1>0, <1>2, ChainGrows
    <2>b. chain'[Len(chain')] = body /\ Body' = body
      BY <1>0, <1>2, AppendedBody
    <2>t. \A i : <<c, i>> \in todo' <=> i \in DOMAIN body /\ body[i] \in Wants[c]
      BY <1>2, <2>1
    <2>3. ASSUME NEW r \in Receipt, NEW f \in Range(Pipe(c)), IsWanted(c, r)', r \notin Range(Pipe(c)), Before(f, r)
          PROVE  r.blk = Len(chain')
      <3>1. CASE r.blk <= Len(chain)
        <4>1. IsWanted(c, r)
          BY <1>0, <2>3, <3>1, WantedStep
        <4>2. Unheard(c, r)
          BY <1>0, <1>2, <2>3, <4>1 DEF Filled
        <4> QED
          BY <2>1, <4>2 DEF Unheard
      <3>2. r.blk \in 1..(Len(chain) + 1)
        BY <2>2, <2>3 DEF IsWanted
      <3> QED
        BY <1>00, <2>2, <3>1, <3>2
    <2>4. \A r \in Receipt, g \in Range(Pipe(c)) : r.blk = Len(chain') => Before(g, r)
      BY <1>00, <2>2 DEF Before
    <2>5. \A r \in Receipt : IsWanted(c, r)' /\ r.blk = Len(chain') => <<c, r.idx>> \in todo'
      BY <2>b, <2>t DEF IsWanted
    <2> QED
      BY <1>2, <2>b, <2>t, <2>3, <2>4, <2>5 DEF Filled, Unheard
  <1>4. ASSUME c \in subs, chain' = chain, Pipe(c)' = Pipe(c),
               \/ /\ blkPc' = blkPc \/ (blkPc = "fetch" /\ blkPc' = "check")
                  /\ \A i : <<c, i>> \in todo' <=> <<c, i>> \in todo
               \/ blkPc' = "stopped" /\ todo' = {}
               \/ blkPc = "check" /\ todo = {} /\ todo' = {}
        PROVE  Filled(c)'
    <2>1. Body' = Body
      BY <1>4 DEF Body
    <2>2. \A r \in Receipt : IsWanted(c, r)' <=> IsWanted(c, r)
      BY <1>4 DEF IsWanted
    <2>3. \A r \in Receipt : Unheard(c, r) => Unheard(c, r)'
      BY <1>4 DEF Unheard
    <2> QED
      BY <1>0, <1>4, <2>1, <2>2, <2>3 DEF Filled
  <1>5. CASE c \in subs
    BY <1>0, <1>2, <1>4, <1>5, FilledHandler, ServedStep
  <1> QED
    BY <1>1, <1>5

\* An emitter reads the number of the last block, and no number told is above.
LEMMA ReadLastStep ==
    ASSUME NumberInv, ReadLast, [Next]_vars
    PROVE  ReadLast'
  <1>0. KeptInv /\ RunInv /\ TypeOK /\ lastBlk = Len(chain)
    BY DEF NumberInv, KeptInv, RunInv
  <1> SUFFICES ASSUME hb' # NoClient, hbPc' = "send"
               PROVE  \A i \in DOMAIN told'[hb'] : told'[hb'][i] <= hbBlk'
    BY DEF ReadLast
  <1>1. CASE EmitBlkNum
    <2>1. hb # NoClient /\ hb' = hb /\ told' = told /\ hbBlk' = lastBlk
      BY <1>1 DEF EmitBlkNum, sent
    <2>2. hb \in Clients
      BY <1>0, <2>1 DEF TypeOK
    <2>3. Numbers(hb)
      BY <2>2 DEF NumberInv
    <2> QED
      BY <1>0, <2>1, <2>3 DEF Numbers
  <1>2. CASE ~EmitBlkNum
    <2>1. ~EmitSend /\ ~EmitFail
      BY DEF EmitSend, EmitFail, HeartbeatFree
    <2>2. ~EmitSecState /\ ~\E d \in Clients : EmitSwap(d)
      BY DEF EmitSecState, EmitSwap
    <2>3. UNCHANGED <<hb, hbPc, hbBlk, told>>
      BY <1>2, <2>1, <2>2 DEF Next, BlockWork, AppendBlock, GetReceipts, SubscribedReceiptHandler,
         SkipCancelled, BlockDone, BlockThrow, ReceiptSubReqParse, RequestWork, ReceiptSubReqListen,
         ReceiptSubReqAddEmitter, EmitWork, Terminated, vars, emitter, sent
    <2> QED
      BY <2>3 DEF ReadLast
  <1> QED
    BY <1>1, <1>2

\* The invariant holds throughout.
LEMMA FilledAlways == Spec => []FilledInv
  <1>1. Init => FilledInv
    BY NumberInit DEF Init, FilledInv, ReadLast
  <1>2. FilledInv /\ [Next]_vars /\ NumberInv' => FilledInv'
    <2> SUFFICES ASSUME FilledInv, [Next]_vars, NumberInv'
                 PROVE  FilledInv'
      OBVIOUS
    <2>1. subs' \subseteq Clients
      BY DEF NumberInv, KeptInv, RunInv, TypeOK
    <2>2. ReadLast'
      BY ReadLastStep DEF FilledInv
    <2>3. \A c \in subs' : Filled(c)'
      BY <2>1, FilledStep
    <2> QED
      BY <2>2, <2>3 DEF FilledInv
  <1> QED
    BY <1>1, <1>2, NumberAlways, PTL DEF Spec

\* The receipts on the chain, one by one.
LogMeaning ==
    TypeOK => \A logs : \A r : r \in LogOf(logs) <=>
        /\ r \in Receipt /\ r.blk \in DOMAIN chain /\ r.idx \in DOMAIN chain[r.blk]
        /\ chain[r.blk][r.idx] \in logs

LEMMA LogMeans == LogMeaning
  <1> SUFFICES ASSUME TypeOK, NEW logs, NEW r
               PROVE  r \in LogOf(logs) <=>
                        /\ r \in Receipt /\ r.blk \in DOMAIN chain /\ r.idx \in DOMAIN chain[r.blk]
                        /\ chain[r.blk][r.idx] \in logs
    BY DEF LogMeaning
  <1>1. \A n \in DOMAIN chain : n \in Nat /\ DOMAIN chain[n] \subseteq Nat
    BY BodiesAssumption DEF TypeOK
  <1>2. r \in UNION {{[blk |-> n, idx |-> i] : i \in DOMAIN chain[n]} : n \in DOMAIN chain} <=>
            r \in Receipt /\ r.blk \in DOMAIN chain /\ r.idx \in DOMAIN chain[r.blk]
    BY <1>1 DEF Receipt
  <1> QED
    BY <1>2 DEF LogOf

\* A pipe is a stretch of what its client wants, and so is its beginning.
LEMMA StretchBegin ==
    ASSUME FilledInv, NEW c \in subs, NEW s \in Seq(Receipt), NEW t \in Seq(Receipt), Pipe(c) = s \o t
    PROVE  Feed!Stretch(s, LogOf(Wants[c]))
  <1>0. KeptInv /\ TypeOK /\ c \in Clients /\ Filled(c)
    BY DEF FilledInv, NumberInv, KeptInv, RunInv, TypeOK
  <1>1. Kept(c)
    BY <1>0 DEF KeptInv
  <1>2. /\ Len(s) \in Nat /\ DOMAIN s = 1..Len(s) /\ DOMAIN Pipe(c) = 1..(Len(s) + Len(t)) /\ Len(t) \in Nat
        /\ \A i \in DOMAIN s : i \in DOMAIN Pipe(c) /\ Pipe(c)[i] = s[i]
    BY ConcatAt
  <1>3. /\ \A i, j \in DOMAIN Pipe(c) : i < j => Before(Pipe(c)[i], Pipe(c)[j])
        /\ \A i \in DOMAIN Pipe(c) : Pipe(c)[i] \in Range(Pipe(c))
        /\ \A r \in Range(Pipe(c)) : /\ r \in LogOf(Wants[c]) /\ r \in Receipt
                                     /\ r.blk \in Nat /\ r.idx \in Nat
                                     /\ \E k \in DOMAIN Pipe(c) : r = Pipe(c)[k]
    <2>1. \A r \in Range(Pipe(c)) : r \in LogOf(Wants[c])
      BY <1>0, <1>1, PipeOnChain, LogMeans DEF LogMeaning, Kept, IsWanted
    <2>2. \A i, j \in DOMAIN Pipe(c) : i < j => Before(Pipe(c)[i], Pipe(c)[j])
      BY <1>1 DEF Kept, Increasing
    <2> QED
      BY <1>0, <2>1, <2>2, PipeOnChain DEF Range
  <1>4. \A e \in LogOf(Wants[c]) : e \in Receipt /\ IsWanted(c, e) /\ e.blk \in Nat /\ e.idx \in Nat
    BY <1>0, LogMeans DEF LogMeaning, IsWanted, Receipt
  <1>5. ASSUME NEW e \in LogOf(Wants[c]), NEW i \in DOMAIN s, NEW j \in DOMAIN s, Before(s[i], e), Before(e, s[j])
        PROVE  e \in Range(s)
    <2>1. s[i] \in Range(Pipe(c)) /\ s[j] \in Range(Pipe(c)) /\ s[j].blk \in Nat /\ s[j].idx \in Nat
      BY <1>2, <1>3
    <2>2. ~Before(s[j], e)
      BY <1>4, <1>5, <2>1 DEF Before
    <2>3. e \in Range(Pipe(c))
      BY <1>0, <1>4, <1>5, <2>1, <2>2 DEF Filled
    <2>4. PICK k \in DOMAIN Pipe(c) : e = Pipe(c)[k]
      BY <1>3, <2>3
    <2>5. ~(j < k)
      BY <1>2, <1>3, <2>2, <2>4
    <2>6. k \in DOMAIN s /\ e = s[k]
      BY <1>2, <2>4, <2>5
    <2> QED
      BY <2>6 DEF Range
  <1>6. \A i \in DOMAIN s : s[i] \in LogOf(Wants[c])
    BY <1>2, <1>3
  <1>7. \A i, j \in DOMAIN s : i < j => Before(s[i], s[j])
    BY <1>2, <1>3
  <1> QED
    BY <1>5, <1>6, <1>7 DEF Feed!Stretch, Feed!InOrder, Feed!Before, Feed!Range, Before, Range

\* The last number a client was told, as EventFeed has it.
LastTold(c) == IF told[c] = <<>> THEN 0 ELSE told[c][Len(told[c])]

\* A message carries on with a stretch of what the client wants.
LEMMA SendFeeds ==
    ASSUME FilledInv, NEW c \in Clients, hb = c, EmitSend
    PROVE  Feed!Send(c)
  <1>0. NumberInv /\ KeptInv /\ RunInv /\ TypeOK /\ Reading
    BY DEF FilledInv, NumberInv, KeptInv, RunInv
  <1>1. /\ hb = c /\ hb # NoClient /\ hbPc = "send" /\ chain' = chain
        /\ fed' = [fed EXCEPT ![c] = fed[c] \o hbOut]
        /\ told' = [told EXCEPT ![c] = Remember(told[c], hbBlk)]
    BY DEF EmitSend, block
  <1>2. /\ c \in subs /\ fed[c] \in Seq(Receipt) /\ hbOut \in Seq(Receipt)
        /\ queue[c] \in Seq(Receipt) /\ fed[c] \o hbOut \in Seq(Receipt)
        /\ hbBlk \in Nat /\ told[c] \in Seq(Nat)
    BY <1>0, <1>1, EmitterPipe DEF TypeOK
  <1>3. fed'[c] = fed[c] \o hbOut /\ told'[c] = Remember(told[c], hbBlk)
    BY <1>0, <1>1, <1>2 DEF TypeOK
  <1>4. Feed!Stretch(fed'[c], LogOf(Wants[c]))
    <2> DEFINE s == fed[c] \o hbOut
               t == queue[c]
    <2>1. Pipe(c) = s \o t
      <3>1. Pipe(c) = fed[c] \o (hbOut \o t)
        BY DEF Pipe, InFlight
      <3>2. \A u, v, w \in Seq(Receipt) : u \o (v \o w) = (u \o v) \o w
        OBVIOUS
      <3> QED
        BY <1>2, <3>1, <3>2
    <2>2. s \in Seq(Receipt) /\ t \in Seq(Receipt) /\ fed'[c] = s
      BY <1>2, <1>3
    <2> HIDE DEF s, t
    <2> QED
      BY <1>2, <2>1, <2>2, StretchBegin
  <1>5. \E n \in 0..Len(fed'[c]) : fed[c] = SubSeq(fed'[c], 1, n)
    <2>1. \A u, v \in Seq(Receipt) : Len(u) \in 0..Len(u \o v) /\ u = SubSeq(u \o v, 1, Len(u))
      OBVIOUS
    <2> QED
      BY <1>2, <1>3, <2>1
  <1>6. LastTold(c)' = hbBlk
    <2> DEFINE R == Remember(told[c], hbBlk)
    <2>1. R # <<>> /\ R[Len(R)] = hbBlk
      BY <1>2, Remembered
    <2> HIDE DEF R
    <2>2. told'[c] = R
      BY <1>3 DEF R
    <2> QED
      BY <2>1, <2>2 DEF LastTold
  <1>7. LastTold(c) <= hbBlk
    <2>1. told[c] # <<>> => Len(told[c]) \in DOMAIN told[c]
      BY <1>2
    <2>2. \A i \in DOMAIN told[c] : told[c][i] <= hbBlk
      BY <1>1 DEF FilledInv, ReadLast
    <2> QED
      BY <1>2, <2>1, <2>2 DEF LastTold
  <1>8. \A e \in Range(fed'[c]) : e.blk <= hbBlk
    <2>1. \A r \in Range(fed[c]) \cup Range(hbOut) : r.blk <= hbBlk
      BY <1>0, <1>1 DEF Reading
    <2>2. Range(fed[c] \o hbOut) = Range(fed[c]) \cup Range(hbOut)
      BY <1>2, RangeParts
    <2> QED
      BY <1>3, <2>1, <2>2
  <1>9. \A d \in Clients \ {c} : fed'[d] = fed[d] /\ LastTold(d)' = LastTold(d)
    BY <1>0, <1>1 DEF TypeOK, LastTold
  <1>10. UNCHANGED [logs \in {Wants[d] : d \in Clients} |-> LogOf(logs)]
    BY <1>1 DEF LogOf
  <1>11. [logs \in {Wants[d] : d \in Clients} |-> LogOf(logs)][Wants[c]] = LogOf(Wants[c])
    BY <1>2
  <1> QED
    BY <1>2, <1>4, <1>5, <1>6, <1>7, <1>8, <1>9, <1>10, <1>11 DEF Feed!Send, Feed!Range, Range, LastTold

\* A block publishes its receipts, behind those of the blocks before.
LEMMA AppendPublishes ==
    ASSUME FilledInv, NumberInv', NEW body \in BlockBodies, AppendBlock(body)
    PROVE  Feed!Publish
  <1>1. TypeOK /\ TypeOK'
    BY DEF FilledInv, NumberInv, KeptInv, RunInv
  <1>2. LogMeaning'
    BY LogMeans, PTL
  <1>3. /\ Len(chain) \in Nat /\ DOMAIN chain = 1..Len(chain) /\ DOMAIN chain' = 1..(Len(chain) + 1)
        /\ \A n \in 1..Len(chain) : chain'[n] = chain[n]
    BY <1>1, ChainGrows
  <1>4. \A n \in DOMAIN chain : n \in DOMAIN chain' /\ n <= Len(chain) /\ n \in Nat
    BY <1>3
  <1>5. ASSUME NEW logs
        PROVE  /\ LogOf(logs) \subseteq LogOf(logs)'
               /\ \A e \in LogOf(logs), f \in LogOf(logs)' \ LogOf(logs) : Before(e, f)
    <2>1. \A r : r \in LogOf(logs) <=>
            /\ r \in Receipt /\ r.blk \in DOMAIN chain /\ r.idx \in DOMAIN chain[r.blk]
            /\ chain[r.blk][r.idx] \in logs
      BY <1>1, LogMeans DEF LogMeaning
    <2>2. \A r : r \in LogOf(logs)' <=>
            /\ r \in Receipt /\ r.blk \in DOMAIN chain' /\ r.idx \in DOMAIN chain'[r.blk]
            /\ chain'[r.blk][r.idx] \in logs
      BY <1>1, <1>2 DEF LogMeaning
    <2>3. LogOf(logs) \subseteq LogOf(logs)'
      BY <1>3, <1>4, <2>1, <2>2
    <2>4. ASSUME NEW f \in LogOf(logs)' \ LogOf(logs) PROVE f.blk = Len(chain) + 1
      <3>1. f \in Receipt /\ f.blk \in 1..(Len(chain) + 1)
        BY <1>3, <2>2
      <3>2. f.blk \notin 1..Len(chain)
        BY <1>3, <2>1, <2>2, <2>4
      <3> QED
        BY <1>3, <3>1, <3>2
    <2>5. \A e \in LogOf(logs) : e.blk \in 1..Len(chain)
      BY <1>3, <2>1
    <2> QED
      BY <1>3, <2>3, <2>4, <2>5 DEF Before
  <1>6. \A logs \in {Wants[c] : c \in Clients} :
            /\ [t \in {Wants[c] : c \in Clients} |-> LogOf(t)][logs] = LogOf(logs)
            /\ [t \in {Wants[c] : c \in Clients} |-> LogOf(t)]'[logs] = LogOf(logs)'
    OBVIOUS
  <1>7. UNCHANGED <<fed, told>>
    BY DEF AppendBlock, sent
  <1> QED
    BY <1>5, <1>6, <1>7 DEF Feed!Publish, Feed!Before, Before

\* Every step is one of EventFeed, or is not seen by subscribers.
LEMMA FeedSimulation == FilledInv /\ NumberInv' /\ [Next]_vars => [Feed!Next]_(Feed!vars)
  <1> SUFFICES ASSUME FilledInv, NumberInv', [Next]_vars
               PROVE  [Feed!Next]_(Feed!vars)
    OBVIOUS
  <1>1. ASSUME NEW body \in BlockBodies, AppendBlock(body) PROVE Feed!Next
    BY <1>1, AppendPublishes DEF Feed!Next
  <1>2. CASE EmitSend
    <2>1. hb \in Clients
      BY <1>2 DEF EmitSend, FilledInv, NumberInv, KeptInv, RunInv, TypeOK
    <2> QED
      BY <1>2, <2>1, SendFeeds DEF Feed!Next
  <1>3. ASSUME ~EmitSend, ~\E body \in BlockBodies : AppendBlock(body)
        PROVE  UNCHANGED <<chain, fed, told>>
    BY <1>3 DEF Next, BlockWork, GetReceipts, SubscribedReceiptHandler, SkipCancelled, BlockDone, BlockThrow,
       ReceiptSubReqParse, RequestWork, ReceiptSubReqListen, ReceiptSubReqAddEmitter, EmitSwap, EmitWork,
       EmitSecState, EmitBlkNum, EmitFail, Terminated, vars, block, sent
  <1>4. UNCHANGED <<chain, fed, told>> => UNCHANGED Feed!vars
    BY DEF Feed!vars, LogOf
  <1> QED
    BY <1>1, <1>2, <1>3, <1>4

\* A subscriber to receipts sees an EventFeed: from the first receipt it was
\* sent to the last, every one on the chain it asked for, each once, in order,
\* under numbers that cover them, for any number of clients and blocks and any
\* interleaving of the threads.
THEOREM ReceiptFeedImplemented == Spec => FeedSpec
  <1>1. Init => Feed!Init
    BY DEF Init, Feed!Init, LogOf
  <1> QED
    BY <1>1, FeedSimulation, FilledAlways, NumberAlways, PTL DEF Spec, FeedSpec, Feed!Spec
=============================================================================
