------------------------- MODULE GethRequesterProofs -------------------------
(***************************************************************************)
(* Proofs about GethRequester, for all transactions, hashes, bodies and    *)
(* codecs: a hash that reaches the caller is that of a transaction Geth    *)
(* has taken, and a caller gets what the answer means.                     *)
(***************************************************************************)
EXTENDS GethRequester, TLAPS

\* A hash that answers a transaction is its own, and Geth has taken it.
SendAnswered ==
    pc = "answered" /\ call.op = "send" =>
        /\ Digest(reply.body) \subseteq {Hash[call.tx]}
        /\ Digest(reply.body) # {} => call.tx \in pool

SendInv == SendAnswered /\ SentKnown

\* The parser makes a hash of a string of that length and of nothing else.
LEMMA HashOnly ==
  ASSUME NEW body, NEW h \in ProcRespSingleBytesArray(body)
  PROVE  body.kind = "str" /\ h \in Digest(body)
  BY DEF ProcRespSingleBytesArray, ProcRespSingleBytes, AsString, DecodeHexStr, Digest

\* The host has a hash only of a transaction that Geth has taken.
LEMMA PostReturnsHash ==
  ASSUME SendAnswered, pc = "answered", call.op = "send", NEW h \in PostRequest
  PROVE  call.tx \in pool /\ h = Hash[call.tx]
  <1>1. h \in ProcRespSingleBytesArray(LoadStr)
    BY DEF PostRequest, Process
  <1>2. LoadStr.kind = "str" /\ h \in Digest(LoadStr)
    BY <1>1, HashOnly
  <1>3. LoadStr = reply.body
    BY <1>2 DEF LoadStr, Garbage
  <1> QED
    BY <1>2, <1>3 DEF SendAnswered

\* What the OCALL hands back is what the host had.
LEMMA CallerHasResult ==
  ASSUME NEW result, NEW v \in AtCaller(result)
  PROVE  v \in result
  <1>1. CASE call.op \in Enclaves
    <2>1. result # {} /\ v = CHOOSE w \in result : TRUE
      BY <1>1 DEF AtCaller, OcallReturns, Success, OutParameter
    <2> QED
      BY <2>1
  <1>2. CASE call.op \notin Enclaves
    BY <1>2 DEF AtCaller
  <1> QED
    BY <1>1, <1>2

\* Each step keeps the invariant.
LEMMA SendStep == SendInv /\ [Next]_vars => SendInv'
  <1> SUFFICES ASSUME SendInv, [Next]_vars PROVE SendInv'
    OBVIOUS
  <1> USE DEF SendInv
  <1>1. CASE \E op \in Hosts \cup Enclaves, t \in Txns : Call(op, t)
    BY <1>1 DEF Call, SendAnswered, SentKnown
  <1>2. CASE GethStep
    <2>1. PICK body \in Answers, code \in {200, 500}, n \in 1..MaxPieces :
              GethAnswers(body, code, n)
      BY <1>2 DEF GethStep
    <2>2. /\ reply' = [body |-> body, code |-> code, pieces |-> n]
          /\ call' = call /\ pc' = "answered" /\ pool' \in Takes(body)
      BY <2>1 DEF GethAnswers
    <2>3. CASE call.op = "send"
      <3>1. Digest(body) \subseteq {Hash[call.tx]}
        BY <2>3 DEF Answers
      <3>2. Digest(body) # {} => call.tx \in pool'
        BY <2>2, <2>3 DEF Takes
      <3> QED
        BY <2>2, <3>1, <3>2 DEF SendAnswered, SentKnown
    <2> QED
      BY <2>2, <2>3 DEF SendAnswered, SentKnown
  <1>3. CASE RequestReturns
    <2>1. SendAnswered'
      BY <1>3 DEF RequestReturns, Return, SendAnswered
    <2>2. SentKnown'
      <3> SUFFICES ASSUME call.op = "send", NEW h \in out'
                   PROVE  call.tx \in pool' /\ h = Hash[call.tx]
        BY <1>3 DEF RequestReturns, SentKnown
      <3>1. h \in AtCaller(PostRequest) /\ pc = "answered" /\ pool' = pool
        BY <1>3 DEF RequestReturns, AllReceived, Return
      <3>2. h \in PostRequest
        BY <3>1, CallerHasResult
      <3> QED
        BY <3>1, <3>2, PostReturnsHash
    <2> QED
      BY <2>1, <2>2
  <1>4. CASE OnContent
    BY <1>4 DEF OnContent, SendAnswered, SentKnown
  <1>5. CASE RequestPending \/ AskAgain
    BY <1>5 DEF RequestPending, AskAgain, Again, SendAnswered, SentKnown
  <1>6. CASE RequestFails
    <2>1. out' = {} /\ pc' = "done"
      BY <1>6, CallerHasResult DEF RequestFails, Return
    <2> QED
      BY <2>1 DEF SendAnswered, SentKnown
  <1>7. CASE CallerGoesOn
    BY <1>7 DEF CallerGoesOn, SendAnswered, SentKnown
  <1>8. CASE \E t \in Txns : Mine(t)
    BY <1>8 DEF Mine, SendAnswered, SentKnown
  <1>9. CASE UNCHANGED vars
    BY <1>9 DEF vars, SendAnswered, SentKnown
  <1> QED
    BY <1>1, <1>2, <1>3, <1>4, <1>5, <1>6, <1>7, <1>8, <1>9 DEF Next, HostStep

\* Transaction.SendRaw, its OCALL and SendRawTransactionByParam never report a
\* hash for a transaction that Geth has not taken, whatever fails on the way.
THEOREM ReportedIsSent == Spec => []SentKnown
  <1>1. Init => SendInv
    BY DEF Init, SendInv, SendAnswered, SentKnown
  <1>2. SendInv => SentKnown
    BY DEF SendInv
  <1> QED
    BY <1>1, <1>2, SendStep, PTL DEF Spec

-----------------------------------------------------------------------------
(***************************************************************************)
(* AnswerMeans.  The parsers return what a body means, the whole of the    *)
(* text is the body, and the OCALL hands back what the host had.           *)
(***************************************************************************)
TextInv ==
    /\ call \in [op: Hosts \cup Enclaves, tx: Txns]
    /\ pc = "answered" =>
        /\ reply \in Reply
        /\ text \in Seq(Nat)
        /\ \A i \in DOMAIN text : text[i] = i

AnswerInv == TextInv /\ AnswerMeans

\* Result is one of the values in a meaning, or an exception if there is none.
Gives(result, meaning) == result \subseteq meaning /\ (result = {} => meaning = {})

\* DecodeHexStr returns the bytes of a string that has some, and else throws.
LEMMA DecodeMeans ==
  ASSUME NEW h
  PROVE  UNION {DecodeHexStr(g) : g \in AsString(h)} = BytesOf(h)
  <1>1. CASE h.kind # "str"
    BY <1>1 DEF AsString, BytesOf
  <1>2. CASE h.kind = "str"
    <2>1. UNION {DecodeHexStr(g) : g \in AsString(h)} = DecodeHexStr(h)
      BY <1>2 DEF AsString
    <2> QED
      BY <1>2, <2>1 DEF DecodeHexStr, BytesOf
  <1> QED
    BY <1>1, <1>2

\* The list is read member by member, and a bad member spoils it.
LEMMA ListMeans ==
  ASSUME NEW body
  PROVE  Gives(ProcRespListOfBytes(body), Meaning("receipts", body))
  <1> DEFINE each == [i \in DOMAIN body.list |-> UNION {DecodeHexStr(h) : h \in AsString(body.list[i])}]
             all == UNION {BytesOf(body.list[i]) : i \in DOMAIN body.list}
             chosen == [i \in DOMAIN each |-> CHOOSE bytes \in each[i] : TRUE]
             lists == {v \in [DOMAIN body.list -> all] : \A i \in DOMAIN v : v[i] \in BytesOf(body.list[i])}
  <1>1. DOMAIN each = DOMAIN body.list /\ \A i \in DOMAIN body.list : each[i] = BytesOf(body.list[i])
    BY DecodeMeans
  <1>2. Meaning("receipts", body) = IF body.kind # "list" THEN {} ELSE lists
    BY DEF Meaning
  <1>3. ProcRespListOfBytes(body) =
            IF body.kind # "list" THEN {}
            ELSE IF {} \in {each[i] : i \in DOMAIN each} THEN {} ELSE {chosen}
    BY DEF ProcRespListOfBytes
  <1> HIDE DEF each
  <1>4. CASE {} \in {each[i] : i \in DOMAIN each}
    <2>1. PICK i \in DOMAIN body.list : BytesOf(body.list[i]) = {}
      BY <1>1, <1>4
    <2>2. lists = {}
      BY <2>1
    <2> HIDE DEF lists
    <2> QED
      BY <1>2, <1>3, <1>4, <2>2 DEF Gives
  <1>5. CASE {} \notin {each[i] : i \in DOMAIN each}
    <2>1. \A i \in DOMAIN body.list : BytesOf(body.list[i]) # {}
      BY <1>1, <1>5
    <2>2. \A i \in DOMAIN body.list : chosen[i] \in BytesOf(body.list[i])
      BY <1>1, <2>1
    <2>3. DOMAIN chosen = DOMAIN body.list
      BY <1>1
    <2>4. chosen \in lists
      BY <1>1, <2>2, <2>3
    <2> HIDE DEF lists, chosen
    <2> QED
      BY <1>2, <1>3, <1>5, <2>4 DEF Gives
  <1> QED
    BY <1>4, <1>5

\* Each parser returns what the body means, and throws if it means nothing.
LEMMA ProcessMeans ==
  ASSUME NEW op \in Hosts \cup Enclaves, NEW body, body # Null \/ op # "wait"
  PROVE  Gives(Process(op, body), Meaning(op, body))
  <1>1. ProcRespSingleBytes(body) = BytesOf(body)
    BY DecodeMeans DEF ProcRespSingleBytes
  <1>2. CASE op \in {"header", "body"}
    BY <1>1, <1>2 DEF Process, Meaning, Gives
  <1>3. CASE op = "send"
    BY <1>1, <1>3 DEF Process, Meaning, Gives, ProcRespSingleBytesArray
  <1>4. CASE op = "number"
    BY <1>1, <1>4 DEF Process, Meaning, Gives, ProcRespInt
  <1>5. CASE op = "latest"
    BY <1>1, <1>5 DEF Process, Meaning, Gives, GetLatestBlockNum
  <1>6. CASE op = "receipts"
    <2>1. Process(op, body) = ProcRespListOfBytes(body)
      BY <1>6 DEF Process
    <2> QED
      BY <1>6, <2>1, ListMeans
  <1>7. CASE op = "wait"
    <2>1. Process(op, body) = IF body = Garbage THEN {} ELSE {body}
      BY <1>7 DEF Process, ProcRespObject
    <2>2. Meaning(op, body) = {body} \ {Null, Garbage}
      BY <1>7 DEF Meaning
    <2> QED
      BY <1>7, <2>1, <2>2 DEF Gives
  <1> QED
    BY <1>2, <1>3, <1>4, <1>5, <1>6, <1>7 DEF Hosts, Enclaves

\* When all pieces are there, the text is the body.
LEMMA WholeText ==
  ASSUME TextInv, AllReceived
  PROVE  LoadStr = reply.body
  <1>1. /\ text \in Seq(Nat) /\ text # <<>> /\ text[Len(text)] = reply.pieces
        /\ \A i \in DOMAIN text : text[i] = i
    BY DEF TextInv, AllReceived
  <1>2. Len(text) \in Nat /\ DOMAIN text = 1..Len(text) /\ Len(text) \in DOMAIN text
    BY <1>1
  <1>3. Len(text) = reply.pieces
    BY <1>1, <1>2
  <1>4. text = [i \in DOMAIN text |-> text[i]]
    BY <1>1
  <1>5. text = [i \in 1..reply.pieces |-> i]
    BY <1>1, <1>2, <1>3, <1>4
  <1> QED
    BY <1>5 DEF LoadStr

\* The OCALL hands back a value if the host had one.
LEMMA CallerHasSome ==
  ASSUME NEW result
  PROVE  AtCaller(result) # {} <=> result # {}
  BY DEF AtCaller, OcallReturns, Success

\* What the caller gets in the end is what the reply means.
LEMMA ReturnMeans ==
  ASSUME TextInv, RequestReturns
  PROVE  AnswerMeans'
  <1>1. /\ out' = AtCaller(PostRequest) /\ UNCHANGED <<call, reply>> /\ AllReceived /\ pc = "answered"
        /\ ~Pending(PostRequest)
    BY DEF RequestReturns, Return, AllReceived
  <1>2. reply \in Reply /\ call.op \in Hosts \cup Enclaves /\ reply # NoReply
    BY <1>1, ReplyAssumption DEF TextInv
  <1>3. LoadStr = reply.body
    BY <1>1, WholeText
  <1>4. Gives(PostRequest, ReplyMeaning)
    <2>1. CASE reply.code # 200
      BY <1>2, <2>1 DEF PostRequest, ReplyMeaning, Gives
    <2>2. CASE reply.code = 200
      <3>1. PostRequest = Process(call.op, reply.body)
        BY <1>3, <2>2 DEF PostRequest
      <3>2. ReplyMeaning = Meaning(call.op, reply.body)
        BY <1>2, <2>2 DEF ReplyMeaning
      <3>3. reply.body # Null \/ call.op # "wait"
        <4> SUFFICES ASSUME reply.body = Null, call.op = "wait" PROVE FALSE
          OBVIOUS
        <4>1. Process(call.op, reply.body) = ProcRespObject(Null)
          BY DEF Process
        <4>2. ProcRespObject(Null) = {Null}
          BY DEF ProcRespObject, Null, Garbage
        <4> QED
          BY <1>1, <3>1, <4>1, <4>2 DEF Pending
      <3> QED
        BY <1>2, <3>1, <3>2, <3>3, ProcessMeans
    <2> QED
      BY <2>1, <2>2
  <1>5. Gives(out', ReplyMeaning)
    BY <1>1, <1>4, CallerHasResult, CallerHasSome DEF Gives
  <1>6. ReplyMeaning' = ReplyMeaning
    BY <1>1 DEF ReplyMeaning, Meaning
  <1> QED
    BY <1>5, <1>6 DEF AnswerMeans, Gives

\* Each step keeps the invariant.
LEMMA AnswerStep == AnswerInv /\ [Next]_vars => AnswerInv'
  <1> SUFFICES ASSUME AnswerInv, [Next]_vars PROVE AnswerInv'
    OBVIOUS
  <1>0. TextInv /\ AnswerMeans
    BY DEF AnswerInv
  <1>1. ASSUME NEW op \in Hosts \cup Enclaves, NEW t \in Txns, Call(op, t) PROVE AnswerInv'
    BY <1>1 DEF Call, AnswerInv, TextInv, AnswerMeans
  <1>2. CASE GethStep
    <2>1. PICK body \in Answers, code \in {200, 500}, n \in 1..MaxPieces :
              GethAnswers(body, code, n)
      BY <1>2 DEF GethStep
    <2>2. /\ reply' = [body |-> body, code |-> code, pieces |-> n]
          /\ call' = call /\ pc' = "answered" /\ text' = <<>>
      BY <2>1 DEF GethAnswers
    <2>3. reply' \in Reply
      BY <2>2 DEF Reply, Answers
    <2>4. text' \in Seq(Nat) /\ DOMAIN text' = {}
      BY <2>2
    <2> QED
      BY <1>0, <2>2, <2>3, <2>4 DEF AnswerInv, TextInv, AnswerMeans
  <1>3. CASE OnContent
    <2>1. /\ pc = "answered" /\ pc' = pc /\ call' = call /\ reply' = reply
          /\ text' = Append(text, Len(text) + 1)
      BY <1>3 DEF OnContent
    <2>2. text \in Seq(Nat) /\ \A i \in DOMAIN text : text[i] = i
      BY <1>0, <2>1 DEF TextInv
    <2>3. text' \in Seq(Nat) /\ \A i \in DOMAIN text' : text'[i] = i
      BY <2>1, <2>2
    <2> QED
      BY <1>0, <2>1, <2>3 DEF AnswerInv, TextInv, AnswerMeans
  <1>4. CASE RequestReturns
    <2>1. TextInv'
      BY <1>0, <1>4 DEF RequestReturns, Return, TextInv
    <2> QED
      BY <1>0, <1>4, <2>1, ReturnMeans DEF AnswerInv
  <1>5. CASE RequestPending \/ AskAgain
    BY <1>0, <1>5 DEF RequestPending, AskAgain, Again, AnswerInv, TextInv, AnswerMeans
  <1>6. CASE RequestFails
    <2>1. out' = {} /\ pc' = "done" /\ call' = call /\ reply' = NoReply
      BY <1>6, CallerHasSome DEF RequestFails, Return
    <2> QED
      BY <1>0, <2>1 DEF AnswerInv, TextInv, AnswerMeans, ReplyMeaning
  <1>7. CASE CallerGoesOn
    BY <1>0, <1>7 DEF CallerGoesOn, AnswerInv, TextInv, AnswerMeans
  <1>8. ASSUME NEW t \in Txns, Mine(t) PROVE AnswerInv'
    BY <1>0, <1>8 DEF Mine, AnswerInv, TextInv, AnswerMeans, ReplyMeaning
  <1>9. CASE UNCHANGED vars
    BY <1>0, <1>9 DEF vars, AnswerInv, TextInv, AnswerMeans, ReplyMeaning
  <1> QED
    BY <1>1, <1>2, <1>3, <1>4, <1>5, <1>6, <1>7, <1>8, <1>9 DEF Next, HostStep

\* GethRequester and the OCALL of Main.cpp give a caller what Geth's reply
\* means and nothing else: an answer cut in pieces, of the wrong kind or length
\* or never received is an exception.
THEOREM AnswersMean == Spec => []AnswerMeans
  <1>1. Init => AnswerInv
    BY DEF Init, AnswerInv, TextInv, AnswerMeans, Hosts
  <1>2. AnswerInv => AnswerMeans
    BY DEF AnswerInv
  <1> QED
    BY <1>1, <1>2, AnswerStep, PTL DEF Spec

=============================================================================
