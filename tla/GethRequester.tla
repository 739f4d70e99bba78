---------------------------- MODULE GethRequester ----------------------------
(***************************************************************************)
(* One request to Geth, from its caller to Geth and back: GethRequester,   *)
(* HostBlockService of the host, and for callers in the enclave the OCALL  *)
(* of Main.cpp with its proxy in Trusted/HostBlockService.hpp.             *)
(*                                                                         *)
(* External: Geth, which may answer any request with any of the Bodies as  *)
(* long as a hash it gives is that of the transaction and a receipt that   *)
(* of a mined one, and takes transactions and mines them; the transport,   *)
(* which delivers a body in pieces and may fail; the codecs of             *)
(* SimpleObjects, SimpleRlp and EclipseMonitor.                            *)
(*                                                                         *)
(* A result is a set: of the value returned, or empty for an exception.    *)
(***************************************************************************)
EXTENDS Integers, Sequences

CONSTANTS
    Txns,            \* transactions
    Hash,            \* the hash of each, a sequence of bytes
    HashLen,         \* its length: 32 in the code
    Bodies,          \* bodies that Geth may answer with
    Decode(_),       \* Hex::Decode: the bytes of some digits, odd in number or even
    FromBytes(_),    \* PrimitiveTypeTrait::FromBytes: the integer of some bytes
    ParseNumber(_),  \* EthHeaderParser: the bytes of the number in a header's RLP
    MaxPieces,       \* bound: pieces of a body
    Unset,           \* a variable nobody has written
    NoReply

ASSUME LengthAssumption == HashLen \in Nat /\ MaxPieces \in Nat

\* What Geth says is a JSON object with a result: a string, of which it counts
\* whether it begins with 0x and what follows, a list, or another object; or
\* it has none, as with an error, which reads as null; or it is no such text.
Str(prefix, digits) == [kind |-> "str", prefix |-> prefix, digits |-> digits]
ListOf(list)        == [kind |-> "list", list |-> list]
Object              == [kind |-> "object"]
Null                == [kind |-> "null"]
Garbage             == [kind |-> "garbage"]

Reply == [body: Bodies, code: {200, 500}, pieces: 1..MaxPieces]

ASSUME ReplyAssumption == NoReply \notin Reply

VARIABLES
    pool,   \* Geth: transactions it has taken
    mined,  \* Geth: those in a block
    call,   \* the operation called, and on which transaction
    pc,     \* how far it is
    reply,  \* Geth's reply: code, number of pieces, body
    text,   \* respBody: the pieces so far
    out     \* the result at the caller

vars == <<pool, mined, call, pc, reply, text, out>>

Hosts    == {"header", "body", "number", "wait"}
Enclaves == {"latest", "receipts", "send"}

Init ==
    /\ pool = {}
    /\ mined = {}
    /\ call \in [op: {"header"}, tx: Txns]
    /\ pc = "idle"
    /\ reply = NoReply
    /\ text = <<>>
    /\ out = {}

-----------------------------------------------------------------------------
(* What the answers are turned into *)

\* Mutant: a string without any digit passes.
DecodeEmpty(h) == IF h.prefix THEN Decode(h.digits) ELSE {}

DecodeHexStr(h) == IF h.prefix /\ h.digits # <<>> THEN Decode(h.digits) ELSE {}

\* The field "result" read as a string, if it is one.
AsString(body) == {b \in {body} : b.kind = "str"}

ProcRespSingleBytes(body) == UNION {DecodeHexStr(h) : h \in AsString(body)}

ProcRespSingleBytesArray(body) ==
    {bytes \in ProcRespSingleBytes(body) : Len(bytes) = HashLen}

\* One bad member spoils the list.
ProcRespListOfBytes(body) ==
    IF body.kind # "list" THEN {}
    ELSE LET each == [i \in DOMAIN body.list |-> UNION {DecodeHexStr(h) : h \in AsString(body.list[i])}]
         IN  IF {} \in {each[i] : i \in DOMAIN each} THEN {}
             ELSE {[i \in DOMAIN each |-> CHOOSE bytes \in each[i] : TRUE]}

ProcRespInt(body) == UNION {FromBytes(bytes) : bytes \in ProcRespSingleBytes(body)}

\* Whatever the result is, it is dumped again: that it is an object, or there
\* at all, is not looked at.
ProcRespObject(body) == IF body = Garbage THEN {} ELSE {body}

GetLatestBlockNum(hdrRlp) == UNION {FromBytes(bytes) : bytes \in ParseNumber(hdrRlp)}

Process(op, body) ==
    CASE op \in {"header", "body"} -> ProcRespSingleBytes(body)
      [] op = "latest"   -> UNION {GetLatestBlockNum(hdrRlp) : hdrRlp \in ProcRespSingleBytes(body)}
      [] op = "number"   -> ProcRespInt(body)
      [] op = "receipts" -> ProcRespListOfBytes(body)
      [] op = "send"     -> ProcRespSingleBytesArray(body)
      [] op = "wait"     -> ProcRespObject(body)

-----------------------------------------------------------------------------
(* Back to the caller *)

\* Mutant: the status of the OCALL is not looked at.
AlwaysSuccess(result) == TRUE

\* The OCALL catches every exception and returns a status ...
Success(result) == result # {}

\* The value crosses in a buffer: the list of receipts in RLP, which the proxy
\* parses again.
OutParameter(result) == IF result = {} THEN Unset ELSE CHOOSE v \in result : TRUE

\* ... which the proxy turns into an exception again.
OcallReturns(result) == IF Success(result) THEN {OutParameter(result)} ELSE {}

AtCaller(result) == IF call.op \in Enclaves THEN OcallReturns(result) ELSE result

Return(result) ==
    /\ out' = AtCaller(result)
    /\ pc' = "done"

-----------------------------------------------------------------------------
Call(op, tx) ==
    /\ pc = "idle"
    /\ call' = [op |-> op, tx |-> tx]
    /\ pc' = "asked"
    /\ UNCHANGED <<pool, mined, reply, text, out>>

\* The bytes of a string, if they are as many as those of a hash.
Digest(body) ==
    {bytes \in UNION {Decode(h.digits) : h \in AsString(body)} : Len(bytes) = HashLen}

\* Geth does not give another transaction's hash, nor a receipt of one that is
\* not mined.  All else it may say, whatever it is asked.
Answers ==
    {body \in Bodies :
        /\ call.op = "send" => Digest(body) \subseteq {Hash[call.tx]}
        /\ call.op = "wait" /\ body = Object => call.tx \in mined}

\* Geth has taken the transaction whose hash it answers with, and may have
\* taken it whatever else it says.
Takes(body) ==
    CASE call.op # "send"    -> {pool}
      [] Digest(body) # {}   -> {pool \cup {call.tx}}
      [] OTHER               -> {pool, pool \cup {call.tx}}

GethAnswers(body, code, pieces) ==
    /\ pc = "asked"
    /\ body \in Answers
    /\ reply' = [body |-> body, code |-> code, pieces |-> pieces]
    /\ pool' \in Takes(body)
    /\ text' = <<>>
    /\ pc' = "answered"
    /\ UNCHANGED <<mined, call, out>>

\* The callback of PostRequest.
OnContent ==
    /\ pc = "answered"
    /\ Len(text) < reply.pieces
    /\ text' = Append(text, Len(text) + 1)
    /\ UNCHANGED <<pool, mined, call, pc, reply, out>>

\* Only the whole text is JSON.
LoadStr == IF text = [i \in 1..reply.pieces |-> i] THEN reply.body ELSE Garbage

PostRequest == IF reply.code = 200 THEN Process(call.op, LoadStr) ELSE {}

Pending(result) == call.op = "wait" /\ result = {Null}

AllReceived == pc = "answered" /\ text # <<>> /\ text[Len(text)] = reply.pieces

RequestReturns ==
    /\ AllReceived
    /\ ~Pending(PostRequest)
    /\ Return(PostRequest)
    /\ UNCHANGED <<pool, mined, call, reply, text>>

\* WaitAndGetTransactionReceipt, which nobody calls as yet, sleeps for a second
\* and asks again.
RequestPending ==
    /\ AllReceived
    /\ Pending(PostRequest)
    /\ pc' = "asleep"
    /\ UNCHANGED <<pool, mined, call, reply, text, out>>

\* Mutant: the question was asked before the loop.
NotAgain == "answered"

Again == "asked"

AskAgain ==
    /\ pc = "asleep"
    /\ pc' = Again
    /\ UNCHANGED <<pool, mined, call, reply, text, out>>

\* The transport fails: curl's error is an exception.
RequestFails ==
    /\ pc \in {"asked", "answered"}
    /\ reply' = NoReply
    /\ Return({})
    /\ UNCHANGED <<pool, mined, call, text>>

\* The caller goes on, and asks the next thing some time.
CallerGoesOn ==
    /\ pc = "done"
    /\ pc' = "idle"
    /\ reply' = NoReply
    /\ text' = <<>>
    /\ out' = {}
    /\ UNCHANGED <<pool, mined, call>>

Mine(t) ==
    /\ t \in pool \ mined
    /\ mined' = mined \cup {t}
    /\ UNCHANGED <<pool, call, pc, reply, text, out>>

-----------------------------------------------------------------------------
GethStep ==
    \E body \in Answers, code \in {200, 500}, n \in 1..MaxPieces : GethAnswers(body, code, n)

Receipt ==
    call.op = "wait" /\ \E n \in 1..MaxPieces : GethAnswers(Object, 200, n)

HostStep ==
    \/ OnContent
    \/ RequestReturns
    \/ RequestPending
    \/ AskAgain

Next ==
    \/ \E op \in Hosts \cup Enclaves, t \in Txns : Call(op, t)
    \/ GethStep
    \/ HostStep
    \/ RequestFails
    \/ CallerGoesOn
    \/ \E t \in Txns : Mine(t)

Spec == Init /\ [][Next]_vars

\* Host and Geth go on, and Geth says now and then what it knows.
Fairness ==
    /\ WF_vars(GethStep)
    /\ WF_vars(HostStep)
    /\ SF_vars(Receipt)

FairSpec == Spec /\ Fairness

-----------------------------------------------------------------------------
\* What a reply means for the operation that asked, by the JSON-RPC interface
\* of Geth: bytes are 0x and at least one digit, a hash has its length, a number
\* fits, a header has one, and a list is of bytes.  A receipt is any result but
\* null.  Else the reply means nothing.
BytesOf(h) == IF h.kind = "str" /\ h.prefix /\ h.digits # <<>> THEN Decode(h.digits) ELSE {}

Meaning(op, body) ==
    CASE op \in {"header", "body"} -> BytesOf(body)
      [] op = "send"     -> {bytes \in BytesOf(body) : Len(bytes) = HashLen}
      [] op = "number"   -> UNION {FromBytes(bytes) : bytes \in BytesOf(body)}
      [] op = "latest"   ->
            UNION {UNION {FromBytes(bytes) : bytes \in ParseNumber(hdr)} : hdr \in BytesOf(body)}
      [] op = "receipts" ->
            IF body.kind # "list" THEN {}
            ELSE LET all == UNION {BytesOf(body.list[i]) : i \in DOMAIN body.list}
                 IN  {v \in [DOMAIN body.list -> all] : \A i \in DOMAIN v : v[i] \in BytesOf(body.list[i])}
      [] op = "wait"     -> {body} \ {Null, Garbage}

\* The meaning of the last reply: nothing without one, or if it is an error.
ReplyMeaning ==
    IF reply # NoReply /\ reply.code = 200 THEN Meaning(call.op, reply.body) ELSE {}

\* A caller, in the host or behind the OCALL, gets exactly what Geth's reply
\* means: a value if it means one, however it is cut in pieces, and otherwise
\* an exception, never a value from nowhere.
AnswerMeans ==
    pc = "done" => out \subseteq ReplyMeaning /\ (out = {} => ReplyMeaning = {})

\* SendRaw only reports a hash of a transaction that Geth has taken: a failure
\* on the way back never looks like success.
SentKnown ==
    pc = "done" /\ call.op = "send" => \A h \in out : call.tx \in pool /\ h = Hash[call.tx]

\* A wait for a mined transaction would end, with its receipt or an exception.
WaitEnds ==
    \A t \in Txns :
        call = [op |-> "wait", tx |-> t] /\ pc # "idle" /\ t \in mined ~> pc = "done"
=============================================================================
