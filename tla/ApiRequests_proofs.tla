-------------------------- MODULE ApiRequests_proofs --------------------------
(***************************************************************************)
(* The safety properties of ApiRequests for any chains, transactions, codes *)
(* of Drive, requests and number of attempts.                               *)
(***************************************************************************)
EXTENDS ApiRequests, FunctionTheorems, SequenceTheorems, TLAPS

CoreOK ==
  /\ registered \in BOOLEAN /\ stage \in 0..3
  /\ chain \in Chains /\ known \subseteq Block /\ ToSet(chain) \subseteq known
  /\ mempool \subseteq Tx

PlatformOK ==
  stored \subseteq Object /\ inCache \subseteq St /\ full \in BOOLEAN /\ tip \in 1..MaxTip

CallOK ==
  /\ request \in Requests /\ attempts \in 0..MaxAttempts
  /\ answer.status \in Status /\ failed \in BOOLEAN
  /\ attempts = 0 => awaiting = {} /\ answer = NoAnswer
  /\ attempts > 0 => (answer = NoAnswer <=> awaiting # {})

\* What the nodes hold now is a right answer to give now.
RightNow == attempts > 0 => RightAnswer \in right

---------------------------------------------------------------------------
(***************************************************************************)
(* What a handler that awaits an RPC knows                                  *)
(***************************************************************************)
AwaitsHeight ==
  /\ awaiting = {"getblockhash"} /\ request.method = "getBlock"
  /\ request.arg = None /\ request.height # 0

\* A block found by its height was in the best chain, and dashd keeps it.
AwaitsBlock ==
  /\ awaiting = {"getblock"} /\ request.method = "getBlock"
  /\ request.arg # None => readings = request.arg
  /\ request.arg = None => readings \in known /\ Ok(readings) \in right

AwaitsTransaction ==
  /\ awaiting = {"getrawtransaction"} /\ request.method = "getTransaction"
  /\ request.arg # None

AwaitsBroadcast ==
  /\ awaiting = {"sendrawtransaction"} /\ request.method = "broadcastTransaction"
  /\ request.arg \in Tx

\* A reply that has come says how far synchronisation was, and there is a right
\* answer for every stage since.
ReadingRight(rpc) ==
  /\ rpc = "masternode" => readings[rpc] = registered
  /\ rpc = "getblockchaininfo" =>
       /\ readings[rpc] \in BOOLEAN
       /\ readings[rpc] => stage > 0
       /\ ~ readings[rpc] => Ok("NOT_STARTED") \in right
  /\ rpc = "mnsync" =>
       /\ readings[rpc] = 999 => Ok("READY") \in right
       /\ readings[rpc] # 999 => stage = 0 \/ Ok("SYNCING") \in right

AwaitsStatus ==
  /\ request.method = "getStatus" /\ awaiting # {} /\ awaiting \subseteq StatusRpcs
  /\ DOMAIN readings = StatusRpcs
  /\ readings = [rpc \in StatusRpcs |-> readings[rpc]]
  /\ \A rpc \in StatusRpcs \ awaiting : ReadingRight(rpc)

AwaitsCommand ==
  /\ request.method \in JsonRpcMethods \cap Commands /\ awaiting = {request.method}
  /\ Conforms

AwaitsObject ==
  /\ awaiting = {"abci_query"} /\ request.method \in DriveQueries
  /\ request.arg # BadArg

AwaitsStateTransition ==
  /\ awaiting = {"broadcast_tx_sync"} /\ request.method = "broadcastStateTransition"
  /\ request.arg \in St \cup {BadArg}

AwaitsParams ==
  /\ awaiting = {"consensus_params"} /\ request.method = "getConsensusParams"
  /\ request.arg # BadArg

AwaitingOK ==
  \/ awaiting = {}
  \/ AwaitsHeight \/ AwaitsBlock \/ AwaitsTransaction \/ AwaitsBroadcast
  \/ AwaitsStatus \/ AwaitsCommand
  \/ AwaitsObject \/ AwaitsStateTransition \/ AwaitsParams

IInv ==
  /\ CoreOK /\ PlatformOK /\ CallOK
  /\ RightNow
  /\ AwaitingOK
  /\ AnswerWasRight
  /\ InternalIsServers

---------------------------------------------------------------------------
(***************************************************************************)
(* The answer that is right, method by method                               *)
(***************************************************************************)
RightByMethod ==
  /\ request.method = "getBlock" => RightAnswer = RightBlock
  /\ request.method = "getTransaction" => RightAnswer = RightTransaction
  /\ request.method = "broadcastTransaction" => RightAnswer = RightBroadcast
  /\ request.method = "getStatus" => RightAnswer = RightStatus
  /\ request.method \in JsonRpcMethods => RightAnswer = RightCommand
  /\ request.method \in DriveQueries => RightAnswer = RightObject
  /\ request.method = "broadcastStateTransition" => RightAnswer = RightStateTransition
  /\ request.method = "getConsensusParams" => RightAnswer = RightConsensusParams

LEMMA MethodDecides == RightByMethod
  BY ZenonT(60) DEF RightByMethod, RightAnswer, JsonRpcMethods, DriveQueries

LEMMA MethodDecidesNext ==
  ASSUME UNCHANGED request
  PROVE  RightByMethod'
  BY ZenonT(60) DEF RightByMethod, RightAnswer, JsonRpcMethods, DriveQueries

LEMMA StatusIs ==
  /\ \A v : Ok(v).status = "OK" /\ Ok(v) # NoAnswer
  /\ \A s : Error(s).status = s /\ (s # "none" => Error(s) # NoAnswer)
  /\ {"OK", "INVALID_ARGUMENT", "NOT_FOUND", "ALREADY_EXISTS", "FAILED_PRECONDITION",
      "UNAUTHENTICATED", "UNKNOWN", "INTERNAL", "-32601", "-32602", "-32603", "none"}
       \subseteq Status
  /\ \A c \in 1..16 : GrpcErrorCodes[c] \in Status
  <1>1. /\ \A v : Ok(v).status = "OK" /\ Ok(v) # NoAnswer
        /\ \A s : Error(s).status = s /\ (s # "none" => Error(s) # NoAnswer)
    BY DEF Ok, Error, NoAnswer
  <1>2. \A c \in 1..16 : GrpcErrorCodes[c] \in Status
    BY DEF Status
  <1>3. /\ GrpcErrorCodes[2] = "UNKNOWN" /\ GrpcErrorCodes[3] = "INVALID_ARGUMENT"
        /\ GrpcErrorCodes[5] = "NOT_FOUND" /\ GrpcErrorCodes[6] = "ALREADY_EXISTS"
        /\ GrpcErrorCodes[9] = "FAILED_PRECONDITION" /\ GrpcErrorCodes[13] = "INTERNAL"
        /\ GrpcErrorCodes[16] = "UNAUTHENTICATED"
    BY DEF GrpcErrorCodes
  <1>4. {"UNKNOWN", "INVALID_ARGUMENT", "NOT_FOUND", "ALREADY_EXISTS", "FAILED_PRECONDITION",
         "INTERNAL", "UNAUTHENTICATED"} \subseteq Status
    BY <1>2, <1>3
  <1> QED
    BY <1>1, <1>2, <1>4 DEF Status

---------------------------------------------------------------------------
(***************************************************************************)
(* Giving an answer                                                         *)
(***************************************************************************)
\* An answer that the properties allow.
Warranted(a) ==
  /\ a.status \in Status /\ a # NoAnswer
  /\ a \in right' \/ a.status = "INTERNAL" \/ (a.status = "-32602" /\ failed')
  /\ a.status = "INTERNAL" => failed' \/ KnownInternal'

\* ... keeps the invariant.
LEMMA Answered ==
  ASSUME request \in Requests, CoreOK', PlatformOK', RightAnswer' \in right',
         UNCHANGED request, attempts' \in 1..MaxAttempts, failed' \in BOOLEAN,
         NEW a, Respond(a), Warranted(a)
  PROVE  IInv'
  <1>1. awaiting' = {} /\ answer' = a
    BY DEF Respond
  <1>2. CallOK'
    BY <1>1, MaxAttemptsAssumption DEF CallOK, Warranted, NoAnswer, Error
  <1>3. RightNow' /\ AwaitingOK'
    BY <1>1 DEF RightNow, AwaitingOK
  <1>4. AnswerWasRight' /\ InternalIsServers'
    BY <1>1 DEF AnswerWasRight, InternalIsServers, Warranted, Excused
  <1> QED
    BY <1>2, <1>3, <1>4 DEF IInv

\* Awaiting RPCs keeps it if what the handler knows then does.
LEMMA Awaited ==
  ASSUME request \in Requests, CoreOK', PlatformOK', RightAnswer' \in right',
         UNCHANGED request, attempts' \in 1..MaxAttempts, failed' \in BOOLEAN,
         NEW rpcs, NEW read, Await(rpcs, read), rpcs # {}, AwaitingOK'
  PROVE  IInv'
  <1>1. awaiting' = rpcs /\ answer' = NoAnswer
    BY DEF Await
  <1>2. answer'.status = "none" /\ "none" \in Status
    BY <1>1, StatusIs DEF NoAnswer
  <1>3. CallOK'
    BY <1>1, <1>2, MaxAttemptsAssumption DEF CallOK, NoAnswer, Error
  <1>4. RightNow'
    BY DEF RightNow
  <1>5. AnswerWasRight' /\ InternalIsServers'
    BY <1>1, <1>2 DEF AnswerWasRight, InternalIsServers
  <1> QED
    BY <1>3, <1>4, <1>5 DEF IInv

---------------------------------------------------------------------------
(***************************************************************************)
(* Errors of dashd, Drive and Tenderdash, code by code                      *)
(***************************************************************************)
LEMMA BlockHashStatusIs ==
  /\ BlockHashStatus(-8) = "NOT_FOUND"
  /\ BlockHashStatus(-1) = "INVALID_ARGUMENT"
  /\ BlockHashStatus(NoCode) = "INTERNAL"
  <1>1. /\ \A code : code = -8 /\ code # -1 => BlockHashStatus(code) = "NOT_FOUND"
        /\ \A code : code # -8 /\ code = -1 => BlockHashStatus(code) = "INVALID_ARGUMENT"
        /\ \A code : code # -8 /\ code # -1 => BlockHashStatus(code) = "INTERNAL"
    BY Zenon DEF BlockHashStatus
  <1> QED
    BY <1>1 DEF NoCode

LEMMA SendRawTransactionStatusIs ==
  /\ SendRawTransactionStatus(-22) = "INVALID_ARGUMENT"
  /\ SendRawTransactionStatus(-25) = "INVALID_ARGUMENT"
  /\ SendRawTransactionStatus(-26) = "FAILED_PRECONDITION"
  /\ SendRawTransactionStatus(-27) = "ALREADY_EXISTS"
  /\ SendRawTransactionStatus(NoCode) = "INTERNAL"
  <1>1. /\ \A code : code \in {-22, -25} /\ code # -26 /\ code # -27 =>
             SendRawTransactionStatus(code) = "INVALID_ARGUMENT"
        /\ \A code : code \notin {-22, -25} /\ code = -26 /\ code # -27 =>
             SendRawTransactionStatus(code) = "FAILED_PRECONDITION"
        /\ \A code : code \notin {-22, -25} /\ code # -26 /\ code = -27 =>
             SendRawTransactionStatus(code) = "ALREADY_EXISTS"
        /\ \A code : code \notin {-22, -25} /\ code # -26 /\ code # -27 =>
             SendRawTransactionStatus(code) = "INTERNAL"
    BY Zenon DEF SendRawTransactionStatus
  <1> QED
    BY <1>1 DEF NoCode

\* What createGrpcErrorFromDriveResponse makes of a code is what it means, or
\* INTERNAL.
LEMMA CreateGrpcErrorIs ==
  ASSUME NEW code \in Nat, code # 0
  PROVE  /\ CreateGrpcError(code) \in Status \ {"none"}
         /\ CreateGrpcError(code) # "INTERNAL" => CreateGrpcError(code) = MeaningOf(code)
         /\ CreateGrpcError(code) = "INTERNAL" => InternalCode(code)
         /\ code = 3 => CreateGrpcError(code) = "INVALID_ARGUMENT"
         /\ code = 5 => CreateGrpcError(code) = "NOT_FOUND"
  <1> DEFINE kinds == <<"INVALID_ARGUMENT", "UNAUTHENTICATED", "FAILED_PRECONDITION",
                       "INVALID_ARGUMENT">>
  <1>1. /\ "INVALID_ARGUMENT" \in Status /\ "UNAUTHENTICATED" \in Status
        /\ "FAILED_PRECONDITION" \in Status /\ "UNKNOWN" \in Status /\ "INTERNAL" \in Status
    BY StatusIs
  <1>2. /\ kinds[1] = "INVALID_ARGUMENT" /\ kinds[2] = "UNAUTHENTICATED"
        /\ kinds[3] = "FAILED_PRECONDITION" /\ kinds[4] = "INVALID_ARGUMENT"
    OBVIOUS
  <1>3. /\ code \in 1000..1999 => code \div 1000 = 1
        /\ code \in 2000..2999 => code \div 1000 = 2
        /\ code \in 3000..3999 => code \div 1000 = 3
        /\ code \in 4000..4999 => code \div 1000 = 4
    <2>1. code \in 1000..1999 => code \div 1000 = 1
      OBVIOUS
    <2>2. code \in 2000..2999 => code \div 1000 = 2
      OBVIOUS
    <2>3. code \in 3000..3999 => code \div 1000 = 3
      OBVIOUS
    <2>4. code \in 4000..4999 => code \div 1000 = 4
      OBVIOUS
    <2> QED
      BY <2>1, <2>2, <2>3, <2>4
  <1>4. \A c \in 1..16 : GrpcErrorCodes[c] \in Status \ {"none"}
    BY StatusIs DEF GrpcErrorCodes
  <1>5. \A c \in 1..16 : GrpcErrorCodes[c] = "INTERNAL" => c = 13
    BY DEF GrpcErrorCodes
  <1>6. GrpcErrorCodes[3] = "INVALID_ARGUMENT" /\ GrpcErrorCodes[5] = "NOT_FOUND"
    BY DEF GrpcErrorCodes
  <1>7. CASE code \in 1..16
    <2>1. CreateGrpcError(code) = GrpcErrorCodes[code]
      BY <1>7 DEF CreateGrpcError
    <2>2. MeaningOf(code) = GrpcErrorCodes[code]
      BY <1>7 DEF MeaningOf
    <2>3. CreateGrpcError(code) = "INTERNAL" => code = 13
      BY <1>5, <1>7, <2>1
    <2>4. CreateGrpcError(code) = "INTERNAL" => InternalCode(code)
      BY <2>3 DEF InternalCode
    <2> QED
      BY <1>4, <1>6, <1>7, <2>1, <2>2, <2>4
  <1>8. CASE code \in 17..999
    <2>1. CreateGrpcError(code) = "UNKNOWN"
      BY <1>8 DEF CreateGrpcError
    <2>2. MeaningOf(code) = "UNKNOWN"
      BY <1>8 DEF MeaningOf
    <2> QED
      BY <1>1, <1>8, <2>1, <2>2
  <1>9. CASE code \in 1000..4999
    <2>1. /\ code \in ConsensusErrors => CreateGrpcError(code) = ConsensusErrorStatus(code)
          /\ code \notin ConsensusErrors => CreateGrpcError(code) = "INTERNAL"
      <3>1. code \notin 1..16 /\ code \notin 17..999
        BY <1>9
      <3> QED
        BY <3>1 DEF CreateGrpcError
    <2>2. MeaningOf(code) = kinds[code \div 1000]
      BY <1>9 DEF MeaningOf
    <2>3. ConsensusErrorStatus(code) = kinds[code \div 1000]
      <3>1. CASE code \in 1000..1999
        BY <1>2, <1>3, <3>1 DEF ConsensusErrorStatus
      <3>2. CASE code \in 2000..2999
        BY <1>2, <1>3, <3>2 DEF ConsensusErrorStatus
      <3>3. CASE code \in 3000..3999
        BY <1>2, <1>3, <3>3 DEF ConsensusErrorStatus
      <3>4. CASE code \in 4000..4999
        BY <1>2, <1>3, <3>4 DEF ConsensusErrorStatus
      <3> QED
        BY <1>9, <3>1, <3>2, <3>3, <3>4
    <2>4. ConsensusErrorStatus(code) \in Status \ {"none", "INTERNAL"}
      BY <1>1 DEF ConsensusErrorStatus
    <2>5. code \notin ConsensusErrors => InternalCode(code)
      BY <1>9 DEF InternalCode
    <2>6. CASE code \in ConsensusErrors
      <3>1. CreateGrpcError(code) = ConsensusErrorStatus(code)
        BY <2>1, <2>6
      <3> QED
        BY <1>9, <2>2, <2>3, <2>4, <3>1
    <2>7. CASE code \notin ConsensusErrors
      <3>1. CreateGrpcError(code) = "INTERNAL"
        BY <2>1, <2>7
      <3> QED
        BY <1>1, <1>9, <2>5, <2>7, <3>1
    <2> QED
      BY <2>6, <2>7
  <1>10. CASE code >= 5000
    <2>0. code \notin ConsensusErrors
      BY <1>10, ConsensusErrorsAssumption
    <2>1. CreateGrpcError(code) = "INTERNAL"
      BY <1>10, <2>0 DEF CreateGrpcError
    <2>2. InternalCode(code)
      BY <1>10, <2>0 DEF InternalCode
    <2> QED
      BY <1>1, <1>10, <2>1, <2>2
  <1> QED
    BY <1>7, <1>8, <1>9, <1>10

---------------------------------------------------------------------------
(***************************************************************************)
(* Replies                                                                  *)
(***************************************************************************)
\* What Next does to `right`.
Progress == right' = (IF attempts' = attempts THEN right ELSE {}) \cup {RightAnswer'}

\* The RPC that is awaited says which request waits.
LEMMA AwaitingSays ==
  ASSUME AwaitingOK
  PROVE  /\ "getblockhash" \in awaiting => AwaitsHeight
         /\ "getblock" \in awaiting => AwaitsBlock
         /\ "getrawtransaction" \in awaiting => AwaitsTransaction
         /\ "sendrawtransaction" \in awaiting => AwaitsBroadcast
         /\ \A rpc \in StatusRpcs : rpc \in awaiting => AwaitsStatus
         /\ \A command \in JsonRpcMethods : command \in awaiting => AwaitsCommand
         /\ "abci_query" \in awaiting => AwaitsObject
         /\ "broadcast_tx_sync" \in awaiting => AwaitsStateTransition
         /\ "consensus_params" \in awaiting => AwaitsParams
  BY DEF AwaitingOK, AwaitsHeight, AwaitsBlock, AwaitsTransaction, AwaitsBroadcast,
         AwaitsStatus, AwaitsCommand, AwaitsObject, AwaitsStateTransition, AwaitsParams,
         StatusRpcs, JsonRpcMethods

\* A reply comes to a handler that waits: what was right stays so.
LEMMA Heard ==
  ASSUME IInv, Progress, awaiting # {}, NEW reply, Hear(reply)
  PROVE  /\ request \in Requests /\ UNCHANGED request
         /\ attempts' = attempts /\ attempts' \in 1..MaxAttempts /\ failed' \in BOOLEAN
         /\ right \subseteq right' /\ RightAnswer \in right' /\ RightAnswer' \in right'
         /\ reply = Unanswered => failed'
  <1>1. /\ UNCHANGED <<request, attempts>> /\ request \in Requests
        /\ attempts \in 1..MaxAttempts /\ failed' \in BOOLEAN
    BY MaxAttemptsAssumption DEF IInv, CallOK, Hear
  <1>2. RightAnswer \in right
    BY <1>1, MaxAttemptsAssumption DEF IInv, RightNow
  <1> QED
    BY <1>1, <1>2 DEF Progress, Hear

\* The handler may answer with what was right, with the failure of the RPC,
\* and with INTERNAL where that is known.
LEMMA Replied ==
  ASSUME IInv, Progress, CoreOK', PlatformOK', awaiting # {}, NEW reply, Hear(reply),
         NEW a, Respond(a),
         \/ a \in right' /\ a.status \in Status \ {"none", "INTERNAL"}
         \/ reply = Unanswered /\ a \in {Error("INTERNAL"), Error("-32602")}
         \/ a = Error("INTERNAL") /\ KnownInternal'
  PROVE  IInv'
  <1>1. /\ request \in Requests /\ UNCHANGED request
        /\ attempts' \in 1..MaxAttempts /\ failed' \in BOOLEAN
        /\ RightAnswer' \in right'
        /\ reply = Unanswered => failed'
    BY Heard
  <1>2. Warranted(a)
    BY <1>1, StatusIs DEF Warranted, NoAnswer
  <1> QED
    BY <1>1, <1>2, Answered

\* ... or wait for one more RPC.
LEMMA RepliedAwaits ==
  ASSUME IInv, Progress, CoreOK', PlatformOK', awaiting # {}, NEW reply, Hear(reply),
         NEW rpcs, NEW read, Await(rpcs, read), rpcs # {}, AwaitingOK'
  PROVE  IInv'
  BY Heard, Awaited

LEMMA CoreUnchanged ==
  ASSUME CoreOK, UNCHANGED core
  PROVE  CoreOK'
  BY DEF CoreOK, core, dashd

LEMMA PlatformUnchanged ==
  ASSUME PlatformOK, UNCHANGED platform
  PROVE  PlatformOK'
  BY DEF PlatformOK, platform

LEMMA UnansweredIs == ~ Unanswered.ok /\ Unanswered.code = NoCode
  BY DEF Unanswered, Reject

---------------------------------------------------------------------------
(***************************************************************************)
(* dashd's replies                                                          *)
(***************************************************************************)
LEMMA HeightLookedUpKeeps ==
  ASSUME IInv, Progress, UNCHANGED platform, HeightLookedUp
  PROVE  IInv'
  <1>1. AwaitsHeight
    BY AwaitingSays DEF HeightLookedUp, IInv
  <1>2. PICK reply \in {BlockHashAt(request.height), Unanswered} :
          /\ Hear(reply)
          /\ \/ reply.ok /\ Await({"getblock"}, reply.value)
             \/ ~ reply.ok /\ Respond(Error(BlockHashStatus(reply.code)))
    BY DEF HeightLookedUp
  <1>3. UNCHANGED request /\ right \subseteq right' /\ RightAnswer \in right'
    BY <1>1, <1>2, Heard DEF AwaitsHeight
  <1>4. awaiting # {} /\ CoreOK' /\ PlatformOK' /\ UNCHANGED core
    BY <1>1, CoreUnchanged, PlatformUnchanged DEF AwaitsHeight, IInv, HeightLookedUp
  <1>5. RightAnswer = RightBlock /\ request.height \in Nat
    BY <1>1, MethodDecides, RequestsAssumption DEF RightByMethod, AwaitsHeight, IInv, CallOK
  <1>6. CASE reply = Unanswered
    <2>1. Respond(Error("INTERNAL"))
      BY <1>2, <1>6, UnansweredIs, BlockHashStatusIs
    <2> QED
      BY <1>2, <1>4, <1>6, <2>1, Replied
  <1>7. CASE reply = BlockHashAt(request.height) /\ request.height > MaxInt
    <2>1. Respond(Error("INVALID_ARGUMENT"))
      BY <1>2, <1>7, BlockHashStatusIs DEF BlockHashAt, Reject
    <2>2. RightAnswer = Error("INVALID_ARGUMENT")
      BY <1>1, <1>5, <1>7, NamesAssumption DEF AwaitsHeight, RightBlock
    <2> QED
      BY <1>2, <1>3, <1>4, <2>1, <2>2, StatusIs, Replied
  <1>8. CASE /\ reply = BlockHashAt(request.height) /\ ~ request.height > MaxInt
             /\ request.height \notin DOMAIN chain
    <2>1. Respond(Error("NOT_FOUND"))
      BY <1>2, <1>8, BlockHashStatusIs DEF BlockHashAt, GetBlockHash, Reject
    <2>2. RightAnswer = Error("NOT_FOUND")
      BY <1>1, <1>5, <1>8, MaxIntAssumption, NamesAssumption DEF AwaitsHeight, RightBlock
    <2> QED
      BY <1>2, <1>3, <1>4, <2>1, <2>2, StatusIs, Replied
  <1>9. CASE /\ reply = BlockHashAt(request.height) /\ ~ request.height > MaxInt
             /\ request.height \in DOMAIN chain
    <2> DEFINE b == chain[request.height]
    <2>1. Await({"getblock"}, b)
      BY <1>2, <1>9 DEF BlockHashAt, GetBlockHash, Resolve
    <2>2. RightAnswer = Ok(b)
      BY <1>1, <1>5, <1>9, MaxIntAssumption, NamesAssumption DEF AwaitsHeight, RightBlock
    <2>3. b \in known'
      BY <1>4, <1>9 DEF IInv, CoreOK, core, dashd, ToSet
    <2>4. AwaitsBlock'
      BY <1>1, <1>3, <2>1, <2>2, <2>3 DEF AwaitsHeight, AwaitsBlock, Await, Ok
    <2> QED
      BY <1>2, <1>4, <2>1, <2>4, RepliedAwaits DEF AwaitingOK
  <1> QED
    BY <1>2, <1>6, <1>7, <1>8, <1>9

LEMMA BlockReadKeeps ==
  ASSUME IInv, Progress, UNCHANGED platform, BlockRead
  PROVE  IInv'
  <1>1. AwaitsBlock
    BY AwaitingSays DEF BlockRead, IInv
  <1>2. PICK reply \in {RawBlock(readings), Unanswered} :
          /\ Hear(reply)
          /\ \/ reply.ok /\ Respond(Ok(readings))
             \/ ~ reply.ok /\ Respond(Error(RawBlockStatus(reply.code)))
    BY DEF BlockRead
  <1>3. UNCHANGED request /\ right \subseteq right' /\ RightAnswer \in right'
    BY <1>1, <1>2, Heard DEF AwaitsBlock
  <1>4. awaiting # {} /\ CoreOK' /\ PlatformOK'
    BY <1>1, CoreUnchanged, PlatformUnchanged DEF AwaitsBlock, IInv, BlockRead
  <1>5. RightAnswer = RightBlock
    BY <1>1, MethodDecides DEF RightByMethod, AwaitsBlock
  <1>6. CASE reply = Unanswered
    <2>1. Respond(Error("INTERNAL"))
      BY <1>2, <1>6, UnansweredIs DEF RawBlockStatus, NoCode
    <2> QED
      BY <1>2, <1>4, <1>6, <2>1, Replied
  <1>7. CASE reply = RawBlock(readings) /\ readings \in known
    <2>1. readings # BadArg
      BY <1>7, NamesAssumption DEF IInv, CoreOK
    <2>2. Respond(Ok(readings))
      BY <1>2, <1>7, <2>1 DEF RawBlock, GetBlock, Resolve
    <2>3. Ok(readings) \in right'
      BY <1>1, <1>3, <1>5, <1>7, <2>1 DEF AwaitsBlock, RightBlock
    <2> QED
      BY <1>2, <1>4, <2>2, <2>3, StatusIs, Replied
  <1>8. CASE reply = RawBlock(readings) /\ readings \notin known /\ readings # BadArg
    <2>1. Respond(Error("NOT_FOUND"))
      BY <1>2, <1>8 DEF RawBlock, GetBlock, Reject, RawBlockStatus
    <2>2. RightAnswer = Error("NOT_FOUND")
      BY <1>1, <1>5, <1>8 DEF AwaitsBlock, RightBlock
    <2> QED
      BY <1>2, <1>3, <1>4, <2>1, <2>2, StatusIs, Replied
  <1>9. CASE reply = RawBlock(readings) /\ readings = BadArg
    <2>1. Respond(Error("INTERNAL"))
      BY <1>2, <1>9 DEF RawBlock, Reject, RawBlockStatus
    <2>2. request.arg = BadArg
      BY <1>1, <1>9, NamesAssumption DEF AwaitsBlock, IInv, CoreOK
    <2>3. KnownInternal'
      BY <1>1, <1>3, <2>2 DEF AwaitsBlock, KnownInternal, InternalForBadArg
    <2> QED
      BY <1>2, <1>4, <2>1, <2>3, Replied
  <1> QED
    BY <1>2, <1>6, <1>7, <1>8, <1>9

LEMMA TransactionReadKeeps ==
  ASSUME IInv, Progress, UNCHANGED platform, TransactionRead
  PROVE  IInv'
  <1>1. AwaitsTransaction
    BY AwaitingSays DEF TransactionRead, IInv
  <1>2. PICK reply \in {RawTransaction(request.arg), Unanswered} :
          /\ Hear(reply)
          /\ \/ reply.ok /\ Respond(Ok(BlockOf(request.arg)))
             \/ ~ reply.ok /\ Respond(Error(RawTransactionStatus(reply.code)))
    BY DEF TransactionRead
  <1>3. UNCHANGED request /\ right \subseteq right' /\ RightAnswer \in right'
    BY <1>1, <1>2, Heard DEF AwaitsTransaction
  <1>4. awaiting # {} /\ CoreOK' /\ PlatformOK'
    BY <1>1, CoreUnchanged, PlatformUnchanged DEF AwaitsTransaction, IInv, TransactionRead
  <1>5. RightAnswer = RightTransaction
    BY <1>1, MethodDecides DEF RightByMethod, AwaitsTransaction
  <1>6. CASE reply = Unanswered
    <2>1. Respond(Error("INTERNAL"))
      BY <1>2, <1>6, UnansweredIs DEF RawTransactionStatus, NoCode
    <2> QED
      BY <1>2, <1>4, <1>6, <2>1, Replied
  <1>7. CASE /\ reply = RawTransaction(request.arg) /\ request.arg # BadArg
             /\ Holds(request.arg)
    <2>1. Respond(Ok(BlockOf(request.arg)))
      BY <1>2, <1>7 DEF RawTransaction, GetRawTransaction, Holds, Resolve
    <2>2. RightAnswer = Ok(BlockOf(request.arg))
      BY <1>1, <1>5, <1>7 DEF AwaitsTransaction, RightTransaction
    <2> QED
      BY <1>2, <1>3, <1>4, <2>1, <2>2, StatusIs, Replied
  <1>8. CASE /\ reply = RawTransaction(request.arg) /\ request.arg # BadArg
             /\ ~ Holds(request.arg)
    <2>1. Respond(Error("NOT_FOUND"))
      BY <1>2, <1>8 DEF RawTransaction, GetRawTransaction, Holds, Reject, RawTransactionStatus
    <2>2. RightAnswer = Error("NOT_FOUND")
      BY <1>1, <1>5, <1>8 DEF AwaitsTransaction, RightTransaction
    <2> QED
      BY <1>2, <1>3, <1>4, <2>1, <2>2, StatusIs, Replied
  <1>9. CASE reply = RawTransaction(request.arg) /\ request.arg = BadArg
    <2>1. Respond(Error("INTERNAL"))
      BY <1>2, <1>9 DEF RawTransaction, Reject, RawTransactionStatus
    <2>2. KnownInternal'
      BY <1>1, <1>3, <1>9 DEF AwaitsTransaction, KnownInternal, InternalForBadArg
    <2> QED
      BY <1>2, <1>4, <2>1, <2>2, Replied
  <1> QED
    BY <1>2, <1>6, <1>7, <1>8, <1>9


LEMMA TransactionSentKeeps ==
  ASSUME IInv, Progress, UNCHANGED platform, TransactionSent
  PROVE  IInv'
  <1> DEFINE tx   == request.arg
             code == SendRawTransaction(tx)
             told == IF code = 0 THEN Resolve(tx) ELSE Reject(code)
  <1>1. AwaitsBroadcast
    BY AwaitingSays DEF TransactionSent, IInv
  <1>2. PICK reply \in {told, Unanswered} :
          /\ Hear(reply)
          /\ \/ reply.ok /\ Respond(Ok(None))
             \/ ~ reply.ok /\ Respond(Error(SendRawTransactionStatus(reply.code)))
    BY UnansweredIs DEF TransactionSent
  <1>3. right \subseteq right' /\ RightAnswer \in right'
    BY <1>1, <1>2, Heard DEF AwaitsBroadcast
  <1>4. awaiting # {} /\ CoreOK' /\ PlatformOK'
    BY <1>1, PlatformUnchanged DEF AwaitsBroadcast, IInv, CoreOK, TransactionSent
  <1>5. RightAnswer = RightBroadcast /\ tx \notin {None, BadArg}
        /\ Refusal[tx] \in {0, -22, -26}
    BY <1>1, MethodDecides, NamesAssumption, RefusalAssumption
    DEF RightByMethod, AwaitsBroadcast
  <1>6. CASE reply = Unanswered
    <2>1. Respond(Error("INTERNAL"))
      BY <1>2, <1>6, UnansweredIs, SendRawTransactionStatusIs
    <2> QED
      BY <1>2, <1>4, <1>6, <2>1, Replied
  <1>7. CASE reply = told /\ KnownAsMined(tx)
    <2>1. Respond(Error("ALREADY_EXISTS"))
      BY <1>2, <1>7, SendRawTransactionStatusIs DEF SendRawTransaction, Reject
    <2>2. RightAnswer = Error("ALREADY_EXISTS")
      BY <1>5, <1>7 DEF RightBroadcast
    <2> QED
      BY <1>2, <1>3, <1>4, <2>1, <2>2, StatusIs, Replied
  <1>8. CASE reply = told /\ ~ KnownAsMined(tx) /\ tx \in mempool
    <2>1. Respond(Ok(None))
      BY <1>2, <1>8 DEF SendRawTransaction, Resolve
    <2>2. RightAnswer = Ok(None)
      BY <1>5, <1>8 DEF RightBroadcast
    <2> QED
      BY <1>2, <1>3, <1>4, <2>1, <2>2, StatusIs, Replied
  <1>9. CASE reply = told /\ ~ KnownAsMined(tx) /\ tx \notin mempool /\ Refusal[tx] = -26
    <2>1. Respond(Error("FAILED_PRECONDITION"))
      BY <1>2, <1>9, SendRawTransactionStatusIs DEF SendRawTransaction, Reject
    <2>2. RightAnswer = Error("FAILED_PRECONDITION")
      BY <1>5, <1>9 DEF RightBroadcast
    <2> QED
      BY <1>2, <1>3, <1>4, <2>1, <2>2, StatusIs, Replied
  <1>10. CASE /\ reply = told /\ ~ KnownAsMined(tx) /\ tx \notin mempool
              /\ Refusal[tx] # -26
              /\ \/ Refusal[tx] = -22
                 \/ tx \in TxsIn(chain)
                 \/ \E p \in Parents[tx] : ~ Holds(p)
    <2>1. code \in {-22, -25}
      BY <1>5, <1>10 DEF SendRawTransaction
    <2>2. Respond(Error("INVALID_ARGUMENT"))
      BY <1>2, <1>10, <2>1, SendRawTransactionStatusIs DEF Reject
    <2>3. RightAnswer = Error("INVALID_ARGUMENT")
      BY <1>5, <1>10 DEF RightBroadcast
    <2> QED
      BY <1>2, <1>3, <1>4, <2>2, <2>3, StatusIs, Replied
  <1>11. CASE /\ reply = told /\ ~ KnownAsMined(tx) /\ tx \notin mempool
              /\ Refusal[tx] = 0 /\ tx \notin TxsIn(chain)
              /\ \A p \in Parents[tx] : Holds(p)
    <2>1. Respond(Ok(None))
      BY <1>2, <1>11 DEF SendRawTransaction, Resolve
    <2>2. RightAnswer = Ok(None)
      BY <1>5, <1>11 DEF RightBroadcast
    <2> QED
      BY <1>2, <1>3, <1>4, <2>1, <2>2, StatusIs, Replied
  <1> QED
    BY <1>2, <1>5, <1>6, <1>7, <1>8, <1>9, <1>10, <1>11

---------------------------------------------------------------------------
(***************************************************************************)
(* The replies of getStatus                                                 *)
(***************************************************************************)
LEMMA StatusReadingIs ==
  /\ StatusReading("getblockchaininfo") = GetBlockchainInfo
  /\ StatusReading("mnsync") = GetMnSync
  /\ StatusReading("masternode") = GetMasternode
  BY Zenon DEF StatusReading

LEMMA AssetIdIs ==
  ASSUME stage \in 0..3
  PROVE  AssetId = 999 <=> stage = 3
  <1>1. CASE stage = 0 \/ stage = 1
    <2>1. stage \in {0, 1} /\ stage # 2 /\ stage # 3
      BY <1>1
    <2>2. AssetId = 1
      BY <2>1, Zenon DEF AssetId
    <2> QED
      BY <2>1, <2>2
  <1>2. CASE stage = 2
    <2>1. stage \notin {0, 1} /\ stage # 3
      BY <1>2
    <2>2. AssetId = 4
      BY <1>2, <2>1, Zenon DEF AssetId
    <2> QED
      BY <2>1, <2>2
  <1>3. CASE stage = 3
    <2>1. stage \notin {0, 1} /\ stage # 2
      BY <1>3
    <2>2. AssetId = 999
      BY <1>3, <2>1 DEF AssetId
    <2> QED
      BY <1>3, <2>2
  <1> QED
    BY <1>1, <1>2, <1>3

\* What a reading says of the status, now and while the answer is awaited.
LEMMA ReadingIsRight ==
  ASSUME IInv, request.method = "getStatus", RightAnswer \in right', NEW rpc \in StatusRpcs
  PROVE  /\ rpc = "masternode" => StatusReading(rpc) = registered
         /\ rpc = "getblockchaininfo" =>
              /\ StatusReading(rpc) \in BOOLEAN
              /\ StatusReading(rpc) => stage > 0
              /\ ~ StatusReading(rpc) => Ok("NOT_STARTED") \in right'
         /\ rpc = "mnsync" =>
              /\ StatusReading(rpc) = 999 => Ok("READY") \in right'
              /\ StatusReading(rpc) # 999 => stage = 0 \/ Ok("SYNCING") \in right'
  <1>1. RightAnswer = RightStatus /\ stage \in 0..3
    BY MethodDecides DEF RightByMethod, IInv, CoreOK
  <1>2. /\ stage = 0 => RightStatus = Ok("NOT_STARTED")
        /\ stage \in {1, 2} => RightStatus = Ok("SYNCING")
        /\ stage = 3 => RightStatus = Ok("READY")
    BY DEF RightStatus
  <1>3. rpc = "masternode" => StatusReading(rpc) = registered
    BY StatusReadingIs DEF GetMasternode
  <1>4. CASE rpc = "getblockchaininfo"
    <2>1. StatusReading(rpc) = (stage > 0)
      BY <1>4, StatusReadingIs DEF GetBlockchainInfo
    <2>3. CASE stage > 0
      <3>1. StatusReading(rpc) = TRUE
        BY <2>1, <2>3, Zenon
      <3> QED
        BY <1>4, <2>3, <3>1
    <2>4. CASE ~ stage > 0
      <3>1. StatusReading(rpc) = FALSE
        BY <2>1, <2>4, (stage > 0) = FALSE
      <3>2. Ok("NOT_STARTED") \in right'
        BY <1>1, <1>2, <2>4
      <3> QED
        BY <1>4, <3>1, <3>2
    <2> QED
      BY <2>3, <2>4
  <1>5. CASE rpc = "mnsync"
    <2>1. StatusReading(rpc) = 999 <=> stage = 3
      BY <1>1, <1>5, StatusReadingIs, AssetIdIs DEF GetMnSync
    <2> QED
      BY <1>1, <1>2, <1>5, <2>1
  <1> QED
    BY <1>3, <1>4, <1>5

LEMMA StatusReadKeeps ==
  ASSUME IInv, Progress, UNCHANGED platform, NEW rpc \in StatusRpcs, StatusRead(rpc)
  PROVE  IInv'
  <1> DEFINE read == [readings EXCEPT ![rpc] = StatusReading(rpc)]
  <1>1. AwaitsStatus /\ awaiting # {}
    BY AwaitingSays DEF StatusRead, IInv
  <1>2. PICK reply \in {Unanswered, Resolve(StatusReading(rpc))} :
          /\ Hear(reply)
          /\ \/ reply = Unanswered /\ Respond(Error("INTERNAL"))
             \/ awaiting = {rpc} /\ Respond(StatusResponse(read))
             \/ awaiting # {rpc} /\ Await(awaiting \ {rpc}, read)
    BY DEF StatusRead
  <1>3. UNCHANGED request /\ right \subseteq right' /\ RightAnswer \in right'
    BY <1>1, <1>2, Heard
  <1>4. CoreOK' /\ PlatformOK' /\ UNCHANGED <<stage, registered>>
    BY <1>1, CoreUnchanged, PlatformUnchanged DEF IInv, StatusRead, core
  <1>5. /\ DOMAIN read = StatusRpcs /\ read = [r \in StatusRpcs |-> read[r]]
        /\ read[rpc] = StatusReading(rpc)
        /\ \A r \in StatusRpcs \ {rpc} : read[r] = readings[r]
    BY <1>1 DEF AwaitsStatus
  <1>6. \A r \in StatusRpcs \ (awaiting \ {rpc}) :
          /\ r = "masternode" => read[r] = registered
          /\ r = "getblockchaininfo" =>
               /\ read[r] \in BOOLEAN
               /\ read[r] => stage > 0
               /\ ~ read[r] => Ok("NOT_STARTED") \in right'
          /\ r = "mnsync" =>
               /\ read[r] = 999 => Ok("READY") \in right'
               /\ read[r] # 999 => stage = 0 \/ Ok("SYNCING") \in right'
    <2> TAKE r \in StatusRpcs \ (awaiting \ {rpc})
    <2>1. CASE r = rpc
      BY <1>1, <1>3, <1>5, <2>1, ReadingIsRight DEF AwaitsStatus
    <2>2. CASE r # rpc
      BY <1>1, <1>3, <1>5, <2>2 DEF AwaitsStatus, ReadingRight
    <2> QED
      BY <2>1, <2>2
  <1>7. CASE reply = Unanswered /\ Respond(Error("INTERNAL"))
    BY <1>1, <1>2, <1>4, <1>7, Replied
  <1>8. CASE awaiting # {rpc} /\ Await(awaiting \ {rpc}, read)
    <2>1. AwaitsStatus'
      BY <1>1, <1>3, <1>4, <1>5, <1>6, <1>8 DEF AwaitsStatus, Await, ReadingRight
    <2> QED
      BY <1>1, <1>2, <1>4, <1>8, <2>1, RepliedAwaits DEF AwaitsStatus, AwaitingOK
  <1>9. CASE awaiting = {rpc} /\ Respond(StatusResponse(read))
    <2>1. CASE ~ registered
      <3>1. Respond(Error("INTERNAL"))
        BY <1>6, <1>9, <2>1 DEF StatusResponse, StatusRpcs
      <3>2. KnownInternal'
        BY <1>1, <1>3, <1>4, <2>1 DEF KnownInternal, AwaitsStatus
      <3> QED
        BY <1>1, <1>2, <1>4, <3>1, <3>2, Replied
    <2>2. CASE registered
      <3>1. StatusResponse(read) = Ok(GetStatus(read["getblockchaininfo"], read["mnsync"]))
        BY <1>6, <1>9, <2>2 DEF StatusResponse, StatusRpcs
      <3>2. Ok(GetStatus(read["getblockchaininfo"], read["mnsync"])) \in right'
        BY <1>6, <1>9 DEF GetStatus, StatusRpcs
      <3> QED
        BY <1>1, <1>2, <1>4, <1>9, <3>1, <3>2, StatusIs, Replied
    <2> QED
      BY <2>1, <2>2
  <1> QED
    BY <1>2, <1>7, <1>8, <1>9


---------------------------------------------------------------------------
(***************************************************************************)
(* The replies of JSON-RPC commands                                         *)
(***************************************************************************)
LEMMA ReadByCommandIs ==
  /\ request.method = "getBestBlockHash" => ReadByCommand = GetBestBlockHash
  /\ request.method = "getBlockHash" => ReadByCommand = BlockHashAt(request.height)
  /\ request.method = "getMnListDiff" => ReadByCommand = GetMnListDiff(request.arg)
  BY Zenon DEF ReadByCommand

LEMMA CommandErrors ==
  /\ ErrorHandlerDecorator("DashCoreRpcError") = "-32602"
  /\ ErrorHandlerDecorator("ArgumentsValidationError") = "-32602"
  BY DEF ErrorHandlerDecorator

LEMMA CommandReadKeeps ==
  ASSUME IInv, Progress, UNCHANGED platform, CommandRead
  PROVE  IInv'
  <1> DEFINE Read == {"getBestBlockHash", "getBlockHash", "getMnListDiff"}
  <1>1. request.method \in Read /\ AwaitsCommand /\ awaiting # {}
    BY AwaitingSays DEF CommandRead, IInv, JsonRpcMethods
  <1>2. PICK reply \in {ReadByCommand, Unanswered} :
          /\ Hear(reply)
          /\ \/ reply.ok /\ Respond(Ok(reply.value))
             \/ ~ reply.ok /\ Respond(Error("-32602"))
    BY CommandErrors DEF CommandRead
  <1>3. right \subseteq right' /\ RightAnswer \in right'
    BY <1>1, <1>2, Heard
  <1>4. CoreOK' /\ PlatformOK'
    BY CoreUnchanged, PlatformUnchanged DEF IInv, CommandRead
  <1>5. RightAnswer = RightCommand /\ request.method \in Commands /\ Conforms
    BY <1>1, MethodDecides DEF RightByMethod, AwaitsCommand
  <1>6. CASE reply = Unanswered
    BY <1>1, <1>2, <1>4, <1>6, UnansweredIs, Replied
  <1>7. CASE reply = ReadByCommand /\ request.method = "getBestBlockHash"
    <2>1. Respond(Ok(Last(chain)))
      BY <1>2, <1>7, ReadByCommandIs DEF GetBestBlockHash, Resolve
    <2>2. RightAnswer = Ok(Last(chain))
      BY <1>5, <1>7 DEF RightCommand
    <2> QED
      BY <1>1, <1>2, <1>3, <1>4, <2>1, <2>2, StatusIs, Replied
  <1>8. CASE reply = ReadByCommand /\ request.method = "getBlockHash"
    <2>1. request.height \in DOMAIN chain => request.height <= MaxInt
      <3>1. chain \in Seq(Block) /\ Len(chain) <= MaxInt
        BY ChainsAssumption, MaxIntAssumption DEF IInv, CoreOK
      <3> QED
        BY <3>1, LenProperties, MaxIntAssumption
    <2>2. request.height \in Nat
      BY RequestsAssumption DEF IInv, CallOK
    <2>3. CASE request.height \in DOMAIN chain
      <3>1. Respond(Ok(chain[request.height]))
        BY <1>2, <1>8, <2>1, <2>2, <2>3, MaxIntAssumption, ReadByCommandIs
        DEF BlockHashAt, GetBlockHash, Resolve
      <3>2. RightAnswer = Ok(chain[request.height])
        BY <1>5, <1>8, <2>3 DEF RightCommand
      <3> QED
        BY <1>1, <1>2, <1>3, <1>4, <3>1, <3>2, StatusIs, Replied
    <2>4. CASE request.height \notin DOMAIN chain
      <3>1. Respond(Error("-32602"))
        BY <1>2, <1>8, <2>4, ReadByCommandIs DEF BlockHashAt, GetBlockHash, Reject
      <3>2. RightAnswer = Error("-32602")
        BY <1>5, <1>8, <2>4 DEF RightCommand
      <3> QED
        BY <1>1, <1>2, <1>3, <1>4, <3>1, <3>2, StatusIs, Replied
    <2> QED
      BY <2>3, <2>4
  <1>9. CASE reply = ReadByCommand /\ request.method = "getMnListDiff"
    <2>1. CASE request.arg \in known
      <3>1. Respond(Ok(request.arg))
        BY <1>2, <1>9, <2>1, ReadByCommandIs DEF GetMnListDiff, Resolve
      <3>2. RightAnswer = Ok(request.arg)
        BY <1>5, <1>9, <2>1 DEF RightCommand
      <3> QED
        BY <1>1, <1>2, <1>3, <1>4, <3>1, <3>2, StatusIs, Replied
    <2>2. CASE request.arg \notin known
      <3>1. Respond(Error("-32602"))
        BY <1>2, <1>9, <2>2, ReadByCommandIs DEF GetMnListDiff, Reject
      <3>2. RightAnswer = Error("-32602")
        BY <1>5, <1>9, <2>2 DEF RightCommand
      <3> QED
        BY <1>1, <1>2, <1>3, <1>4, <3>1, <3>2, StatusIs, Replied
    <2> QED
      BY <2>1, <2>2
  <1> QED
    BY <1>1, <1>2, <1>6, <1>7, <1>8, <1>9

\* A new best chain keeps what dashd is made of.
LEMMA SwitchChainType ==
  ASSUME CoreOK, NEW c \in Chains, SwitchChain(c)
  PROVE  /\ chain' \in Chains /\ known' \subseteq Block /\ ToSet(chain') \subseteq known'
         /\ mempool' \subseteq Tx /\ known \subseteq known'
  <1>1. chain' = c /\ known' = known \cup ToSet(c)
    BY DEF SwitchChain
  <1>2. \A d \in Chains : ToSet(d) \subseteq Block /\ TxsIn(d) \subseteq Tx
    <2> TAKE d \in Chains
    <2>1. d \in Seq(Block)
      BY ChainsAssumption
    <2>2. \A h \in DOMAIN d : d[h] \in Block
      BY <2>1, LenProperties
    <2> QED
      BY <2>2, TxsOfAssumption DEF ToSet, TxsIn
  <1>3. mempool' \subseteq Tx
    BY <1>2 DEF SwitchChain, CoreOK
  <1> QED
    BY <1>1, <1>2, <1>3 DEF CoreOK

\* The block that was made is the best one now.
LEMMA BlockGeneratedKeeps ==
  ASSUME IInv, Progress, UNCHANGED platform, BlockGenerated
  PROVE  IInv'
  <1>1. AwaitsCommand /\ awaiting = {"generateToAddress"}
    BY AwaitingSays DEF BlockGenerated, IInv, JsonRpcMethods, AwaitsCommand
  <1>2. request.method = "generateToAddress"
    BY <1>1 DEF AwaitsCommand
  <1>3. PICK reply \in {Unanswered} \cup {Resolve(Last(chain'))} :
          /\ Hear(reply)
          /\ \/ reply.ok /\ Respond(Ok(reply.value))
             \/ ~ reply.ok /\ Respond(Error("-32602"))
    BY CommandErrors DEF BlockGenerated
  <1>4. CoreOK'
    <2>1. CASE \E c \in Chains : SwitchChain(c)
      BY <2>1, SwitchChainType DEF IInv, CoreOK, BlockGenerated
    <2>2. CASE UNCHANGED dashd
      BY <2>2 DEF IInv, CoreOK, BlockGenerated, dashd
    <2> QED
      BY <2>1, <2>2 DEF BlockGenerated
  <1>5. PlatformOK'
    BY PlatformUnchanged DEF IInv
  <1>6. UNCHANGED request /\ RightAnswer' \in right'
    BY <1>1, <1>3, Heard
  <1>7. CASE reply = Unanswered
    BY <1>1, <1>3, <1>4, <1>5, <1>7, UnansweredIs, Replied
  <1>8. CASE reply = Resolve(Last(chain'))
    <2>1. Respond(Ok(Last(chain')))
      BY <1>3, <1>8 DEF Resolve
    <2>2. RightAnswer' = RightCommand'
      BY <1>2, <1>6, MethodDecidesNext DEF RightByMethod, JsonRpcMethods
    <2>3. request.method \in Commands /\ Conforms' /\ request'.method = "generateToAddress"
      BY <1>1, <1>2, <1>6 DEF AwaitsCommand, Conforms
    <2>4. RightCommand' = Ok(Last(chain'))
      BY <1>2, <1>6, <2>3 DEF RightCommand
    <2> QED
      BY <1>1, <1>3, <1>4, <1>5, <1>6, <2>1, <2>2, <2>4, StatusIs, Replied
  <1> QED
    BY <1>3, <1>7, <1>8


---------------------------------------------------------------------------
(***************************************************************************)
(* The replies of Drive and Tenderdash                                      *)
(***************************************************************************)
LEMMA QueryCodeIs ==
  /\ request.arg = None => QueryCode = 3
  /\ request.arg # None /\ request.arg \in stored => QueryCode = 0
  /\ request.arg # None /\ request.arg \notin stored => QueryCode = 5
  BY Zenon DEF QueryCode

LEMMA RepliesSay ==
  /\ \A value : Resolve(value).ok /\ Resolve(value).value = value
  /\ \A code : ~ Reject(code).ok /\ Reject(code).code = code
  BY DEF Resolve, Reject

LEMMA DriveClientAnswerIs ==
  /\ \A code : code = 0 => DriveClientAnswer(Resolve(code)) = Ok(request.arg)
  /\ \A code : code # 0 => DriveClientAnswer(Resolve(code)) = Error(CreateGrpcError(code))
  /\ DriveClientAnswer(Unanswered) = Error("INTERNAL")
  <1>1. ASSUME NEW reply
        PROVE  /\ reply.ok /\ reply.value = 0 => DriveClientAnswer(reply) = Ok(request.arg)
               /\ reply.ok /\ reply.value # 0 =>
                    DriveClientAnswer(reply) = Error(CreateGrpcError(reply.value))
               /\ ~ reply.ok => DriveClientAnswer(reply) = Error("INTERNAL")
    BY Zenon DEF DriveClientAnswer
  <1>2. ASSUME NEW code
        PROVE  /\ code = 0 => DriveClientAnswer(Resolve(code)) = Ok(request.arg)
               /\ code # 0 => DriveClientAnswer(Resolve(code)) = Error(CreateGrpcError(code))
    <2>1. Resolve(code).ok /\ Resolve(code).value = code
      BY RepliesSay
    <2> QED
      BY <1>1, <2>1
  <1>3. DriveClientAnswer(Unanswered) = Error("INTERNAL")
    BY <1>1, UnansweredIs
  <1> QED
    BY <1>2, <1>3

LEMMA BroadcastAnswerIs ==
  /\ BroadcastAnswer(Refused("tx already exists in cache")) = Error("ALREADY_EXISTS")
  /\ BroadcastAnswer(Refused("mempool is full")) = Error("INTERNAL")
  /\ BroadcastAnswer(Refused("Tx too large")) = Error("INTERNAL")
  /\ \A code : code = 0 => BroadcastAnswer(Resolve(code)) = Ok(None)
  /\ \A code : code # 0 => BroadcastAnswer(Resolve(code)) = Error(CreateGrpcError(code))
  <1>1. ASSUME NEW reply
        PROVE  /\ ~ reply.ok /\ reply.data = "tx already exists in cache" =>
                    BroadcastAnswer(reply) = Error("ALREADY_EXISTS")
               /\ ~ reply.ok /\ reply.data # "tx already exists in cache" =>
                    BroadcastAnswer(reply) = Error("INTERNAL")
               /\ reply.ok /\ reply.value = 0 => BroadcastAnswer(reply) = Ok(None)
               /\ reply.ok /\ reply.value # 0 =>
                    BroadcastAnswer(reply) = Error(CreateGrpcError(reply.value))
    BY Zenon DEF BroadcastAnswer
  <1>2. ASSUME NEW code
        PROVE  /\ code = 0 => BroadcastAnswer(Resolve(code)) = Ok(None)
               /\ code # 0 => BroadcastAnswer(Resolve(code)) = Error(CreateGrpcError(code))
    <2>1. Resolve(code).ok /\ Resolve(code).value = code
      BY RepliesSay
    <2> QED
      BY <1>1, <2>1
  <1>3. \A data : ~ Refused(data).ok /\ Refused(data).data = data
    BY DEF Refused
  <1>4. /\ BroadcastAnswer(Refused("tx already exists in cache")) = Error("ALREADY_EXISTS")
        /\ BroadcastAnswer(Refused("mempool is full")) = Error("INTERNAL")
        /\ BroadcastAnswer(Refused("Tx too large")) = Error("INTERNAL")
    <2>1. ASSUME NEW data, data # "tx already exists in cache"
          PROVE  BroadcastAnswer(Refused(data)) = Error("INTERNAL")
      <3>1. ~ Refused(data).ok /\ Refused(data).data # "tx already exists in cache"
        BY <1>3, <2>1
      <3> QED
        BY <1>1, <3>1
    <2>2. BroadcastAnswer(Refused("tx already exists in cache")) = Error("ALREADY_EXISTS")
      <3> DEFINE reply == Refused("tx already exists in cache")
      <3>1. ~ reply.ok /\ reply.data = "tx already exists in cache"
        BY <1>3
      <3> HIDE DEF reply
      <3>2. BroadcastAnswer(reply) = Error("ALREADY_EXISTS")
        BY <1>1, <3>1
      <3> QED
        BY <3>2 DEF reply
    <2> QED
      BY <2>1, <2>2
  <1> QED
    BY <1>2, <1>4

LEMMA ObjectFetchedKeeps ==
  ASSUME IInv, Progress, UNCHANGED core, ObjectFetched
  PROVE  IInv'
  <1>1. AwaitsObject
    BY AwaitingSays DEF ObjectFetched, IInv
  <1>2. PICK reply \in {Resolve(QueryCode), Unanswered} :
          Hear(reply) /\ Respond(DriveClientAnswer(reply))
    BY DEF ObjectFetched
  <1>3. right \subseteq right' /\ RightAnswer \in right'
    BY <1>1, <1>2, Heard DEF AwaitsObject
  <1>4. awaiting # {} /\ CoreOK' /\ PlatformOK' /\ stored \subseteq Object
    BY <1>1, CoreUnchanged, PlatformUnchanged DEF AwaitsObject, IInv, PlatformOK, ObjectFetched
  <1>5. RightAnswer = RightObject
    BY <1>1, MethodDecides DEF RightByMethod, AwaitsObject
  <1>6. CASE reply = Unanswered
    <2>1. Respond(Error("INTERNAL"))
      BY <1>2, <1>6, DriveClientAnswerIs
    <2> QED
      BY <1>2, <1>4, <1>6, <2>1, Replied
  <1>7. CASE reply = Resolve(QueryCode)
    <2>2. CASE request.arg = None
      <3>1. Respond(Error("INVALID_ARGUMENT"))
        BY <1>2, <1>7, <2>2, QueryCodeIs, DriveClientAnswerIs, CreateGrpcErrorIs
      <3>2. RightAnswer = Error("INVALID_ARGUMENT")
        BY <1>4, <1>5, <2>2, NamesAssumption DEF RightObject
      <3> QED
        BY <1>2, <1>3, <1>4, <3>1, <3>2, StatusIs, Replied
    <2>3. CASE request.arg # None /\ request.arg \in stored
      <3>1. Respond(Ok(request.arg))
        BY <1>2, <1>7, <2>3, QueryCodeIs, DriveClientAnswerIs
      <3>2. RightAnswer = Ok(request.arg)
        BY <1>5, <2>3 DEF RightObject
      <3> QED
        BY <1>2, <1>3, <1>4, <3>1, <3>2, StatusIs, Replied
    <2>4. CASE request.arg # None /\ request.arg \notin stored
      <3>1. Respond(Error("NOT_FOUND"))
        BY <1>2, <1>7, <2>4, QueryCodeIs, DriveClientAnswerIs, CreateGrpcErrorIs
      <3>2. RightAnswer = Error("NOT_FOUND")
        BY <1>1, <1>5, <2>4 DEF AwaitsObject, RightObject
      <3> QED
        BY <1>2, <1>3, <1>4, <3>1, <3>2, StatusIs, Replied
    <2> QED
      BY <2>2, <2>3, <2>4
  <1> QED
    BY <1>2, <1>6, <1>7

\* INTERNAL is known for the codes that are internal to Drive.
LEMMA KnownCode ==
  ASSUME NEW st \in St, InternalCode(CheckTxCode[st]),
         request'.method = "broadcastStateTransition", request'.arg = st
  PROVE  KnownInternal'
  <1>1. InternalCode(CheckTxCode[request.arg])' /\ request'.arg \in St
    BY DEF InternalCode
  <1> QED
    BY <1>1 DEF KnownInternal

LEMMA StateTransitionSentKeeps ==
  ASSUME IInv, Progress, UNCHANGED core, StateTransitionSent
  PROVE  IInv'
  <1> DEFINE st == request.arg
  <1>1. AwaitsStateTransition
    BY AwaitingSays DEF StateTransitionSent, IInv
  <1>2. PICK reply \in {BroadcastTxSync(st), Unanswered} :
          /\ Hear(reply)
          /\ \/ reply = BroadcastTxSync(st) /\ Respond(BroadcastAnswer(reply))
             \/ reply = Unanswered /\ Respond(Error("INTERNAL"))
    BY DEF StateTransitionSent
  <1>3. UNCHANGED request /\ right \subseteq right' /\ RightAnswer \in right'
    BY <1>1, <1>2, Heard DEF AwaitsStateTransition
  <1>4. awaiting # {} /\ CoreOK' /\ PlatformOK'
    <2>1. st \notin St => ~ BroadcastTxSync(st).ok
      BY <1>1 DEF AwaitsStateTransition, BroadcastTxSync, Refused
    <2>2. inCache' \subseteq St
      BY <2>1 DEF IInv, PlatformOK, StateTransitionSent
    <2>3. UNCHANGED <<stored, full, tip>>
      BY DEF StateTransitionSent
    <2>4. PlatformOK'
      BY <2>2, <2>3 DEF IInv, PlatformOK
    <2> QED
      BY <1>1, <2>4, CoreUnchanged DEF AwaitsStateTransition, IInv
  <1>5. /\ RightAnswer = RightStateTransition /\ st # None
        /\ st # BadArg => st \in St /\ CheckTxCode[st] \in Nat
        /\ request' = request /\ request.method = "broadcastStateTransition"
    BY <1>1, <1>3, MethodDecides, NamesAssumption, CheckTxAssumption
    DEF RightByMethod, AwaitsStateTransition
  <1>6. CASE reply = Unanswered /\ Respond(Error("INTERNAL"))
    BY <1>2, <1>4, <1>6, Replied
  <1> DEFINE heard == reply = BroadcastTxSync(st) /\ Respond(BroadcastAnswer(reply))
  <1>7. CASE heard /\ (st = BadArg \/ full)
    <2>1. Respond(Error("INTERNAL"))
      BY <1>7, BroadcastAnswerIs DEF BroadcastTxSync
    <2>2. KnownInternal'
      <3>1. CASE st = BadArg
        BY <1>5, <3>1 DEF KnownInternal, InternalForBadArg
      <3>2. CASE st # BadArg /\ full
        <4>1. RightAnswer = Error("RESOURCE_EXHAUSTED")
          BY <1>5, <3>2 DEF RightStateTransition
        <4> QED
          BY <1>3, <1>5, <4>1 DEF KnownInternal, Error
      <3> QED
        BY <1>7, <3>1, <3>2
    <2> QED
      BY <1>2, <1>4, <2>1, <2>2, Replied
  <1>8. CASE heard /\ st # BadArg /\ ~ full /\ st \in inCache
    <2>1. Respond(Error("ALREADY_EXISTS"))
      BY <1>8, BroadcastAnswerIs DEF BroadcastTxSync
    <2>2. RightAnswer = Error("ALREADY_EXISTS")
      BY <1>5, <1>8 DEF RightStateTransition
    <2> QED
      BY <1>2, <1>3, <1>4, <2>1, <2>2, StatusIs, Replied
  <1>9. CASE heard /\ st # BadArg /\ ~ full /\ st \notin inCache
    <2> DEFINE code == CheckTxCode[st]
               a    == BroadcastAnswer(reply)
    <2>1. reply = Resolve(code)
      BY <1>9 DEF BroadcastTxSync
    <2>2. RightAnswer = [status |-> MeaningOf(code), value |-> None]
      BY <1>5, <1>9 DEF RightStateTransition
    <2>3. CASE code = 0
      <3>1. a = Ok(None)
        BY <2>1, <2>3, BroadcastAnswerIs
      <3>2. RightAnswer = Ok(None)
        BY <2>2, <2>3 DEF MeaningOf, Ok
      <3> QED
        BY <1>2, <1>3, <1>4, <1>9, <3>1, <3>2, StatusIs, Replied
    <2>4. CASE code # 0 /\ CreateGrpcError(code) # "INTERNAL"
      <3>1. a = Error(CreateGrpcError(code))
        BY <2>1, <2>4, BroadcastAnswerIs
      <3>2. RightAnswer = a
        BY <1>5, <1>9, <2>2, <2>4, <3>1, CreateGrpcErrorIs DEF Error
      <3>3. a.status \in Status \ {"none", "INTERNAL"}
        BY <1>5, <1>9, <2>4, <3>1, CreateGrpcErrorIs, StatusIs
      <3> QED
        BY <1>2, <1>3, <1>4, <1>9, <3>1, <3>2, <3>3, Replied
    <2>5. CASE code # 0 /\ CreateGrpcError(code) = "INTERNAL"
      <3>1. a = Error("INTERNAL")
        BY <2>1, <2>5, BroadcastAnswerIs
      <3>2. KnownInternal'
        <4>1. InternalCode(code)
          BY <1>5, <1>9, <2>5, CreateGrpcErrorIs
        <4>2. request'.method = "broadcastStateTransition" /\ request'.arg = st
          BY <1>5
        <4> QED
          BY <1>5, <1>9, <4>1, <4>2, KnownCode
      <3> QED
        BY <1>2, <1>4, <1>9, <3>1, <3>2, Replied
    <2> QED
      BY <2>3, <2>4, <2>5
  <1> QED
    BY <1>2, <1>6, <1>7, <1>8, <1>9

LEMMA ConsensusParamsReadKeeps ==
  ASSUME IInv, Progress, UNCHANGED core, ConsensusParamsRead
  PROVE  IInv'
  <1>1. AwaitsParams
    BY AwaitingSays DEF ConsensusParamsRead, IInv
  <1>2. PICK reply \in {ConsensusParams, Unanswered} :
          /\ Hear(reply)
          /\ \/ reply.ok /\ Respond(Ok(reply.value))
             \/ ~ reply.ok /\ Respond(Error(ConsensusParamsStatus(reply.code)))
    BY DEF ConsensusParamsRead
  <1>3. UNCHANGED request /\ right \subseteq right' /\ RightAnswer \in right'
    BY <1>1, <1>2, Heard DEF AwaitsParams
  <1>4. awaiting # {} /\ CoreOK' /\ PlatformOK'
    BY <1>1, CoreUnchanged, PlatformUnchanged DEF AwaitsParams, IInv, ConsensusParamsRead
  <1>5. RightAnswer = RightConsensusParams
    BY <1>1, MethodDecides DEF RightByMethod, AwaitsParams
  <1>6. CASE reply = Unanswered
    <2>1. Respond(Error("INTERNAL"))
      BY <1>2, <1>6, UnansweredIs DEF ConsensusParamsStatus, RpcErrorCode
    <2> QED
      BY <1>2, <1>4, <1>6, <2>1, Replied
  <1>7. CASE reply = ConsensusParams /\ HeightAsked <= tip
    <2>1. Respond(Ok(HeightAsked))
      BY <1>2, <1>7 DEF ConsensusParams, Resolve
    <2>2. RightAnswer = Ok(HeightAsked)
      BY <1>1, <1>5, <1>7 DEF AwaitsParams, RightConsensusParams
    <2> QED
      BY <1>2, <1>3, <1>4, <2>1, <2>2, StatusIs, Replied
  <1>8. CASE reply = ConsensusParams /\ ~ HeightAsked <= tip
    <2>1. Respond(Error("INTERNAL"))
      BY <1>2, <1>8 DEF ConsensusParams, Reject, ConsensusParamsStatus, RpcErrorCode, NoCode
    <2>2. RightAnswer = Error("FAILED_PRECONDITION")
      BY <1>1, <1>5, <1>8 DEF AwaitsParams, RightConsensusParams
    <2>3. KnownInternal'
      BY <1>1, <1>3, <2>2 DEF KnownInternal, AwaitsParams
    <2> QED
      BY <1>2, <1>4, <2>1, <2>3, Replied
  <1> QED
    BY <1>2, <1>6, <1>7, <1>8


---------------------------------------------------------------------------
(***************************************************************************)
(* Requests                                                                 *)
(***************************************************************************)
LEMMA Received ==
  ASSUME IInv, Progress, NEW methods, Receive(methods)
  PROVE  /\ request \in Requests /\ UNCHANGED request /\ request.method \in methods
         /\ attempts' \in 1..MaxAttempts /\ failed' = FALSE
         /\ RightAnswer' \in right'
  BY MaxAttemptsAssumption DEF IInv, CallOK, Receive, Progress

\* The nodes have not moved when the handler answers at once.
LEMMA ReceivedAnswers ==
  ASSUME IInv, Progress, NEW methods, Receive(methods), UNCHANGED <<core, platform>>,
         NEW a, Respond(a),
         \/ a = RightAnswer' /\ a.status \in Status \ {"none", "INTERNAL"}
         \/ a = Error("INTERNAL") /\ KnownInternal'
  PROVE  IInv'
  <1>1. CoreOK' /\ PlatformOK'
    BY CoreUnchanged, PlatformUnchanged DEF IInv
  <1>2. Warranted(a)
    BY Received, StatusIs DEF Warranted, NoAnswer
  <1> QED
    BY <1>1, <1>2, Received, Answered

LEMMA ReceivedAwaits ==
  ASSUME IInv, Progress, NEW methods, Receive(methods), UNCHANGED <<core, platform>>,
         NEW rpcs, NEW read, Await(rpcs, read), rpcs # {}, AwaitingOK'
  PROVE  IInv'
  <1>1. CoreOK' /\ PlatformOK'
    BY CoreUnchanged, PlatformUnchanged DEF IInv
  <1> QED
    BY <1>1, Received, Awaited

LEMMA GetBlockKeeps ==
  ASSUME IInv, Progress, UNCHANGED platform, GetBlockHandler
  PROVE  IInv'
  <1>1. Receive({"getBlock"}) /\ UNCHANGED core
    BY DEF GetBlockHandler
  <1>2. UNCHANGED request /\ request'.method = "getBlock" /\ RightAnswer' = RightBlock'
    BY <1>1, MethodDecidesNext DEF RightByMethod, Receive
  <1>3. CASE request.arg = None /\ request.height = 0 /\ Respond(Error("INVALID_ARGUMENT"))
    <2>1. RightAnswer' = Error("INVALID_ARGUMENT")
      BY <1>2, <1>3 DEF RightBlock
    <2> QED
      BY <1>1, <1>3, <2>1, StatusIs, ReceivedAnswers
  <1>4. CASE request.arg = None /\ request.height # 0 /\ Await({"getblockhash"}, None)
    <2>1. AwaitsHeight'
      BY <1>2, <1>4 DEF AwaitsHeight, Await
    <2> QED
      BY <1>1, <1>4, <2>1, ReceivedAwaits DEF AwaitingOK
  <1>5. CASE request.arg # None /\ Await({"getblock"}, request.arg)
    <2>1. AwaitsBlock'
      BY <1>2, <1>5 DEF AwaitsBlock, Await
    <2> QED
      BY <1>1, <1>5, <2>1, ReceivedAwaits DEF AwaitingOK
  <1> QED
    BY <1>3, <1>4, <1>5 DEF GetBlockHandler

LEMMA GetTransactionKeeps ==
  ASSUME IInv, Progress, UNCHANGED platform, GetTransactionHandler
  PROVE  IInv'
  <1>1. Receive({"getTransaction"}) /\ UNCHANGED core
    BY DEF GetTransactionHandler
  <1>2. /\ UNCHANGED request /\ request'.method = "getTransaction"
        /\ RightAnswer' = RightTransaction'
    BY <1>1, MethodDecidesNext DEF RightByMethod, Receive
  <1>3. CASE request.arg = None /\ Respond(Error("INVALID_ARGUMENT"))
    <2>1. RightAnswer' = Error("INVALID_ARGUMENT")
      BY <1>2, <1>3 DEF RightTransaction
    <2> QED
      BY <1>1, <1>3, <2>1, StatusIs, ReceivedAnswers
  <1>4. CASE request.arg # None /\ Await({"getrawtransaction"}, None)
    <2>1. AwaitsTransaction'
      BY <1>2, <1>4 DEF AwaitsTransaction, Await
    <2> QED
      BY <1>1, <1>4, <2>1, ReceivedAwaits DEF AwaitingOK
  <1> QED
    BY <1>3, <1>4 DEF GetTransactionHandler

LEMMA BroadcastTransactionKeeps ==
  ASSUME IInv, Progress, UNCHANGED platform, BroadcastTransactionHandler
  PROVE  IInv'
  <1>1. Receive({"broadcastTransaction"}) /\ UNCHANGED core
    BY DEF BroadcastTransactionHandler
  <1>2. /\ UNCHANGED request /\ request'.method = "broadcastTransaction"
        /\ RightAnswer' = RightBroadcast' /\ request.arg \in Tx \cup {None, BadArg}
    BY <1>1, MethodDecidesNext, RequestsAssumption DEF RightByMethod, Receive, IInv, CallOK
  <1>3. CASE request.arg \in {None, BadArg} /\ Respond(Error("INVALID_ARGUMENT"))
    <2>1. RightAnswer' = Error("INVALID_ARGUMENT")
      BY <1>2, <1>3 DEF RightBroadcast
    <2> QED
      BY <1>1, <1>3, <2>1, StatusIs, ReceivedAnswers
  <1>4. CASE request.arg \notin {None, BadArg} /\ Await({"sendrawtransaction"}, None)
    <2>1. AwaitsBroadcast'
      BY <1>2, <1>4 DEF AwaitsBroadcast, Await
    <2> QED
      BY <1>1, <1>4, <2>1, ReceivedAwaits DEF AwaitingOK
  <1> QED
    BY <1>3, <1>4 DEF BroadcastTransactionHandler

LEMMA GetStatusKeeps ==
  ASSUME IInv, Progress, UNCHANGED platform, GetStatusHandler
  PROVE  IInv'
  <1>1. /\ Receive({"getStatus"}) /\ UNCHANGED core
        /\ Await(StatusRpcs, [rpc \in StatusRpcs |-> None])
    BY DEF GetStatusHandler
  <1>2. UNCHANGED request /\ request'.method = "getStatus"
    BY <1>1 DEF Receive
  <1>3. StatusRpcs # {}
    BY DEF StatusRpcs
  <1>4. AwaitsStatus'
    BY <1>1, <1>2, <1>3 DEF AwaitsStatus, Await
  <1> QED
    BY <1>1, <1>3, <1>4, ReceivedAwaits DEF AwaitingOK

LEMMA CallCommandKeeps ==
  ASSUME IInv, Progress, UNCHANGED platform, CallCommand
  PROVE  IInv'
  <1>1. Receive(JsonRpcMethods) /\ UNCHANGED core
    BY DEF CallCommand
  <1>2. /\ UNCHANGED request /\ request'.method \in JsonRpcMethods
        /\ RightAnswer' = RightCommand' /\ Conforms' = Conforms
    BY <1>1, MethodDecidesNext DEF RightByMethod, Receive, Conforms
  <1>3. CASE request.method \notin Commands /\ Respond(Error("-32601"))
    <2>1. RightAnswer' = Error("-32601")
      BY <1>2, <1>3 DEF RightCommand
    <2> QED
      BY <1>1, <1>3, <2>1, StatusIs, ReceivedAnswers
  <1>4. CASE request.method \in Commands /\ ~ Conforms /\ Respond(Error("-32602"))
    <2>1. RightAnswer' = Error("-32602")
      BY <1>2, <1>4 DEF RightCommand
    <2> QED
      BY <1>1, <1>4, <2>1, StatusIs, ReceivedAnswers
  <1>5. CASE request.method \in Commands /\ Conforms /\ Await({request.method}, None)
    <2>1. AwaitsCommand'
      BY <1>2, <1>5 DEF AwaitsCommand, Await
    <2> QED
      BY <1>1, <1>5, <2>1, ReceivedAwaits DEF AwaitingOK
  <1> QED
    BY <1>3, <1>4, <1>5, CommandErrors DEF CallCommand

\* Requests that end in an abci_query.
LEMMA FetchKeeps ==
  ASSUME IInv, Progress, UNCHANGED <<core, platform>>,
         NEW method \in DriveQueries, Receive({method}), request.arg # BadArg,
         \/ request.arg = None /\ Respond(Error("INVALID_ARGUMENT"))
         \/ Fetch
  PROVE  IInv'
  <1>1. /\ UNCHANGED request /\ request'.method \in DriveQueries
        /\ RightAnswer' = RightObject'
    BY MethodDecidesNext DEF RightByMethod, Receive
  <1>2. CASE request.arg = None /\ Respond(Error("INVALID_ARGUMENT"))
    <2>1. None \notin stored'
      BY NamesAssumption DEF IInv, PlatformOK, platform
    <2>2. RightAnswer' = Error("INVALID_ARGUMENT")
      BY <1>1, <1>2, <2>1 DEF RightObject
    <2> QED
      BY <1>2, <2>2, StatusIs, ReceivedAnswers
  <1>3. CASE Fetch
    <2>1. AwaitsObject'
      BY <1>1, <1>3 DEF AwaitsObject, Fetch, Await
    <2> QED
      BY <1>3, <2>1, ReceivedAwaits DEF AwaitingOK, Fetch
  <1> QED
    BY <1>2, <1>3

LEMMA DriveQueryKeeps ==
  ASSUME IInv, Progress, UNCHANGED core,
         \/ GetIdentityHandler \/ GetDataContractHandler \/ GetDocumentsHandler
         \/ GetIdentitiesByPublicKeyHashesHandler \/ GetIdentityIdsByPublicKeyHashesHandler
  PROVE  IInv'
  <1>1. \A method \in DriveQueries :
          Receive({method}) /\ request.arg = BadArg => method = "getDocuments"
    BY RequestsAssumption DEF IInv, CallOK, Receive
  <1>2. ASSUME NEW method \in DriveQueries \ {"getDocuments"}, FetchByKey(method)
        PROVE  IInv'
    BY <1>1, <1>2, FetchKeeps DEF FetchByKey
  <1>3. CASE GetDataContractHandler
    <2>1. "getDataContract" \in DriveQueries \ {"getDocuments"}
      BY DEF DriveQueries
    <2> QED
      BY <1>1, <1>3, <2>1, FetchKeeps DEF GetDataContractHandler
  <1>4. CASE GetDocumentsHandler
    <2>1. "getDocuments" \in DriveQueries /\ Receive({"getDocuments"}) /\ UNCHANGED platform
      BY <1>4 DEF DriveQueries, GetDocumentsHandler
    <2>2. CASE request.arg = BadArg /\ Respond(Error("INTERNAL"))
      <3>1. KnownInternal'
        BY <2>1, <2>2 DEF KnownInternal, InternalForBadArg, Receive
      <3> QED
        BY <2>1, <2>2, <3>1, ReceivedAnswers
    <2>3. CASE \/ request.arg = None /\ Respond(Error("INVALID_ARGUMENT"))
               \/ request.arg \notin {None, BadArg} /\ Fetch
      BY <2>1, <2>3, NamesAssumption, FetchKeeps
    <2> QED
      BY <1>4, <2>2, <2>3 DEF GetDocumentsHandler
  <1>5. {"getIdentity", "getIdentitiesByPublicKeyHashes", "getIdentityIdsByPublicKeyHashes"}
          \subseteq DriveQueries \ {"getDocuments"}
    BY DEF DriveQueries
  <1> QED
    BY <1>2, <1>3, <1>4, <1>5
    DEF GetIdentityHandler, GetIdentitiesByPublicKeyHashesHandler,
        GetIdentityIdsByPublicKeyHashesHandler

LEMMA BroadcastStateTransitionKeeps ==
  ASSUME IInv, Progress, UNCHANGED core, BroadcastStateTransitionHandler
  PROVE  IInv'
  <1>1. Receive({"broadcastStateTransition"}) /\ UNCHANGED platform
    BY DEF BroadcastStateTransitionHandler
  <1>2. /\ UNCHANGED request /\ request'.method = "broadcastStateTransition"
        /\ RightAnswer' = RightStateTransition' /\ request.arg \in St \cup {None, BadArg}
    BY <1>1, MethodDecidesNext, RequestsAssumption DEF RightByMethod, Receive, IInv, CallOK
  <1>3. CASE request.arg = None /\ Respond(Error("INVALID_ARGUMENT"))
    <2>1. RightAnswer' = Error("INVALID_ARGUMENT")
      BY <1>2, <1>3 DEF RightStateTransition
    <2> QED
      BY <1>1, <1>3, <2>1, StatusIs, ReceivedAnswers
  <1>4. CASE request.arg # None /\ Await({"broadcast_tx_sync"}, None)
    <2>1. AwaitsStateTransition'
      BY <1>2, <1>4 DEF AwaitsStateTransition, Await
    <2> QED
      BY <1>1, <1>4, <2>1, ReceivedAwaits DEF AwaitingOK
  <1> QED
    BY <1>3, <1>4 DEF BroadcastStateTransitionHandler

LEMMA GetConsensusParamsKeeps ==
  ASSUME IInv, Progress, UNCHANGED core, GetConsensusParamsHandler
  PROVE  IInv'
  <1>1. Receive({"getConsensusParams"}) /\ UNCHANGED platform
    BY DEF GetConsensusParamsHandler
  <1>2. /\ UNCHANGED request /\ request'.method = "getConsensusParams"
        /\ RightAnswer' = RightConsensusParams'
    BY <1>1, MethodDecidesNext DEF RightByMethod, Receive
  <1>3. CASE request.arg = BadArg /\ Respond(Error("INVALID_ARGUMENT"))
    <2>1. RightAnswer' = Error("INVALID_ARGUMENT")
      BY <1>2, <1>3 DEF RightConsensusParams
    <2> QED
      BY <1>1, <1>3, <2>1, StatusIs, ReceivedAnswers
  <1>4. CASE request.arg # BadArg /\ Await({"consensus_params"}, None)
    <2>1. AwaitsParams'
      BY <1>2, <1>4 DEF AwaitsParams, Await
    <2> QED
      BY <1>1, <1>4, <2>1, ReceivedAwaits DEF AwaitingOK
  <1> QED
    BY <1>3, <1>4 DEF GetConsensusParamsHandler


---------------------------------------------------------------------------
(***************************************************************************)
(* The nodes move                                                           *)
(***************************************************************************)
\* The answer that was given stays as right as it was.
LEMMA PropertiesKept ==
  ASSUME IInv, UNCHANGED <<request, answer, failed, registered>>, right \subseteq right'
  PROVE  AnswerWasRight' /\ InternalIsServers'
  <1>1. Excused' <=> Excused
    BY DEF Excused
  <1>2. AnswerWasRight'
    BY <1>1 DEF IInv, AnswerWasRight
  <1>3. KnownInternal => KnownInternal'
    <2>1. CASE request.method = "getStatus" /\ ~ registered
      <3>1. request'.method = "getStatus" /\ ~ registered'
        BY <2>1, Zenon
      <3> QED
        BY <3>1 DEF KnownInternal
    <2>2. CASE ~ (request.method = "getStatus" /\ ~ registered)
      BY <2>2, Zenon DEF KnownInternal
    <2> QED
      BY <2>1, <2>2
  <1>4. InternalIsServers'
    BY <1>3 DEF IInv, InternalIsServers
  <1> QED
    BY <1>2, <1>4

\* A handler goes on waiting with what it knows if dashd keeps its blocks, its
\* masternode list, and goes forward in its synchronisation.
LEMMA NodesMove ==
  ASSUME IInv, Progress, UNCHANGED call, CoreOK', PlatformOK',
         known \subseteq known', UNCHANGED registered,
         stage' = stage \/ (stage' = stage + 1 /\ request.method = "getStatus")
  PROVE  IInv'
  <1>1. UNCHANGED <<request, attempts, awaiting, readings, answer, failed>>
    BY DEF call
  <1>2. right \subseteq right' /\ RightAnswer' \in right' /\ stage \in 0..3 /\ stage' \in 0..3
    BY <1>1 DEF Progress, IInv, CoreOK
  <1>3. CallOK' /\ RightNow'
    BY <1>1, <1>2 DEF IInv, CallOK, RightNow
  <1>4. AwaitingOK'
    <2>1. CASE AwaitsStatus
      <3>1. stage' > 0 /\ stage = 0 => Ok("SYNCING") \in right'
        <4>1. SUFFICES ASSUME stage' = 1
                       PROVE  Ok("SYNCING") \in right'
          BY <1>2
        <4>2. RightAnswer' = RightStatus'
          BY <1>1, <2>1, MethodDecidesNext DEF RightByMethod, AwaitsStatus
        <4>3. RightStatus' = Ok("SYNCING")
          BY <4>1 DEF RightStatus
        <4> QED
          BY <1>2, <4>2, <4>3
      <3>2. ASSUME NEW rpc \in StatusRpcs, ReadingRight(rpc)
            PROVE  ReadingRight(rpc)'
        <4>1. CASE rpc = "masternode"
          BY <1>1, <3>2, <4>1 DEF ReadingRight
        <4>2. CASE rpc = "getblockchaininfo"
          <5>1. stage > 0 => stage' > 0
            BY <1>2
          <5> QED
            BY <1>1, <1>2, <3>2, <4>2, <5>1 DEF ReadingRight
        <4>3. CASE rpc = "mnsync"
          <5>1. stage' = 0 \/ stage > 0 \/ Ok("SYNCING") \in right'
            BY <1>2, <3>1
          <5> QED
            BY <1>1, <1>2, <3>2, <4>3, <5>1 DEF ReadingRight
        <4>4. CASE rpc = "getnetworkinfo"
          BY <4>4 DEF ReadingRight
        <4> QED
          BY <4>1, <4>2, <4>3, <4>4 DEF StatusRpcs
      <3> QED
        BY <1>1, <2>1, <3>2 DEF AwaitsStatus, AwaitingOK
    <2>2. CASE AwaitsBlock
      BY <1>1, <1>2, <2>2 DEF AwaitsBlock, AwaitingOK
    <2>3. CASE \/ awaiting = {} \/ AwaitsHeight \/ AwaitsTransaction \/ AwaitsBroadcast
               \/ AwaitsCommand \/ AwaitsObject \/ AwaitsStateTransition \/ AwaitsParams
      BY <1>1, <2>3
      DEF AwaitingOK, AwaitsHeight, AwaitsTransaction, AwaitsBroadcast, AwaitsCommand,
          AwaitsObject, AwaitsStateTransition, AwaitsParams, Conforms
    <2> QED
      BY <2>1, <2>2, <2>3 DEF IInv, AwaitingOK
  <1>5. AnswerWasRight' /\ InternalIsServers'
    BY <1>1, <1>2, PropertiesKept
  <1> QED
    BY <1>3, <1>4, <1>5 DEF IInv

LEMMA DashdMovesKeeps ==
  ASSUME IInv, Progress, UNCHANGED platform, ChainOrMempoolChanges \/ SynchronisationAdvances
  PROVE  IInv'
  <1>1. PlatformOK'
    BY PlatformUnchanged DEF IInv
  <1>2. ASSUME NEW c \in Chains, SwitchChain(c), UNCHANGED <<stage, registered, call>>
        PROVE  IInv'
    <2>1. CoreOK' /\ known \subseteq known'
      BY <1>2, SwitchChainType DEF IInv, CoreOK
    <2> QED
      BY <1>1, <1>2, <2>1, NodesMove
  <1>3. ASSUME NEW tx \in Tx, EnterMempool(tx) \/ LeaveMempool(tx),
               UNCHANGED <<stage, registered, call>>
        PROVE  IInv'
    <2>1. CoreOK' /\ known \subseteq known'
      BY <1>3 DEF IInv, CoreOK, EnterMempool, LeaveMempool
    <2> QED
      BY <1>1, <1>3, <2>1, NodesMove
  <1>4. CASE SynchronisationAdvances
    <2>1. CoreOK' /\ known \subseteq known'
      BY <1>4 DEF IInv, CoreOK, SynchronisationAdvances, dashd
    <2> QED
      BY <1>1, <1>4, <2>1, NodesMove DEF SynchronisationAdvances
  <1> QED
    BY <1>2, <1>3, <1>4 DEF ChainOrMempoolChanges

LEMMA PlatformMovesKeeps ==
  ASSUME IInv, Progress, UNCHANGED core, PlatformMoves
  PROVE  IInv'
  <1>1. CoreOK' /\ known \subseteq known' /\ UNCHANGED <<stage, registered>>
    BY CoreUnchanged DEF IInv, core, dashd
  <1>2. PlatformOK'
    <2>1. stored' \subseteq Object /\ inCache' \subseteq St
      BY DEF IInv, PlatformOK, PlatformMoves
    <2>2. tip' \in 1..MaxTip
      BY MaxTipAssumption DEF IInv, PlatformOK, PlatformMoves
    <2>3. full' \in BOOLEAN
      BY Zenon DEF IInv, PlatformOK, PlatformMoves
    <2> QED
      BY <2>1, <2>2, <2>3 DEF PlatformOK
  <1> QED
    BY <1>1, <1>2, NodesMove DEF PlatformMoves

---------------------------------------------------------------------------
(***************************************************************************)
(* The invariant                                                            *)
(***************************************************************************)
LEMMA InitInvariant == Init => IInv
  <1> SUFFICES ASSUME Init PROVE IInv
    OBVIOUS
  <1>1. CoreOK
    <2>1. \A c \in Chains : ToSet(c) \subseteq Block
      <3> TAKE c \in Chains
      <3>1. c \in Seq(Block)
        BY ChainsAssumption
      <3> QED
        BY <3>1, LenProperties DEF ToSet
    <2> QED
      BY <2>1 DEF Init, CoreInit, DashdInit, CoreOK
  <1>2. PlatformOK
    <2>1. stored \subseteq Object /\ inCache \subseteq St /\ tip \in 1..MaxTip
      BY MaxTipAssumption DEF Init, PlatformInit
    <2>2. full \in BOOLEAN
      BY Zenon DEF Init, PlatformInit
    <2> QED
      BY <2>1, <2>2 DEF PlatformOK
  <1>3. /\ request \in Requests /\ attempts = 0 /\ awaiting = {} /\ answer = NoAnswer
        /\ failed = FALSE
    BY DEF Init, CallInit
  <1>4. answer.status = "none" /\ "none" \in Status
    BY <1>3, StatusIs DEF NoAnswer
  <1>5. CallOK
    <2>1. request \in Requests /\ attempts \in 0..MaxAttempts /\ ~ attempts > 0
      BY <1>3, MaxAttemptsAssumption
    <2>2. failed \in BOOLEAN
      BY <1>3
    <2> QED
      BY <1>3, <1>4, <2>1, <2>2 DEF CallOK
  <1>6. RightNow /\ AwaitingOK /\ AnswerWasRight /\ InternalIsServers
    BY <1>3, <1>4 DEF RightNow, AwaitingOK, AnswerWasRight, InternalIsServers
  <1> QED
    BY <1>1, <1>2, <1>5, <1>6 DEF IInv

LEMMA NextInvariant ==
  ASSUME IInv, Next
  PROVE  IInv'
  <1>1. Progress
    BY DEF Next, Progress
  <1>2. CASE UNCHANGED platform /\ CoreRequest
    BY <1>1, <1>2, GetBlockKeeps, GetTransactionKeeps, BroadcastTransactionKeeps,
       GetStatusKeeps, CallCommandKeeps
    DEF CoreRequest
  <1>3. CASE UNCHANGED platform /\ CoreReply
    BY <1>1, <1>3, HeightLookedUpKeeps, BlockReadKeeps, TransactionReadKeeps,
       TransactionSentKeeps, StatusReadKeeps, CommandReadKeeps, BlockGeneratedKeeps
    DEF CoreReply
  <1>4. CASE UNCHANGED platform /\ (ChainOrMempoolChanges \/ SynchronisationAdvances)
    BY <1>1, <1>4, DashdMovesKeeps
  <1>5. CASE UNCHANGED core /\ PlatformRequest
    BY <1>1, <1>5, DriveQueryKeeps, BroadcastStateTransitionKeeps, GetConsensusParamsKeeps
    DEF PlatformRequest
  <1>6. CASE UNCHANGED core /\ PlatformReply
    BY <1>1, <1>6, ObjectFetchedKeeps, StateTransitionSentKeeps, ConsensusParamsReadKeeps
    DEF PlatformReply
  <1>7. CASE UNCHANGED core /\ PlatformMoves
    BY <1>1, <1>7, PlatformMovesKeeps
  <1> QED
    BY <1>2, <1>3, <1>4, <1>5, <1>6, <1>7 DEF Next, CoreStep, PlatformStep

LEMMA StutterInvariant ==
  ASSUME IInv, UNCHANGED vars
  PROVE  IInv'
  <1> USE DEF vars, core, dashd, platform, call
  <1>1. CoreOK' /\ PlatformOK'
    BY CoreUnchanged, PlatformUnchanged DEF IInv
  <1>2. RightAnswer' = RightAnswer
    BY ZenonT(60) DEF RightAnswer, RightBlock, RightTransaction, RightBroadcast, RightStatus,
       RightCommand, RightObject, RightStateTransition, RightConsensusParams,
       KnownAsMined, SpentUp, Holds, BlockOf, TxsIn, HeightAsked, Conforms
  <1>3. CallOK' /\ RightNow'
    BY <1>2 DEF IInv, CallOK, RightNow
  <1>4. AwaitingOK'
    BY DEF IInv, AwaitingOK, AwaitsHeight, AwaitsBlock, AwaitsTransaction, AwaitsBroadcast,
           AwaitsStatus, ReadingRight, AwaitsCommand, AwaitsObject, AwaitsStateTransition,
           AwaitsParams, Conforms
  <1>5. AnswerWasRight' /\ InternalIsServers'
    BY PropertiesKept
  <1> QED
    BY <1>1, <1>3, <1>4, <1>5 DEF IInv

LEMMA Invariant == Spec => []IInv
  <1>1. IInv /\ [Next]_vars => IInv'
    BY NextInvariant, StutterInvariant
  <1> QED
    BY InitInvariant, <1>1, PTL DEF Spec

---------------------------------------------------------------------------
(***************************************************************************)
(* The properties                                                           *)
(***************************************************************************)
\* Types, and that a request is answered or a reply is under way: no path of
\* any handler forgets to answer.
THEOREM RequestsTypeCorrect == Spec => []TypeOK
  <1>1. IInv => TypeOK
    <2> SUFFICES ASSUME IInv PROVE TypeOK
      OBVIOUS
    <2>1. awaiting \subseteq StatusRpcs \cup JsonRpcMethods \cup
            {"getblockhash", "getblock", "getrawtransaction", "sendrawtransaction",
             "abci_query", "broadcast_tx_sync", "consensus_params"}
      BY DEF IInv, AwaitingOK, AwaitsHeight, AwaitsBlock, AwaitsTransaction, AwaitsBroadcast,
             AwaitsStatus, AwaitsCommand, AwaitsObject, AwaitsStateTransition, AwaitsParams
    <2> QED
      BY <2>1 DEF IInv, CoreOK, PlatformOK, CallOK, TypeOK
  <1> QED
    BY Invariant, <1>1, PTL

\* Whatever dashd, Drive and Tenderdash did between the RPCs of a handler, its
\* answer was right at an instant of the request, or owns up to a failure.
THEOREM AnswersWereRight == Spec => []AnswerWasRight
  BY Invariant, PTL DEF IInv

\* Over the replies that the modules give the nodes, INTERNAL means that a node
\* could not be asked, but for the cases that KnownInternal lists, whatever the
\* nodes did between the RPCs of a handler.
THEOREM InternalIsTheServers == Spec => []InternalIsServers
  BY Invariant, PTL DEF IInv


---------------------------------------------------------------------------
(***************************************************************************)
(* Broadcasts                                                               *)
(***************************************************************************)
Refusals == {"INVALID_ARGUMENT", "FAILED_PRECONDITION"}

\* Only the handler of broadcastTransaction answers it.
LEMMA AnswersBroadcast ==
  ASSUME IInv, Next, request.method = "broadcastTransaction", answer' # answer
  PROVE  BroadcastTransactionHandler \/ TransactionSent
  <1>1. ~ GetBlockHandler /\ ~ GetTransactionHandler /\ ~ GetStatusHandler /\ ~ CallCommand
    BY DEF GetBlockHandler, GetTransactionHandler, GetStatusHandler, CallCommand,
           Receive, JsonRpcMethods
  <1>2. ~ HeightLookedUp /\ ~ BlockRead /\ ~ TransactionRead
    BY AwaitingSays
    DEF IInv, HeightLookedUp, BlockRead, TransactionRead, AwaitsHeight,
        AwaitsBlock, AwaitsTransaction
  <1>3. /\ \A rpc \in StatusRpcs : ~ StatusRead(rpc)
        /\ ~ CommandRead /\ ~ BlockGenerated
    BY AwaitingSays
    DEF IInv, StatusRead, AwaitsStatus, CommandRead, BlockGenerated, AwaitsCommand,
        JsonRpcMethods
  <1>4. ~ ChainOrMempoolChanges /\ ~ SynchronisationAdvances /\ ~ PlatformMoves
    BY DEF ChainOrMempoolChanges, SynchronisationAdvances, PlatformMoves, call
  <1>5. ~ PlatformRequest
    BY DEF PlatformRequest, GetIdentityHandler, GetIdentitiesByPublicKeyHashesHandler,
           GetIdentityIdsByPublicKeyHashesHandler, FetchByKey, GetDataContractHandler,
           GetDocumentsHandler, BroadcastStateTransitionHandler, GetConsensusParamsHandler,
           Receive
  <1>6. ~ PlatformReply
    BY AwaitingSays
    DEF IInv, PlatformReply, ObjectFetched, AwaitsObject, DriveQueries, StateTransitionSent,
        AwaitsStateTransition, ConsensusParamsRead, AwaitsParams
  <1> QED
    BY <1>1, <1>2, <1>3, <1>4, <1>5, <1>6
    DEF Next, CoreStep, PlatformStep, CoreRequest, CoreReply

\* dashd holds transactions, and neither None nor BadArg.
LEMMA HeldAre ==
  ASSUME IInv
  PROVE  mempool \cup TxsIn(chain) \subseteq Tx
  <1>1. chain \in Seq(Block)
    BY ChainsAssumption DEF IInv, CoreOK
  <1>2. TxsIn(chain) \subseteq Tx
    BY <1>1, LenProperties, TxsOfAssumption DEF TxsIn
  <1> QED
    BY <1>2 DEF IInv, CoreOK

LEMMA TransactionRefused ==
  ASSUME IInv, TransactionSent, answer'.status \in Refusals
  PROVE  request.arg \notin mempool /\ ~ KnownAsMined(request.arg)
  <1> DEFINE tx   == request.arg
             code == SendRawTransaction(tx)
  <1>1. AwaitsBroadcast
    BY AwaitingSays DEF TransactionSent, IInv
  <1>2. PICK reply \in {IF code = 0 THEN Resolve(tx) ELSE Reject(code), Unanswered} :
          \/ reply.ok /\ Respond(Ok(None))
          \/ ~ reply.ok /\ Respond(Error(SendRawTransactionStatus(reply.code)))
    BY UnansweredIs DEF TransactionSent
  <1>3. reply # Unanswered
    BY <1>2, UnansweredIs, SendRawTransactionStatusIs, StatusIs DEF Respond, Refusals
  <1>4. code # 0
    BY <1>2, <1>3, StatusIs, RepliesSay DEF Respond, Refusals
  <1>5. SendRawTransactionStatus(code) \in Refusals
    BY <1>2, <1>3, <1>4, StatusIs, RepliesSay DEF Respond
  <1>6. code # -27
    BY <1>5, SendRawTransactionStatusIs DEF Refusals
  <1> QED
    BY <1>4, <1>6 DEF SendRawTransaction

\* A transaction that the node has, with an output left to know it by, is not
\* refused as wrong: a client may send it again whenever it is in doubt.
THEOREM HeldIsNotRefused == Spec => NotRefusedIfHeld
  <1>1. ASSUME IInv, Next, request.method = "broadcastTransaction", answer' # answer,
               answer'.status \in Refusals
        PROVE  request.arg \notin mempool /\ ~ KnownAsMined(request.arg)
    <2>1. CASE TransactionSent
      BY <1>1, <2>1, TransactionRefused
    <2>2. CASE BroadcastTransactionHandler
      <3>1. answer' # NoAnswer
        BY <1>1, StatusIs DEF NoAnswer, Refusals
      <3>2. request.arg \in {None, BadArg}
        BY <2>2, <3>1 DEF BroadcastTransactionHandler, Await
      <3>3. request.arg \notin mempool \cup TxsIn(chain)
        BY <1>1, <3>2, HeldAre, NamesAssumption
      <3> QED
        BY <3>3 DEF KnownAsMined
    <2> QED
      BY <1>1, <2>1, <2>2, AnswersBroadcast
  <1>2. IInv /\ [Next]_vars =>
          [ request.method = "broadcastTransaction" /\ answer' # answer
            /\ answer'.status \in {"INVALID_ARGUMENT", "FAILED_PRECONDITION"}
            => request.arg \notin mempool /\ ~ KnownAsMined(request.arg) ]_vars
    BY <1>1 DEF Refusals
  <1> QED
    BY Invariant, <1>2, PTL DEF Spec, NotRefusedIfHeld

===============================================================================
