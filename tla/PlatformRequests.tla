-------------------------- MODULE PlatformRequests --------------------------
(***************************************************************************)
(* The requests that Drive and Tenderdash answer: grpcServer/handlers/       *)
(* platform except waitForStateTransitionResult, with DriveClient,           *)
(* getConsensusParams and createGrpcErrorFromDriveResponse.  BadArg is an    *)
(* argument that does not decode (getDocuments' where and orderBy), a proof  *)
(* where none is implemented (getConsensusParams), or a state transition     *)
(* that is larger than Tenderdash takes (broadcastStateTransition).          *)
(***************************************************************************)
EXTENDS UnaryRequest

CONSTANTS Object,          \* identities, contracts and documents
          St,              \* state transitions
          CheckTxCode,     \* Drive's verdict on each of them (0: accepted)
          ConsensusErrors, \* codes that createConsensusError knows
          MaxTip           \* bound: height of the platform chain

ASSUME CheckTxAssumption == CheckTxCode \in [St -> Nat]
ASSUME ConsensusErrorsAssumption == ConsensusErrors \subseteq 1000..4999
ASSUME MaxTipAssumption  == MaxTip \in Nat \ {0}

VARIABLES stored,  \* objects in Drive
          inCache, \* state transitions in Tenderdash's cache
          full,    \* is Tenderdash's mempool full?
          tip      \* height of the platform chain

platform == <<stored, inCache, full, tip>>

DriveQueries == {"getIdentity", "getDataContract", "getDocuments",
                 "getIdentitiesByPublicKeyHashes", "getIdentityIdsByPublicKeyHashes"}

\* Every handler is wrapped in wrapInErrorHandler: a GrpcError passes, any
\* other error becomes INTERNAL.
PlatformMethods == DriveQueries \cup {"broadcastStateTransition", "getConsensusParams"}

PlatformInit == stored = {} /\ inCache = {} /\ full = FALSE /\ tip = 1

---------------------------------------------------------------------------
(***************************************************************************)
(* createGrpcErrorFromDriveResponse, for a code other than 0                 *)
(***************************************************************************)
GrpcErrorCodes ==
  <<"CANCELLED", "UNKNOWN", "INVALID_ARGUMENT", "DEADLINE_EXCEEDED", "NOT_FOUND",
    "ALREADY_EXISTS", "PERMISSION_DENIED", "RESOURCE_EXHAUSTED", "FAILED_PRECONDITION",
    "ABORTED", "OUT_OF_RANGE", "UNIMPLEMENTED", "INTERNAL", "UNAVAILABLE", "DATA_LOSS",
    "UNAUTHENTICATED">>

\* basic, signature, fee, state
ConsensusErrorStatus(code) ==
  IF code < 2000 THEN "INVALID_ARGUMENT"
  ELSE IF code < 3000 THEN "UNAUTHENTICATED"
  ELSE IF code < 4000 THEN "FAILED_PRECONDITION"
  ELSE "INVALID_ARGUMENT"

\* A common error class or GrpcError(code); a consensus error by its kind.
\* createConsensusError throws for a code that this version of DPP does not
\* know.
CreateGrpcError(code) ==
  IF code \in 1..16 THEN GrpcErrorCodes[code]
  ELSE IF code \in 17..999 THEN "UNKNOWN"
  ELSE IF code \in ConsensusErrors THEN ConsensusErrorStatus(code)
  ELSE "INTERNAL"

---------------------------------------------------------------------------
(***************************************************************************)
(* Queries to Drive                                                          *)
(***************************************************************************)
Fetch == Await({"abci_query"}, None)

FetchByKey(method) ==
  /\ Receive({method})
  /\ \/ request.arg = None /\ Respond(Error("INVALID_ARGUMENT"))
     \/ request.arg # None /\ Fetch
  /\ UNCHANGED platform

GetIdentityHandler == FetchByKey("getIdentity")

\* None: an empty list.
GetIdentitiesByPublicKeyHashesHandler   == FetchByKey("getIdentitiesByPublicKeyHashes")
GetIdentityIdsByPublicKeyHashesHandler  == FetchByKey("getIdentityIdsByPublicKeyHashes")

\* The id of a request is never null: one that is not set is empty.
GetDataContractHandler ==
  /\ Receive({"getDataContract"})
  /\ Fetch
  /\ UNCHANGED platform

\* None: no contract or no type.
GetDocumentsHandler ==
  /\ Receive({"getDocuments"})
  /\ \/ request.arg = None /\ Respond(Error("INVALID_ARGUMENT"))
     \/ request.arg = BadArg /\ Respond(Error("INTERNAL"))
     \/ request.arg \notin {None, BadArg} /\ Fetch
  /\ UNCHANGED platform

\* Drive's reply: a value, NOT_FOUND (5), or INVALID_ARGUMENT (3) for an
\* argument that is none.
QueryCode ==
  CASE request.arg = None                         -> 3
    [] request.arg # None /\ request.arg \in stored    -> 0
    [] request.arg # None /\ request.arg \notin stored -> 5

\* A JSON-RPC error becomes an RPCError, which is no GrpcError.
DriveClientAnswer(reply) ==
  CASE reply.ok /\ reply.value = 0 -> Ok(request.arg)
    [] reply.ok /\ reply.value # 0 -> Error(CreateGrpcError(reply.value))
    [] ~ reply.ok                  -> Error("INTERNAL")

ObjectFetched ==
  /\ "abci_query" \in awaiting
  /\ \E reply \in {Resolve(QueryCode), Unanswered} :
       /\ Hear(reply)
       /\ Respond(DriveClientAnswer(reply))
  /\ UNCHANGED platform

---------------------------------------------------------------------------
(***************************************************************************)
(* broadcastStateTransition                                                  *)
(***************************************************************************)
BroadcastStateTransitionHandler ==
  /\ Receive({"broadcastStateTransition"})
  /\ \/ request.arg = None /\ Respond(Error("INVALID_ARGUMENT"))
     \/ request.arg # None /\ Await({"broadcast_tx_sync"}, None)
  /\ UNCHANGED platform

\* All errors of Tenderdash's mempool have one code; `data` tells them apart.
Refused(data) == [ok |-> FALSE, message |-> "Internal error", data |-> data]

\* What broadcast_tx_sync says: what the mempool does not take is an error of
\* the RPC, Drive's verdict a result.
BroadcastTxSync(st) ==
  IF full THEN Refused("mempool is full")
  ELSE IF st = BadArg THEN Refused("Tx too large")
  ELSE IF st \in inCache THEN Refused("tx already exists in cache")
  ELSE Resolve(CheckTxCode[st])

\* (A definition set before another and not used here is a bug that
\* PROJECT.json puts in its place.)  The text is looked for where it is not.
BroadcastAnswerByMessage(reply) ==
  CASE ~ reply.ok /\ reply.message = "tx already exists in cache" -> Error("ALREADY_EXISTS")
    [] ~ reply.ok /\ reply.message # "tx already exists in cache" -> Error("INTERNAL")
    [] reply.ok /\ reply.value = 0 -> Ok(None)
    [] reply.ok /\ reply.value # 0 -> Error(CreateGrpcError(reply.value))

\* An RPC error that is not about the cache is thrown as it is.
BroadcastAnswer(reply) ==
  CASE ~ reply.ok /\ reply.data = "tx already exists in cache" -> Error("ALREADY_EXISTS")
    [] ~ reply.ok /\ reply.data # "tx already exists in cache" -> Error("INTERNAL")
    [] reply.ok /\ reply.value = 0 -> Ok(None)
    [] reply.ok /\ reply.value # 0 -> Error(CreateGrpcError(reply.value))

\* The reply may be lost although Tenderdash took the state transition.
StateTransitionSent ==
  /\ "broadcast_tx_sync" \in awaiting
  /\ LET reply == BroadcastTxSync(request.arg)
     IN  \/ /\ inCache' = inCache \cup
                          {st \in {request.arg} : reply.ok /\ reply.value = 0}
            /\ \/ Hear(reply) /\ Respond(BroadcastAnswer(reply))
               \/ Hear(Unanswered) /\ Respond(Error("INTERNAL"))
         \/ /\ Hear(Unanswered) /\ Respond(Error("INTERNAL"))
            /\ UNCHANGED inCache
  /\ UNCHANGED <<stored, full, tip>>

---------------------------------------------------------------------------
(***************************************************************************)
(* getConsensusParams                                                        *)
(***************************************************************************)
GetConsensusParamsHandler ==
  /\ Receive({"getConsensusParams"})
  /\ \/ request.arg = BadArg /\ Respond(Error("INVALID_ARGUMENT"))
     \/ request.arg # BadArg /\ Await({"consensus_params"}, None)
  /\ UNCHANGED platform

\* Height 0 is a height that is not set.
HeightAsked == IF request.height = 0 THEN tip ELSE request.height

ConsensusParams ==
  IF HeightAsked <= tip THEN Resolve(HeightAsked) ELSE Reject(-32603)

\* The error's code, or -32602 if it has none
RpcErrorCode(code) == IF code = NoCode THEN -32602 ELSE code

ConsensusParamsStatus(code) ==
  IF RpcErrorCode(code) = 32603 THEN "FAILED_PRECONDITION" ELSE "INTERNAL"

ConsensusParamsRead ==
  /\ "consensus_params" \in awaiting
  /\ \E reply \in {ConsensusParams, Unanswered} :
       /\ Hear(reply)
       /\ \/ reply.ok /\ Respond(Ok(reply.value))
          \/ ~ reply.ok /\ Respond(Error(ConsensusParamsStatus(reply.code)))
  /\ UNCHANGED platform

PlatformReply ==
  ObjectFetched \/ StateTransitionSent \/ ConsensusParamsRead

PlatformRequest ==
  \/ GetIdentityHandler
  \/ GetIdentitiesByPublicKeyHashesHandler \/ GetIdentityIdsByPublicKeyHashesHandler
  \/ GetDataContractHandler \/ GetDocumentsHandler
  \/ BroadcastStateTransitionHandler \/ GetConsensusParamsHandler

---------------------------------------------------------------------------
(***************************************************************************)
(* Drive and Tenderdash.  They move in what the request may be answered      *)
(* from: objects come and go, another client broadcasts, Tenderdash forgets  *)
(* a state transition, its mempool fills and empties, blocks are made.       *)
(***************************************************************************)
PlatformMoves ==
  /\ \/ /\ request.method \in DriveQueries
        /\ \E o \in Object : stored' = IF o \in stored THEN stored \ {o} ELSE stored \cup {o}
        /\ UNCHANGED <<inCache, full, tip>>
     \/ /\ request.method = "broadcastStateTransition"
        /\ \/ /\ request.arg \in St \ inCache /\ CheckTxCode[request.arg] = 0 /\ ~ full
              /\ inCache' = inCache \cup {request.arg}
              /\ UNCHANGED full
           \/ /\ request.arg \in inCache
              /\ inCache' = inCache \ {request.arg}
              /\ UNCHANGED full
           \/ /\ full' = ~ full
              /\ UNCHANGED inCache
        /\ UNCHANGED <<stored, tip>>
     \/ /\ request.method = "getConsensusParams" /\ tip < MaxTip
        /\ tip' = tip + 1
        /\ UNCHANGED <<stored, inCache, full>>
  /\ UNCHANGED call

=============================================================================
