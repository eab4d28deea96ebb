----------------------------- MODULE ApiRequests -----------------------------
(***************************************************************************)
(* One request, of any kind, against nodes that keep moving, and what its    *)
(* answers promise.                                                          *)
(***************************************************************************)
EXTENDS CoreRequests, PlatformRequests

CONSTANT Requests  \* requests a client may send

ASSUME RequestsAssumption ==
  \A r \in Requests :
    /\ r = [method |-> r.method, arg |-> r.arg, height |-> r.height]
    /\ r.method \in CoreMethods \cup JsonRpcMethods \cup PlatformMethods
    /\ r.height \in Nat
    \* genesis is not in a chain
    /\ r.method = "getBlockHash" => r.arg = BadArg \/ r.height > 0
    /\ r.method = "broadcastTransaction" => r.arg \in Tx \cup {None, BadArg}
    /\ r.method = "broadcastStateTransition" => r.arg \in St \cup {None, BadArg}
    /\ r.arg = BadArg /\ r.method \in DriveQueries => r.method = "getDocuments"

\* None and BadArg name nothing else.
ASSUME NamesAssumption ==
  /\ {None, BadArg} \cap (Tx \cup Block \cup St \cup Object) = {}
  /\ None # BadArg

VARIABLE right  \* history: the answers that were right since the request was sent

vars == <<core, platform, call, right>>

---------------------------------------------------------------------------
(***************************************************************************)
(* The answer of a server that looks at the node in one instant              *)
(***************************************************************************)
\* What Drive's codes mean; a consensus error by its thousand.
MeaningOf(code) ==
  IF code = 0 THEN "OK"
  ELSE IF code < 17 THEN GrpcErrorCodes[code]
  ELSE IF code < 1000 THEN "UNKNOWN"
  ELSE IF code < 5000
       THEN <<"INVALID_ARGUMENT", "UNAUTHENTICATED", "FAILED_PRECONDITION",
              "INVALID_ARGUMENT">>[code \div 1000]
  ELSE "INTERNAL"

RightBlock ==
  IF request.arg = BadArg THEN Error("INVALID_ARGUMENT")
  ELSE IF request.arg # None
  THEN IF request.arg \in known THEN Ok(request.arg) ELSE Error("NOT_FOUND")
  ELSE IF request.height = 0 \/ request.height > MaxInt THEN Error("INVALID_ARGUMENT")
  ELSE IF request.height \in DOMAIN chain THEN Ok(chain[request.height])
  ELSE Error("NOT_FOUND")

RightTransaction ==
  IF request.arg \in {None, BadArg} THEN Error("INVALID_ARGUMENT")
  ELSE IF Holds(request.arg) THEN Ok(BlockOf(request.arg))
  ELSE Error("NOT_FOUND")

RightBroadcast ==
  IF request.arg \in {None, BadArg} THEN Error("INVALID_ARGUMENT")
  ELSE IF KnownAsMined(request.arg) THEN Error("ALREADY_EXISTS")
  ELSE IF request.arg \in mempool THEN Ok(None)
  ELSE IF Refusal[request.arg] = -26 THEN Error("FAILED_PRECONDITION")
  ELSE IF \/ Refusal[request.arg] = -22
          \/ request.arg \in TxsIn(chain)   \* and spent up
          \/ \E p \in Parents[request.arg] : ~ Holds(p)
       THEN Error("INVALID_ARGUMENT")
  ELSE Ok(None)

RightStatus == Ok(<<"NOT_STARTED", "SYNCING", "SYNCING", "READY">>[stage + 1])

RightCommand ==
  IF request.method \notin Commands THEN Error("-32601")
  ELSE IF \/ ~ Conforms
          \/ request.method = "getBlockHash" /\ request.height \notin DOMAIN chain
          \/ request.method = "getMnListDiff" /\ request.arg \notin known
       THEN Error("-32602")
  ELSE IF request.method = "getBlockHash" THEN Ok(chain[request.height])
  ELSE IF request.method = "getMnListDiff" THEN Ok(request.arg)
  ELSE Ok(Last(chain))

RightObject ==
  IF request.arg \in stored THEN Ok(request.arg)
  ELSE IF request.arg \in {None, BadArg} THEN Error("INVALID_ARGUMENT")
  ELSE Error("NOT_FOUND")

RightStateTransition ==
  IF request.arg \in {None, BadArg} THEN Error("INVALID_ARGUMENT")
  ELSE IF full THEN Error("RESOURCE_EXHAUSTED")
  ELSE IF request.arg \in inCache THEN Error("ALREADY_EXISTS")
  ELSE [status |-> MeaningOf(CheckTxCode[request.arg]), value |-> None]

RightConsensusParams ==
  IF request.arg = BadArg THEN Error("INVALID_ARGUMENT")
  ELSE IF HeightAsked <= tip THEN Ok(HeightAsked)
  ELSE Error("FAILED_PRECONDITION")

RightAnswer ==
  CASE request.method = "getBlock"                  -> RightBlock
    [] request.method = "getTransaction"            -> RightTransaction
    [] request.method = "broadcastTransaction"      -> RightBroadcast
    [] request.method = "getStatus"                 -> RightStatus
    [] request.method \in JsonRpcMethods            -> RightCommand
    [] request.method \in DriveQueries              -> RightObject
    [] request.method = "broadcastStateTransition"  -> RightStateTransition
    [] request.method = "getConsensusParams"        -> RightConsensusParams

---------------------------------------------------------------------------

Init ==
  /\ request \in Requests
  /\ CoreInit /\ PlatformInit /\ CallInit
  /\ right = {}

CoreStep ==
  /\ \/ CoreRequest
     \/ CoreReply
     \/ ChainOrMempoolChanges
     \/ SynchronisationAdvances
  /\ UNCHANGED platform

PlatformStep ==
  /\ \/ PlatformRequest
     \/ PlatformReply
     \/ PlatformMoves
  /\ UNCHANGED core

Next ==
  /\ CoreStep \/ PlatformStep
  /\ right' = (IF attempts' = attempts THEN right ELSE {}) \cup {RightAnswer'}

Spec == Init /\ [][Next]_vars

---------------------------------------------------------------------------
(***************************************************************************)
(* Properties                                                                *)
(***************************************************************************)
Status == {GrpcErrorCodes[c] : c \in 1..16} \cup {"OK", "none", "-32601", "-32602", "-32603"}

TypeOK ==
  /\ request \in Requests /\ attempts \in 0..MaxAttempts
  /\ awaiting \subseteq StatusRpcs \cup JsonRpcMethods \cup
       {"getblockhash", "getblock", "getrawtransaction", "sendrawtransaction",
        "abci_query", "broadcast_tx_sync", "consensus_params"}
  /\ answer.status \in Status
  /\ failed \in BOOLEAN
  /\ chain \in Chains /\ known \subseteq Block /\ mempool \subseteq Tx
  /\ stage \in 0..3 /\ registered \in BOOLEAN
  /\ stored \subseteq Object /\ inCache \subseteq St /\ full \in BOOLEAN /\ tip \in 1..MaxTip
  \* A request is answered, or a reply is under way.
  /\ attempts > 0 => (answer = NoAnswer <=> awaiting # {})

\* Statuses that own up to a failure of the server's side.  The JSON-RPC
\* server reports a dashd that does not answer with the same -32602 as a bad
\* argument.
Excused == answer.status = "INTERNAL" \/ (answer.status = "-32602" /\ failed)

\* An answer, of success or of error, was the right one at some instant of the
\* request, although the two RPCs of getBlock and the four of getStatus read
\* dashd at different instants; and a failure to ask a node is never told as
\* something else.
AnswerWasRight ==
  answer # NoAnswer /\ ~ Excused => answer \in right

\* Codes that are internal to Drive or unknown to this version.
InternalCode(code) == code = 13 \/ (code >= 1000 /\ code \notin ConsensusErrors)

\* Methods that answer INTERNAL to an argument that is no good: dashd's -8 for
\* a hash that does not parse, the TypeError of a query that does not decode,
\* and Tenderdash's error for a state transition that is too large are thrown
\* as they are.
InternalForBadArg == {"getBlock", "getTransaction", "getDocuments", "broadcastStateTransition"}

\* The requests whose error is INTERNAL although every RPC was replied to: an
\* argument that is no good, a masternode that is not in dashd's list, a
\* height above the tip, a state transition sent to a mempool that is full or
\* refused with such a code.
KnownInternal ==
  \/ request.method \in InternalForBadArg /\ request.arg = BadArg
  \/ request.method = "getStatus" /\ ~ registered
  \/ request.method = "getConsensusParams" /\ Error("FAILED_PRECONDITION") \in right
  \/ request.method = "broadcastStateTransition" /\ Error("RESOURCE_EXHAUSTED") \in right
  \/ /\ request.method = "broadcastStateTransition" /\ request.arg \in St
     /\ InternalCode(CheckTxCode[request.arg])

\* Over the replies that dashd, Drive and Tenderdash give here, INTERNAL means
\* that a node could not be asked, but for the cases above: what is simply not
\* there, what the node has already, and any other mistake of a client are
\* told as such.
InternalIsServers ==
  answer.status = "INTERNAL" => failed \/ KnownInternal

\* A client that repeats a broadcast because it never heard of the first one
\* is not told that its transaction is wrong while the node has it, unless it
\* is mined and all its outputs are spent: dashd does not know it then, and
\* what it says of missing inputs is all that the handler has.
NotRefusedIfHeld ==
  [][ /\ request.method = "broadcastTransaction"
      /\ answer' # answer
      /\ answer'.status \in {"INVALID_ARGUMENT", "FAILED_PRECONDITION"}
      => request.arg \notin mempool /\ ~ KnownAsMined(request.arg) ]_vars

\* A height above the tip of the platform chain is the client's mistake, and
\* it is told so: FAILED_PRECONDITION, as getConsensusParamsHandlerFactory
\* intends and its unit test says.
InvalidHeightIsTold ==
  request.method = "getConsensusParams" /\ answer.status = "INTERNAL" => failed

==============================================================================
