---------------------------- MODULE CoreRequests ----------------------------
(***************************************************************************)
(* The requests that dashd answers: grpcServer/handlers/core and the         *)
(* JSON-RPC commands of rpcServer.  One action per handler up to its first   *)
(* await, and one per RPC reply with what the handler does next; dashd's     *)
(* chain, mempool and synchronisation move between any two of them.  BadArg  *)
(* is a hash that is none (getBlock, getTransaction), a transaction that     *)
(* does not parse, or arguments that do not conform to a command's schema.   *)
(***************************************************************************)
EXTENDS DashCore, UnaryRequest

CONSTANTS Parents,          \* the transactions each one spends from
          Unspent,          \* transactions with an output that nothing in Tx spends
          Refusal,          \* code with which dashd refuses a transaction (0: none)
          MaxInt,           \* largest height that dashd's argument parser takes
          RegtestCommands   \* isRegtest(networkType) or isDevnet(networkType)

ASSUME ParentsAssumption == Parents \in [Tx -> SUBSET Tx]
ASSUME UnspentAssumption ==
  \A tx \in Tx : tx \in Unspent \/ \E c \in Tx : tx \in Parents[c]
ASSUME RefusalAssumption == Refusal \in [Tx -> {0, -22, -26}]
ASSUME MaxIntAssumption  == MaxInt \in Nat /\ \A c \in Chains : Len(c) <= MaxInt
ASSUME RegtestAssumption == RegtestCommands \in BOOLEAN

VARIABLES stage,      \* of dashd's synchronisation, 0 to 3
          registered  \* is the masternode in the list at dashd's tip?

core == <<dashd, stage, registered>>

\* Every handler is wrapped in wrapInErrorHandler: a GrpcError passes, any
\* other error becomes INTERNAL.
CoreMethods == {"getBlock", "getStatus", "getTransaction", "broadcastTransaction"}

CoreInit == DashdInit /\ stage = 0 /\ registered \in BOOLEAN

---------------------------------------------------------------------------
(***************************************************************************)
(* getBlock                                                                  *)
(***************************************************************************)
GetBlockHandler ==
  /\ Receive({"getBlock"})
  /\ \/ /\ request.arg = None /\ request.height = 0
        /\ Respond(Error("INVALID_ARGUMENT"))
     \/ /\ request.arg = None /\ request.height # 0
        /\ Await({"getblockhash"}, None)
     \/ /\ request.arg # None
        /\ Await({"getblock"}, request.arg)
  /\ UNCHANGED core

BlockHashAt(height) == IF height > MaxInt THEN Reject(-1) ELSE GetBlockHash(height)

BlockHashStatus(code) ==
  CASE code = -8 -> "NOT_FOUND"
    [] code = -1 -> "INVALID_ARGUMENT"
    [] OTHER     -> "INTERNAL"

HeightLookedUp ==
  /\ "getblockhash" \in awaiting
  /\ \E reply \in {BlockHashAt(request.height), Unanswered} :
       /\ Hear(reply)
       /\ \/ reply.ok /\ Await({"getblock"}, reply.value)
          \/ ~ reply.ok /\ Respond(Error(BlockHashStatus(reply.code)))
  /\ UNCHANGED core

RawBlockStatus(code) == IF code = -5 THEN "NOT_FOUND" ELSE "INTERNAL"

\* dashd parses the hash before it looks for the block.
RawBlock(hash) == IF hash = BadArg THEN Reject(-8) ELSE GetBlock(hash)

BlockRead ==
  /\ "getblock" \in awaiting
  /\ \E reply \in {RawBlock(readings), Unanswered} :
       /\ Hear(reply)
       /\ \/ reply.ok /\ Respond(Ok(readings))
          \/ ~ reply.ok /\ Respond(Error(RawBlockStatus(reply.code)))
  /\ UNCHANGED core

---------------------------------------------------------------------------
(***************************************************************************)
(* getTransaction                                                            *)
(***************************************************************************)
GetTransactionHandler ==
  /\ Receive({"getTransaction"})
  /\ \/ request.arg = None /\ Respond(Error("INVALID_ARGUMENT"))
     \/ request.arg # None /\ Await({"getrawtransaction"}, None)
  /\ UNCHANGED core

\* The block the reply names; height and confirmations follow from it.
BlockOf(tx) ==
  IF \E b \in ToSet(chain) : tx \in TxsOf[b]
  THEN CHOOSE b \in ToSet(chain) : tx \in TxsOf[b]
  ELSE None

RawTransactionStatus(code) == IF code = -5 THEN "NOT_FOUND" ELSE "INTERNAL"

RawTransaction(id) == IF id = BadArg THEN Reject(-8) ELSE GetRawTransaction(id)

TransactionRead ==
  /\ "getrawtransaction" \in awaiting
  /\ \E reply \in {RawTransaction(request.arg), Unanswered} :
       /\ Hear(reply)
       /\ \/ reply.ok /\ Respond(Ok(BlockOf(request.arg)))
          \/ ~ reply.ok /\ Respond(Error(RawTransactionStatus(reply.code)))
  /\ UNCHANGED core

---------------------------------------------------------------------------
(***************************************************************************)
(* broadcastTransaction.  BadArg does not parse, or Transaction.verify finds *)
(* it wrong.  dashd refuses with -22 what it does not decode, with -25       *)
(* missing inputs, with -26 what its policy rejects.                         *)
(***************************************************************************)
BroadcastTransactionHandler ==
  /\ Receive({"broadcastTransaction"})
  /\ \/ request.arg \in {None, BadArg} /\ Respond(Error("INVALID_ARGUMENT"))
     \/ request.arg \notin {None, BadArg} /\ Await({"sendrawtransaction"}, None)
  /\ UNCHANGED core

Holds(tx) == tx \in mempool \cup TxsIn(chain)

\* Mined transactions have spent all its outputs.
SpentUp(tx) == tx \notin Unspent /\ \A c \in Tx : tx \in Parents[c] => c \in TxsIn(chain)

\* dashd knows a mined transaction by an output that is not spent.
KnownAsMined(tx) == tx \in TxsIn(chain) /\ ~ SpentUp(tx)

\* A transaction in the mempool is relayed once more; the inputs of one that is
\* mined are missing, like those from a parent that is not held.
SendRawTransaction(tx) ==
  IF KnownAsMined(tx) THEN -27
  ELSE IF tx \in mempool THEN 0
  ELSE IF Refusal[tx] # 0 THEN Refusal[tx]
  ELSE IF tx \in TxsIn(chain) \/ \E p \in Parents[tx] : ~ Holds(p) THEN -25
  ELSE 0

\* (A definition set before another and not used here is a bug that
\* PROJECT.json puts in its place.)  RPC_VERIFY_ALREADY_IN_CHAIN is taken for
\* an invalid transaction.
SendRawTransactionStatusOfChain(code) ==
  CASE code \in {-22, -25, -27} -> "INVALID_ARGUMENT"
    [] code = -26               -> "FAILED_PRECONDITION"
    [] OTHER                    -> "INTERNAL"

SendRawTransactionStatus(code) ==
  CASE code \in {-22, -25} -> "INVALID_ARGUMENT"
    [] code = -26          -> "FAILED_PRECONDITION"
    [] code = -27          -> "ALREADY_EXISTS"
    [] OTHER               -> "INTERNAL"

TransactionSent ==
  /\ "sendrawtransaction" \in awaiting
  /\ LET code == SendRawTransaction(request.arg)
     IN  \/ /\ mempool' = IF code = 0 THEN mempool \cup {request.arg} ELSE mempool
            /\ \E reply \in {IF code = 0 THEN Resolve(request.arg) ELSE Reject(code),
                             Unanswered} :   \* the reply is lost
                 /\ Hear(reply)
                 /\ \/ reply.ok /\ Respond(Ok(None))
                    \/ ~ reply.ok /\ Respond(Error(SendRawTransactionStatus(reply.code)))
         \/ /\ Hear(Unanswered)
            /\ Respond(Error(SendRawTransactionStatus(NoCode)))
            /\ UNCHANGED mempool
  /\ UNCHANGED <<chain, known, stage, registered>>

---------------------------------------------------------------------------
(***************************************************************************)
(* getStatus.  Four RPCs under one Promise.all; the first that fails answers *)
(* the request.  Of what is only copied nothing is kept; the status combines *)
(* two of the replies.                                                       *)
(***************************************************************************)
StatusRpcs == {"getblockchaininfo", "getnetworkinfo", "mnsync", "masternode"}

GetStatusHandler ==
  /\ Receive({"getStatus"})
  /\ Await(StatusRpcs, [rpc \in StatusRpcs |-> None])
  /\ UNCHANGED core

\* mnsync's AssetID
AssetId == CASE stage \in {0, 1} -> 1 [] stage = 2 -> 4 [] stage = 3 -> 999

\* Whether verificationprogress is above 0
GetBlockchainInfo == stage > 0
GetNetworkInfo    == None
GetMnSync         == AssetId
GetMasternode     == registered

StatusReading(rpc) ==
  CASE rpc = "getblockchaininfo" -> GetBlockchainInfo
    [] rpc = "getnetworkinfo"    -> GetNetworkInfo
    [] rpc = "mnsync"            -> GetMnSync
    [] rpc = "masternode"        -> GetMasternode

\* IsSynced is not looked at.
GetStatusOfBlockchain(progress, assetId) ==
  IF assetId \in {4, 999} THEN "READY"
  ELSE IF progress THEN "SYNCING" ELSE "NOT_STARTED"

\* IsBlockchainSynced holds from asset 4 on, IsSynced at 999.
GetStatus(progress, assetId) ==
  IF assetId = 999 THEN "READY"
  ELSE IF progress THEN "SYNCING" ELSE "NOT_STARTED"

\* A masternode that is not in the list has no proTxHash and no dmnState:
\* copying them throws a TypeError.
StatusResponse(read) ==
  IF read["masternode"]
  THEN Ok(GetStatus(read["getblockchaininfo"], read["mnsync"]))
  ELSE Error("INTERNAL")

\* A reply that fails is left out (allSettled).
StatusReadSettled(rpc) ==
  /\ rpc \in StatusRpcs \cap awaiting
  /\ \/ /\ Hear(Unanswered)
        /\ Await(awaiting \ {rpc}, readings)
     \/ /\ Hear(Resolve(StatusReading(rpc)))
        /\ LET read == [readings EXCEPT ![rpc] = StatusReading(rpc)]
           IN  \/ awaiting = {rpc} /\ Respond(StatusResponse(read))
               \/ awaiting # {rpc} /\ Await(awaiting \ {rpc}, read)
  /\ UNCHANGED core

StatusRead(rpc) ==
  /\ rpc \in StatusRpcs \cap awaiting
  /\ \/ /\ Hear(Unanswered)
        /\ Respond(Error("INTERNAL"))
     \/ /\ Hear(Resolve(StatusReading(rpc)))
        /\ LET read == [readings EXCEPT ![rpc] = StatusReading(rpc)]
           IN  \/ awaiting = {rpc} /\ Respond(StatusResponse(read))
               \/ awaiting # {rpc} /\ Await(awaiting \ {rpc}, read)
  /\ UNCHANGED core

---------------------------------------------------------------------------
(***************************************************************************)
(* The JSON-RPC server.  BadArg does not conform to the command's schema.    *)
(***************************************************************************)
\* What clients may call; getVersion is not implemented yet.
JsonRpcMethods ==
  {"getBestBlockHash", "getBlockHash", "getMnListDiff", "generateToAddress", "getVersion"}

Commands == {"getBestBlockHash", "getBlockHash", "getMnListDiff"}
            \cup IF RegtestCommands THEN {"generateToAddress"} ELSE {}

ErrorHandlerDecorator(error) ==
  IF error \in {"ArgumentsValidationError", "DashCoreRpcError", "InvalidArgumentGrpcError"}
  THEN "-32602" ELSE "-32603"

\* validator.validate; getBestBlockHash takes no arguments and checks none.
Conforms == request.method = "getBestBlockHash" \/ request.arg # BadArg

\* jayson itself answers for a method it does not have.
CallCommand ==
  /\ Receive(JsonRpcMethods)
  /\ \/ /\ request.method \notin Commands
        /\ Respond(Error("-32601"))
     \/ /\ request.method \in Commands /\ ~ Conforms
        /\ Respond(Error(ErrorHandlerDecorator("ArgumentsValidationError")))
     \/ /\ request.method \in Commands /\ Conforms
        /\ Await({request.method}, None)
  /\ UNCHANGED core

GetBestBlockHash == Resolve(Last(chain))

\* Of two blocks protx diff is asked about, the first is taken to be known.
GetMnListDiff(b) == IF b \in known THEN Resolve(b) ELSE Reject(-8)

ReadByCommand ==
  CASE request.method = "getBestBlockHash" -> GetBestBlockHash
    [] request.method = "getBlockHash"     -> BlockHashAt(request.height)
    [] request.method = "getMnListDiff"    -> GetMnListDiff(request.arg)

CommandRead ==
  /\ request.method \in awaiting \cap {"getBestBlockHash", "getBlockHash", "getMnListDiff"}
  /\ \E reply \in {ReadByCommand, Unanswered} :
       /\ Hear(reply)
       /\ \/ reply.ok /\ Respond(Ok(reply.value))
          \/ ~ reply.ok /\ Respond(Error(ErrorHandlerDecorator("DashCoreRpcError")))
  /\ UNCHANGED core

\* The reply may be lost although the block was made.
BlockGenerated ==
  /\ "generateToAddress" \in awaiting
  /\ \/ \E c \in Chains : SwitchChain(c) /\ chain = Front(c)
     \/ UNCHANGED dashd
  /\ \E reply \in {Unanswered} \cup IF chain' = chain THEN {} ELSE {Resolve(Last(chain'))} :
       /\ Hear(reply)
       /\ \/ reply.ok /\ Respond(Ok(reply.value))
          \/ ~ reply.ok /\ Respond(Error(ErrorHandlerDecorator("DashCoreRpcError")))
  /\ UNCHANGED <<stage, registered>>

CoreReply ==
  \/ HeightLookedUp \/ BlockRead \/ TransactionRead \/ TransactionSent
  \/ \E rpc \in StatusRpcs : StatusRead(rpc)
  \/ CommandRead \/ BlockGenerated

CoreRequest ==
  \/ GetBlockHandler \/ GetTransactionHandler \/ BroadcastTransactionHandler
  \/ GetStatusHandler \/ CallCommand

---------------------------------------------------------------------------
(***************************************************************************)
(* dashd.  It moves in what the request may be answered from.                *)
(***************************************************************************)
ChainOrMempoolChanges ==
  /\ request.method \in (CoreMethods \ {"getStatus"}) \cup JsonRpcMethods
  /\ \/ \E c \in Chains : SwitchChain(c)
     \/ \E tx \in Tx : \/ EnterMempool(tx) /\ SendRawTransaction(tx) = 0
                       \/ LeaveMempool(tx)
  /\ UNCHANGED <<stage, registered, call>>

SynchronisationAdvances ==
  /\ request.method = "getStatus" /\ stage < 3
  /\ stage' = stage + 1
  /\ UNCHANGED <<dashd, registered, call>>

=============================================================================
