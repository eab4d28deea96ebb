---------------------------- MODULE HistoricalScan ----------------------------
(***************************************************************************)
(* The RPCs of subscribeToTransactionsWithProofs against a dashd whose best  *)
(* chain and mempool change between any two of them: the handler's look-up   *)
(* of the range (subscribeToTransactionsWithProofsHandlerFactory.js), the    *)
(* batches of getHistoricalTransactionsIteratorFactory.js and the mempool    *)
(* read of getMemPoolTransactionsFactory.js.  The client's filter is shared  *)
(* with the emitter of the call: transactions announced meanwhile are tested *)
(* on it, and change it.                                                     *)
(*                                                                           *)
(* TransactionStream models what the handler writes and prunes around a      *)
(* chain that only grows; here a block and its transactions are sent in one  *)
(* step.                                                                     *)
(***************************************************************************)
EXTENDS DashCore, Bip37Filter

CONSTANTS NoHash,       \* fromBlockHash of a request that names a height
          Requests,     \* requests a client may make
          ClientItems,  \* what the client put in its filter
          ClientFlag,   \* the filter's update flag
          Batch,        \* MAX_HEADERS_PER_REQUEST
          MaxTests      \* bound: announced transactions tested

ASSUME TxAssumption == IsFiniteSet(Tx)
ASSUME RequestsAssumption ==
  /\ NoHash \notin Block
  /\ Requests \subseteq [hash : Block \cup {NoHash}, height : Nat, count : Nat]
ASSUME FlagAssumption  == ClientFlag \in UpdateFlag
ASSUME BatchAssumption == Batch \in Nat \ {0}
\* In a filter, a transaction is its hash and never equals an outpoint, which
\* is four bytes longer.
ASSUME HashAssumption  == Tx \cap (Tx \X Nat) = {}
ASSUME OutputsAssumption == \A tx \in Tx : DOMAIN Outputs[tx] \subseteq Nat

VARIABLES
  pc, request,
  hash, fromHeight, count,  \* the range: first block, its height, historicalCount
  batchIndex, blockHash,    \* the batch, and its first block
  pending, fetching,        \* merkle blocks read and not sent; RPCs of getTransactions
  ids,                      \* mempool transactions to read, then to test
  filter,
  sent,                     \* blocks sent with their transactions
  tested,                   \* history of the emitter's tests
  reorged                   \* history: did a block of the range leave the chain?

range   == <<hash, fromHeight, count>>
scan    == <<batchIndex, blockHash, pending, fetching>>
emitter == <<filter, tested>>
vars    == <<dashd, pc, request, range, scan, ids, emitter, sent, reorged>>

IsNew == request.count = 0

Init ==
  /\ DashdInit
  /\ pc = "accept" /\ request \in Requests
  /\ hash = request.hash /\ fromHeight = 0 /\ count = 0
  /\ batchIndex = 0 /\ blockHash = NoHash /\ pending = {} /\ fetching = {}
  /\ ids = << >>
  /\ filter = [items |-> ClientItems, flag |-> ClientFlag]
  /\ sent = << >> /\ tested = << >>
  /\ reorged = FALSE

---------------------------------------------------------------------------
(***************************************************************************)
(* The batches                                                               *)
(***************************************************************************)
\* (A definition set before another and not used here is a bug that
\* PROJECT.json puts in its place.)  One batch too many.
MoreBatchesThanNumber(i) == i * Batch <= count

\* batchIndex < numberOfBatches = ceil(count / Batch)
MoreBatches(i) == i * Batch < count

\* Batches overlap.
CurrentHeightOverlapping(i) == fromHeight + i * (Batch - 1)

CurrentHeight(i) == fromHeight + i * Batch

\* The last batch loses its last block.
GetBlocksToScanShort(i) ==
  IF (i + 1) * Batch >= count THEN count - i * Batch - 1 ELSE Batch

\* isLastBatch = (batchIndex + 1 = numberOfBatches)
GetBlocksToScan(i) ==
  IF (i + 1) * Batch >= count THEN count - i * Batch ELSE Batch

Matched(b) == {tx \in TxsOf[b] : TestTransaction(filter, tx)}

Spenders(txs) ==
  {tx \in Tx : \E i \in DOMAIN Inputs[tx] : Inputs[tx][i].prevout[1] \in txs}

(***************************************************************************)
(* getmerkleblocks: the blocks with matching transactions.  dashd's copy of  *)
(* the filter follows the outputs it matches, so it may also match what      *)
(* spends them.                                                              *)
(***************************************************************************)
MerkleBlocks(b, blocksToScan) ==
  LET blocks     == BlocksFrom(b, blocksToScan)
      mayMatch   == Spenders(UNION {TxsOf[c] : c \in blocks})
      answers    == {m \in [blocks -> SUBSET Tx] :
                       \A c \in blocks : /\ Matched(c) \subseteq m[c]
                                         /\ m[c] \subseteq Matched(c) \cup (TxsOf[c] \cap mayMatch)}
  IN  {{[block |-> c, txs |-> m[c]] : c \in {d \in blocks : m[d] # {}}} : m \in answers}

---------------------------------------------------------------------------
(***************************************************************************)
(* The handler and its iterator: an action is dashd's answer to the RPC      *)
(* awaited and the code up to the next one.                                  *)
(***************************************************************************)
Goto(label) == pc' = label

Accept ==
  /\ pc = "accept"
  /\ Goto(CASE request.hash # NoHash                         -> "getBlock"
            [] request.hash = NoHash /\ request.height = 0   -> "failed"
            [] OTHER                                         -> "getBlockHash")
  /\ UNCHANGED <<dashd, request, range, scan, ids, emitter, sent, reorged>>

FromHeight ==
  /\ pc = "getBlockHash"
  /\ LET reply == GetBlockHash(request.height)
     IN  IF reply.ok THEN hash' = reply.value /\ Goto("getBlock")
                     ELSE Goto("failed") /\ UNCHANGED hash
  /\ UNCHANGED <<dashd, request, fromHeight, count, scan, ids, emitter, sent, reorged>>

\* A stale block is refused.
FromBlock ==
  /\ pc = "getBlock"
  /\ LET reply == GetBlock(hash)
     IN  IF reply.ok /\ ~ reply.value.stale
         THEN fromHeight' = reply.value.height /\ Goto("getBestBlockHeight")
         ELSE Goto("failed") /\ UNCHANGED fromHeight
  /\ UNCHANGED <<dashd, request, hash, count, scan, ids, emitter, sent, reorged>>

BestBlockHeight ==
  /\ pc = "getBestBlockHeight"
  /\ LET best == GetBestBlockHeight.value
     IN  count' = IF IsNew \/ fromHeight + request.count > best + 1
                  THEN best - fromHeight + 1
                  ELSE request.count
  /\ Goto("iterator")
  /\ UNCHANGED <<dashd, request, hash, fromHeight, scan, ids, emitter, sent, reorged>>

\* The iterator asks for the block again, and is content with a stale one.
IteratorFromBlock ==
  /\ pc = "iterator"
  /\ LET reply == GetBlock(hash)
     IN  IF reply.ok THEN fromHeight' = reply.value.height /\ Goto("batch")
                     ELSE Goto("failed") /\ UNCHANGED fromHeight
  /\ UNCHANGED <<dashd, request, hash, count, scan, ids, emitter, sent, reorged>>

BatchHash ==
  /\ pc = "batch" /\ MoreBatches(batchIndex)
  /\ LET reply == GetBlockHash(CurrentHeight(batchIndex))
     IN  IF reply.ok THEN blockHash' = reply.value /\ Goto("merkleBlocks")
                     ELSE Goto("failed") /\ UNCHANGED blockHash
  /\ UNCHANGED <<dashd, request, range, batchIndex, pending, fetching, ids, emitter, sent,
                 reorged>>

\* dashd lists merkle blocks in the order of the chain.
IsFirst(m, blocks) == \A n \in blocks : HeightOf[m.block] <= HeightOf[n.block]

\* What comes after a merkle block has been sent, or the batch read.
NextMerkleBlock(blocks) ==
  /\ pending' = blocks
  /\ \/ blocks = {} /\ fetching' = {} /\ Goto("batch")
     \/ \E m \in blocks : IsFirst(m, blocks) /\ fetching' = m.txs /\ Goto("getTransactions")

\* batchIndex is not advanced.
SameBatchAgain ==
  /\ pc = "merkleBlocks"
  /\ \E blocks \in MerkleBlocks(blockHash, GetBlocksToScan(batchIndex)) :
       NextMerkleBlock(blocks)
  /\ UNCHANGED <<dashd, request, range, batchIndex, blockHash, ids, emitter, sent, reorged>>

MerkleBlocksOfBatch ==
  /\ pc = "merkleBlocks"
  /\ \E blocks \in MerkleBlocks(blockHash, GetBlocksToScan(batchIndex)) :
       NextMerkleBlock(blocks)
  /\ batchIndex' = batchIndex + 1
  /\ UNCHANGED <<dashd, request, range, blockHash, ids, emitter, sent, reorged>>

\* The RPCs of getTransactions are made together and answered in any order.
FetchTransaction(tx) ==
  /\ pc = "getTransactions" /\ tx \in fetching
  /\ IF GetRawTransaction(tx).ok
     THEN fetching' = fetching \ {tx} /\ UNCHANGED pc
     ELSE Goto("failed") /\ UNCHANGED fetching
  /\ UNCHANGED <<dashd, request, range, batchIndex, blockHash, pending, ids, emitter, sent,
                 reorged>>

SendMerkleBlock ==
  /\ pc = "getTransactions" /\ fetching = {}
  /\ \E m \in pending : /\ IsFirst(m, pending)
                        /\ sent' = Append(sent, m)
                        /\ NextMerkleBlock(pending \ {m})
  /\ UNCHANGED <<dashd, request, range, batchIndex, blockHash, ids, emitter, reorged>>

\* Only historical data was asked for.
EndHistoricalStream ==
  /\ pc = "batch" /\ ~ MoreBatches(batchIndex) /\ ~ IsNew
  /\ Goto("done")
  /\ UNCHANGED <<dashd, request, range, scan, ids, emitter, sent, reorged>>

ReadMemPool ==
  /\ pc = "batch" /\ ~ MoreBatches(batchIndex) /\ IsNew
  /\ ids' \in SetToSeqs(GetRawMemPool.value)
  /\ fetching' = GetRawMemPool.value
  /\ Goto("memPool")
  /\ UNCHANGED <<dashd, request, range, batchIndex, blockHash, pending, emitter, sent, reorged>>

\* One after the other, in the order of the ids.
ReadMemPoolTransaction ==
  /\ pc = "memPool" /\ fetching # {}
  /\ LET tx == CHOOSE t \in fetching :
                 \E i \in DOMAIN ids : ids[i] = t /\ \A j \in 1..(i - 1) : ids[j] \notin fetching
     IN  IF GetRawTransaction(tx).ok
         THEN fetching' = fetching \ {tx} /\ UNCHANGED pc
         ELSE Goto("failed") /\ UNCHANGED fetching
  /\ UNCHANGED <<dashd, request, range, batchIndex, blockHash, pending, ids, emitter, sent,
                 reorged>>

\* A test of tx by the emitter with filter f.
Test(f, tx) == [tx |-> tx, match |-> TestTransaction(f, tx)]

\* The filter before each test of the transactions in this order, and after
\* the last.
FiltersAlong(order) ==
  LET filterBefore[i \in 1..(Len(order) + 1)] ==
        IF i = 1 THEN filter ELSE FilterAfter(filterBefore[i - 1], order[i - 1])
  IN  filterBefore

TestMemPool ==
  /\ pc = "memPool" /\ fetching = {}
  /\ LET filters == FiltersAlong(ids)
     IN  /\ filter' = filters[Len(ids) + 1]
         /\ tested' = tested \o [i \in 1..Len(ids) |-> Test(filters[i], ids[i])]
  /\ Goto("done")
  /\ UNCHANGED <<dashd, request, range, scan, ids, sent, reorged>>

\* dashd cannot be reached, or refuses for a reason of its own.
RpcFails ==
  /\ pc \notin {"accept", "done", "failed"}
  /\ Goto("failed")
  /\ UNCHANGED <<dashd, request, range, scan, ids, emitter, sent, reorged>>

HandlerStep ==
  \/ Accept \/ FromHeight \/ FromBlock \/ BestBlockHeight
  \/ IteratorFromBlock \/ BatchHash \/ MerkleBlocksOfBatch
  \/ \E tx \in Tx : FetchTransaction(tx)
  \/ SendMerkleBlock \/ EndHistoricalStream
  \/ ReadMemPool \/ ReadMemPoolTransaction \/ TestMemPool

---------------------------------------------------------------------------
(***************************************************************************)
(* dashd, and the emitter's tests of what it announces                       *)
(***************************************************************************)
\* The heights whose blocks the call depends on.
Top == IF pc \in {"accept", "getBlockHash", "getBlock", "getBestBlockHeight"}
       THEN Len(chain)
       ELSE fromHeight + count - 1

Keeps(c) == \A h \in 1..Top : h \in DOMAIN c /\ c[h] = chain[h]

Reorganise(c) ==
  /\ SwitchChain(c)
  /\ reorged' = (reorged \/ ~ Keeps(c))
  /\ UNCHANGED <<pc, request, range, scan, ids, emitter, sent>>

ParentsKnown(tx) ==
  \A i \in DOMAIN Inputs[tx] : Inputs[tx][i].prevout[1] \in mempool \cup TxsIn(chain)

MempoolChanges(tx) ==
  /\ \/ EnterMempool(tx) /\ ParentsKnown(tx)
     \/ LeaveMempool(tx)
  /\ UNCHANGED <<pc, request, range, scan, ids, emitter, sent, reorged>>

\* rawtx, the first rawblock, or another call's mempool test.
LiveTest(tx) ==
  /\ IsNew /\ pc # "accept" /\ Len(tested) < MaxTests
  /\ tx \in mempool \cup TxsIn(chain)
  /\ filter' = FilterAfter(filter, tx)
  /\ tested' = Append(tested, Test(filter, tx))
  /\ UNCHANGED <<dashd, pc, request, range, scan, ids, sent, reorged>>

Next ==
  \/ HandlerStep
  \/ RpcFails
  \/ \E c \in Chains : Reorganise(c)
  \/ \E tx \in Tx : MempoolChanges(tx) \/ LiveTest(tx)

Spec == Init /\ [][Next]_vars

\* RPCs are answered.
FairSpec == Spec /\ WF_vars(HandlerStep)

---------------------------------------------------------------------------
(***************************************************************************)
(* Properties                                                                *)
(***************************************************************************)
Iterating == pc \in {"batch", "merkleBlocks", "getTransactions", "memPool", "done"}

TypeOK ==
  /\ chain \in Chains /\ known \subseteq Block /\ mempool \subseteq Tx
  /\ pc \in {"accept", "getBlockHash", "getBlock", "getBestBlockHeight", "iterator", "batch",
             "merkleBlocks", "getTransactions", "memPool", "done", "failed"}
  /\ request \in Requests
  /\ hash \in Block \cup {NoHash} /\ fromHeight \in Nat /\ count \in Int
  /\ batchIndex \in Nat /\ (batchIndex > 0 => (batchIndex - 1) * Batch < count)
  /\ blockHash \in Block \cup {NoHash}
  /\ pending \subseteq [block : Block, txs : SUBSET Tx]
  /\ sent \in Seq([block : Block, txs : SUBSET Tx])
  /\ fetching \subseteq Tx /\ ids \in Seq(Tx)
  /\ reorged \in BOOLEAN

MatchingIn(b) ==
  {tx \in TxsOf[b] : TestTransaction([items |-> ClientItems, flag |-> ClientFlag], tx)}

\* Sent, and about to be sent.
History == ToSet(sent) \cup pending

ScannedTo == IF MoreBatches(batchIndex)
             THEN fromHeight + batchIndex * Batch - 1
             ELSE fromHeight + count - 1

\* As long as no block of the range leaves the best chain, the blocks sent
\* and pending are blocks of the range with all their transactions that match
\* the filter the client asked with, and no block with such a transaction is
\* skipped at the boundary of two batches or at the range's ends, although the
\* height, the count, the hash and the blocks come from different RPCs and the
\* live tests change the filter.
HistoryExact ==
  Iterating /\ ~ reorged =>
    /\ \A m \in History :
         /\ \E h \in fromHeight..ScannedTo : chain[h] = m.block
         /\ MatchingIn(m.block) \subseteq m.txs
         /\ m.txs \subseteq TxsOf[m.block]
    /\ \A h \in fromHeight..ScannedTo :
         MatchingIn(chain[h]) # {} => \E m \in History : m.block = chain[h]

\* The blocks are sent in the order of their heights and none twice, even if
\* batches are read from different branches.
HeightsIncrease ==
  \A i, j \in DOMAIN sent : i < j => HeightOf[sent[i].block] < HeightOf[sent[j].block]

\* Does the test of tx with the client's own items add its output k?
Watches(tx, k) ==
  /\ tx \notin ClientItems
  /\ k \in DOMAIN Outputs[tx]
  /\ Outputs[tx][k].script \cap ClientItems # {}
  /\ \A first \in DOMAIN Outputs[tx] :
       first < k => \A data \in Outputs[tx][first].script :
                      data \notin ClientItems /\ data \notin Tx \X Nat
  /\ \/ ClientFlag = "all"
     \/ ClientFlag = "p2pubkeyOnly" /\ Outputs[tx][k].pubkey

\* tx spends the output k of parent.
Spends(tx, parent, k) ==
  \E n \in DOMAIN Inputs[tx] : Inputs[tx][n].prevout = <<parent, k>>

\* A transaction that spends the watched output of one tested before it is
\* matched, although it holds nothing the client named, whichever of a
\* notification, a block and a mempool read brought either.
SpendFollowed ==
  \A i, j \in DOMAIN tested :
    \A k \in DOMAIN Outputs[tested[i].tx] :
      i < j /\ Watches(tested[i].tx, k) /\ Spends(tested[j].tx, tested[i].tx, k)
      => tested[j].match

\* The scan comes to an end, or fails, however the chain and the mempool
\* change under it.
ScanEnds == pc # "accept" ~> pc \in {"done", "failed"}

================================================================================
