----------------------------- MODULE CacheCalls -----------------------------
(***************************************************************************)
(* One TransactionHashesCache and every order in which its client's         *)
(* listeners (lib/transactionsFilter/subscribeToNewTransactions.js) may     *)
(* call it: transactions match, blocks arrive, historical blocks are        *)
(* reported as sent, locks arrive, and the sending loop drains the cache.   *)
(* Nothing about the order of the calls is assumed here; TransactionStream  *)
(* has the orders that dashd, the handler and the loop really produce.      *)
(***************************************************************************)
EXTENDS TransactionHashesCache

CONSTANTS Tx,           \* transaction hashes that match the filter
          Block,        \* blocks [hash, txs] that dashd may announce
          MaxBlocks     \* bound: calls of addBlock in a behaviour

BlockHash == {b.hash : b \in Block}

ASSUME BlockAssumption ==
  /\ \A b \in Block : b = [hash |-> b.hash, txs |-> b.txs] /\ b.txs \subseteq Tx
  /\ \A b, d \in Block : b.hash = d.hash => b = d

\* A transaction is mined once: the blocks announced are those of one chain.
ASSUME OneChainAssumption ==
  \A b, d \in Block : b # d => b.txs \cap d.txs = {}

ASSUME MaxBlocksAssumption == MaxBlocks \in Nat

VARIABLES cache,
          announced,    \* blocks that addBlock has been called with
          repeated      \* has one been announced twice (invalidated, then reconsidered)?

vars == <<cache, announced, repeated>>

Init ==
  /\ cache = EmptyCache
  /\ announced = {}
  /\ repeated = FALSE

---------------------------------------------------------------------------

\* The 'match' listener.
Match(tx) ==
  /\ cache' = AddTransaction(cache, tx)
  /\ UNCHANGED <<announced, repeated>>

\* The 'block' listener, without its test of the transactions (those are Match).
BlockArrives(block) ==
  /\ cache.blocksProcessed < MaxBlocks
  /\ cache' = AddBlock(cache, block)
  /\ announced' = announced \cup {block}
  /\ repeated' = (repeated \/ block \in announced)

\* The HISTORICAL_BLOCK_SENT listener.
HistoricalBlockSent(block) ==
  /\ cache' = RemoveDataByBlockHash(cache, block.hash)
  /\ UNCHANGED <<announced, repeated>>

\* The 'instantLock' listener before the mempool data is sent ...
CollectLock(tx) ==
  /\ cache' = AddInstantLock(cache, tx)
  /\ UNCHANGED <<announced, repeated>>

\* ... and after it.
SendLock(tx) ==
  /\ IsInInstantLockCache(cache, tx)
  /\ cache' = RemoveFromWaitingList(cache, tx)
  /\ UNCHANGED <<announced, repeated>>

\* One turn of the sending loop.
Drain ==
  /\ cache' = RetrieveMerkleBlocks(RetrieveInstantLocks(RetrieveTransactions(cache)))
  /\ UNCHANGED <<announced, repeated>>

Next ==
  \/ \E tx \in Tx : Match(tx) \/ CollectLock(tx) \/ SendLock(tx)
  \/ \E block \in Block : BlockArrives(block) \/ HistoricalBlockSent(block)
  \/ Drain

Spec == Init /\ [][Next]_vars

---------------------------------------------------------------------------

Partial(S, T) == UNION {[D -> T] : D \in SUBSET S}

MerkleBlock == [hash : BlockHash, matched : SUBSET Tx, isRetrieved : BOOLEAN]

Cache ==
  [transactions           : Partial(Tx, BOOLEAN),
   merkleBlocks           : Seq(MerkleBlock),
   blocks                 : Seq(Block),
   transactionHashesMap   : Partial(Tx, 0..MaxBlocks),
   blocksProcessed        : 0..MaxBlocks,
   unretrievedInstantLocks : SUBSET Tx]

\* The cache is a cache and only announced blocks are in it.
TypeOK ==
  /\ cache \in Cache
  /\ announced \subseteq Block
  /\ repeated \in BOOLEAN
  /\ ToSet(cache.blocks) \subseteq announced

\* However blocks and removals interleave, the block array never outgrows
\* cacheSize, even when the block shifted out has a second copy in it
\* (addBlock, removeDataByBlock).
BlocksWithinSize == Len(cache.blocks) <= CacheSize

\* A transaction waits for its lock through BlocksToStay blocks and no more,
\* however often it left the list and matched again (addTransaction, addBlock).
WaitingListAge ==
  \A tx \in DOMAIN cache.transactionHashesMap :
    /\ cache.transactionHashesMap[tx] <= cache.blocksProcessed
    /\ cache.blocksProcessed <= cache.transactionHashesMap[tx] + BlocksToStay

\* While no block is announced twice, blocks[i] and merkleBlocks[i] are one
\* block: addBlock's shift and removeDataByBlock's two backward searches
\* always take the same position out of both arrays.
ArraysAligned ==
  ~ repeated =>
    /\ Len(cache.merkleBlocks) = Len(cache.blocks)
    /\ \A i \in DOMAIN cache.blocks : cache.merkleBlocks[i].hash = cache.blocks[i].hash

\* While no block is announced twice, the transactions a cached merkle block
\* proves are in the cache with it: eviction or removal of one block never
\* takes the transactions of another (removeDataByBlock).
ProofsBacked ==
  ~ repeated =>
    \A i \in DOMAIN cache.merkleBlocks :
      cache.merkleBlocks[i].matched \subseteq DOMAIN cache.transactions

\* A transaction handed to the sending loop is not handed to it again while
\* it stays cached, although dashd announces it twice: when it enters the
\* mempool and when it is mined (addTransaction's isAdded).
RetrievedOnce ==
  [][\A tx \in DOMAIN cache.transactions \cap DOMAIN cache'.transactions :
       cache.transactions[tx] => cache'.transactions[tx]]_vars

\* transactionHashesMap and blocksProcessed implement the waiting list.
WaitingList ==
  INSTANCE InstantLockWaitingList
    WITH age <- [tx \in DOMAIN cache.transactionHashesMap |->
                   cache.blocksProcessed - cache.transactionHashesMap[tx]]

ImplementsWaitingList == WaitingList!Spec

=============================================================================
