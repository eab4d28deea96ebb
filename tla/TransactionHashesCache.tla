---------------------- MODULE TransactionHashesCache ----------------------
(***************************************************************************)
(* The per-client cache of lib/transactionsFilter/TransactionHashesCache.js *)
(* as a record and one operator per method.  A method that mutates `this`   *)
(* is an operator from a cache to the cache it leaves; a caller composes    *)
(* the calls that its synchronous code makes into one atomic step.          *)
(*                                                                          *)
(* A block is a record [hash, txs]; txs is the set of its transaction       *)
(* hashes.  The array `transactions` holds each hash at most once and no    *)
(* property depends on its order, so it is a function from the cached       *)
(* hashes to isRetrieved.  `blocks` and `merkleBlocks` may hold a block     *)
(* twice and their order decides what is evicted: they stay sequences.      *)
(***************************************************************************)
EXTENDS Integers, Sequences, SequencesExt, Functions

CONSTANTS CacheSize,      \* this.cacheSize: 10 in the code
          BlocksToStay    \* BLOCKS_TO_STAY_IN_INSTANT_LOCK_CACHE: 10 in the code

ASSUME CacheSizeAssumption == CacheSize \in Nat \ {0}
ASSUME BlocksToStayAssumption == BlocksToStay \in Nat

EmptyCache ==
  [transactions           |-> << >>,
   merkleBlocks           |-> << >>,
   blocks                 |-> << >>,
   transactionHashesMap   |-> << >>,
   blocksProcessed        |-> 0,
   unretrievedInstantLocks |-> {}]

(***************************************************************************)
(* Helpers: a JavaScript map written only where keys are absent, and an     *)
(* array whose last element with a given hash is spliced out.               *)
(***************************************************************************)
PutIfAbsent(f, keys, value) ==
  [k \in DOMAIN f \cup keys |-> IF k \in DOMAIN f THEN f[k] ELSE value]

IsLastWithHash(s, hash, i) ==
  /\ s[i].hash = hash
  /\ \A j \in (i + 1)..Len(s) : s[j].hash # hash

RemoveLastWithHash(s, hash) ==
  IF \E i \in DOMAIN s : IsLastWithHash(s, hash, i)
  THEN RemoveAt(s, CHOOSE i \in DOMAIN s : IsLastWithHash(s, hash, i))
  ELSE s

---------------------------------------------------------------------------

IsInInstantLockCache(c, tx) == tx \in DOMAIN c.transactionHashesMap

(***************************************************************************)
(* Before a method stand the bugs that PROJECT.json puts in its place, to   *)
(* see that a property of the runs notices them.                            *)
(***************************************************************************)
\* isAdded is not looked at.
AddTransactionsUnchecked(c, txs) ==
  [c EXCEPT !.transactions = [t \in DOMAIN @ \cup txs |-> t \notin txs /\ @[t]],
            !.transactionHashesMap = PutIfAbsent(@, txs, c.blocksProcessed)]

\* A transaction that waits starts to wait again.
AddTransactionsRestarting(c, txs) ==
  [c EXCEPT !.transactions = PutIfAbsent(@, txs, FALSE),
            !.transactionHashesMap =
              [t \in DOMAIN @ \cup txs |-> IF t \in txs THEN c.blocksProcessed ELSE @[t]]]

(***************************************************************************)
(* addTransaction: a hash that is already cached keeps its isRetrieved      *)
(* flag, but it enters the waiting list again if it had left it.            *)
(* AddTransactions is a forEach of addTransaction: the calls commute.       *)
(***************************************************************************)
AddTransactions(c, txs) ==
  [c EXCEPT !.transactions = PutIfAbsent(@, txs, FALSE),
            !.transactionHashesMap = PutIfAbsent(@, txs, c.blocksProcessed)]

AddTransaction(c, tx) == AddTransactions(c, {tx})

\* The entry is marked instead of deleted.
RemoveFromWaitingListByMark(c, tx) ==
  [c EXCEPT !.transactionHashesMap = [@ EXCEPT ![tx] = -1]]

RemoveFromWaitingList(c, tx) ==
  [c EXCEPT !.transactionHashesMap = Restrict(@, DOMAIN @ \ {tx})]

\* The merkle block is left behind.
RemoveDataKeepingProof(c, block) ==
  [c EXCEPT !.transactions = Restrict(@, DOMAIN @ \ block.txs),
            !.blocks       = RemoveLastWithHash(@, block.hash)]

\* The last merkle block goes, whatever its hash.
RemoveDataPoppingProof(c, block) ==
  [c EXCEPT !.transactions = Restrict(@, DOMAIN @ \ block.txs),
            !.merkleBlocks = IF @ = << >> THEN @ ELSE Front(@),
            !.blocks       = RemoveLastWithHash(@, block.hash)]

\* Every transaction goes, not those of the block only.
RemoveDataOfAll(c, block) ==
  [c EXCEPT !.transactions = << >>,
            !.merkleBlocks = RemoveLastWithHash(@, block.hash),
            !.blocks       = RemoveLastWithHash(@, block.hash)]

RemoveDataByBlock(c, block) ==
  [c EXCEPT !.transactions = Restrict(@, DOMAIN @ \ block.txs),
            !.merkleBlocks = RemoveLastWithHash(@, block.hash),
            !.blocks       = RemoveLastWithHash(@, block.hash)]

\* Cached blocks with one hash are one block, so any of them stands for the first.
RemoveDataByBlockHash(c, hash) ==
  LET found == {b \in ToSet(c.blocks) : b.hash = hash}
  IN  IF found = {} THEN c ELSE RemoveDataByBlock(c, CHOOSE b \in found : TRUE)

\* One block too many.
StaleLate(c, tx) == c.transactionHashesMap[tx] < c.blocksProcessed - BlocksToStay - 1

(***************************************************************************)
(* addBlock, in the order of the code: age the waiting list, stop if the    *)
(* block has no cached transaction, push the merkle block and the block,    *)
(* then shift the oldest block out of an array that grew over cacheSize.    *)
(***************************************************************************)
Stale(c, tx) == c.transactionHashesMap[tx] < c.blocksProcessed - BlocksToStay

AgeWaitingList(c) ==
  LET counted == [c EXCEPT !.blocksProcessed = @ + 1]
  IN  [counted EXCEPT !.transactionHashesMap =
         Restrict(@, {tx \in DOMAIN @ : ~ Stale(counted, tx)})]

PushBlock(c, block) ==
  [c EXCEPT !.merkleBlocks = Append(@, [hash |-> block.hash,
                                        matched |-> block.txs \cap DOMAIN c.transactions,
                                        isRetrieved |-> FALSE]),
            !.blocks = Append(@, block)]

\* The size is tested before the push.
EvictOldestLate(c) ==
  IF Len(c.blocks) > CacheSize + 1
  THEN RemoveDataByBlock([c EXCEPT !.blocks = Tail(@)], Head(c.blocks))
  ELSE c

EvictOldest(c) ==
  IF Len(c.blocks) > CacheSize
  THEN RemoveDataByBlock([c EXCEPT !.blocks = Tail(@)], Head(c.blocks))
  ELSE c

AddBlock(c, block) ==
  LET aged == AgeWaitingList(c)
  IN  IF block.txs \cap DOMAIN c.transactions = {}
      THEN aged
      ELSE EvictOldest(PushBlock(aged, block))

GetBlockCount(c) == Len(c.blocks)

(***************************************************************************)
(* The getters return what is unretrieved and mark it: Unretrieved... is    *)
(* the value returned, Retrieve... the cache left behind.                   *)
(***************************************************************************)
UnretrievedTransactions(c) == {tx \in DOMAIN c.transactions : ~ c.transactions[tx]}

RetrieveTransactions(c) ==
  [c EXCEPT !.transactions = [tx \in DOMAIN @ |-> TRUE]]

UnretrievedMerkleBlocks(c) == {m \in ToSet(c.merkleBlocks) : ~ m.isRetrieved}

RetrieveMerkleBlocks(c) ==
  [c EXCEPT !.merkleBlocks = [i \in DOMAIN @ |-> [@[i] EXCEPT !.isRetrieved = TRUE]]]

AddInstantLock(c, tx) == [c EXCEPT !.unretrievedInstantLocks = @ \cup {tx}]

RetrieveInstantLocks(c) == [c EXCEPT !.unretrievedInstantLocks = {}]

===========================================================================
