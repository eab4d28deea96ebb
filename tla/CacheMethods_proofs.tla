------------------------- MODULE CacheMethods_proofs -------------------------
(***************************************************************************)
(* What the methods of TransactionHashesCache do to each field of a cache,  *)
(* whatever the fields hold: the facts the proofs about the calls and about *)
(* the stream start from.                                                   *)
(***************************************************************************)
EXTENDS TransactionHashesCache, SequenceTheorems, TLAPS

---------------------------------------------------------------------------
(***************************************************************************)
(* Splicing an array.                                                       *)
(***************************************************************************)

\* A sequence without its position k.
LEMMA RemoveAtCases ==
  ASSUME NEW S, NEW s \in Seq(S), NEW k \in 1..Len(s)
  PROVE  /\ RemoveAt(s, k) \in Seq(S)
         /\ Len(RemoveAt(s, k)) = Len(s) - 1
         /\ \A i \in 1..(Len(s) - 1) :
              RemoveAt(s, k)[i] = IF i < k THEN s[i] ELSE s[i + 1]
  <1> DEFINE before == SubSeq(s, 1, k - 1)
             after  == SubSeq(s, k + 1, Len(s))
  <1>1. /\ before \in Seq(S) /\ Len(before) = k - 1
        /\ \A i \in 1..(k - 1) : before[i] = s[i]
    <2>1. \A i \in 1..(k - 1) : s[i] \in S
      OBVIOUS
    <2> QED
      BY <2>1, SubSeqProperties
  <1>2. /\ after \in Seq(S) /\ Len(after) = Len(s) - k
        /\ \A i \in 1..(Len(s) - k) : after[i] = s[k + i]
    <2>1. \A i \in (k + 1)..Len(s) : s[i] \in S
      OBVIOUS
    <2>2. k + 1 \in Int /\ Len(s) \in Int /\ Len(s) - (k + 1) + 1 = Len(s) - k
      OBVIOUS
    <2>3. /\ after \in Seq(S)
          /\ Len(after) = IF k + 1 <= Len(s) THEN Len(s) - (k + 1) + 1 ELSE 0
          /\ \A i \in 1..(Len(s) - (k + 1) + 1) : after[i] = s[(k + 1) + i - 1]
      BY <2>1, <2>2, SubSeqProperties
    <2> QED
      BY <2>3
  <1>3. RemoveAt(s, k) = before \o after
    BY DEF RemoveAt
  <1> HIDE DEF before, after
  <1>4. /\ before \o after \in Seq(S)
        /\ Len(before \o after) = Len(before) + Len(after)
        /\ \A i \in 1..(Len(before) + Len(after)) :
             (before \o after)[i] = IF i <= Len(before) THEN before[i]
                                    ELSE after[i - Len(before)]
    BY <1>1, <1>2, ConcatProperties
  <1>5. Len(before) + Len(after) = Len(s) - 1
    BY <1>1, <1>2
  <1>6. ASSUME NEW i \in 1..(Len(s) - 1)
        PROVE  (before \o after)[i] = IF i < k THEN s[i] ELSE s[i + 1]
    <2>1. CASE i < k
      BY <2>1, <1>1, <1>4, <1>5
    <2>2. CASE ~ (i < k)
      <3>1. i - Len(before) \in 1..(Len(s) - k) /\ k + (i - Len(before)) = i + 1
        BY <2>2, <1>1
      <3>2. (before \o after)[i] = after[i - Len(before)]
        BY <2>2, <1>1, <1>4, <1>5
      <3> QED
        BY <2>2, <3>1, <3>2, <1>2
    <2> QED
      BY <2>1, <2>2
  <1> QED
    BY <1>3, <1>4, <1>5, <1>6

\* Splicing out the last element with a hash: either there is no such element,
\* or the sequence loses that one position.
LEMMA RemoveLastCases ==
  ASSUME NEW S, NEW s \in Seq(S), NEW hash
  PROVE  \/ /\ RemoveLastWithHash(s, hash) = s
            /\ \A i \in 1..Len(s) : ~ IsLastWithHash(s, hash, i)
         \/ \E k \in 1..Len(s) :
              /\ IsLastWithHash(s, hash, k)
              /\ RemoveLastWithHash(s, hash) = RemoveAt(s, k)
  <1>1. DOMAIN s = 1..Len(s)
    OBVIOUS
  <1> QED
    BY <1>1 DEF RemoveLastWithHash

\* ... so what is left is a sequence over the same elements, no longer than it was.
LEMMA RemoveLastType ==
  ASSUME NEW S, NEW s \in Seq(S), NEW hash
  PROVE  /\ RemoveLastWithHash(s, hash) \in Seq(S)
         /\ Len(RemoveLastWithHash(s, hash)) <= Len(s)
         /\ ToSet(RemoveLastWithHash(s, hash)) \subseteq ToSet(s)
  <1>1. CASE RemoveLastWithHash(s, hash) = s
    BY <1>1
  <1>2. ASSUME NEW k \in 1..Len(s), RemoveLastWithHash(s, hash) = RemoveAt(s, k)
        PROVE  /\ RemoveAt(s, k) \in Seq(S) /\ Len(RemoveAt(s, k)) <= Len(s)
               /\ ToSet(RemoveAt(s, k)) \subseteq ToSet(s)
    <2>1. /\ RemoveAt(s, k) \in Seq(S) /\ Len(RemoveAt(s, k)) = Len(s) - 1
          /\ \A i \in 1..(Len(s) - 1) : RemoveAt(s, k)[i] = IF i < k THEN s[i] ELSE s[i + 1]
      BY RemoveAtCases
    <2>2. \A i \in DOMAIN RemoveAt(s, k) : \E j \in DOMAIN s : RemoveAt(s, k)[i] = s[j]
      BY <2>1
    <2> QED
      BY <2>1, <2>2 DEF ToSet
  <1> QED
    BY <1>1, <1>2, RemoveLastCases

\* The backward search finds the only element with a hash.
LEMMA RemoveUnique ==
  ASSUME NEW S, NEW s \in Seq(S), NEW k \in 1..Len(s), NEW hash, s[k].hash = hash,
         \A i \in 1..Len(s) : s[i].hash = hash => i = k
  PROVE  RemoveLastWithHash(s, hash) = RemoveAt(s, k)
  <1>1. IsLastWithHash(s, hash, k)
    BY DEF IsLastWithHash
  <1>2. \A i \in 1..Len(s) : IsLastWithHash(s, hash, i) => i = k
    BY DEF IsLastWithHash
  <1> QED
    BY <1>1, <1>2, RemoveLastCases

\* ... and leaves a sequence without the hash alone.
LEMMA RemoveAbsent ==
  ASSUME NEW S, NEW s \in Seq(S), NEW hash, \A i \in 1..Len(s) : s[i].hash # hash
  PROVE  RemoveLastWithHash(s, hash) = s
  <1>1. \A i \in 1..Len(s) : ~ IsLastWithHash(s, hash, i)
    BY DEF IsLastWithHash
  <1> QED
    BY <1>1, RemoveLastCases

---------------------------------------------------------------------------
(***************************************************************************)
(* The methods.                                                             *)
(***************************************************************************)

\* A cache has the six fields of the class.
IsCache(c) ==
  c \in [transactions            : {c.transactions},
         merkleBlocks            : {c.merkleBlocks},
         blocks                  : {c.blocks},
         transactionHashesMap    : {c.transactionHashesMap},
         blocksProcessed         : {c.blocksProcessed},
         unretrievedInstantLocks : {c.unretrievedInstantLocks}]

\* A map written where keys are absent.
LEMMA PutIfAbsentIs ==
  ASSUME NEW f, NEW keys, NEW value
  PROVE  LET g == PutIfAbsent(f, keys, value)
         IN  /\ DOMAIN g = DOMAIN f \cup keys
             /\ \A k \in DOMAIN g : g[k] = IF k \in DOMAIN f THEN f[k] ELSE value
             /\ g = [k \in DOMAIN g |-> g[k]]
  BY DEF PutIfAbsent

\* A map whose other keys are deleted.
LEMMA RestrictIs ==
  ASSUME NEW f, NEW D
  PROVE  LET g == Restrict(f, D)
         IN  /\ DOMAIN g = D
             /\ \A k \in D : g[k] = f[k]
  BY DEF Restrict

\* addTransaction for each of a set.
LEMMA AddTransactionsIs ==
  ASSUME NEW c, IsCache(c), NEW txs
  PROVE  LET d == AddTransactions(c, txs)
         IN  /\ IsCache(d)
             /\ d.transactions = PutIfAbsent(c.transactions, txs, FALSE)
             /\ d.transactionHashesMap =
                  PutIfAbsent(c.transactionHashesMap, txs, c.blocksProcessed)
             /\ d.merkleBlocks = c.merkleBlocks /\ d.blocks = c.blocks
             /\ d.blocksProcessed = c.blocksProcessed
             /\ d.unretrievedInstantLocks = c.unretrievedInstantLocks
  <1> DEFINE f == PutIfAbsent(c.transactions, txs, FALSE)
             map == PutIfAbsent(c.transactionHashesMap, txs, c.blocksProcessed)
             d == [c EXCEPT !.transactions = f, !.transactionHashesMap = map]
  <1>1. AddTransactions(c, txs) = d
    BY DEF AddTransactions
  <1> HIDE DEF f, map
  <1>2. /\ IsCache(d)
        /\ d.transactions = f /\ d.transactionHashesMap = map
        /\ d.merkleBlocks = c.merkleBlocks /\ d.blocks = c.blocks
        /\ d.blocksProcessed = c.blocksProcessed
        /\ d.unretrievedInstantLocks = c.unretrievedInstantLocks
    BY DEF IsCache
  <1> HIDE DEF d
  <1> QED
    BY <1>1, <1>2 DEF f, map

\* removeTransactionHashFromInstantSendLockWaitingList.
LEMMA RemoveFromWaitingListIs ==
  ASSUME NEW c, IsCache(c), NEW tx
  PROVE  LET d == RemoveFromWaitingList(c, tx)
         IN  /\ IsCache(d)
             /\ d.transactionHashesMap =
                  Restrict(c.transactionHashesMap, DOMAIN c.transactionHashesMap \ {tx})
             /\ d.transactions = c.transactions
             /\ d.merkleBlocks = c.merkleBlocks /\ d.blocks = c.blocks
             /\ d.blocksProcessed = c.blocksProcessed
             /\ d.unretrievedInstantLocks = c.unretrievedInstantLocks
  BY DEF RemoveFromWaitingList, IsCache

\* removeDataByBlock.
LEMMA RemoveDataByBlockIs ==
  ASSUME NEW c, IsCache(c), NEW block
  PROVE  LET d == RemoveDataByBlock(c, block)
         IN  /\ IsCache(d)
             /\ d.transactions = Restrict(c.transactions, DOMAIN c.transactions \ block.txs)
             /\ d.merkleBlocks = RemoveLastWithHash(c.merkleBlocks, block.hash)
             /\ d.blocks = RemoveLastWithHash(c.blocks, block.hash)
             /\ d.transactionHashesMap = c.transactionHashesMap
             /\ d.blocksProcessed = c.blocksProcessed
             /\ d.unretrievedInstantLocks = c.unretrievedInstantLocks
  <1> DEFINE f == Restrict(c.transactions, DOMAIN c.transactions \ block.txs)
             merkle == RemoveLastWithHash(c.merkleBlocks, block.hash)
             blocks == RemoveLastWithHash(c.blocks, block.hash)
             d == [c EXCEPT !.transactions = f, !.merkleBlocks = merkle, !.blocks = blocks]
  <1>1. RemoveDataByBlock(c, block) = d
    BY DEF RemoveDataByBlock
  <1> HIDE DEF f, merkle, blocks
  <1>2. /\ IsCache(d)
        /\ d.transactions = f /\ d.merkleBlocks = merkle /\ d.blocks = blocks
        /\ d.transactionHashesMap = c.transactionHashesMap
        /\ d.blocksProcessed = c.blocksProcessed
        /\ d.unretrievedInstantLocks = c.unretrievedInstantLocks
    BY DEF IsCache
  <1> HIDE DEF d
  <1> QED
    BY <1>1, <1>2 DEF f, merkle, blocks

\* addBlock, first half: the waiting list only loses transactions.
LEMMA AgeWaitingListIs ==
  ASSUME NEW c, IsCache(c)
  PROVE  LET d == AgeWaitingList(c)
         IN  /\ IsCache(d)
             /\ DOMAIN d.transactionHashesMap \subseteq DOMAIN c.transactionHashesMap
             /\ d.transactions = c.transactions
             /\ d.merkleBlocks = c.merkleBlocks /\ d.blocks = c.blocks
             /\ d.unretrievedInstantLocks = c.unretrievedInstantLocks
  <1> DEFINE counted == [c EXCEPT !.blocksProcessed = c.blocksProcessed + 1]
             kept == {tx \in DOMAIN counted.transactionHashesMap : ~ Stale(counted, tx)}
             map == Restrict(counted.transactionHashesMap, kept)
             d == [counted EXCEPT !.transactionHashesMap = map]
  <1>1. AgeWaitingList(c) = d
    BY DEF AgeWaitingList
  <1>2. /\ IsCache(counted)
        /\ counted.transactionHashesMap = c.transactionHashesMap
        /\ counted.transactions = c.transactions
        /\ counted.merkleBlocks = c.merkleBlocks /\ counted.blocks = c.blocks
        /\ counted.unretrievedInstantLocks = c.unretrievedInstantLocks
    BY DEF IsCache
  <1> HIDE DEF counted
  <1>3. DOMAIN map \subseteq DOMAIN c.transactionHashesMap
    BY <1>2, RestrictIs
  <1> HIDE DEF map
  <1>4. /\ IsCache(d)
        /\ d.transactionHashesMap = map
        /\ d.transactions = counted.transactions
        /\ d.merkleBlocks = counted.merkleBlocks /\ d.blocks = counted.blocks
        /\ d.unretrievedInstantLocks = counted.unretrievedInstantLocks
    BY <1>2 DEF IsCache
  <1> HIDE DEF d
  <1> QED
    BY <1>1, <1>2, <1>3, <1>4

\* addBlock, second half: the block and its merkle block.
LEMMA PushBlockIs ==
  ASSUME NEW c, IsCache(c), NEW block
  PROVE  LET d == PushBlock(c, block)
         IN  /\ IsCache(d)
             /\ d.merkleBlocks =
                  Append(c.merkleBlocks, [hash |-> block.hash,
                                          matched |-> block.txs \cap DOMAIN c.transactions,
                                          isRetrieved |-> FALSE])
             /\ d.blocks = Append(c.blocks, block)
             /\ d.transactions = c.transactions
             /\ d.transactionHashesMap = c.transactionHashesMap
             /\ d.blocksProcessed = c.blocksProcessed
             /\ d.unretrievedInstantLocks = c.unretrievedInstantLocks
  <1> DEFINE m == [hash |-> block.hash, matched |-> block.txs \cap DOMAIN c.transactions,
                   isRetrieved |-> FALSE]
             merkle == Append(c.merkleBlocks, m)
             blocks == Append(c.blocks, block)
             d == [c EXCEPT !.merkleBlocks = merkle, !.blocks = blocks]
  <1>1. PushBlock(c, block) = d
    BY DEF PushBlock
  <1> HIDE DEF merkle, blocks
  <1>2. /\ IsCache(d)
        /\ d.merkleBlocks = merkle /\ d.blocks = blocks
        /\ d.transactions = c.transactions
        /\ d.transactionHashesMap = c.transactionHashesMap
        /\ d.blocksProcessed = c.blocksProcessed
        /\ d.unretrievedInstantLocks = c.unretrievedInstantLocks
    BY DEF IsCache
  <1> HIDE DEF d
  <1> QED
    BY <1>1, <1>2 DEF merkle, blocks

\* addInstantLock.
LEMMA AddInstantLockIs ==
  ASSUME NEW c, IsCache(c), NEW tx
  PROVE  LET d == AddInstantLock(c, tx)
         IN  /\ IsCache(d)
             /\ d.unretrievedInstantLocks = c.unretrievedInstantLocks \cup {tx}
             /\ d.transactions = c.transactions
             /\ d.merkleBlocks = c.merkleBlocks /\ d.blocks = c.blocks
             /\ d.transactionHashesMap = c.transactionHashesMap
             /\ d.blocksProcessed = c.blocksProcessed
  BY DEF AddInstantLock, IsCache

\* The three getters of the sending loop.
LEMMA RetrieveIs ==
  ASSUME NEW c, IsCache(c)
  PROVE  LET d == RetrieveMerkleBlocks(RetrieveInstantLocks(RetrieveTransactions(c)))
         IN  /\ IsCache(d)
             /\ d.transactions = [tx \in DOMAIN c.transactions |-> TRUE]
             /\ d.merkleBlocks = [i \in DOMAIN c.merkleBlocks |->
                                    [c.merkleBlocks[i] EXCEPT !.isRetrieved = TRUE]]
             /\ d.unretrievedInstantLocks = {}
             /\ d.blocks = c.blocks
             /\ d.transactionHashesMap = c.transactionHashesMap
             /\ d.blocksProcessed = c.blocksProcessed
  <1> DEFINE f == [tx \in DOMAIN c.transactions |-> TRUE]
             c1 == [c EXCEPT !.transactions = f]
             c2 == [c1 EXCEPT !.unretrievedInstantLocks = {}]
             merkle == [i \in DOMAIN c2.merkleBlocks |->
                          [c2.merkleBlocks[i] EXCEPT !.isRetrieved = TRUE]]
             d == [c2 EXCEPT !.merkleBlocks = merkle]
  <1>1. RetrieveTransactions(c) = c1
    BY DEF RetrieveTransactions
  <1>2. RetrieveInstantLocks(c1) = c2
    BY DEF RetrieveInstantLocks
  <1>3. RetrieveMerkleBlocks(c2) = d
    BY DEF RetrieveMerkleBlocks
  <1> HIDE DEF f
  <1>4. /\ IsCache(c1)
        /\ c1.transactions = f
        /\ c1.merkleBlocks = c.merkleBlocks /\ c1.blocks = c.blocks
        /\ c1.transactionHashesMap = c.transactionHashesMap
        /\ c1.blocksProcessed = c.blocksProcessed
    BY DEF IsCache
  <1> HIDE DEF c1
  <1>5. /\ IsCache(c2)
        /\ c2.transactions = f
        /\ c2.merkleBlocks = c.merkleBlocks /\ c2.blocks = c.blocks
        /\ c2.transactionHashesMap = c.transactionHashesMap
        /\ c2.blocksProcessed = c.blocksProcessed
        /\ c2.unretrievedInstantLocks = {}
    BY <1>4 DEF IsCache
  <1> HIDE DEF c2, merkle
  <1>6. /\ IsCache(d)
        /\ d.transactions = f /\ d.merkleBlocks = merkle
        /\ d.blocks = c.blocks
        /\ d.transactionHashesMap = c.transactionHashesMap
        /\ d.blocksProcessed = c.blocksProcessed
        /\ d.unretrievedInstantLocks = {}
    BY <1>5 DEF IsCache
  <1> HIDE DEF d
  <1>7. merkle = [i \in DOMAIN c.merkleBlocks |->
                    [c.merkleBlocks[i] EXCEPT !.isRetrieved = TRUE]]
    BY <1>5 DEF merkle
  <1> QED
    BY <1>1, <1>2, <1>3, <1>6, <1>7 DEF f
==============================================================================
