-------------------------- MODULE CacheCalls_proofs --------------------------
(***************************************************************************)
(* What CacheCalls promises, for every cacheSize, waiting time, set of      *)
(* transactions and chain of blocks.                                        *)
(***************************************************************************)
EXTENDS CacheCalls, CacheMethods_proofs

---------------------------------------------------------------------------
(***************************************************************************)
(* Partial functions and the helpers of TransactionHashesCache.             *)
(***************************************************************************)

\* A partial function is a function whose domain and values are in range.
LEMMA PartialDef ==
  ASSUME NEW S, NEW T, NEW f
  PROVE  f \in Partial(S, T) <=> f \in [DOMAIN f -> T] /\ DOMAIN f \in SUBSET S
  BY DEF Partial

\* putting keys keeps a partial function one.
LEMMA PutIfAbsentType ==
  ASSUME NEW S, NEW T, NEW f \in Partial(S, T), NEW keys \in SUBSET S, NEW value \in T
  PROVE  /\ PutIfAbsent(f, keys, value) \in Partial(S, T)
         /\ DOMAIN PutIfAbsent(f, keys, value) = DOMAIN f \cup keys
  <1>1. f \in [DOMAIN f -> T] /\ DOMAIN f \in SUBSET S
    BY PartialDef
  <1> DEFINE g == PutIfAbsent(f, keys, value)
  <1>2. g \in [DOMAIN f \cup keys -> T]
    BY <1>1 DEF PutIfAbsent
  <1>3. DOMAIN g = DOMAIN f \cup keys
    BY <1>2
  <1>4. g \in [DOMAIN g -> T] /\ DOMAIN g \in SUBSET S
    BY <1>1, <1>2, <1>3
  <1> QED
    BY <1>3, <1>4, PartialDef

\* ... and so does restricting it.
LEMMA RestrictType ==
  ASSUME NEW S, NEW T, NEW f \in Partial(S, T), NEW D \in SUBSET DOMAIN f
  PROVE  /\ Restrict(f, D) \in Partial(S, T)
         /\ DOMAIN Restrict(f, D) = D
  <1>1. f \in [DOMAIN f -> T] /\ DOMAIN f \in SUBSET S
    BY PartialDef
  <1>2. Restrict(f, D) \in [D -> T]
    BY <1>1 DEF Restrict
  <1>3. DOMAIN Restrict(f, D) = D
    BY <1>2
  <1> QED
    BY <1>1, <1>2, <1>3, PartialDef

---------------------------------------------------------------------------
(***************************************************************************)
(* Each method maps a well-formed cache to one; the lemmas also say which    *)
(* of its fields a method leaves alone.                                     *)
(***************************************************************************)

\* What is left after a block's data is removed.
LEMMA RemoveDataByBlockType ==
  ASSUME NEW c \in Cache, NEW b \in Block
  PROVE  LET d == RemoveDataByBlock(c, b)
         IN  /\ d \in Cache
             /\ Len(d.blocks) <= Len(c.blocks)
             /\ ToSet(d.blocks) \subseteq ToSet(c.blocks)
             /\ d.transactionHashesMap = c.transactionHashesMap
             /\ d.blocksProcessed = c.blocksProcessed
             /\ DOMAIN d.transactions = DOMAIN c.transactions \ b.txs
             /\ \A tx \in DOMAIN d.transactions : d.transactions[tx] = c.transactions[tx]
  <1> DEFINE d == RemoveDataByBlock(c, b)
  <1>1. /\ RemoveLastWithHash(c.merkleBlocks, b.hash) \in Seq(MerkleBlock)
        /\ RemoveLastWithHash(c.blocks, b.hash) \in Seq(Block)
        /\ Len(RemoveLastWithHash(c.blocks, b.hash)) <= Len(c.blocks)
        /\ ToSet(RemoveLastWithHash(c.blocks, b.hash)) \subseteq ToSet(c.blocks)
    BY RemoveLastType DEF Cache
  <1> DEFINE kept == DOMAIN c.transactions \ b.txs
  <1>2. c.transactions \in Partial(Tx, BOOLEAN)
    BY DEF Cache
  <1>3. /\ Restrict(c.transactions, kept) \in Partial(Tx, BOOLEAN)
        /\ DOMAIN Restrict(c.transactions, kept) = kept
    BY <1>2, RestrictType
  <1>4. \A tx \in kept : Restrict(c.transactions, kept)[tx] = c.transactions[tx]
    BY DEF Restrict
  <1>5. d = [c EXCEPT !.transactions = Restrict(c.transactions, kept),
                      !.merkleBlocks = RemoveLastWithHash(c.merkleBlocks, b.hash),
                      !.blocks       = RemoveLastWithHash(c.blocks, b.hash)]
    BY DEF RemoveDataByBlock
  <1> HIDE DEF d, kept
  <1>6. d \in Cache
    BY <1>1, <1>3, <1>5 DEF Cache
  <1>7. /\ d.blocks = RemoveLastWithHash(c.blocks, b.hash)
        /\ d.transactions = Restrict(c.transactions, kept)
        /\ d.transactionHashesMap = c.transactionHashesMap
        /\ d.blocksProcessed = c.blocksProcessed
    BY <1>5 DEF Cache
  <1> QED
    BY <1>1, <1>3, <1>4, <1>6, <1>7 DEF d, kept

\* addTransaction (and a forEach of it).
LEMMA AddTransactionsType ==
  ASSUME NEW c \in Cache, NEW txs \in SUBSET Tx
  PROVE  LET d == AddTransactions(c, txs)
         IN  /\ d \in Cache
             /\ d.blocks = c.blocks /\ d.merkleBlocks = c.merkleBlocks
             /\ d.blocksProcessed = c.blocksProcessed
             /\ d.transactions = PutIfAbsent(c.transactions, txs, FALSE)
             /\ DOMAIN d.transactions = DOMAIN c.transactions \cup txs
             /\ d.transactionHashesMap =
                  PutIfAbsent(c.transactionHashesMap, txs, c.blocksProcessed)
  <1> DEFINE transactions == PutIfAbsent(c.transactions, txs, FALSE)
             map == PutIfAbsent(c.transactionHashesMap, txs, c.blocksProcessed)
             d == [c EXCEPT !.transactions = transactions, !.transactionHashesMap = map]
  <1>0. c.transactions \in Partial(Tx, BOOLEAN) /\ FALSE \in BOOLEAN
    BY DEF Cache
  <1>1. transactions \in Partial(Tx, BOOLEAN)
        /\ DOMAIN transactions = DOMAIN c.transactions \cup txs
    <2> DEFINE f == c.transactions
    <2>1. f \in [DOMAIN f -> BOOLEAN] /\ DOMAIN f \in SUBSET Tx
      <3>1. PICK D \in SUBSET Tx : f \in [D -> BOOLEAN]
        BY <1>0 DEF Partial
      <3> QED
        BY <3>1
    <2> HIDE DEF f
    <2>2. PutIfAbsent(f, txs, FALSE) \in [DOMAIN f \cup txs -> BOOLEAN]
      BY <2>1 DEF PutIfAbsent
    <2>3. PutIfAbsent(f, txs, FALSE) \in Partial(Tx, BOOLEAN)
          /\ DOMAIN PutIfAbsent(f, txs, FALSE) = DOMAIN f \cup txs
      BY <2>1, <2>2 DEF Partial
    <2> QED
      BY <2>3 DEF f
  <1>2. map \in Partial(Tx, 0..MaxBlocks)
    BY PutIfAbsentType DEF Cache
  <1>3. AddTransactions(c, txs) = d
    BY DEF AddTransactions
  <1> HIDE DEF transactions, map
  <1>4. d \in Cache
    BY <1>1, <1>2 DEF Cache
  <1>5. /\ d.blocks = c.blocks /\ d.merkleBlocks = c.merkleBlocks
        /\ d.blocksProcessed = c.blocksProcessed
        /\ d.transactions = transactions /\ d.transactionHashesMap = map
    BY DEF Cache
  <1> HIDE DEF d
  <1> QED
    BY <1>1, <1>3, <1>4, <1>5 DEF transactions, map

\* removeTransactionHashFromInstantSendLockWaitingList.
LEMMA RemoveFromWaitingListType ==
  ASSUME NEW c \in Cache, NEW tx \in Tx
  PROVE  LET d == RemoveFromWaitingList(c, tx)
         IN  /\ d \in Cache
             /\ d.blocks = c.blocks /\ d.merkleBlocks = c.merkleBlocks
             /\ d.blocksProcessed = c.blocksProcessed
             /\ d.transactions = c.transactions
             /\ d.transactionHashesMap =
                  Restrict(c.transactionHashesMap, DOMAIN c.transactionHashesMap \ {tx})
  <1> DEFINE map == Restrict(c.transactionHashesMap, DOMAIN c.transactionHashesMap \ {tx})
  <1>1. map \in Partial(Tx, 0..MaxBlocks)
    BY RestrictType DEF Cache
  <1>2. RemoveFromWaitingList(c, tx) = [c EXCEPT !.transactionHashesMap = map]
    BY DEF RemoveFromWaitingList
  <1> HIDE DEF map
  <1> QED
    BY <1>1, <1>2 DEF Cache, map

\* The start of addBlock.
LEMMA AgeWaitingListType ==
  ASSUME NEW c \in Cache, c.blocksProcessed < MaxBlocks
  PROVE  LET d == AgeWaitingList(c)
         IN  /\ d \in Cache
             /\ d.blocks = c.blocks /\ d.merkleBlocks = c.merkleBlocks
             /\ d.blocksProcessed = c.blocksProcessed + 1
             /\ d.transactions = c.transactions
             /\ d.transactionHashesMap =
                  Restrict(c.transactionHashesMap,
                           {tx \in DOMAIN c.transactionHashesMap :
                              ~ (c.transactionHashesMap[tx]
                                   < c.blocksProcessed + 1 - BlocksToStay)})
  <1> DEFINE counted == [c EXCEPT !.blocksProcessed = c.blocksProcessed + 1]
             kept    == {tx \in DOMAIN c.transactionHashesMap :
                           ~ (c.transactionHashesMap[tx] < c.blocksProcessed + 1 - BlocksToStay)}
             map     == Restrict(c.transactionHashesMap, kept)
  <1>1. /\ counted \in Cache
        /\ counted.transactionHashesMap = c.transactionHashesMap
        /\ counted.blocksProcessed = c.blocksProcessed + 1
    BY MaxBlocksAssumption, SMTT(30) DEF Cache
  <1>2. map \in Partial(Tx, 0..MaxBlocks)
    BY RestrictType DEF Cache
  <1>3. AgeWaitingList(c) =
          [counted EXCEPT !.transactionHashesMap =
             Restrict(counted.transactionHashesMap,
                      {tx \in DOMAIN counted.transactionHashesMap : ~ Stale(counted, tx)})]
    BY DEF AgeWaitingList
  <1> HIDE DEF counted
  <1>7. ASSUME NEW tx \in DOMAIN c.transactionHashesMap
        PROVE  Stale(counted, tx) <=>
                 c.transactionHashesMap[tx] < c.blocksProcessed + 1 - BlocksToStay
    <2>1. c.blocksProcessed \in Int /\ BlocksToStay \in Int
      BY BlocksToStayAssumption, MaxBlocksAssumption DEF Cache
    <2> QED
      BY <1>1, <2>1 DEF Stale
  <1>8. {tx \in DOMAIN counted.transactionHashesMap : ~ Stale(counted, tx)} = kept
    BY <1>1, <1>7
  <1>4. AgeWaitingList(c) = [counted EXCEPT !.transactionHashesMap = map]
    BY <1>1, <1>3, <1>8
  <1> HIDE DEF map
  <1> USE DEF counted
  <1>5. AgeWaitingList(c) \in Cache
    BY <1>1, <1>2, <1>4 DEF Cache
  <1>6. /\ AgeWaitingList(c).blocks = c.blocks
        /\ AgeWaitingList(c).merkleBlocks = c.merkleBlocks
        /\ AgeWaitingList(c).blocksProcessed = c.blocksProcessed + 1
        /\ AgeWaitingList(c).transactions = c.transactions
        /\ AgeWaitingList(c).transactionHashesMap = map
    BY <1>4 DEF Cache
  <1> QED
    BY <1>5, <1>6 DEF map

\* The middle of addBlock.
LEMMA PushBlockType ==
  ASSUME NEW c \in Cache, NEW b \in Block
  PROVE  LET d == PushBlock(c, b)
             m == [hash |-> b.hash, matched |-> b.txs \cap DOMAIN c.transactions,
                   isRetrieved |-> FALSE]
         IN  /\ d \in Cache
             /\ d.blocks = Append(c.blocks, b)
             /\ d.merkleBlocks = Append(c.merkleBlocks, m)
             /\ d.blocksProcessed = c.blocksProcessed
             /\ d.transactions = c.transactions
             /\ d.transactionHashesMap = c.transactionHashesMap
  <1> DEFINE m == [hash |-> b.hash, matched |-> b.txs \cap DOMAIN c.transactions,
                   isRetrieved |-> FALSE]
  <1>1. m \in MerkleBlock
    BY BlockAssumption DEF MerkleBlock, BlockHash
  <1>2. PushBlock(c, b) = [c EXCEPT !.merkleBlocks = Append(c.merkleBlocks, m),
                                    !.blocks = Append(c.blocks, b)]
    BY DEF PushBlock
  <1>3. /\ Append(c.merkleBlocks, m) \in Seq(MerkleBlock)
        /\ Append(c.blocks, b) \in Seq(Block)
    BY <1>1 DEF Cache
  <1> HIDE DEF m
  <1> QED
    BY <1>2, <1>3 DEF Cache, m

\* The end of addBlock: the size bound.
LEMMA EvictOldestType ==
  ASSUME NEW c \in Cache, Len(c.blocks) <= CacheSize + 1
  PROVE  LET d == EvictOldest(c)
         IN  /\ d \in Cache
             /\ Len(d.blocks) <= CacheSize
             /\ ToSet(d.blocks) \subseteq ToSet(c.blocks)
             /\ d.blocksProcessed = c.blocksProcessed
             /\ \A tx \in DOMAIN c.transactions \cap DOMAIN d.transactions :
                  d.transactions[tx] = c.transactions[tx]
             /\ d.transactionHashesMap = c.transactionHashesMap
  <1>1. CASE Len(c.blocks) > CacheSize
    <2> DEFINE shifted == [c EXCEPT !.blocks = Tail(c.blocks)]
               first   == Head(c.blocks)
    <2>1. c.blocks \in Seq(Block) /\ c.blocks # << >>
      BY <1>1, CacheSizeAssumption DEF Cache
    <2>2. /\ first \in Block /\ Tail(c.blocks) \in Seq(Block)
          /\ Len(Tail(c.blocks)) = Len(c.blocks) - 1
          /\ \A i \in 1..(Len(c.blocks) - 1) : Tail(c.blocks)[i] = c.blocks[i + 1]
      BY <2>1
    <2>3. ToSet(Tail(c.blocks)) \subseteq ToSet(c.blocks)
      BY <2>1, <2>2 DEF ToSet
    <2>4. /\ shifted \in Cache /\ shifted.blocks = Tail(c.blocks)
          /\ shifted.transactions = c.transactions
          /\ shifted.transactionHashesMap = c.transactionHashesMap
          /\ shifted.blocksProcessed = c.blocksProcessed
      BY <2>2 DEF Cache
    <2>5. EvictOldest(c) = RemoveDataByBlock(shifted, first)
      BY <1>1 DEF EvictOldest
    <2> HIDE DEF shifted, first
    <2>6. Len(shifted.blocks) <= CacheSize /\ Len(shifted.blocks) \in Nat
      BY <2>1, <2>2, <2>4, CacheSizeAssumption
    <2>7. LET d == RemoveDataByBlock(shifted, first)
          IN  /\ d \in Cache
              /\ Len(d.blocks) <= Len(shifted.blocks)
              /\ ToSet(d.blocks) \subseteq ToSet(shifted.blocks)
              /\ d.transactionHashesMap = shifted.transactionHashesMap
              /\ d.blocksProcessed = shifted.blocksProcessed
              /\ \A tx \in DOMAIN d.transactions : d.transactions[tx] = shifted.transactions[tx]
      BY <2>2, <2>4, RemoveDataByBlockType
    <2>8. Len(RemoveDataByBlock(shifted, first).blocks) \in Nat
      BY <2>7 DEF Cache
    <2> QED
      BY <2>3, <2>4, <2>5, <2>6, <2>7, <2>8, CacheSizeAssumption
  <1>2. CASE ~ (Len(c.blocks) > CacheSize)
    <2>1. Len(c.blocks) \in Nat
      BY DEF Cache
    <2> QED
      BY <1>2, <2>1, CacheSizeAssumption DEF EvictOldest
  <1> QED
    BY <1>1, <1>2

\* The waiting list that a block leaves behind.
Aged(c) ==
  Restrict(c.transactionHashesMap,
           {tx \in DOMAIN c.transactionHashesMap :
              ~ (c.transactionHashesMap[tx] < c.blocksProcessed + 1 - BlocksToStay)})

\* addBlock as a whole.
LEMMA AddBlockType ==
  ASSUME NEW c \in Cache, NEW b \in Block,
         c.blocksProcessed < MaxBlocks, Len(c.blocks) <= CacheSize
  PROVE  LET d == AddBlock(c, b)
         IN  /\ d \in Cache
             /\ Len(d.blocks) <= CacheSize
             /\ ToSet(d.blocks) \subseteq ToSet(c.blocks) \cup {b}
             /\ d.blocksProcessed = c.blocksProcessed + 1
             /\ \A tx \in DOMAIN c.transactions \cap DOMAIN d.transactions :
                  d.transactions[tx] = c.transactions[tx]
             /\ d.transactionHashesMap = Aged(c)
  <1> DEFINE aged   == AgeWaitingList(c)
             pushed == PushBlock(aged, b)
  <1>1. /\ aged \in Cache
        /\ aged.blocks = c.blocks
        /\ aged.blocksProcessed = c.blocksProcessed + 1
        /\ aged.transactions = c.transactions
        /\ aged.transactionHashesMap = Aged(c)
    BY AgeWaitingListType DEF Aged
  <1>2. AddBlock(c, b) = IF b.txs \cap DOMAIN c.transactions = {} THEN aged
                                                                 ELSE EvictOldest(pushed)
    BY DEF AddBlock
  <1> HIDE DEF aged
  <1>3. CASE b.txs \cap DOMAIN c.transactions = {}
    BY <1>1, <1>2, <1>3
  <1>4. CASE b.txs \cap DOMAIN c.transactions # {}
    <2>1. /\ pushed \in Cache
          /\ pushed.blocks = Append(c.blocks, b)
          /\ pushed.blocksProcessed = c.blocksProcessed + 1
          /\ pushed.transactions = c.transactions
          /\ pushed.transactionHashesMap = Aged(c)
      <3>1. aged \in Cache /\ b \in Block
        BY <1>1
      <3>2. /\ pushed \in Cache
            /\ pushed.blocks = Append(aged.blocks, b)
            /\ pushed.blocksProcessed = aged.blocksProcessed
            /\ pushed.transactions = aged.transactions
            /\ pushed.transactionHashesMap = aged.transactionHashesMap
        BY <3>1, PushBlockType
      <3> QED
        BY <1>1, <3>2
    <2> HIDE DEF pushed
    <2>2. c.blocks \in Seq(Block) /\ Len(c.blocks) \in Nat
      BY DEF Cache
    <2>3. Len(pushed.blocks) = Len(c.blocks) + 1
      BY <2>1, <2>2
    <2>4. Len(pushed.blocks) <= CacheSize + 1
      BY <2>2, <2>3, CacheSizeAssumption
    <2>5. ToSet(pushed.blocks) \subseteq ToSet(c.blocks) \cup {b}
      BY <2>1, <2>2, <2>3 DEF ToSet
    <2>6. LET d == EvictOldest(pushed)
          IN  /\ d \in Cache
              /\ Len(d.blocks) <= CacheSize
              /\ ToSet(d.blocks) \subseteq ToSet(pushed.blocks)
              /\ d.blocksProcessed = pushed.blocksProcessed
              /\ \A tx \in DOMAIN pushed.transactions \cap DOMAIN d.transactions :
                   d.transactions[tx] = pushed.transactions[tx]
              /\ d.transactionHashesMap = pushed.transactionHashesMap
      BY <2>1, <2>4, EvictOldestType
    <2> QED
      BY <1>2, <1>4, <2>1, <2>5, <2>6
  <1> QED
    BY <1>3, <1>4

\* removeDataByBlockHash removes a block that is cached, or nothing.
LEMMA RemoveDataByBlockHashCases ==
  ASSUME NEW c \in Cache, NEW hash
  PROVE  \/ /\ RemoveDataByBlockHash(c, hash) = c
            /\ \A b \in ToSet(c.blocks) : b.hash # hash
         \/ \E b \in Block : /\ b \in ToSet(c.blocks) /\ b.hash = hash
                             /\ RemoveDataByBlockHash(c, hash) = RemoveDataByBlock(c, b)
  <1> DEFINE found == {b \in ToSet(c.blocks) : b.hash = hash}
  <1>1. CASE found = {}
    BY <1>1 DEF RemoveDataByBlockHash
  <1>2. CASE found # {}
    <2> DEFINE b == CHOOSE x \in found : TRUE
    <2>1. b \in found
      BY <1>2
    <2>2. RemoveDataByBlockHash(c, hash) = RemoveDataByBlock(c, b)
      BY <1>2 DEF RemoveDataByBlockHash
    <2> HIDE DEF b
    <2>3. ToSet(c.blocks) \subseteq Block
      BY DEF Cache, ToSet
    <2> QED
      BY <2>1, <2>2, <2>3
  <1> QED
    BY <1>1, <1>2

\* A turn of the loop changes flags and forgets collected locks.
Drained(c) == RetrieveMerkleBlocks(RetrieveInstantLocks(RetrieveTransactions(c)))

LEMMA DrainedType ==
  ASSUME NEW c \in Cache
  PROVE  LET d == Drained(c)
         IN  /\ d \in Cache
             /\ d.blocks = c.blocks
             /\ d.transactions = [tx \in DOMAIN c.transactions |-> TRUE]
             /\ d.merkleBlocks = [i \in DOMAIN c.merkleBlocks |->
                                    [c.merkleBlocks[i] EXCEPT !.isRetrieved = TRUE]]
             /\ d.blocksProcessed = c.blocksProcessed
             /\ d.transactionHashesMap = c.transactionHashesMap
  <1> DEFINE transactions == [tx \in DOMAIN c.transactions |-> TRUE]
             merkleBlocks == [i \in DOMAIN c.merkleBlocks |->
                                [c.merkleBlocks[i] EXCEPT !.isRetrieved = TRUE]]
  <1>1. transactions \in Partial(Tx, BOOLEAN)
    <2>1. PICK D \in SUBSET Tx : c.transactions \in [D -> BOOLEAN]
      BY DEF Cache, Partial
    <2>2. transactions \in [D -> BOOLEAN]
      BY <2>1
    <2> QED
      BY <2>2 DEF Partial
  <1>2. merkleBlocks \in Seq(MerkleBlock)
    <2>1. c.merkleBlocks \in Seq(MerkleBlock)
      BY DEF Cache
    <2>2. ASSUME NEW i \in 1..Len(c.merkleBlocks)
          PROVE  [c.merkleBlocks[i] EXCEPT !.isRetrieved = TRUE] \in MerkleBlock
      <3>1. c.merkleBlocks[i] \in MerkleBlock
        BY <2>1
      <3>2. \A m \in MerkleBlock : [m EXCEPT !.isRetrieved = TRUE] \in MerkleBlock
        BY DEF MerkleBlock
      <3> QED
        BY <3>1, <3>2
    <2>3. DOMAIN c.merkleBlocks = 1..Len(c.merkleBlocks)
      BY <2>1
    <2> QED
      BY <2>1, <2>2, <2>3
  <1>3. Drained(c) = [c EXCEPT !.transactions = transactions,
                               !.unretrievedInstantLocks = {},
                               !.merkleBlocks = merkleBlocks]
    BY DEF Drained, RetrieveMerkleBlocks, RetrieveInstantLocks, RetrieveTransactions, Cache
  <1> HIDE DEF transactions, merkleBlocks
  <1> QED
    BY <1>1, <1>2, <1>3 DEF Cache, transactions, merkleBlocks

---------------------------------------------------------------------------
(***************************************************************************)
(* The inductive invariant: the cache is well formed, its block array fits   *)
(* and its waiting list is young enough.                                    *)
(***************************************************************************)
IInv == TypeOK /\ BlocksWithinSize /\ WaitingListAge

\* Initially the invariant holds.
LEMMA InitIInv == Init => IInv
  <1> SUFFICES ASSUME Init PROVE IInv
    OBVIOUS
  <1> USE DEF Init, EmptyCache
  <1>1. << >> \in Partial(Tx, BOOLEAN) /\ << >> \in Partial(Tx, 0..MaxBlocks)
    <2>1. << >> \in [{} -> BOOLEAN] /\ << >> \in [{} -> 0..MaxBlocks]
      OBVIOUS
    <2> QED
      BY <2>1 DEF Partial
  <1>2. cache \in Cache
    BY <1>1, MaxBlocksAssumption DEF Cache
  <1>3. ToSet(cache.blocks) = {}
    BY DEF ToSet
  <1>4. TypeOK
    BY <1>2, <1>3 DEF TypeOK
  <1>5. BlocksWithinSize
    BY CacheSizeAssumption DEF BlocksWithinSize
  <1>6. WaitingListAge
    BY DEF WaitingListAge
  <1> QED
    BY <1>4, <1>5, <1>6 DEF IInv

\* Every call keeps it.
LEMMA NextIInv == IInv /\ [Next]_vars => IInv'
  <1> SUFFICES ASSUME IInv, [Next]_vars PROVE IInv'
    OBVIOUS
  <1> USE DEF IInv
  <1>0. /\ cache \in Cache /\ cache.blocksProcessed \in 0..MaxBlocks
        /\ DOMAIN cache.transactionHashesMap \subseteq Tx
        /\ \A tx \in DOMAIN cache.transactionHashesMap :
             cache.transactionHashesMap[tx] \in 0..MaxBlocks
    <2>1. cache \in Cache
      BY DEF TypeOK
    <2>2. cache.transactionHashesMap \in Partial(Tx, 0..MaxBlocks)
      BY <2>1 DEF Cache
    <2>3. PICK D \in SUBSET Tx : cache.transactionHashesMap \in [D -> 0..MaxBlocks]
      BY <2>2 DEF Partial
    <2> QED
      BY <2>1, <2>3 DEF Cache
  <1>1. ASSUME NEW tx \in Tx, Match(tx) PROVE IInv'
    <2>1. /\ cache' \in Cache /\ cache'.blocks = cache.blocks
          /\ cache'.blocksProcessed = cache.blocksProcessed
          /\ cache'.transactionHashesMap =
               PutIfAbsent(cache.transactionHashesMap, {tx}, cache.blocksProcessed)
      BY <1>0, <1>1, AddTransactionsType DEF Match, AddTransaction
    <2>2. TypeOK'
      BY <1>1, <2>1 DEF TypeOK, Match, ToSet
    <2>3. BlocksWithinSize'
      BY <2>1 DEF BlocksWithinSize
    <2>4. WaitingListAge'
      BY <1>0, <2>1, BlocksToStayAssumption, MaxBlocksAssumption
      DEF WaitingListAge, PutIfAbsent
    <2> QED
      BY <2>2, <2>3, <2>4
  <1>2. ASSUME NEW tx \in Tx, CollectLock(tx) PROVE IInv'
    <2>1. /\ cache' \in Cache /\ cache'.blocks = cache.blocks
          /\ cache'.blocksProcessed = cache.blocksProcessed
          /\ cache'.transactionHashesMap = cache.transactionHashesMap
      BY <1>0, <1>2 DEF CollectLock, AddInstantLock, Cache
    <2> QED
      BY <1>2, <2>1 DEF TypeOK, CollectLock, ToSet, BlocksWithinSize, WaitingListAge
  <1>3. ASSUME NEW tx \in Tx, SendLock(tx) PROVE IInv'
    <2>1. /\ cache' \in Cache /\ cache'.blocks = cache.blocks
          /\ cache'.blocksProcessed = cache.blocksProcessed
          /\ cache'.transactionHashesMap =
               Restrict(cache.transactionHashesMap, DOMAIN cache.transactionHashesMap \ {tx})
      BY <1>0, <1>3, RemoveFromWaitingListType DEF SendLock
    <2>2. WaitingListAge'
      BY <2>1 DEF WaitingListAge, Restrict
    <2> QED
      BY <1>3, <2>1, <2>2 DEF TypeOK, SendLock, ToSet, BlocksWithinSize
  <1>4. ASSUME NEW block \in Block, BlockArrives(block) PROVE IInv'
    <2>1. /\ cache' \in Cache
          /\ Len(cache'.blocks) <= CacheSize
          /\ ToSet(cache'.blocks) \subseteq ToSet(cache.blocks) \cup {block}
          /\ cache'.blocksProcessed = cache.blocksProcessed + 1
          /\ cache'.transactionHashesMap = Aged(cache)
      BY <1>0, <1>4, AddBlockType DEF BlockArrives, BlocksWithinSize
    <2>2. TypeOK'
      BY <1>4, <2>1 DEF TypeOK, BlockArrives
    <2>3. WaitingListAge'
      BY <1>0, <2>1, BlocksToStayAssumption, MaxBlocksAssumption
      DEF WaitingListAge, Aged, Restrict
    <2> QED
      BY <2>1, <2>2, <2>3 DEF BlocksWithinSize
  <1>5. ASSUME NEW block \in Block, HistoricalBlockSent(block) PROVE IInv'
    <2>1. CASE cache' = cache
      BY <1>5, <2>1 DEF HistoricalBlockSent, TypeOK, ToSet, BlocksWithinSize, WaitingListAge
    <2>2. ASSUME NEW b \in Block, cache' = RemoveDataByBlock(cache, b)
          PROVE  IInv'
      <3>1. /\ cache' \in Cache
            /\ Len(cache'.blocks) <= Len(cache.blocks)
            /\ ToSet(cache'.blocks) \subseteq ToSet(cache.blocks)
            /\ cache'.transactionHashesMap = cache.transactionHashesMap
            /\ cache'.blocksProcessed = cache.blocksProcessed
        BY <1>0, <2>2, RemoveDataByBlockType
      <3>2. Len(cache'.blocks) \in Nat /\ Len(cache.blocks) \in Nat
        BY <1>0, <3>1 DEF Cache
      <3>3. BlocksWithinSize'
        BY <3>1, <3>2, CacheSizeAssumption DEF BlocksWithinSize
      <3> QED
        BY <1>5, <3>1, <3>3 DEF TypeOK, HistoricalBlockSent, WaitingListAge
    <2> QED
      BY <1>0, <1>5, <2>1, <2>2, RemoveDataByBlockHashCases DEF HistoricalBlockSent
  <1>6. ASSUME Drain PROVE IInv'
    <2>1. /\ cache' \in Cache /\ cache'.blocks = cache.blocks
          /\ cache'.blocksProcessed = cache.blocksProcessed
          /\ cache'.transactionHashesMap = cache.transactionHashesMap
      BY <1>0, <1>6, DrainedType DEF Drain, Drained
    <2> QED
      BY <1>6, <2>1 DEF TypeOK, Drain, ToSet, BlocksWithinSize, WaitingListAge
  <1>7. CASE UNCHANGED vars
    BY <1>7 DEF vars, TypeOK, ToSet, BlocksWithinSize, WaitingListAge
  <1> QED
    BY <1>1, <1>2, <1>3, <1>4, <1>5, <1>6, <1>7 DEF Next

\* The inductive invariant is one.
LEMMA InvariantIInv == Spec => []IInv
  BY InitIInv, NextIInv, PTL DEF Spec

\* The cache stays well formed: partial maps of matching transactions, arrays
\* of announced blocks and of their merkle blocks (TransactionHashesCache.js).
THEOREM TypeCorrect == Spec => []TypeOK
  <1>1. IInv => TypeOK
    BY DEF IInv
  <1> QED
    BY <1>1, InvariantIInv, PTL

\* Whatever the order of calls, also when blocks are announced again, the
\* block array never outgrows cacheSize (addBlock, removeDataByBlock).
THEOREM BlocksBounded == Spec => []BlocksWithinSize
  <1>1. IInv => BlocksWithinSize
    BY DEF IInv
  <1> QED
    BY <1>1, InvariantIInv, PTL

\* No transaction waits for its instant lock through more than BlocksToStay
\* blocks (addBlock's removal loop).
THEOREM WaitingBounded == Spec => []WaitingListAge
  <1>1. IInv => WaitingListAge
    BY DEF IInv
  <1> QED
    BY <1>1, InvariantIInv, PTL

\* While it stays cached, a transaction that was handed to the sending loop is
\* not handed to it again (addTransaction's isAdded, getUnretrievedTransactions).
THEOREM NeverRetrievedAgain == Spec => RetrievedOnce
  <1> DEFINE A == \A tx \in DOMAIN cache.transactions \cap DOMAIN cache'.transactions :
                    cache.transactions[tx] => cache'.transactions[tx]
  <1>1. IInv /\ [Next]_vars => [A]_vars
    <2> SUFFICES ASSUME IInv, Next PROVE A
      OBVIOUS
    <2>0. cache \in Cache /\ Len(cache.blocks) <= CacheSize
      BY DEF IInv, TypeOK, BlocksWithinSize
    <2>1. ASSUME NEW tx \in Tx, Match(tx) PROVE A
      <3>1. cache'.transactions = PutIfAbsent(cache.transactions, {tx}, FALSE)
        BY <2>0, <2>1, AddTransactionsType DEF Match, AddTransaction
      <3> QED
        BY <3>1 DEF PutIfAbsent
    <2>2. ASSUME NEW tx \in Tx, CollectLock(tx) \/ SendLock(tx) PROVE A
      <3>1. cache'.transactions = cache.transactions
        BY <2>0, <2>2, RemoveFromWaitingListType DEF CollectLock, SendLock, AddInstantLock, Cache
      <3> QED
        BY <3>1
    <2>3. ASSUME NEW block \in Block, BlockArrives(block) PROVE A
      <3>1. \A tx \in DOMAIN cache.transactions \cap DOMAIN cache'.transactions :
              cache'.transactions[tx] = cache.transactions[tx]
        BY <2>0, <2>3, AddBlockType DEF BlockArrives
      <3> QED
        BY <3>1
    <2>4. ASSUME NEW block \in Block, HistoricalBlockSent(block) PROVE A
      <3>1. ASSUME NEW b \in Block, cache' = RemoveDataByBlock(cache, b) PROVE A
        <4>1. \A tx \in DOMAIN cache'.transactions :
                cache'.transactions[tx] = cache.transactions[tx]
          BY <2>0, <3>1, RemoveDataByBlockType
        <4> QED
          BY <4>1
      <3>2. CASE cache' = cache
        BY <3>2
      <3> QED
        BY <2>0, <2>4, <3>1, <3>2, RemoveDataByBlockHashCases DEF HistoricalBlockSent
    <2>5. ASSUME Drain PROVE A
      <3>1. cache'.transactions = [tx \in DOMAIN cache.transactions |-> TRUE]
        BY <2>0, <2>5, DrainedType DEF Drain, Drained
      <3> QED
        BY <3>1
    <2> QED
      BY <2>1, <2>2, <2>3, <2>4, <2>5 DEF Next
  <1> QED
    BY <1>1, InvariantIInv, PTL DEF Spec, RetrievedOnce

---------------------------------------------------------------------------
(***************************************************************************)
(* transactionHashesMap and blocksProcessed implement InstantLockWaitingList *)
(* under age = blocksProcessed - transactionHashesMap[tx].                   *)
(***************************************************************************)
\* A call that changes neither field is a stuttering step of the waiting list;
\* addTransaction, the removal and addBlock are its three actions.
THEOREM WaitingListImplemented == Spec => ImplementsWaitingList
  <1> DEFINE age == [tx \in DOMAIN cache.transactionHashesMap |->
                       cache.blocksProcessed - cache.transactionHashesMap[tx]]
  <1>1. Init => WaitingList!Init
    BY DEF Init, EmptyCache, WaitingList!Init
  <1>2. IInv /\ [Next]_vars => [WaitingList!Next]_age
    <2> SUFFICES ASSUME IInv, [Next]_vars PROVE WaitingList!Next \/ age' = age
      OBVIOUS
    <2> DEFINE map == cache.transactionHashesMap
               now == cache.blocksProcessed
    <2>0. /\ cache \in Cache /\ Len(cache.blocks) <= CacheSize
          /\ now \in Nat /\ \A tx \in DOMAIN map : map[tx] \in Nat
      <3>1. cache \in Cache /\ Len(cache.blocks) <= CacheSize
        BY DEF IInv, TypeOK, BlocksWithinSize
      <3>2. PICK D \in SUBSET Tx : map \in [D -> 0..MaxBlocks]
        BY <3>1 DEF Cache, Partial
      <3> QED
        BY <3>1, <3>2 DEF Cache
    <2>1. ASSUME NEW tx \in Tx, Match(tx) PROVE WaitingList!Next \/ age' = age
      <3>1. /\ map' = PutIfAbsent(map, {tx}, now)
            /\ now' = now
        BY <2>0, <2>1, AddTransactionsType DEF Match, AddTransaction
      <3>2. CASE tx \in DOMAIN map
        BY <3>1, <3>2 DEF PutIfAbsent
      <3>3. CASE tx \notin DOMAIN map
        <4>1. age' = [t \in DOMAIN age \cup {tx} |-> IF t = tx THEN 0 ELSE age[t]]
          BY <2>0, <3>1, <3>3 DEF PutIfAbsent
        <4> QED
          BY <3>3, <4>1 DEF WaitingList!Next, WaitingList!StartWaiting
      <3> QED
        BY <3>2, <3>3
    <2>2. ASSUME NEW tx \in Tx, CollectLock(tx) PROVE age' = age
      BY <2>0, <2>2 DEF CollectLock, AddInstantLock, Cache
    <2>3. ASSUME NEW tx \in Tx, SendLock(tx) PROVE WaitingList!Next
      <3>1. /\ map' = Restrict(map, DOMAIN map \ {tx})
            /\ now' = now /\ tx \in DOMAIN map
        BY <2>0, <2>3, RemoveFromWaitingListType DEF SendLock, IsInInstantLockCache
      <3>2. age' = Restrict(age, DOMAIN age \ {tx}) /\ tx \in DOMAIN age
        BY <3>1 DEF Restrict
      <3> QED
        BY <3>2 DEF WaitingList!Next, WaitingList!StopWaiting, Restrict, WaitingList!Restrict
    <2>4. ASSUME NEW block \in Block, BlockArrives(block) PROVE WaitingList!Next
      <3>1. map' = Aged(cache) /\ now' = now + 1
        BY <2>0, <2>4, AddBlockType DEF BlockArrives
      <3>2. \A tx \in DOMAIN map :
              ~ (map[tx] < now + 1 - BlocksToStay) <=> age[tx] < BlocksToStay
        BY <2>0, BlocksToStayAssumption
      <3>3. {tx \in DOMAIN map : ~ (map[tx] < now + 1 - BlocksToStay)}
              = {tx \in DOMAIN age : age[tx] < BlocksToStay}
        BY <3>2
      <3> DEFINE kept == {tx \in DOMAIN age : age[tx] < BlocksToStay}
      <3>5. map' = [tx \in kept |-> map[tx]]
        BY <3>1, <3>3 DEF Aged, Restrict
      <3>6. \A tx \in kept : map[tx] \in Nat /\ age[tx] = now - map[tx]
        BY <2>0
      <3> HIDE DEF kept
      <3>8. DOMAIN map' = kept /\ \A tx \in kept : map'[tx] = map[tx]
        BY <3>5
      <3>9. age' = [tx \in DOMAIN map' |-> now' - map'[tx]]
        OBVIOUS
      <3>7. \A tx \in kept : now' - map'[tx] = age[tx] + 1
        <4>1. now' = now + 1
          BY <3>1
        <4>2. ASSUME NEW tx \in kept PROVE now' - map'[tx] = age[tx] + 1
          <5>1. map'[tx] = map[tx]
            BY <3>8
          <5>2. map[tx] \in Nat /\ age[tx] = now - map[tx]
            BY <3>6
          <5> HIDE DEF map, now, age
          <5> QED
            BY <2>0, <4>1, <5>1, <5>2
        <4> QED
          BY <4>2
      <3>4. age' = [tx \in kept |-> age[tx] + 1]
        BY <3>7, <3>8, <3>9
      <3> QED
        BY <3>4 DEF kept, WaitingList!Next, WaitingList!BlockGoesBy
    <2>5. ASSUME NEW block \in Block, HistoricalBlockSent(block) PROVE age' = age
      <3>1. CASE cache' = cache
        BY <3>1
      <3>2. ASSUME NEW b \in Block, cache' = RemoveDataByBlock(cache, b) PROVE age' = age
        BY <2>0, <3>2, RemoveDataByBlockType
      <3> QED
        BY <2>0, <2>5, <3>1, <3>2, RemoveDataByBlockHashCases DEF HistoricalBlockSent
    <2>6. ASSUME Drain PROVE age' = age
      BY <2>0, <2>6, DrainedType DEF Drain, Drained
    <2>7. CASE UNCHANGED vars
      BY <2>7 DEF vars
    <2> QED
      BY <2>1, <2>2, <2>3, <2>4, <2>5, <2>6, <2>7 DEF Next
  <1> QED
    BY <1>1, <1>2, InvariantIInv, PTL DEF Spec, ImplementsWaitingList, WaitingList!Spec

==============================================================================
