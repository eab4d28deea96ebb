------------------------ MODULE CacheAlignment_proofs ------------------------
(***************************************************************************)
(* The block arrays of the cache stay in step and their merkle blocks are   *)
(* backed by cached transactions, for every cacheSize and chain of blocks,  *)
(* as long as no block is announced twice.                                  *)
(***************************************************************************)
EXTENDS CacheCalls_proofs

\* The inductive form, for one cache: no two cached blocks have one hash, and
\* position by position a merkle block is of its block and proves transactions
\* that are in the block and in the cache.
Backed(c) ==
  /\ Len(c.merkleBlocks) = Len(c.blocks)
  /\ \A i, j \in 1..Len(c.blocks) : c.blocks[i].hash = c.blocks[j].hash => i = j
  /\ \A i \in 1..Len(c.blocks) :
       /\ c.merkleBlocks[i].hash = c.blocks[i].hash
       /\ c.merkleBlocks[i].matched \subseteq c.blocks[i].txs
       /\ c.merkleBlocks[i].matched \subseteq DOMAIN c.transactions

BackedInv == ~ repeated => Backed(cache)

---------------------------------------------------------------------------
\* The cache d is the cache c without its position k: one entry of both arrays
\* is gone, and the block's transactions with it.
Without(c, d, k) ==
  /\ k \in 1..Len(c.blocks)
  /\ Len(d.blocks) = Len(c.blocks) - 1
  /\ Len(d.merkleBlocks) = Len(c.blocks) - 1
  /\ \A i \in 1..(Len(c.blocks) - 1) :
       /\ d.blocks[i] = IF i < k THEN c.blocks[i] ELSE c.blocks[i + 1]
       /\ d.merkleBlocks[i] = IF i < k THEN c.merkleBlocks[i] ELSE c.merkleBlocks[i + 1]
  /\ DOMAIN d.transactions = DOMAIN c.transactions \ c.blocks[k].txs

\* Taking a position out takes nothing from the other blocks: they share no
\* transaction.
LEMMA BackedWithout ==
  ASSUME NEW c, c \in Cache, Backed(c), NEW k, NEW d, Without(c, d, k)
  PROVE  Backed(d)
  <1>0. /\ c.blocks \in Seq(Block) /\ Len(c.blocks) \in Nat
        /\ k \in 1..Len(c.blocks)
    BY DEF Cache, Without
  <1> DEFINE from(i) == IF i < k THEN i ELSE i + 1
  <1>1. \A i \in 1..(Len(c.blocks) - 1) :
          /\ from(i) \in 1..Len(c.blocks) /\ from(i) # k
          /\ d.blocks[i] = c.blocks[from(i)]
          /\ d.merkleBlocks[i] = c.merkleBlocks[from(i)]
    BY <1>0, SMTT(30) DEF Without
  <1>2. \A i, j \in 1..(Len(c.blocks) - 1) : from(i) = from(j) => i = j
    BY <1>0
  <1>3. \A n \in 1..Len(c.blocks) : n # k => c.blocks[n].txs \cap c.blocks[k].txs = {}
    <2>1. \A n \in 1..Len(c.blocks) : c.blocks[n] \in Block
      BY <1>0
    <2>2. \A n \in 1..Len(c.blocks) : n # k => c.blocks[n] # c.blocks[k]
      BY <1>0 DEF Backed
    <2> QED
      BY <1>0, <2>1, <2>2, OneChainAssumption
  <1> HIDE DEF from
  <1>4. \A i, j \in 1..(Len(c.blocks) - 1) : d.blocks[i].hash = d.blocks[j].hash => i = j
    <2>1. \A n, m \in 1..Len(c.blocks) : c.blocks[n].hash = c.blocks[m].hash => n = m
      BY DEF Backed
    <2>2. ASSUME NEW i \in 1..(Len(c.blocks) - 1), NEW j \in 1..(Len(c.blocks) - 1),
                 d.blocks[i].hash = d.blocks[j].hash
          PROVE  i = j
      <3>2. /\ from(i) \in 1..Len(c.blocks) /\ d.blocks[i] = c.blocks[from(i)]
            /\ from(j) \in 1..Len(c.blocks) /\ d.blocks[j] = c.blocks[from(j)]
        BY <1>1
      <3>3. c.blocks[from(i)].hash = c.blocks[from(j)].hash
        BY <2>2, <3>2
      <3>1. from(i) = from(j)
        BY <2>1, <3>2, <3>3
      <3> QED
        BY <1>2, <3>1
    <2> QED
      BY <2>2
  <1>5. ASSUME NEW i \in 1..(Len(c.blocks) - 1)
        PROVE  /\ d.merkleBlocks[i].hash = d.blocks[i].hash
               /\ d.merkleBlocks[i].matched \subseteq d.blocks[i].txs
               /\ d.merkleBlocks[i].matched \subseteq DOMAIN d.transactions
    <2>1. PICK n \in 1..Len(c.blocks) :
            n # k /\ d.blocks[i] = c.blocks[n] /\ d.merkleBlocks[i] = c.merkleBlocks[n]
      BY <1>1
    <2>2. /\ c.merkleBlocks[n].hash = c.blocks[n].hash
          /\ c.merkleBlocks[n].matched \subseteq c.blocks[n].txs
          /\ c.merkleBlocks[n].matched \subseteq DOMAIN c.transactions
      BY DEF Backed
    <2> QED
      BY <2>1, <2>2, <1>3 DEF Without
  <1> QED
    BY <1>4, <1>5 DEF Backed, Without

\* removeDataByBlock on a cached block.
LEMMA RemoveDataBacked ==
  ASSUME NEW c \in Cache, Backed(c), NEW k \in 1..Len(c.blocks)
  PROVE  Backed(RemoveDataByBlock(c, c.blocks[k]))
  <1> DEFINE b == c.blocks[k]
             d == RemoveDataByBlock(c, b)
  <1>0. /\ c.blocks \in Seq(Block) /\ c.merkleBlocks \in Seq(MerkleBlock)
        /\ b \in Block /\ Len(c.merkleBlocks) = Len(c.blocks)
    BY DEF Cache, Backed
  <1>1. RemoveLastWithHash(c.blocks, b.hash) = RemoveAt(c.blocks, k)
    <2>1. \A i \in 1..Len(c.blocks) : c.blocks[i].hash = b.hash => i = k
      BY DEF Backed
    <2> QED
      BY <1>0, <2>1, RemoveUnique
  <1>2. RemoveLastWithHash(c.merkleBlocks, b.hash) = RemoveAt(c.merkleBlocks, k)
    <2>1. \A i \in 1..Len(c.merkleBlocks) : c.merkleBlocks[i].hash = b.hash => i = k
      BY <1>0 DEF Backed
    <2>2. k \in 1..Len(c.merkleBlocks) /\ c.merkleBlocks[k].hash = b.hash
      BY <1>0 DEF Backed
    <2> QED
      BY <1>0, <2>1, <2>2, RemoveUnique
  <1>3. d.blocks = RemoveAt(c.blocks, k) /\ d.merkleBlocks = RemoveAt(c.merkleBlocks, k)
    BY <1>1, <1>2 DEF RemoveDataByBlock, Cache
  <1>4. DOMAIN d.transactions = DOMAIN c.transactions \ b.txs
    BY <1>0, RemoveDataByBlockType
  <1>5. /\ Len(RemoveAt(c.blocks, k)) = Len(c.blocks) - 1
        /\ \A i \in 1..(Len(c.blocks) - 1) :
             RemoveAt(c.blocks, k)[i] = IF i < k THEN c.blocks[i] ELSE c.blocks[i + 1]
    BY <1>0, RemoveAtCases
  <1>6. /\ Len(RemoveAt(c.merkleBlocks, k)) = Len(c.blocks) - 1
        /\ \A i \in 1..(Len(c.blocks) - 1) :
             RemoveAt(c.merkleBlocks, k)[i]
               = IF i < k THEN c.merkleBlocks[i] ELSE c.merkleBlocks[i + 1]
    <2> DEFINE m == c.merkleBlocks
    <2>1. m \in Seq(MerkleBlock) /\ k \in 1..Len(m) /\ Len(m) = Len(c.blocks)
      BY <1>0
    <2> HIDE DEF m
    <2>2. /\ Len(RemoveAt(m, k)) = Len(m) - 1
          /\ \A i \in 1..(Len(m) - 1) :
               RemoveAt(m, k)[i] = IF i < k THEN m[i] ELSE m[i + 1]
      BY <2>1, RemoveAtCases
    <2> QED
      BY <2>1, <2>2 DEF m
  <1> HIDE DEF d
  <1>7. Without(c, d, k)
    BY <1>3, <1>4, <1>5, <1>6 DEF Without
  <1>8. Backed(d)
    BY <1>7, BackedWithout
  <1> QED
    BY <1>8 DEF d

\* The block shifted out of addBlock's array is gone before removeDataByBlock
\* looks for it, so that search finds nothing and the other finds position 1.
LEMMA EvictBacked ==
  ASSUME NEW c \in Cache, Backed(c)
  PROVE  Backed(EvictOldest(c))
  <1>0. /\ c.blocks \in Seq(Block) /\ c.merkleBlocks \in Seq(MerkleBlock)
        /\ Len(c.merkleBlocks) = Len(c.blocks) /\ Len(c.blocks) \in Nat
    BY DEF Cache, Backed
  <1>1. CASE Len(c.blocks) > CacheSize
    <2> DEFINE b       == c.blocks[1]
               shifted == [c EXCEPT !.blocks = Tail(c.blocks)]
               d       == RemoveDataByBlock(shifted, b)
    <2>1. c.blocks # << >> /\ 1 \in 1..Len(c.blocks) /\ Head(c.blocks) = b /\ b \in Block
      BY <1>0, <1>1, CacheSizeAssumption
    <2>2. /\ Tail(c.blocks) \in Seq(Block) /\ Len(Tail(c.blocks)) = Len(c.blocks) - 1
          /\ \A i \in 1..(Len(c.blocks) - 1) : Tail(c.blocks)[i] = c.blocks[i + 1]
      BY <1>0, <2>1
    <2>3. /\ shifted \in Cache /\ shifted.blocks = Tail(c.blocks)
          /\ shifted.merkleBlocks = c.merkleBlocks
          /\ shifted.transactions = c.transactions
      BY <2>2 DEF Cache
    <2>4. EvictOldest(c) = d
      BY <1>1, <2>1 DEF EvictOldest
    <2> HIDE DEF shifted
    <2>5. RemoveLastWithHash(Tail(c.blocks), b.hash) = Tail(c.blocks)
      <3>1. \A i \in 1..(Len(c.blocks) - 1) : c.blocks[i + 1].hash # b.hash
        <4>1. \A i \in 1..(Len(c.blocks) - 1) :
                i + 1 \in 1..Len(c.blocks) /\ i + 1 # 1
          BY <1>0
        <4> QED
          BY <2>1, <4>1 DEF Backed
      <3> DEFINE rest == Tail(c.blocks)
                 gone == b.hash
      <3>2. rest \in Seq(Block) /\ \A i \in 1..Len(rest) : rest[i].hash # gone
        BY <2>2, <3>1
      <3> HIDE DEF rest, gone
      <3>3. RemoveLastWithHash(rest, gone) = rest
        BY <3>2, RemoveAbsent
      <3> QED
        BY <3>3 DEF rest, gone
    <2>6. RemoveLastWithHash(c.merkleBlocks, b.hash) = RemoveAt(c.merkleBlocks, 1)
      <3>1. \A i \in 1..Len(c.merkleBlocks) : c.merkleBlocks[i].hash = b.hash => i = 1
        BY <1>0, <2>1 DEF Backed
      <3>2. 1 \in 1..Len(c.merkleBlocks) /\ c.merkleBlocks[1].hash = b.hash
        BY <1>0, <2>1 DEF Backed
      <3> QED
        BY <1>0, <3>1, <3>2, RemoveUnique
    <2>7. d.blocks = Tail(c.blocks) /\ d.merkleBlocks = RemoveAt(c.merkleBlocks, 1)
      BY <2>3, <2>5, <2>6 DEF RemoveDataByBlock, Cache
    <2>8. DOMAIN d.transactions = DOMAIN c.transactions \ b.txs
      BY <2>1, <2>3, RemoveDataByBlockType
    <2>9. /\ Len(RemoveAt(c.merkleBlocks, 1)) = Len(c.blocks) - 1
          /\ \A i \in 1..(Len(c.blocks) - 1) :
               RemoveAt(c.merkleBlocks, 1)[i]
                 = IF i < 1 THEN c.merkleBlocks[i] ELSE c.merkleBlocks[i + 1]
      <3> DEFINE m == c.merkleBlocks
      <3>1. m \in Seq(MerkleBlock) /\ 1 \in 1..Len(m) /\ Len(m) = Len(c.blocks)
        BY <1>0, <2>1
      <3> HIDE DEF m
      <3>2. /\ Len(RemoveAt(m, 1)) = Len(m) - 1
            /\ \A i \in 1..(Len(m) - 1) :
                 RemoveAt(m, 1)[i] = IF i < 1 THEN m[i] ELSE m[i + 1]
        BY <3>1, RemoveAtCases
      <3> QED
        BY <3>1, <3>2 DEF m
    <2> HIDE DEF d
    <2>10. \A i \in 1..(Len(c.blocks) - 1) :
             d.blocks[i] = IF i < 1 THEN c.blocks[i] ELSE c.blocks[i + 1]
      BY <1>0, <2>2, <2>7
    <2>11. Without(c, d, 1)
      BY <2>1, <2>2, <2>7, <2>8, <2>9, <2>10 DEF Without
    <2>12. Backed(d)
      BY <2>11, BackedWithout
    <2> QED
      BY <2>4, <2>12
  <1>2. CASE ~ (Len(c.blocks) > CacheSize)
    BY <1>2 DEF EvictOldest
  <1> QED
    BY <1>1, <1>2

\* addBlock on a block that is not cached.
LEMMA AddBlockBacked ==
  ASSUME NEW c \in Cache, Backed(c), c.blocksProcessed < MaxBlocks,
         NEW b \in Block, b \notin ToSet(c.blocks)
  PROVE  Backed(AddBlock(c, b))
  <1> DEFINE aged   == AgeWaitingList(c)
             pushed == PushBlock(aged, b)
             m      == [hash |-> b.hash, matched |-> b.txs \cap DOMAIN c.transactions,
                        isRetrieved |-> FALSE]
  <1>1. /\ aged \in Cache
        /\ aged.blocks = c.blocks /\ aged.merkleBlocks = c.merkleBlocks
        /\ aged.transactions = c.transactions
    BY AgeWaitingListType
  <1>2. AddBlock(c, b) = IF b.txs \cap DOMAIN c.transactions = {} THEN aged
                                                                 ELSE EvictOldest(pushed)
    BY DEF AddBlock
  <1> HIDE DEF aged
  <1>3. Backed(aged)
    BY <1>1 DEF Backed
  <1>4. /\ pushed \in Cache
        /\ pushed.blocks = Append(c.blocks, b)
        /\ pushed.merkleBlocks = Append(c.merkleBlocks, m)
        /\ pushed.transactions = c.transactions
    BY <1>1, PushBlockType, SMTT(30)
  <1> HIDE DEF pushed
  <1>5. Backed(pushed)
    <2> DEFINE n == Len(c.blocks)
    <2>1. /\ c.blocks \in Seq(Block) /\ c.merkleBlocks \in Seq(MerkleBlock)
          /\ n \in Nat /\ Len(c.merkleBlocks) = n
      BY DEF Cache, Backed
    <2>2. \A i \in 1..n : c.blocks[i].hash # b.hash
      <3>1. \A i \in 1..n : c.blocks[i] \in ToSet(c.blocks) /\ c.blocks[i] \in Block
        BY <2>1 DEF ToSet
      <3> QED
        BY <3>1, BlockAssumption
    <2>3. /\ Len(pushed.blocks) = n + 1 /\ pushed.blocks[n + 1] = b
          /\ \A i \in 1..n : pushed.blocks[i] = c.blocks[i]
      BY <1>4, <2>1
    <2>4. /\ Len(pushed.merkleBlocks) = n + 1 /\ pushed.merkleBlocks[n + 1] = m
          /\ \A i \in 1..n : pushed.merkleBlocks[i] = c.merkleBlocks[i]
      BY <1>4, <2>1
    <2>5. \A i \in 1..(n + 1) : i \in 1..n \/ i = n + 1
      BY <2>1
    <2>6. \A i, j \in 1..n : c.blocks[i].hash = c.blocks[j].hash => i = j
      BY DEF Backed
    <2>7. \A i \in 1..n : /\ c.merkleBlocks[i].hash = c.blocks[i].hash
                          /\ c.merkleBlocks[i].matched \subseteq c.blocks[i].txs
                          /\ c.merkleBlocks[i].matched \subseteq DOMAIN c.transactions
      BY DEF Backed
    <2> HIDE DEF n
    <2>8. \A i, j \in 1..(n + 1) :
            pushed.blocks[i].hash = pushed.blocks[j].hash => i = j
      BY <2>2, <2>3, <2>5, <2>6
    <2>9. \A i \in 1..(n + 1) :
            /\ pushed.merkleBlocks[i].hash = pushed.blocks[i].hash
            /\ pushed.merkleBlocks[i].matched \subseteq pushed.blocks[i].txs
            /\ pushed.merkleBlocks[i].matched \subseteq DOMAIN pushed.transactions
      BY <1>4, <2>3, <2>4, <2>5, <2>7
    <2> QED
      BY <2>3, <2>4, <2>8, <2>9 DEF Backed
  <1> QED
    BY <1>2, <1>3, <1>4, <1>5, EvictBacked

---------------------------------------------------------------------------
\* Every call keeps the merkle blocks backed.
LEMMA NextBacked == IInv /\ BackedInv /\ [Next]_vars => BackedInv'
  <1> SUFFICES ASSUME IInv, BackedInv, [Next]_vars, ~ repeated' PROVE Backed(cache')
    BY DEF BackedInv
  <1>0. cache \in Cache /\ ToSet(cache.blocks) \subseteq announced
    BY DEF IInv, TypeOK
  <1>1. ~ repeated /\ Backed(cache)
    <2>1. repeated' = repeated \/ \E block \in Block : BlockArrives(block)
      BY DEF Next, Match, CollectLock, SendLock, HistoricalBlockSent, Drain, vars
    <2>2. ~ repeated
      BY <2>1 DEF BlockArrives
    <2> QED
      BY <2>2 DEF BackedInv
  <1>2. ASSUME NEW tx \in Tx, Match(tx) PROVE Backed(cache')
    <2>1. /\ cache'.blocks = cache.blocks /\ cache'.merkleBlocks = cache.merkleBlocks
          /\ DOMAIN cache'.transactions = DOMAIN cache.transactions \cup {tx}
      BY <1>0, <1>2, AddTransactionsType DEF Match, AddTransaction
    <2> QED
      BY <1>1, <2>1 DEF Backed
  <1>3. ASSUME NEW tx \in Tx, CollectLock(tx) PROVE Backed(cache')
    <2>1. /\ cache'.blocks = cache.blocks /\ cache'.merkleBlocks = cache.merkleBlocks
          /\ cache'.transactions = cache.transactions
      BY <1>0, <1>3 DEF CollectLock, AddInstantLock, Cache
    <2> QED
      BY <1>1, <2>1 DEF Backed
  <1>4. ASSUME NEW tx \in Tx, SendLock(tx) PROVE Backed(cache')
    <2>1. /\ cache'.blocks = cache.blocks /\ cache'.merkleBlocks = cache.merkleBlocks
          /\ cache'.transactions = cache.transactions
      BY <1>0, <1>4, RemoveFromWaitingListType DEF SendLock
    <2> QED
      BY <1>1, <2>1 DEF Backed
  <1>5. ASSUME NEW block \in Block, BlockArrives(block) PROVE Backed(cache')
    <2>1. /\ cache' = AddBlock(cache, block) /\ cache.blocksProcessed < MaxBlocks
          /\ block \notin announced
      BY <1>5 DEF BlockArrives
    <2> QED
      BY <1>0, <1>1, <2>1, AddBlockBacked
  <1>6. ASSUME NEW block \in Block, HistoricalBlockSent(block) PROVE Backed(cache')
    <2>1. CASE cache' = cache
      BY <1>1, <2>1
    <2>2. ASSUME NEW b \in ToSet(cache.blocks), cache' = RemoveDataByBlock(cache, b)
          PROVE  Backed(cache')
      <3>1. PICK k \in 1..Len(cache.blocks) : b = cache.blocks[k]
        BY <1>0 DEF ToSet, Cache
      <3> QED
        BY <1>0, <1>1, <2>2, <3>1, RemoveDataBacked
    <2> QED
      BY <1>0, <1>6, <2>1, <2>2, RemoveDataByBlockHashCases DEF HistoricalBlockSent
  <1>7. ASSUME Drain PROVE Backed(cache')
    <2>1. /\ cache'.blocks = cache.blocks
          /\ cache'.transactions = [tx \in DOMAIN cache.transactions |-> TRUE]
          /\ cache'.merkleBlocks = [i \in DOMAIN cache.merkleBlocks |->
                                      [cache.merkleBlocks[i] EXCEPT !.isRetrieved = TRUE]]
      BY <1>0, <1>7, DrainedType DEF Drain, Drained
    <2>2. /\ cache.merkleBlocks \in Seq(MerkleBlock)
          /\ Len(cache.merkleBlocks) = Len(cache.blocks)
      BY <1>0, <1>1 DEF Cache, Backed
    <2>3. /\ DOMAIN cache'.transactions = DOMAIN cache.transactions
          /\ Len(cache'.merkleBlocks) = Len(cache.merkleBlocks)
      BY <2>1, <2>2
    <2>4. ASSUME NEW i \in 1..Len(cache.blocks)
          PROVE  /\ cache'.merkleBlocks[i].hash = cache.merkleBlocks[i].hash
                 /\ cache'.merkleBlocks[i].matched = cache.merkleBlocks[i].matched
      <3>1. i \in DOMAIN cache.merkleBlocks /\ cache.merkleBlocks[i] \in MerkleBlock
        BY <2>2
      <3>2. cache'.merkleBlocks[i] = [cache.merkleBlocks[i] EXCEPT !.isRetrieved = TRUE]
        BY <2>1, <3>1
      <3> QED
        BY <3>1, <3>2 DEF MerkleBlock
    <2> QED
      BY <1>1, <2>1, <2>2, <2>3, <2>4 DEF Backed
  <1>8. CASE UNCHANGED vars
    BY <1>1, <1>8 DEF vars
  <1> QED
    BY <1>2, <1>3, <1>4, <1>5, <1>6, <1>7, <1>8 DEF Next

\* In every behaviour, while no block is announced twice.
LEMMA InvariantBacked == Spec => [](IInv /\ BackedInv)
  <1>1. Init => BackedInv
    BY DEF Init, EmptyCache, BackedInv, Backed
  <1>2. IInv /\ BackedInv /\ [Next]_vars => (IInv /\ BackedInv)'
    BY NextIInv, NextBacked
  <1> QED
    BY <1>1, <1>2, InitIInv, PTL DEF Spec

\* blocks and merkleBlocks hold the same blocks in the same places (addBlock,
\* removeDataByBlock).
THEOREM ArraysInStep == Spec => []ArraysAligned
  <1>1. BackedInv /\ IInv => ArraysAligned
    <2> SUFFICES ASSUME BackedInv, IInv, ~ repeated
                 PROVE  /\ Len(cache.merkleBlocks) = Len(cache.blocks)
                        /\ \A i \in DOMAIN cache.blocks :
                             cache.merkleBlocks[i].hash = cache.blocks[i].hash
      BY DEF ArraysAligned
    <2>1. DOMAIN cache.blocks = 1..Len(cache.blocks)
      BY DEF IInv, TypeOK, Cache
    <2> QED
      BY <2>1 DEF BackedInv, Backed
  <1> QED
    BY <1>1, InvariantBacked, PTL

\* What a cached merkle block proves is cached (removeDataByBlock).
THEOREM ProofsAreBacked == Spec => []ProofsBacked
  <1>1. BackedInv /\ IInv => ProofsBacked
    <2> SUFFICES ASSUME BackedInv, IInv, ~ repeated
                 PROVE  \A i \in DOMAIN cache.merkleBlocks :
                          cache.merkleBlocks[i].matched \subseteq DOMAIN cache.transactions
      BY DEF ProofsBacked
    <2>1. DOMAIN cache.merkleBlocks = 1..Len(cache.blocks)
      <3>1. cache.merkleBlocks \in Seq(MerkleBlock)
        BY DEF IInv, TypeOK, Cache
      <3> QED
        BY <3>1 DEF BackedInv, Backed
    <2> QED
      BY <2>1 DEF BackedInv, Backed
  <1> QED
    BY <1>1, InvariantBacked, PTL

==============================================================================
